----------------------------- MODULE CountProofs ----------------------------
(***************************************************************************)
(* How often an item occurs in a sequence, and what the operations of the  *)
(* queue and its clients do to that number.  Invariants that say where an  *)
(* item is, and that it is there once, are sums of such numbers.           *)
(***************************************************************************)
EXTENDS SizedQueueProofs, FiniteSetTheorems, FunctionTheorems

Places(s, d) == {i \in DOMAIN s : s[i] = d}

Count(s, d) == Cardinality(Places(s, d))

LEMMA PlacesFinite ==
  ASSUME NEW S, NEW s \in Seq(S), NEW d
  PROVE  IsFiniteSet(Places(s, d)) /\ Places(s, d) \subseteq 1..Len(s)
<1>1. Len(s) \in Nat /\ DOMAIN s = 1..Len(s)
  BY LenProperties
<1>2. IsFiniteSet(1..Len(s))
  BY <1>1, FS_Interval
<1> QED
  BY <1>1, <1>2, FS_Subset DEF Places

LEMMA CountType ==
  ASSUME NEW S, NEW s \in Seq(S), NEW d
  PROVE  Count(s, d) \in Nat
BY PlacesFinite, FS_CardinalityType DEF Count

LEMMA CountEmpty ==
  ASSUME NEW d PROVE Count(<<>>, d) = 0
<1>1. Places(<<>>, d) = {}
  BY DEF Places
<1> QED
  BY <1>1, FS_EmptySet DEF Count

LEMMA CountSingle ==
  ASSUME NEW x, NEW d PROVE Count(<<x>>, d) = IF x = d THEN 1 ELSE 0
<1>1. Places(<<x>>, d) = IF x = d THEN {1} ELSE {}
  BY DEF Places
<1> QED
  BY <1>1, FS_EmptySet, FS_Singleton DEF Count

(* An item is in a sequence exactly when it occurs in it.                  *)
LEMMA CountMember ==
  ASSUME NEW S, NEW s \in Seq(S), NEW d
  PROVE  d \in ToSet(s) <=> Count(s, d) # 0
<1>1. d \in ToSet(s) <=> Places(s, d) # {}
  BY DEF ToSet, Places
<1> QED
  BY <1>1, PlacesFinite, FS_EmptySet DEF Count

(* A set moved along the integers keeps its size.                          *)
LEMMA ShiftCardinality ==
  ASSUME NEW A \in SUBSET Int, NEW B \in SUBSET Int, NEW k \in Int, IsFiniteSet(A),
         \A j \in Int : j \in B <=> j - k \in A
  PROVE  IsFiniteSet(B) /\ Cardinality(B) = Cardinality(A)
<1> DEFINE f == [i \in A |-> i + k]
<1>1. \A i \in A : i + k \in B
  <2>1. \A i \in A : i + k \in Int /\ (i + k) - k = i
    OBVIOUS
  <2> QED
    BY <2>1
<1>2. f \in [A -> B]
  BY <1>1
<1>3. ASSUME NEW a \in A, NEW b \in A, f[a] = f[b] PROVE a = b
  BY <1>3
<1>4. ASSUME NEW j \in B PROVE \E i \in A : f[i] = j
  <2>1. j - k \in A /\ (j - k) + k = j
    OBVIOUS
  <2> QED
    BY <2>1
<1>5. ExistsBijection(A, B)
  <2>1. f \in Bijection(A, B)
    <3> HIDE DEF f
    <3> QED
      BY <1>2, <1>3, <1>4, Fun_IsBij
  <2> QED
    BY <2>1, Fun_ExistsBij
<1> QED
  BY <1>5, FS_Bijection

(* Occurrences add up over a concatenation.                                *)
LEMMA CountConcat ==
  ASSUME NEW S, NEW a \in Seq(S), NEW b \in Seq(S), NEW d
  PROVE  Count(a \o b, d) = Count(a, d) + Count(b, d)
<1> DEFINE ab == a \o b
           A == Places(a, d)
           B == Places(b, d)
           C == {j \in 1..Len(ab) : j > Len(a) /\ ab[j] = d}
<1>1. /\ ab \in Seq(S) /\ Len(ab) = Len(a) + Len(b)
      /\ \A i \in 1..(Len(a) + Len(b)) :
           ab[i] = IF i <= Len(a) THEN a[i] ELSE b[i - Len(a)]
  BY ConcatProperties
<1>2. /\ Len(a) \in Nat /\ Len(b) \in Nat
      /\ DOMAIN a = 1..Len(a) /\ DOMAIN b = 1..Len(b)
  BY LenProperties
<1> HIDE DEF ab
<1>3. DOMAIN ab = 1..Len(ab)
  BY <1>1, LenProperties
<1>4. Places(ab, d) = A \cup C
  BY <1>1, <1>2, <1>3 DEF Places
<1>5. A \cap C = {}
  BY <1>2 DEF Places
<1>6. IsFiniteSet(A) /\ IsFiniteSet(B) /\ Count(a, d) \in Nat /\ Count(b, d) \in Nat
  BY PlacesFinite, CountType
<1>7. IsFiniteSet(C) /\ Cardinality(C) = Count(b, d)
  <2>1. ASSUME NEW j \in Int PROVE j \in C <=> j - Len(a) \in B
    <3>1. j \in C <=> j \in (Len(a) + 1)..(Len(a) + Len(b)) /\ ab[j] = d
      BY <1>1, <1>2
    <3>2. j - Len(a) \in B <=> j \in (Len(a) + 1)..(Len(a) + Len(b)) /\ b[j - Len(a)] = d
      BY <1>2 DEF Places
    <3>3. j \in (Len(a) + 1)..(Len(a) + Len(b)) => ab[j] = b[j - Len(a)]
      BY <1>1, <1>2
    <3> QED
      BY <3>1, <3>2, <3>3
  <2>2. B \in SUBSET Int /\ C \in SUBSET Int /\ Len(a) \in Int
    BY <1>1, <1>2 DEF Places
  <2> HIDE DEF B, C
  <2>3. IsFiniteSet(C) /\ Cardinality(C) = Cardinality(B)
    BY <1>6, <2>1, <2>2, ShiftCardinality
  <2> QED
    BY <2>3 DEF Count, B
<1> HIDE DEF C
<1>8. Cardinality(A \cup C) = Count(a, d) + Count(b, d)
  <2>1. Cardinality(A \cup C) = Cardinality(A) + Cardinality(C) - Cardinality(A \cap C)
    BY <1>6, <1>7, FS_Union
  <2>2. Cardinality(A \cap C) = 0
    BY <1>5, FS_EmptySet
  <2>3. Cardinality(A) = Count(a, d)
    BY DEF Count
  <2> HIDE DEF A
  <2> QED
    BY <1>6, <1>7, <2>1, <2>2, <2>3
<1> QED
  BY <1>4, <1>8 DEF Count, ab

(* Reading a sequence back to front moves its items and keeps them.        *)
LEMMA CountReverse ==
  ASSUME NEW S, NEW s \in Seq(S), NEW d
  PROVE  Count(Reverse(s), d) = Count(s, d)
<1> DEFINE r == Reverse(s)
           L == Len(s)
           A == Places(s, d)
           B == Places(r, d)
           f == [i \in A |-> L - i + 1]
<1>1. r \in Seq(S) /\ Len(r) = L /\ \A i \in 1..L : r[i] = s[L - i + 1]
  BY ReverseProperties
<1> HIDE DEF r
<1>2. L \in Nat /\ DOMAIN s = 1..L /\ DOMAIN r = 1..L
  BY <1>1, LenProperties
<1>3. A = {i \in 1..L : s[i] = d} /\ B = {i \in 1..L : s[L - i + 1] = d}
  BY <1>1, <1>2 DEF Places
<1> HIDE DEF L
<1>4. ASSUME NEW i \in A PROVE L - i + 1 \in B
  <2>1. i \in 1..L /\ L - i + 1 \in 1..L /\ L - (L - i + 1) + 1 = i
    BY <1>2, <1>3
  <2> QED
    BY <1>3, <2>1
<1>5. ASSUME NEW j \in B PROVE L - j + 1 \in A /\ f[L - j + 1] = j
  <2>1. j \in 1..L /\ L - j + 1 \in 1..L /\ L - (L - j + 1) + 1 = j
    BY <1>2, <1>3
  <2> QED
    BY <1>3, <2>1
<1>6. f \in [A -> B]
  BY <1>4
<1>7. ASSUME NEW i \in A, NEW j \in A, f[i] = f[j] PROVE i = j
  <2>1. i \in Int /\ j \in Int
    BY <1>3
  <2> QED
    BY <1>2, <1>7, <2>1
<1>8. f \in Bijection(A, B)
  <2> HIDE DEF f, A, B
  <2> QED
    BY <1>5, <1>6, <1>7, Fun_IsBij
<1>9. ExistsBijection(A, B)
  BY <1>8, Fun_ExistsBij
<1>10. IsFiniteSet(A)
  BY PlacesFinite
<1>11. Cardinality(B) = Cardinality(A)
  BY <1>9, <1>10, FS_Bijection
<1> QED
  BY <1>11 DEF Count, r

(* What push(vector) moves and what it keeps.                              *)
LEMMA CountCut ==
  ASSUME NEW S, NEW v \in Seq(S), NEW n \in 0..Len(v), NEW d
  PROVE  Count(Appended(v, n), d) + Count(Kept(v, n), d) = Count(v, d)
<1>1. /\ Appended(v, n) \in Seq(S) /\ Kept(v, n) \in Seq(S)
      /\ Appended(v, n) \o Reverse(Kept(v, n)) = Reverse(v)
  BY CutProperties
<1> DEFINE moved == Appended(v, n)
           later == Reverse(Kept(v, n))
<1>2. moved \in Seq(S) /\ later \in Seq(S)
  BY <1>1, ReverseProperties
<1>3. Count(Reverse(v), d) = Count(moved, d) + Count(later, d)
  <2>1. Count(moved \o later, d) = Count(moved, d) + Count(later, d)
    <3> HIDE DEF moved, later
    <3> QED
      BY <1>2, CountConcat
  <2> QED
    BY <1>1, <2>1
<1>4. Count(Reverse(v), d) = Count(v, d)
  BY CountReverse
<1>5. Count(Reverse(Kept(v, n)), d) = Count(Kept(v, n), d)
  BY <1>1, CountReverse
<1> QED
  BY <1>3, <1>4, <1>5

(* The front of the deque and the rest.                                    *)
LEMMA CountFront ==
  ASSUME NEW S, NEW s \in Seq(S), s # <<>>, NEW d
  PROVE  Count(s, d) = Count(<<Head(s)>>, d) + Count(Tail(s), d)
<1>1. Head(s) \in S /\ Tail(s) \in Seq(S)
  BY HeadTailProperties
<1> DEFINE first == <<Head(s)>>
           rest == Tail(s)
<1>2. first \in Seq(S) /\ rest \in Seq(S) /\ first \o rest = s
  BY <1>1
<1>3. Count(first \o rest, d) = Count(first, d) + Count(rest, d)
  <2> HIDE DEF first, rest
  <2> QED
    BY <1>2, CountConcat
<1> QED
  BY <1>2, <1>3

LEMMA CountAppend ==
  ASSUME NEW S, NEW s \in Seq(S), NEW x \in S, NEW d
  PROVE  Count(Append(s, x), d) = Count(s, d) + Count(<<x>>, d)
<1> DEFINE last == <<x>>
<1>1. Append(s, x) = s \o last /\ last \in Seq(S)
  BY AppendIsConcat
<1>2. Count(s \o last, d) = Count(s, d) + Count(last, d)
  <2> HIDE DEF last
  <2> QED
    BY <1>1, CountConcat
<1> QED
  BY <1>1, <1>2

(* A sequence in which every item occurs once at most is injective.        *)
LEMMA CountInjective ==
  ASSUME NEW S, NEW s \in Seq(S), \A d \in S : Count(s, d) <= 1
  PROVE  IsInjective(s)
<1> SUFFICES ASSUME NEW i \in DOMAIN s, NEW j \in DOMAIN s, s[i] = s[j], i # j
             PROVE  FALSE
  BY DEF IsInjective
<1>1. s[i] \in S
  BY LenProperties
<1> DEFINE P == Places(s, s[i])
<1>2. {i, j} \subseteq P
  BY DEF Places
<1>3. IsFiniteSet(P) /\ Cardinality(P) <= 1
  BY <1>1, PlacesFinite DEF Count
<1> HIDE DEF P
<1>4. Cardinality(P) \in {0, 1}
  BY <1>3, FS_CardinalityType
<1>5. P = {} \/ \E x : P = {x}
  BY <1>3, <1>4, FS_EmptySet, FS_Singleton
<1> QED
  BY <1>2, <1>5

(* And the other way round.                                                *)
LEMMA InjectiveCount ==
  ASSUME NEW S, NEW s \in Seq(S), IsInjective(s), NEW d
  PROVE  Count(s, d) <= 1
<1>1. CASE Places(s, d) = {}
  BY <1>1, FS_EmptySet DEF Count
<1>2. CASE Places(s, d) # {}
  <2>1. PICK i : i \in Places(s, d)
    BY <1>2
  <2>2. Places(s, d) = {i}
    BY <2>1 DEF Places, IsInjective
  <2>3. Cardinality({i}) = 1
    BY FS_Singleton
  <2> QED
    BY <2>2, <2>3 DEF Count
<1> QED
  BY <1>1, <1>2
=============================================================================
