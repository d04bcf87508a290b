-------------------------- MODULE SizedQueueProofs --------------------------
(***************************************************************************)
(* Facts about the operators of SizedQueue that every proof about a client *)
(* of the queue needs: what a notification does to the waiting threads,    *)
(* how much push(vector) moves, and how it cuts a vector up.               *)
(***************************************************************************)
EXTENDS SizedQueue, SequenceTheorems, TLAPS

(* Reversing a sequence, as do push(vector)'s calls of items.back().       *)
LEMMA ReverseProperties ==
  ASSUME NEW S, NEW s \in Seq(S)
  PROVE  /\ Reverse(s) \in Seq(S)
         /\ Len(Reverse(s)) = Len(s)
         /\ \A i \in 1..Len(s) : Reverse(s)[i] = s[Len(s) - i + 1]
<1>1. \A i \in 1..Len(s) : s[(Len(s) - i) + 1] \in S
  BY LenProperties
<1>2. Reverse(s) \in [1..Len(s) -> S]
  BY <1>1 DEF Reverse
<1>3. Reverse(s) \in Seq(S)
  BY <1>2, LenProperties, SeqDef
<1>4. Len(Reverse(s)) = Len(s)
  BY <1>2, <1>3, LenProperties
<1> QED
  BY <1>3, <1>4, LenProperties DEF Reverse

(* The loop of push(vector) moves between none and all of the items, some  *)
(* whenever there are items and room, and never past the limit.            *)
LEMMA MovedProperties ==
  ASSUME NEW S, queue \in Seq(S), NEW items \in Seq(S)
  PROVE  /\ Moved(items) \in 0..Len(items)
         /\ Len(queue) <= LimitSize => Len(queue) + Moved(items) <= LimitSize
         /\ items # <<>> /\ ~Full => Moved(items) # 0
<1>1. Len(queue) \in Nat /\ Len(items) \in Nat /\ LimitSize \in Nat
  BY LenProperties, LimitSizeIsNat
<1>2. items # <<>> => Len(items) # 0
  BY EmptySeq
<1> QED
  BY <1>1, <1>2 DEF Moved, Full

(* Cutting n items off the back of a vector and appending them back to     *)
(* front: what is appended, followed by what would be appended later, is   *)
(* the vector back to front, wherever the cut is.                          *)
LEMMA CutProperties ==
  ASSUME NEW S, NEW items \in Seq(S), NEW n \in 0..Len(items)
  PROVE  /\ Kept(items, n) \in Seq(S)
         /\ Len(Kept(items, n)) = Len(items) - n
         /\ Appended(items, n) \in Seq(S)
         /\ Len(Appended(items, n)) = n
         /\ Appended(items, n) \o Reverse(Kept(items, n)) = Reverse(items)
<1> DEFINE L == Len(items)
           keep == SubSeq(items, 1, L - n)
           cut == SubSeq(items, L - n + 1, L)
<1>1. L \in Nat /\ \A i \in 1..L : items[i] \in S
  BY LenProperties
<1>2. /\ keep \in Seq(S)
      /\ Len(keep) = L - n
      /\ \A i \in 1..(L - n) : keep[i] = items[i]
  <2>1. \A i \in 1..(L - n) : items[i] \in S
    BY <1>1
  <2>2. /\ keep \in Seq(S)
        /\ Len(keep) = IF 1 <= L - n THEN (L - n) - 1 + 1 ELSE 0
        /\ \A i \in 1..((L - n) - 1 + 1) : keep[i] = items[1 + i - 1]
    BY <1>1, <2>1, SubSeqProperties
  <2> QED
    BY <1>1, <2>2
<1>3. /\ cut \in Seq(S)
      /\ Len(cut) = n
      /\ \A i \in 1..n : cut[i] = items[L - n + i]
  <2>1. \A i \in (L - n + 1)..L : items[i] \in S
    BY <1>1
  <2>2. /\ cut \in Seq(S)
        /\ Len(cut) = IF L - n + 1 <= L THEN L - (L - n + 1) + 1 ELSE 0
        /\ \A i \in 1..(L - (L - n + 1) + 1) : cut[i] = items[(L - n + 1) + i - 1]
    BY <1>1, <2>1, SubSeqProperties
  <2> QED
    BY <1>1, <2>2
<1>4. Kept(items, n) = keep /\ Appended(items, n) = Reverse(cut)
  BY DEF Kept, Appended
<1> HIDE DEF keep, cut
<1>5. /\ Reverse(cut) \in Seq(S)
      /\ Len(Reverse(cut)) = n
      /\ \A i \in 1..n : Reverse(cut)[i] = items[L - i + 1]
  <2>1. /\ Reverse(cut) \in Seq(S)
        /\ Len(Reverse(cut)) = n
        /\ \A i \in 1..n : Reverse(cut)[i] = cut[n - i + 1]
    <3>1. cut \in Seq(S)
      BY <1>3
    <3>2. /\ Reverse(cut) \in Seq(S)
          /\ Len(Reverse(cut)) = Len(cut)
          /\ \A i \in 1..Len(cut) : Reverse(cut)[i] = cut[Len(cut) - i + 1]
      BY <3>1, ReverseProperties
    <3> QED
      BY <1>3, <3>2
  <2>2. \A i \in 1..n : cut[n - i + 1] = items[L - i + 1]
    <3>1. \A i \in 1..n : n - i + 1 \in 1..n /\ L - n + (n - i + 1) = L - i + 1
      BY <1>1
    <3> QED
      BY <1>3, <3>1
  <2> QED
    BY <2>1, <2>2
<1>6. /\ Reverse(keep) \in Seq(S)
      /\ Len(Reverse(keep)) = L - n
      /\ \A i \in 1..(L - n) : Reverse(keep)[i] = items[(L - n) - i + 1]
  <2>1. /\ Reverse(keep) \in Seq(S)
        /\ Len(Reverse(keep)) = L - n
        /\ \A i \in 1..(L - n) : Reverse(keep)[i] = keep[(L - n) - i + 1]
    <3>1. keep \in Seq(S)
      BY <1>2
    <3>2. /\ Reverse(keep) \in Seq(S)
          /\ Len(Reverse(keep)) = Len(keep)
          /\ \A i \in 1..Len(keep) : Reverse(keep)[i] = keep[Len(keep) - i + 1]
      BY <3>1, ReverseProperties
    <3> QED
      BY <1>2, <3>2
  <2>2. \A i \in 1..(L - n) : keep[(L - n) - i + 1] = items[(L - n) - i + 1]
    <3>1. \A i \in 1..(L - n) : (L - n) - i + 1 \in 1..(L - n)
      BY <1>1
    <3> QED
      BY <1>2, <3>1
  <2> QED
    BY <2>1, <2>2
<1>7. Reverse(cut) \o Reverse(keep) = Reverse(items)
  <2> DEFINE whole == Reverse(cut) \o Reverse(keep)
  <2>1. /\ whole \in Seq(S)
        /\ Len(whole) = L
        /\ \A i \in 1..L : whole[i] =
             IF i <= n THEN Reverse(cut)[i] ELSE Reverse(keep)[i - n]
    BY <1>1, <1>5, <1>6, ConcatProperties
  <2> HIDE DEF whole
  <2>2. \A i \in 1..L : whole[i] = items[L - i + 1]
    BY <1>1, <1>5, <1>6, <2>1
  <2>3. \A i \in 1..L : whole[i] = Reverse(items)[i]
    BY <2>2, ReverseProperties
  <2>4. Reverse(items) \in Seq(S) /\ Len(Reverse(items)) = L
    BY ReverseProperties
  <2>5. whole = Reverse(items)
    BY <2>1, <2>3, <2>4, SeqEqual
  <2> QED
    BY <2>5 DEF whole
<1> QED
  BY <1>2, <1>4, <1>5, <1>7

(* Concatenation is associative.                                           *)
LEMMA Assoc ==
  ASSUME NEW S, NEW a \in Seq(S), NEW b \in Seq(S), NEW c \in Seq(S)
  PROVE  (a \o b) \o c = a \o (b \o c)
<1> DEFINE ab == a \o b
           bc == b \o c
           l == ab \o c
           r == a \o bc
<1>0. ab \in Seq(S) /\ bc \in Seq(S)
  BY ConcatProperties
<1>1. /\ Len(ab) = Len(a) + Len(b)
      /\ \A i \in 1..(Len(a) + Len(b)) :
           ab[i] = IF i <= Len(a) THEN a[i] ELSE b[i - Len(a)]
  BY ConcatProperties
<1>2. /\ Len(bc) = Len(b) + Len(c)
      /\ \A i \in 1..(Len(b) + Len(c)) :
           bc[i] = IF i <= Len(b) THEN b[i] ELSE c[i - Len(b)]
  BY ConcatProperties
<1> HIDE DEF ab, bc
<1>3. /\ l \in Seq(S) /\ Len(l) = Len(ab) + Len(c)
      /\ \A i \in 1..(Len(ab) + Len(c)) :
           l[i] = IF i <= Len(ab) THEN ab[i] ELSE c[i - Len(ab)]
  BY <1>0, ConcatProperties
<1>4. /\ r \in Seq(S) /\ Len(r) = Len(a) + Len(bc)
      /\ \A i \in 1..(Len(a) + Len(bc)) :
           r[i] = IF i <= Len(a) THEN a[i] ELSE bc[i - Len(a)]
  BY <1>0, ConcatProperties
<1> HIDE DEF l, r
<1>5. Len(a) \in Nat /\ Len(b) \in Nat /\ Len(c) \in Nat
  BY LenProperties
<1>6. ASSUME NEW i \in 1..Len(l) PROVE l[i] = r[i]
  <2>0. i \in 1..(Len(a) + Len(b) + Len(c))
    BY <1>1, <1>3, <1>5
  <2>1. CASE i <= Len(a)
    <3>1. l[i] = ab[i] /\ i \in 1..(Len(a) + Len(b))
      BY <1>1, <1>3, <1>5, <2>0, <2>1
    <3>2. l[i] = a[i]
      BY <1>1, <2>1, <3>1
    <3>3. r[i] = a[i]
      BY <1>2, <1>4, <1>5, <2>0, <2>1
    <3> QED
      BY <3>2, <3>3
  <2>2. CASE Len(a) < i /\ i <= Len(a) + Len(b)
    <3>1. l[i] = ab[i] /\ i \in 1..(Len(a) + Len(b)) /\ ~(i <= Len(a))
      BY <1>1, <1>3, <1>5, <2>0, <2>2
    <3>2. l[i] = b[i - Len(a)]
      BY <1>1, <3>1
    <3>3. /\ r[i] = bc[i - Len(a)]
          /\ i - Len(a) \in 1..(Len(b) + Len(c)) /\ i - Len(a) <= Len(b)
      BY <1>2, <1>4, <1>5, <2>0, <2>2
    <3>4. r[i] = b[i - Len(a)]
      BY <1>2, <3>3
    <3> QED
      BY <3>2, <3>4
  <2>3. CASE Len(a) + Len(b) < i
    <3>1. l[i] = c[i - (Len(a) + Len(b))]
      BY <1>1, <1>3, <1>5, <2>0, <2>3
    <3>2. /\ r[i] = bc[i - Len(a)]
          /\ i - Len(a) \in 1..(Len(b) + Len(c)) /\ ~(i - Len(a) <= Len(b))
      BY <1>2, <1>4, <1>5, <2>0, <2>3
    <3>3. r[i] = c[(i - Len(a)) - Len(b)]
      BY <1>2, <3>2
    <3> QED
      BY <1>5, <2>0, <3>1, <3>3
  <2> QED
    BY <1>5, <2>0, <2>1, <2>2, <2>3
<1>7. Len(l) = Len(r)
  BY <1>1, <1>2, <1>3, <1>4, <1>5
<1>8. l = r
  BY <1>3, <1>4, <1>6, <1>7, SeqEqual
<1> QED
  BY <1>8 DEF l, r, ab, bc

(* A transfer of any n items leaves alone what went before (h, the items   *)
(* popped and queued) and the vector read back to front (v) spell out.     *)
LEMMA TransferKeepsOrder ==
  ASSUME NEW S, NEW h \in Seq(S), NEW v \in Seq(S), NEW n \in 0..Len(v)
  PROVE  (h \o Appended(v, n)) \o Reverse(Kept(v, n)) = h \o Reverse(v)
<1> DEFINE app == Appended(v, n)
           rest == Reverse(Kept(v, n))
<1>1. app \in Seq(S) /\ Kept(v, n) \in Seq(S)
  BY CutProperties
<1>2. rest \in Seq(S)
  BY <1>1, ReverseProperties
<1>3. app \o rest = Reverse(v)
  BY CutProperties
<1> HIDE DEF app, rest
<1>4. (h \o app) \o rest = h \o (app \o rest)
  BY <1>1, <1>2, Assoc
<1>5. (h \o app) \o rest = h \o Reverse(v)
  BY <1>3, <1>4
<1> QED
  BY <1>5 DEF app, rest

(* Taking the front of one sequence and appending it to another.           *)
LEMMA PassFront ==
  ASSUME NEW S, NEW a \in Seq(S), NEW b \in Seq(S), b # <<>>
  PROVE  Append(a, Head(b)) \o Tail(b) = a \o b
<1>1. Head(b) \in S /\ Tail(b) \in Seq(S)
  BY HeadTailProperties
<1>2. Append(a, Head(b)) = a \o <<Head(b)>> /\ <<Head(b)>> \in Seq(S)
  BY <1>1, AppendIsConcat
<1>3. <<Head(b)>> \o Tail(b) = b
  BY <1>1
<1>4. (a \o <<Head(b)>>) \o Tail(b) = a \o (<<Head(b)>> \o Tail(b))
  BY <1>1, <1>2, Assoc
<1> QED
  BY <1>2, <1>3, <1>4

(* A notification changes the state of a thread that waits on the          *)
(* condition variable, to "woken", and of no other thread; a thread that   *)
(* is the only one waiting is the one that is woken.                       *)
LEMMA NotifyProperties ==
  ASSUME wait \in [Thread -> WaitState], NEW c \in WaitState,
         NEW w \in notify_one(c)
  PROVE  /\ w \in [Thread -> WaitState]
         /\ \A t \in Thread : w[t] = wait[t] \/ (wait[t] = c /\ w[t] = "woken")
         /\ \A t \in Thread : Waiting(c) = {t} => w[t] = "woken"
<1>1. CASE Waiting(c) = {}
  BY <1>1 DEF notify_one
<1>2. CASE Waiting(c) # {}
  <2>1. PICK u \in Waiting(c) : w = [wait EXCEPT ![u] = "woken"]
    BY <1>2 DEF notify_one
  <2> QED
    BY <2>1 DEF Waiting, WaitState
<1> QED
  BY <1>1, <1>2
----------------------------------------------------------------------------
(* What a call of the queue does, whoever the caller is: the deque, the    *)
(* caller's own place, and the threads the call may wake.                  *)

(* The caller moves to x, and at most one other thread is woken, from c.   *)
WakesOnly(t, x, c) ==
  /\ wait' \in [Thread -> WaitState]
  /\ wait'[t] = x
  /\ \A u \in Thread \ {t} :
       wait'[u] = wait[u] \/ (wait[u] = c /\ wait'[u] = "woken")
  /\ \A u \in Thread \ {t} : Waiting(c) = {u} => wait'[u] = "woken"

(* A notification followed by the caller's own move.                       *)
LEMMA NotifyThenMove ==
  ASSUME wait \in [Thread -> WaitState], NEW t \in Thread,
         NEW c \in WaitState, NEW x \in WaitState,
         \E w \in notify_one(c) : wait' = [w EXCEPT ![t] = x]
  PROVE  WakesOnly(t, x, c)
<1>1. PICK w \in notify_one(c) : wait' = [w EXCEPT ![t] = x]
  OBVIOUS
<1>2. /\ w \in [Thread -> WaitState]
      /\ \A u \in Thread : w[u] = wait[u] \/ (wait[u] = c /\ w[u] = "woken")
      /\ \A u \in Thread : Waiting(c) = {u} => w[u] = "woken"
  BY NotifyProperties
<1> QED
  BY <1>1, <1>2 DEF WakesOnly

(* pop returns the front.                                                  *)
LEMMA TakeFrontProperties ==
  ASSUME NEW S, queue \in Seq(S), wait \in [Thread -> WaitState],
         NEW t \in Thread, TakeFront(t)
  PROVE  /\ queue' \in Seq(S) /\ Head(queue) \in S
         /\ Len(queue') = Len(queue) - 1 /\ Len(queue) \in Nat \ {0}
         /\ \A h \in Seq(S) : (h \o <<Head(queue)>>) \o queue' = h \o queue
         /\ WakesOnly(t, "out", "can_push")
<1>1. queue # <<>> /\ queue' = Tail(queue)
  BY DEF TakeFront
<1>2. queue' \in Seq(S) /\ Head(queue) \in S /\ Len(queue') = Len(queue) - 1
  BY <1>1, HeadTailProperties
<1>3. Len(queue) \in Nat \ {0}
  BY <1>1, EmptySeq, LenProperties
<1>4. ASSUME NEW h \in Seq(S) PROVE (h \o <<Head(queue)>>) \o queue' = h \o queue
  <2>1. Append(h, Head(queue)) \o Tail(queue) = h \o queue
    BY <1>1, PassFront
  <2>2. Append(h, Head(queue)) = h \o <<Head(queue)>>
    BY <1>2, AppendIsConcat
  <2> QED
    BY <1>1, <2>1, <2>2
<1>5. WakesOnly(t, "out", "can_push")
  <2>1. "out" \in WaitState /\ "can_push" \in WaitState
    BY DEF WaitState
  <2>2. \E w \in notify_one("can_push") : wait' = [w EXCEPT ![t] = "out"]
    BY DEF TakeFront
  <2> QED
    BY <2>1, <2>2, NotifyThenMove
<1> QED
  BY <1>2, <1>3, <1>4, <1>5

(* pop goes to sleep: the deque is empty.                                  *)
LEMMA PopBlockProperties ==
  ASSUME wait \in [Thread -> WaitState], NEW t \in Thread, PopBlock(t)
  PROVE  queue' = queue /\ queue = <<>> /\ WakesOnly(t, "can_pop", "can_push")
<1>1. "can_pop" \in WaitState /\ "can_push" \in WaitState
  BY DEF WaitState
<1> QED
  BY <1>1, NotifyThenMove DEF PopBlock

(* What has left the deque (h), what is in it (q) and what is still to be  *)
(* pushed (v, from its back), in the order in which it is popped.          *)
OnTheWay(h, q, v) == (h \o q) \o Reverse(v)

(* A transfer does not change that order.                                  *)
LEMMA TransferBehind ==
  ASSUME NEW S, NEW h \in Seq(S), NEW q \in Seq(S), NEW v \in Seq(S), NEW n \in 0..Len(v)
  PROVE  OnTheWay(h, q \o Appended(v, n), Kept(v, n)) = OnTheWay(h, q, v)
<1> DEFINE hq == h \o q
           app == Appended(v, n)
<1>1. hq \in Seq(S) /\ app \in Seq(S)
  BY ConcatProperties, CutProperties
<1>2. (hq \o Appended(v, n)) \o Reverse(Kept(v, n)) = hq \o Reverse(v)
  <2> HIDE DEF hq
  <2> QED
    BY <1>1, TransferKeepsOrder
<1>3. hq \o app = h \o (q \o app)
  <2> HIDE DEF app
  <2> QED
    BY <1>1, Assoc
<1> QED
  BY <1>2, <1>3 DEF OnTheWay

(* push(vector) moves items until they or the room runs out, and what has  *)
(* been queued followed by what is still to come stays what it was.        *)
LEMMA PushProperties ==
  ASSUME NEW S, queue \in Seq(S), wait \in [Thread -> WaitState],
         NEW t \in Thread, NEW items \in Seq(S),
         PushEnter(t, items) \/ PushResume(t, items)
  PROVE  LET n == Moved(items) IN
         /\ n \in 0..Len(items)
         /\ Kept(items, n) \in Seq(S) /\ Len(Kept(items, n)) = Len(items) - n
         /\ queue' \in Seq(S) /\ Len(queue') = Len(queue) + n
         /\ Len(queue) <= LimitSize => Len(queue') <= LimitSize
         /\ items # <<>> /\ LimitSize # 0 => queue' # <<>>
         /\ \A h \in Seq(S) : OnTheWay(h, queue', Kept(items, n)) = OnTheWay(h, queue, items)
         /\ WakesOnly(t, "out", "can_pop")
<1> DEFINE n == Moved(items)
           app == Appended(items, n)
<1>1. /\ n \in 0..Len(items)
      /\ Len(queue) <= LimitSize => Len(queue) + n <= LimitSize
      /\ items # <<>> /\ ~Full => n # 0
  BY MovedProperties
<1> HIDE DEF n
<1>2. /\ Kept(items, n) \in Seq(S) /\ Len(Kept(items, n)) = Len(items) - n
      /\ app \in Seq(S) /\ Len(app) = n
  BY <1>1, CutProperties
<1>3. queue' = queue \o app /\ \E w \in notify_one("can_pop") : wait' = [w EXCEPT ![t] = "out"]
  BY DEF PushEnter, PushResume, Transfer, n
<1> HIDE DEF app
<1>4. queue' \in Seq(S) /\ Len(queue') = Len(queue) + n
  BY <1>2, <1>3, ConcatProperties
<1>5. Len(queue) \in Nat /\ LimitSize \in Nat /\ n \in Nat
  BY <1>1, LenProperties, LimitSizeIsNat
<1>6. items # <<>> /\ LimitSize # 0 => queue' # <<>>
  <2>1. items # <<>> /\ LimitSize # 0 => Len(queue') # 0
    BY <1>1, <1>4, <1>5 DEF Full
  <2> QED
    BY <1>4, <2>1, EmptySeq
<1>7. ASSUME NEW h \in Seq(S)
      PROVE  OnTheWay(h, queue', Kept(items, n)) = OnTheWay(h, queue, items)
  <2>1. OnTheWay(h, queue \o Appended(items, n), Kept(items, n)) = OnTheWay(h, queue, items)
    BY <1>1, TransferBehind
  <2> QED
    BY <1>3, <2>1 DEF app
<1>8. WakesOnly(t, "out", "can_pop")
  <2>1. "out" \in WaitState /\ "can_pop" \in WaitState
    BY DEF WaitState
  <2> QED
    BY <1>3, <2>1, NotifyThenMove
<1>9. Len(queue) <= LimitSize => Len(queue') <= LimitSize
  BY <1>1, <1>4
<1> QED
  BY <1>1, <1>2, <1>4, <1>6, <1>7, <1>8, <1>9 DEF n

(* push(vector) goes to sleep: the deque is full.                          *)
LEMMA PushBlockProperties ==
  ASSUME wait \in [Thread -> WaitState], NEW t \in Thread, PushBlock(t)
  PROVE  queue' = queue /\ Full /\ WakesOnly(t, "can_push", "can_pop")
<1>1. "can_pop" \in WaitState /\ "can_push" \in WaitState
  BY DEF WaitState
<1> QED
  BY <1>1, NotifyThenMove DEF PushBlock

(* Reading a vector back to front twice gives the vector.                  *)
LEMMA ReverseTwice ==
  ASSUME NEW S, NEW s \in Seq(S)
  PROVE  Reverse(Reverse(s)) = s
<1> DEFINE r == Reverse(s)
           rr == Reverse(r)
<1>1. r \in Seq(S) /\ Len(r) = Len(s) /\ \A i \in 1..Len(s) : r[i] = s[Len(s) - i + 1]
  BY ReverseProperties
<1> HIDE DEF r
<1>2. rr \in Seq(S) /\ Len(rr) = Len(r) /\ \A i \in 1..Len(r) : rr[i] = r[Len(r) - i + 1]
  BY <1>1, ReverseProperties
<1> HIDE DEF rr
<1>3. Len(s) \in Nat
  BY LenProperties
<1>4. ASSUME NEW i \in 1..Len(s) PROVE rr[i] = s[i]
  <2>1. Len(s) - i + 1 \in 1..Len(s) /\ Len(s) - (Len(s) - i + 1) + 1 = i
    BY <1>3
  <2> QED
    BY <1>1, <1>2, <2>1
<1>5. rr = s
  BY <1>1, <1>2, <1>4, SeqEqual
<1> QED
  BY <1>5 DEF r, rr

(* Nothing read back to front is nothing, and only nothing is.             *)
LEMMA ReverseEmpty == Reverse(<<>>) = <<>>
<1>1. <<>> \in Seq({})
  BY EmptySeq
<1>2. Reverse(<<>>) \in Seq({}) /\ Len(Reverse(<<>>)) = 0
  BY <1>1, EmptySeq, ReverseProperties
<1> QED
  BY <1>2, EmptySeq
=============================================================================
