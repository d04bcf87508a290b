----------------------------- MODULE ReadProofs -----------------------------
(***************************************************************************)
(* Theorems about the read side of a processor, for every queue size,      *)
(* m_limit, m_skip, m_read_timeout and m_read_retry, any number of         *)
(* documents, REWINDs and openings.                                        *)
(***************************************************************************)
EXTENDS ReadBroker, CountProofs

(* The documents of the collection.                                        *)
Known == 1..inserted

(* Where the io thread is inside batch_pop, and where it is after a        *)
(* timeout.                                                                *)
AfterTimeout == {"caught", "wait", "asleep", "relock", "unlock", "retry"}
InBatch == AfterTimeout \cup {"pop"}

----------------------------------------------------------------------------
(* The inductive invariant.                                                *)

(* ReadTypeOK, but with every document one of the collection.              *)
Shape ==
  /\ inserted \in 0..NumDocs
  /\ queue \in Seq(Known) /\ docs \in Seq(Known) /\ out \in Seq(Known)
  /\ delivered \in Seq(Known) /\ dropped \in Seq(Known)
  /\ last_id \in 0..inserted /\ cond \in 0..inserted
  /\ wait \in [Thread -> WaitState]
  /\ do_exit \in BOOLEAN /\ reach_end \in BOOLEAN /\ querying \in BOOLEAN
  /\ connected \in BOOLEAN /\ qlock \in BOOLEAN
  /\ reader \in {"none", "test", "lock", "prepare", "oid", "cursor", "save", "done",
                 "unlock", "branch", "more", "push", "exited", "crashed", "aborted"}
  /\ io \in {"idle", "pop", "caught", "wait", "asleep", "relock", "unlock", "retry",
             "drain", "join", "crashed", "aborted"}
  /\ cmd \in {"none", "read", "term"}
  /\ left \in (0..BatchSize) \cup {1}
  /\ retry \in 0..(ReadRetry + 1)
  /\ opens \in 0..MaxOpens
  /\ rewinds \in Seq(Nat)

(* What the io thread is doing, and what it has in hand.                   *)
IoPlace ==
  /\ ~connected => io = "idle" /\ reader = "none" /\ last_id = 0
  /\ connected => opens # 0
  /\ io \in {"idle", "drain"} => out = <<>>
  /\ io = "idle" => cmd = "none"
  /\ io \in {"drain", "join"} => cmd = "term"
  /\ io \in InBatch => cmd # "none" /\ retry <= ReadRetry
  /\ io = "pop" => left >= 1
  /\ cmd = "read" /\ io # "aborted" => BatchSize # 0
  /\ do_exit <=> cmd = "term"

(* What the read thread is doing: it has documents in hand only from a     *)
(* query to the end of the pushes, and only a REWIND in between makes the  *)
(* id it has read differ from m_last_doc_id.                               *)
ReaderPlace ==
  /\ reader \in {"lock", "prepare", "oid", "cursor"} => docs = <<>>
  /\ reader = "test" /\ ~do_exit => docs = <<>>
  /\ reader = "push" => docs # <<>>
  /\ reader = "oid" /\ rewinds = <<>> => last_id # 0
  /\ reader = "crashed" => rewinds # <<>>
  /\ reader = "cursor" => cond = last_id \/ (last_id = 0 /\ rewinds # <<>>)
  /\ reader = "aborted" <=> io = "aborted"

(* Who waits in the queue, and for what.                                   *)
QueueWaits ==
  /\ wait["io"] # "can_push" /\ wait["reader"] # "can_pop"
  /\ io \notin {"pop", "crashed"} => wait["io"] = "out"
  /\ reader \notin {"push", "aborted"} => wait["reader"] = "out"
  /\ wait["reader"] = "can_push" => Full
  /\ wait["io"] = "can_pop" => queue = <<>>
  /\ Len(queue) <= LimitSize

(* What depends on a queue that can hold something: the popper is woken    *)
(* for a document, and once a term has popped, or has found nothing to     *)
(* pop, the read thread has room for the push it is in.                    *)
Room ==
  LimitSize # 0 =>
    /\ wait["io"] = "woken" => queue # <<>>
    /\ do_exit /\ reader = "push" /\ io \in AfterTimeout \cup {"join"} => ~Full

ReadInv == Shape /\ IoPlace /\ ReaderPlace /\ QueueWaits /\ Room

(* How much a READ has popped: at most m_limit - 1 documents in an attempt *)
(* that timed out.                                                         *)
Popped ==
  cmd = "read" =>
    /\ io = "pop" => left <= Limit /\ Len(out) <= retry * (Limit - 1) + (Limit - left)
    /\ io \in AfterTimeout => Len(out) <= (retry + 1) * (Limit - 1)

----------------------------------------------------------------------------
(* Facts about the constants and about sequences of documents.             *)

LEMMA SizeType ==
  /\ BatchSize \in Nat
  /\ Limit \in 1..INT_MAX => BatchSize = Limit
  /\ Limit \in (INT_MIN..INT_MAX) \ {0} => BatchSize # 0
<1> DEFINE M == 2^(2 * IntBits)
           H == 2^(IntBits - 1)
<1>1. M \in Int /\ H \in Int /\ H < M /\ INT_MAX = H - 1 /\ INT_MIN = -H
  BY SizeHoldsInt, InitAssumption DEF INT_MAX, INT_MIN
<1>2. 2 <= H
  BY <1>1, InitAssumption
<1>3. BatchSize = Limit % M
  BY DEF BatchSize, ToSize
<1>4. Limit \in Int
  BY ReadAssumption
<1> HIDE DEF M, H
<1>5. Limit % M \in 0..(M - 1)
  BY <1>1, <1>2, <1>4
<1>6. Limit \in 1..(H - 1) => Limit % M = Limit
  BY <1>1, <1>2, <1>4
<1>7. Limit \in (-H)..(-1) => Limit % M = Limit + M
  BY <1>1, <1>2, <1>4
<1> QED
  BY <1>1, <1>2, <1>3, <1>4, <1>5, <1>6, <1>7

(* A larger collection holds the documents of a smaller one.               *)
LEMMA SeqWiden ==
  ASSUME NEW S, NEW T, S \subseteq T, NEW s \in Seq(S)
  PROVE  s \in Seq(T)
<1>1. s \in [1..Len(s) -> S] /\ Len(s) \in Nat
  BY LenProperties
<1>2. s \in [1..Len(s) -> T]
  BY <1>1
<1> QED
  BY <1>1, <1>2, SeqDef

(* What a query returns, and how often it returns a document.              *)
LEMMA FoundProperties ==
  ASSUME NEW after \in 0..inserted, inserted \in Nat
  PROVE  LET f == Found(after) IN
         /\ f \in Seq(Known)
         /\ f # <<>> => /\ Last(f) \in Known /\ Last(f) > after
                        /\ \A d \in Nat : Count(f, d) =
                             IF after + Skip < d /\ d <= Last(f) THEN 1 ELSE 0
<1> DEFINE first == after + Skip + 1
           upto == first - 1 + (IF Limit < 0 THEN -Limit ELSE Limit)
           last == IF Limit = 0 \/ inserted < upto THEN inserted ELSE upto
           n == IF last < first THEN 0 ELSE last - first + 1
           f == [i \in 1..n |-> first + i - 1]
<1>0. Found(after) = f
  BY DEF Found
<1>1. /\ after \in Nat /\ first \in Nat /\ first > after /\ upto \in Nat /\ last \in Nat
      /\ last <= inserted /\ n \in Nat /\ (n # 0 => last = first + n - 1)
  BY ReadAssumption
<1> HIDE DEF upto, last
<1>2. \A i \in 1..n : first + i - 1 \in Known
  BY <1>1 DEF Known
<1>3. f \in [1..n -> Known]
  BY <1>2
<1>4. f \in Seq(Known) /\ Len(f) = n /\ DOMAIN f = 1..n
  <2> HIDE DEF n, f
  <2>1. f \in Seq(Known)
    BY <1>1, <1>3, SeqDef
  <2> QED
    BY <1>1, <1>3, <2>1, LenProperties
<1>5. ASSUME f # <<>>
      PROVE  /\ Last(f) \in Known /\ Last(f) > after
             /\ \A d \in Nat : Count(f, d) = IF after + Skip < d /\ d <= Last(f) THEN 1 ELSE 0
  <2>1. n # 0
    BY <1>4, <1>5, EmptySeq
  <2>2. n \in 1..n /\ Last(f) = first + n - 1
    BY <1>1, <1>4, <2>1 DEF Last
  <2>3. Last(f) = last /\ Last(f) \in Known /\ Last(f) > after
    BY <1>1, <1>2, <2>1, <2>2
  <2>4. ASSUME NEW d \in Nat
        PROVE  Count(f, d) = IF after + Skip < d /\ d <= Last(f) THEN 1 ELSE 0
    <3>1. Places(f, d) = {i \in 1..n : first + i - 1 = d}
      BY <1>4 DEF Places
    <3>2. CASE after + Skip < d /\ d <= Last(f)
      <4>1. d - first + 1 \in 1..n /\ first + (d - first + 1) - 1 = d
        BY <1>1, <2>1, <2>3, <3>2, ReadAssumption
      <4>2. \A i \in 1..n : first + i - 1 = d <=> i = d - first + 1
        BY <1>1
      <4>4. Places(f, d) = {d - first + 1}
        <5> HIDE DEF f, n, first
        <5> QED
          BY <3>1, <4>1, <4>2
      <4>3. Cardinality({d - first + 1}) = 1
        BY FS_Singleton
      <4> QED
        BY <3>2, <4>3, <4>4 DEF Count
    <3>3. CASE ~(after + Skip < d /\ d <= Last(f))
      <4>1. \A i \in 1..n : first + i - 1 # d
        BY <1>1, <2>1, <2>3, <3>3, ReadAssumption
      <4>2. Places(f, d) = {}
        BY <3>1, <4>1
      <4> QED
        BY <3>3, <4>2, FS_EmptySet DEF Count
    <3> QED
      BY <3>2, <3>3
  <2> QED
    BY <2>3, <2>4
<1> QED
  BY <1>0, <1>4, <1>5

----------------------------------------------------------------------------
(* What the two threads' calls do to the queue and to each other.          *)

LEMMA IoPops ==
  ASSUME Shape, QueueWaits, PopEnter("io") \/ PopResume("io")
  PROVE  /\ queue' \in Seq(Known) /\ Head(queue) \in Known
         /\ queue # <<>> /\ queue' = Tail(queue)
         /\ Len(queue) \in Nat /\ Len(queue') = Len(queue) - 1
         /\ wait' \in [Thread -> WaitState]
         /\ wait'["io"] = "out"
         /\ wait'["reader"] = wait["reader"]
              \/ (wait["reader"] = "can_push" /\ wait'["reader"] = "woken")
         /\ wait'["reader"] # "can_push"
<1>1. queue \in Seq(Known) /\ wait \in [Thread -> WaitState] /\ Thread = {"reader", "io"}
  BY ReadAssumption DEF Shape
<1>2. TakeFront("io")
  BY DEF PopEnter, PopResume
<1>3. queue # <<>> /\ queue' = Tail(queue)
  BY <1>2 DEF TakeFront
<1>4. /\ queue' \in Seq(Known) /\ Head(queue) \in Known
      /\ Len(queue') = Len(queue) - 1 /\ Len(queue) \in Nat \ {0}
      /\ WakesOnly("io", "out", "can_push")
  BY <1>1, <1>2, TakeFrontProperties
<1>5. wait["reader"] = "can_push" => Waiting("can_push") = {"reader"}
  BY <1>1 DEF Waiting, QueueWaits
<1>6. "reader" \in Thread \ {"io"}
  BY <1>1
<1> QED
  BY <1>3, <1>4, <1>5, <1>6 DEF WakesOnly

LEMMA IoSleeps ==
  ASSUME Shape, QueueWaits, PopBlock("io")
  PROVE  /\ queue' = queue /\ queue = <<>>
         /\ wait' \in [Thread -> WaitState]
         /\ wait'["io"] = "can_pop"
         /\ wait'["reader"] = wait["reader"]
              \/ (wait["reader"] = "can_push" /\ wait'["reader"] = "woken")
         /\ wait'["reader"] # "can_push"
<1>1. wait \in [Thread -> WaitState] /\ Thread = {"reader", "io"}
  BY ReadAssumption DEF Shape
<1>2. queue' = queue /\ queue = <<>> /\ WakesOnly("io", "can_pop", "can_push")
  BY <1>1, PopBlockProperties
<1>3. wait["reader"] = "can_push" => Waiting("can_push") = {"reader"}
  BY <1>1 DEF Waiting, QueueWaits
<1>4. "reader" \in Thread \ {"io"}
  BY <1>1
<1> QED
  BY <1>2, <1>3, <1>4 DEF WakesOnly

LEMMA ReaderPushes ==
  ASSUME Shape, QueueWaits, PushEnter("reader", docs) \/ PushResume("reader", docs),
         docs' = Kept(docs, Moved(docs))
  PROVE  /\ queue' \in Seq(Known) /\ docs' \in Seq(Known)
         /\ Len(queue') <= LimitSize
         /\ docs # <<>> /\ LimitSize # 0 => queue' # <<>>
         /\ \A d : Count(queue', d) + Count(docs', d) = Count(queue, d) + Count(docs, d)
         /\ wait' \in [Thread -> WaitState]
         /\ wait'["reader"] = "out"
         /\ wait'["io"] = wait["io"] \/ (wait["io"] = "can_pop" /\ wait'["io"] = "woken")
         /\ wait'["io"] # "can_pop"
<1>1. /\ queue \in Seq(Known) /\ docs \in Seq(Known) /\ wait \in [Thread -> WaitState]
      /\ Thread = {"reader", "io"} /\ Len(queue) <= LimitSize
  BY ReadAssumption DEF Shape, QueueWaits
<1> DEFINE n == Moved(docs)
<1>2. /\ n \in 0..Len(docs)
      /\ docs' \in Seq(Known)
      /\ queue' \in Seq(Known) /\ Len(queue') <= LimitSize
      /\ docs # <<>> /\ LimitSize # 0 => queue' # <<>>
      /\ WakesOnly("reader", "out", "can_pop")
  BY <1>1, PushProperties
<1>3. ASSUME NEW d
      PROVE  Count(queue', d) + Count(docs', d) = Count(queue, d) + Count(docs, d)
  <2> DEFINE app == Appended(docs, n)
  <2>1. queue' = queue \o app
    BY DEF PushEnter, PushResume, Transfer
  <2>2. app \in Seq(Known)
    BY <1>1, <1>2, CutProperties
  <2>3. Count(app, d) + Count(docs', d) = Count(docs, d)
    BY <1>1, <1>2, CountCut
  <2> HIDE DEF app
  <2>4. Count(queue', d) = Count(queue, d) + Count(app, d)
    BY <1>1, <2>1, <2>2, CountConcat
  <2>5. Count(queue, d) \in Nat /\ Count(app, d) \in Nat /\ Count(docs', d) \in Nat
    BY <1>1, <1>2, <2>2, CountType
  <2> QED
    BY <2>3, <2>4, <2>5
<1>4. wait["io"] = "can_pop" => Waiting("can_pop") = {"io"}
  BY <1>1 DEF Waiting, QueueWaits
<1>5. "io" \in Thread \ {"reader"}
  BY <1>1
<1> QED
  BY <1>2, <1>3, <1>4, <1>5 DEF WakesOnly

LEMMA ReaderSleeps ==
  ASSUME Shape, QueueWaits, PushBlock("reader")
  PROVE  /\ queue' = queue /\ Full
         /\ wait' \in [Thread -> WaitState]
         /\ wait'["reader"] = "can_push"
         /\ wait'["io"] = wait["io"] \/ (wait["io"] = "can_pop" /\ wait'["io"] = "woken")
         /\ wait'["io"] # "can_pop"
<1>1. wait \in [Thread -> WaitState] /\ Thread = {"reader", "io"}
  BY ReadAssumption DEF Shape
<1>2. queue' = queue /\ Full /\ WakesOnly("reader", "can_push", "can_pop")
  BY <1>1, PushBlockProperties
<1>3. wait["io"] = "can_pop" => Waiting("can_pop") = {"io"}
  BY <1>1 DEF Waiting, QueueWaits
<1>4. "io" \in Thread \ {"reader"}
  BY <1>1
<1> QED
  BY <1>2, <1>3, <1>4 DEF WakesOnly

(* An answer: the documents of the batch become documents sent or dropped, *)
(* or stay with term.                                                      *)
LEMMA Answer ==
  ASSUME Shape, NEW result \in Seq(Known), BatchReturn(result)
  PROVE  /\ delivered' \in Seq(Known) /\ dropped' \in Seq(Known) /\ out' \in Seq(Known)
         /\ \A d : Count(delivered', d) + Count(dropped', d) + Count(out', d)
                     = Count(delivered, d) + Count(dropped, d) + Count(result, d)
<1>1. delivered \in Seq(Known) /\ dropped \in Seq(Known) /\ <<>> \in Seq(Known)
  BY EmptySeq DEF Shape
<1>2. delivered \o result \in Seq(Known) /\ dropped \o result \in Seq(Known)
  BY <1>1, ConcatProperties
<1>3. \/ delivered' = delivered \o result /\ dropped' = dropped /\ out' = <<>>
      \/ dropped' = dropped \o result /\ delivered' = delivered /\ out' = <<>>
      \/ dropped' = dropped /\ delivered' = delivered /\ out' = result
  BY DEF BatchReturn, Respond, sentVars
<1>4. ASSUME NEW d
      PROVE  Count(delivered', d) + Count(dropped', d) + Count(out', d)
               = Count(delivered, d) + Count(dropped, d) + Count(result, d)
  <2>1. /\ Count(delivered, d) \in Nat /\ Count(dropped, d) \in Nat
        /\ Count(result, d) \in Nat /\ Count(<<>>, d) = 0
    BY <1>1, CountType, CountEmpty
  <2>2. Count(delivered \o result, d) = Count(delivered, d) + Count(result, d)
    BY <1>1, CountConcat
  <2>3. Count(dropped \o result, d) = Count(dropped, d) + Count(result, d)
    BY <1>1, CountConcat
  <2>4. CASE delivered' = delivered \o result /\ dropped' = dropped /\ out' = <<>>
    BY <2>1, <2>2, <2>4
  <2>5. CASE dropped' = dropped \o result /\ delivered' = delivered /\ out' = <<>>
    BY <2>1, <2>3, <2>5
  <2>6. CASE dropped' = dropped /\ delivered' = delivered /\ out' = result
    BY <2>6
  <2> QED
    BY <1>3, <2>4, <2>5, <2>6
<1> QED
  BY <1>1, <1>2, <1>3, <1>4

(* A document popped: it goes into the batch, or makes it complete.        *)
LEMMA PopDoc ==
  ASSUME Shape, QueueWaits, BatchPopDoc
  PROVE  /\ delivered' \in Seq(Known) /\ dropped' \in Seq(Known) /\ out' \in Seq(Known)
         /\ \A d : Count(delivered', d) + Count(dropped', d) + Count(out', d)
                     + Count(queue', d)
                     = Count(delivered, d) + Count(dropped, d) + Count(out, d)
                         + Count(queue, d)
<1>1. /\ delivered \in Seq(Known) /\ dropped \in Seq(Known) /\ out \in Seq(Known)
      /\ queue \in Seq(Known)
  BY DEF Shape
<1>2. queue' \in Seq(Known) /\ Head(queue) \in Known /\ queue # <<>> /\ queue' = Tail(queue)
  BY IoPops DEF BatchPopDoc
<1> DEFINE more == Append(out, Head(queue))
<1>3. more \in Seq(Known)
  BY <1>1, <1>2, AppendProperties
<1>4. \/ out' = more /\ delivered' = delivered /\ dropped' = dropped
      \/ BatchReturn(more)
  BY DEF BatchPopDoc, sentVars
<1>5. ASSUME NEW d
      PROVE  /\ Count(more, d) = Count(out, d) + Count(<<Head(queue)>>, d)
             /\ Count(queue, d) = Count(<<Head(queue)>>, d) + Count(queue', d)
  BY <1>1, <1>2, CountAppend, CountFront
<1> HIDE DEF more
<1>6. /\ delivered' \in Seq(Known) /\ dropped' \in Seq(Known) /\ out' \in Seq(Known)
      /\ \A d : Count(delivered', d) + Count(dropped', d) + Count(out', d)
                  = Count(delivered, d) + Count(dropped, d) + Count(more, d)
  BY <1>1, <1>3, <1>4, Answer
<1>7. ASSUME NEW d
      PROVE  Count(delivered', d) + Count(dropped', d) + Count(out', d) + Count(queue', d)
               = Count(delivered, d) + Count(dropped, d) + Count(out, d) + Count(queue, d)
  <2>1. <<Head(queue)>> \in Seq(Known)
    BY <1>2
  <2>2. /\ Count(delivered, d) \in Nat /\ Count(dropped, d) \in Nat
        /\ Count(delivered', d) \in Nat /\ Count(dropped', d) \in Nat
        /\ Count(out, d) \in Nat /\ Count(queue, d) \in Nat /\ Count(<<Head(queue)>>, d) \in Nat
        /\ Count(out', d) \in Nat /\ Count(queue', d) \in Nat
    BY <1>1, <1>2, <1>6, <2>1, CountType
  <2> QED
    BY <1>5, <1>6, <2>2
<1> QED
  BY <1>6, <1>7

(* An attempt over: the batch is kept for the next one, or answered with.  *)
LEMMA NextAttempt ==
  ASSUME Shape, BatchRetry
  PROVE  /\ delivered' \in Seq(Known) /\ dropped' \in Seq(Known) /\ out' \in Seq(Known)
         /\ \A d : Count(delivered', d) + Count(dropped', d) + Count(out', d)
                     = Count(delivered, d) + Count(dropped, d) + Count(out, d)
<1>1. delivered \in Seq(Known) /\ dropped \in Seq(Known) /\ out \in Seq(Known)
  BY DEF Shape
<1>2. \/ out' = out /\ delivered' = delivered /\ dropped' = dropped
      \/ BatchReturn(out)
  BY DEF BatchRetry, sentVars
<1> QED
  BY <1>1, <1>2, Answer

----------------------------------------------------------------------------
(* The state keeps its shape.                                              *)

LEMMA ShapeInit ==
  ASSUME Init PROVE Shape
<1>1. <<>> \in Seq(Known) /\ <<>> \in Seq(Nat)
  BY EmptySeq
<1>2. /\ NumDocs \in Nat /\ ReadRetry \in Nat /\ MaxOpens \in Nat /\ BatchSize \in Nat
  BY ReadAssumption, SizeType
<1>3. /\ inserted \in 0..NumDocs /\ wait \in [Thread -> WaitState]
  BY DEF Init, QueueInit, WaitState
<1>4. /\ do_exit \in BOOLEAN /\ reach_end \in BOOLEAN /\ querying \in BOOLEAN
      /\ connected \in BOOLEAN /\ qlock \in BOOLEAN
  BY DEF Init
<1>5. /\ queue = <<>> /\ docs = <<>> /\ out = <<>> /\ delivered = <<>> /\ dropped = <<>>
      /\ rewinds = <<>> /\ last_id = 0 /\ cond = 0 /\ reader = "none" /\ io = "idle"
      /\ cmd = "none" /\ left = 0 /\ retry = 0 /\ opens = 0
  BY DEF Init, QueueInit
<1> QED
  BY <1>1, <1>2, <1>3, <1>4, <1>5 DEF Shape

LEMMA ShapeReader ==
  ASSUME ReadInv, ReaderStep PROVE Shape'
<1>0. Shape /\ QueueWaits /\ inserted \in Nat /\ <<>> \in Seq(Known)
  BY ReadAssumption, EmptySeq DEF ReadInv, Shape
<1>k. inserted' = inserted /\ Known' = Known
  BY DEF ReaderStep, ReaderTest, QueryLock, PrepareCondition, PrepareOid, QueryCursor,
         QuerySave, QueryDone, QueryUnlock, ReaderBranch, ReaderMore, ReaderPush, Known
<1> USE DEF Shape, queueVars, queryVars, flags, readerVars, batchVars, ioVars, sentVars,
            history
<1>1. CASE ReaderTest
  BY <1>0, <1>k, <1>1 DEF ReaderTest
<1>2. CASE QueryLock
  BY <1>0, <1>k, <1>2 DEF QueryLock
<1>3. CASE PrepareCondition
  BY <1>0, <1>k, <1>3 DEF PrepareCondition
<1>4. CASE PrepareOid
  BY <1>0, <1>k, <1>4 DEF PrepareOid
<1>5. CASE QueryCursor
  <2>1. docs' \in Seq(Known)
    BY <1>0, <1>5, FoundProperties DEF QueryCursor
  <2> QED
    BY <1>0, <1>k, <1>5, <2>1 DEF QueryCursor
<1>6. CASE QuerySave
  <2>1. docs # <<>> => Last(docs) \in 1..inserted
    <3>1. docs # <<>> => Len(docs) \in 1..Len(docs)
      BY <1>0, EmptySeq, LenProperties
    <3> QED
      BY <1>0, <3>1, ElementOfSeq DEF Last, Known
  <2>2. last_id' \in 0..inserted
    BY <1>0, <1>6, <2>1 DEF QuerySave
  <2> QED
    BY <1>0, <1>k, <1>6, <2>2 DEF QuerySave
<1>7. CASE QueryDone
  BY <1>0, <1>k, <1>7 DEF QueryDone
<1>8. CASE QueryUnlock
  BY <1>0, <1>k, <1>8 DEF QueryUnlock
<1>9. CASE ReaderBranch
  BY <1>0, <1>k, <1>9 DEF ReaderBranch
<1>10. CASE ReaderMore
  BY <1>0, <1>k, <1>10 DEF ReaderMore
<1>11. CASE ReaderPush
  <2>1. queue' \in Seq(Known) /\ docs' \in Seq(Known) /\ wait' \in [Thread -> WaitState]
    BY <1>0, <1>11, ReaderPushes, ReaderSleeps DEF ReaderPush
  <2> QED
    BY <1>0, <1>k, <1>11, <2>1 DEF ReaderPush
<1> QED
  BY <1>1, <1>2, <1>3, <1>4, <1>5, <1>6, <1>7, <1>8, <1>9, <1>10, <1>11 DEF ReaderStep

LEMMA ShapeIo ==
  ASSUME ReadInv, BatchStep \/ BatchRelock PROVE Shape'
<1>0. /\ Shape /\ QueueWaits /\ IoPlace /\ inserted \in Nat /\ <<>> \in Seq(Known)
      /\ BatchSize \in Nat /\ ReadRetry \in Nat
  BY ReadAssumption, SizeType, EmptySeq DEF ReadInv, Shape
<1>k. inserted' = inserted /\ Known' = Known
  BY DEF BatchStep, BatchRelock, BatchPopDoc, BatchPopBlock, BatchPopTimeout, BatchCaught,
         BatchWait, BatchUnlock, BatchRetry, TermDrain, TermJoin, Known
<1> USE DEF Shape, queueVars, queryVars, flags, readerVars, batchVars, ioVars, sentVars,
            history
<1>1. CASE BatchPopDoc
  <2>1. queue' \in Seq(Known) /\ wait' \in [Thread -> WaitState]
    BY <1>0, <1>1, IoPops DEF BatchPopDoc
  <2>2. delivered' \in Seq(Known) /\ dropped' \in Seq(Known) /\ out' \in Seq(Known)
    BY <1>0, <1>1, PopDoc
  <2>3. left' \in (0..BatchSize) \cup {1}
    BY <1>0, <1>1 DEF BatchPopDoc, IoPlace
  <2>4. io' \in {"pop", "idle", "join"} /\ cmd' \in {"none", "read", "term"}
    BY <1>0, <1>1 DEF BatchPopDoc, BatchReturn
  <2> QED
    BY <1>0, <1>k, <1>1, <2>1, <2>2, <2>3, <2>4 DEF BatchPopDoc
<1>2. CASE BatchPopBlock
  <2>1. queue' = queue /\ wait' \in [Thread -> WaitState]
    BY <1>0, <1>2, IoSleeps DEF BatchPopBlock
  <2> QED
    BY <1>0, <1>k, <1>2, <2>1 DEF BatchPopBlock
<1>3. CASE BatchPopTimeout
  <2>1. wait' \in [Thread -> WaitState]
    BY <1>0, <1>3 DEF BatchPopTimeout, PopTimeout, WaitState
  <2> QED
    BY <1>0, <1>k, <1>3, <2>1 DEF BatchPopTimeout, PopTimeout
<1>4. CASE BatchCaught
  BY <1>0, <1>k, <1>4 DEF BatchCaught
<1>5. CASE BatchWait
  BY <1>0, <1>k, <1>5 DEF BatchWait
<1>6. CASE BatchUnlock
  BY <1>0, <1>k, <1>6 DEF BatchUnlock
<1>7. CASE BatchRelock
  BY <1>0, <1>k, <1>7 DEF BatchRelock
<1>8. CASE BatchRetry
  <2>1. delivered' \in Seq(Known) /\ dropped' \in Seq(Known) /\ out' \in Seq(Known)
    BY <1>0, <1>8, NextAttempt
  <2>2. retry' \in 0..(ReadRetry + 1)
    BY <1>0, <1>8 DEF BatchRetry, IoPlace, InBatch, AfterTimeout
  <2>3. left' \in (0..BatchSize) \cup {1}
    BY <1>0, <1>8 DEF BatchRetry
  <2>4. io' \in {"pop", "idle", "join"} /\ cmd' \in {"none", "read", "term"}
    BY <1>0, <1>8 DEF BatchRetry, BatchReturn
  <2> QED
    BY <1>0, <1>k, <1>8, <2>1, <2>2, <2>3, <2>4 DEF BatchRetry
<1>9. CASE TermDrain
  <2>1. \/ io' = "pop" /\ out' = <<>> /\ left' = 1 /\ retry' = 0
        \/ io' = "join" /\ out' = out /\ left' = left /\ retry' = retry
    BY <1>9 DEF TermDrain, BatchPop
  <2>2. io' \in {"pop", "join"} /\ out' \in Seq(Known)
    BY <1>0, <2>1
  <2>3. left' \in (0..BatchSize) \cup {1} /\ retry' \in 0..(ReadRetry + 1)
    BY <1>0, <2>1
  <2> QED
    BY <1>0, <1>k, <1>9, <2>2, <2>3 DEF TermDrain
<1>10. CASE TermJoin
  <2>1. /\ do_exit' \in BOOLEAN /\ reach_end' \in BOOLEAN /\ querying' \in BOOLEAN
        /\ connected' \in BOOLEAN /\ qlock' \in BOOLEAN
    BY <1>0, <1>10 DEF TermJoin
  <2>2. /\ reader' = "none" /\ io' = "idle" /\ cmd' = "none" /\ out' = <<>> /\ last_id' = 0
        /\ UNCHANGED <<queue, wait, cond, docs, left, retry, opens, delivered, dropped, rewinds>>
    BY <1>10 DEF TermJoin
  <2> QED
    BY <1>0, <1>k, <2>1, <2>2
<1> QED
  BY <1>1, <1>2, <1>3, <1>4, <1>5, <1>6, <1>7, <1>8, <1>9, <1>10 DEF BatchStep

LEMMA ShapeCommand ==
  ASSUME ReadInv, Open \/ Read \/ Rewind \/ Term \/ Insert \/ UNCHANGED vars PROVE Shape'
<1>0. /\ Shape /\ <<>> \in Seq(Known) /\ <<>> \in Seq(Nat) /\ inserted \in Nat
      /\ BatchSize \in Nat /\ ReadRetry \in Nat /\ NumDocs \in Nat /\ MaxOpens \in Nat
  BY ReadAssumption, SizeType, EmptySeq DEF ReadInv, Shape
<1> USE DEF Shape, queueVars, queryVars, flags, readerVars, batchVars, ioVars, sentVars,
            history
<1>1. CASE Open
  <2>1. inserted' = inserted /\ Known' = Known
    BY <1>1 DEF Open, Known
  <2> QED
    BY <1>0, <1>1, <2>1 DEF Open, Connect, Clear
<1>2. CASE Read
  <2>1. inserted' = inserted /\ Known' = Known
    BY <1>2 DEF Read, Known
  <2>2. /\ io' \in {"aborted", "pop"} /\ out' = <<>> /\ left' = BatchSize /\ retry' = 0
        /\ cmd' = "read" /\ (reader' = reader \/ reader' = "aborted")
        /\ UNCHANGED <<queue, wait, last_id, do_exit, reach_end, connected, querying, qlock,
                       cond, docs, opens, delivered, dropped, rewinds>>
    BY <1>2 DEF Read, BatchPop
  <2> QED
    BY <1>0, <2>1, <2>2
<1>3. CASE Rewind
  <2>1. inserted' = inserted /\ Known' = Known
    BY <1>3 DEF Rewind, Known
  <2>2. rewinds' \in Seq(Nat)
    BY <1>0, <1>3, AppendProperties, LenProperties DEF Rewind
  <2>3. reach_end' = FALSE /\ last_id' = 0
    BY <1>3 DEF Rewind
  <2>4. reach_end' \in BOOLEAN
    BY <2>3, Zenon
  <2> QED
    BY <1>0, <1>3, <2>1, <2>2, <2>3, <2>4 DEF Rewind
<1>4. CASE Term
  <2>1. inserted' = inserted /\ Known' = Known
    BY <1>4 DEF Term, Known
  <2> QED
    BY <1>0, <1>4, <2>1 DEF Term
<1>5. CASE Insert
  <2>1. inserted' \in 0..NumDocs /\ Known \subseteq Known'
    BY <1>0, <1>5 DEF Insert, Known
  <2>2. \A s \in Seq(Known) : s \in Seq(Known')
    BY <2>1, SeqWiden
  <2>3. last_id' \in 0..inserted' /\ cond' \in 0..inserted'
    BY <1>0, <1>5 DEF Insert
  <2> QED
    BY <1>0, <1>5, <2>1, <2>2, <2>3 DEF Insert
<1>6. CASE UNCHANGED vars
  <2>1. inserted' = inserted /\ Known' = Known
    BY <1>6 DEF vars, Known
  <2> QED
    BY <1>0, <1>6, <2>1 DEF vars
<1> QED
  BY <1>1, <1>2, <1>3, <1>4, <1>5, <1>6

LEMMA ShapeInductive ==
  ASSUME ReadInv, [Next]_vars PROVE Shape'
BY ShapeReader, ShapeIo, ShapeCommand DEF Next

----------------------------------------------------------------------------
(* The threads are where they should be.                                   *)

LEMMA IoPlaceInductive ==
  ASSUME ReadInv, [Next]_vars PROVE IoPlace'
<1>0. /\ Shape /\ IoPlace /\ BatchSize \in Nat /\ ReadRetry \in Nat /\ MaxOpens \in Nat
  BY ReadAssumption, SizeType DEF ReadInv
<1> USE DEF Shape, IoPlace, InBatch, AfterTimeout, queueVars, queryVars, flags, readerVars, batchVars, ioVars, sentVars,
            history
<1>1. CASE ReaderTest
  BY <1>0, <1>1 DEF ReaderTest
<1>2. CASE QueryLock
  BY <1>0, <1>2 DEF QueryLock
<1>3. CASE PrepareCondition
  BY <1>0, <1>3 DEF PrepareCondition
<1>4. CASE PrepareOid
  <2>1. io # "aborted"
    BY <1>4 DEF PrepareOid, ReadInv, ReaderPlace
  <2> QED
    BY <1>0, <1>4, <2>1 DEF PrepareOid
<1>5. CASE QueryCursor
  BY <1>0, <1>5 DEF QueryCursor
<1>6. CASE QuerySave
  BY <1>0, <1>6 DEF QuerySave
<1>7. CASE QueryDone
  BY <1>0, <1>7 DEF QueryDone
<1>8. CASE QueryUnlock
  BY <1>0, <1>8 DEF QueryUnlock
<1>9. CASE ReaderBranch
  BY <1>0, <1>9 DEF ReaderBranch
<1>10. CASE ReaderMore
  BY <1>0, <1>10 DEF ReaderMore
<1>11. CASE ReaderPush
  BY <1>0, <1>11 DEF ReaderPush, PushBlock, PushEnter, PushResume
<1>12. CASE BatchPopDoc
  BY <1>0, <1>12 DEF BatchPopDoc, BatchReturn
<1>13. CASE BatchPopBlock
  BY <1>0, <1>13 DEF BatchPopBlock
<1>14. CASE BatchPopTimeout
  BY <1>0, <1>14 DEF BatchPopTimeout, PopTimeout
<1>15. CASE BatchCaught
  BY <1>0, <1>15 DEF BatchCaught
<1>16. CASE BatchWait
  BY <1>0, <1>16 DEF BatchWait
<1>17. CASE BatchUnlock
  BY <1>0, <1>17 DEF BatchUnlock
<1>18. CASE BatchRetry
  BY <1>0, <1>18 DEF BatchRetry, BatchReturn, Again
<1>19. CASE BatchRelock
  BY <1>0, <1>19 DEF BatchRelock
<1>20. CASE TermDrain
  BY <1>0, <1>20 DEF TermDrain, BatchPop
<1>21. CASE TermJoin
  BY <1>0, <1>21 DEF TermJoin
<1>22. CASE Open
  BY <1>0, <1>22 DEF Open, Connect, Clear
<1>23. CASE Read
  BY <1>0, <1>23 DEF Read, BatchPop
<1>24. CASE Rewind
  BY <1>0, <1>24 DEF Rewind
<1>25. CASE Term
  BY <1>0, <1>25 DEF Term
<1>26. CASE Insert
  BY <1>0, <1>26 DEF Insert
<1>27. CASE UNCHANGED vars
  BY <1>0, <1>27 DEF vars
<1> QED
  BY <1>1, <1>2, <1>3, <1>4, <1>5, <1>6, <1>7, <1>8, <1>9, <1>10, <1>11, <1>12, <1>13, <1>14, <1>15, <1>16, <1>17, <1>18, <1>19, <1>20, <1>21, <1>22, <1>23, <1>24, <1>25, <1>26, <1>27
     DEF Next, ReaderStep, BatchStep

LEMMA ReaderPlaceInductive ==
  ASSUME ReadInv, [Next]_vars PROVE ReaderPlace'
<1>0. Shape /\ IoPlace /\ ReaderPlace
  BY DEF ReadInv
<1> USE DEF Shape, IoPlace, ReaderPlace, queueVars, queryVars, flags, readerVars, batchVars, ioVars, sentVars,
            history
<1>1. CASE ReaderTest
  BY <1>0, <1>1 DEF ReaderTest
<1>2. CASE QueryLock
  BY <1>0, <1>2 DEF QueryLock
<1>3. CASE PrepareCondition
  BY <1>0, <1>3 DEF PrepareCondition
<1>4. CASE PrepareOid
  <2>1. CASE last_id = 0
    BY <1>0, <1>4, <2>1 DEF PrepareOid
  <2>2. CASE last_id # 0
    BY <1>0, <1>4, <2>2 DEF PrepareOid
  <2> QED
    BY <2>1, <2>2
<1>5. CASE QueryCursor
  BY <1>0, <1>5 DEF QueryCursor
<1>6. CASE QuerySave
  BY <1>0, <1>6 DEF QuerySave
<1>7. CASE QueryDone
  BY <1>0, <1>7 DEF QueryDone
<1>8. CASE QueryUnlock
  BY <1>0, <1>8 DEF QueryUnlock
<1>9. CASE ReaderBranch
  BY <1>0, <1>9 DEF ReaderBranch
<1>10. CASE ReaderMore
  BY <1>0, <1>10 DEF ReaderMore
<1>11. CASE ReaderPush
  BY <1>0, <1>11 DEF ReaderPush, PushBlock, PushEnter, PushResume
<1>12. CASE BatchPopDoc
  BY <1>0, <1>12 DEF BatchPopDoc, BatchReturn
<1>13. CASE BatchPopBlock
  BY <1>0, <1>13 DEF BatchPopBlock
<1>14. CASE BatchPopTimeout
  BY <1>0, <1>14 DEF BatchPopTimeout, PopTimeout
<1>15. CASE BatchCaught
  BY <1>0, <1>15 DEF BatchCaught
<1>16. CASE BatchWait
  BY <1>0, <1>16 DEF BatchWait
<1>17. CASE BatchUnlock
  BY <1>0, <1>17 DEF BatchUnlock
<1>18. CASE BatchRetry
  BY <1>0, <1>18 DEF BatchRetry, BatchReturn, Again
<1>19. CASE BatchRelock
  BY <1>0, <1>19 DEF BatchRelock
<1>20. CASE TermDrain
  BY <1>0, <1>20 DEF TermDrain, BatchPop
<1>21. CASE TermJoin
  BY <1>0, <1>21 DEF TermJoin
<1>22. CASE Open
  BY <1>0, <1>22 DEF Open, Connect, Clear
<1>23. CASE Read
  BY <1>0, <1>23 DEF Read, BatchPop
<1>24. CASE Rewind
  <2>1. rewinds' # <<>>
    <3>1. rewinds \in Seq(Nat) /\ Len(delivered) \in Nat
      BY <1>0, LenProperties
    <3>2. Append(rewinds, Len(delivered)) # <<>>
      BY <3>1, AppendProperties
    <3> QED
      BY <1>24, <3>2 DEF Rewind
  <2> QED
    BY <1>0, <1>24, <2>1 DEF Rewind
<1>25. CASE Term
  BY <1>0, <1>25 DEF Term
<1>26. CASE Insert
  BY <1>0, <1>26 DEF Insert
<1>27. CASE UNCHANGED vars
  BY <1>0, <1>27 DEF vars
<1> QED
  BY <1>1, <1>2, <1>3, <1>4, <1>5, <1>6, <1>7, <1>8, <1>9, <1>10, <1>11, <1>12, <1>13, <1>14, <1>15, <1>16, <1>17, <1>18, <1>19, <1>20, <1>21, <1>22, <1>23, <1>24, <1>25, <1>26, <1>27
     DEF Next, ReaderStep, BatchStep

LEMMA QueueWaitsInductive ==
  ASSUME ReadInv, [Next]_vars PROVE QueueWaits'
<1>0. /\ Shape /\ IoPlace /\ ReaderPlace /\ QueueWaits /\ LimitSize \in Nat
      /\ Len(queue) \in Nat /\ Thread = {"reader", "io"} /\ Len(<<>>) = 0
  BY ReadAssumption, LimitSizeIsNat, LenProperties, EmptySeq DEF ReadInv, Shape
<1> USE DEF Shape, IoPlace, ReaderPlace, QueueWaits, Full, queueVars, queryVars, flags, readerVars, batchVars, ioVars, sentVars,
            history
<1>1. CASE ReaderTest
  BY <1>0, <1>1 DEF ReaderTest
<1>2. CASE QueryLock
  BY <1>0, <1>2 DEF QueryLock
<1>3. CASE PrepareCondition
  BY <1>0, <1>3 DEF PrepareCondition
<1>4. CASE PrepareOid
  BY <1>0, <1>4 DEF PrepareOid
<1>5. CASE QueryCursor
  BY <1>0, <1>5 DEF QueryCursor
<1>6. CASE QuerySave
  BY <1>0, <1>6 DEF QuerySave
<1>7. CASE QueryDone
  BY <1>0, <1>7 DEF QueryDone
<1>8. CASE QueryUnlock
  BY <1>0, <1>8 DEF QueryUnlock
<1>9. CASE ReaderBranch
  BY <1>0, <1>9 DEF ReaderBranch
<1>10. CASE ReaderMore
  BY <1>0, <1>10 DEF ReaderMore
<1>11. CASE ReaderPush
  <2>1. CASE PushBlock("reader") /\ UNCHANGED <<reader, docs>>
    <3>1. /\ queue' = queue /\ Full /\ wait'["reader"] = "can_push"
          /\ wait'["io"] = wait["io"] \/ (wait["io"] = "can_pop" /\ wait'["io"] = "woken")
          /\ wait'["io"] # "can_pop"
      BY <1>0, <2>1, ReaderSleeps
    <3> QED
      BY <1>0, <1>11, <2>1, <3>1 DEF ReaderPush
  <2>2. CASE /\ PushEnter("reader", docs) \/ PushResume("reader", docs)
             /\ docs' = Kept(docs, Moved(docs)) /\ reader' = "more"
    <3>1. /\ Len(queue') <= LimitSize /\ wait'["reader"] = "out"
          /\ wait'["io"] = wait["io"] \/ (wait["io"] = "can_pop" /\ wait'["io"] = "woken")
          /\ wait'["io"] # "can_pop"
      BY <1>0, <2>2, ReaderPushes
    <3> QED
      BY <1>0, <1>11, <2>2, <3>1 DEF ReaderPush
  <2> QED
    BY <1>11, <2>1, <2>2 DEF ReaderPush
<1>12. CASE BatchPopDoc
  <2>1. /\ Len(queue') = Len(queue) - 1 /\ wait'["io"] = "out"
        /\ wait'["reader"] = wait["reader"]
             \/ (wait["reader"] = "can_push" /\ wait'["reader"] = "woken")
        /\ wait'["reader"] # "can_push"
    BY <1>0, <1>12, IoPops DEF BatchPopDoc
  <2> QED
    BY <1>0, <1>12, <2>1 DEF BatchPopDoc, BatchReturn
<1>13. CASE BatchPopBlock
  <2>1. /\ queue' = queue /\ queue = <<>> /\ wait'["io"] = "can_pop"
        /\ wait'["reader"] = wait["reader"]
             \/ (wait["reader"] = "can_push" /\ wait'["reader"] = "woken")
        /\ wait'["reader"] # "can_push"
    BY <1>0, <1>13, IoSleeps DEF BatchPopBlock
  <2> QED
    BY <1>0, <1>13, <2>1 DEF BatchPopBlock
<1>14. CASE BatchPopTimeout
  BY <1>0, <1>14 DEF BatchPopTimeout, PopTimeout
<1>15. CASE BatchCaught
  BY <1>0, <1>15 DEF BatchCaught
<1>16. CASE BatchWait
  BY <1>0, <1>16 DEF BatchWait
<1>17. CASE BatchUnlock
  BY <1>0, <1>17 DEF BatchUnlock
<1>18. CASE BatchRetry
  BY <1>0, <1>18 DEF BatchRetry, BatchReturn, Again
<1>19. CASE BatchRelock
  BY <1>0, <1>19 DEF BatchRelock
<1>20. CASE TermDrain
  BY <1>0, <1>20 DEF TermDrain, BatchPop
<1>21. CASE TermJoin
  BY <1>0, <1>21 DEF TermJoin
<1>22. CASE Open
  BY <1>0, <1>22 DEF Open, Connect, Clear
<1>23. CASE Read
  BY <1>0, <1>23 DEF Read, BatchPop
<1>24. CASE Rewind
  BY <1>0, <1>24 DEF Rewind
<1>25. CASE Term
  BY <1>0, <1>25 DEF Term
<1>26. CASE Insert
  BY <1>0, <1>26 DEF Insert
<1>27. CASE UNCHANGED vars
  BY <1>0, <1>27 DEF vars
<1> QED
  BY <1>1, <1>2, <1>3, <1>4, <1>5, <1>6, <1>7, <1>8, <1>9, <1>10, <1>11, <1>12, <1>13, <1>14, <1>15, <1>16, <1>17, <1>18, <1>19, <1>20, <1>21, <1>22, <1>23, <1>24, <1>25, <1>26, <1>27
     DEF Next, ReaderStep, BatchStep

LEMMA RoomInductive ==
  ASSUME ReadInv, [Next]_vars PROVE Room'
<1> SUFFICES ASSUME LimitSize # 0
             PROVE  /\ wait'["io"] = "woken" => queue' # <<>>
                    /\ do_exit' /\ reader' = "push" /\ io' \in AfterTimeout \cup {"join"}
                         => ~Full'
  BY DEF Room
<1>0. /\ Shape /\ IoPlace /\ ReaderPlace /\ QueueWaits /\ LimitSize \in Nat
      /\ Len(queue) \in Nat /\ Thread = {"reader", "io"} /\ Len(<<>>) = 0
      /\ wait["io"] = "woken" => queue # <<>>
      /\ do_exit /\ reader = "push" /\ io \in AfterTimeout \cup {"join"} => ~Full
  BY ReadAssumption, LimitSizeIsNat, LenProperties, EmptySeq DEF ReadInv, Shape, Room
<1> USE DEF Shape, IoPlace, ReaderPlace, QueueWaits, AfterTimeout, Full, queueVars, queryVars, flags, readerVars, batchVars, ioVars, sentVars,
            history
<1>1. CASE ReaderTest
  BY <1>0, <1>1 DEF ReaderTest
<1>2. CASE QueryLock
  BY <1>0, <1>2 DEF QueryLock
<1>3. CASE PrepareCondition
  BY <1>0, <1>3 DEF PrepareCondition
<1>4. CASE PrepareOid
  BY <1>0, <1>4 DEF PrepareOid
<1>5. CASE QueryCursor
  BY <1>0, <1>5 DEF QueryCursor
<1>6. CASE QuerySave
  BY <1>0, <1>6 DEF QuerySave
<1>7. CASE QueryDone
  BY <1>0, <1>7 DEF QueryDone
<1>8. CASE QueryUnlock
  BY <1>0, <1>8 DEF QueryUnlock
<1>9. CASE ReaderBranch
  BY <1>0, <1>9 DEF ReaderBranch
<1>10. CASE ReaderMore
  BY <1>0, <1>10 DEF ReaderMore
<1>11. CASE ReaderPush
  <2>1. CASE PushBlock("reader") /\ UNCHANGED <<reader, docs>>
    <3>1. /\ queue' = queue /\ Full /\ wait'["reader"] = "can_push"
          /\ wait'["io"] = wait["io"] \/ (wait["io"] = "can_pop" /\ wait'["io"] = "woken")
          /\ wait'["io"] # "can_pop"
      BY <1>0, <2>1, ReaderSleeps
    <3> QED
      BY <1>0, <1>11, <2>1, <3>1 DEF ReaderPush
  <2>2. CASE /\ PushEnter("reader", docs) \/ PushResume("reader", docs)
             /\ docs' = Kept(docs, Moved(docs)) /\ reader' = "more"
    <3>1. /\ queue' # <<>> /\ wait'["reader"] = "out"
          /\ wait'["io"] = wait["io"] \/ (wait["io"] = "can_pop" /\ wait'["io"] = "woken")
          /\ wait'["io"] # "can_pop"
      BY <1>0, <1>11, <2>2, ReaderPushes DEF ReaderPush
    <3> QED
      BY <1>0, <1>11, <2>2, <3>1 DEF ReaderPush
  <2> QED
    BY <1>11, <2>1, <2>2 DEF ReaderPush
<1>12. CASE BatchPopDoc
  <2>1. /\ Len(queue') = Len(queue) - 1 /\ wait'["io"] = "out"
        /\ wait'["reader"] = wait["reader"]
             \/ (wait["reader"] = "can_push" /\ wait'["reader"] = "woken")
        /\ wait'["reader"] # "can_push"
    BY <1>0, <1>12, IoPops DEF BatchPopDoc
  <2> QED
    BY <1>0, <1>12, <2>1 DEF BatchPopDoc, BatchReturn
<1>13. CASE BatchPopBlock
  <2>1. /\ queue' = queue /\ queue = <<>> /\ wait'["io"] = "can_pop"
        /\ wait'["reader"] = wait["reader"]
             \/ (wait["reader"] = "can_push" /\ wait'["reader"] = "woken")
        /\ wait'["reader"] # "can_push"
    BY <1>0, <1>13, IoSleeps DEF BatchPopBlock
  <2> QED
    BY <1>0, <1>13, <2>1 DEF BatchPopBlock
<1>14. CASE BatchPopTimeout
  BY <1>0, <1>14 DEF BatchPopTimeout, PopTimeout
<1>15. CASE BatchCaught
  BY <1>0, <1>15 DEF BatchCaught
<1>16. CASE BatchWait
  BY <1>0, <1>16 DEF BatchWait
<1>17. CASE BatchUnlock
  BY <1>0, <1>17 DEF BatchUnlock
<1>18. CASE BatchRetry
  BY <1>0, <1>18 DEF BatchRetry, BatchReturn, Again
<1>19. CASE BatchRelock
  BY <1>0, <1>19 DEF BatchRelock
<1>20. CASE TermDrain
  BY <1>0, <1>20 DEF TermDrain, BatchPop
<1>21. CASE TermJoin
  BY <1>0, <1>21 DEF TermJoin
<1>22. CASE Open
  BY <1>0, <1>22 DEF Open, Connect, Clear
<1>23. CASE Read
  BY <1>0, <1>23 DEF Read, BatchPop
<1>24. CASE Rewind
  BY <1>0, <1>24 DEF Rewind
<1>25. CASE Term
  BY <1>0, <1>25 DEF Term
<1>26. CASE Insert
  BY <1>0, <1>26 DEF Insert
<1>27. CASE UNCHANGED vars
  BY <1>0, <1>27 DEF vars
<1> QED
  BY <1>1, <1>2, <1>3, <1>4, <1>5, <1>6, <1>7, <1>8, <1>9, <1>10, <1>11, <1>12, <1>13, <1>14, <1>15, <1>16, <1>17, <1>18, <1>19, <1>20, <1>21, <1>22, <1>23, <1>24, <1>25, <1>26, <1>27
     DEF Next, ReaderStep, BatchStep

LEMMA ReadInvariant == Spec => []ReadInv
<1>1. Init => ReadInv
  <2> SUFFICES ASSUME Init PROVE ReadInv
    OBVIOUS
  <2>1. Shape
    BY ShapeInit
  <2>2. LimitSize \in Nat /\ Thread = {"reader", "io"} /\ Len(<<>>) = 0
    BY LimitSizeIsNat, ReadAssumption, EmptySeq
  <2>3. IoPlace /\ ReaderPlace
    BY DEF Init, IoPlace, ReaderPlace, InBatch, AfterTimeout
  <2>4. QueueWaits /\ Room
    BY <2>2 DEF Init, QueueInit, QueueWaits, Room
  <2> QED
    BY <2>1, <2>3, <2>4 DEF ReadInv
<1>2. ReadInv /\ [Next]_vars => ReadInv'
  BY ShapeInductive, IoPlaceInductive, ReaderPlaceInductive, QueueWaitsInductive, RoomInductive
     DEF ReadInv
<1> QED
  BY <1>1, <1>2, PTL DEF Spec

----------------------------------------------------------------------------
(* What follows at once.                                                   *)

(* Every variable of the broker keeps its type, whatever m_limit and the   *)
(* queue's size are; in particular batch_pop's counters stay in range.     *)
THEOREM ReadTypeCorrect == Spec => []ReadTypeOK
<1>1. ReadInv => ReadTypeOK
  <2> SUFFICES ASSUME ReadInv PROVE ReadTypeOK
    OBVIOUS
  <2>1. Shape /\ NumDocs \in Nat
    BY ReadAssumption DEF ReadInv
  <2>2. Known \subseteq 1..NumDocs
    BY <2>1 DEF Shape, Known
  <2>3. \A s \in Seq(Known) : s \in Seq(1..NumDocs)
    BY <2>2, SeqWiden
  <2>4. last_id \in 0..NumDocs /\ cond \in 0..NumDocs
    BY <2>1 DEF Shape
  <2> QED
    BY <2>1, <2>3, <2>4 DEF Shape, ReadTypeOK
<1> QED
  BY <1>1, ReadInvariant, PTL

(* pop in batch_pop never reads the front of an empty deque, although it   *)
(* does not test the size after its wait: the read thread never notifies   *)
(* it without leaving a document, whatever cuts its pushes short.          *)
THEOREM ReadPopAlwaysFindsItem == LimitSize # 0 => (Spec => []ReadPopFindsItem)
<1> SUFFICES ASSUME LimitSize # 0 PROVE Spec => []ReadPopFindsItem
  OBVIOUS
<1>1. ReadInv => ReadPopFindsItem
  BY DEF ReadInv, Room, ReadPopFindsItem, PopUndefined
<1> QED
  BY <1>1, ReadInvariant, PTL

(* Without a REWIND prepare_condition never hands OID::init an empty       *)
(* string: nobody else clears m_last_doc_id while a query is prepared.     *)
THEOREM CrashAlwaysNeedsRewind == Spec => []CrashNeedsRewind
<1>1. ReadInv => CrashNeedsRewind
  BY DEF ReadInv, ReaderPlace, CrashNeedsRewind
<1> QED
  BY <1>1, ReadInvariant, PTL

(* The one document that term takes out is enough: when term reaches       *)
(* pthread_join the read thread does not sleep in push and has room for    *)
(* the push it may be in, and it does not start another one.               *)
THEOREM JoinAlwaysUnblocked == LimitSize # 0 => (Spec => []JoinUnblocked)
<1> SUFFICES ASSUME LimitSize # 0 PROVE Spec => []JoinUnblocked
  OBVIOUS
<1>1. ReadInv => JoinUnblocked
  BY DEF ReadInv, IoPlace, ReaderPlace, QueueWaits, Room, JoinUnblocked
<1> QED
  BY <1>1, ReadInvariant, PTL

----------------------------------------------------------------------------
(* The size of a batch.                                                    *)

LEMMA PoppedInductive ==
  ASSUME Limit \in 1..INT_MAX, ReadInv, Popped, [Next]_vars PROVE Popped'
<1>0. /\ Shape /\ IoPlace /\ Popped /\ BatchSize = Limit /\ Limit \in Nat /\ Limit >= 1
      /\ retry \in Nat /\ Len(out) \in Nat /\ Len(<<>>) = 0 /\ ReadRetry \in Nat
  BY SizeType, ReadAssumption, LenProperties, EmptySeq DEF ReadInv, Shape
<1>m. \A r \in Nat : /\ r * (Limit - 1) \in Nat
                    /\ (r + 1) * (Limit - 1) = r * (Limit - 1) + (Limit - 1)
  BY <1>0
<1> USE DEF Shape, IoPlace, Popped, AfterTimeout, queueVars, queryVars, flags, readerVars, batchVars, ioVars, sentVars,
            history
<1>1. CASE ReaderTest
  BY <1>0, <1>1 DEF ReaderTest
<1>2. CASE QueryLock
  BY <1>0, <1>2 DEF QueryLock
<1>3. CASE PrepareCondition
  BY <1>0, <1>3 DEF PrepareCondition
<1>4. CASE PrepareOid
  BY <1>0, <1>4 DEF PrepareOid
<1>5. CASE QueryCursor
  BY <1>0, <1>5 DEF QueryCursor
<1>6. CASE QuerySave
  BY <1>0, <1>6 DEF QuerySave
<1>7. CASE QueryDone
  BY <1>0, <1>7 DEF QueryDone
<1>8. CASE QueryUnlock
  BY <1>0, <1>8 DEF QueryUnlock
<1>9. CASE ReaderBranch
  BY <1>0, <1>9 DEF ReaderBranch
<1>10. CASE ReaderMore
  BY <1>0, <1>10 DEF ReaderMore
<1>11. CASE ReaderPush
  BY <1>0, <1>11 DEF ReaderPush, PushBlock, PushEnter, PushResume
<1>12. CASE BatchPopDoc
  <2>1. Head(queue) \in Known /\ out \in Seq(Known)
    BY <1>0, <1>12, IoPops DEF BatchPopDoc, ReadInv, Shape
  <2>2. Len(Append(out, Head(queue))) = Len(out) + 1
    BY <2>1, AppendProperties
  <2>3. CASE left > 1
    BY <1>0, <1>m, <1>12, <2>2, <2>3 DEF BatchPopDoc
  <2>4. CASE ~(left > 1)
    BY <1>0, <1>12, <2>4 DEF BatchPopDoc, BatchReturn
  <2> QED
    BY <2>3, <2>4
<1>13. CASE BatchPopBlock
  BY <1>0, <1>13 DEF BatchPopBlock
<1>14. CASE BatchPopTimeout
  BY <1>0, <1>m, <1>14 DEF BatchPopTimeout
<1>15. CASE BatchCaught
  BY <1>0, <1>15 DEF BatchCaught
<1>16. CASE BatchWait
  BY <1>0, <1>16 DEF BatchWait
<1>17. CASE BatchUnlock
  BY <1>0, <1>17 DEF BatchUnlock
<1>18. CASE BatchRetry
  <2>1. CASE Again(retry + 1)
    <3>1. /\ retry' = retry + 1 /\ io' = "pop" /\ out' = out /\ cmd' = cmd
          /\ cmd = "read" => left' = Limit
      BY <1>0, <1>18, <2>1 DEF BatchRetry
    <3>2. cmd = "read" => Len(out) <= (retry + 1) * (Limit - 1)
      BY <1>0, <1>18 DEF BatchRetry
    <3> QED
      BY <1>0, <1>m, <3>1, <3>2
  <2>2. CASE ~Again(retry + 1)
    BY <1>0, <1>18, <2>2 DEF BatchRetry, BatchReturn
  <2> QED
    BY <2>1, <2>2
<1>19. CASE BatchRelock
  BY <1>0, <1>19 DEF BatchRelock
<1>20. CASE TermDrain
  BY <1>0, <1>20 DEF TermDrain, BatchPop
<1>21. CASE TermJoin
  BY <1>0, <1>21 DEF TermJoin
<1>22. CASE Open
  BY <1>0, <1>22 DEF Open, Connect, Clear
<1>23. CASE Read
  BY <1>0, <1>m, <1>23 DEF Read, BatchPop
<1>24. CASE Rewind
  BY <1>0, <1>24 DEF Rewind
<1>25. CASE Term
  BY <1>0, <1>25 DEF Term
<1>26. CASE Insert
  BY <1>0, <1>26 DEF Insert
<1>27. CASE UNCHANGED vars
  BY <1>0, <1>27 DEF vars
<1> QED
  BY <1>1, <1>2, <1>3, <1>4, <1>5, <1>6, <1>7, <1>8, <1>9, <1>10, <1>11, <1>12, <1>13, <1>14, <1>15, <1>16, <1>17, <1>18, <1>19, <1>20, <1>21, <1>22, <1>23, <1>24, <1>25, <1>26, <1>27
     DEF Next, ReaderStep, BatchStep

LEMMA PoppedInvariant == Limit \in 1..INT_MAX => (Spec => []Popped)
<1> SUFFICES ASSUME Limit \in 1..INT_MAX PROVE Spec => []Popped
  OBVIOUS
<1>1. Init => Popped
  BY DEF Init, Popped
<1>2. ReadInv /\ Popped /\ [Next]_vars => Popped'
  BY PoppedInductive
<1> QED
  BY <1>1, <1>2, ReadInvariant, PTL DEF Spec

(* What a READ may answer with.                                            *)
Allowed(result) ==
  /\ Len(result) <= (ReadRetry + 1) * (Limit - 1) + 1
  /\ Len(result) > Limit => retry > 0 /\ Len(out) >= Limit

(* A step leaves what was sent alone, begins a new opening, or is the      *)
(* answer to a READ.                                                       *)
LEMMA AnswerSize ==
  ASSUME Limit \in 1..INT_MAX, ReadInv, Popped, [Next]_vars
  PROVE  \/ delivered' = <<>> /\ dropped' = <<>>
         \/ delivered' = delivered /\ dropped' = dropped
         \/ \E result \in Seq(Known) : Respond(result) /\ Allowed(result)
<1>0. /\ Shape /\ IoPlace /\ Popped /\ BatchSize = Limit /\ Limit \in Nat /\ Limit >= 1
      /\ retry \in Nat /\ Len(out) \in Nat /\ ReadRetry \in Nat /\ out \in Seq(Known)
  BY SizeType, ReadAssumption, LenProperties DEF ReadInv, Shape
<1>m. ASSUME NEW r \in 0..ReadRetry
      PROVE  /\ r * (Limit - 1) \in Nat
             /\ (r + 1) * (Limit - 1) = r * (Limit - 1) + (Limit - 1)
             /\ (r + 1) * (Limit - 1) <= (ReadRetry + 1) * (Limit - 1)
  <2>1. /\ r \in Nat /\ ReadRetry - r \in Nat /\ Limit - 1 \in Nat
    BY <1>0
  <2>2. (ReadRetry - r) * (Limit - 1) \in Nat
    BY <2>1
  <2>3. (ReadRetry + 1) * (Limit - 1) = (r + 1) * (Limit - 1) + (ReadRetry - r) * (Limit - 1)
    BY <1>0, <2>1
  <2> QED
    BY <1>0, <2>1, <2>2, <2>3
<1>1. CASE BatchPopDoc
  <2>1. Head(queue) \in Known
    BY <1>1, IoPops DEF BatchPopDoc, ReadInv
  <2> DEFINE more == Append(out, Head(queue))
  <2>2. more \in Seq(Known) /\ Len(more) = Len(out) + 1
    BY <1>0, <2>1, AppendProperties
  <2> HIDE DEF more
  <2>3. CASE ~(left > 1) /\ cmd = "read"
    <3>1. Respond(more)
      BY <1>1, <2>3 DEF BatchPopDoc, BatchReturn, more
    <3>2. /\ retry \in 0..ReadRetry /\ left = 1
          /\ Len(out) <= retry * (Limit - 1) + (Limit - 1)
      BY <1>0, <1>1, <2>3 DEF BatchPopDoc, Shape, IoPlace, InBatch, Popped
    <3>3. Len(more) <= (ReadRetry + 1) * (Limit - 1) + 1
      BY <1>0, <1>m, <2>2, <3>2
    <3>4. Len(more) > Limit => retry > 0 /\ Len(out) >= Limit
      <4>1. retry = 0 => Len(out) <= Limit - 1
        BY <1>0, <3>2
      <4> QED
        BY <1>0, <2>2, <4>1
    <3> QED
      BY <2>2, <3>1, <3>3, <3>4 DEF Allowed
  <2>4. CASE left > 1 \/ cmd # "read"
    BY <1>1, <2>4 DEF BatchPopDoc, BatchReturn, sentVars
  <2> QED
    BY <2>3, <2>4
<1>2. CASE BatchRetry
  <2>1. CASE ~Again(retry + 1) /\ cmd = "read"
    <3>1. Respond(out)
      BY <1>2, <2>1 DEF BatchRetry, BatchReturn
    <3>2. retry \in 0..ReadRetry /\ Len(out) <= (retry + 1) * (Limit - 1)
      BY <1>0, <1>2, <2>1 DEF BatchRetry, Shape, IoPlace, InBatch, AfterTimeout, Popped
    <3>3. Len(out) <= (ReadRetry + 1) * (Limit - 1) + 1
      BY <1>0, <1>m, <3>2
    <3>4. Len(out) > Limit => retry > 0 /\ Len(out) >= Limit
      <4>1. retry = 0 => Len(out) <= Limit - 1
        BY <1>0, <3>2
      <4> QED
        BY <1>0, <4>1
    <3> QED
      BY <1>0, <3>1, <3>3, <3>4 DEF Allowed
  <2>2. CASE Again(retry + 1) \/ cmd # "read"
    BY <1>2, <2>2 DEF BatchRetry, BatchReturn, sentVars
  <2> QED
    BY <2>1, <2>2
<1>3. CASE Open
  BY <1>3 DEF Open
<1>4. CASE \/ ReaderStep \/ BatchPopBlock \/ BatchPopTimeout \/ BatchCaught \/ BatchWait
           \/ BatchUnlock \/ TermDrain \/ TermJoin \/ BatchRelock \/ Insert \/ Read
           \/ Rewind \/ Term \/ UNCHANGED vars
  BY <1>4 DEF ReaderStep, ReaderTest, QueryLock, PrepareCondition, PrepareOid, QueryCursor,
              QuerySave, QueryDone, QueryUnlock, ReaderBranch, ReaderMore, ReaderPush,
              BatchPopBlock, BatchPopTimeout, BatchCaught, BatchWait, BatchUnlock, TermDrain,
              TermJoin, BatchRelock, Insert, Read, Rewind, Term, vars, history, sentVars
<1> QED
  BY <1>1, <1>2, <1>3, <1>4 DEF Next, BatchStep

(* A READ answers with at most m_limit documents of its last attempt and   *)
(* m_limit - 1 of each that timed out, for every m_limit above 0 and every *)
(* m_read_retry: 2 * m_limit - 1 at most with the retry count of 1.        *)
THEOREM BatchAlwaysBounded == Limit \in 1..INT_MAX => (Spec => BatchBounded)
<1> SUFFICES ASSUME Limit \in 1..INT_MAX PROVE Spec => BatchBounded
  OBVIOUS
<1>1. ReadInv /\ Popped /\ [Next]_vars =>
        [Len(delivered') + Len(dropped') <=
           Len(delivered) + Len(dropped) + (ReadRetry + 1) * (Limit - 1) + 1]_vars
  <2> SUFFICES ASSUME ReadInv, Popped, [Next]_vars
               PROVE  Len(delivered') + Len(dropped') <=
                        Len(delivered) + Len(dropped) + (ReadRetry + 1) * (Limit - 1) + 1
    OBVIOUS
  <2>1. /\ delivered \in Seq(Known) /\ dropped \in Seq(Known)
        /\ Len(delivered) \in Nat /\ Len(dropped) \in Nat /\ Len(<<>>) = 0
    BY LenProperties, EmptySeq DEF ReadInv, Shape
  <2>2. (ReadRetry + 1) * (Limit - 1) \in Nat
    <3>1. ReadRetry + 1 \in Nat /\ Limit - 1 \in Nat
      BY ReadAssumption
    <3> QED
      BY <3>1
  <2>3. CASE delivered' = <<>> /\ dropped' = <<>>
    BY <2>1, <2>2, <2>3
  <2>4. CASE delivered' = delivered /\ dropped' = dropped
    BY <2>1, <2>2, <2>4
  <2>5. CASE \E result \in Seq(Known) : Respond(result) /\ Allowed(result)
    <3>1. PICK result \in Seq(Known) : Respond(result) /\ Allowed(result)
      BY <2>5
    <3>2. /\ Len(delivered \o result) = Len(delivered) + Len(result)
          /\ Len(dropped \o result) = Len(dropped) + Len(result)
          /\ Len(result) \in Nat
      BY <2>1, ConcatProperties, LenProperties
    <3>3. Len(delivered') + Len(dropped') = Len(delivered) + Len(dropped) + Len(result)
      <4>1. CASE delivered' = delivered \o result /\ dropped' = dropped
        BY <2>1, <3>2, <4>1
      <4>2. CASE dropped' = dropped \o result /\ delivered' = delivered
        BY <2>1, <3>2, <4>2
      <4> QED
        BY <3>1, <4>1, <4>2 DEF Respond
    <3> QED
      BY <2>1, <2>2, <3>1, <3>2, <3>3 DEF Allowed
  <2> QED
    BY <2>3, <2>4, <2>5, AnswerSize
<1> QED
  BY <1>1, ReadInvariant, PoppedInvariant, PTL DEF Spec, BatchBounded

(* A response that is too long although m_limit documents would fit is one *)
(* that a timeout has made: only then is it dropped.                       *)
THEOREM DropAlwaysNeedsTimeout == Limit \in 1..INT_MAX => (Spec => DropNeedsTimeout)
<1> SUFFICES ASSUME Limit \in 1..INT_MAX PROVE Spec => DropNeedsTimeout
  OBVIOUS
<1>1. ReadInv /\ Popped /\ [Next]_vars =>
        [(Fits >= Limit /\ Len(dropped') > Len(dropped)) => retry > 0 /\ Len(out) >= Limit]_vars
  <2> SUFFICES ASSUME ReadInv, Popped, [Next]_vars, Fits >= Limit,
                      Len(dropped') > Len(dropped)
               PROVE  retry > 0 /\ Len(out) >= Limit
    OBVIOUS
  <2>1. /\ Len(dropped) \in Nat /\ Len(<<>>) = 0
    BY LenProperties, EmptySeq DEF ReadInv, Shape
  <2>2. PICK result \in Seq(Known) : Respond(result) /\ Allowed(result)
    BY <2>1, AnswerSize
  <2>3. Len(result) > Fits
    <3>1. dropped' # dropped /\ Len(result) \in Nat /\ Fits \in Nat
      BY <2>1, ReadAssumption, LenProperties
    <3> QED
      BY <2>2, <3>1 DEF Respond
  <2> QED
    BY <2>2, <2>3, ReadAssumption, LenProperties DEF Allowed
<1> QED
  BY <1>1, ReadInvariant, PoppedInvariant, PTL DEF Spec, DropNeedsTimeout

(* No READ has failed the assertion of batch_pop.                          *)
NotAborted == io # "aborted"

(* The assertion of batch_pop fails for no limit but 0, although a         *)
(* negative one is converted to a size_t on its way there.                 *)
LEMMA AbortNeedsZeroLimit ==
  Limit \in (INT_MIN..INT_MAX) \ {0} => (Spec => []NotAborted)
<1> SUFFICES ASSUME Limit \in (INT_MIN..INT_MAX) \ {0} PROVE Spec => []NotAborted
  OBVIOUS
<1>0. BatchSize # 0
  BY SizeType
<1>1. Init => NotAborted
  BY DEF Init, NotAborted
<1>2. NotAborted /\ [Next]_vars => NotAborted'
  BY <1>0 DEF Next, Insert, Open, Read, Rewind, Term, ReaderStep, ReaderTest, QueryLock,
       PrepareCondition, PrepareOid, QueryCursor, QuerySave, QueryDone, QueryUnlock,
       ReaderBranch, ReaderMore, ReaderPush, BatchStep, BatchPopDoc, BatchPopBlock,
       BatchPopTimeout, BatchCaught, BatchWait, BatchUnlock, BatchRetry, TermDrain, TermJoin,
       BatchRelock, BatchPop, BatchReturn, vars, ioVars,
       NotAborted
<1> QED
  BY <1>1, <1>2, PTL DEF Spec

(* What init makes of a limit is again an int, and 0 only for a limit of   *)
(* 0: a missing one is replaced by the default.                            *)
LEMMA InitLimitProperties ==
  ASSUME NEW p \in Parameters
  PROVE  InitLimit(p) \in INT_MIN..INT_MAX /\ (InitLimit(p) = 0 <=> p.limit = 0)
<1> DEFINE H == 2^(IntBits - 1)
<1>1. H \in Int /\ INT_MAX = H - 1 /\ INT_MIN = -H /\ DefaultLimit \in 1..(H - 1)
  BY InitAssumption DEF INT_MAX, INT_MIN
<1> HIDE DEF H
<1>2. p.limit \in INT_MIN..INT_MAX
  BY DEF Parameters
<1> QED
  BY <1>1, <1>2 DEF InitLimit, Missing

(* The product limit * 5 overflows for most limits, and wraps to 0 for     *)
(* none but 0.                                                             *)
LEMMA FiveTimesWraps ==
  ASSUME NEW n \in (INT_MIN + 1)..INT_MAX
  PROVE  ToInt(n * 5) \in INT_MIN..INT_MAX /\ (ToInt(n * 5) = 0 <=> n = 0)
<1> DEFINE W == 2^IntBits
           H == 2^(IntBits - 1)
<1>1. H \in Int /\ W = 2 * H /\ 2 <= H /\ W % 5 # 0 /\ INT_MAX = H - 1 /\ INT_MIN = -H
  BY InitAssumption, PowerOfTwo DEF INT_MAX, INT_MIN
<1>2. ToInt(n * 5) = ((n * 5 + H) % W) - H
  BY <1>1 DEF ToInt
<1> HIDE DEF W, H
<1>3. n \in (1 - H)..(H - 1) /\ n \in Int /\ W \in Int /\ W > 0
  BY <1>1
<1> DEFINE r == (n * 5 + H) % W
           k == (n * 5 + H) \div W
<1>4. r \in 0..(W - 1) /\ k \in Int /\ n * 5 + H = W * k + r
  BY <1>1, <1>3
<1> HIDE DEF r, k
<1>5. ToInt(n * 5) = r - H
  BY <1>2 DEF r
<1>6. r = H => n = 0
  <2> SUFFICES ASSUME r = H PROVE n = 0
    OBVIOUS
  <2>1. n * 5 = W * k
    BY <1>1, <1>3, <1>4
  <2>2. k \in -2..2
    <3>1. k >= 3 => W * k >= 3 * W
      BY <1>3, <1>4
    <3>2. k <= -3 => W * k <= (-3) * W
      BY <1>3, <1>4
    <3> QED
      BY <1>1, <1>3, <1>4, <2>1, <3>1, <3>2
  <2>3. k \in {-2, -1, 0, 1, 2}
    BY <2>2
  <2> QED
    BY <1>1, <1>3, <2>1, <2>3
<1>7. n = 0 => r = H
  BY <1>1, <1>3 DEF r
<1> QED
  BY <1>1, <1>3, <1>4, <1>5, <1>6, <1>7

(* An int is 0 as a size_t only if it is 0.                                *)
LEMMA SizeZero ==
  ASSUME NEW n \in INT_MIN..INT_MAX
  PROVE  ToSize(n) = 0 <=> n = 0
<1> DEFINE M == 2^(2 * IntBits)
           H == 2^(IntBits - 1)
<1>1. M \in Int /\ H \in Int /\ H < M /\ INT_MAX = H - 1 /\ INT_MIN = -H
  BY SizeHoldsInt, InitAssumption DEF INT_MAX, INT_MIN
<1>2. ToSize(n) = n % M
  BY DEF ToSize
<1> HIDE DEF M, H
<1>3. n \in (-H)..(H - 1) /\ n \in Int
  BY <1>1
<1>4. n >= 0 => n % M = n
  BY <1>1, <1>3
<1>5. n < 0 => n % M = n + M
  BY <1>1, <1>3
<1> QED
  BY <1>1, <1>2, <1>3, <1>4, <1>5

(* Which OPENs give batch_pop a batch of 0 documents or set_size a size of *)
(* 0, through the defaults, the overflow of limit * 5 and the conversions: *)
(* none that does not say 0 itself.                                        *)
THEOREM ZeroOnlyFromZero ==
  ASSUME NEW p \in Parameters
  PROVE  /\ ToSize(InitLimit(p)) = 0 <=> p.limit = 0
         /\ ToSize(InitQueueSize(p)) = 0 <=>
              p.queue_size = 0 \/ (p.queue_size = Missing /\ p.limit = 0)
<1> DEFINE H == 2^(IntBits - 1)
<1>1. H \in Int /\ 2 <= H /\ INT_MAX = H - 1 /\ INT_MIN = -H
      /\ DefaultLimit \in 1..(H - 1)
  BY InitAssumption DEF INT_MAX, INT_MIN
<1> HIDE DEF H
<1>2. p.limit \in INT_MIN..INT_MAX /\ p.queue_size \in INT_MIN..INT_MAX
  BY DEF Parameters
<1>3. InitLimit(p) \in INT_MIN..INT_MAX /\ (InitLimit(p) = 0 <=> p.limit = 0)
  BY InitLimitProperties
<1>4. InitLimit(p) \in (INT_MIN + 1)..INT_MAX
  BY <1>1, <1>2 DEF InitLimit, Missing
<1>5. CASE p.queue_size = Missing
  <2>1. InitQueueSize(p) = ToInt(InitLimit(p) * 5)
    BY <1>5 DEF InitQueueSize
  <2>2. InitQueueSize(p) \in INT_MIN..INT_MAX /\ (InitQueueSize(p) = 0 <=> p.limit = 0)
    BY <1>3, <1>4, <2>1, FiveTimesWraps
  <2>3. p.queue_size # 0
    BY <1>1, <1>5 DEF Missing
  <2> QED
    BY <1>3, <1>5, <2>2, <2>3, SizeZero
<1>6. CASE p.queue_size # Missing
  BY <1>2, <1>3, <1>6, SizeZero DEF InitQueueSize
<1> QED
  BY <1>5, <1>6

(* Whatever the parameters of an OPEN, and however often they overflow or  *)
(* change their sign on the way to set_size and batch_pop, the broker      *)
(* breaks by itself only with a limit of 0 or with a queue of size 0.      *)
THEOREM BreaksAtZeroAlone ==
  ASSUME NEW p \in Parameters, Limit = InitLimit(p)
  PROVE  Spec => []BreaksOnlyAtZero
<1>1. Limit # 0 => Limit \in (INT_MIN..INT_MAX) \ {0}
  BY InitLimitProperties
<1>2. CASE Limit = 0
  <2>1. ReadInv => BreaksOnlyAtZero
    BY <1>2 DEF ReadInv, Room, BreaksOnlyAtZero, PopUndefined
  <2> QED
    BY <2>1, ReadInvariant, PTL
<1>3. CASE Limit # 0
  <2>1. Spec => []NotAborted
    BY <1>1, <1>3, AbortNeedsZeroLimit
  <2>2. ReadInv /\ NotAborted => BreaksOnlyAtZero
    BY DEF ReadInv, Room, BreaksOnlyAtZero, NotAborted, PopUndefined
  <2> QED
    BY <2>1, <2>2, ReadInvariant, PTL
<1> QED
  BY <1>2, <1>3

----------------------------------------------------------------------------
(* Waiting for each other.                                                 *)

(* m_query_done_mutex is locked only while query runs or batch_pop is      *)
(* between its wait and the unlock after it.                               *)
LockHeld ==
  qlock => \/ reader \in {"prepare", "oid", "cursor", "save", "done", "unlock"}
           \/ io \in {"unlock", "crashed", "aborted"}

LEMMA LockHeldInductive ==
  ASSUME ReadInv, LockHeld, [Next]_vars
  PROVE  LockHeld'
<1> USE DEF LockHeld
<1>1. ASSUME ReaderStep PROVE LockHeld'
  BY <1>1 DEF ReaderStep, ReaderTest, QueryLock, PrepareCondition, PrepareOid, QueryCursor,
       QuerySave, QueryDone, QueryUnlock, ReaderBranch, ReaderMore, ReaderPush, queryVars,
       ioVars, readerVars
<1>2. ASSUME BatchStep PROVE LockHeld'
  BY <1>2 DEF BatchStep, BatchPopDoc, BatchPopBlock, BatchPopTimeout, BatchCaught, BatchWait,
       BatchUnlock, BatchRetry, TermDrain, TermJoin, BatchReturn, BatchPop, queryVars,
       ioVars, readerVars
<1>3. ASSUME BatchRelock PROVE LockHeld'
  BY <1>3 DEF BatchRelock
<1>4. ASSUME Insert \/ Open \/ Read \/ Rewind \/ Term \/ UNCHANGED vars PROVE LockHeld'
  <2>1. ~connected => reader = "none"
    BY DEF ReadInv, IoPlace
  <2> QED
    BY <1>4, <2>1 DEF Insert, Open, Connect, Read, Rewind, Term, BatchPop, vars, queryVars,
         ioVars, readerVars
<1> QED
  BY <1>1, <1>2, <1>3, <1>4 DEF Next

(* READ and term wait for the read thread while it waits for them only in  *)
(* the two ways that Stranded and a read_timeout of 0 are, whatever the    *)
(* other parameters, the documents and the number of openings.             *)
THEOREM DeadlockAlwaysStranded == LimitSize # 0 => (Spec => []DeadlockOnlyStranded)
<1> SUFFICES ASSUME LimitSize # 0 PROVE Spec => []DeadlockOnlyStranded
  OBVIOUS
<1>1. Init => LockHeld
  BY DEF Init, LockHeld
<1>2. ReadInv /\ LockHeld /\ [Next]_vars => LockHeld'
  BY LockHeldInductive
<1>3. ReadInv /\ LockHeld => DeadlockOnlyStranded
  <2> SUFFICES ASSUME ReadInv, LockHeld, IoWaits, ReaderWaits
               PROVE  Stranded \/ (ReadTimeout = 0 /\ io = "pop" /\ reader = "exited")
    BY DEF DeadlockOnlyStranded
  <2>1. CASE reader = "exited"
    BY <2>1 DEF IoWaits, LockHeld, Stranded
  <2>2. CASE reader = "lock" /\ qlock
    BY <2>2 DEF IoWaits, LockHeld
  <2>3. CASE wait["reader"] = "can_push"
    <3>1. Full /\ queue # <<>> /\ reader \in {"push", "aborted"}
      <4>1. Full /\ queue \in Seq(Known) /\ reader \in {"push", "aborted"}
        BY <2>3 DEF ReadInv, Shape, QueueWaits
      <4> QED
        BY <4>1, LimitSizeIsNat, EmptySeq DEF Full
    <3>2. io # "join"
      BY <2>3, <3>1 DEF ReadInv, IoPlace, ReaderPlace, Room
    <3>3. ~(io = "relock" /\ qlock) /\ wait["io"] # "can_pop"
      BY <3>1 DEF LockHeld, ReadInv, QueueWaits
    <3> QED
      BY <2>3, <3>2, <3>3 DEF IoWaits, Stranded
  <2> QED
    BY <2>1, <2>2, <2>3 DEF ReaderWaits
<1> QED
  BY <1>1, <1>2, <1>3, ReadInvariant, PTL DEF Spec

=============================================================================
