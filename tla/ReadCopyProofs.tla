--------------------------- MODULE ReadCopyProofs ---------------------------
(***************************************************************************)
(* Where the documents are: theorems about how often a document is on its  *)
(* way from the collection to a client, or has got there.                  *)
(***************************************************************************)
EXTENDS ReadProofs

(* How often d is anywhere on that way.                                    *)
Copies(d) ==
  Count(delivered, d) + Count(dropped, d) + Count(out, d) + Count(queue, d) + Count(docs, d)

Reached(d, n) == IF d <= n THEN 1 ELSE 0

(* Once for each REWIND, and once more up to the last document fetched.    *)
(* A query that a REWIND met after it had read m_last_doc_id goes on from  *)
(* there, but that REWIND has not been used yet.                           *)
CopyBound(d) ==
  IF ~connected \/ io = "aborted" THEN Copies(d) <= Len(rewinds) + 1
  ELSE IF reader = "cursor" /\ cond # last_id
  THEN Copies(d) + 1 <= Len(rewinds) + Reached(d, cond)
  ELSE Copies(d) <= Len(rewinds) + Reached(d, Fetched)

CopiesBounded == \A d \in 1..NumDocs : CopyBound(d)

(* No document is lost before the read thread is told to exit.             *)
NoneLost ==
  (connected /\ ~do_exit /\ rewinds = <<>> /\ io # "aborted") =>
    \A d \in 1..Fetched : Copies(d) >= 1

----------------------------------------------------------------------------
(* What each step does to the number of copies.                            *)

LEMMA CopiesType ==
  ASSUME Shape, NEW d
  PROVE  /\ Copies(d) \in Nat
         /\ Count(delivered, d) \in Nat /\ Count(dropped, d) \in Nat
         /\ Count(out, d) \in Nat /\ Count(queue, d) \in Nat /\ Count(docs, d) \in Nat
<1>1. /\ Count(delivered, d) \in Nat /\ Count(dropped, d) \in Nat
      /\ Count(out, d) \in Nat /\ Count(queue, d) \in Nat /\ Count(docs, d) \in Nat
  BY CountType DEF Shape
<1> QED
  BY <1>1 DEF Copies

(* A step that moves documents along keeps every copy.                     *)
LEMMA CopiesKept ==
  ASSUME ReadInv, Shape', NEW d,
         \/ ReaderPush \/ BatchPopDoc \/ BatchRetry \/ Read \/ TermDrain
         \/ UNCHANGED <<delivered, dropped, out, queue, docs>>
  PROVE  Copies(d)' = Copies(d)
<1>0. /\ Shape /\ QueueWaits /\ IoPlace
  BY DEF ReadInv
<1>t. /\ Count(delivered, d) \in Nat /\ Count(dropped, d) \in Nat
      /\ Count(out, d) \in Nat /\ Count(queue, d) \in Nat /\ Count(docs, d) \in Nat
  BY <1>0, CopiesType
<1>u. /\ Count(delivered', d) \in Nat /\ Count(dropped', d) \in Nat
      /\ Count(out', d) \in Nat /\ Count(queue', d) \in Nat /\ Count(docs', d) \in Nat
  BY CountType DEF Shape
<1>p. Copies(d)' = Count(delivered', d) + Count(dropped', d) + Count(out', d)
                     + Count(queue', d) + Count(docs', d)
  BY DEF Copies, Count, Places
<1>1. CASE ReaderPush
  <2>1. CASE PushBlock("reader") /\ UNCHANGED <<reader, docs>>
    BY <1>1, <1>p, <2>1 DEF ReaderPush, PushBlock, ioVars, batchVars, history, sentVars, Copies
  <2>2. CASE /\ PushEnter("reader", docs) \/ PushResume("reader", docs)
             /\ docs' = Kept(docs, Moved(docs))
    <3>1. Count(queue', d) + Count(docs', d) = Count(queue, d) + Count(docs, d)
      BY <1>0, <2>2, ReaderPushes
    <3>2. delivered' = delivered /\ dropped' = dropped /\ out' = out
      BY <1>1 DEF ReaderPush, ioVars, batchVars, history, sentVars
    <3> QED
      BY <1>p, <1>t, <1>u, <3>1, <3>2 DEF Copies
  <2> QED
    BY <1>1, <2>1, <2>2 DEF ReaderPush
<1>2. CASE BatchPopDoc
  <2>1. Count(delivered', d) + Count(dropped', d) + Count(out', d) + Count(queue', d)
          = Count(delivered, d) + Count(dropped, d) + Count(out, d) + Count(queue, d)
    BY <1>0, <1>2, PopDoc
  <2>2. docs' = docs
    BY <1>2 DEF BatchPopDoc, readerVars
  <2> QED
    BY <1>p, <2>1, <2>2 DEF Copies
<1>3. CASE BatchRetry
  <2>1. Count(delivered', d) + Count(dropped', d) + Count(out', d)
          = Count(delivered, d) + Count(dropped, d) + Count(out, d)
    BY <1>0, <1>3, NextAttempt
  <2>2. docs' = docs /\ queue' = queue
    BY <1>3 DEF BatchRetry, readerVars, queueVars
  <2> QED
    BY <1>p, <2>1, <2>2 DEF Copies
<1>4. CASE Read \/ TermDrain
  <2>1. UNCHANGED <<delivered, dropped, out, queue, docs>>
    BY <1>0, <1>4 DEF Read, TermDrain, BatchPop, IoPlace, batchVars, readerVars, queueVars,
                      history, sentVars
  <2> QED
    BY <1>p, <2>1 DEF Copies
<1>5. CASE UNCHANGED <<delivered, dropped, out, queue, docs>>
  BY <1>5, <1>p DEF Copies
<1> QED
  BY <1>1, <1>2, <1>3, <1>4, <1>5

(* A thread told to exit may drop what it has in hand.                     *)
LEMMA CopiesDropped ==
  ASSUME ReadInv, Shape', NEW d, ReaderTest \/ TermJoin
  PROVE  Copies(d)' <= Copies(d) /\ (~do_exit => Copies(d)' = Copies(d))
<1>0. Shape /\ IoPlace /\ ReaderPlace
  BY DEF ReadInv
<1>t. /\ Count(delivered, d) \in Nat /\ Count(dropped, d) \in Nat
      /\ Count(out, d) \in Nat /\ Count(queue, d) \in Nat /\ Count(docs, d) \in Nat
      /\ Count(<<>>, d) = 0
  BY <1>0, CopiesType, CountEmpty
<1>p. Copies(d)' = Count(delivered', d) + Count(dropped', d) + Count(out', d)
                     + Count(queue', d) + Count(docs', d)
  BY DEF Copies, Count, Places
<1>1. CASE ReaderTest
  <2>1. /\ UNCHANGED <<delivered, dropped, out, queue>> /\ docs' = <<>>
        /\ ~do_exit => docs = <<>>
    BY <1>0, <1>1 DEF ReaderTest, ReaderPlace, queueVars, ioVars, batchVars, history, sentVars
  <2> QED
    BY <1>t, <1>p, <2>1 DEF Copies
<1>2. CASE TermJoin
  <2>1. UNCHANGED <<delivered, dropped, docs, queue>> /\ out' = <<>> /\ do_exit
    BY <1>0, <1>2 DEF TermJoin, IoPlace, queueVars, history, sentVars
  <2> QED
    BY <1>t, <1>p, <2>1 DEF Copies
<1> QED
  BY <1>1, <1>2

(* A query adds what it finds.                                             *)
LEMMA CopiesQuery ==
  ASSUME ReadInv, NEW d, QueryCursor
  PROVE  Copies(d)' = Copies(d) + Count(docs', d)
<1>0. Shape /\ docs = <<>>
  BY DEF ReadInv, ReaderPlace, QueryCursor
<1>t. /\ Count(delivered, d) \in Nat /\ Count(dropped, d) \in Nat
      /\ Count(out, d) \in Nat /\ Count(queue, d) \in Nat /\ Count(docs, d) = 0
  BY <1>0, CopiesType, CountEmpty
<1>p. Copies(d)' = Count(delivered', d) + Count(dropped', d) + Count(out', d)
                     + Count(queue', d) + Count(docs', d)
  BY DEF Copies, Count, Places
<1>1. UNCHANGED <<delivered, dropped, out, queue>>
  BY DEF QueryCursor, queueVars, ioVars, batchVars, history, sentVars
<1> QED
  BY <1>t, <1>p, <1>1 DEF Copies

(* An opening starts from nothing.                                         *)
LEMMA CopiesOpen ==
  ASSUME ReadInv, NEW d, Open
  PROVE  Copies(d)' = 0
<1>1. delivered' = <<>> /\ dropped' = <<>> /\ out' = <<>> /\ queue' = <<>> /\ docs' = <<>>
  BY DEF Open, Connect, Clear, ioVars, batchVars, ReadInv, IoPlace
<1>p. Copies(d)' = Count(delivered', d) + Count(dropped', d) + Count(out', d)
                     + Count(queue', d) + Count(docs', d)
  BY DEF Copies, Count, Places
<1> QED
  BY <1>1, <1>p, CountEmpty

----------------------------------------------------------------------------
(* No more copies than REWINDs allow.                                      *)

(* The steps that touch neither the read thread's place nor m_last_doc_id. *)
QuietStep ==
  \/ Insert \/ Term \/ BatchPopDoc \/ BatchPopBlock \/ BatchPopTimeout \/ BatchCaught
  \/ BatchWait \/ BatchUnlock \/ BatchRetry \/ BatchRelock \/ TermDrain \/ UNCHANGED vars

LEMMA Quiet ==
  ASSUME ReadInv, [Next]_vars, QuietStep
  PROVE  /\ UNCHANGED <<connected, reader, cond, docs, last_id, rewinds>>
         /\ do_exit => do_exit'
         /\ io' = "aborted" <=> io = "aborted"
         /\ \A d : Copies(d)' = Copies(d)
<1>0. Shape' /\ IoPlace
  BY ShapeInductive DEF ReadInv
<1>1. UNCHANGED <<connected, reader, cond, docs, last_id, rewinds>>
  BY DEF QuietStep, Insert, Term, BatchPopDoc, BatchPopBlock, BatchPopTimeout, BatchCaught,
         BatchWait, BatchUnlock, BatchRetry, BatchRelock, TermDrain, vars, readerVars, flags,
         history
<1>2. do_exit => do_exit'
  BY DEF QuietStep, Insert, Term, BatchPopDoc, BatchPopBlock, BatchPopTimeout, BatchCaught,
         BatchWait, BatchUnlock, BatchRetry, BatchRelock, TermDrain, vars, flags
<1>3. io' = "aborted" <=> io = "aborted"
  BY DEF QuietStep, Insert, Term, BatchPopDoc, BatchPopBlock, BatchPopTimeout, BatchCaught,
         BatchWait, BatchUnlock, BatchRetry, BatchRelock, TermDrain, BatchPop, BatchReturn,
         vars, ioVars
<1>4. ASSUME NEW d PROVE Copies(d)' = Copies(d)
  <2>1. \/ BatchPopDoc \/ BatchRetry \/ TermDrain
        \/ UNCHANGED <<delivered, dropped, out, queue, docs>>
    BY DEF QuietStep, Insert, Term, BatchPopBlock, PopBlock, BatchPopTimeout, PopTimeout,
           BatchCaught, BatchWait, BatchUnlock, BatchRelock, vars, readerVars, ioVars,
           batchVars, queueVars, history, sentVars
  <2> QED
    BY <1>0, <2>1, CopiesKept
<1> QED
  BY <1>1, <1>2, <1>3, <1>4

LEMMA CopiesInductive ==
  ASSUME ReadInv, CopiesBounded, [Next]_vars
  PROVE  CopiesBounded'
<1> SUFFICES ASSUME NEW d \in 1..NumDocs PROVE CopyBound(d)'
  BY DEF CopiesBounded
<1>0. /\ Shape /\ Shape' /\ IoPlace /\ ReaderPlace /\ CopyBound(d)
      /\ Copies(d) \in Nat /\ d \in Nat /\ d > 0
  BY ShapeInductive, CopiesType DEF ReadInv, CopiesBounded
<1>a. Copies(d)' \in Nat
  <2>1. /\ Count(delivered', d) \in Nat /\ Count(dropped', d) \in Nat
        /\ Count(out', d) \in Nat /\ Count(queue', d) \in Nat /\ Count(docs', d) \in Nat
    BY <1>0, CountType DEF Shape
  <2> QED
    BY <2>1 DEF Copies, Count, Places
<1>b. /\ Len(rewinds) \in Nat /\ last_id \in Nat /\ cond \in Nat
      /\ last_id' \in Nat /\ cond' \in Nat
  BY <1>0, LenProperties, ReadAssumption DEF Shape
<1>c. Fetched \in Nat /\ Fetched' \in Nat
  <2>1. ASSUME NEW s \in Seq(Known), s # <<>> PROVE Last(s) \in Nat
    <3>1. Len(s) \in 1..Len(s)
      BY <2>1, EmptySeq, LenProperties
    <3>2. s[Len(s)] \in Known
      BY <3>1, ElementOfSeq
    <3> QED
      BY <3>2 DEF Last, Known
  <2>2. ASSUME NEW s \in Seq(Known'), s # <<>> PROVE Last(s) \in Nat
    <3>1. Len(s) \in 1..Len(s)
      BY <2>2, EmptySeq, LenProperties
    <3>2. s[Len(s)] \in Known'
      BY <3>1, ElementOfSeq
    <3> QED
      BY <3>2 DEF Last, Known
  <2>3. docs \in Seq(Known) /\ docs' \in Seq(Known')
    BY <1>0 DEF Shape
  <2> QED
    BY <1>b, <2>1, <2>2, <2>3 DEF Fetched
<1>d. Copies(d) <= Len(rewinds) + 1
  BY <1>0, <1>b, <1>c DEF CopyBound, Reached
<1>q. ASSUME QuietStep PROVE CopyBound(d)'
  <2>1. /\ UNCHANGED <<connected, reader, cond, docs, last_id, rewinds>>
        /\ io' = "aborted" <=> io = "aborted"
        /\ Copies(d)' = Copies(d)
    BY <1>q, Quiet
  <2>2. Fetched' = Fetched
    BY <2>1 DEF Fetched
  <2> QED
    BY <1>0, <2>1, <2>2 DEF CopyBound, Reached
<1>r. ASSUME ReaderStep
      PROVE  /\ connected /\ io # "aborted" /\ connected' = connected
             /\ io' # "aborted" /\ rewinds' = rewinds
  BY <1>0, <1>r DEF ReaderStep, ReaderTest, QueryLock, PrepareCondition, PrepareOid,
       QueryCursor, QuerySave, QueryDone, QueryUnlock, ReaderBranch, ReaderMore, ReaderPush,
       IoPlace, ReaderPlace, flags, history, ioVars
<1>s. ASSUME ReaderTest \/ QueryLock \/ QueryUnlock \/ QueryDone \/ ReaderBranch
             \/ ReaderMore \/ ReaderPush
      PROVE  CopyBound(d)'
  <2>1. ReaderStep
    BY <1>s DEF ReaderStep
  <2>2. reader \notin {"cursor", "save"} /\ reader' \notin {"cursor", "save"} /\ last_id' = last_id
    BY <1>s DEF ReaderTest, QueryLock, QueryDone, QueryUnlock, ReaderBranch, ReaderMore, ReaderPush
  <2>3. Fetched = last_id /\ Fetched' = last_id
    BY <2>2 DEF Fetched
  <2>4. Copies(d)' <= Copies(d)
    <3>1. CASE ReaderTest
      BY <1>0, <3>1, CopiesDropped
    <3>2. CASE ~ReaderTest
      <4>1. ReaderPush \/ UNCHANGED <<delivered, dropped, out, queue, docs>>
        BY <1>s, <3>2 DEF QueryLock, QueryDone, QueryUnlock, ReaderBranch, ReaderMore,
             queueVars, ioVars, batchVars, history, sentVars
      <4>2. Copies(d)' = Copies(d)
        BY <1>0, <4>1, CopiesKept
      <4> QED
        BY <1>0, <4>2
    <3> QED
      BY <3>1, <3>2
  <2>5. Copies(d) <= Len(rewinds) + Reached(d, last_id)
    BY <1>0, <1>r, <2>1, <2>2, <2>3 DEF CopyBound
  <2>6. Copies(d)' <= Len(rewinds) + Reached(d, last_id)
    BY <1>0, <1>a, <1>b, <2>4, <2>5 DEF Reached
  <2> QED
    BY <1>r, <2>1, <2>2, <2>3, <2>6 DEF CopyBound, Reached
<1>1. ASSUME PrepareCondition PROVE CopyBound(d)'
  <2>1. ReaderStep /\ UNCHANGED <<delivered, dropped, out, queue, docs>>
    BY <1>1 DEF ReaderStep, PrepareCondition, queueVars, ioVars, batchVars, history, sentVars
  <2>2. Copies(d)' = Copies(d)
    BY <1>0, <2>1, CopiesKept
  <2>3. /\ reader = "prepare" /\ reader' \in {"cursor", "oid"} /\ last_id' = last_id
        /\ reader' = "cursor" => cond' = last_id
    BY <1>1 DEF PrepareCondition
  <2>4. Fetched = last_id /\ Fetched' = last_id
    BY <2>3 DEF Fetched
  <2> QED
    BY <1>0, <1>r, <2>1, <2>2, <2>3, <2>4 DEF CopyBound, Reached
<1>2. ASSUME PrepareOid PROVE CopyBound(d)'
  <2>1. ReaderStep /\ UNCHANGED <<delivered, dropped, out, queue, docs>>
    BY <1>2 DEF ReaderStep, PrepareOid, queueVars, batchVars, history, sentVars
  <2>2. Copies(d)' = Copies(d)
    BY <1>0, <2>1, CopiesKept
  <2>3. /\ reader = "oid" /\ reader' \in {"cursor", "crashed"} /\ last_id' = last_id
        /\ cond' = last_id
    BY <1>2 DEF PrepareOid
  <2>4. Fetched = last_id /\ Fetched' = last_id
    BY <2>3 DEF Fetched
  <2> QED
    BY <1>0, <1>r, <2>1, <2>2, <2>3, <2>4 DEF CopyBound, Reached
<1>3. ASSUME QueryCursor PROVE CopyBound(d)'
  <2>1. ReaderStep
    BY <1>3 DEF ReaderStep
  <2>2. /\ reader = "cursor" /\ reader' = "save" /\ last_id' = last_id
        /\ docs' = Found(cond)
    BY <1>3 DEF QueryCursor
  <2>3. Copies(d)' = Copies(d) + Count(docs', d)
    BY <1>3, CopiesQuery
  <2>4. /\ docs' # <<>> => /\ Last(docs') \in Nat /\ Last(docs') > cond
                           /\ Count(docs', d) = IF cond + Skip < d /\ d <= Last(docs')
                                                THEN 1 ELSE 0
    <3>1. cond \in 0..inserted /\ inserted \in Nat
      BY <1>0, ReadAssumption DEF Shape
    <3> QED
      BY <1>0, <2>2, <3>1, FoundProperties DEF Known
  <2>5. CASE docs' = <<>>
    <3>1. Copies(d)' = Copies(d)
      BY <1>0, <2>3, <2>5, CountEmpty
    <3>2. Fetched = last_id /\ Fetched' = last_id
      BY <2>2, <2>5 DEF Fetched
    <3> QED
      BY <1>0, <1>b, <1>r, <2>1, <2>2, <3>1, <3>2 DEF CopyBound, Reached
  <2>6. CASE docs' # <<>>
    <3>1. Fetched' = Last(docs')
      BY <2>2, <2>6 DEF Fetched
    <3>2. Copies(d) <= Len(rewinds) + Reached(d, cond)
      <4>1. Fetched = last_id
        BY <2>2 DEF Fetched
      <4> QED
        BY <1>0, <1>b, <1>r, <2>1, <2>2, <4>1 DEF CopyBound, Reached
    <3>3. Copies(d)' <= Len(rewinds) + Reached(d, Last(docs'))
      BY <1>0, <1>b, <2>3, <2>4, <2>6, <3>2, ReadAssumption DEF Reached
    <3> QED
      BY <1>r, <2>1, <2>2, <3>1, <3>3 DEF CopyBound, Reached
  <2> QED
    BY <2>5, <2>6
<1>4. ASSUME QuerySave PROVE CopyBound(d)'
  <2>1. ReaderStep /\ UNCHANGED <<delivered, dropped, out, queue, docs>>
    BY <1>4 DEF ReaderStep, QuerySave, queueVars, ioVars, batchVars, history, sentVars
  <2>2. Copies(d)' = Copies(d)
    BY <1>0, <2>1, CopiesKept
  <2>3. reader = "save" /\ reader' = "done" /\ Fetched' = Fetched
    BY <1>4 DEF QuerySave, Fetched
  <2> QED
    BY <1>0, <1>r, <2>1, <2>2, <2>3 DEF CopyBound, Reached
<1>5. ASSUME Open PROVE CopyBound(d)'
  <2>1. Copies(d)' = 0 /\ Len(rewinds') \in Nat
    BY <1>0, <1>5, CopiesOpen, LenProperties DEF Shape
  <2>2. reader' = "test"
    BY <1>5 DEF Open
  <2> QED
    BY <1>c, <2>1, <2>2 DEF CopyBound, Reached
<1>6. ASSUME Read PROVE CopyBound(d)'
  <2>1. Copies(d)' = Copies(d)
    BY <1>0, <1>6, CopiesKept
  <2>2. /\ UNCHANGED <<connected, cond, docs, last_id, rewinds>>
        /\ io # "aborted" /\ connected
        /\ reader' = reader \/ io' = "aborted"
    BY <1>6 DEF Read, BatchPop, flags, history
  <2>3. CASE io' = "aborted"
    BY <1>d, <2>1, <2>2, <2>3 DEF CopyBound
  <2>4. CASE io' # "aborted"
    <3>1. Fetched' = Fetched
      BY <2>2, <2>4 DEF Fetched
    <3> QED
      BY <1>0, <2>1, <2>2, <2>4, <3>1 DEF CopyBound, Reached
  <2> QED
    BY <2>3, <2>4
<1>7. ASSUME Rewind PROVE CopyBound(d)'
  <2>1. UNCHANGED <<delivered, dropped, out, queue, docs, reader, cond, connected>>
    BY <1>7 DEF Rewind, queueVars, ioVars, batchVars, readerVars, sentVars
  <2>2. Copies(d)' = Copies(d)
    BY <1>0, <2>1, CopiesKept
  <2>3. Len(rewinds') = Len(rewinds) + 1
    <3>1. rewinds \in Seq(Nat) /\ Len(delivered) \in Nat
      BY <1>0, LenProperties DEF Shape
    <3> QED
      BY <1>7, <3>1, AppendProperties DEF Rewind
  <2>4. io # "aborted" /\ io' = io /\ connected /\ last_id' = 0
    BY <1>7 DEF Rewind, ioVars
  <2>5. reader = "cursor" => Copies(d) <= Len(rewinds) + Reached(d, cond)
    <3>1. reader = "cursor" => Fetched = last_id
      BY DEF Fetched
    <3> QED
      BY <1>0, <1>b, <2>4, <3>1 DEF CopyBound, Reached
  <2> QED
    BY <1>0, <1>b, <1>c, <1>d, <2>1, <2>2, <2>3, <2>4, <2>5 DEF CopyBound, Reached
<1>8. ASSUME TermJoin PROVE CopyBound(d)'
  <2>1. Copies(d)' <= Copies(d) /\ ~connected' /\ rewinds' = rewinds
    BY <1>0, <1>8, CopiesDropped DEF TermJoin, history
  <2> QED
    BY <1>0, <1>a, <1>b, <1>d, <2>1 DEF CopyBound
<1> QED
  BY <1>q, <1>s, <1>1, <1>2, <1>3, <1>4, <1>5, <1>6, <1>7, <1>8
     DEF Next, ReaderStep, BatchStep, QuietStep

LEMMA CopiesInvariant == Spec => []CopiesBounded
<1>1. Init => CopiesBounded
  <2> SUFFICES ASSUME Init, NEW d \in 1..NumDocs PROVE CopyBound(d)
    BY DEF CopiesBounded
  <2>1. Copies(d) = 0 /\ Len(rewinds) = 0 /\ ~connected
    BY CountEmpty, EmptySeq DEF Init, QueueInit, Copies
  <2> QED
    BY <2>1 DEF CopyBound
<1>2. ReadInv /\ CopiesBounded /\ [Next]_vars => CopiesBounded'
  BY CopiesInductive
<1> QED
  BY <1>1, <1>2, ReadInvariant, PTL DEF Spec

----------------------------------------------------------------------------
(* No document is lost.                                                    *)

LEMMA NoneLostInductive ==
  ASSUME Skip = 0, ReadInv, NoneLost, [Next]_vars
  PROVE  NoneLost'
<1> SUFFICES ASSUME connected', ~do_exit', rewinds' = <<>>, io' # "aborted",
                    NEW d \in 1..Fetched'
             PROVE  Copies(d)' >= 1
  BY DEF NoneLost
<1>0. Shape /\ Shape' /\ IoPlace /\ ReaderPlace
  BY ShapeInductive DEF ReadInv
<1>d. d \in Nat /\ d >= 1
  OBVIOUS
<1>c. ASSUME connected, ~do_exit, rewinds = <<>>, io # "aborted", d \in 1..Fetched,
             Copies(d)' = Copies(d)
      PROVE  Copies(d)' >= 1
  BY <1>c DEF NoneLost
<1>q. ASSUME QuietStep PROVE Copies(d)' >= 1
  <2>1. /\ UNCHANGED <<connected, reader, docs, last_id, rewinds>>
        /\ ~do_exit /\ io # "aborted" /\ Copies(d)' = Copies(d)
    BY <1>q, Quiet
  <2>2. Fetched' = Fetched
    BY <2>1 DEF Fetched
  <2> QED
    BY <1>c, <2>1, <2>2
<1>r. ASSUME ReaderStep
      PROVE  connected /\ ~do_exit /\ rewinds = <<>> /\ io # "aborted"
  BY <1>0, <1>r DEF ReaderStep, ReaderTest, QueryLock, PrepareCondition, PrepareOid,
       QueryCursor, QuerySave, QueryDone, QueryUnlock, ReaderBranch, ReaderMore, ReaderPush,
       IoPlace, ReaderPlace, flags, history, ioVars
<1>s. ASSUME ReaderStep, ~QueryCursor PROVE Copies(d)' >= 1
  <2>1. Copies(d)' = Copies(d)
    <3>1. CASE ReaderTest
      BY <1>0, <1>r, <1>s, <3>1, CopiesDropped
    <3>2. CASE ReaderPush
      BY <1>0, <3>2, CopiesKept
    <3>3. CASE ~ReaderTest /\ ~ReaderPush
      <4>1. UNCHANGED <<delivered, dropped, out, queue, docs>>
        BY <1>s, <3>3 DEF ReaderStep, QueryLock, PrepareCondition, PrepareOid, QuerySave,
             QueryDone, QueryUnlock, ReaderBranch, ReaderMore, queueVars, ioVars, batchVars,
             history, sentVars
      <4> QED
        BY <1>0, <4>1, CopiesKept
    <3> QED
      BY <3>1, <3>2, <3>3
  <2>2. Fetched' = Fetched
    <3>1. CASE QuerySave
      BY <3>1 DEF QuerySave, Fetched
    <3>2. CASE ~QuerySave
      <4>1. reader # "save" /\ reader' # "save" /\ last_id' = last_id
        BY <1>s, <3>2 DEF ReaderStep, ReaderTest, QueryLock, PrepareCondition, PrepareOid,
             QueryDone, QueryUnlock, ReaderBranch, ReaderMore, ReaderPush
      <4> QED
        BY <4>1 DEF Fetched
    <3> QED
      BY <3>1, <3>2
  <2> QED
    BY <1>c, <1>r, <1>s, <2>1, <2>2
<1>1. ASSUME QueryCursor PROVE Copies(d)' >= 1
  <2>1. ReaderStep
    BY <1>1 DEF ReaderStep
  <2>2. /\ reader = "cursor" /\ reader' = "save" /\ last_id' = last_id
        /\ docs' = Found(cond) /\ cond = last_id
    BY <1>0, <1>1, <1>r, <2>1 DEF QueryCursor, ReaderPlace
  <2>3. Copies(d)' = Copies(d) + Count(docs', d)
    BY <1>1, CopiesQuery
  <2>4. Copies(d) \in Nat /\ Count(docs', d) \in Nat
    BY <1>0, CopiesType, CountType DEF Shape
  <2>5. cond \in 0..inserted /\ inserted \in Nat
    BY <1>0, ReadAssumption DEF Shape
  <2>6. Fetched = last_id
    BY <2>2 DEF Fetched
  <2>7. CASE d <= last_id
    <3>1. d \in 1..Fetched
      BY <2>2, <2>5, <2>6, <2>7
    <3>2. Copies(d) >= 1
      BY <1>r, <2>1, <3>1 DEF NoneLost
    <3> QED
      BY <2>3, <2>4, <3>2
  <2>8. CASE d > last_id
    <3>1. docs' # <<>> /\ Fetched' = Last(docs')
      BY <2>2, <2>5, <2>8 DEF Fetched
    <3>2. /\ Last(docs') \in Nat
          /\ Count(docs', d) = IF cond + Skip < d /\ d <= Last(docs') THEN 1 ELSE 0
      BY <1>0, <2>2, <2>5, <3>1, FoundProperties DEF Known
    <3>3. Count(docs', d) = 1
      BY <2>2, <2>5, <2>8, <3>1, <3>2
    <3> QED
      BY <2>3, <2>4, <3>3
  <2> QED
    BY <2>2, <2>5, <2>7, <2>8
<1>2. ASSUME Open PROVE Copies(d)' >= 1
  <2>1. Fetched' = 0
    BY <1>0, <1>2 DEF Open, IoPlace, Fetched
  <2> QED
    BY <2>1
<1>3. ASSUME Read PROVE Copies(d)' >= 1
  <2>1. Copies(d)' = Copies(d)
    BY <1>0, <1>3, CopiesKept
  <2>2. /\ UNCHANGED <<connected, docs, last_id, rewinds, reader>>
        /\ ~do_exit /\ io # "aborted"
    BY <1>3 DEF Read, BatchPop, flags, history
  <2>3. Fetched' = Fetched
    BY <2>2 DEF Fetched
  <2> QED
    BY <1>c, <2>1, <2>2, <2>3
<1>4. ~Rewind
  <2>1. rewinds \in Seq(Nat) /\ Len(delivered) \in Nat
    BY <1>0, LenProperties DEF Shape
  <2>2. Append(rewinds, Len(delivered)) # <<>>
    BY <2>1, AppendProperties
  <2> QED
    BY <2>2 DEF Rewind
<1>5. ~TermJoin
  BY DEF TermJoin
<1> QED
  BY <1>q, <1>s, <1>1, <1>2, <1>3, <1>4, <1>5 DEF Next, BatchStep, QuietStep

LEMMA NoneLostInvariant == Skip = 0 => (Spec => []NoneLost)
<1> SUFFICES ASSUME Skip = 0 PROVE Spec => []NoneLost
  OBVIOUS
<1>1. Init => NoneLost
  BY DEF Init, NoneLost
<1>2. ReadInv /\ NoneLost /\ [Next]_vars => NoneLost'
  BY NoneLostInductive
<1> QED
  BY <1>1, <1>2, ReadInvariant, PTL DEF Spec

(* Count(all, d), for what EachDocOnce calls all.                          *)
LEMMA CountAll ==
  ASSUME Shape, NEW d
  PROVE  LET all == delivered \o dropped \o out \o queue \o docs
         IN  all \in Seq(Known) /\ Count(all, d) = Copies(d)
<1> DEFINE a1 == delivered \o dropped
           a2 == a1 \o out
           a3 == a2 \o queue
           a4 == a3 \o docs
<1>0. /\ delivered \in Seq(Known) /\ dropped \in Seq(Known) /\ out \in Seq(Known)
      /\ queue \in Seq(Known) /\ docs \in Seq(Known)
  BY DEF Shape
<1>1. a1 \in Seq(Known) /\ Count(a1, d) = Count(delivered, d) + Count(dropped, d)
  BY <1>0, CountConcat, ConcatProperties
<1> HIDE DEF a1
<1>2. a2 \in Seq(Known) /\ Count(a2, d) = Count(a1, d) + Count(out, d)
  BY <1>0, <1>1, CountConcat, ConcatProperties
<1> HIDE DEF a2
<1>3. a3 \in Seq(Known) /\ Count(a3, d) = Count(a2, d) + Count(queue, d)
  BY <1>0, <1>2, CountConcat, ConcatProperties
<1> HIDE DEF a3
<1>4. a4 \in Seq(Known) /\ Count(a4, d) = Count(a3, d) + Count(docs, d)
  BY <1>0, <1>3, CountConcat, ConcatProperties
<1> HIDE DEF a4
<1>5. Count(a4, d) = Copies(d)
  BY <1>1, <1>2, <1>3, <1>4 DEF Copies
<1> QED
  BY <1>4, <1>5 DEF a1, a2, a3, a4

(* Without a REWIND no document is lost and none is read twice, whatever   *)
(* the queue's size, m_limit, the timeouts and the retries are, and for    *)
(* any number of documents and openings, as long as m_skip is 0.           *)
THEOREM EachDocAlwaysOnce == Skip = 0 => (Spec => []EachDocOnce)
<1> SUFFICES ASSUME Skip = 0 PROVE Spec => []EachDocOnce
  OBVIOUS
<1>1. ReadInv /\ CopiesBounded /\ NoneLost => EachDocOnce
  <2> SUFFICES ASSUME ReadInv, CopiesBounded, NoneLost,
                      connected, ~do_exit, rewinds = <<>>, io # "aborted"
               PROVE  /\ ToSet(delivered \o dropped \o out \o queue \o docs) = (Skip + 1)..Fetched
                      /\ IsInjective(delivered \o dropped \o out \o queue \o docs)
    BY DEF EachDocOnce
  <2> DEFINE all == delivered \o dropped \o out \o queue \o docs
  <2>0. Shape /\ ReaderPlace /\ inserted \in 0..NumDocs /\ NumDocs \in Nat
    BY ReadAssumption DEF ReadInv, Shape
  <2>1. all \in Seq(Known) /\ \A d : Count(all, d) = Copies(d)
    BY <2>0, CountAll
  <2> HIDE DEF all
  <2>2. Fetched \in 0..inserted
    <3>1. CASE docs # <<>>
      <4>1. Len(docs) \in 1..Len(docs) /\ docs \in Seq(Known)
        BY <2>0, <3>1, EmptySeq, LenProperties DEF Shape
      <4>2. docs[Len(docs)] \in Known
        BY <4>1, ElementOfSeq
      <4> QED
        BY <2>0, <4>2 DEF Last, Known, Fetched, Shape
    <3>2. CASE docs = <<>>
      BY <2>0, <3>2 DEF Fetched, Shape
    <3> QED
      BY <3>1, <3>2
  <2>3. ASSUME NEW d \in Known PROVE Copies(d) = IF d <= Fetched THEN 1 ELSE 0
    <3>1. d \in 1..NumDocs /\ d \in Nat /\ d >= 1
      BY <2>0, <2>3 DEF Known
    <3>2. Copies(d) <= Reached(d, Fetched)
      <4>1. CopyBound(d) /\ Len(rewinds) = 0
        BY <3>1, EmptySeq DEF CopiesBounded
      <4>2. reader = "cursor" => cond = last_id
        BY <2>0 DEF ReaderPlace
      <4> QED
        BY <4>1, <4>2 DEF CopyBound, Reached
    <3>3. d <= Fetched => Copies(d) >= 1
      BY <2>2, <3>1 DEF NoneLost
    <3>4. Copies(d) \in Nat
      BY <2>0, CopiesType
    <3> QED
      BY <3>2, <3>3, <3>4 DEF Reached
  <2>4. IsInjective(all)
    <3>1. \A d \in Known : Count(all, d) <= 1
      BY <2>1, <2>3
    <3> QED
      BY <2>1, <3>1, CountInjective
  <2>5. ASSUME NEW d PROVE d \in ToSet(all) <=> d \in 1..Fetched
    <3>1. d \in ToSet(all) <=> Copies(d) # 0
      BY <2>1, CountMember
    <3>2. d \in ToSet(all) => d \in Known
      BY <2>1, ElementOfSeq DEF ToSet
    <3>3. d \in 1..Fetched => d \in Known
      BY <2>0, <2>2 DEF Known
    <3>4. d \in Known => d \in Nat /\ d >= 1
      BY <2>0 DEF Known
    <3> QED
      BY <2>2, <2>3, <3>1, <3>2, <3>3, <3>4
  <2>6. ToSet(all) = (Skip + 1)..Fetched
    <3>1. ToSet(all) = 1..Fetched
      BY <2>5
    <3> QED
      BY <3>1
  <2> QED
    BY <2>4, <2>6 DEF all
<1> QED
  BY <1>1, ReadInvariant, CopiesInvariant, NoneLostInvariant, PTL

----------------------------------------------------------------------------
(* The broker implements Cursor.                                           *)

(* How often clients have been answered with d.                            *)
Sent(d) == Count(delivered, d) + Count(dropped, d)

(* What Credit counts, and that it does not become negative.               *)
CreditLeft ==
  \A d \in 1..NumDocs : /\ Sent(d) \in Nat /\ Len(rewinds) \in Nat
                        /\ Credit(d) = 1 + Len(rewinds) - Sent(d)
                        /\ Sent(d) <= Len(rewinds) + 1

LEMMA CreditInvariant == Spec => []CreditLeft
<1>1. ReadInv /\ CopiesBounded => CreditLeft
  <2> SUFFICES ASSUME ReadInv, CopiesBounded, NEW d \in 1..NumDocs
               PROVE  /\ Sent(d) \in Nat /\ Len(rewinds) \in Nat
                      /\ Credit(d) = 1 + Len(rewinds) - Sent(d)
                      /\ Sent(d) <= Len(rewinds) + 1
    BY DEF CreditLeft
  <2>0. Shape /\ CopyBound(d)
    BY DEF ReadInv, CopiesBounded
  <2>1. /\ Count(delivered, d) \in Nat /\ Count(dropped, d) \in Nat
        /\ Count(out, d) \in Nat /\ Count(queue, d) \in Nat /\ Count(docs, d) \in Nat
        /\ Copies(d) \in Nat
    BY <2>0, CopiesType
  <2>2. Len(rewinds) \in Nat
    BY <2>0, LenProperties DEF Shape
  <2>3. Credit(d) = 1 + Len(rewinds) - Sent(d)
    <3>1. Count(delivered \o dropped, d) = Sent(d)
      BY <2>0, CountConcat DEF Shape, Sent
    <3>2. Credit(d) = 1 + Len(rewinds) - Count(delivered \o dropped, d)
      BY DEF Credit, Count, Places
    <3> QED
      BY <3>1, <3>2
  <2>4. Copies(d) <= Len(rewinds) + 1
    BY <2>0, <2>1, <2>2 DEF CopyBound, Reached
  <2> QED
    BY <2>1, <2>2, <2>3, <2>4 DEF Sent, Copies
<1> QED
  BY <1>1, ReadInvariant, CopiesInvariant, PTL

(* Only an answer adds to what clients have got.                           *)
LEMMA Sends ==
  ASSUME ReadInv, [Next]_vars, ~Open
  PROVE  \/ delivered' = delivered /\ dropped' = dropped
         \/ \E result \in Seq(Known) : Respond(result)
<1>0. Shape /\ QueueWaits /\ out \in Seq(Known)
  BY DEF ReadInv, Shape
<1>1. CASE BatchPopDoc
  <2>1. Head(queue) \in Known
    BY <1>0, <1>1, IoPops DEF BatchPopDoc
  <2>2. Append(out, Head(queue)) \in Seq(Known)
    BY <1>0, <2>1, AppendProperties
  <2>3. \/ delivered' = delivered /\ dropped' = dropped
        \/ Respond(Append(out, Head(queue)))
    BY <1>1 DEF BatchPopDoc, BatchReturn, sentVars
  <2> QED
    BY <2>2, <2>3
<1>2. CASE BatchRetry
  BY <1>0, <1>2 DEF BatchRetry, BatchReturn, sentVars
<1>3. CASE \/ ReaderStep \/ BatchPopBlock \/ BatchPopTimeout \/ BatchCaught \/ BatchWait
           \/ BatchUnlock \/ TermDrain \/ TermJoin \/ BatchRelock \/ Insert \/ Read
           \/ Rewind \/ Term \/ UNCHANGED vars
  BY <1>3 DEF ReaderStep, ReaderTest, QueryLock, PrepareCondition, PrepareOid, QueryCursor,
              QuerySave, QueryDone, QueryUnlock, ReaderBranch, ReaderMore, ReaderPush,
              BatchPopBlock, BatchPopTimeout, BatchCaught, BatchWait, BatchUnlock, TermDrain,
              TermJoin, BatchRelock, Insert, Read, Rewind, Term, vars, history, sentVars
<1> QED
  BY <1>1, <1>2, <1>3 DEF Next, BatchStep

(* An answer holds documents of the collection only.                       *)
LEMMA SentGrows ==
  ASSUME ReadInv, [Next]_vars, ~Open, NEW d
  PROVE  /\ Sent(d)' \in Nat /\ Sent(d) \in Nat /\ Sent(d) <= Sent(d)'
         /\ Sent(d)' # Sent(d) => d \in Known
<1>0. delivered \in Seq(Known) /\ dropped \in Seq(Known)
  BY DEF ReadInv, Shape
<1>1. Count(delivered, d) \in Nat /\ Count(dropped, d) \in Nat
  BY <1>0, CountType
<1>p. Sent(d)' = Count(delivered', d) + Count(dropped', d)
  BY DEF Sent, Count, Places
<1>2. CASE delivered' = delivered /\ dropped' = dropped
  BY <1>1, <1>2, <1>p DEF Sent
<1>3. CASE \E result \in Seq(Known) : Respond(result)
  <2>1. PICK result \in Seq(Known) : Respond(result)
    BY <1>3
  <2>2. Count(result, d) \in Nat /\ (Count(result, d) # 0 => d \in Known)
    <3>1. d \in ToSet(result) => d \in Known
      BY ElementOfSeq DEF ToSet
    <3> QED
      BY <3>1, CountType, CountMember
  <2>3. /\ Count(delivered \o result, d) = Count(delivered, d) + Count(result, d)
        /\ Count(dropped \o result, d) = Count(dropped, d) + Count(result, d)
    BY <1>0, CountConcat
  <2>4. CASE delivered' = delivered \o result /\ dropped' = dropped
    BY <1>1, <1>p, <2>2, <2>3, <2>4 DEF Sent
  <2>5. CASE dropped' = dropped \o result /\ delivered' = delivered
    BY <1>1, <1>p, <2>2, <2>3, <2>5 DEF Sent
  <2> QED
    BY <2>1, <2>4, <2>5 DEF Respond
<1> QED
  BY <1>2, <1>3, Sends

(* Every step of the broker is a step of Cursor.                           *)
LEMMA CursorStep ==
  ASSUME ReadInv, CreditLeft, CreditLeft', [Next]_vars
  PROVE  [CursorOf!Next]_(CursorOf!vars)
<1> DEFINE left_of(d) == IF opens = 0 THEN 0 ELSE Credit(d)
           credit == [d \in 1..NumDocs |-> left_of(d)]
<1>0. inserted \in Nat /\ inserted \in 0..NumDocs /\ NumDocs \in Nat /\ opens \in Nat
  BY ReadAssumption DEF ReadInv, Shape
<1>1. CASE Insert
  <2>1. inserted < NumDocs /\ inserted' = inserted + 1
    BY <1>1 DEF Insert
  <2>2. UNCHANGED <<opens, delivered, dropped, rewinds>>
    BY <1>1 DEF Insert, history, sentVars
  <2>3. credit' = credit
    BY <2>2 DEF Credit
  <2>4. /\ inserted + 1 \in (1..NumDocs) \ (1..inserted)
        /\ 1..inserted' = (1..inserted) \cup {inserted + 1}
    BY <1>0, <2>1
  <2> QED
    BY <2>3, <2>4 DEF CursorOf!Next, CursorOf!Insert
<1>2. CASE Open
  <2>1. opens' # 0 /\ inserted' = inserted
    BY <1>0, <1>2 DEF Open
  <2>2. delivered' = <<>> /\ dropped' = <<>> /\ rewinds' = <<>>
    BY <1>2 DEF Open
  <2>3. ASSUME NEW d \in 1..NumDocs PROVE left_of(d)' = 1
    <3>1. Sent(d)' = Count(delivered', d) + Count(dropped', d)
      BY DEF Sent, Count, Places
    <3>2. Sent(d)' = 0 /\ Len(rewinds') = 0
      BY <2>2, <3>1, CountEmpty, EmptySeq
    <3>3. Credit(d)' = 1 + Len(rewinds') - Sent(d)'
      BY DEF CreditLeft
    <3> QED
      BY <2>1, <3>2, <3>3
  <2>4. credit' = [d \in 1..NumDocs |-> 1]
    BY <2>3
  <2> QED
    BY <2>1, <2>4 DEF CursorOf!Next, CursorOf!Open
<1>3. CASE Rewind
  <2>1. /\ UNCHANGED <<inserted, opens, delivered, dropped>> /\ opens # 0
        /\ rewinds' = Append(rewinds, Len(delivered))
    BY <1>3 DEF Rewind, sentVars, ReadInv, IoPlace
  <2>2. Len(rewinds') = Len(rewinds) + 1
    <3>1. rewinds \in Seq(Nat) /\ Len(delivered) \in Nat
      BY LenProperties DEF ReadInv, Shape
    <3> QED
      BY <2>1, <3>1, AppendProperties
  <2>3. ASSUME NEW d \in 1..NumDocs PROVE left_of(d)' = credit[d] + 1
    <3>1. Sent(d)' = Sent(d)
      BY <2>1 DEF Sent, Count, Places
    <3>2. /\ Credit(d)' = 1 + Len(rewinds') - Sent(d)'
          /\ Credit(d) = 1 + Len(rewinds) - Sent(d)
          /\ Sent(d) \in Nat /\ Len(rewinds) \in Nat
      BY DEF CreditLeft
    <3>3. Credit(d)' = Credit(d) + 1
      BY <2>2, <3>1, <3>2
    <3> QED
      BY <2>1, <3>3
  <2>4. credit' = [d \in 1..NumDocs |-> credit[d] + 1]
    BY <2>3
  <2> QED
    BY <2>1, <2>4 DEF CursorOf!Next, CursorOf!Rewind
<1>4. CASE ~Insert /\ ~Open /\ ~Rewind
  <2>1. UNCHANGED <<inserted, opens, rewinds>>
    BY <1>4 DEF Next, ReaderStep, ReaderTest, QueryLock, PrepareCondition, PrepareOid,
         QueryCursor, QuerySave, QueryDone, QueryUnlock, ReaderBranch, ReaderMore, ReaderPush,
         BatchStep, BatchPopDoc, BatchPopBlock, BatchPopTimeout, BatchCaught, BatchWait,
         BatchUnlock, BatchRetry, TermDrain, TermJoin, BatchRelock, Read, Term, vars, history
  <2>2. ASSUME NEW d \in 1..NumDocs
        PROVE  /\ left_of(d)' \in Nat /\ left_of(d)' <= left_of(d)
               /\ left_of(d)' # left_of(d) => d \in 1..inserted
    <3>1. /\ Sent(d)' \in Nat /\ Sent(d) \in Nat /\ Sent(d) <= Sent(d)'
          /\ Sent(d)' # Sent(d) => d \in 1..inserted
      BY <1>4, SentGrows DEF Known
    <3>2. /\ Credit(d)' = 1 + Len(rewinds') - Sent(d)'
          /\ Credit(d) = 1 + Len(rewinds) - Sent(d)
          /\ Len(rewinds) \in Nat /\ Sent(d)' <= Len(rewinds') + 1
      BY DEF CreditLeft
    <3>3. /\ Credit(d)' \in Nat /\ Credit(d) \in Int /\ Credit(d)' <= Credit(d)
          /\ Credit(d)' # Credit(d) => d \in 1..inserted
      BY <2>1, <3>1, <3>2
    <3> QED
      BY <2>1, <3>3
  <2>3. /\ credit' \in [1..NumDocs -> Nat]
        /\ \A d \in 1..NumDocs : /\ credit'[d] <= credit[d]
                                 /\ credit'[d] # credit[d] => d \in 1..inserted
    BY <2>2
  <2> QED
    BY <2>1, <2>3 DEF CursorOf!Next, CursorOf!Take
<1> QED
  BY <1>1, <1>2, <1>3, <1>4

(* A READ answers with documents of the collection, each at most once and  *)
(* once more for every REWIND, for every m_skip, m_limit, queue size and   *)
(* number of retries.                                                      *)
THEOREM BrokerImplementsCursor == Spec => ImplementsCursor
<1>1. Init => CursorOf!Init
  <2> SUFFICES ASSUME Init PROVE CursorOf!Init
    OBVIOUS
  <2>1. inserted \in 0..NumDocs /\ opens = 0 /\ NumDocs \in Nat
    BY ReadAssumption DEF Init
  <2>2. 1..inserted \in SUBSET (1..NumDocs)
    BY <2>1
  <2> QED
    BY <2>1, <2>2 DEF CursorOf!Init
<1>2. ReadInv /\ CreditLeft /\ CreditLeft' /\ [Next]_vars => [CursorOf!Next]_(CursorOf!vars)
  BY CursorStep
<1> QED
  BY <1>1, <1>2, ReadInvariant, CreditInvariant, PTL DEF Spec, ImplementsCursor, CursorOf!Spec

=============================================================================
