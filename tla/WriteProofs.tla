----------------------------- MODULE WriteProofs ----------------------------
(***************************************************************************)
(* Theorems about the write side of a processor, for every queue size,     *)
(* every number and size of WRITEs and every number of openings.           *)
(***************************************************************************)
EXTENDS WriteBroker, SizedQueueProofs

----------------------------------------------------------------------------
(* The inductive invariant.                                                *)

(* The bound on documents, and the threads that use the queue.             *)
Threads ==
  /\ Len(offered) <= NumDocs
  /\ "writer" \in Thread /\ "io" \in Thread

(* Between two openings both threads are at rest, and what a thread has in *)
(* hand it has only in the state in which it holds it: a document popped   *)
(* until it is applied or ends the process, a vector until it is pushed.   *)
AtRest ==
  /\ ~connected => writer = "none" /\ io = "idle"
  /\ writer \notin {"apply", "crashed"} => current = <<>>
  /\ io # "write" => tmp = <<>>

WriteInv == WriteTypeOK /\ Threads /\ AtRest

Doc == 1..NumDocs

(* The documents of one WRITE, numbered from where the last one ended.     *)
LEMMA NewDocs ==
  ASSUME WriteInv, NEW n \in Nat, Len(offered) + n <= NumDocs
  PROVE  LET new == [i \in 1..n |-> Len(offered) + i]
         IN  new \in Seq(Doc) /\ Len(new) = n
<1> DEFINE new == [i \in 1..n |-> Len(offered) + i]
<1>1. Len(offered) \in Nat /\ NumDocs \in Nat
  BY WriteAssumption, LenProperties DEF WriteInv, WriteTypeOK
<1>2. \A i \in 1..n : Len(offered) + i \in Doc
  BY <1>1 DEF Doc
<1>3. new \in [1..n -> Doc]
  BY <1>2
<1>4. new \in Seq(Doc)
  BY <1>3, SeqDef
<1> QED
  BY <1>3, <1>4, LenProperties

(* What the two threads do to the queue.                                   *)
LEMMA WriterPops ==
  ASSUME WriteInv, PopEnter("writer") \/ PopResume("writer")
  PROVE  /\ queue' \in Seq(Doc) /\ Head(queue) \in Doc
         /\ \A h \in Seq(Doc) : (h \o <<Head(queue)>>) \o queue' = h \o queue
         /\ wait' \in [Thread -> WaitState]
<1>1. queue \in Seq(Doc) /\ wait \in [Thread -> WaitState] /\ "writer" \in Thread
  BY DEF WriteInv, WriteTypeOK, Threads, Doc
<1>2. TakeFront("writer")
  BY DEF PopEnter, PopResume
<1> QED
  BY <1>1, <1>2, TakeFrontProperties DEF WakesOnly

LEMMA IoPushes ==
  ASSUME WriteInv, PushEnter("io", tmp) \/ PushResume("io", tmp),
         tmp' = Kept(tmp, Moved(tmp))
  PROVE  /\ queue' \in Seq(Doc) /\ tmp' \in Seq(Doc)
         /\ \A h \in Seq(Doc) : OnTheWay(h, queue', tmp') = OnTheWay(h, queue, tmp)
         /\ wait' \in [Thread -> WaitState]
<1>1. /\ queue \in Seq(Doc) /\ tmp \in Seq(Doc)
      /\ wait \in [Thread -> WaitState] /\ "io" \in Thread
  BY DEF WriteInv, WriteTypeOK, Threads, Doc
<1> QED
  BY <1>1, PushProperties DEF WakesOnly

LEMMA TypeInit ==
  ASSUME Init PROVE WriteInv
<1>1. <<>> \in Seq(Doc) /\ Len(<<>>) = 0
  BY EmptySeq
<1>2. NumDocs \in Nat /\ MaxOpens \in Nat /\ "writer" \in Thread /\ "io" \in Thread
  BY WriteAssumption
<1>3. ulock = (writer \in {"pop", "apply", "caught", "crashed"})
  <2>1. (writer \in {"pop", "apply", "caught", "crashed"}) = FALSE
    BY DEF Init
  <2> QED
    BY <2>1 DEF Init
<1>4. WriteTypeOK
  <2>1. /\ queue = <<>> /\ wait \in [Thread -> WaitState]
        /\ current = <<>> /\ tmp = <<>> /\ offered = <<>> /\ applied = <<>>
        /\ writer = "none" /\ io = "idle" /\ opens \in 0..MaxOpens
    BY <1>2 DEF Init, QueueInit, WaitState
  <2>2. do_exit \in BOOLEAN /\ connected \in BOOLEAN
    BY DEF Init
  <2> QED
    BY <1>1, <1>3, <2>1, <2>2 DEF WriteTypeOK, Doc
<1> QED
  BY <1>1, <1>2, <1>4
     DEF Init, QueueInit, WriteInv, WriteTypeOK, Threads, AtRest, WaitState, Doc

LEMMA TypeInductive ==
  ASSUME WriteInv, [Next]_vars
  PROVE  WriteInv'
<1>0. /\ queue \in Seq(Doc) /\ wait \in [Thread -> WaitState]
      /\ do_exit \in BOOLEAN /\ connected \in BOOLEAN
      /\ current \in Seq(Doc) /\ tmp \in Seq(Doc)
      /\ offered \in Seq(Doc) /\ applied \in Seq(Doc)
      /\ opens \in 0..MaxOpens /\ MaxOpens \in Nat /\ NumDocs \in Nat
      /\ Len(offered) \in Nat /\ Len(offered) <= NumDocs
      /\ <<>> \in Seq(Doc) /\ Len(<<>>) = 0
      /\ "writer" \in Thread /\ "io" \in Thread
  BY WriteAssumption, LenProperties, EmptySeq DEF WriteInv, WriteTypeOK, Threads, Doc
<1>p. /\ queue' \in Seq(Doc) /\ wait' \in [Thread -> WaitState]
      /\ do_exit' \in BOOLEAN /\ connected' \in BOOLEAN
      /\ writer' \in {"none", "lock", "pop", "apply", "caught", "exited", "crashed"}
      /\ ulock' = (writer' \in {"pop", "apply", "caught", "crashed"})
      /\ current' \in Seq(Doc) /\ tmp' \in Seq(Doc)
      /\ io' \in {"idle", "write", "await", "join"}
      /\ offered' \in Seq(Doc) /\ applied' \in Seq(Doc)
      /\ opens' \in 0..MaxOpens
      /\ Len(offered') <= NumDocs /\ AtRest'
      => WriteInv'
  BY <1>0 DEF WriteInv, WriteTypeOK, Threads, Doc
<1> USE DEF AtRest, brokerVars
<1>h. WriteTypeOK /\ AtRest
  BY DEF WriteInv
<1>1. ASSUME UpdateLock PROVE WriteInv'
  BY <1>0, <1>h, <1>1, <1>p DEF UpdateLock, WriteTypeOK
<1>2. ASSUME UpdatePop PROVE WriteInv'
  <2>1. CASE PopBlock("writer") /\ UNCHANGED <<writer, current>>
    <3>1. queue' = queue /\ wait' \in [Thread -> WaitState]
      BY <1>0, <2>1, PopBlockProperties DEF WakesOnly
    <3> QED
      BY <1>0, <1>h, <1>2, <1>p, <2>1, <3>1 DEF UpdatePop, WriteTypeOK
  <2>2. CASE /\ PopEnter("writer") \/ PopResume("writer")
             /\ current' = <<Head(queue)>> /\ writer' = "apply"
    <3>1. queue' \in Seq(Doc) /\ Head(queue) \in Doc /\ wait' \in [Thread -> WaitState]
      BY <2>2, WriterPops
    <3>2. current' \in Seq(Doc)
      BY <2>2, <3>1
    <3> QED
      BY <1>0, <1>h, <1>2, <1>p, <2>2, <3>1, <3>2 DEF UpdatePop, WriteTypeOK
  <2> QED
    BY <1>2, <2>1, <2>2 DEF UpdatePop
<1>3. ASSUME UpdateApply PROVE WriteInv'
  <2>1. applied' \in Seq(Doc)
    BY <1>0, <1>3, ConcatProperties DEF UpdateApply
  <2> QED
    BY <1>0, <1>h, <1>3, <1>p, <2>1 DEF UpdateApply, WriteTypeOK
<1>3t. ASSUME UpdateThrows PROVE WriteInv'
  BY <1>0, <1>h, <1>3t, <1>p DEF UpdateThrows, WriteTypeOK
<1>4. ASSUME UpdateTimeout PROVE WriteInv'
  <2>1. wait' \in [Thread -> WaitState]
    BY <1>0, <1>4 DEF UpdateTimeout, PopTimeout, WaitState
  <2> QED
    BY <1>0, <1>h, <1>4, <1>p, <2>1 DEF UpdateTimeout, PopTimeout, WriteTypeOK
<1>5. ASSUME UpdateCaught PROVE WriteInv'
  BY <1>0, <1>h, <1>5, <1>p DEF UpdateCaught, WriteTypeOK
<1>6. ASSUME Open PROVE WriteInv'
  BY <1>0, <1>h, <1>6, <1>p DEF Open, Connect, Clear, WriteTypeOK
<1>7. ASSUME Write PROVE WriteInv'
  <2> DEFINE new(n) == [i \in 1..n |-> Len(offered) + i]
  <2>1. PICK n \in 0..MaxBatch : /\ Len(offered) + n <= NumDocs
                                 /\ tmp' = Reverse(new(n))
                                 /\ offered' = offered \o new(n)
    BY <1>7 DEF Write
  <2>n. n \in Nat
    BY WriteAssumption
  <2>2. new(n) \in Seq(Doc) /\ Len(new(n)) = n
    BY <2>n, <2>1, NewDocs
  <2> HIDE DEF new
  <2>3. offered' \in Seq(Doc) /\ Len(offered') <= NumDocs /\ tmp' \in Seq(Doc)
    BY <1>0, <2>1, <2>n, <2>2, ConcatProperties, ReverseProperties
  <2> QED
    BY <1>0, <1>h, <1>7, <1>p, <2>3 DEF Write, WriteTypeOK
<1>8. ASSUME WritePush PROVE WriteInv'
  <2>1. CASE PushBlock("io") /\ UNCHANGED tmp
    <3>1. queue' = queue /\ wait' \in [Thread -> WaitState]
      BY <1>0, <2>1, PushBlockProperties DEF WakesOnly
    <3> QED
      BY <1>0, <1>h, <1>8, <1>p, <2>1, <3>1 DEF WritePush, WriteTypeOK
  <2>2. CASE /\ PushEnter("io", tmp) \/ PushResume("io", tmp)
             /\ tmp' = Kept(tmp, Moved(tmp))
    <3>1. queue' \in Seq(Doc) /\ tmp' \in Seq(Doc) /\ wait' \in [Thread -> WaitState]
      BY <2>2, IoPushes
    <3> QED
      BY <1>0, <1>h, <1>8, <1>p, <3>1 DEF WritePush, WriteTypeOK
  <2> QED
    BY <1>8, <2>1, <2>2 DEF WritePush
<1>9. ASSUME WriteReply PROVE WriteInv'
  BY <1>0, <1>h, <1>9, <1>p DEF WriteReply, WriteTypeOK
<1>10. ASSUME Term PROVE WriteInv'
  BY <1>0, <1>h, <1>10, <1>p DEF Term, WriteTypeOK
<1>11. ASSUME WaitUpdateDone PROVE WriteInv'
  BY <1>0, <1>h, <1>11, <1>p DEF WaitUpdateDone, WriteTypeOK
<1>12. ASSUME TermJoin PROVE WriteInv'
  <2>1. ulock' = ulock /\ writer = "exited" /\ writer' = "none"
    BY <1>12 DEF TermJoin
  <2>2. ulock' = (writer' \in {"pop", "apply", "caught", "crashed"})
    <3>1. (writer \in {"pop", "apply", "caught", "crashed"}) = (writer' \in {"pop", "apply", "caught", "crashed"})
      BY <2>1
    <3> QED
      BY <1>h, <2>1, <3>1 DEF WriteTypeOK
  <2> QED
    BY <1>0, <1>h, <1>12, <1>p, <2>2 DEF TermJoin, WriteTypeOK
<1>13. ASSUME UNCHANGED vars PROVE WriteInv'
  BY <1>0, <1>h, <1>13, <1>p DEF vars, WriteTypeOK
<1> QED
  BY <1>1, <1>2, <1>3, <1>3t, <1>4, <1>5, <1>6, <1>7, <1>8, <1>9, <1>10, <1>11, <1>12,
     <1>13
     DEF Next, WriterStep, IoStep

LEMMA WriteInvariant == Spec => []WriteInv
<1>1. Init => WriteInv
  BY TypeInit
<1>2. WriteInv /\ [Next]_vars => WriteInv'
  BY TypeInductive
<1> QED
  BY <1>1, <1>2, PTL DEF Spec

(* m_update_done_mutex is locked exactly while broker::update runs, and    *)
(* the state has its shape, across any number of openings and terms.       *)
THEOREM WriteTypeCorrect == Spec => []WriteTypeOK
<1>1. WriteInv => WriteTypeOK
  BY DEF WriteInv
<1> QED
  BY <1>1, WriteInvariant, PTL

----------------------------------------------------------------------------
(* Order.                                                                  *)

LEMMA OrderInductive ==
  ASSUME WriteInv, AppliedInOrder, [Next]_vars
  PROVE  AppliedInOrder'
<1>0. /\ queue \in Seq(Doc) /\ current \in Seq(Doc) /\ tmp \in Seq(Doc)
      /\ offered \in Seq(Doc) /\ applied \in Seq(Doc)
      /\ wait \in [Thread -> WaitState] /\ "writer" \in Thread /\ "io" \in Thread
      /\ <<>> \in Seq(Doc) /\ AtRest
  BY EmptySeq DEF WriteInv, WriteTypeOK, Threads, Doc
<1>a. applied \o current \in Seq(Doc)
  BY <1>0, ConcatProperties
<1>1. ASSUME UpdatePop PROVE AppliedInOrder'
  <2>1. CASE PopBlock("writer") /\ UNCHANGED <<writer, current>>
    BY <1>1, <2>1 DEF UpdatePop, PopBlock, AppliedInOrder
  <2>2. CASE /\ PopEnter("writer") \/ PopResume("writer")
             /\ current' = <<Head(queue)>> /\ writer' = "apply"
    <3>1. current = <<>> /\ UNCHANGED <<applied, tmp, opens, offered>>
      BY <1>0, <1>1 DEF UpdatePop, AtRest
    <3>2. applied \o <<>> = applied
      BY <1>0, ConcatEmptySeq
    <3>3. (applied \o <<Head(queue)>>) \o queue' = applied \o queue
      BY <1>0, <2>2, WriterPops
    <3>4. (applied' \o current') \o queue' = (applied \o current) \o queue
      BY <2>2, <3>1, <3>2, <3>3
    <3> QED
      BY <3>1, <3>4 DEF AppliedInOrder
  <2> QED
    BY <1>1, <2>1, <2>2 DEF UpdatePop
<1>2. ASSUME UpdateApply PROVE AppliedInOrder'
  <2>1. applied' = applied \o current /\ current' = <<>>
        /\ UNCHANGED <<queue, tmp, opens, offered>>
    BY <1>2 DEF UpdateApply
  <2>2. applied' \o current' = applied \o current
    BY <1>a, <2>1, ConcatEmptySeq
  <2> QED
    BY <2>1, <2>2 DEF AppliedInOrder
<1>3. ASSUME Open PROVE AppliedInOrder'
  <2>1. /\ applied' = <<>> /\ current' = <<>> /\ queue' = <<>> /\ tmp' = <<>>
        /\ offered' = <<>>
    BY <1>0, <1>3 DEF Open, Connect, Clear, AtRest
  <2>2. <<>> \o <<>> = <<>>
    BY <1>0, ConcatEmptySeq
  <2> QED
    BY <2>1, <2>2, ReverseEmpty DEF AppliedInOrder
<1>4. ASSUME Write PROVE AppliedInOrder'
  <2> DEFINE new(n) == [i \in 1..n |-> Len(offered) + i]
  <2>1. PICK n \in 0..MaxBatch : /\ Len(offered) + n <= NumDocs
                                 /\ tmp' = Reverse(new(n))
                                 /\ offered' = offered \o new(n)
    BY <1>4 DEF Write
  <2>n. n \in Nat
    BY WriteAssumption
  <2>2. new(n) \in Seq(Doc)
    BY <2>n, <2>1, NewDocs
  <2> HIDE DEF new
  <2>3. tmp = <<>> /\ UNCHANGED <<queue, current, opens, applied>>
    BY <1>0, <1>4 DEF Write, AtRest
  <2>4. Reverse(tmp') = new(n)
    BY <2>1, <2>2, ReverseTwice
  <2> DEFINE all == (applied \o current) \o queue
  <2>5. all \in Seq(Doc) /\ all' = all
    BY <1>0, <1>a, <2>3, ConcatProperties
  <2>6. opens > 0 => all = offered
    <3>1. opens > 0 => all \o Reverse(tmp) = offered
      BY DEF AppliedInOrder
    <3>2. all \o Reverse(tmp) = all
      <4> HIDE DEF all
      <4> QED
        BY <2>3, <2>5, ReverseEmpty, ConcatEmptySeq
    <3> QED
      BY <3>1, <3>2
  <2>7. opens' > 0 => all' \o Reverse(tmp') = offered'
    <3> HIDE DEF all
    <3> QED
      BY <2>1, <2>3, <2>4, <2>5, <2>6
  <2> QED
    BY <2>7 DEF AppliedInOrder
<1>5. ASSUME WritePush PROVE AppliedInOrder'
  <2>1. CASE PushBlock("io") /\ UNCHANGED tmp
    BY <1>5, <2>1 DEF WritePush, PushBlock, AppliedInOrder
  <2>2. CASE /\ PushEnter("io", tmp) \/ PushResume("io", tmp)
             /\ tmp' = Kept(tmp, Moved(tmp))
    <3>1. OnTheWay(applied \o current, queue', tmp') = OnTheWay(applied \o current, queue, tmp)
      BY <1>a, <2>2, IoPushes
    <3>2. UNCHANGED <<applied, current, opens, offered>>
      BY <1>5 DEF WritePush
    <3> QED
      BY <3>1, <3>2 DEF AppliedInOrder, OnTheWay
  <2> QED
    BY <1>5, <2>1, <2>2 DEF WritePush
<1>6. ASSUME UNCHANGED <<queue, current, tmp, opens, offered, applied>>
      PROVE  AppliedInOrder'
  BY <1>6 DEF AppliedInOrder
<1>7. UpdateLock \/ UpdateThrows \/ UpdateTimeout \/ UpdateCaught \/ WriteReply \/ Term
        \/ WaitUpdateDone \/ TermJoin \/ UNCHANGED vars
      => UNCHANGED <<queue, current, tmp, opens, offered, applied>>
  BY DEF UpdateLock, UpdateThrows, UpdateTimeout, PopTimeout, UpdateCaught, WriteReply, Term,
         WaitUpdateDone, TermJoin, vars
<1> QED
  BY <1>1, <1>2, <1>3, <1>4, <1>5, <1>6, <1>7 DEF Next, WriterStep, IoStep

(* The documents of one opening are applied once each, in the order in     *)
(* which do_write pushed them, and mixed with none of an earlier opening:  *)
(* the queue cuts requests up as it likes, and init's clear() meets        *)
(* neither a half-pushed request nor a document still to be applied.       *)
THEOREM AppliedInOrderAlways == Spec => []AppliedInOrder
<1>1. Init => AppliedInOrder
  BY DEF Init, AppliedInOrder
<1>2. WriteInv /\ AppliedInOrder /\ [Next]_vars => AppliedInOrder'
  BY OrderInductive
<1> QED
  BY <1>1, <1>2, WriteInvariant, PTL DEF Spec

----------------------------------------------------------------------------
(* Waiting.                                                                *)

(* Who waits in the queue, and next to what; set_exit comes after the last *)
(* document of a WRITE is in the queue.                                    *)
Waits ==
  /\ wait["io"] # "can_pop" /\ wait["writer"] # "can_push"
  /\ writer # "pop" => wait["writer"] = "out"
  /\ tmp = <<>> => wait["io"] = "out"
  /\ wait["writer"] = "can_pop" => queue = <<>>
  /\ LimitSize # 0 /\ wait["writer"] = "woken" => queue # <<>>
  /\ do_exit => io \in {"await", "join"}
  /\ connected => opens > 0

LEMMA WaitsInit ==
  ASSUME Init PROVE Waits
BY WriteAssumption DEF Init, QueueInit, Waits

LEMMA WaitsInductive ==
  ASSUME WriteInv, Waits, [Next]_vars
  PROVE  Waits'
<1>0. /\ queue \in Seq(Doc) /\ tmp \in Seq(Doc) /\ wait \in [Thread -> WaitState]
      /\ Thread = {"writer", "io"} /\ opens \in Nat /\ MaxOpens \in Nat /\ AtRest
      /\ do_exit \in BOOLEAN /\ connected \in BOOLEAN
  BY WriteAssumption DEF WriteInv, WriteTypeOK, Doc
<1>t. "io" \in Thread \ {"writer"} /\ "writer" \in Thread \ {"io"}
      /\ "io" \in Thread /\ "writer" \in Thread
  BY <1>0
<1> USE DEF Waits, brokerVars
<1>1. ASSUME UpdatePop PROVE Waits'
  <2>0. UNCHANGED <<brokerVars, io, tmp, opens>> /\ writer = "pop"
    BY <1>1 DEF UpdatePop
  <2>1. CASE PopBlock("writer") /\ UNCHANGED <<writer, current>>
    <3>1. queue' = queue /\ queue = <<>> /\ WakesOnly("writer", "can_pop", "can_push")
      BY <1>0, <1>t, <2>1, PopBlockProperties
    <3> QED
      BY <1>t, <2>0, <2>1, <3>1 DEF WakesOnly
  <2>2. CASE /\ PopEnter("writer") \/ PopResume("writer")
             /\ current' = <<Head(queue)>> /\ writer' = "apply"
    <3>1. TakeFront("writer")
      BY <2>2 DEF PopEnter, PopResume
    <3>2. WakesOnly("writer", "out", "can_push")
      BY <1>0, <1>t, <3>1, TakeFrontProperties
    <3> QED
      BY <1>t, <2>0, <2>2, <3>2 DEF WakesOnly
  <2> QED
    BY <1>1, <2>1, <2>2 DEF UpdatePop
<1>2. ASSUME UpdateTimeout PROVE Waits'
  <2>1. wait'["writer"] = "out" /\ wait'["io"] = wait["io"]
    BY <1>0, <1>2 DEF UpdateTimeout, PopTimeout
  <2> QED
    BY <1>2, <2>1 DEF UpdateTimeout, PopTimeout
<1>3. ASSUME WritePush PROVE Waits'
  <2>0. /\ UNCHANGED <<brokerVars, writer, io, opens>> /\ io = "write" /\ tmp # <<>>
        /\ ~do_exit
    BY <1>3 DEF WritePush
  <2>w. wait["writer"] = "can_pop" => Waiting("can_pop") = {"writer"}
    BY <1>0 DEF Waiting
  <2>1. CASE PushBlock("io") /\ UNCHANGED tmp
    <3>1. queue' = queue /\ Full /\ WakesOnly("io", "can_push", "can_pop")
      BY <1>0, <1>t, <2>1, PushBlockProperties
    <3>2. LimitSize # 0 => queue # <<>>
      BY <1>0, <3>1, LimitSizeIsNat, LenProperties, EmptySeq DEF Full
    <3> QED
      BY <1>t, <2>0, <2>1, <2>w, <3>1, <3>2 DEF WakesOnly
  <2>2. CASE /\ PushEnter("io", tmp) \/ PushResume("io", tmp)
             /\ tmp' = Kept(tmp, Moved(tmp))
    <3>1. (LimitSize # 0 => queue' # <<>>) /\ WakesOnly("io", "out", "can_pop")
      BY <1>0, <1>t, <2>0, <2>2, PushProperties
    <3> QED
      BY <1>t, <2>0, <2>w, <3>1 DEF WakesOnly
  <2> QED
    BY <1>3, <2>1, <2>2 DEF WritePush
<1>4. ASSUME Open PROVE Waits'
  BY <1>0, <1>4 DEF Open, Connect, Clear, AtRest
<1>5. ASSUME Write PROVE Waits'
  <2>1. UNCHANGED <<queue, wait, do_exit, connected, writer, opens>> /\ tmp = <<>> /\ ~do_exit
    BY <1>0, <1>5 DEF Write, AtRest
  <2> QED
    BY <2>1
<1>6. ASSUME UpdateLock \/ UpdateApply \/ UpdateThrows \/ UpdateCaught \/ WriteReply \/ Term
               \/ WaitUpdateDone \/ TermJoin \/ UNCHANGED vars
      PROVE  Waits'
  BY <1>6 DEF UpdateLock, UpdateApply, UpdateThrows, UpdateCaught, WriteReply, Term,
              WaitUpdateDone, TermJoin, vars
<1> QED
  BY <1>1, <1>2, <1>3, <1>4, <1>5, <1>6 DEF Next, WriterStep, IoStep

LEMMA WaitsInvariant == Spec => []Waits
<1>1. Init => Waits
  BY WaitsInit
<1>2. WriteInv /\ Waits /\ [Next]_vars => Waits'
  BY WaitsInductive
<1> QED
  BY <1>1, <1>2, WriteInvariant, PTL DEF Spec

(* pop in broker::update never reads the front of an empty deque, unless   *)
(* the queue's size is 0, however do_write's pushes are cut.               *)
THEOREM WritePopAlwaysFindsItem == LimitSize # 0 => (Spec => []WritePopFindsItem)
<1> SUFFICES ASSUME LimitSize # 0 PROVE Spec => []WritePopFindsItem
  OBVIOUS
<1>1. Waits => WritePopFindsItem
  BY DEF Waits, WritePopFindsItem, PopUndefined
<1> QED
  BY <1>1, WaitsInvariant, PTL

(* Only a timeout before set_exit makes term lose documents: one that      *)
(* comes later finds everything that was written applied, for every size   *)
(* of queue and requests.                                                  *)
THEOREM LateTimeoutNeverLoses == Spec => LateTimeoutLosesNothing
<1>1. WriteInv /\ Waits /\ AppliedInOrder /\ [Next]_vars =>
        [do_exit /\ writer = "pop" /\ writer' = "caught" => applied' = offered']_vars
  <2> SUFFICES ASSUME WriteInv, Waits, AppliedInOrder, [Next]_vars,
                      do_exit, writer = "pop", writer' = "caught"
               PROVE  applied' = offered'
    OBVIOUS
  <2>1. UpdateTimeout
    BY DEF Next, WriterStep, IoStep, UpdateLock, UpdatePop, UpdateApply, UpdateThrows,
           UpdateCaught, Open, Write, Term, WritePush, WriteReply, WaitUpdateDone, TermJoin, vars
  <2>2. /\ wait["writer"] = "can_pop" /\ applied' = applied /\ offered' = offered
    BY <2>1 DEF UpdateTimeout, PopTimeout
  <2>3. queue = <<>> /\ current = <<>> /\ tmp = <<>> /\ opens > 0
    BY <2>2 DEF Waits, WriteInv, AtRest
  <2>4. applied \in Seq(Doc) /\ <<>> \in Seq(Doc)
    BY EmptySeq DEF WriteInv, WriteTypeOK, Doc
  <2>5. applied \o <<>> = applied
    BY <2>4, ConcatEmptySeq
  <2>6. applied = offered
    BY <2>3, <2>5, ReverseEmpty DEF AppliedInOrder
  <2> QED
    BY <2>2, <2>6
<1> QED
  BY <1>1, WriteInvariant, WaitsInvariant, AppliedInOrderAlways, PTL
     DEF Spec, LateTimeoutLosesNothing
=============================================================================
