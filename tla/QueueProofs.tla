---------------------------- MODULE QueueProofs -----------------------------
(***************************************************************************)
(* Theorems about sized_queue under the clients of QueueClients, for every *)
(* queue size, every number of items and, where the statement does not say *)
(* otherwise, every number of threads.                                     *)
(***************************************************************************)
EXTENDS QueueClients, CountProofs

(* The two brokers: one thread pushes, one thread pops.                    *)
OnePusher == \E p : Pushers = {p}
OnePopper == \E c : Poppers = {c}

----------------------------------------------------------------------------
(* Type correctness.                                                       *)

(* The numbers handed to a pusher form a sequence.                         *)
LEMMA FreshType ==
  ASSUME offered \in Seq(Nat), NEW n \in Nat
  PROVE  Fresh(n) \in Seq(Nat)
<1>1. Len(offered) \in Nat
  BY LenProperties
<1>2. Fresh(n) \in [1..n -> Nat]
  BY <1>1 DEF Fresh
<1> QED
  BY <1>2, SeqDef

(* What a transfer does to the queue: it appends a sequence of numbers.    *)
LEMMA TransferType ==
  ASSUME queue \in Seq(Nat), NEW t \in Thread, NEW items \in Seq(Nat),
         NEW n \in 0..Len(items), Transfer(t, items, n)
  PROVE  queue' \in Seq(Nat) /\ Len(queue') = Len(queue) + n
<1>1. Appended(items, n) \in Seq(Nat) /\ Len(Appended(items, n)) = n
  BY CutProperties
<1>2. queue' = queue \o Appended(items, n)
  BY DEF Transfer
<1> QED
  BY <1>1, <1>2, ConcatProperties

(* What push(T) and push(vector) do to the queue and the caller's vector.  *)
LEMMA PushType ==
  ASSUME QueueTypeOK, NEW p \in Pushers, PushVector(p) \/ PushSingle(p)
  PROVE  /\ queue' \in Seq(Nat)
         /\ vec' \in [Pushers -> Seq(Nat)]
<1>0. queue \in Seq(Nat) /\ vec \in [Pushers -> Seq(Nat)] /\ vec[p] \in Seq(Nat)
      /\ p \in Thread
  BY ClientsAssumption DEF QueueTypeOK
<1>1. CASE PushVector(p)
  <2>1. Moved(vec[p]) \in 0..Len(vec[p])
    BY <1>0, MovedProperties
  <2>2. Transfer(p, vec[p], Moved(vec[p]))
    BY <1>1 DEF PushVector, PushEnter, PushResume
  <2>3. Kept(vec[p], Moved(vec[p])) \in Seq(Nat)
    BY <1>0, <2>1, CutProperties
  <2>4. vec' = [vec EXCEPT ![p] = Kept(vec[p], Moved(vec[p]))]
    BY <1>1 DEF PushVector
  <2> QED
    BY <1>0, <2>1, <2>2, <2>3, <2>4, TransferType
<1>2. CASE PushSingle(p)
  <2>1. Len(vec[p]) = 1
    BY <1>2 DEF PushSingle, OneItem
  <2>2. vec[p][1] \in Nat
    <3>1. 1 \in 1..Len(vec[p])
      BY <2>1
    <3> QED
      BY <1>0, <3>1, ElementOfSeq
  <2>3. <<vec[p][1]>> \in Seq(Nat) /\ 1 \in 0..Len(<<vec[p][1]>>)
    BY <2>2
  <2>4. Transfer(p, <<vec[p][1]>>, 1)
    BY <1>2 DEF PushSingle, PushOneEnter, PushOneResume
  <2>5. queue' \in Seq(Nat)
    BY <1>0, <2>3, <2>4, TransferType
  <2> QED
    BY <1>0, <1>2, <2>5, EmptySeq DEF PushSingle
<1> QED
  BY <1>1, <1>2

(* What any transfer does to the waiting threads: the caller leaves the    *)
(* queue, and at most one popper is woken.                                 *)
LEMMA PushWakes ==
  ASSUME QueueTypeOK, NEW p \in Pushers, PushVector(p) \/ PushSingle(p)
  PROVE  /\ wait' \in [Thread -> WaitState]
         /\ wait'[p] = "out"
         /\ \A t \in Thread \ {p} :
              wait'[t] = wait[t] \/ (wait[t] = "can_pop" /\ wait'[t] = "woken")
         /\ \A c \in Thread \ {p} : Waiting("can_pop") = {c} => wait'[c] = "woken"
<1>0. wait \in [Thread -> WaitState] /\ p \in Thread
  BY ClientsAssumption DEF QueueTypeOK
<1>1. PICK w \in notify_one("can_pop") : wait' = [w EXCEPT ![p] = "out"]
  BY DEF PushVector, PushSingle, PushEnter, PushResume, PushOneEnter, PushOneResume,
         Transfer
<1>2. "can_pop" \in WaitState /\ "out" \in WaitState
  BY DEF WaitState
<1>3. /\ w \in [Thread -> WaitState]
      /\ \A t \in Thread : w[t] = wait[t] \/ (wait[t] = "can_pop" /\ w[t] = "woken")
      /\ \A t \in Thread : Waiting("can_pop") = {t} => w[t] = "woken"
  BY <1>0, <1>2, NotifyProperties
<1> QED
  BY <1>0, <1>1, <1>2, <1>3

(* The same for a pusher that goes to sleep.                               *)
LEMMA PushWaitWakes ==
  ASSUME QueueTypeOK, NEW p \in Pushers, PushWait(p)
  PROVE  /\ wait' \in [Thread -> WaitState]
         /\ wait'[p] = "can_push"
         /\ \A t \in Thread \ {p} :
              wait'[t] = wait[t] \/ (wait[t] = "can_pop" /\ wait'[t] = "woken")
         /\ \A c \in Thread \ {p} : Waiting("can_pop") = {c} => wait'[c] = "woken"
<1>0. wait \in [Thread -> WaitState] /\ p \in Thread
  BY ClientsAssumption DEF QueueTypeOK
<1>1. PICK w \in notify_one("can_pop") : wait' = [w EXCEPT ![p] = "can_push"]
  BY DEF PushWait, PushBlock
<1>2. "can_pop" \in WaitState /\ "can_push" \in WaitState
  BY DEF WaitState
<1>3. /\ w \in [Thread -> WaitState]
      /\ \A t \in Thread : w[t] = wait[t] \/ (wait[t] = "can_pop" /\ w[t] = "woken")
      /\ \A t \in Thread : Waiting("can_pop") = {t} => w[t] = "woken"
  BY <1>0, <1>2, NotifyProperties
<1> QED
  BY <1>0, <1>1, <1>2, <1>3

(* And for a popper: it leaves the queue or goes to sleep, and at most one *)
(* pusher is woken.                                                        *)
LEMMA PopWakes ==
  ASSUME QueueTypeOK, NEW c \in Poppers, Pop(c) \/ PopWait(c)
  PROVE  /\ wait' \in [Thread -> WaitState]
         /\ Pop(c) => wait'[c] = "out"
         /\ PopWait(c) => wait'[c] = "can_pop"
         /\ \A t \in Thread \ {c} :
              wait'[t] = wait[t] \/ (wait[t] = "can_push" /\ wait'[t] = "woken")
         /\ \A p \in Thread \ {c} : Waiting("can_push") = {p} => wait'[p] = "woken"
<1>0. wait \in [Thread -> WaitState] /\ c \in Thread
  BY ClientsAssumption DEF QueueTypeOK
<1>1. \E w \in notify_one("can_push") :
        \/ Pop(c) /\ wait' = [w EXCEPT ![c] = "out"]
        \/ PopWait(c) /\ wait' = [w EXCEPT ![c] = "can_pop"]
  BY DEF Pop, PopEnter, PopResume, TakeFront, PopWait, PopBlock
<1>2. PICK w \in notify_one("can_push") :
        \/ Pop(c) /\ wait' = [w EXCEPT ![c] = "out"]
        \/ PopWait(c) /\ wait' = [w EXCEPT ![c] = "can_pop"]
  BY <1>1
<1>3. {"can_pop", "can_push", "out"} \subseteq WaitState
  BY DEF WaitState
<1>4. /\ w \in [Thread -> WaitState]
      /\ \A t \in Thread : w[t] = wait[t] \/ (wait[t] = "can_push" /\ w[t] = "woken")
      /\ \A t \in Thread : Waiting("can_push") = {t} => w[t] = "woken"
  BY <1>0, <1>3, NotifyProperties
<1>5. ~(Pop(c) /\ PopWait(c))
  BY DEF Pop, PopEnter, PopResume, TakeFront, PopWait, PopBlock
<1> QED
  BY <1>0, <1>2, <1>3, <1>4, <1>5

LEMMA TypeInductive ==
  ASSUME QueueTypeOK, [Next]_vars
  PROVE  QueueTypeOK'
<1>0. /\ queue \in Seq(Nat)
      /\ wait \in [Thread -> WaitState]
      /\ \A p \in Pushers : wait[p] # "can_pop"
      /\ \A c \in Poppers : wait[c] # "can_push"
      /\ vec \in [Pushers -> Seq(Nat)]
      /\ offered \in Seq(Nat)
      /\ gone \in Seq(Nat)
      /\ undefined \in BOOLEAN
  BY DEF QueueTypeOK
<1>1. ASSUME NEW p \in Pushers, Offer(p) PROVE QueueTypeOK'
  <2>1. PICK n \in 1..MaxBatch : /\ vec' = [vec EXCEPT ![p] = Fresh(n)]
                                 /\ offered' = offered \o Reverse(Fresh(n))
    BY <1>1 DEF Offer
  <2>2. Fresh(n) \in Seq(Nat)
    BY <1>0, FreshType
  <2>3. vec' \in [Pushers -> Seq(Nat)]
    BY <1>0, <2>1, <2>2
  <2>4. offered' \in Seq(Nat)
    BY <1>0, <2>1, <2>2, ReverseProperties, ConcatProperties
  <2> QED
    BY <1>0, <1>1, <2>3, <2>4 DEF Offer, QueueTypeOK
<1>2. ASSUME NEW p \in Pushers, PushVector(p) \/ PushSingle(p) PROVE QueueTypeOK'
  <2>1. queue' \in Seq(Nat) /\ vec' \in [Pushers -> Seq(Nat)]
    BY <1>2, PushType
  <2>2. /\ wait' \in [Thread -> WaitState]
        /\ wait'[p] = "out"
        /\ \A t \in Thread \ {p} :
             wait'[t] = wait[t] \/ (wait[t] = "can_pop" /\ wait'[t] = "woken")
    BY <1>2, PushWakes
  <2>4. /\ \A q \in Pushers : wait'[q] # "can_pop"
        /\ \A c \in Poppers : wait'[c] # "can_push"
    BY <1>0, <2>2, ClientsAssumption
  <2>3. UNCHANGED <<offered, gone, undefined>>
    BY <1>2 DEF PushVector, PushSingle
  <2> QED
    BY <1>0, <2>1, <2>2, <2>3, <2>4 DEF QueueTypeOK
<1>3. ASSUME NEW p \in Pushers, PushWait(p) PROVE QueueTypeOK'
  <2>1. /\ wait' \in [Thread -> WaitState]
        /\ wait'[p] = "can_push"
        /\ \A t \in Thread \ {p} :
             wait'[t] = wait[t] \/ (wait[t] = "can_pop" /\ wait'[t] = "woken")
    BY <1>3, PushWaitWakes
  <2>2. /\ \A q \in Pushers : wait'[q] # "can_pop"
        /\ \A c \in Poppers : wait'[c] # "can_push"
    BY <1>0, <2>1, ClientsAssumption
  <2> QED
    BY <1>0, <1>3, <2>1, <2>2 DEF PushWait, PushBlock, QueueTypeOK
<1>4. ASSUME NEW p \in Pushers, PushGiveUp(p) PROVE QueueTypeOK'
  BY <1>0, <1>4, ClientsAssumption DEF PushGiveUp, PushTimeout, QueueTypeOK, WaitState
<1>5. ASSUME NEW c \in Poppers, Pop(c) PROVE QueueTypeOK'
  <2>1. /\ wait' \in [Thread -> WaitState]
        /\ wait'[c] = "out"
        /\ \A t \in Thread \ {c} :
             wait'[t] = wait[t] \/ (wait[t] = "can_push" /\ wait'[t] = "woken")
    BY <1>5, PopWakes
  <2>0. /\ \A p \in Pushers : wait'[p] # "can_pop"
        /\ \A d \in Poppers : wait'[d] # "can_push"
    BY <1>0, <2>1, ClientsAssumption
  <2>2. queue # <<>> /\ queue' = Tail(queue) /\ gone' = Append(gone, queue[1])
    BY <1>5 DEF Pop, PopEnter, PopResume, TakeFront
  <2>3. queue' \in Seq(Nat) /\ queue[1] \in Nat
    BY <1>0, <2>2, HeadTailProperties, EmptySeq, LenProperties
  <2>4. gone' \in Seq(Nat)
    BY <1>0, <2>2, <2>3, AppendProperties
  <2> QED
    BY <1>0, <1>5, <2>0, <2>1, <2>3, <2>4 DEF Pop, QueueTypeOK
<1>6. ASSUME NEW c \in Poppers, PopWait(c) PROVE QueueTypeOK'
  <2>1. /\ wait' \in [Thread -> WaitState]
        /\ wait'[c] = "can_pop"
        /\ \A t \in Thread \ {c} :
             wait'[t] = wait[t] \/ (wait[t] = "can_push" /\ wait'[t] = "woken")
    BY <1>6, PopWakes
  <2>0. /\ \A p \in Pushers : wait'[p] # "can_pop"
        /\ \A d \in Poppers : wait'[d] # "can_push"
    BY <1>0, <2>1, ClientsAssumption
  <2> QED
    BY <1>0, <1>6, <2>0, <2>1 DEF PopWait, PopBlock, QueueTypeOK
<1>7. ASSUME NEW c \in Poppers, PopGiveUp(c) PROVE QueueTypeOK'
  BY <1>0, <1>7, ClientsAssumption DEF PopGiveUp, PopTimeout, QueueTypeOK, WaitState
<1>8. ASSUME NEW c \in Poppers, PopBreaks(c) PROVE QueueTypeOK'
  BY <1>0, <1>8 DEF PopBreaks, QueueTypeOK
<1>9. ASSUME NEW t \in Thread, SpuriousWake(t) PROVE QueueTypeOK'
  BY <1>0, <1>9, ClientsAssumption DEF SpuriousWake, QueueTypeOK, WaitState
<1>10. ASSUME ClearIdle PROVE QueueTypeOK'
  BY <1>0, <1>10, ConcatProperties, EmptySeq DEF ClearIdle, Clear, QueueTypeOK
<1>11. ASSUME UNCHANGED vars PROVE QueueTypeOK'
  BY <1>0, <1>11 DEF vars, QueueTypeOK
<1> QED
  BY <1>1, <1>2, <1>3, <1>4, <1>5, <1>6, <1>7, <1>8, <1>9, <1>10, <1>11
     DEF Next, Pusher, Popper

LEMMA TypeInit ==
  ASSUME Init PROVE QueueTypeOK
BY ClientsAssumption, EmptySeq DEF Init, QueueInit, QueueTypeOK, WaitState

(* The type invariant of the queue: a popper only ever waits for items and *)
(* a pusher only for room, whatever the threads and the queue's size.      *)
THEOREM QueueTypeCorrect == Spec => []QueueTypeOK
<1>1. Init => QueueTypeOK
  BY TypeInit
<1>2. QueueTypeOK /\ [Next]_vars => QueueTypeOK'
  BY TypeInductive
<1> QED
  BY <1>1, <1>2, PTL DEF Spec

----------------------------------------------------------------------------
(* The size limit.                                                         *)

(* What a push leaves in the queue.  push(vector) keeps to the limit; and  *)
(* any push with something to push leaves the queue non-empty.             *)
LEMMA PushLength ==
  ASSUME QueueTypeOK, NEW p \in Pushers, PushVector(p) \/ PushSingle(p)
  PROVE  /\ PushVector(p) /\ WithinLimit => WithinLimit'
         /\ PushSingle(p) => Len(queue') = Len(queue) + 1
         /\ LimitSize # 0 => queue' # <<>>
<1>0. /\ queue \in Seq(Nat) /\ vec[p] \in Seq(Nat) /\ p \in Thread
      /\ Len(queue) \in Nat /\ LimitSize \in Nat
  BY ClientsAssumption, LimitSizeIsNat, LenProperties DEF QueueTypeOK
<1>1. CASE PushVector(p)
  <2>1. /\ Moved(vec[p]) \in 0..Len(vec[p])
        /\ Len(queue) <= LimitSize => Len(queue) + Moved(vec[p]) <= LimitSize
        /\ ~Full => Moved(vec[p]) # 0
    BY <1>0, <1>1, MovedProperties DEF PushVector
  <2>2. Transfer(p, vec[p], Moved(vec[p]))
    BY <1>1 DEF PushVector, PushEnter, PushResume
  <2>3. queue' \in Seq(Nat) /\ Len(queue') = Len(queue) + Moved(vec[p])
    BY <1>0, <2>1, <2>2, TransferType
  <2>4. LimitSize # 0 => Len(queue') # 0
    BY <1>0, <2>1, <2>3 DEF Full
  <2>5. LimitSize # 0 => queue' # <<>>
    BY <2>3, <2>4, EmptySeq
  <2>6. ~PushSingle(p)
    BY <1>1 DEF PushVector, PushSingle
  <2> QED
    BY <2>1, <2>3, <2>5, <2>6 DEF WithinLimit
<1>2. CASE PushSingle(p)
  <2>1. 1 \in 1..Len(vec[p])
    BY <1>2 DEF PushSingle, OneItem
  <2>2. vec[p][1] \in Nat
    BY <1>0, <2>1, ElementOfSeq
  <2>3. <<vec[p][1]>> \in Seq(Nat) /\ 1 \in 0..Len(<<vec[p][1]>>)
    BY <2>2
  <2>4. Transfer(p, <<vec[p][1]>>, 1)
    BY <1>2 DEF PushSingle, PushOneEnter, PushOneResume
  <2>5. queue' \in Seq(Nat) /\ Len(queue') = Len(queue) + 1
    BY <1>0, <2>3, <2>4, TransferType
  <2>6. queue' # <<>>
    BY <1>0, <2>5, EmptySeq
  <2>7. ~PushVector(p)
    BY <1>2 DEF PushVector, PushSingle
  <2> QED
    BY <2>5, <2>6, <2>7
<1> QED
  BY <1>1, <1>2

(* A pop shortens the queue by one.                                        *)
LEMMA PopLength ==
  ASSUME QueueTypeOK, NEW c \in Poppers, Pop(c)
  PROVE  Len(queue') = Len(queue) - 1 /\ Len(queue) \in Nat \ {0}
<1>1. queue \in Seq(Nat) /\ queue # <<>> /\ queue' = Tail(queue)
  BY DEF QueueTypeOK, Pop, PopEnter, PopResume, TakeFront
<1> QED
  BY <1>1, HeadTailProperties, EmptySeq

(* The steps that leave the queue as it is.                                *)
LEMMA QueueKept ==
  ASSUME \/ \E p \in Pushers : Offer(p) \/ PushWait(p) \/ PushGiveUp(p)
         \/ \E c \in Poppers : PopWait(c) \/ PopGiveUp(c) \/ PopBreaks(c)
         \/ \E t \in Thread : SpuriousWake(t)
         \/ UNCHANGED vars
  PROVE  queue' = queue
BY DEF Offer, PushWait, PushBlock, PushGiveUp, PushTimeout, PopWait, PopBlock, PopGiveUp,
       PopTimeout, PopBreaks, SpuriousWake, vars

(* push(vector) never lets the queue grow past m_limit_size, with any      *)
(* number of threads, timeouts and spurious wakeups: the loop tests the    *)
(* room before each item.  (push(T), which zbroker never calls, does not.) *)
THEOREM VectorsWithinLimit ==
  Singles = {} => (Spec => []WithinLimit)
<1> SUFFICES ASSUME Singles = {} PROVE Spec => []WithinLimit
  OBVIOUS
<1>1. Init => WithinLimit
  BY LimitSizeIsNat, EmptySeq DEF Init, QueueInit, WithinLimit
<1>2. QueueTypeOK /\ WithinLimit /\ [Next]_vars => WithinLimit'
  <2> SUFFICES ASSUME QueueTypeOK, WithinLimit, [Next]_vars PROVE WithinLimit'
    OBVIOUS
  <2>0. Len(queue) \in Nat /\ LimitSize \in Nat
    BY LenProperties, LimitSizeIsNat DEF QueueTypeOK
  <2>1. ASSUME NEW p \in Pushers, PushVector(p) PROVE WithinLimit'
    BY <2>1, PushLength
  <2>2. ASSUME NEW p \in Pushers, PushSingle(p) PROVE WithinLimit'
    BY <2>2 DEF PushSingle, OneItem
  <2>3. ASSUME NEW c \in Poppers, Pop(c) PROVE WithinLimit'
    BY <2>0, <2>3, PopLength DEF WithinLimit
  <2>4. ASSUME ClearIdle PROVE WithinLimit'
    BY <2>0, <2>4, EmptySeq DEF ClearIdle, Clear, WithinLimit
  <2>5. ASSUME queue' = queue PROVE WithinLimit'
    BY <2>5 DEF WithinLimit
  <2> QED
    BY <2>1, <2>2, <2>3, <2>4, <2>5, QueueKept DEF Next, Pusher, Popper
<1> QED
  BY <1>1, <1>2, QueueTypeCorrect, PTL DEF Spec

----------------------------------------------------------------------------
(* pop's single test of the size.                                          *)

(* With one popping thread and no spurious wakeup, pop never takes the     *)
(* front of an empty queue, although it does not test the size again after *)
(* its wait: every notification of m_cond_can_pop is given with the queue  *)
(* non-empty, and nobody else takes what was announced.                    *)
THEOREM OnePopperFindsItem ==
  (OnePopper /\ ~SpuriousWakeups /\ LimitSize # 0) => (Spec => []PopFindsItem)
<1> SUFFICES ASSUME OnePopper, ~SpuriousWakeups, LimitSize # 0
             PROVE  Spec => []PopFindsItem
  OBVIOUS
<1>1. Init => PopFindsItem
  BY ClientsAssumption DEF Init, QueueInit, PopFindsItem, PopUndefined
<1>2. QueueTypeOK /\ PopFindsItem /\ [Next]_vars => PopFindsItem'
  <2> SUFFICES ASSUME QueueTypeOK, PopFindsItem, [Next]_vars PROVE PopFindsItem'
    OBVIOUS
  <2>0. /\ wait \in [Thread -> WaitState]
        /\ \A c \in Poppers : wait[c] # "can_push"
        /\ \A c \in Poppers : wait[c] = "woken" => queue # <<>>
        /\ Thread = Pushers \cup Poppers
        /\ Pushers \cap Poppers = {}
    BY ClientsAssumption DEF QueueTypeOK, PopFindsItem, PopUndefined
  <2>p. PopFindsItem' <=> \A c \in Poppers : wait'[c] = "woken" => queue' # <<>>
    BY DEF PopFindsItem, PopUndefined
  <2>1. ASSUME NEW p \in Pushers, PushVector(p) \/ PushSingle(p) PROVE PopFindsItem'
    BY <2>1, <2>p, PushLength
  <2>2. ASSUME NEW p \in Pushers, PushWait(p) PROVE PopFindsItem'
    <3>1. queue \in Seq(Nat) /\ LimitSize \in Nat
      BY LimitSizeIsNat DEF QueueTypeOK
    <3>2. Len(queue) >= LimitSize /\ queue' = queue
      BY <2>2 DEF PushWait, PushBlock, Full
    <3>3. queue # <<>>
      BY <3>1, <3>2, EmptySeq
    <3> QED
      BY <2>p, <3>2, <3>3
  <2>3. ASSUME NEW c \in Poppers, Pop(c) PROVE PopFindsItem'
    <3>1. wait'[c] = "out"
      BY <2>3, PopWakes
    <3>2. Poppers = {c}
      BY DEF OnePopper
    <3> QED
      BY <2>p, <3>1, <3>2
  <2>4. ASSUME NEW c \in Poppers, PopWait(c) PROVE PopFindsItem'
    <3>1. wait'[c] = "can_pop"
      BY <2>4, PopWakes
    <3>2. Poppers = {c}
      BY DEF OnePopper
    <3> QED
      BY <2>p, <3>1, <3>2
  <2>5. ASSUME NEW p \in Pushers, Offer(p) \/ PushGiveUp(p) PROVE PopFindsItem'
    BY <2>0, <2>5, <2>p DEF Offer, PushGiveUp, PushTimeout
  <2>6. ASSUME NEW c \in Poppers, PopGiveUp(c) \/ PopBreaks(c) PROVE PopFindsItem'
    BY <2>0, <2>6, <2>p DEF PopGiveUp, PopTimeout, PopBreaks
  <2>7. ASSUME NEW t \in Thread, SpuriousWake(t) PROVE PopFindsItem'
    BY <2>7 DEF SpuriousWake
  <2>8. ASSUME ClearIdle PROVE PopFindsItem'
    BY <2>0, <2>8, <2>p DEF ClearIdle, Clear
  <2>9. ASSUME UNCHANGED vars PROVE PopFindsItem'
    BY <2>0, <2>9, <2>p DEF vars
  <2> QED
    BY <2>1, <2>2, <2>3, <2>4, <2>5, <2>6, <2>7, <2>8, <2>9 DEF Next, Pusher, Popper
<1> QED
  BY <1>1, <1>2, QueueTypeCorrect, PTL DEF Spec

----------------------------------------------------------------------------
(* Every notification is a notify_one.                                     *)

(* With one pushing and one popping thread no wakeup is lost: a popper     *)
(* waits only while the queue is empty, a pusher only while it is full.    *)
(* Whoever changes that notifies the only thread that can be waiting.      *)
THEOREM NoWakeupLost ==
  (OnePusher /\ OnePopper) => (Spec => []NoLostWakeup)
<1> SUFFICES ASSUME OnePusher, OnePopper PROVE Spec => []NoLostWakeup
  OBVIOUS
<1>1. Init => NoLostWakeup
  BY ClientsAssumption DEF Init, QueueInit, NoLostWakeup
<1>2. QueueTypeOK /\ NoLostWakeup /\ [Next]_vars => NoLostWakeup'
  <2> SUFFICES ASSUME QueueTypeOK, NoLostWakeup, [Next]_vars PROVE NoLostWakeup'
    OBVIOUS
  <2>0. /\ wait \in [Thread -> WaitState]
        /\ \A p \in Pushers : wait[p] # "can_pop"
        /\ \A c \in Poppers : wait[c] # "can_push"
        /\ \A c \in Poppers : wait[c] = "can_pop" => queue = <<>>
        /\ \A p \in Pushers : wait[p] = "can_push" => Full
        /\ Thread = Pushers \cup Poppers
        /\ Pushers \cap Poppers = {}
    BY ClientsAssumption DEF QueueTypeOK, NoLostWakeup
  <2>n. NoLostWakeup' <=> /\ \A c \in Poppers : wait'[c] = "can_pop" => queue' = <<>>
                          /\ \A p \in Pushers : wait'[p] = "can_push" => Full'
    BY DEF NoLostWakeup
  <2>f. queue' = queue => Full' = Full
    BY DEF Full
  (* The only threads there are, and who is waiting.                       *)
  <2>t. ASSUME NEW p \in Pushers, NEW c \in Poppers
        PROVE  /\ Pushers = {p} /\ Poppers = {c} /\ p # c
               /\ wait[c] = "can_pop" => Waiting("can_pop") = {c}
               /\ wait[p] = "can_push" => Waiting("can_push") = {p}
    <3>1. Pushers = {p} /\ Poppers = {c} /\ p # c
      BY <2>0 DEF OnePusher, OnePopper
    <3> QED
      BY <2>0, <3>1 DEF Waiting
  <2>1. ASSUME NEW p \in Pushers, PushVector(p) \/ PushSingle(p) \/ PushWait(p)
        PROVE  NoLostWakeup'
    <3>1. /\ wait'[p] # "can_push" \/ (PushWait(p) /\ wait'[p] = "can_push")
          /\ \A t \in Thread \ {p} :
               wait'[t] = wait[t] \/ (wait[t] = "can_pop" /\ wait'[t] = "woken")
          /\ \A c \in Thread \ {p} : Waiting("can_pop") = {c} => wait'[c] = "woken"
      BY <2>1, PushWakes, PushWaitWakes
    <3>2. ASSUME NEW c \in Poppers PROVE wait'[c] # "can_pop"
      BY <2>0, <2>t, <3>1
    <3>3. ASSUME NEW q \in Pushers, wait'[q] = "can_push" PROVE Full'
      <4>1. q = p
        BY DEF OnePusher
      <4>2. PushWait(p)
        BY <3>1, <3>3, <4>1
      <4> QED
        BY <2>f, <4>2 DEF PushWait, PushBlock
    <3> QED
      BY <2>n, <3>2, <3>3
  <2>2. ASSUME NEW c \in Poppers, Pop(c) \/ PopWait(c) PROVE NoLostWakeup'
    <3>1. /\ Pop(c) => wait'[c] = "out"
          /\ \A t \in Thread \ {c} :
               wait'[t] = wait[t] \/ (wait[t] = "can_push" /\ wait'[t] = "woken")
          /\ \A p \in Thread \ {c} : Waiting("can_push") = {p} => wait'[p] = "woken"
      BY <2>2, PopWakes
    <3>2. ASSUME NEW p \in Pushers PROVE wait'[p] # "can_push"
      BY <2>0, <2>t, <3>1
    <3>3. ASSUME NEW d \in Poppers, wait'[d] = "can_pop" PROVE queue' = <<>>
      <4>1. d = c
        BY DEF OnePopper
      <4>2. PopWait(c)
        BY <2>2, <3>1, <3>3, <4>1
      <4> QED
        BY <4>2 DEF PopWait, PopBlock
    <3> QED
      BY <2>n, <3>2, <3>3
  <2>3. ASSUME NEW p \in Pushers, Offer(p) \/ PushGiveUp(p) PROVE NoLostWakeup'
    BY <2>0, <2>3, <2>n, <2>f DEF Offer, PushGiveUp, PushTimeout
  <2>4. ASSUME NEW c \in Poppers, PopGiveUp(c) \/ PopBreaks(c) PROVE NoLostWakeup'
    BY <2>0, <2>4, <2>n, <2>f DEF PopGiveUp, PopTimeout, PopBreaks
  <2>5. ASSUME NEW t \in Thread, SpuriousWake(t) PROVE NoLostWakeup'
    BY <2>0, <2>5, <2>n, <2>f DEF SpuriousWake
  <2>6. ASSUME ClearIdle PROVE NoLostWakeup'
    BY <2>0, <2>6, <2>n DEF ClearIdle, Clear
  <2>7. ASSUME UNCHANGED vars PROVE NoLostWakeup'
    BY <2>0, <2>7, <2>n, <2>f DEF vars
  <2> QED
    BY <2>1, <2>2, <2>3, <2>4, <2>5, <2>6, <2>7 DEF Next, Pusher, Popper
<1> QED
  BY <1>1, <1>2, QueueTypeCorrect, PTL DEF Spec

----------------------------------------------------------------------------
(* Order.                                                                  *)

(* With one pushing thread the items leave the queue in the order in which *)
(* they were offered, each vector back to front: none is lost, repeated or *)
(* overtaken however full queues, timeouts, retries and any number of      *)
(* poppers cut the transfers up.                                           *)
THEOREM ItemsInOrder ==
  OnePusher => (Spec => []InOrder)
<1> SUFFICES ASSUME OnePusher PROVE Spec => []InOrder
  OBVIOUS
<1>1. Init => InOrder
  <2> SUFFICES ASSUME Init, NEW p \in Pushers
               PROVE  gone \o queue \o Reverse(vec[p]) = offered
    BY DEF InOrder
  <2>1. gone = <<>> /\ queue = <<>> /\ vec[p] = <<>> /\ offered = <<>>
    BY DEF Init, QueueInit
  <2>2. Reverse(<<>>) = <<>>
    BY DEF Reverse
  <2>3. <<>> \o <<>> = <<>>
    OBVIOUS
  <2> QED
    BY <2>1, <2>2, <2>3
<1>2. QueueTypeOK /\ InOrder /\ [Next]_vars => InOrder'
  <2> SUFFICES ASSUME QueueTypeOK, InOrder, [Next]_vars, NEW p \in Pushers
               PROVE  gone' \o queue' \o Reverse(vec'[p]) = offered'
    BY DEF InOrder
  <2>0. /\ queue \in Seq(Nat) /\ gone \in Seq(Nat) /\ offered \in Seq(Nat)
        /\ vec \in [Pushers -> Seq(Nat)] /\ vec[p] \in Seq(Nat)
        /\ Reverse(vec[p]) \in Seq(Nat)
        /\ gone \o queue \o Reverse(vec[p]) = offered
        /\ Pushers = {p}
    BY ReverseProperties DEF QueueTypeOK, InOrder, OnePusher
  <2>e. Reverse(<<>>) = <<>>
    BY DEF Reverse
  <2>1. CASE Offer(p)
    <3>1. PICK n \in 1..MaxBatch : /\ vec' = [vec EXCEPT ![p] = Fresh(n)]
                                   /\ offered' = offered \o Reverse(Fresh(n))
      BY <2>1 DEF Offer
    <3>2. vec[p] = <<>> /\ queue' = queue /\ gone' = gone /\ vec'[p] = Fresh(n)
      BY <2>0, <2>1, <3>1 DEF Offer
    <3>3. gone \o queue \in Seq(Nat)
      BY <2>0, ConcatProperties
    <3>4. gone \o queue = offered
      BY <2>0, <2>e, <3>2, <3>3, ConcatEmptySeq
    <3> QED
      BY <3>1, <3>2, <3>4
  <2>2. ASSUME NEW n \in 0..Len(vec[p]),
               queue' = queue \o Appended(vec[p], n),
               vec' = [vec EXCEPT ![p] = Kept(vec[p], n)],
               gone' = gone, offered' = offered
        PROVE  gone' \o queue' \o Reverse(vec'[p]) = offered'
    <3>1. vec'[p] = Kept(vec[p], n)
      BY <2>0, <2>2
    <3>2. Appended(vec[p], n) \in Seq(Nat)
      BY <2>0, CutProperties
    <3>3. (gone \o queue) \o Appended(vec[p], n) = gone \o (queue \o Appended(vec[p], n))
      <4> DEFINE app == Appended(vec[p], n)
                 N == Nat
      <4>1. gone \in Seq(N) /\ queue \in Seq(N) /\ app \in Seq(N)
        BY <2>0, <3>2
      <4> HIDE DEF app, N
      <4>2. (gone \o queue) \o app = gone \o (queue \o app)
        BY <4>1, Assoc
      <4> QED
        BY <4>2 DEF app
    <3>4. gone \o queue \in Seq(Nat)
      BY <2>0, ConcatProperties
    <3>5. ((gone \o queue) \o Appended(vec[p], n)) \o Reverse(Kept(vec[p], n))
            = (gone \o queue) \o Reverse(vec[p])
      BY <2>0, <3>4, TransferKeepsOrder
    <3> QED
      BY <2>0, <2>2, <3>1, <3>3, <3>5
  <2>3. CASE PushVector(p)
    <3>1. Moved(vec[p]) \in 0..Len(vec[p])
      BY <2>0, MovedProperties
    <3>2. queue' = queue \o Appended(vec[p], Moved(vec[p]))
      BY <2>3 DEF PushVector, PushEnter, PushResume, Transfer
    <3> QED
      BY <2>2, <2>3, <3>1, <3>2 DEF PushVector
  <2>4. CASE PushSingle(p)
    <3>1. Len(vec[p]) = 1 /\ vec' = [vec EXCEPT ![p] = <<>>]
      BY <2>4 DEF PushSingle, OneItem
    <3>2. vec[p] = <<vec[p][1]>>
      <4>1. vec[p][1] \in Nat
        <5>1. 1 \in 1..Len(vec[p])
          BY <3>1
        <5> QED
          BY <2>0, <5>1, ElementOfSeq
      <4> DEFINE one == <<vec[p][1]>>
      <4>2. one \in Seq(Nat) /\ Len(one) = 1 /\ one[1] = vec[p][1]
        BY <4>1
      <4> HIDE DEF one
      <4>3. vec[p] = one
        BY <2>0, <3>1, <4>2, SeqEqual
      <4> QED
        BY <4>3 DEF one
    <3>3. queue' = queue \o Appended(vec[p], 1)
      BY <2>4, <3>2 DEF PushSingle, PushOneEnter, PushOneResume, Transfer
    <3>4. Kept(vec[p], 1) = <<>>
      <4>1. 1 \in 0..Len(vec[p])
        BY <3>1
      <4>2. Kept(vec[p], 1) \in Seq(Nat) /\ Len(Kept(vec[p], 1)) = Len(vec[p]) - 1
        BY <2>0, <4>1, CutProperties
      <4> QED
        BY <3>1, <4>2, EmptySeq
    <3>5. 1 \in 0..Len(vec[p]) /\ gone' = gone /\ offered' = offered
      BY <2>4, <3>1 DEF PushSingle
    <3> QED
      BY <2>2, <3>1, <3>3, <3>4, <3>5
  <2>5. ASSUME NEW c \in Poppers, Pop(c)
        PROVE  gone' \o queue' \o Reverse(vec'[p]) = offered'
    <3>1. /\ queue # <<>> /\ queue' = Tail(queue)
          /\ gone' = Append(gone, queue[1])
          /\ vec' = vec /\ offered' = offered
      BY <2>5 DEF Pop, PopEnter, PopResume, TakeFront
    <3>2. queue[1] = Head(queue)
      BY <2>0, <3>1
    <3>3. Append(gone, Head(queue)) \o Tail(queue) = gone \o queue
      BY <2>0, <3>1, PassFront
    <3> QED
      BY <2>0, <3>1, <3>2, <3>3
  <2>6. CASE ClearIdle
    <3>1. gone' = gone \o queue /\ queue' = <<>> /\ vec' = vec /\ offered' = offered
      BY <2>6 DEF ClearIdle, Clear
    <3>2. (gone \o queue) \o <<>> = gone \o queue
      BY <2>0, ConcatProperties, ConcatEmptySeq
    <3> QED
      BY <2>0, <3>1, <3>2
  <2>7. ASSUME queue' = queue, gone' = gone, vec' = vec, offered' = offered
        PROVE  gone' \o queue' \o Reverse(vec'[p]) = offered'
    BY <2>0, <2>7
  <2>8. ASSUME \/ PushWait(p) \/ PushGiveUp(p)
               \/ \E c \in Poppers : PopWait(c) \/ PopGiveUp(c) \/ PopBreaks(c)
               \/ \E t \in Thread : SpuriousWake(t)
               \/ UNCHANGED vars
        PROVE  queue' = queue /\ gone' = gone /\ vec' = vec /\ offered' = offered
    BY <2>8 DEF PushWait, PushBlock, PushGiveUp, PushTimeout, PopWait, PopBlock,
                PopGiveUp, PopTimeout, PopBreaks, SpuriousWake, vars
  <2> QED
    BY <2>0, <2>1, <2>3, <2>4, <2>5, <2>6, <2>7, <2>8 DEF Next, Pusher, Popper
<1> QED
  BY <1>1, <1>2, QueueTypeCorrect, PTL DEF Spec

----------------------------------------------------------------------------
(* Refinement.                                                             *)

(* Used by one pushing thread that pushes vectors, as both brokers do, and *)
(* any number of popping threads, sized_queue implements BoundedFIFO, with *)
(* timeouts and spurious wakeups: mutex, condition variables and the cuts  *)
(* of a vector by a full queue are not visible to its callers.             *)
THEOREM QueueRefinesFIFO ==
  OnePusher /\ Singles = {} => (Spec => ImplementsFIFO)
<1> SUFFICES ASSUME OnePusher, Singles = {} PROVE Spec => ImplementsFIFO
  OBVIOUS
<1> DEFINE p == ThePusher
<1>0. Pushers = {p} /\ p \in Pushers
  BY DEF OnePusher, ThePusher
<1> HIDE DEF p
<1>e. Reverse(<<>>) = <<>>
  BY DEF Reverse
<1>1. Init => FIFO!Init
  <2> SUFFICES ASSUME Init PROVE FIFO!Init
    OBVIOUS
  <2>1. vec[p] = <<>> /\ queue = <<>> /\ gone = <<>>
    BY <1>0 DEF Init, QueueInit
  <2> QED
    BY <1>e, <2>1 DEF FIFO!Init, p
<1>2. QueueTypeOK /\ WithinLimit /\ [Next]_vars => [FIFO!Next]_(FIFO!vars)
  <2> SUFFICES ASSUME QueueTypeOK, WithinLimit, [Next]_vars
               PROVE  FIFO!Next \/ UNCHANGED FIFO!vars
    OBVIOUS
  <2>0. /\ queue \in Seq(Nat) /\ gone \in Seq(Nat)
        /\ vec \in [Pushers -> Seq(Nat)] /\ vec[p] \in Seq(Nat)
        /\ Len(queue) \in Nat /\ LimitSize \in Nat /\ Len(queue) <= LimitSize
    BY <1>0, LimitSizeIsNat, LenProperties DEF QueueTypeOK, WithinLimit
  <2>1. CASE Offer(p)
    <3>1. PICK n \in 1..MaxBatch : vec' = [vec EXCEPT ![p] = Fresh(n)]
      BY <2>1 DEF Offer
    <3>2. vec[p] = <<>> /\ vec'[p] = Fresh(n) /\ queue' = queue /\ gone' = gone
      BY <1>0, <2>0, <2>1, <3>1 DEF Offer
    <3>3. Reverse(vec'[p]) \in Seq(Nat)
      BY <3>2, FreshType, ReverseProperties DEF QueueTypeOK
    <3>4. FIFO!Offer
      BY <1>e, <3>2, <3>3 DEF FIFO!Offer, p
    <3> QED
      BY <3>4 DEF FIFO!Next
  <2>2. CASE PushVector(p)
    <3> DEFINE n == Moved(vec[p])
    <3>1. n \in 0..Len(vec[p]) /\ Len(queue) + n <= LimitSize
      BY <2>0, MovedProperties
    <3>2. /\ queue' = queue \o Appended(vec[p], n)
          /\ vec' = [vec EXCEPT ![p] = Kept(vec[p], n)]
          /\ gone' = gone
      BY <2>2 DEF PushVector, PushEnter, PushResume, Transfer
    <3> HIDE DEF n
    <3>3. vec'[p] = Kept(vec[p], n)
      BY <1>0, <2>0, <3>2
    <3>4. queue' \o Reverse(vec'[p]) = queue \o Reverse(vec[p])
      <4>1. (queue \o Appended(vec[p], n)) \o Reverse(Kept(vec[p], n))
              = queue \o Reverse(vec[p])
        BY <2>0, <3>1, TransferKeepsOrder
      <4> QED
        BY <3>2, <3>3, <4>1
    <3>5. Appended(vec[p], n) \in Seq(Nat) /\ Len(Appended(vec[p], n)) = n
      BY <2>0, <3>1, CutProperties
    <3>6. Len(queue') = Len(queue) + n
      BY <2>0, <3>2, <3>5, ConcatProperties
    <3>7. Len(queue') \in Len(queue)..LimitSize
      BY <2>0, <3>1, <3>6, LenProperties
    <3>8. FIFO!Put
      BY <3>2, <3>4, <3>7 DEF FIFO!Put, p
    <3> QED
      BY <3>8 DEF FIFO!Next
  <2>3. ASSUME NEW c \in Poppers, Pop(c) PROVE FIFO!Next
    <3>1. /\ queue # <<>> /\ queue' = Tail(queue)
          /\ gone' = Append(gone, queue[1]) /\ vec' = vec
      BY <2>3 DEF Pop, PopEnter, PopResume, TakeFront
    <3>2. queue[1] = Head(queue)
      BY <2>0, <3>1
    <3>3. FIFO!Get
      BY <3>1, <3>2 DEF FIFO!Get
    <3> QED
      BY <3>3 DEF FIFO!Next
  <2>4. CASE ClearIdle
    BY <2>4 DEF ClearIdle, Clear, FIFO!Clear, FIFO!Next
  <2>5. ASSUME \/ PushWait(p) \/ PushGiveUp(p)
               \/ \E c \in Poppers : PopWait(c) \/ PopGiveUp(c) \/ PopBreaks(c)
               \/ \E t \in Thread : SpuriousWake(t)
               \/ UNCHANGED vars
        PROVE  UNCHANGED FIFO!vars
    BY <2>5 DEF PushWait, PushBlock, PushGiveUp, PushTimeout, PopWait, PopBlock,
                PopGiveUp, PopTimeout, PopBreaks, SpuriousWake, vars, FIFO!vars
  <2>6. ~PushSingle(p)
    BY DEF PushSingle, OneItem
  <2> QED
    BY <1>0, <2>1, <2>2, <2>3, <2>4, <2>5, <2>6 DEF Next, Pusher, Popper
<1>3. Spec => []QueueTypeOK
  BY QueueTypeCorrect
<1>4. Spec => []WithinLimit
  BY VectorsWithinLimit
<1> QED
  BY <1>1, <1>2, <1>3, <1>4, PTL DEF Spec, ImplementsFIFO, FIFO!Spec

----------------------------------------------------------------------------
(* With any number of threads no item is lost or repeated.                 *)

(* The pushers that still have to push i.                                  *)
Holders(i) == {p \in Pushers : i \in ToSet(vec[p])}

(* ExactlyOnce, also for the numbers that have not been offered yet, and   *)
(* no pusher has an item twice.                                            *)
Conserved ==
  /\ \A i \in Nat : /\ IsFiniteSet(Holders(i))
                    /\ Count(gone, i) + Count(queue, i) + Cardinality(Holders(i))
                         = IF i \in 1..Len(offered) THEN 1 ELSE 0
  /\ \A p \in Pushers, i \in Nat : Count(vec[p], i) <= 1

(* What a pusher gets is new to everybody, and nothing comes twice.        *)
LEMMA FreshCount ==
  ASSUME offered \in Seq(Nat), NEW n \in Nat, NEW i \in Nat
  PROVE  /\ Count(Fresh(n), i) <= 1
         /\ i \in ToSet(Fresh(n)) <=> i \in (Len(offered) + 1)..(Len(offered) + n)
<1>1. Len(offered) \in Nat /\ Fresh(n) \in Seq(Nat)
  BY LenProperties, FreshType
<1>2. IsInjective(Fresh(n))
  BY <1>1 DEF Fresh, IsInjective
<1>3. ToSet(Fresh(n)) = {Len(offered) + k : k \in 1..n}
  BY DEF ToSet, Fresh
<1>4. i \in {Len(offered) + k : k \in 1..n} <=> i \in (Len(offered) + 1)..(Len(offered) + n)
  <2>1. ASSUME i \in (Len(offered) + 1)..(Len(offered) + n)
        PROVE  i \in {Len(offered) + k : k \in 1..n}
    <3>1. i - Len(offered) \in 1..n /\ i = Len(offered) + (i - Len(offered))
      BY <1>1, <2>1
    <3> QED
      BY <3>1
  <2>2. \A k \in 1..n : Len(offered) + k \in (Len(offered) + 1)..(Len(offered) + n)
    BY <1>1
  <2> QED
    BY Zenon, <2>1, <2>2
<1> QED
  BY <1>1, <1>2, <1>3, <1>4, InjectiveCount

LEMMA ConservedOffer ==
  ASSUME QueueTypeOK, Conserved, NEW p \in Pushers, Offer(p)
  PROVE  Conserved'
<1>0. /\ offered \in Seq(Nat) /\ vec \in [Pushers -> Seq(Nat)] /\ Len(offered) \in Nat
      /\ queue' = queue /\ gone' = gone /\ vec[p] = <<>>
      /\ gone \in Seq(Nat) /\ queue \in Seq(Nat)
  BY LenProperties DEF QueueTypeOK, Offer
<1>1. PICK n \in 1..MaxBatch : /\ vec' = [vec EXCEPT ![p] = Fresh(n)]
                               /\ offered' = offered \o Reverse(Fresh(n))
  BY DEF Offer
<1>2. n \in Nat /\ Fresh(n) \in Seq(Nat) /\ Len(Fresh(n)) = n
  <2>1. n \in Nat
    BY ClientsAssumption
  <2> QED
    BY <1>0, <2>1, FreshType DEF Fresh
<1>3. Len(offered') = Len(offered) + n
  <2>1. Reverse(Fresh(n)) \in Seq(Nat) /\ Len(Reverse(Fresh(n))) = n
    BY <1>2, ReverseProperties
  <2> DEFINE r == Reverse(Fresh(n))
  <2> HIDE DEF r
  <2>2. Len(offered \o r) = Len(offered) + Len(r)
    BY <1>0, <2>1, ConcatProperties DEF r
  <2> QED
    BY <1>1, <2>1, <2>2 DEF r
<1>4. ASSUME NEW i \in Nat
      PROVE  /\ IsFiniteSet(Holders(i)')
             /\ Count(gone, i) + Count(queue, i) + Cardinality(Holders(i)')
                  = IF i \in 1..Len(offered') THEN 1 ELSE 0
  <2>1. i \in ToSet(vec'[p]) <=> i \in (Len(offered) + 1)..(Len(offered) + n)
    BY <1>0, <1>1, <1>2, FreshCount
  <2>2. i \notin ToSet(vec[p])
    BY <1>0 DEF ToSet
  <2>3. Holders(i)' = IF i \in ToSet(vec'[p]) THEN Holders(i) \cup {p} ELSE Holders(i)
    BY <1>0, <1>1, <2>2 DEF Holders
  <2>4. /\ IsFiniteSet(Holders(i)) /\ Cardinality(Holders(i)) \in Nat
        /\ Cardinality(Holders(i)) = 0 <=> Holders(i) = {}
        /\ Count(gone, i) \in Nat /\ Count(queue, i) \in Nat
        /\ Count(gone, i) + Count(queue, i) + Cardinality(Holders(i))
             = IF i \in 1..Len(offered) THEN 1 ELSE 0
    BY <1>0, CountType, FS_CardinalityType, FS_EmptySet DEF Conserved
  <2>5. CASE i \in (Len(offered) + 1)..(Len(offered) + n)
    <3>1. i \notin 1..Len(offered) /\ i \in 1..Len(offered')
      BY <1>0, <1>2, <1>3, <2>5
    <3>2. Count(gone, i) = 0 /\ Count(queue, i) = 0 /\ Cardinality(Holders(i)) = 0
      BY <2>4, <3>1
    <3>3. Holders(i)' = {p}
      BY <2>1, <2>3, <2>4, <2>5, <3>2
    <3>4. IsFiniteSet({p}) /\ Cardinality({p}) = 1
      BY FS_Singleton
    <3> QED
      BY <3>1, <3>2, <3>3, <3>4
  <2>6. CASE i \notin (Len(offered) + 1)..(Len(offered) + n)
    <3>1. i \in 1..Len(offered') <=> i \in 1..Len(offered)
      BY <1>0, <1>2, <1>3, <2>6
    <3> QED
      BY <2>1, <2>3, <2>4, <2>6, <3>1
  <2> QED
    BY <2>5, <2>6
<1>5. ASSUME NEW q \in Pushers, NEW i \in Nat PROVE Count(vec'[q], i) <= 1
  <2>1. CASE q = p
    BY <1>0, <1>1, <1>2, <2>1, FreshCount
  <2>2. CASE q # p
    BY <1>0, <1>1, <2>2 DEF Conserved
  <2> QED
    BY <2>1, <2>2
<1> QED
  BY <1>0, <1>4, <1>5 DEF Conserved, Count, Places

(* A transfer takes from the pusher what it adds to the queue.             *)
LEMMA ConservedTransfer ==
  ASSUME QueueTypeOK, Conserved, NEW p \in Pushers, NEW n \in 0..Len(vec[p]),
         queue' = queue \o Appended(vec[p], n),
         vec' = [vec EXCEPT ![p] = Kept(vec[p], n)],
         gone' = gone, offered' = offered
  PROVE  Conserved'
<1>0. /\ vec \in [Pushers -> Seq(Nat)] /\ vec[p] \in Seq(Nat)
      /\ gone \in Seq(Nat) /\ queue \in Seq(Nat)
  BY DEF QueueTypeOK
<1>1. Appended(vec[p], n) \in Seq(Nat) /\ Kept(vec[p], n) \in Seq(Nat)
  BY <1>0, CutProperties
<1>v. vec'[p] = Kept(vec[p], n)
  BY <1>0
<1>2. ASSUME NEW i \in Nat
      PROVE  /\ Count(Appended(vec[p], n), i) \in 0..1
             /\ Count(vec'[p], i) = Count(vec[p], i) - Count(Appended(vec[p], n), i)
             /\ Count(vec[p], i) \in 0..1 /\ Count(vec'[p], i) \in 0..1
             /\ Count(queue', i) = Count(queue, i) + Count(Appended(vec[p], n), i)
  <2>1. Count(Appended(vec[p], n), i) + Count(Kept(vec[p], n), i) = Count(vec[p], i)
    BY <1>0, CountCut
  <2>2. /\ Count(Appended(vec[p], n), i) \in Nat /\ Count(Kept(vec[p], n), i) \in Nat
        /\ Count(vec[p], i) \in Nat /\ Count(vec[p], i) <= 1
    BY <1>0, <1>1, CountType DEF Conserved
  <2>3. Count(queue', i) = Count(queue, i) + Count(Appended(vec[p], n), i)
    <3> DEFINE app == Appended(vec[p], n)
    <3>1. app \in Seq(Nat) /\ queue' = queue \o app
      BY <1>1
    <3> HIDE DEF app
    <3>2. Count(queue \o app, i) = Count(queue, i) + Count(app, i)
      BY <1>0, <3>1, CountConcat
    <3> QED
      BY <3>1, <3>2 DEF app
  <2> QED
    BY <1>v, <2>1, <2>2, <2>3
<1>3. ASSUME NEW i \in Nat
      PROVE  /\ IsFiniteSet(Holders(i)')
             /\ Count(gone, i) + Count(queue', i) + Cardinality(Holders(i)')
                  = IF i \in 1..Len(offered) THEN 1 ELSE 0
  <2>1. /\ i \in ToSet(vec[p]) <=> Count(vec[p], i) # 0
        /\ i \in ToSet(vec'[p]) <=> Count(vec'[p], i) # 0
    BY <1>0, <1>1, <1>v, CountMember
  <2>2. /\ IsFiniteSet(Holders(i)) /\ Cardinality(Holders(i)) \in Nat
        /\ Count(gone, i) \in Nat /\ Count(queue, i) \in Nat
        /\ Count(gone, i) + Count(queue, i) + Cardinality(Holders(i))
             = IF i \in 1..Len(offered) THEN 1 ELSE 0
    BY <1>0, CountType, FS_CardinalityType DEF Conserved
  <2>3. CASE Count(Appended(vec[p], n), i) = 0
    <3>1. i \in ToSet(vec'[p]) <=> i \in ToSet(vec[p])
      BY <1>2, <2>1, <2>3
    <3>2. Holders(i)' = Holders(i)
      BY <1>0, <3>1 DEF Holders
    <3> QED
      BY <1>2, <2>2, <2>3, <3>2
  <2>4. CASE Count(Appended(vec[p], n), i) = 1
    <3>1. i \notin ToSet(vec'[p]) /\ i \in ToSet(vec[p])
      BY <1>2, <2>1, <2>4
    <3>2. Holders(i)' = Holders(i) \ {p} /\ p \in Holders(i)
      BY <1>0, <3>1 DEF Holders
    <3>3. IsFiniteSet(Holders(i) \ {p}) /\ Cardinality(Holders(i) \ {p}) = Cardinality(Holders(i)) - 1
      BY <2>2, <3>2, FS_RemoveElement
    <3> QED
      BY <1>2, <2>2, <2>4, <3>2, <3>3
  <2> QED
    BY <1>2, <2>3, <2>4
<1>4. ASSUME NEW q \in Pushers, NEW i \in Nat PROVE Count(vec'[q], i) <= 1
  <2>1. CASE q = p
    BY <1>2, <2>1
  <2>2. CASE q # p
    BY <1>0, <2>2 DEF Conserved
  <2> QED
    BY <2>1, <2>2
<1> QED
  BY <1>3, <1>4 DEF Conserved, Count, Places

LEMMA ConservedInductive ==
  ASSUME QueueTypeOK, Conserved, [Next]_vars
  PROVE  Conserved'
<1>0. /\ queue \in Seq(Nat) /\ gone \in Seq(Nat) /\ offered \in Seq(Nat)
      /\ vec \in [Pushers -> Seq(Nat)]
  BY DEF QueueTypeOK
<1>m. ASSUME vec' = vec, offered' = offered,
             \A i \in Nat : Count(gone', i) + Count(queue', i) = Count(gone, i) + Count(queue, i)
      PROVE  Conserved'
  <2>1. \A i \in Nat : Holders(i)' = Holders(i)
    BY <1>m DEF Holders
  <2> QED
    BY <1>m, <2>1 DEF Conserved, Count, Places
<1>1. ASSUME NEW p \in Pushers, Offer(p) PROVE Conserved'
  BY <1>1, ConservedOffer
<1>2. ASSUME NEW p \in Pushers, PushVector(p) PROVE Conserved'
  <2>1. Moved(vec[p]) \in 0..Len(vec[p])
    BY <1>0, MovedProperties
  <2>2. queue' = queue \o Appended(vec[p], Moved(vec[p]))
    BY <1>2 DEF PushVector, PushEnter, PushResume, Transfer
  <2> QED
    BY <1>2, <2>1, <2>2, ConservedTransfer DEF PushVector
<1>3. ASSUME NEW p \in Pushers, PushSingle(p) PROVE Conserved'
  <2>1. Len(vec[p]) = 1 /\ vec' = [vec EXCEPT ![p] = <<>>] /\ vec[p] \in Seq(Nat)
    BY <1>0, <1>3 DEF PushSingle, OneItem
  <2>2. vec[p] = <<vec[p][1]>>
    <3>1. 1 \in 1..Len(vec[p])
      BY <2>1
    <3>2. vec[p][1] \in Nat
      BY <2>1, <3>1, ElementOfSeq
    <3> DEFINE one == <<vec[p][1]>>
    <3>3. one \in Seq(Nat) /\ Len(one) = 1 /\ one[1] = vec[p][1]
      BY <3>2
    <3> HIDE DEF one
    <3>4. vec[p] = one
      BY <2>1, <3>3, SeqEqual
    <3> QED
      BY <3>4 DEF one
  <2>3. queue' = queue \o Appended(vec[p], 1)
    BY <1>3, <2>2 DEF PushSingle, PushOneEnter, PushOneResume, Transfer
  <2>4. 1 \in 0..Len(vec[p])
    BY <2>1
  <2>5. Kept(vec[p], 1) = <<>>
    <3>1. Kept(vec[p], 1) \in Seq(Nat) /\ Len(Kept(vec[p], 1)) = Len(vec[p]) - 1
      BY <2>1, <2>4, CutProperties
    <3> QED
      BY <2>1, <3>1, EmptySeq
  <2>6. gone' = gone /\ offered' = offered
    BY <1>3 DEF PushSingle
  <2> QED
    BY <2>1, <2>3, <2>4, <2>5, <2>6, ConservedTransfer
<1>4. ASSUME NEW c \in Poppers, Pop(c) PROVE Conserved'
  <2>1. /\ queue # <<>> /\ queue' = Tail(queue) /\ gone' = Append(gone, queue[1])
        /\ vec' = vec /\ offered' = offered
    BY <1>4 DEF Pop, PopEnter, PopResume, TakeFront
  <2>2. queue[1] = Head(queue) /\ Head(queue) \in Nat /\ Tail(queue) \in Seq(Nat)
    BY <1>0, <2>1, HeadTailProperties
  <2>3. ASSUME NEW i \in Nat
        PROVE  Count(gone', i) + Count(queue', i) = Count(gone, i) + Count(queue, i)
    <3>1. Count(queue, i) = Count(<<Head(queue)>>, i) + Count(Tail(queue), i)
      BY <1>0, <2>1, CountFront
    <3>2. Count(Append(gone, Head(queue)), i) = Count(gone, i) + Count(<<Head(queue)>>, i)
      BY <1>0, <2>2, CountAppend
    <3>3. /\ Count(gone, i) \in Nat /\ Count(Tail(queue), i) \in Nat
          /\ Count(<<Head(queue)>>, i) \in Nat
      <4>1. <<Head(queue)>> \in Seq(Nat)
        BY <2>2
      <4> QED
        BY <1>0, <2>2, <4>1, CountType
    <3> QED
      BY <2>1, <2>2, <3>1, <3>2, <3>3
  <2> QED
    BY <1>m, <2>1, <2>3
<1>5. CASE ClearIdle
  <2>1. gone' = gone \o queue /\ queue' = <<>> /\ vec' = vec /\ offered' = offered
    BY <1>5 DEF ClearIdle, Clear
  <2>2. ASSUME NEW i \in Nat
        PROVE  Count(gone', i) + Count(queue', i) = Count(gone, i) + Count(queue, i)
    <3>1. Count(gone \o queue, i) = Count(gone, i) + Count(queue, i) /\ Count(<<>>, i) = 0
      BY <1>0, CountConcat, CountEmpty
    <3>2. Count(gone, i) \in Nat /\ Count(queue, i) \in Nat
      BY <1>0, CountType
    <3> QED
      BY <2>1, <3>1, <3>2
  <2> QED
    BY <1>m, <2>1, <2>2
<1>6. ASSUME \/ \E p \in Pushers : PushWait(p) \/ PushGiveUp(p)
             \/ \E c \in Poppers : PopWait(c) \/ PopGiveUp(c) \/ PopBreaks(c)
             \/ \E t \in Thread : SpuriousWake(t)
             \/ UNCHANGED vars
      PROVE  Conserved'
  <2>1. UNCHANGED <<queue, gone, vec, offered>>
    BY <1>6 DEF PushWait, PushBlock, PushGiveUp, PushTimeout, PopWait, PopBlock,
                PopGiveUp, PopTimeout, PopBreaks, SpuriousWake, vars
  <2> QED
    BY <1>m, <2>1
<1> QED
  BY <1>1, <1>2, <1>3, <1>4, <1>5, <1>6 DEF Next, Pusher, Popper

(* Every item offered is in exactly one place, whatever the queue's size   *)
(* and for any number of pushing and popping threads, of push(T) and       *)
(* push(vector), of timeouts, wakeups and clear().                         *)
THEOREM EveryItemOnce == Spec => []ExactlyOnce
<1>1. Init => Conserved
  <2> SUFFICES ASSUME Init PROVE Conserved
    OBVIOUS
  <2>1. /\ gone = <<>> /\ queue = <<>> /\ Len(offered) = 0
        /\ \A p \in Pushers : vec[p] = <<>>
    BY EmptySeq DEF Init, QueueInit
  <2>2. \A i \in Nat : Holders(i) = {} /\ Count(<<>>, i) = 0
    <3>1. ToSet(<<>>) = {}
      BY DEF ToSet
    <3> QED
      BY <2>1, <3>1, CountEmpty DEF Holders
  <2>3. IsFiniteSet({}) /\ Cardinality({}) = 0
    BY FS_EmptySet
  <2>4. ASSUME NEW i \in Nat
        PROVE  /\ IsFiniteSet(Holders(i))
               /\ Count(gone, i) + Count(queue, i) + Cardinality(Holders(i)) = 0
               /\ i \notin 1..Len(offered)
    <3>1. Count(gone, i) = 0 /\ Count(queue, i) = 0 /\ Holders(i) = {}
      BY Zenon, <2>1, <2>2
    <3>2. IsFiniteSet(Holders(i)) /\ Cardinality(Holders(i)) = 0
      BY Zenon, <2>3, <3>1
    <3> QED
      BY <2>1, <3>1, <3>2
  <2>5. \A p \in Pushers, i \in Nat : Count(vec[p], i) <= 1
    BY <2>1, <2>2
  <2> QED
    BY Zenon, <2>4, <2>5 DEF Conserved
<1>2. QueueTypeOK /\ Conserved /\ [Next]_vars => Conserved'
  BY ConservedInductive
<1>3. QueueTypeOK /\ Conserved => ExactlyOnce
  <2> SUFFICES ASSUME QueueTypeOK, Conserved, NEW i \in 1..Len(offered)
               PROVE  Cardinality({k \in DOMAIN gone : gone[k] = i})
                      + Cardinality({k \in DOMAIN queue : queue[k] = i})
                      + Cardinality({p \in Pushers : i \in ToSet(vec[p])}) = 1
    BY DEF ExactlyOnce
  <2>1. i \in Nat
    BY LenProperties DEF QueueTypeOK
  <2>2. Count(gone, i) + Count(queue, i) + Cardinality(Holders(i)) = 1
    BY <2>1 DEF Conserved
  <2> QED
    BY <2>2 DEF Count, Places, Holders
<1> QED
  BY <1>1, <1>2, <1>3, QueueTypeCorrect, PTL DEF Spec

=============================================================================
