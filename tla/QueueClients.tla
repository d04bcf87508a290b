---------------------------- MODULE QueueClients ----------------------------
(***************************************************************************)
(* The sized_queue used by threads that push vectors, push single items    *)
(* and pop, with and without timeouts.  In zbroker each queue has exactly  *)
(* one pushing and one popping thread (read thread -> io thread, io thread *)
(* -> write thread); the class itself admits any number, and so does this  *)
(* module.                                                                 *)
(***************************************************************************)
EXTENDS SizedQueue, FiniteSets

CONSTANTS
  Pushers, Poppers,   \* the threads
  Singles,            \* the pushers that use push(T) when they have one item to push
  Timed,              \* the threads that pass seconds > 0
  SpuriousWakeups,    \* whether a condition variable may wake a thread unasked
  MaxItems,           \* bound: how many items are ever offered
  MaxBatch            \* bound: the longest vector offered at once

ASSUME ClientsAssumption ==
  /\ Thread = Pushers \cup Poppers
  /\ Pushers \cap Poppers = {}
  /\ Singles \subseteq Pushers
  /\ Timed \subseteq Thread
  /\ SpuriousWakeups \in BOOLEAN
  /\ MaxItems \in Nat
  /\ MaxBatch \in Nat \ {0}

VARIABLES
  vec,         \* each pusher's vector: what it still has to push
  offered,     \* history: all items offered, each vector back to front
  gone,        \* history: the items that left the queue, in order
  undefined    \* front() has been called on an empty deque

vars == <<queue, wait, vec, offered, gone, undefined>>

Init ==
  /\ QueueInit
  /\ vec = [p \in Pushers |-> <<>>]
  /\ offered = <<>>
  /\ gone = <<>>
  /\ undefined = FALSE

----------------------------------------------------------------------------
(* A pusher whose vector is used up gets another one: the next n numbers.  *)
Fresh(n) == [i \in 1..n |-> Len(offered) + i]

Offer(p) ==
  /\ wait[p] = "out"
  /\ vec[p] = <<>>
  /\ \E n \in 1..MaxBatch :
       /\ Len(offered) + n <= MaxItems
       /\ vec' = [vec EXCEPT ![p] = Fresh(n)]
       /\ offered' = offered \o Reverse(Fresh(n))
  /\ UNCHANGED <<queue, wait, gone, undefined>>

(* Whether the call that p is about to make, or is blocked in, is push(T): *)
(* vec[p] does not change while p is blocked.                              *)
OneItem(p) == p \in Singles /\ Len(vec[p]) = 1

(* The vector is passed by reference: the caller keeps what did not fit.   *)
PushVector(p) ==
  /\ ~OneItem(p)
  /\ vec[p] # <<>>
  /\ PushEnter(p, vec[p]) \/ PushResume(p, vec[p])
  /\ vec' = [vec EXCEPT ![p] = Kept(@, Moved(@))]
  /\ UNCHANGED <<offered, gone, undefined>>

PushSingle(p) ==
  /\ OneItem(p)
  /\ PushOneEnter(p, vec[p][1]) \/ PushOneResume(p, vec[p][1])
  /\ vec' = [vec EXCEPT ![p] = <<>>]
  /\ UNCHANGED <<offered, gone, undefined>>

PushWait(p) ==
  /\ vec[p] # <<>>
  /\ PushBlock(p)
  /\ UNCHANGED <<vec, offered, gone, undefined>>

PushGiveUp(p) ==
  /\ p \in Timed
  /\ PushTimeout(p)
  /\ UNCHANGED <<vec, offered, gone, undefined>>

Pop(c) ==
  /\ PopEnter(c) \/ PopResume(c)
  /\ gone' = Append(gone, queue[1])
  /\ UNCHANGED <<vec, offered, undefined>>

PopWait(c) ==
  /\ PopBlock(c)
  /\ UNCHANGED <<vec, offered, gone, undefined>>

PopGiveUp(c) ==
  /\ c \in Timed
  /\ PopTimeout(c)
  /\ UNCHANGED <<vec, offered, gone, undefined>>

(* front() on an empty deque: nothing is known of what follows.            *)
PopBreaks(c) ==
  /\ PopUndefined(c)
  /\ undefined' = TRUE
  /\ UNCHANGED <<queue, wait, vec, offered, gone>>

SpuriousWake(t) ==
  /\ SpuriousWakeups
  /\ wait[t] \in {"can_pop", "can_push"}
  /\ wait' = [wait EXCEPT ![t] = "woken"]
  /\ UNCHANGED <<queue, vec, offered, gone, undefined>>

(* broker::init empties the queue while no thread is inside it.            *)
ClearIdle ==
  /\ queue # <<>>
  /\ \A t \in Thread : wait[t] = "out"
  /\ Clear
  /\ gone' = gone \o queue
  /\ UNCHANGED <<vec, offered, undefined>>

Pusher(p) == PushVector(p) \/ PushSingle(p) \/ PushWait(p)
Popper(c) == Pop(c) \/ PopWait(c)

Next ==
  /\ ~undefined
  /\ \/ \E p \in Pushers : Offer(p) \/ Pusher(p) \/ PushGiveUp(p)
     \/ \E c \in Poppers : Popper(c) \/ PopGiveUp(c) \/ PopBreaks(c)
     \/ \E t \in Thread : SpuriousWake(t)
     \/ ClearIdle

Spec == Init /\ [][Next]_vars

(***************************************************************************)
(* A thread inside the queue is scheduled again, and one that has work     *)
(* calls the queue again.  Nothing makes a pusher offer more, and nothing  *)
(* makes a timeout happen.                                                 *)
(***************************************************************************)
FairSpec ==
  /\ Spec
  /\ \A p \in Pushers : WF_vars(Pusher(p))
  /\ \A c \in Poppers : WF_vars(Popper(c))

----------------------------------------------------------------------------
(* Properties.                                                             *)

(* The state has its shape; a pusher waits only for room and a popper only *)
(* for items (pop waits on m_cond_can_pop, push on m_cond_can_push).       *)
QueueTypeOK ==
  /\ queue \in Seq(Nat)
  /\ wait \in [Thread -> WaitState]
  /\ \A p \in Pushers : wait[p] # "can_pop"
  /\ \A c \in Poppers : wait[c] # "can_push"
  /\ vec \in [Pushers -> Seq(Nat)]
  /\ offered \in Seq(Nat)
  /\ gone \in Seq(Nat)
  /\ undefined \in BOOLEAN

(* The deque never grows past m_limit_size: the transfer loop of           *)
(* push(vector) tests the room for each item, whoever woke the pusher.     *)
WithinLimit == Len(queue) <= LimitSize

(* pop never calls front() on an empty deque although it does not test the *)
(* size again after its wait: with one popper a notification of            *)
(* m_cond_can_pop always finds an item, and nobody else can take it.       *)
PopFindsItem == \A c \in Poppers : ~PopUndefined(c)

(* No thread sleeps through its condition: with one pusher and one popper  *)
(* a popper waits only while the deque is empty and a pusher only while it *)
(* is full, although every notification is a notify_one.                   *)
NoLostWakeup ==
  /\ \A c \in Poppers : wait[c] = "can_pop" => queue = <<>>
  /\ \A p \in Pushers : wait[p] = "can_push" => Full

(* With one pusher the queue is first in first out in the order in which   *)
(* push(vector) takes items in, each vector from its back to its front:    *)
(* however a vector is cut up by full queues and timeouts, no item is      *)
(* lost, repeated or overtaken.  This is not the order of the caller's     *)
(* vector, which a test expects (LastDocLast of ReadBroker).               *)
InOrder == \A p \in Pushers : gone \o queue \o Reverse(vec[p]) = offered

(* With any number of threads every item offered is in exactly one place:  *)
(* still with its pusher, in the queue, or popped.                         *)
ExactlyOnce ==
  \A i \in 1..Len(offered) :
    Cardinality({k \in DOMAIN gone : gone[k] = i})
    + Cardinality({k \in DOMAIN queue : queue[k] = i})
    + Cardinality({p \in Pushers : i \in ToSet(vec[p])}) = 1

(* The pushing thread, where there is one.                                 *)
ThePusher == CHOOSE p \in Pushers : TRUE

FIFO ==
  INSTANCE BoundedFIFO WITH
    Item     <- Nat,
    Capacity <- LimitSize,
    pending  <- Reverse(vec[ThePusher]),
    buf      <- queue,
    out      <- gone

(* With one pusher the queue implements a bounded first-in-first-out       *)
(* queue: each step of a thread inside push or pop puts some of what is    *)
(* offered, in order and within the limit, takes the front, or changes     *)
(* nothing that a caller sees.                                             *)
ImplementsFIFO == FIFO!Spec

(* Whatever is offered is popped in the end: pusher and popper never block *)
(* each other for good.                                                    *)
Delivered ==
  \A i \in 1..MaxItems : (i \in ToSet(offered)) ~> (i \in ToSet(gone))
=============================================================================
