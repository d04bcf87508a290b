----------------------------- MODULE SizedQueue -----------------------------
(***************************************************************************)
(* The class sized_queue<T> (src/sized_queue.hpp, src/sized_queue.cc): a   *)
(* bounded deque behind one mutex, m_monitor, and two condition variables, *)
(* m_cond_can_push and m_cond_can_pop.                                     *)
(*                                                                         *)
(* A thread holds m_monitor from its entry into pop/push until it returns  *)
(* or waits, so each of these stretches is one action and the mutex itself *)
(* needs no variable.  The two brokers EXTEND this module and drive its    *)
(* actions from their own threads; QueueClients drives them from arbitrary *)
(* threads.                                                                *)
(***************************************************************************)
EXTENDS Naturals, Sequences, SequencesExt

CONSTANTS
  Thread,      \* the threads that call the queue
  LimitSize    \* m_limit_size, fixed by set_size before the threads start

ASSUME LimitSizeIsNat == LimitSize \in Nat

VARIABLES
  queue,       \* m_queue, front first
  wait         \* where each thread stands with respect to the condition variables

(***************************************************************************)
(* "out": not blocked inside the queue.  "can_pop", "can_push": waiting on *)
(* that condition variable.  "woken": notified, not yet holding m_monitor  *)
(* again.                                                                  *)
(***************************************************************************)
WaitState == {"out", "can_pop", "can_push", "woken"}

QueueInit ==
  /\ queue = <<>>
  /\ wait = [t \in Thread |-> "out"]

----------------------------------------------------------------------------
(* Condition variables.                                                    *)

Waiting(c) == {t \in Thread : wait[t] = c}

(***************************************************************************)
(* The values wait may have after c.notify_one(): some waiter is woken, or *)
(* nothing happens and the notification is lost when nobody waits.         *)
(***************************************************************************)
notify_one(c) ==
  IF Waiting(c) = {} THEN {wait}
  ELSE {[wait EXCEPT ![t] = "woken"] : t \in Waiting(c)}

----------------------------------------------------------------------------
(* T pop(size_t seconds)                                                   *)

(* Mutant: the notification of the pushers is forgotten.                   *)
TakeFrontSilently(t) ==
  /\ queue # <<>>
  /\ queue' = Tail(queue)
  /\ wait' = [wait EXCEPT ![t] = "out"]

(* An empty deque: tell a pusher, then wait for an item.                   *)
PopBlock(t) ==
  /\ wait[t] = "out"
  /\ queue = <<>>
  /\ \E w \in notify_one("can_push") : wait' = [w EXCEPT ![t] = "can_pop"]
  /\ UNCHANGED queue

(***************************************************************************)
(* Take the front, tell a pusher, return.  The test of the size is an if,  *)
(* not a loop: a thread that comes back from wait takes the front of the   *)
(* deque whatever its size now is.  On an empty deque front() is undefined *)
(* behaviour, which is PopUndefined.                                       *)
(***************************************************************************)
TakeFront(t) ==
  /\ queue # <<>>
  /\ queue' = Tail(queue)
  /\ \E w \in notify_one("can_push") : wait' = [w EXCEPT ![t] = "out"]

PopEnter(t) == wait[t] = "out" /\ TakeFront(t)

PopResume(t) == wait[t] = "woken" /\ TakeFront(t)

PopUndefined(t) == wait[t] = "woken" /\ queue = <<>>

(* timed_wait gave up: zbroker::wait throws broker_timeout out of pop.     *)
PopTimeout(t) ==
  /\ wait[t] = "can_pop"
  /\ wait' = [wait EXCEPT ![t] = "out"]
  /\ UNCHANGED queue

----------------------------------------------------------------------------
(* int push(vector<T>& items, size_t seconds)                              *)

Full == Len(queue) >= LimitSize

(* Mutants: the size test is dropped; the wait is on the wrong condition.  *)
PushBlockUntested(t) ==
  /\ wait[t] = "out"
  /\ \E w \in notify_one("can_pop") : wait' = [w EXCEPT ![t] = "can_push"]
  /\ UNCHANGED queue

PushBlockSwapped(t) ==
  /\ wait[t] = "out"
  /\ Full
  /\ \E w \in notify_one("can_push") : wait' = [w EXCEPT ![t] = "can_pop"]
  /\ UNCHANGED queue

(* A full deque: tell a popper, then wait for room.                        *)
PushBlock(t) ==
  /\ wait[t] = "out"
  /\ Full
  /\ \E w \in notify_one("can_pop") : wait' = [w EXCEPT ![t] = "can_push"]
  /\ UNCHANGED queue

(* Mutant: the loop forgets the room and moves everything.                 *)
MovedAll(items) == Len(items)

(* How many items the transfer loop moves: until items or room runs out.   *)
Moved(items) ==
  IF Full THEN 0
  ELSE IF Len(items) <= LimitSize - Len(queue) THEN Len(items)
  ELSE LimitSize - Len(queue)

(* Mutants: one item too many stays; the vector is read from its front.    *)
KeptOneMore(items, n) ==
  SubSeq(items, 1, IF n = 0 THEN Len(items) ELSE Len(items) - n + 1)
AppendedInOrder(items, n) == SubSeq(items, Len(items) - n + 1, Len(items))

(* What the loop leaves in the caller's vector, and what it appends: it    *)
(* pops the vector from its back, so the items arrive in reverse order.    *)
Kept(items, n) == SubSeq(items, 1, Len(items) - n)
Appended(items, n) == Reverse(SubSeq(items, Len(items) - n + 1, Len(items)))

(* Mutant: the final notification is forgotten.                            *)
TransferSilently(t, items, n) ==
  /\ queue' = queue \o Appended(items, n)
  /\ wait' = [wait EXCEPT ![t] = "out"]

(* The transfer of n items, then the final notification of a popper.       *)
Transfer(t, items, n) ==
  /\ queue' = queue \o Appended(items, n)
  /\ \E w \in notify_one("can_pop") : wait' = [w EXCEPT ![t] = "out"]

PushEnter(t, items) ==
  /\ wait[t] = "out"
  /\ ~Full
  /\ Transfer(t, items, Moved(items))

PushResume(t, items) ==
  /\ wait[t] = "woken"
  /\ Transfer(t, items, Moved(items))

PushTimeout(t) ==
  /\ wait[t] = "can_push"
  /\ wait' = [wait EXCEPT ![t] = "out"]
  /\ UNCHANGED queue

----------------------------------------------------------------------------
(* int push(T item, size_t seconds): like pop, it does not test the size   *)
(* again after its wait, and appends its item to whatever it then finds.   *)

PushOneEnter(t, item) ==
  /\ wait[t] = "out"
  /\ ~Full
  /\ Transfer(t, <<item>>, 1)

PushOneResume(t, item) ==
  /\ wait[t] = "woken"
  /\ Transfer(t, <<item>>, 1)

(* void clear()                                                            *)
Clear ==
  /\ queue' = <<>>
  /\ UNCHANGED wait
=============================================================================
