----------------------------- MODULE ReadOptions ----------------------------
(***************************************************************************)
(* The read side of a processor under the parameters of its OPEN.  A       *)
(* processor is found by the hash of the whole OPEN, so that it is opened  *)
(* with the same parameters every time: one set of them for a behaviour.   *)
(***************************************************************************)
EXTENDS Naturals, Sequences, BrokerInit

CONSTANTS
  Case,          \* the names of the parameters to look at
  NumDocs, MaxOpens, MaxRewinds, CanTerm, Fits   \* as in ReadBroker

(* The parameters of an OPEN that gives a limit and leaves the rest out.   *)
Given(limit) ==
  [limit |-> limit, skip |-> Missing, queue_size |-> Missing, read_timeout |-> Missing]

ParametersOf ==
  [usual      |-> [Given(2) EXCEPT !.queue_size = 2],
   small      |-> [Given(2) EXCEPT !.queue_size = 1],
   nothing    |-> Given(Missing),
   overflow   |-> Given(4),
   zero_limit |-> [Given(0) EXCEPT !.queue_size = 2],
   zero_queue |-> [Given(2) EXCEPT !.queue_size = 0],
   endless    |-> [Given(2) EXCEPT !.queue_size = 2, !.read_timeout = 0],
   negative   |-> [Given(-1) EXCEPT !.queue_size = 2, !.read_timeout = -1]]

ASSUME CaseAssumption ==
  /\ Case \subseteq DOMAIN ParametersOf
  /\ \A c \in Case : ParametersOf[c] \in Parameters

VARIABLES
  queue, wait, inserted, last_id, do_exit, reach_end, querying, connected, qlock,
  reader, cond, docs, io, cmd, out, left, retry, opens, delivered, dropped, rewinds,
  parameters     \* those of the OPEN

(* The broker that init makes of p.                                        *)
Broker(p) ==
  INSTANCE ReadBroker WITH
    Thread      <- {"reader", "io"},
    LimitSize   <- ToSize(InitQueueSize(p)),
    Limit       <- InitLimit(p),
    Skip        <- InitSkip(p),
    ReadTimeout <- InitReadTimeout(p),
    ReadRetry   <- 1

Chosen == {ParametersOf[c] : c \in Case}

vars == <<queue, wait, inserted, last_id, do_exit, reach_end, querying, connected, qlock,
          reader, cond, docs, io, cmd, out, left, retry, opens, delivered, dropped,
          rewinds, parameters>>

Init == \E p \in Chosen : parameters = p /\ Broker(p)!Init

(* A step of the broker, in one of its parts.                              *)
Next ==
  \E p \in Chosen :
    /\ parameters = p
    /\ Broker(p)!Next
    /\ UNCHANGED parameters

ReaderStep == \E p \in Chosen : parameters = p /\ Broker(p)!ReaderStep /\ UNCHANGED parameters
BatchStep == \E p \in Chosen : parameters = p /\ Broker(p)!BatchStep /\ UNCHANGED parameters
BatchRelock == \E p \in Chosen : parameters = p /\ Broker(p)!BatchRelock /\ UNCHANGED parameters
Read == \E p \in Chosen : parameters = p /\ Broker(p)!Read /\ UNCHANGED parameters

(* The fairness of FairSpec in ReadBroker, and a client that always asks   *)
(* for more.                                                               *)
Spec ==
  /\ Init /\ [][Next]_vars
  /\ WF_vars(ReaderStep) /\ WF_vars(BatchStep) /\ SF_vars(BatchRelock) /\ WF_vars(Read)

----------------------------------------------------------------------------
(* Properties.                                                             *)

(* What init leaves to the queue and to m_read_timeout.                    *)
ZeroQueue == ToSize(InitQueueSize(parameters)) = 0
Endless == InitReadTimeout(parameters) = 0

(* Where nothing can be promised: the io thread is stranded, the process   *)
(* has been aborted, or pop has read the front of an empty queue.          *)
Lost ==
  \/ \E p \in Chosen : parameters = p /\ Broker(p)!Stranded
  \/ io = "aborted"
  \/ wait["io"] = "woken" /\ queue = <<>>

(* Of the limits, queue sizes and timeouts looked at (no case gives a      *)
(* skip) only two break the broker itself, through all that init and the   *)
(* conversions to size_t make of them: a limit of 0 fails the assertion of *)
(* batch_pop, and a queue of size 0 makes pop read the front of an empty   *)
(* deque.                                                                  *)
BreaksOnlyAtZero ==
  \E p \in Chosen : parameters = p /\ Broker(p)!BreaksOnlyAtZero

(* READ and term wait without a timeout when read_timeout is 0.            *)
WaitsForEver == Endless /\ wait["io"] = "can_pop" /\ queue = <<>>

(* Every READ is answered, whatever the parameters, but for that; it is    *)
(* even with a queue of size 0, by NoMoreItem.                             *)
ReadAnswered == (cmd = "read") ~> (cmd # "read" \/ Lost \/ WaitsForEver)

(* Every term comes to its end, but for that; a queue of size 0 leaves the *)
(* read thread blocked in push, and term joins it for ever.                *)
TermEnds == (cmd = "term") ~> (cmd # "term" \/ Lost \/ WaitsForEver \/ ZeroQueue)

(* A client that goes on reading is answered with every document of the    *)
(* collection, whatever the parameters, unless the processor is closed,    *)
(* its queue has no room for anything, or a READ waits for ever with the   *)
(* documents it has.                                                       *)
EventuallySent ==
  \A d \in 1..NumDocs :
    (connected /\ inserted >= d) ~>
      (\/ \E i \in DOMAIN (delivered \o dropped) : (delivered \o dropped)[i] = d
       \/ ~connected \/ cmd = "term" \/ Lost \/ WaitsForEver \/ ZeroQueue)
=============================================================================
