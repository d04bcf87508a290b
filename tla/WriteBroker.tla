----------------------------- MODULE WriteBroker ----------------------------
(***************************************************************************)
(* The write side of a processor (src/broker.cc, src/asio_processor.cc).   *)
(* The io thread runs the client's commands: OPEN starts the write thread, *)
(* WRITE pushes the documents of the request into m_queue and answers OK,  *)
(* term (the last CLOSE) makes the write thread exit and joins it.  The    *)
(* write thread runs broker::update: pop a document, apply it, repeat, and *)
(* exit at a timeout of pop that finds m_do_exit set.                      *)
(*                                                                         *)
(* Documents are numbered in the order in which do_write pushes them.      *)
(* A pop that finds no document after its wait is undefined behaviour: the *)
(* write thread takes no step from there.  An exception of the document's  *)
(* conversion or of the database leaves the write thread and ends the      *)
(* process: no thread takes a step from there.                             *)
(***************************************************************************)
EXTENDS SizedQueue

CONSTANTS
  NumDocs,     \* bound: documents written in one opening
  MaxBatch,    \* bound: documents of one WRITE
  MaxOpens     \* bound: how often the processor is opened

ASSUME WriteAssumption ==
  /\ Thread = {"writer", "io"}
  /\ NumDocs \in Nat
  /\ MaxBatch \in Nat
  /\ MaxOpens \in Nat

VARIABLES
  do_exit, connected,   \* the broker's flags
  ulock,       \* whether m_update_done_mutex is locked
  writer,      \* where the write thread is
  current,     \* the document it has popped and not yet applied, if any
  io,          \* where the io thread is
  tmp,         \* do_write's vector
  opens,       \* history: how often the processor was opened
  offered,     \* history: documents of the WRITEs of this opening, as pushed
  applied      \* history: documents applied to the database in this opening

brokerVars == <<do_exit, connected>>
vars == <<queue, wait, brokerVars, ulock, writer, current, io, tmp, opens, offered,
          applied>>

Init ==
  /\ QueueInit
  /\ do_exit = FALSE /\ connected = FALSE
  /\ ulock = FALSE
  /\ writer = "none" /\ current = <<>>
  /\ io = "idle" /\ tmp = <<>>
  /\ opens = 0 /\ offered = <<>> /\ applied = <<>>

----------------------------------------------------------------------------
(* The write thread: broker::update.                                       *)

UpdateLock ==
  /\ writer = "lock"
  /\ ~ulock
  /\ ulock' = TRUE
  /\ writer' = "pop"
  /\ UNCHANGED <<queue, wait, brokerVars, current, io, tmp, opens, offered, applied>>

UpdatePop ==
  /\ writer = "pop"
  /\ \/ /\ PopBlock("writer")
        /\ UNCHANGED <<writer, current>>
     \/ /\ PopEnter("writer") \/ PopResume("writer")
        /\ current' = <<Head(queue)>>
        /\ writer' = "apply"
  /\ UNCHANGED <<brokerVars, ulock, io, tmp, opens, offered, applied>>

(* m_connection.update                                                     *)
UpdateApply ==
  /\ writer = "apply"
  /\ applied' = applied \o current
  /\ current' = <<>>
  /\ writer' = "pop"
  /\ UNCHANGED <<queue, wait, brokerVars, ulock, io, tmp, opens, offered>>

(* mongo::fromjson or m_connection.update throws: update catches only      *)
(* broker_timeout.                                                         *)
UpdateThrows ==
  /\ writer = "apply"
  /\ writer' = "crashed"
  /\ UNCHANGED <<queue, wait, brokerVars, ulock, current, io, tmp, opens, offered,
                 applied>>

(* pop(3) throws broker_timeout                                            *)
UpdateTimeout ==
  /\ writer = "pop"
  /\ PopTimeout("writer")
  /\ writer' = "caught"
  /\ UNCHANGED <<brokerVars, ulock, current, io, tmp, opens, offered, applied>>

(* Mutants: a timeout ends the thread whether or not it was told to exit;  *)
(* the exiting thread keeps the mutex.                                     *)
UpdateGiveUp ==
  /\ writer = "caught"
  /\ writer' = "exited"
  /\ ulock' = FALSE
  /\ UNCHANGED <<queue, wait, brokerVars, current, io, tmp, opens, offered, applied>>

UpdateKeepLock ==
  /\ writer = "caught"
  /\ writer' = IF do_exit THEN "exited" ELSE "pop"
  /\ UNCHANGED <<queue, wait, brokerVars, ulock, current, io, tmp, opens, offered,
                 applied>>

(* The handler: break out of the loop when m_do_exit is set.  Leaving      *)
(* update releases m_update_done_mutex and ends the thread.                *)
UpdateCaught ==
  /\ writer = "caught"
  /\ writer' = IF do_exit THEN "exited" ELSE "pop"
  /\ ulock' = ~do_exit
  /\ UNCHANGED <<queue, wait, brokerVars, current, io, tmp, opens, offered, applied>>

WriterStep ==
  \/ UpdateLock \/ UpdatePop \/ UpdateApply \/ UpdateThrows
  \/ UpdateTimeout \/ UpdateCaught

----------------------------------------------------------------------------
(* The io thread, as long as the process runs.                             *)

Running == writer # "crashed"

(* Mutant: init does not clear the queue of the previous opening.          *)
OpenUncleared ==
  /\ io = "idle"
  /\ ~connected
  /\ opens < MaxOpens
  /\ connected' = TRUE
  /\ writer' = "lock"
  /\ opens' = opens + 1
  /\ offered' = <<>> /\ applied' = <<>>
  /\ UNCHANGED <<queue, wait, do_exit, ulock, current, io, tmp>>

(* broker::open: init reads the options and empties the queue.             *)
Connect ==
  /\ Clear
  /\ connected' = TRUE

(* OPEN: connect, and start the write thread.                             *)
Open ==
  /\ io = "idle"
  /\ ~connected
  /\ opens < MaxOpens
  /\ Connect
  /\ writer' = "lock"
  /\ opens' = opens + 1
  /\ offered' = <<>> /\ applied' = <<>>
  /\ UNCHANGED <<do_exit, ulock, current, io, tmp>>

(* WRITE: the n documents of the request go into tmp, the last one is to   *)
(* be pushed first.                                                        *)
Write ==
  /\ Running
  /\ io = "idle"
  /\ connected
  /\ \E n \in 0..MaxBatch :
       LET new == [i \in 1..n |-> Len(offered) + i]
       IN  /\ Len(offered) + n <= NumDocs
           /\ tmp' = Reverse(new)
           /\ offered' = offered \o new
  /\ io' = "write"
  /\ UNCHANGED <<queue, wait, brokerVars, ulock, writer, current, opens, applied>>

(* while( tmp.size() > 0 ) m_write_broker.push(tmp)                        *)
WritePush ==
  /\ Running
  /\ io = "write"
  /\ tmp # <<>>
  /\ \/ PushBlock("io") /\ UNCHANGED tmp
     \/ /\ PushEnter("io", tmp) \/ PushResume("io", tmp)
        /\ tmp' = Kept(tmp, Moved(tmp))
  /\ UNCHANGED <<brokerVars, ulock, writer, current, io, opens, offered, applied>>

WriteReply ==
  /\ Running
  /\ io = "write"
  /\ tmp = <<>>
  /\ io' = "idle"
  /\ UNCHANGED <<queue, wait, brokerVars, ulock, writer, current, tmp, opens, offered,
                 applied>>

(* term: set_exit,                                                         *)
Term ==
  /\ Running
  /\ io = "idle"
  /\ connected
  /\ do_exit' = TRUE
  /\ io' = "await"
  /\ UNCHANGED <<queue, wait, connected, ulock, writer, current, tmp, opens, offered,
                 applied>>

(* wait_update_done: lock m_update_done_mutex and unlock it,               *)
WaitUpdateDone ==
  /\ io = "await"
  /\ ~ulock
  /\ io' = "join"
  /\ UNCHANGED <<queue, wait, brokerVars, ulock, writer, current, tmp, opens, offered,
                 applied>>

(* then the thread is joined and the broker reset.                         *)
TermJoin ==
  /\ io = "join"
  /\ writer = "exited"
  /\ writer' = "none"
  /\ io' = "idle"
  /\ do_exit' = FALSE /\ connected' = FALSE
  /\ UNCHANGED <<queue, wait, ulock, current, tmp, opens, offered, applied>>

IoStep == WritePush \/ WriteReply \/ WaitUpdateDone \/ TermJoin

Next == Open \/ Write \/ Term \/ WriterStep \/ IoStep

Spec == Init /\ [][Next]_vars

(* Both threads are scheduled, and a timed wait ends.                      *)
FairSpec == Spec /\ WF_vars(WriterStep) /\ WF_vars(IoStep)

----------------------------------------------------------------------------
(* Properties.                                                             *)

(* The state has its shape, and m_update_done_mutex is locked exactly      *)
(* while broker::update runs (or has ended the process).                   *)
WriteTypeOK ==
  /\ queue \in Seq(1..NumDocs)
  /\ wait \in [Thread -> WaitState]
  /\ {do_exit, connected} \subseteq BOOLEAN
  /\ writer \in {"none", "lock", "pop", "apply", "caught", "exited", "crashed"}
  /\ ulock = (writer \in {"pop", "apply", "caught", "crashed"})
  /\ current \in Seq(1..NumDocs)
  /\ io \in {"idle", "write", "await", "join"}
  /\ tmp \in Seq(1..NumDocs)
  /\ opens \in 0..MaxOpens
  /\ offered \in Seq(1..NumDocs)
  /\ applied \in Seq(1..NumDocs)

(* The documents written in this opening are applied once each and in the  *)
(* order in which they were pushed, whatever the queue's size cuts a       *)
(* request into, and none left over from an earlier opening is among them. *)
AppliedInOrder ==
  opens > 0 => applied \o current \o queue \o Reverse(tmp) = offered

(* The write thread, coming back from its wait in pop, finds a document,   *)
(* although do_write pushes a request in pieces and notifies it before     *)
(* each wait for room.                                                     *)
WritePopFindsItem == ~PopUndefined("writer")

(* A wait of the write thread that ends after set_exit ends with every     *)
(* document applied: term loses documents (AllWrittenAtTerm) only to a     *)
(* wait that had ended before set_exit, when its handler comes to test     *)
(* m_do_exit after it.                                                     *)
LateTimeoutLosesNothing ==
  [][do_exit /\ writer = "pop" /\ writer' = "caught" => applied' = offered']_vars

(* Every WRITE is answered, unless the process ends: the write thread      *)
(* makes room.                                                             *)
WriteAnswered == (io = "write") ~> (io = "idle" \/ ~Running)

(* Every term comes to its end: the write thread empties the queue, then   *)
(* times out, sees m_do_exit and exits; unless the process ends.           *)
WriteTermEnds == do_exit ~> (~do_exit \/ ~Running)

(* Every document written is applied, unless term comes first or the       *)
(* process ends.                                                           *)
EventuallyApplied ==
  \A d \in 1..NumDocs :
    (d \in ToSet(offered)) ~> (d \in ToSet(applied) \/ do_exit \/ ~connected \/ ~Running)

----------------------------------------------------------------------------
(* What the tests say, and the code does not do.                           *)

(* When term has returned, every document written has been applied.        *)
AllWrittenAtTerm == (opens > 0 /\ ~connected) => applied = offered
=============================================================================
