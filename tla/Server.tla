------------------------------- MODULE Server -------------------------------
(***************************************************************************)
(* The server as its clients see it (src/asio_handler.cc, the commands and *)
(* the reference count of src/asio_processor.cc) and the Ruby client       *)
(* (rb/lib/zbroker/proxy.rb).  One io thread runs every handler to its     *)
(* end, so a handler is one step here.  What READ, WRITE and term do       *)
(* inside is the subject of ReadBroker and WriteBroker; here they return   *)
(* or do not, and then the io thread is blocked and nobody is served any   *)
(* more.                                                                   *)
(*                                                                         *)
(* A connection and the client at its other end have the same name.  The   *)
(* processor of an OPEN is found by the MD5 of its body, options and       *)
(* purpose together: a processor's id is that pair.                        *)
(***************************************************************************)
EXTENDS Integers, Sequences, FiniteSets

CONSTANTS
  Conn,         \* the connections, each with its client
  Options,      \* the options that clients open with, without the purpose
  MaxRequests,  \* bound: requests of a client after its OPEN
  Extra         \* what clients send besides the commands of the Ruby client

Purpose == {"Read", "Write"}
Command == {"OPEN", "CLOSE", "READ", "WRITE", "REWIND"}

ASSUME ServerAssumption ==
  /\ IsFiniteSet(Conn)
  /\ MaxRequests \in Nat
  /\ Extra \subseteq Command \cup {"unknown"}

Id == Options \X Purpose
NULL == <<>>

VARIABLES
  fault,      \* what has ended the server: nothing yet, an assertion, an exception,
              \* or a call that blocks the io thread for good
  reading,    \* the asynchronous read that a connection waits for
  processor,  \* m_processor
  opened,     \* m_processor_opened
  sending,    \* the response in m_send_buffer that is being sent
  refcount,   \* m_refcount of each processor
  connected,  \* the purposes for which a processor's broker is connected and
              \* has its thread
  client,     \* where each client is
  handle,     \* what each client opens
  stream,     \* the parts of its requests that the server has not read yet
  requests    \* history: how many requests it has made after its OPEN

ownerVars == <<processor, opened>>
connVars == <<reading, ownerVars, sending>>
procVars == <<refcount, connected>>
clientVars == <<client, handle, requests>>
vars == <<fault, connVars, procVars, clientVars, stream>>

(* A processor that find has not created yet is one that nobody has opened. *)
Init ==
  /\ fault = "none"
  /\ reading = [c \in Conn |-> "none"]
  /\ processor = [c \in Conn |-> NULL]
  /\ opened = [c \in Conn |-> FALSE]
  /\ sending = [c \in Conn |-> "none"]
  /\ refcount = [p \in Id |-> 0]
  /\ connected = [p \in Id |-> {}]
  /\ client = [c \in Conn |-> "new"]
  /\ handle = [c \in Conn |-> NULL]
  /\ stream = [c \in Conn |-> <<>>]
  /\ requests = [c \in Conn |-> 0]

----------------------------------------------------------------------------
(* io_service.run has not ended, and its thread is not blocked.            *)
Up == fault = "none"

----------------------------------------------------------------------------
(* The clients.  When the server has ended or is blocked nothing that they *)
(* do matters any more.                                                    *)

(* A request: its header, and its body with the command.                   *)
Packet(cmd) == <<"header", cmd>>

(* Proxy::open connects and sends OPEN.                                    *)
ClientOpen(c) ==
  /\ Up
  /\ client[c] = "new"
  /\ \E id \in Id : handle' = [handle EXCEPT ![c] = id]
  /\ stream' = [stream EXCEPT ![c] = Packet("OPEN")]
  /\ client' = [client EXCEPT ![c] = "waiting"]
  /\ UNCHANGED <<fault, connVars, procVars, requests>>

(* The commands of ReadProxy and of WriteProxy.                            *)
ProxyCommands(purpose) ==
  IF purpose = "Read" THEN {"READ", "REWIND"} ELSE {"WRITE"}

(* Mutant: the client does not wait for the answer to its last request.    *)
ClientPipeline(c) ==
  /\ Up
  /\ client[c] \in {"waiting", "ready"}
  /\ requests[c] < MaxRequests
  /\ requests' = [requests EXCEPT ![c] = @ + 1]
  /\ \E cmd \in ProxyCommands(handle[c][2]) \cup Extra :
       stream' = [stream EXCEPT ![c] = @ \o Packet(cmd)]
  /\ client' = [client EXCEPT ![c] = "waiting"]
  /\ UNCHANGED <<fault, connVars, procVars, handle>>

(* Proxy::read, write and rewind.  A client that sends CLOSE, which the    *)
(* Ruby client does not, sends nothing after it.                           *)
ClientSend(c) ==
  /\ Up
  /\ client[c] = "ready"
  /\ requests[c] < MaxRequests
  /\ requests' = [requests EXCEPT ![c] = @ + 1]
  /\ \E cmd \in ProxyCommands(handle[c][2]) \cup Extra :
       /\ stream' = [stream EXCEPT ![c] = @ \o Packet(cmd)]
       /\ client' = [client EXCEPT ![c] = IF cmd = "CLOSE" THEN "closing" ELSE "waiting"]
  /\ UNCHANGED <<fault, connVars, procVars, handle>>

(* Proxy::recv_packet: a client that waits has its answer, and goes on      *)
(* also when it is an error.                                               *)
ClientReceive(c) ==
  client' = [client EXCEPT ![c] = IF @ = "waiting" THEN "ready" ELSE @]

(* A client exits or is cut off: the tail of what it has sent may be lost. *)
ClientGone(c) ==
  /\ Up
  /\ client[c] \notin {"new", "gone"}
  /\ client' = [client EXCEPT ![c] = "gone"]
  /\ \E n \in 0..Len(stream[c]) :
       stream' = [stream EXCEPT ![c] = SubSeq(@, 1, n)]
  /\ UNCHANGED <<fault, connVars, procVars, handle, requests>>

ClientStep(c) == ClientOpen(c) \/ ClientSend(c) \/ ClientGone(c)

----------------------------------------------------------------------------
(* The processor: asio_processor::open, close and process.                 *)

(* An assertion that fails, or an exception that leaves io_service.run or  *)
(* another thread, ends the server; so does a call that never returns.     *)
Ends(how) ==
  /\ fault' = how
  /\ UNCHANGED <<ownerVars, sending, procVars>>

Reply(c, response) == sending' = [sending EXCEPT ![c] = response]

(* open: connects the broker and starts its thread unless that has been    *)
(* done, and counts the connection.                                        *)
ProcessorOpen(p, purpose) ==
  /\ connected' = [connected EXCEPT ![p] = @ \cup {purpose}]
  /\ refcount' = [refcount EXCEPT ![p] = @ + 1]

(* Mutants: close terminates at every call; close never terminates.        *)
ProcessorCloseAlways(p) ==
  /\ refcount' = [refcount EXCEPT ![p] = IF @ > 1 THEN @ - 1 ELSE 0]
  /\ connected' = [connected EXCEPT ![p] = {}]

ProcessorCloseOffByOne(p) ==
  IF refcount[p] > 0
  THEN refcount' = [refcount EXCEPT ![p] = @ - 1] /\ UNCHANGED connected
  ELSE UNCHANGED refcount /\ connected' = [connected EXCEPT ![p] = {}]

(* close: the last one runs term, which stops the threads and resets the   *)
(* brokers.                                                                *)
ProcessorClose(p) ==
  IF refcount[p] > 1
  THEN refcount' = [refcount EXCEPT ![p] = @ - 1] /\ UNCHANGED connected
  ELSE /\ refcount' = [refcount EXCEPT ![p] = 0]
       /\ connected' = [connected EXCEPT ![p] = {}]

(* The same when term does not return: its batch_pop waits for a read      *)
(* thread that has exited, or its pthread_join for one that waits.  The    *)
(* count is 0 by then, and all else is still as it was.                    *)
ProcessorCloseBlocks(p) ==
  /\ refcount[p] <= 1
  /\ "Read" \in connected[p]
  /\ refcount' = [refcount EXCEPT ![p] = 0]
  /\ fault' = "blocked"
  /\ UNCHANGED <<ownerVars, sending, connected>>

(* do_read answers with documents or without; documents that make the      *)
(* response too long are replaced by an error.                             *)
ReadResponse == {"OK", "NoMoreItem", "ResponseTooLong"}

(* parse_request accepts the numbers of the commands and two between them, *)
(* which process does not know either.                                     *)
Unknown(cmd) == cmd \notin Command

(* Every command but OPEN; a number that is no command is an exception.    *)
(* READ may wait in batch_pop for ever, when nothing times out there, and  *)
(* WRITE in push, when the queue has no room for a single document.        *)
ProcessorProcess(c, p, cmd) ==
  \/ /\ cmd = "CLOSE"
     /\ ProcessorClose(p)
     /\ Reply(c, "OK")
     /\ UNCHANGED <<fault, ownerVars>>
  \/ cmd = "CLOSE" /\ ProcessorCloseBlocks(p)
  \/ /\ cmd = "READ" /\ "Read" \in connected[p]
     /\ \/ /\ \E response \in ReadResponse : Reply(c, response)
           /\ UNCHANGED <<fault, ownerVars, procVars>>
        \/ Ends("blocked")
  \/ /\ cmd = "WRITE" /\ "Write" \in connected[p]
     /\ \/ /\ Reply(c, "OK")
           /\ UNCHANGED <<fault, ownerVars, procVars>>
        \/ Ends("blocked")
  \/ /\ \/ cmd = "READ" /\ "Read" \notin connected[p]
        \/ cmd = "WRITE" /\ "Write" \notin connected[p]
     /\ Ends("assertion")
  \/ /\ cmd = "REWIND"
     /\ Reply(c, "OK")
     /\ UNCHANGED <<fault, ownerVars, procVars>>
  \/ /\ Unknown(cmd)
     /\ Ends("exception")

----------------------------------------------------------------------------
(* The connection: connection::process and the handlers.                   *)

(* processors::find: OPEN names the processor.  The id of another packet   *)
(* is never unpacked, so that without OPEN the id is empty, which the      *)
(* constructor of a processor asserts it is not.                           *)
Find(c) == IF processor[c] = NULL THEN handle[c] ELSE processor[c]

(* Mutant: OPEN does not look at m_processor_opened.                       *)
ProcessOpenAgain(c) ==
  LET p == Find(c)
  IN  \/ /\ processor' = [processor EXCEPT ![c] = p]
         /\ opened' = [opened EXCEPT ![c] = TRUE]
         /\ ProcessorOpen(p, handle[c][2])
         /\ Reply(c, "OK")
         /\ UNCHANGED fault
      \/ handle[c][2] \notin connected[p] /\ Ends("exception")

(* OPEN, once: if the broker has to connect to the database, that may      *)
(* fail.                                                                   *)
ProcessOpen(c) ==
  LET p == Find(c)
  IN  \/ /\ opened[c]
         /\ Reply(c, "AlreadyOpen")
         /\ UNCHANGED <<fault, ownerVars, procVars>>
      \/ /\ ~opened[c]
         /\ processor' = [processor EXCEPT ![c] = p]
         /\ opened' = [opened EXCEPT ![c] = TRUE]
         /\ ProcessorOpen(p, handle[c][2])
         /\ Reply(c, "OK")
         /\ UNCHANGED fault
      \/ /\ ~opened[c]
         /\ handle[c][2] \notin connected[p]
         /\ Ends("exception")

Process(c, cmd) ==
  \/ cmd = "OPEN" /\ ProcessOpen(c)
  \/ cmd # "OPEN" /\ processor[c] = NULL /\ Ends("assertion")
  \/ cmd # "OPEN" /\ processor[c] # NULL /\ ProcessorProcess(c, processor[c], cmd)

(* handle_accept: the connection starts to read a header.                  *)
HandleAccept(c) ==
  /\ Up
  /\ reading[c] = "none"
  /\ client[c] # "new"
  /\ reading' = [reading EXCEPT ![c] = "header"]
  /\ UNCHANGED <<fault, ownerVars, sending, procVars, clientVars, stream>>

(* An accept that fails is not tried again: nobody is accepted any more.   *)
HandleAcceptError(c) ==
  /\ Up
  /\ reading[c] = "none"
  /\ client[c] # "new"
  /\ reading' = [d \in Conn |-> IF reading[d] = "none" THEN "refused" ELSE reading[d]]
  /\ UNCHANGED <<fault, ownerVars, sending, procVars, clientVars, stream>>

HandleReadHeader(c) ==
  /\ Up
  /\ reading[c] = "header"
  /\ stream[c] # <<>>
  /\ reading' = [reading EXCEPT ![c] = "body"]
  /\ stream' = [stream EXCEPT ![c] = Tail(@)]
  /\ UNCHANGED <<fault, ownerVars, sending, procVars, clientVars>>

(* Whether a read fails: the client is gone, and what it sent is read.     *)
EndOfFile(c) == client[c] = "gone" /\ stream[c] = <<>>

(* Mutant: m_processor keeps the processor it has closed.                  *)
HandleReadHeaderErrorKeep(c) ==
  /\ Up
  /\ reading[c] = "header"
  /\ EndOfFile(c)
  /\ reading' = [reading EXCEPT ![c] = "ended"]
  /\ IF processor[c] # NULL THEN ProcessorClose(processor[c]) ELSE UNCHANGED procVars
  /\ UNCHANGED <<fault, processor, opened, sending, clientVars, stream>>

(* The connection's reference is given back, and nothing is read again;    *)
(* m_processor is reset after close has returned.                          *)
HandleReadHeaderError(c) ==
  /\ Up
  /\ reading[c] = "header"
  /\ EndOfFile(c)
  /\ \/ /\ IF processor[c] # NULL THEN ProcessorClose(processor[c]) ELSE UNCHANGED procVars
        /\ processor' = [processor EXCEPT ![c] = NULL]
        /\ reading' = [reading EXCEPT ![c] = "ended"]
        /\ UNCHANGED <<fault, opened, sending>>
     \/ /\ processor[c] # NULL
        /\ ProcessorCloseBlocks(processor[c])
        /\ UNCHANGED reading
  /\ UNCHANGED <<clientVars, stream>>

(* Mutant: the next header is not read.                                    *)
HandleReadBodyOnce(c) ==
  /\ Up
  /\ reading[c] = "body"
  /\ stream[c] # <<>>
  /\ Process(c, Head(stream[c]))
  /\ reading' = [reading EXCEPT ![c] = "ended"]
  /\ stream' = [stream EXCEPT ![c] = Tail(@)]
  /\ UNCHANGED clientVars

(* The request is processed, its answer begins to be sent, and the next    *)
(* header is awaited.                                                      *)
HandleReadBody(c) ==
  /\ Up
  /\ reading[c] = "body"
  /\ stream[c] # <<>>
  /\ Process(c, Head(stream[c]))
  /\ reading' = [reading EXCEPT ![c] = "header"]
  /\ stream' = [stream EXCEPT ![c] = Tail(@)]
  /\ UNCHANGED clientVars

(* throw error                                                             *)
HandleReadBodyError(c) ==
  /\ Up
  /\ reading[c] = "body"
  /\ EndOfFile(c)
  /\ Ends("exception")
  /\ UNCHANGED <<reading, clientVars, stream>>

(* The answer has been sent, and handle_write only logs it.                *)
HandleWrite(c) ==
  /\ Up
  /\ sending[c] # "none"
  /\ sending' = [sending EXCEPT ![c] = "none"]
  /\ ClientReceive(c)
  /\ UNCHANGED <<fault, reading, ownerVars, procVars, handle, requests, stream>>

(* The answer cannot be sent: the socket is closed, so the pending read    *)
(* fails as well.                                                          *)
HandleWriteError(c) ==
  /\ Up
  /\ sending[c] # "none"
  /\ client[c] = "gone"
  /\ sending' = [sending EXCEPT ![c] = "none"]
  /\ stream' = [stream EXCEPT ![c] = <<>>]
  /\ UNCHANGED <<fault, reading, ownerVars, procVars, clientVars>>

(* What the io thread may run for a connection.                            *)
HandlerStep(c) ==
  \/ HandleAccept(c)
  \/ HandleReadHeader(c) \/ HandleReadHeaderError(c)
  \/ HandleReadBody(c) \/ HandleReadBodyError(c)
  \/ HandleWrite(c) \/ HandleWriteError(c)

(* The thread of a broker ends the process, by an exception of its         *)
(* database that nobody catches.                                           *)
ThreadThrows ==
  /\ Up
  /\ \E p \in Id : connected[p] # {}
  /\ Ends("exception")
  /\ UNCHANGED <<reading, clientVars, stream>>

Next ==
  \/ \E c \in Conn : ClientStep(c) \/ HandlerStep(c) \/ HandleAcceptError(c)
  \/ ThreadThrows

Spec == Init /\ [][Next]_vars

(* The io thread runs every handler that is due.                           *)
FairSpec == Spec /\ \A c \in Conn : WF_vars(HandlerStep(c))

----------------------------------------------------------------------------
(* Properties.                                                             *)

(* The state has its shape.  A connection has a processor from its OPEN    *)
(* until its end.                                                          *)
ServerTypeOK ==
  /\ fault \in {"none", "assertion", "exception", "blocked"}
  /\ reading \in [Conn -> {"none", "refused", "header", "body", "ended"}]
  /\ processor \in [Conn -> Id \cup {NULL}]
  /\ opened \in [Conn -> BOOLEAN]
  /\ sending \in [Conn -> ReadResponse \cup {"none", "AlreadyOpen"}]
  /\ refcount \in [Id -> 0..Cardinality(Conn)]
  /\ connected \in [Id -> SUBSET Purpose]
  /\ client \in [Conn -> {"new", "waiting", "ready", "closing", "gone"}]
  /\ handle \in [Conn -> Id \cup {NULL}]
  /\ stream \in [Conn -> Seq({"header", "unknown"} \cup Command)]
  /\ requests \in [Conn -> 0..MaxRequests]
  /\ \A c \in Conn : processor[c] # NULL <=> opened[c] /\ reading[c] # "ended"

(* The connections that have opened p and not ended.                       *)
Holders(p) == {c \in Conn : processor[c] = p}

HeldExactly ==
  \A p \in Id :
    /\ refcount[p] = Cardinality(Holders(p))
    /\ connected[p] = IF Holders(p) = {} THEN {} ELSE {p[2]}

(* m_refcount counts the connections that hold the processor, however they *)
(* come, repeat their OPEN, are cut off in the middle of a request or fail *)
(* to take their answer; and the brokers of a processor run exactly while  *)
(* somebody holds it.  A handler that never returns leaves its work half   *)
(* done, and there is no other handler after it to see that.               *)
RefcountExact == fault # "blocked" => HeldExactly

(* No request makes an assertion of the server fail: a command comes after *)
(* an OPEN, and READ and WRITE find their broker connected although other  *)
(* connections to the same processor have ended.                           *)
NoAssertion == fault # "assertion"

(* While an answer is being sent its connection has nothing to process     *)
(* that would reassign m_send_buffer.                                      *)
SendBufferStable ==
  \A c \in Conn : sending[c] # "none" => reading[c] # "body" /\ stream[c] = <<>>

(* Every request is answered, whatever the other clients do, unless its    *)
(* client goes, the connection is not accepted because an earlier accept   *)
(* has failed, or the server ends for all: by an exception or assertion,   *)
(* or because the READ, WRITE or last close of some client never returns   *)
(* and blocks the only io thread.                                          *)
Answered ==
  \A c \in Conn :
    (client[c] = "waiting") ~>
      (client[c] # "waiting" \/ fault # "none" \/ reading[c] = "refused")

(* A processor whose clients are all gone stops its brokers, whatever its  *)
(* clients had left unread or unsent, unless somebody opens it again, or   *)
(* the server ends, or a call blocks its io thread: the term of this very  *)
(* processor may, which ReadBroker shows.                                  *)
Used(p) == \E c \in Conn : handle[c] = p /\ client[c] # "gone"
BrokersStop ==
  \A p \in Id :
    (connected[p] # {} /\ ~Used(p)) ~> (connected[p] = {} \/ Used(p) \/ fault # "none")
=============================================================================
