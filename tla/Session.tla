------------------------------ MODULE Session -------------------------------
(***************************************************************************)
(* Documents on their way from a read processor to the clients that share  *)
(* it: the packets of src/request_packet.hpp and .cc on the server's side  *)
(* and of rb/lib/zbroker/packet.rb and proxy.rb on the client's, over one  *)
(* TCP connection for each client.  What a READ takes out of the broker is *)
(* a step of Cursor, which ReadBroker implements.                          *)
(*                                                                         *)
(* Packets are lengths.  The header is a decimal number, right-aligned in  *)
(* HeaderSize characters, and counts the packet id and the body: in bytes  *)
(* on the server's side, in characters on the client's (String#size).  The *)
(* body of a response grows by DocSize with every document in it.  Clients *)
(* open the same options, READ one batch after the other, and may be cut   *)
(* off.                                                                    *)
(***************************************************************************)
EXTENDS Naturals, Sequences, FiniteSets

CONSTANTS
  Doc,            \* the documents of the collection, as in Cursor
  Client,         \* the clients, each with its connection
  HeaderSize,     \* header_length, Limit::HeaderSize
  PacketIdSize,   \* packet_id_length, Limit::PacketIdSize
  OpenSize, ReadSize,   \* the bytes of the bodies of OPEN and READ,
  OpenChars,      \* the characters of that of OPEN, which holds the options (READ
                  \* is ASCII),
  AnswerSize,     \* the bytes of a response without documents,
  DocSize,        \* and what a document adds to it
  MaxBodyLength,  \* max_body_length
  MaxReads,       \* bound: READs of a client
  ShortRecv       \* whether recv of a header may return less than it is asked for

ASSUME SessionAssumption ==
  /\ IsFiniteSet(Doc) /\ IsFiniteSet(Client)
  /\ HeaderSize \in Nat \ {0} /\ PacketIdSize \in Nat
  /\ OpenSize \in Nat /\ ReadSize \in Nat /\ AnswerSize \in Nat
  /\ OpenChars \in 0..OpenSize
  /\ DocSize \in Nat /\ MaxBodyLength \in Nat /\ MaxReads \in Nat
  /\ PacketIdSize + MaxBodyLength < 10^HeaderSize
  /\ ShortRecv \in BOOLEAN

(* A fact of arithmetic that proofs about decoding a header need.          *)
ASSUME PowersPositive == \A k \in 0..HeaderSize : 10^k \in Nat \ {0}

VARIABLES
  collection, credit,   \* the broker, as in Cursor
  fault,      \* what has ended the server, or blocked its io thread for good
  holders,    \* the clients whose connections have the processor open
  client,     \* where each client is
  packet_id,  \* the length of its @packet_id; 0 is nil
  requests,   \* the commands it has sent and the server has not processed
  arrived,    \* the bytes of them that reach the server
  header,     \* the number in the header of the last response to it
  unread,     \* the bytes of responses to it that it has not read
  size,       \* recv_packet's size
  carried,    \* the documents in those bytes
  received,   \* history: the documents it has got since the processor was opened
  lost,       \* history: those that nobody gets: their client is gone or confused,
              \* or the READ that popped them never returns
  refused,    \* history: those that made a response too long
  short,      \* history: the clients that got only a part of a header
  reads       \* history: how many READs each has sent

Broker == INSTANCE Cursor

brokerVars == <<collection, credit>>
sockets == <<requests, arrived, header, unread>>
proxyVars == <<client, packet_id, size, reads>>
docVars == <<carried, received, lost, refused>>
vars == <<brokerVars, fault, holders, sockets, proxyVars, docVars, short>>

Init ==
  /\ Broker!Init
  /\ fault = "none"
  /\ holders = {}
  /\ client = [c \in Client |-> "new"]
  /\ packet_id = [c \in Client |-> 0]
  /\ requests = [c \in Client |-> <<>>]
  /\ arrived = [c \in Client |-> 0]
  /\ header = [c \in Client |-> 0]
  /\ unread = [c \in Client |-> 0]
  /\ size = [c \in Client |-> 0]
  /\ carried = [c \in Client |-> {}]
  /\ received = [c \in Client |-> {}]
  /\ lost = {} /\ refused = {} /\ short = {}
  /\ reads = [c \in Client |-> 0]

----------------------------------------------------------------------------
(* Packets.                                                                *)

(* The number in a header (out_packet::pack, Packet#encode_header).        *)
Declared(body) == PacketIdSize + body

(* Mutant: the id's length is taken off, also from a part of a header.     *)
DecodedBody(number, k) == (number \div 10^(HeaderSize - k)) - PacketIdSize

(* What decoding makes of the first k characters of a header.              *)
Decoded(number, k) == number \div 10^(HeaderSize - k)

BodySize(cmd) == IF cmd = "OPEN" THEN OpenSize ELSE ReadSize
BodyChars(cmd) == IF cmd = "OPEN" THEN OpenChars ELSE ReadSize

(* Mutant: a line end is sent after the body.                              *)
RequestLine(cmd, id) == HeaderSize + id + BodySize(cmd) + 1

(* The bytes of a request.  Packet#packet_id= takes a shorter id as it is. *)
RequestLength(cmd, id) == HeaderSize + id + BodySize(cmd)

(* The response to a READ that popped docs, if it is not too long.         *)
ResponseBody(docs) == AnswerSize + DocSize * Cardinality(docs)

TooLong(docs) == ResponseBody(docs) >= MaxBodyLength

----------------------------------------------------------------------------
(* The clients.                                                            *)

Send(c, cmd, id) ==
  /\ requests' = [requests EXCEPT ![c] = Append(@, cmd)]
  /\ arrived' = [arrived EXCEPT ![c] = @ + RequestLength(cmd, id)]
  /\ UNCHANGED <<header, unread>>

(* Proxy#open: the packet id of a new packet is x, repeated.               *)
ClientOpen(c) ==
  /\ client[c] = "new"
  /\ Send(c, "OPEN", PacketIdSize)
  /\ client' = [client EXCEPT ![c] = "waiting"]
  /\ UNCHANGED <<brokerVars, fault, holders, packet_id, size, reads, docVars, short>>

(* Proxy#read; a client whose last answer was an exception may call it too, *)
(* and does not wait in step with the server any more.                     *)
ClientRead(c) ==
  /\ client[c] \in {"ready", "confused"}
  /\ reads[c] < MaxReads
  /\ reads' = [reads EXCEPT ![c] = @ + 1]
  /\ Send(c, "READ", packet_id[c])
  /\ client' = [client EXCEPT ![c] = IF @ = "ready" THEN "waiting" ELSE @]
  /\ UNCHANGED <<brokerVars, fault, holders, packet_id, size, docVars, short>>

(* recv_packet: one recv for the header, which may return a part of it.    *)
RecvHeader(c) ==
  /\ client[c] = "waiting"
  /\ unread[c] > 0
  /\ \E k \in IF ShortRecv THEN 1..HeaderSize ELSE {HeaderSize} :
       /\ unread' = [unread EXCEPT ![c] = @ - k]
       /\ size' = [size EXCEPT ![c] = Decoded(header[c], k)]
       /\ short' = IF k < HeaderSize THEN short \cup {c} ELSE short
  /\ client' = [client EXCEPT ![c] = "body"]
  /\ UNCHANGED <<brokerVars, fault, holders, requests, arrived, header, packet_id, reads,
                 docVars>>

(* Its loop for the body, and what the caller makes of it: a packet, or    *)
(* bytes that do not parse, an exception, and a stream out of step.  From  *)
(* then on what the client makes of its bytes is not followed.             *)
RecvBody(c) ==
  LET rest == unread[c] - size[c]
      docs == carried[c]
  IN  /\ client[c] = "body"
      /\ unread[c] >= size[c]
      /\ unread' = [unread EXCEPT ![c] = 0]
      /\ carried' = [carried EXCEPT ![c] = {}]
      /\ IF rest = 0
         THEN /\ client' = [client EXCEPT ![c] = "ready"]
              /\ packet_id' = [packet_id EXCEPT ![c] = PacketIdSize]
              /\ received' = [received EXCEPT ![c] = @ \cup docs]
              /\ UNCHANGED lost
         ELSE /\ client' = [client EXCEPT ![c] = "confused"]
              /\ lost' = lost \cup docs
              /\ UNCHANGED <<packet_id, received>>
      /\ UNCHANGED <<brokerVars, fault, holders, requests, arrived, header, size, reads,
                     refused, short>>

(* A client exits or is cut off: the end of what it has sent, and all that *)
(* it has not read, may be lost.                                           *)
ClientGone(c) ==
  /\ client[c] \notin {"new", "gone"}
  /\ client' = [client EXCEPT ![c] = "gone"]
  /\ \E n \in 0..arrived[c] : arrived' = [arrived EXCEPT ![c] = n]
  /\ unread' = [unread EXCEPT ![c] = 0]
  /\ carried' = [carried EXCEPT ![c] = {}]
  /\ lost' = lost \cup carried[c]
  /\ UNCHANGED <<brokerVars, fault, holders, requests, header, packet_id, size, reads,
                 received, refused, short>>

----------------------------------------------------------------------------
(* The server, whose handlers of a request are one step here.              *)

(* The bytes that the server takes for the next request, by its header,    *)
(* and whether they are that request.                                      *)
Awaited(c) == HeaderSize + Declared(BodyChars(Head(requests[c])))
IdSent(c) == IF Head(requests[c]) = "OPEN" THEN PacketIdSize ELSE packet_id[c]
WellFormed(c) == RequestLength(Head(requests[c]), IdSent(c)) = Awaited(c)

(* An exception leaves io_service.run and ends the server.                 *)
Throws(how) ==
  /\ fault' = how
  /\ UNCHANGED <<brokerVars, holders, sockets, docVars>>

(* Mutants: the header leaves the packet id out; it counts itself; it is   *)
(* that of the first response.                                             *)
RespondUncounted(c, body, docs) ==
  IF client[c] = "waiting"
  THEN /\ header' = [header EXCEPT ![c] = body]
       /\ unread' = [unread EXCEPT ![c] = @ + HeaderSize + PacketIdSize + body]
       /\ carried' = [carried EXCEPT ![c] = docs]
  ELSE UNCHANGED <<header, unread, carried>>

RespondCountedTwice(c, body, docs) ==
  IF client[c] = "waiting"
  THEN /\ header' = [header EXCEPT ![c] = HeaderSize + Declared(body)]
       /\ unread' = [unread EXCEPT ![c] = @ + HeaderSize + PacketIdSize + body]
       /\ carried' = [carried EXCEPT ![c] = docs]
  ELSE UNCHANGED <<header, unread, carried>>

RespondPackedOnce(c, body, docs) ==
  IF client[c] = "waiting"
  THEN /\ header' = [header EXCEPT ![c] = IF @ = 0 THEN Declared(body) ELSE @]
       /\ unread' = [unread EXCEPT ![c] = @ + HeaderSize + PacketIdSize + body]
       /\ carried' = [carried EXCEPT ![c] = docs]
  ELSE UNCHANGED <<header, unread, carried>>

(* The response is packed and sent, to whoever is there to read it.        *)
Respond(c, body, docs) ==
  IF client[c] = "waiting"
  THEN /\ header' = [header EXCEPT ![c] = Declared(body)]
       /\ unread' = [unread EXCEPT ![c] = @ + HeaderSize + PacketIdSize + body]
       /\ carried' = [carried EXCEPT ![c] = docs]
  ELSE UNCHANGED <<header, unread, carried>>

(* Mutant: every OPEN starts the documents anew.                           *)
ServeOpenAnew(c) ==
  /\ holders' = holders \cup {c}
  /\ Broker!Open
  /\ Respond(c, AnswerSize, {})
  /\ UNCHANGED <<received, lost, refused>>

(* OPEN: the first holder opens the broker, and the documents start anew.  *)
ServeOpen(c) ==
  /\ holders' = holders \cup {c}
  /\ Respond(c, AnswerSize, {})
  /\ IF holders = {}
     THEN /\ Broker!Open
          /\ received' = [d \in Client |-> {}]
          /\ lost' = {} /\ refused' = {}
     ELSE UNCHANGED <<brokerVars, received, lost, refused>>

(* The first OPEN throws when broker::open gets no database connection.    *)
OpenThrows == holders = {} /\ Throws("open")

(* READ: a batch is popped, empty when there is nothing to pop; and then   *)
(* its response made.                                                      *)
ServeRead(c) ==
  \E docs \in SUBSET {d \in collection : credit[d] > 0} :
    /\ credit' = [d \in Doc |-> IF d \in docs THEN credit[d] - 1 ELSE credit[d]]
    /\ Broker!Take
    /\ IF TooLong(docs)
       THEN /\ Respond(c, AnswerSize, {})
            /\ refused' = refused \cup docs
            /\ UNCHANGED lost
       ELSE /\ Respond(c, ResponseBody(docs), docs)
            /\ lost' = IF client[c] = "waiting" THEN lost ELSE lost \cup docs
            /\ UNCHANGED refused
    /\ UNCHANGED <<holders, received>>

(* READ does not return: batch_pop waits for ever, with what it has popped *)
(* so far.                                                                 *)
ReadBlocks ==
  \E docs \in SUBSET {d \in collection : credit[d] > 0} :
    /\ credit' = [d \in Doc |-> IF d \in docs THEN credit[d] - 1 ELSE credit[d]]
    /\ Broker!Take
    /\ lost' = lost \cup docs
    /\ fault' = "blocked"
    /\ UNCHANGED <<holders, sockets, carried, received, refused>>

(* The request is processed, and its answer sent.                          *)
Serve(c) ==
  /\ WellFormed(c)
  /\ \/ Head(requests[c]) = "OPEN" /\ ServeOpen(c)
     \/ Head(requests[c]) = "READ" /\ ServeRead(c)
  /\ requests' = [requests EXCEPT ![c] = Tail(@)]
  /\ arrived' = [arrived EXCEPT ![c] = @ - Awaited(c)]
  /\ UNCHANGED fault

(* Header and body are there: the request is processed, or it is not, and  *)
(* then none is any more: what was taken for it does not parse, its OPEN   *)
(* fails, or its READ never returns.                                       *)
HandleRequest(c) ==
  /\ fault = "none"
  /\ requests[c] # <<>>
  /\ arrived[c] >= Awaited(c)
  /\ \/ Serve(c)
     \/ WellFormed(c) /\ Head(requests[c]) = "OPEN" /\ OpenThrows
     \/ WellFormed(c) /\ Head(requests[c]) = "READ" /\ ReadBlocks
     \/ ~WellFormed(c) /\ Throws("parse")
  /\ UNCHANGED <<proxyVars, short>>

(* No header any more: the connection gives its processor back, and the    *)
(* term of the last one may block.  No body: throw error.                  *)
HandleError(c) ==
  /\ fault = "none"
  /\ client[c] = "gone"
  /\ requests[c] # <<>> => arrived[c] < Awaited(c)
  /\ \/ /\ arrived[c] < HeaderSize
        /\ c \in holders
        /\ holders' = holders \ {c}
        /\ \/ UNCHANGED fault
           \/ holders = {c} /\ fault' = "blocked"
        /\ UNCHANGED <<brokerVars, sockets, docVars>>
     \/ arrived[c] >= HeaderSize /\ Throws("body")
  /\ UNCHANGED <<proxyVars, short>>

(* The read thread ends the process, by an exception of the database that  *)
(* nobody catches.                                                         *)
ThreadThrows ==
  /\ fault = "none"
  /\ holders # {}
  /\ Throws("thread")
  /\ UNCHANGED <<proxyVars, short>>

(* Somebody adds a document to the collection.                             *)
Insert ==
  /\ Broker!Insert
  /\ UNCHANGED <<fault, holders, sockets, proxyVars, docVars, short>>

Receive(c) == RecvHeader(c) \/ RecvBody(c)
Handle(c) == HandleRequest(c) \/ HandleError(c)

Next ==
  \/ Insert \/ ThreadThrows
  \/ \E c \in Client :
       ClientOpen(c) \/ ClientRead(c) \/ ClientGone(c) \/ Receive(c) \/ Handle(c)

(* The io thread runs every handler that is due, and a client that has     *)
(* bytes to read reads them.                                               *)
Spec ==
  /\ Init /\ [][Next]_vars
  /\ \A c \in Client : WF_vars(Receive(c)) /\ WF_vars(Handle(c))

----------------------------------------------------------------------------
(* Properties.                                                             *)

SessionTypeOK ==
  /\ collection \subseteq Doc
  /\ credit \in [Doc -> 0..1]
  /\ fault \in {"none", "open", "parse", "body", "thread", "blocked"}
  /\ holders \subseteq Client
  /\ client \in [Client -> {"new", "waiting", "body", "ready", "confused", "gone"}]
  /\ packet_id \in [Client -> {0, PacketIdSize}]
  /\ requests \in [Client -> Seq({"OPEN", "READ"})]
  /\ \A f \in {arrived, header, unread, size, reads} : f \in [Client -> Nat]
  /\ carried \in [Client -> SUBSET Doc]
  /\ received \in [Client -> SUBSET Doc]
  /\ lost \subseteq Doc /\ refused \subseteq Doc
  /\ short \subseteq Client

(* Both sides count the same bytes: a client that has got its headers in   *)
(* one piece never reads anything but whole packets, and has read all of   *)
(* them when it sends its next request.                                    *)
InStep ==
  \A c \in Client \ short :
    /\ client[c] # "confused"
    /\ client[c] = "ready" => unread[c] = 0 /\ requests[c] = <<>>

(* While the processor is open every document is to be read, on its way to *)
(* one client, with one client, or lost to all of them: clients that come  *)
(* and disappear never get one twice, nor both.                            *)
OneReader ==
  holders # {} =>
    \A d \in Doc :
      credit[d]
      + Cardinality({c \in Client : d \in carried[c]})
      + Cardinality({c \in Client : d \in received[c]})
      + (IF d \in lost THEN 1 ELSE 0) + (IF d \in refused THEN 1 ELSE 0) = 1

(* A batch is lost although no response was too long only because a client *)
(* was cut off or got a part of a header, or the READ never returned.      *)
LossNeedsFailure ==
  lost # {} => short # {} \/ (\E c \in Client : client[c] = "gone") \/ fault = "blocked"

(* What clients do ends the server for all in two ways only, besides an    *)
(* OPEN that gets no database connection, an error of the database in the  *)
(* read thread and a call that never returns: a client is cut off in the   *)
(* middle of a request, or the bytes of a request are not what its header  *)
(* says, which takes options that are not ASCII or a client that got only  *)
(* a part of the header of the answer to its OPEN and goes on without a    *)
(* packet id.                                                              *)
FaultNeedsFailure ==
  /\ fault = "body" => \E c \in Client : client[c] = "gone"
  /\ fault = "parse" => OpenChars # OpenSize \/ \E c \in short : packet_id[c] = 0

(* A client that waits is answered, and what is sent to it arrives, unless *)
(* it gets a part of a header or goes itself, or the server ends for all:  *)
(* by an exception, or because the READ or the last disconnect of some     *)
(* client blocks the only io thread.                                       *)
Answered ==
  \A c \in Client :
    (client[c] \in {"waiting", "body"}) ~>
      (client[c] \in {"ready", "gone"} \/ c \in short \/ fault # "none")
=============================================================================
