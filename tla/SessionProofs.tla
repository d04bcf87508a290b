--------------------------- MODULE SessionProofs ---------------------------
(***************************************************************************)
(* Theorems about the packets between a read processor and the clients     *)
(* that share it, for any number of clients and documents, any sizes of    *)
(* headers, packet ids, bodies and documents, and any number of READs.     *)
(***************************************************************************)
EXTENDS Session, SequenceTheorems, FiniteSetTheorems, TLAPS

(* The commands of a client that has opened the processor.                 *)
Reads == Seq({"READ"})

----------------------------------------------------------------------------
(* The inductive invariant: where a client is tells what is on the way     *)
(* between it and the server, and what the server has made of it.          *)

(* A request is answered before the next one is sent, as long as the       *)
(* client is in step.                                                      *)
Waiting(c) ==
  \/ /\ requests[c] \in {<<"OPEN">>, <<"READ">>}
     /\ requests[c] = <<"READ">> => c \in holders /\ packet_id[c] = PacketIdSize
     /\ unread[c] = 0 /\ carried[c] = {}
  \/ requests[c] = <<>> /\ unread[c] = HeaderSize + header[c] /\ c \in holders

Dialogue(c) ==
  /\ client[c] = "new" => requests[c] = <<>> /\ unread[c] = 0 /\ carried[c] = {}
  /\ client[c] = "waiting" => Waiting(c)
  /\ client[c] = "body" => /\ requests[c] = <<>> /\ c \in holders
                           /\ c \notin short => unread[c] = size[c]
  /\ client[c] = "ready" => /\ requests[c] = <<>> /\ c \in holders /\ unread[c] = 0
                            /\ packet_id[c] = PacketIdSize /\ carried[c] = {}
  /\ client[c] = "confused" => /\ requests[c] \in Reads /\ c \in holders
                               /\ c \in short /\ carried[c] = {}
  /\ client[c] = "gone" => /\ \/ requests[c] = <<"OPEN">>
                              \/ /\ requests[c] \in Reads
                                 /\ c \in holders \/ arrived[c] < HeaderSize
                           /\ carried[c] = {}
                           /\ \/ requests[c] \in {<<>>, <<"OPEN">>}
                              \/ packet_id[c] = PacketIdSize \/ c \in short

Dialogues == \A c \in Client : Dialogue(c)

(* A request whose bytes were not what its header said came from a client  *)
(* that goes on without a packet id, or was the last of one, and stays so. *)
FaultCause ==
  /\ fault = "body" => \E c \in Client : client[c] = "gone"
  /\ fault = "parse" => \/ OpenChars # OpenSize
                        \/ \E c \in short : /\ client[c] \in {"confused", "gone"}
                                             /\ packet_id[c] = 0

Faults == {"none", "open", "parse", "body", "thread", "blocked"}

----------------------------------------------------------------------------
(* Packets.                                                                *)

LEMMA TypeParts ==
  SessionTypeOK <=>
    /\ collection \subseteq Doc /\ credit \in [Doc -> 0..1]
    /\ fault \in Faults /\ holders \subseteq Client
    /\ client \in [Client -> {"new", "waiting", "body", "ready", "confused", "gone"}]
    /\ packet_id \in [Client -> {0, PacketIdSize}]
    /\ requests \in [Client -> Seq({"OPEN", "READ"})]
    /\ arrived \in [Client -> Nat] /\ header \in [Client -> Nat]
    /\ unread \in [Client -> Nat] /\ size \in [Client -> Nat] /\ reads \in [Client -> Nat]
    /\ carried \in [Client -> SUBSET Doc] /\ received \in [Client -> SUBSET Doc]
    /\ lost \subseteq Doc /\ refused \subseteq Doc /\ short \subseteq Client
BY Zenon DEF SessionTypeOK, Faults

LEMMA SizesType ==
  /\ HeaderSize \in Nat /\ HeaderSize >= 1 /\ PacketIdSize \in Nat /\ AnswerSize \in Nat
  /\ \A cmd : BodySize(cmd) \in Nat /\ BodyChars(cmd) \in Nat
  /\ \A cmd : \A id \in Nat : RequestLength(cmd, id) \in Nat
  /\ \A docs \in SUBSET Doc : ResponseBody(docs) \in Nat
<1>1. /\ HeaderSize \in Nat /\ HeaderSize >= 1 /\ PacketIdSize \in Nat /\ AnswerSize \in Nat
      /\ OpenSize \in Nat /\ OpenChars \in Nat /\ ReadSize \in Nat /\ DocSize \in Nat
  BY SessionAssumption
<1>2. \A cmd : BodySize(cmd) \in Nat /\ BodyChars(cmd) \in Nat
  BY <1>1 DEF BodySize, BodyChars
<1>3. \A cmd : \A id \in Nat : RequestLength(cmd, id) \in Nat
  BY <1>1, <1>2 DEF RequestLength
<1>4. ASSUME NEW docs \in SUBSET Doc PROVE ResponseBody(docs) \in Nat
  <2>1. Cardinality(docs) \in Nat
    BY SessionAssumption, FS_Subset, FS_CardinalityType
  <2>2. DocSize * Cardinality(docs) \in Nat
    BY <1>1, <2>1
  <2> QED
    BY <1>1, <2>2 DEF ResponseBody
<1> QED
  BY <1>1, <1>2, <1>3, <1>4

(* Decoding a part of a header gives a number, and decoding all of it the  *)
(* one that was encoded.                                                   *)
LEMMA DecodedProperties ==
  ASSUME NEW n \in Nat, NEW k \in 1..HeaderSize
  PROVE  Decoded(n, k) \in Nat /\ (k = HeaderSize => Decoded(n, k) = n)
<1>0. HeaderSize \in Nat /\ k \in Nat /\ HeaderSize - k \in 0..HeaderSize
  BY SessionAssumption
<1> DEFINE p == 10^(HeaderSize - k)
<1>1. p \in Nat \ {0}
  BY <1>0, PowersPositive
<1>2. Decoded(n, k) = n \div p
  BY DEF Decoded
<1>3. k = HeaderSize => p = 1
  <2>1. 10^0 = 1
    OBVIOUS
  <2>2. k = HeaderSize => HeaderSize - k = 0
    BY <1>0
  <2> QED
    BY <2>1, <2>2
<1> HIDE DEF p
<1>4. n \div p \in Nat
  BY <1>1
<1>5. n \div 1 = n
  OBVIOUS
<1> QED
  BY <1>2, <1>3, <1>4, <1>5

(* What a recv of a header leaves.                                         *)
LEMMA HeaderRead ==
  ASSUME SessionTypeOK, Dialogues, NEW c \in Client, RecvHeader(c)
  PROVE  /\ requests[c] = <<>> /\ c \in holders
         /\ \E k \in 1..HeaderSize :
              /\ unread' = [unread EXCEPT ![c] = HeaderSize + header[c] - k]
              /\ size' = [size EXCEPT ![c] = Decoded(header[c], k)]
              /\ HeaderSize + header[c] - k \in Nat /\ Decoded(header[c], k) \in Nat
              /\ \/ k < HeaderSize /\ short' = short \cup {c}
                 \/ /\ k = HeaderSize /\ short' = short
                    /\ HeaderSize + header[c] - k = Decoded(header[c], k)
<1>0. HeaderSize \in Nat /\ HeaderSize >= 1 /\ header[c] \in Nat
  BY SizesType, TypeParts
<1>1. requests[c] = <<>> /\ c \in holders /\ unread[c] = HeaderSize + header[c]
  BY DEF Dialogues, Dialogue, Waiting, RecvHeader
<1>2. PICK k \in 1..HeaderSize :
        /\ unread' = [unread EXCEPT ![c] = @ - k]
        /\ size' = [size EXCEPT ![c] = Decoded(header[c], k)]
        /\ short' = IF k < HeaderSize THEN short \cup {c} ELSE short
  <2>1. (IF ShortRecv THEN 1..HeaderSize ELSE {HeaderSize}) \subseteq 1..HeaderSize
    BY <1>0
  <2> HIDE DEF Decoded
  <2> QED
    BY Zenon, <2>1 DEF RecvHeader
<1>3. /\ HeaderSize + header[c] - k \in Nat
      /\ k = HeaderSize => HeaderSize + header[c] - k = header[c]
  BY <1>0
<1>4. Decoded(header[c], k) \in Nat /\ (k = HeaderSize => Decoded(header[c], k) = header[c])
  BY <1>0, DecodedProperties
<1>5. unread' = [unread EXCEPT ![c] = HeaderSize + header[c] - k]
  <2>1. unread[c] - k = HeaderSize + header[c] - k
    BY <1>0, <1>1
  <2> QED
    BY Zenon, <1>2, <2>1
<1>6. CASE k < HeaderSize
  BY <1>1, <1>2, <1>3, <1>4, <1>5, <1>6
<1>7. CASE ~(k < HeaderSize)
  <2>1. k = HeaderSize
    BY <1>0, <1>7
  <2> QED
    BY <1>1, <1>2, <1>3, <1>4, <1>5, <1>7, <2>1
<1> QED
  BY <1>6, <1>7

(* The first request of a client, and those behind it.                     *)
LEMMA NextRequest ==
  ASSUME SessionTypeOK, NEW c \in Client, requests[c] # <<>>
  PROVE  /\ Head(requests[c]) \in {"OPEN", "READ"}
         /\ Tail(requests[c]) \in Seq({"OPEN", "READ"})
         /\ requests[c] \in Reads => Head(requests[c]) = "READ" /\ Tail(requests[c]) \in Reads
         /\ Awaited(c) \in Nat /\ Awaited(c) >= HeaderSize
<1>1. requests[c] \in Seq({"OPEN", "READ"})
  BY TypeParts
<1>2. /\ Head(requests[c]) \in {"OPEN", "READ"}
      /\ Tail(requests[c]) \in Seq({"OPEN", "READ"})
  BY <1>1, HeadTailProperties
<1>3. requests[c] \in Reads => Head(requests[c]) \in {"READ"} /\ Tail(requests[c]) \in Reads
  BY HeadTailProperties DEF Reads
<1>4. Awaited(c) \in Nat /\ Awaited(c) >= HeaderSize
  BY SizesType DEF Awaited, Declared
<1> QED
  BY <1>2, <1>3, <1>4

----------------------------------------------------------------------------
(* Types.                                                                  *)

LEMMA RespondType ==
  ASSUME SessionTypeOK, NEW c \in Client, NEW body \in Nat, NEW docs \in SUBSET Doc,
         Respond(c, body, docs)
  PROVE  /\ header' \in [Client -> Nat] /\ unread' \in [Client -> Nat]
         /\ carried' \in [Client -> SUBSET Doc]
<1>1. header \in [Client -> Nat] /\ unread \in [Client -> Nat] /\ carried \in [Client -> SUBSET Doc]
  BY TypeParts
<1>2. Declared(body) \in Nat /\ unread[c] + HeaderSize + PacketIdSize + body \in Nat
  BY <1>1, SizesType DEF Declared
<1> QED
  BY <1>1, <1>2 DEF Respond

LEMMA ServeType ==
  ASSUME SessionTypeOK, NEW c \in Client, Serve(c)
  PROVE  /\ collection' \subseteq Doc /\ credit' \in [Doc -> 0..1]
         /\ holders' \subseteq Client
         /\ header' \in [Client -> Nat] /\ unread' \in [Client -> Nat]
         /\ carried' \in [Client -> SUBSET Doc] /\ received' \in [Client -> SUBSET Doc]
         /\ lost' \subseteq Doc /\ refused' \subseteq Doc
<1>1. /\ collection \subseteq Doc /\ credit \in [Doc -> 0..1]
      /\ holders \subseteq Client
      /\ header \in [Client -> Nat] /\ unread \in [Client -> Nat]
      /\ carried \in [Client -> SUBSET Doc] /\ received \in [Client -> SUBSET Doc]
      /\ lost \subseteq Doc /\ refused \subseteq Doc
  BY TypeParts
<1>2. CASE ServeOpen(c)
  <2>1. /\ header' \in [Client -> Nat] /\ unread' \in [Client -> Nat]
        /\ carried' \in [Client -> SUBSET Doc]
    BY <1>2, RespondType, SizesType DEF ServeOpen
  <2>2. holders' \subseteq Client
    BY <1>1, <1>2 DEF ServeOpen
  <2>3. CASE holders = {}
    BY <1>1, <1>2, <2>1, <2>2, <2>3 DEF ServeOpen, Broker!Open
  <2>4. CASE holders # {}
    BY <1>1, <1>2, <2>1, <2>2, <2>4 DEF ServeOpen, brokerVars
  <2> QED
    BY <2>3, <2>4
<1>3. CASE ServeRead(c)
  <2>1. PICK docs \in SUBSET {d \in collection : credit[d] > 0} :
          /\ credit' = [d \in Doc |-> IF d \in docs THEN credit[d] - 1 ELSE credit[d]]
          /\ Broker!Take
          /\ IF TooLong(docs)
             THEN /\ Respond(c, AnswerSize, {})
                  /\ refused' = refused \cup docs
                  /\ UNCHANGED lost
             ELSE /\ Respond(c, ResponseBody(docs), docs)
                  /\ lost' = IF client[c] = "waiting" THEN lost ELSE lost \cup docs
                  /\ UNCHANGED refused
          /\ UNCHANGED <<holders, received>>
    BY <1>3 DEF ServeRead
  <2>2. docs \in SUBSET Doc /\ \A d \in docs : credit[d] > 0
    BY <1>1
  <2>3. credit' \in [Doc -> 0..1]
    BY <1>1, <2>1, <2>2
  <2>4. collection' = collection
    BY <2>1 DEF Broker!Take
  <2>5. \E ds \in SUBSET Doc : \E body \in Nat : Respond(c, body, ds)
    BY <2>1, <2>2, SizesType
  <2>6. /\ header' \in [Client -> Nat] /\ unread' \in [Client -> Nat]
        /\ carried' \in [Client -> SUBSET Doc]
    BY <2>5, RespondType
  <2> QED
    BY <1>1, <2>1, <2>2, <2>3, <2>4, <2>6
<1> QED
  BY <1>2, <1>3 DEF Serve

LEMMA TypeInductive ==
  ASSUME SessionTypeOK, Dialogues, [Next]_vars
  PROVE  SessionTypeOK'
<1>0. /\ collection \subseteq Doc /\ credit \in [Doc -> 0..1]
      /\ fault \in Faults /\ holders \subseteq Client
      /\ client \in [Client -> {"new", "waiting", "body", "ready", "confused", "gone"}]
      /\ packet_id \in [Client -> {0, PacketIdSize}]
      /\ requests \in [Client -> Seq({"OPEN", "READ"})]
      /\ arrived \in [Client -> Nat] /\ header \in [Client -> Nat]
      /\ unread \in [Client -> Nat] /\ size \in [Client -> Nat] /\ reads \in [Client -> Nat]
      /\ carried \in [Client -> SUBSET Doc] /\ received \in [Client -> SUBSET Doc]
      /\ lost \subseteq Doc /\ refused \subseteq Doc /\ short \subseteq Client
  BY TypeParts
<1>s. ASSUME NEW c \in Client, NEW cmd \in {"OPEN", "READ"}, NEW id \in {0, PacketIdSize},
             Send(c, cmd, id)
      PROVE  /\ requests' \in [Client -> Seq({"OPEN", "READ"})]
             /\ arrived' \in [Client -> Nat] /\ header' = header /\ unread' = unread
  <2>1. Append(requests[c], cmd) \in Seq({"OPEN", "READ"})
    BY <1>0, AppendProperties
  <2>2. arrived[c] + RequestLength(cmd, id) \in Nat
    <3>1. RequestLength(cmd, id) \in Nat
      BY SizesType
    <3> QED
      BY <1>0, <3>1
  <2> QED
    BY <1>0, <1>s, <2>1, <2>2 DEF Send
<1>1. CASE Insert
  <2>1. collection' \subseteq Doc /\ credit' = credit
    BY <1>0, <1>1 DEF Insert, Broker!Insert
  <2> QED
    BY <1>0, <1>1, <2>1 DEF Insert, sockets, proxyVars, docVars, SessionTypeOK, Faults
<1>1t. CASE ThreadThrows
  BY <1>0, <1>1t
     DEF ThreadThrows, Throws, brokerVars, sockets, proxyVars, docVars, SessionTypeOK, Faults
<1>2. ASSUME NEW c \in Client, ClientOpen(c) PROVE SessionTypeOK'
  <2>1. Send(c, "OPEN", PacketIdSize)
    BY <1>2 DEF ClientOpen
  <2> QED
    BY <1>0, <1>2, <1>s, <2>1 DEF ClientOpen, brokerVars, docVars, SessionTypeOK, Faults
<1>3. ASSUME NEW c \in Client, ClientRead(c) PROVE SessionTypeOK'
  <2>1. Send(c, "READ", packet_id[c]) /\ packet_id[c] \in {0, PacketIdSize}
    BY <1>0, <1>3 DEF ClientRead
  <2> QED
    BY <1>0, <1>3, <1>s, <2>1 DEF ClientRead, brokerVars, docVars, SessionTypeOK, Faults
<1>4. ASSUME NEW c \in Client, ClientGone(c) PROVE SessionTypeOK'
  <2>1. arrived' \in [Client -> Nat]
    BY <1>0, <1>4 DEF ClientGone
  <2> QED
    BY <1>0, <1>4, <2>1 DEF ClientGone, brokerVars, SessionTypeOK, Faults
<1>5. ASSUME NEW c \in Client, RecvHeader(c) PROVE SessionTypeOK'
  <2>1. unread' \in [Client -> Nat] /\ size' \in [Client -> Nat] /\ short' \subseteq Client
    <3>1. PICK n \in Nat, m \in Nat :
            /\ unread' = [unread EXCEPT ![c] = n] /\ size' = [size EXCEPT ![c] = m]
            /\ short' \in {short, short \cup {c}}
      BY Zenon, <1>5, HeaderRead
    <3> QED
      BY <1>0, <3>1
  <2> QED
    BY <1>0, <1>5, <2>1 DEF RecvHeader, brokerVars, docVars, SessionTypeOK, Faults
<1>6. ASSUME NEW c \in Client, RecvBody(c) PROVE SessionTypeOK'
  <2>1. carried[c] \subseteq Doc /\ received[c] \subseteq Doc
    BY <1>0
  <2>2. client' \in [Client -> {"new", "waiting", "body", "ready", "confused", "gone"}]
    BY <1>0, <1>6 DEF RecvBody
  <2>3. /\ packet_id' \in [Client -> {0, PacketIdSize}]
        /\ received' \in [Client -> SUBSET Doc] /\ lost' \subseteq Doc
    <3>1. \/ /\ packet_id' = [packet_id EXCEPT ![c] = PacketIdSize]
             /\ received' = [received EXCEPT ![c] = received[c] \cup carried[c]]
             /\ lost' = lost
          \/ packet_id' = packet_id /\ received' = received /\ lost' = lost \cup carried[c]
      BY Zenon, <1>6 DEF RecvBody
    <3>2. received[c] \cup carried[c] \in SUBSET Doc
      BY <2>1
    <3>3. CASE /\ packet_id' = [packet_id EXCEPT ![c] = PacketIdSize]
               /\ received' = [received EXCEPT ![c] = received[c] \cup carried[c]]
               /\ lost' = lost
      BY <1>0, <3>2, <3>3
    <3>4. CASE packet_id' = packet_id /\ received' = received /\ lost' = lost \cup carried[c]
      BY <1>0, <2>1, <3>4
    <3> QED
      BY <3>1, <3>3, <3>4
  <2> QED
    BY <1>0, <1>6, <2>2, <2>3 DEF RecvBody, brokerVars, SessionTypeOK, Faults
<1>7. ASSUME NEW c \in Client, HandleRequest(c) PROVE SessionTypeOK'
  <2>0. UNCHANGED <<client, packet_id, size, reads, short>>
    BY <1>7 DEF HandleRequest, proxyVars
  <2>1. CASE Serve(c)
    <3>1. requests[c] # <<>> /\ arrived[c] >= Awaited(c)
      BY <1>7 DEF HandleRequest
    <3>2. Tail(requests[c]) \in Seq({"OPEN", "READ"}) /\ arrived[c] - Awaited(c) \in Nat
      BY <1>0, <3>1, NextRequest
    <3>3. /\ requests' \in [Client -> Seq({"OPEN", "READ"})] /\ arrived' \in [Client -> Nat]
          /\ fault' = fault
      BY <1>0, <2>1, <3>2 DEF Serve
    <3> QED
      BY <1>0, <2>0, <2>1, <3>3, ServeType DEF SessionTypeOK, Faults
  <2>2. CASE ReadBlocks
    <3>1. PICK docs \in SUBSET {d \in collection : credit[d] > 0} :
            /\ credit' = [d \in Doc |-> IF d \in docs THEN credit[d] - 1 ELSE credit[d]]
            /\ Broker!Take
            /\ lost' = lost \cup docs
      BY <2>2 DEF ReadBlocks
    <3>2. credit' \in [Doc -> 0..1] /\ lost' \subseteq Doc /\ collection' = collection
      BY <1>0, <3>1 DEF Broker!Take
    <3>3. fault' \in Faults
      BY <2>2 DEF ReadBlocks, Faults
    <3>4. UNCHANGED <<holders, sockets, carried, received, refused>>
      BY <2>2 DEF ReadBlocks
    <3> QED
      BY <1>0, <2>0, <3>2, <3>3, <3>4 DEF sockets, SessionTypeOK, Faults
  <2>3. ASSUME NEW how \in Faults, Throws(how) PROVE SessionTypeOK'
    BY <1>0, <2>0, <2>3 DEF Throws, brokerVars, sockets, docVars, SessionTypeOK, Faults
  <2> QED
    BY <1>7, <2>1, <2>2, <2>3 DEF HandleRequest, OpenThrows, Faults
<1>8. ASSUME NEW c \in Client, HandleError(c) PROVE SessionTypeOK'
  <2>1. fault' \in Faults
    BY <1>0, <1>8 DEF HandleError, Throws, Faults
  <2>2. holders' \subseteq Client
    BY <1>0, <1>8 DEF HandleError, Throws
  <2>3. UNCHANGED <<brokerVars, sockets, docVars, proxyVars, short>>
    BY <1>8 DEF HandleError, Throws
  <2> QED
    BY <1>0, <2>1, <2>2, <2>3
       DEF brokerVars, sockets, proxyVars, docVars, SessionTypeOK, Faults
<1>9. CASE UNCHANGED vars
  BY <1>0, <1>9 DEF vars, brokerVars, sockets, proxyVars, docVars, SessionTypeOK, Faults
<1> QED
  BY <1>1, <1>1t, <1>2, <1>3, <1>4, <1>5, <1>6, <1>7, <1>8, <1>9 DEF Next, Receive, Handle

----------------------------------------------------------------------------
(* Every client's dialogue.                                                *)

(* A step that does not concern a client.                                  *)
Untouched(x) ==
  /\ client'[x] = client[x] /\ packet_id'[x] = packet_id[x] /\ requests'[x] = requests[x]
  /\ arrived'[x] = arrived[x] /\ header'[x] = header[x] /\ unread'[x] = unread[x]
  /\ size'[x] = size[x] /\ carried'[x] = carried[x]
  /\ x \in holders' <=> x \in holders
  /\ x \in short' <=> x \in short

LEMMA OneAtATime ==
  ASSUME SessionTypeOK, Dialogues, NEW c \in Client, NEW x \in Client, x # c,
         ClientOpen(c) \/ ClientRead(c) \/ ClientGone(c) \/ Receive(c) \/ Handle(c)
  PROVE  Untouched(x)
<1>0. /\ holders \subseteq Client /\ short \subseteq Client
      /\ client \in [Client -> {"new", "waiting", "body", "ready", "confused", "gone"}]
      /\ packet_id \in [Client -> {0, PacketIdSize}]
      /\ requests \in [Client -> Seq({"OPEN", "READ"})]
      /\ arrived \in [Client -> Nat] /\ header \in [Client -> Nat]
      /\ unread \in [Client -> Nat] /\ size \in [Client -> Nat]
      /\ carried \in [Client -> SUBSET Doc]
  BY TypeParts
<1>1. CASE ClientOpen(c)
  BY <1>0, <1>1 DEF ClientOpen, Send, docVars, Untouched
<1>2. CASE ClientRead(c)
  BY <1>0, <1>2 DEF ClientRead, Send, docVars, Untouched
<1>3. CASE ClientGone(c)
  BY <1>0, <1>3 DEF ClientGone, Untouched
<1>4. CASE RecvHeader(c)
  <2>1. \E n \in Nat, m \in Nat :
          /\ unread' = [unread EXCEPT ![c] = n] /\ size' = [size EXCEPT ![c] = m]
          /\ short' \in {short, short \cup {c}}
    BY Zenon, <1>4, HeaderRead
  <2> QED
    BY <1>0, <1>4, <2>1 DEF RecvHeader, docVars, Untouched
<1>5. CASE RecvBody(c)
  BY <1>0, <1>5 DEF RecvBody, Untouched
<1>6. CASE HandleRequest(c)
  <2>1. /\ UNCHANGED <<client, packet_id, size, short>>
        /\ requests'[x] = requests[x] /\ arrived'[x] = arrived[x]
    BY <1>0, <1>6
       DEF HandleRequest, Serve, OpenThrows, ReadBlocks, Throws, sockets, proxyVars
  <2>2. /\ header'[x] = header[x] /\ unread'[x] = unread[x] /\ carried'[x] = carried[x]
        /\ x \in holders' <=> x \in holders
    <3>1. ASSUME NEW body, NEW docs, Respond(c, body, docs)
          PROVE  header'[x] = header[x] /\ unread'[x] = unread[x] /\ carried'[x] = carried[x]
      BY <1>0, <3>1 DEF Respond
    <3>2. CASE ServeOpen(c)
      BY <3>1, <3>2 DEF ServeOpen
    <3>3. CASE ServeRead(c)
      BY <3>1, <3>3 DEF ServeRead
    <3>4. CASE UNCHANGED <<holders, sockets, carried>>
      BY <3>4 DEF sockets
    <3> QED
      BY <1>6, <3>2, <3>3, <3>4
         DEF HandleRequest, Serve, OpenThrows, ReadBlocks, Throws, docVars
  <2> QED
    BY <2>1, <2>2 DEF Untouched
<1>7. CASE HandleError(c)
  <2>1. x \in holders' <=> x \in holders
    BY <1>7 DEF HandleError, Throws
  <2> QED
    BY <1>7, <2>1 DEF HandleError, Throws, sockets, proxyVars, docVars, Untouched
<1> QED
  BY <1>1, <1>2, <1>3, <1>4, <1>5, <1>6, <1>7 DEF Receive, Handle

(* Who may have sent a request.                                            *)
LEMMA Requester ==
  ASSUME SessionTypeOK, Dialogues, NEW c \in Client, requests[c] # <<>>
  PROVE  client[c] \in {"waiting", "confused", "gone"} /\ carried[c] = {}
<1>1. client[c] \in {"new", "waiting", "body", "ready", "confused", "gone"} /\ Dialogue(c)
  BY TypeParts DEF Dialogues
<1> QED
  BY <1>1 DEF Dialogue, Waiting

(* What the server makes of the first request of a client.                 *)
LEMMA Served ==
  ASSUME SessionTypeOK, Dialogues, NEW c \in Client, HandleRequest(c), Serve(c)
  PROVE  /\ client[c] \in {"waiting", "confused", "gone"}
         /\ client[c] = "waiting" => /\ carried[c] = {}
                                     /\ requests'[c] = <<>> /\ c \in holders'
                                     /\ unread'[c] = HeaderSize + header'[c]
         /\ client[c] # "waiting" => unread' = unread /\ carried' = carried
         /\ requests[c] \in Reads => c \in holders /\ requests'[c] \in Reads
         /\ requests[c] = <<"OPEN">> => c \in holders' /\ requests'[c] = <<>>
         /\ holders \subseteq holders'
<1>0. /\ client[c] \in {"new", "waiting", "body", "ready", "confused", "gone"}
      /\ requests \in [Client -> Seq({"OPEN", "READ"})]
      /\ header \in [Client -> Nat] /\ unread \in [Client -> Nat] /\ arrived[c] \in Nat
      /\ carried \in [Client -> SUBSET Doc] /\ Dialogue(c)
      /\ requests[c] # <<>> /\ arrived[c] >= Awaited(c)
  BY TypeParts DEF Dialogues, HandleRequest
<1>1. client[c] \in {"waiting", "confused", "gone"}
  BY <1>0 DEF Dialogue
<1>2. /\ requests[c] \in Reads => Head(requests[c]) = "READ" /\ Tail(requests[c]) \in Reads
      /\ Awaited(c) \in Nat /\ Awaited(c) >= HeaderSize /\ HeaderSize \in Nat
  BY <1>0, NextRequest, SizesType
<1>3. requests'[c] = Tail(requests[c])
  BY <1>0 DEF Serve
<1>4. /\ Head(<<"OPEN">>) = "OPEN" /\ Tail(<<"OPEN">>) = <<>>
      /\ Head(<<"READ">>) = "READ" /\ Tail(<<"READ">>) = <<>>
  OBVIOUS
<1>5. holders \subseteq holders'
  <2>1. ServeOpen(c) \/ holders' = holders
    BY DEF Serve, ServeRead
  <2> QED
    BY <2>1 DEF ServeOpen
<1>6. requests[c] \in Reads => c \in holders
  <2>1. ~(arrived[c] < HeaderSize)
    BY <1>0, <1>2
  <2>2. <<"OPEN">> \notin Reads
    <3>1. ASSUME <<"OPEN">> \in Reads PROVE FALSE
      <4>1. Head(<<"OPEN">>) \in {"READ"}
        BY <3>1, HeadTailProperties DEF Reads
      <4> QED
        BY <1>4, <4>1
    <3> QED
      BY <3>1
  <2> QED
    BY <1>0, <1>1, <2>1, <2>2 DEF Dialogue, Waiting
<1>7. requests[c] = <<"OPEN">> => c \in holders' /\ requests'[c] = <<>>
  <2> SUFFICES ASSUME requests[c] = <<"OPEN">>
               PROVE  c \in holders' /\ requests'[c] = <<>>
    OBVIOUS
  <2>1. Head(requests[c]) = "OPEN" /\ requests'[c] = <<>>
    BY <1>3, <1>4
  <2>2. ServeOpen(c)
    BY <2>1 DEF Serve
  <2> QED
    BY <2>1, <2>2 DEF ServeOpen
<1>8. ASSUME NEW body \in Nat, NEW docs, Respond(c, body, docs)
      PROVE  /\ client[c] = "waiting" => unread'[c] = unread[c] + HeaderSize + header'[c]
             /\ client[c] # "waiting" => unread' = unread /\ carried' = carried
  <2>1. header'[c] = Declared(body) \/ client[c] # "waiting"
    BY <1>0, <1>8 DEF Respond
  <2> QED
    BY <1>0, <1>8, <2>1, SizesType DEF Respond, Declared
<1>9. \E body \in Nat : \E docs \in SUBSET Doc : Respond(c, body, docs)
  <2>1. CASE ServeOpen(c)
    BY <2>1, SizesType DEF ServeOpen
  <2>2. CASE ServeRead(c)
    <3>1. PICK docs \in SUBSET {d \in collection : credit[d] > 0} :
            Respond(c, AnswerSize, {}) \/ Respond(c, ResponseBody(docs), docs)
      BY <2>2 DEF ServeRead
    <3>2. docs \in SUBSET Doc
      BY TypeParts
    <3> QED
      BY <3>1, <3>2, SizesType
  <2> QED
    BY <2>1, <2>2 DEF Serve
<1>10. ASSUME client[c] = "waiting"
       PROVE  /\ carried[c] = {} /\ requests'[c] = <<>> /\ c \in holders'
              /\ unread'[c] = HeaderSize + header'[c]
  <2>1. /\ requests[c] \in {<<"OPEN">>, <<"READ">>}
        /\ requests[c] = <<"READ">> => c \in holders /\ packet_id[c] = PacketIdSize
        /\ unread[c] = 0 /\ carried[c] = {}
    BY <1>0, <1>10 DEF Dialogue, Waiting
  <2>2. c \in holders' /\ requests'[c] = <<>>
    BY <1>3, <1>4, <1>5, <1>7, <2>1
  <2>3. unread'[c] = 0 + HeaderSize + header'[c]
    BY <1>8, <1>9, <1>10, <2>1, <2>2
  <2>4. header'[c] \in Nat
    BY ServeType
  <2> QED
    BY <1>2, <2>1, <2>2, <2>3, <2>4
<1>11. client[c] # "waiting" => unread' = unread /\ carried' = carried
  BY <1>8, <1>9
<1> QED
  BY <1>1, <1>2, <1>3, <1>5, <1>6, <1>7, <1>10, <1>11

LEMMA DialogueInductive ==
  ASSUME SessionTypeOK, Dialogues, [Next]_vars
  PROVE  Dialogues'
<1> SUFFICES ASSUME NEW x \in Client PROVE Dialogue(x)'
  BY DEF Dialogues
<1>0. /\ holders \subseteq Client /\ short \subseteq Client
      /\ client \in [Client -> {"new", "waiting", "body", "ready", "confused", "gone"}]
      /\ packet_id \in [Client -> {0, PacketIdSize}]
      /\ requests \in [Client -> Seq({"OPEN", "READ"})]
      /\ arrived \in [Client -> Nat] /\ header \in [Client -> Nat]
      /\ unread \in [Client -> Nat] /\ size \in [Client -> Nat]
      /\ carried \in [Client -> SUBSET Doc] /\ Dialogue(x)
  BY TypeParts DEF Dialogues
<1>1. /\ <<>> \in Reads /\ <<"READ">> \in Reads /\ Append(<<>>, "READ") = <<"READ">>
      /\ Append(<<>>, "OPEN") = <<"OPEN">> /\ <<"READ">> # <<"OPEN">>
      /\ \A s \in Reads : Append(s, "READ") \in Reads
  <2>1. <<>> \in Seq({"READ"})
    BY EmptySeq
  <2>2. \A s \in Seq({"READ"}) : Append(s, "READ") \in Seq({"READ"})
    BY AppendProperties
  <2> QED
    BY <2>1, <2>2 DEF Reads
<1>u. ASSUME Untouched(x) PROVE Dialogue(x)'
  BY <1>0, <1>u DEF Untouched, Dialogue, Waiting
<1>2. CASE Insert \/ ThreadThrows \/ UNCHANGED vars
  <2>1. Untouched(x)
    BY <1>2 DEF Insert, ThreadThrows, Throws, vars, sockets, proxyVars, docVars, Untouched
  <2> QED
    BY <1>u, <2>1
<1>3. ASSUME NEW c \in Client, c # x,
             ClientOpen(c) \/ ClientRead(c) \/ ClientGone(c) \/ Receive(c) \/ Handle(c)
      PROVE  Dialogue(x)'
  BY <1>3, <1>u, OneAtATime
<1>4. ASSUME ClientOpen(x) PROVE Dialogue(x)'
  <2>1. /\ client'[x] = "waiting" /\ requests'[x] = <<"OPEN">>
        /\ unread' = unread /\ carried' = carried
    BY <1>0, <1>1, <1>4 DEF ClientOpen, Send, docVars, Dialogue
  <2>2. unread[x] = 0 /\ carried[x] = {}
    BY <1>0, <1>4 DEF ClientOpen, Dialogue
  <2> QED
    BY <1>1, <2>1, <2>2 DEF Dialogue, Waiting
<1>5. ASSUME ClientRead(x) PROVE Dialogue(x)'
  <2>1. /\ requests'[x] = Append(requests[x], "READ")
        /\ UNCHANGED <<unread, carried, holders, packet_id, short>>
    BY <1>0, <1>5 DEF ClientRead, Send, docVars
  <2>2. CASE client[x] = "ready"
    <3>1. client'[x] = "waiting" /\ requests'[x] = <<"READ">>
      BY <1>0, <1>1, <1>5, <2>1, <2>2 DEF ClientRead, Dialogue
    <3> QED
      BY <1>0, <1>1, <2>1, <2>2, <3>1 DEF Dialogue, Waiting
  <2>3. CASE client[x] = "confused"
    <3>1. client'[x] = "confused" /\ requests'[x] \in Reads
      BY <1>0, <1>1, <1>5, <2>1, <2>3 DEF ClientRead, Dialogue
    <3> QED
      BY <1>0, <2>1, <2>3, <3>1 DEF Dialogue
  <2> QED
    BY <1>5, <2>2, <2>3 DEF ClientRead
<1>6. ASSUME ClientGone(x) PROVE Dialogue(x)'
  <2>1. /\ client'[x] = "gone" /\ carried'[x] = {}
        /\ UNCHANGED <<requests, holders, packet_id, short>>
    BY <1>0, <1>6 DEF ClientGone
  <2>2. /\ requests[x] = <<"OPEN">> \/ (requests[x] \in Reads /\ x \in holders)
        /\ \/ requests[x] \in {<<>>, <<"OPEN">>}
           \/ packet_id[x] = PacketIdSize \/ x \in short
    BY <1>0, <1>1, <1>6 DEF ClientGone, Dialogue, Waiting
  <2> QED
    BY <2>1, <2>2 DEF Dialogue
<1>7. ASSUME RecvHeader(x) PROVE Dialogue(x)'
  <2>1. client'[x] = "body" /\ UNCHANGED <<requests, holders>>
    BY <1>0, <1>7 DEF RecvHeader
  <2>2. requests[x] = <<>> /\ x \in holders
    BY <1>7, HeaderRead
  <2>3. x \notin short' => unread'[x] = size'[x]
    <3>1. PICK n \in Nat, m \in Nat :
            /\ unread' = [unread EXCEPT ![x] = n] /\ size' = [size EXCEPT ![x] = m]
            /\ short' = short \cup {x} \/ n = m
      BY Zenon, <1>7, HeaderRead
    <3> QED
      BY <1>0, <3>1
  <2> QED
    BY <2>1, <2>2, <2>3 DEF Dialogue
<1>8. ASSUME RecvBody(x) PROVE Dialogue(x)'
  <2>1. /\ UNCHANGED <<requests, holders, short>> /\ unread'[x] = 0 /\ carried'[x] = {}
    BY <1>0, <1>8 DEF RecvBody
  <2>2. /\ requests[x] = <<>> /\ x \in holders
        /\ x \notin short => unread[x] = size[x]
    BY <1>0, <1>8 DEF RecvBody, Dialogue
  <2>3. \/ client'[x] = "ready" /\ packet_id'[x] = PacketIdSize
        \/ client'[x] = "confused" /\ x \in short
    <3>1. CASE unread[x] - size[x] = 0
      BY <1>0, <1>8, <3>1 DEF RecvBody
    <3>2. CASE unread[x] - size[x] # 0
      <4>1. client'[x] = "confused"
        BY <1>0, <1>8, <3>2 DEF RecvBody
      <4>2. unread[x] # size[x]
        BY <1>0, <3>2
      <4> QED
        BY <2>2, <4>1, <4>2
    <3> QED
      BY <3>1, <3>2
  <2> QED
    BY <1>1, <2>1, <2>2, <2>3 DEF Dialogue
<1>9. ASSUME HandleRequest(x) PROVE Dialogue(x)'
  <2>0. UNCHANGED <<client, packet_id, size, short>>
    BY <1>9 DEF HandleRequest, proxyVars
  <2>1. CASE Serve(x) /\ client[x] = "waiting"
    BY <1>9, <2>0, <2>1, Served DEF Dialogue, Waiting
  <2>2. CASE Serve(x) /\ client[x] = "confused"
    <3>1. requests[x] \in Reads
      BY <1>0, <2>2 DEF Dialogue
    <3>2. requests'[x] \in Reads /\ x \in holders' /\ carried' = carried
      BY <1>9, <2>2, <3>1, Served
    <3> QED
      BY <1>0, <2>0, <2>2, <3>2 DEF Dialogue
  <2>3. CASE Serve(x) /\ client[x] = "gone"
    <3>0. requests[x] # <<>>
      BY <1>9 DEF HandleRequest
    <3>1. requests[x] = <<"OPEN">> \/ requests[x] \in Reads
      BY <1>0, <2>3 DEF Dialogue
    <3>2. requests'[x] \in Reads /\ x \in holders' /\ carried' = carried
      BY <1>1, <1>9, <2>3, <3>1, Served
    <3>3. requests[x] = <<"OPEN">> => requests'[x] = <<>>
      BY <1>9, <2>3, Served
    <3> QED
      BY <1>0, <2>0, <2>3, <3>0, <3>2, <3>3 DEF Dialogue
  <2>4. CASE ~Serve(x)
    <3>1. UNCHANGED <<holders, sockets, carried>>
      BY <1>9, <2>4 DEF HandleRequest, OpenThrows, ReadBlocks, Throws, docVars
    <3>2. Untouched(x)
      BY <2>0, <3>1 DEF sockets, Untouched
    <3> QED
      BY <1>u, <3>2
  <2>5. client[x] \in {"waiting", "confused", "gone"}
    BY <1>9, Requester DEF HandleRequest
  <2> QED
    BY <2>1, <2>2, <2>3, <2>4, <2>5
<1>10. ASSUME HandleError(x) PROVE Dialogue(x)'
  <2>1. client[x] = "gone" /\ UNCHANGED <<client, packet_id, short, requests, arrived, carried>>
    BY <1>10 DEF HandleError, Throws, sockets, proxyVars, docVars
  <2>2. holders' = holders \/ arrived[x] < HeaderSize
    BY <1>10 DEF HandleError, Throws
  <2> QED
    BY <1>0, <2>1, <2>2 DEF Dialogue
<1> QED
  BY <1>2, <1>3, <1>4, <1>5, <1>6, <1>7, <1>8, <1>9, <1>10 DEF Next, Receive, Handle

LEMMA SafetyPart == Spec => Init /\ [][Next]_vars
BY PTL DEF Spec

LEMMA DialogueInvariant == Spec => [](SessionTypeOK /\ Dialogues)
<1>1. Init => SessionTypeOK /\ Dialogues
  <2> SUFFICES ASSUME Init PROVE SessionTypeOK /\ Dialogues
    OBVIOUS
  <2>1. collection \subseteq Doc /\ credit \in [Doc -> 0..1]
    BY DEF Init, Broker!Init
  <2>2. <<>> \in Seq({"OPEN", "READ"})
    BY EmptySeq
  <2>3. SessionTypeOK
    BY <2>1, <2>2, TypeParts DEF Init, Faults
  <2>4. Dialogues
    BY DEF Init, Dialogues, Dialogue
  <2> QED
    BY <2>3, <2>4
<1>2. SessionTypeOK /\ Dialogues /\ [Next]_vars => (SessionTypeOK /\ Dialogues)'
  BY TypeInductive, DialogueInductive
<1> QED
  BY <1>1, <1>2, SafetyPart, PTL

(* The type invariant holds for any number of clients and documents.       *)
THEOREM SessionTypeCorrect == Spec => []SessionTypeOK
BY DialogueInvariant, PTL

(* Both sides count the same bytes, whatever the sizes of headers, packet  *)
(* ids and bodies are: only a client that has got a part of a header gets  *)
(* out of step.                                                            *)
THEOREM AlwaysInStep == Spec => []InStep
<1>1. Dialogues => InStep
  BY DEF Dialogues, Dialogue, InStep
<1> QED
  BY <1>1, DialogueInvariant, PTL

----------------------------------------------------------------------------
(* Every document has one place.                                           *)

Carriers(d) == {c \in Client : d \in carried[c]}
Receivers(d) == {c \in Client : d \in received[c]}
In(d, S) == IF d \in S THEN 1 ELSE 0

(* In how many places a document is.                                       *)
Total(d) ==
  credit[d] + Cardinality(Carriers(d)) + Cardinality(Receivers(d))
  + In(d, lost) + In(d, refused)

LEMMA OneReaderIsTotal == OneReader <=> (holders # {} => \A d \in Doc : Total(d) = 1)
BY DEF OneReader, Total, Carriers, Receivers, In

(* A set with or without a client.                                         *)
LEMMA ClientSets ==
  ASSUME NEW S \in SUBSET Client
  PROVE  /\ IsFiniteSet(S) /\ Cardinality(S) \in Nat
         /\ Cardinality(S) = 0 <=> S = {}
         /\ \A c \in S : Cardinality(S \ {c}) = Cardinality(S) - 1
         /\ \A c \in Client \ S : Cardinality(S \cup {c}) = Cardinality(S) + 1
<1>1. IsFiniteSet(S)
  BY SessionAssumption, FS_Subset
<1>2. Cardinality(S) \in Nat /\ (Cardinality(S) = 0 <=> S = {})
  BY <1>1, FS_CardinalityType, FS_EmptySet
<1>3. \A c \in S : Cardinality(S \ {c}) = Cardinality(S) - 1
  BY <1>1, FS_RemoveElement
<1>4. \A c \in Client \ S : Cardinality(S \cup {c}) = Cardinality(S) + 1
  BY <1>1, FS_AddElement
<1> QED
  BY <1>1, <1>2, <1>3, <1>4

LEMMA PlacesType ==
  ASSUME SessionTypeOK, NEW d \in Doc
  PROVE  /\ credit[d] \in 0..1 /\ In(d, lost) \in 0..1 /\ In(d, refused) \in 0..1
         /\ Carriers(d) \in SUBSET Client /\ Receivers(d) \in SUBSET Client
         /\ Cardinality(Carriers(d)) \in Nat /\ Cardinality(Receivers(d)) \in Nat
<1>1. Carriers(d) \in SUBSET Client /\ Receivers(d) \in SUBSET Client
  BY DEF Carriers, Receivers
<1>2. credit[d] \in 0..1
  BY TypeParts
<1> QED
  BY <1>1, <1>2, ClientSets DEF In

(* What leaves the bytes of a client goes to one other place.              *)
LEMMA Emptied ==
  ASSUME SessionTypeOK, NEW c \in Client, NEW d \in Doc, Total(d) = 1,
         carried' = [carried EXCEPT ![c] = {}], credit' = credit, refused' = refused,
         \/ received' = [received EXCEPT ![c] = @ \cup carried[c]] /\ lost' = lost
         \/ received' = received /\ lost' = lost \cup carried[c]
  PROVE  Total(d)' = 1
<1>0. /\ credit[d] \in 0..1 /\ In(d, lost) \in 0..1 /\ In(d, refused) \in 0..1
      /\ Carriers(d) \in SUBSET Client /\ Receivers(d) \in SUBSET Client
      /\ Cardinality(Carriers(d)) \in Nat /\ Cardinality(Receivers(d)) \in Nat
  BY PlacesType
<1>1. carried \in [Client -> SUBSET Doc] /\ received \in [Client -> SUBSET Doc]
  BY TypeParts
<1>2. Carriers(d)' = Carriers(d) \ {c}
  BY <1>1 DEF Carriers
<1>p. Total(d)' = credit[d] + Cardinality(Carriers(d)') + Cardinality(Receivers(d)')
                    + In(d, lost)' + In(d, refused)
  BY DEF Total, In
<1>3. CASE d \notin carried[c]
  <2>1. Carriers(d)' = Carriers(d)
    BY <1>2, <1>3 DEF Carriers
  <2>2. Receivers(d)' = Receivers(d)
    BY <1>1, <1>3 DEF Receivers
  <2>3. In(d, lost)' = In(d, lost)
    BY <1>3 DEF In
  <2> QED
    BY <1>p, <2>1, <2>2, <2>3 DEF Total
<1>4. CASE d \in carried[c]
  <2>1. c \in Carriers(d)
    BY <1>4 DEF Carriers
  <2>2. Cardinality(Carriers(d)') = Cardinality(Carriers(d)) - 1 /\ Cardinality(Carriers(d)) # 0
    BY <1>0, <1>2, <2>1, ClientSets
  <2>3. /\ credit[d] = 0 /\ In(d, lost) = 0 /\ In(d, refused) = 0
        /\ Cardinality(Carriers(d)) = 1 /\ Cardinality(Receivers(d)) = 0
    BY <1>0, <2>2 DEF Total
  <2>4. CASE received' = [received EXCEPT ![c] = @ \cup carried[c]] /\ lost' = lost
    <3>1. Receivers(d)' = Receivers(d) \cup {c}
      BY <1>1, <1>4, <2>4 DEF Receivers
    <3>2. Receivers(d) = {}
      BY <1>0, <2>3, ClientSets
    <3>3. Cardinality(Receivers(d)') = 1
      BY <1>0, <2>3, <3>1, <3>2, ClientSets
    <3>4. In(d, lost)' = 0
      BY <2>3, <2>4 DEF In
    <3> QED
      BY <1>p, <2>2, <2>3, <3>3, <3>4
  <2>5. CASE received' = received /\ lost' = lost \cup carried[c]
    <3>1. Receivers(d)' = Receivers(d)
      BY <2>5 DEF Receivers
    <3>2. In(d, lost)' = 1
      BY <1>4, <2>5 DEF In
    <3> QED
      BY <1>p, <2>2, <2>3, <3>1, <3>2
  <2> QED
    BY <2>4, <2>5
<1> QED
  BY <1>3, <1>4

(* What a READ takes goes to one place: the client that waits for it, or   *)
(* nobody.                                                                 *)
LEMMA Moved ==
  ASSUME SessionTypeOK, NEW c \in Client, carried[c] = {}, NEW d \in Doc, Total(d) = 1,
         NEW docs \in SUBSET {e \in collection : credit[e] > 0},
         credit' = [e \in Doc |-> IF e \in docs THEN credit[e] - 1 ELSE credit[e]],
         received' = received,
         \/ carried' = [carried EXCEPT ![c] = docs] /\ lost' = lost /\ refused' = refused
         \/ carried' = carried /\ lost' = lost \cup docs /\ refused' = refused
         \/ carried' = carried /\ lost' = lost /\ refused' = refused \cup docs
  PROVE  Total(d)' = 1
<1>0. /\ credit[d] \in 0..1 /\ In(d, lost) \in 0..1 /\ In(d, refused) \in 0..1
      /\ Carriers(d) \in SUBSET Client /\ Receivers(d) \in SUBSET Client
      /\ Cardinality(Carriers(d)) \in Nat /\ Cardinality(Receivers(d)) \in Nat
  BY PlacesType
<1>1. carried \in [Client -> SUBSET Doc]
  BY TypeParts
<1>4. Receivers(d)' = Receivers(d)
  BY DEF Receivers
<1>p. Total(d)' = credit'[d] + Cardinality(Carriers(d)') + Cardinality(Receivers(d))
                    + In(d, lost)' + In(d, refused)'
  BY <1>4 DEF Total, In
<1>5. CASE d \notin docs
  <2>1. credit'[d] = credit[d]
    BY <1>5
  <2>2. Carriers(d)' = Carriers(d)
    BY <1>1, <1>5 DEF Carriers
  <2>3. In(d, lost)' = In(d, lost) /\ In(d, refused)' = In(d, refused)
    BY <1>5 DEF In
  <2> QED
    BY <1>p, <2>1, <2>2, <2>3 DEF Total
<1>6. CASE d \in docs
  <2>1. credit[d] = 1 /\ credit'[d] = 0
    BY <1>0, <1>6
  <2>2. /\ In(d, lost) = 0 /\ In(d, refused) = 0
        /\ Cardinality(Carriers(d)) = 0 /\ Cardinality(Receivers(d)) = 0
    BY <1>0, <2>1 DEF Total
  <2>3. CASE carried' = [carried EXCEPT ![c] = docs] /\ lost' = lost /\ refused' = refused
    <3>1. Carriers(d)' = Carriers(d) \cup {c} /\ c \notin Carriers(d)
      BY <1>1, <1>6, <2>3 DEF Carriers
    <3>2. Cardinality(Carriers(d)') = 1
      BY <1>0, <2>2, <3>1, ClientSets
    <3>3. In(d, lost)' = 0 /\ In(d, refused)' = 0
      BY <2>2, <2>3 DEF In
    <3> QED
      BY <1>p, <2>1, <2>2, <3>2, <3>3
  <2>4. CASE carried' = carried /\ lost' = lost \cup docs /\ refused' = refused
    <3>1. Carriers(d)' = Carriers(d)
      BY <2>4 DEF Carriers
    <3>2. In(d, lost)' = 1 /\ In(d, refused)' = 0
      BY <1>6, <2>2, <2>4 DEF In
    <3> QED
      BY <1>p, <2>1, <2>2, <3>1, <3>2
  <2>5. CASE carried' = carried /\ lost' = lost /\ refused' = refused \cup docs
    <3>1. Carriers(d)' = Carriers(d)
      BY <2>5 DEF Carriers
    <3>2. In(d, lost)' = 0 /\ In(d, refused)' = 1
      BY <1>6, <2>2, <2>5 DEF In
    <3> QED
      BY <1>p, <2>1, <2>2, <3>1, <3>2
  <2> QED
    BY <2>3, <2>4, <2>5
<1> QED
  BY <1>5, <1>6

LEMMA Taken ==
  ASSUME SessionTypeOK, NEW c \in Client, carried[c] = {}, ServeRead(c),
         NEW d \in Doc, Total(d) = 1
  PROVE  Total(d)' = 1
<1>1. carried \in [Client -> SUBSET Doc]
  BY TypeParts
<1>2. PICK docs \in SUBSET {e \in collection : credit[e] > 0} :
        /\ credit' = [e \in Doc |-> IF e \in docs THEN credit[e] - 1 ELSE credit[e]]
        /\ IF TooLong(docs)
           THEN /\ Respond(c, AnswerSize, {})
                /\ refused' = refused \cup docs
                /\ UNCHANGED lost
           ELSE /\ Respond(c, ResponseBody(docs), docs)
                /\ lost' = IF client[c] = "waiting" THEN lost ELSE lost \cup docs
                /\ UNCHANGED refused
        /\ UNCHANGED <<holders, received>>
  BY DEF ServeRead
<1>3. \/ carried' = [carried EXCEPT ![c] = docs] /\ lost' = lost /\ refused' = refused
      \/ carried' = carried /\ lost' = lost \cup docs /\ refused' = refused
      \/ carried' = carried /\ lost' = lost /\ refused' = refused \cup docs
  <2>1. CASE TooLong(docs)
    <3>1. carried' = carried
      BY <1>1, <1>2, <2>1 DEF Respond
    <3> QED
      BY <1>2, <2>1, <3>1
  <2>2. CASE ~TooLong(docs)
    BY <1>2, <2>2 DEF Respond
  <2> QED
    BY <2>1, <2>2
<1> QED
  BY <1>2, <1>3, Moved

(* The first holder finds every document in the broker.                    *)
LEMMA Opened ==
  ASSUME SessionTypeOK, Dialogues, NEW c \in Client, ServeOpen(c), holders = {},
         NEW d \in Doc
  PROVE  Total(d)' = 1
<1>1. carried \in [Client -> SUBSET Doc]
  BY TypeParts
<1>2. ASSUME NEW x \in Client PROVE carried'[x] = {}
  <2>1. carried[x] = {}
    <3>1. Dialogue(x) /\ client[x] \in {"new", "waiting", "body", "ready", "confused", "gone"}
      BY TypeParts DEF Dialogues
    <3> QED
      BY <3>1 DEF Dialogue, Waiting
  <2> QED
    BY <1>1, <2>1 DEF ServeOpen, Respond
<1>3. Carriers(d)' = {} /\ Receivers(d)' = {}
  BY <1>2 DEF Carriers, Receivers, ServeOpen
<1>4. credit'[d] = 1 /\ In(d, lost)' = 0 /\ In(d, refused)' = 0
  BY DEF ServeOpen, Broker!Open, In
<1>5. Cardinality({}) = 0
  BY FS_EmptySet
<1>6. Total(d)' = credit'[d] + Cardinality(Carriers(d)') + Cardinality(Receivers(d)')
                    + In(d, lost)' + In(d, refused)'
  BY DEF Total, In
<1> QED
  BY <1>3, <1>4, <1>5, <1>6

LEMMA OneReaderInductive ==
  ASSUME SessionTypeOK, Dialogues, OneReader, [Next]_vars
  PROVE  OneReader'
<1> SUFFICES ASSUME holders' # {}, NEW d \in Doc PROVE Total(d)' = 1
  BY DEF OneReader, Total, Carriers, Receivers, In
<1>0. holders # {} => Total(d) = 1
  BY OneReaderIsTotal
<1>u. ASSUME UNCHANGED <<credit, carried, received, lost, refused>>, holders # {}
      PROVE  Total(d)' = 1
  BY <1>0, <1>u DEF Total, Carriers, Receivers, In
<1>1. CASE Insert \/ ThreadThrows \/ UNCHANGED vars
  BY <1>1, <1>u DEF Insert, Broker!Insert, ThreadThrows, Throws, vars, brokerVars, docVars
<1>2. ASSUME NEW c \in Client, ClientOpen(c) \/ ClientRead(c) \/ RecvHeader(c)
      PROVE  Total(d)' = 1
  BY <1>2, <1>u DEF ClientOpen, ClientRead, RecvHeader, brokerVars, docVars
<1>3. ASSUME NEW c \in Client, ClientGone(c) PROVE Total(d)' = 1
  BY <1>0, <1>3, Emptied DEF ClientGone, brokerVars
<1>4. ASSUME NEW c \in Client, RecvBody(c) PROVE Total(d)' = 1
  <2>1. /\ carried' = [carried EXCEPT ![c] = {}] /\ credit' = credit /\ refused' = refused
        /\ holders' = holders
        /\ \/ received' = [received EXCEPT ![c] = @ \cup carried[c]] /\ lost' = lost
           \/ received' = received /\ lost' = lost \cup carried[c]
    BY <1>4 DEF RecvBody, brokerVars
  <2> QED
    BY <1>0, <2>1, Emptied
<1>5. ASSUME NEW c \in Client, HandleRequest(c) PROVE Total(d)' = 1
  <2>1. carried[c] = {}
    BY <1>5, Requester DEF HandleRequest
  <2>2. CASE ServeOpen(c)
    <3>1. CASE holders = {}
      BY <2>2, <3>1, Opened
    <3>2. CASE holders # {}
      <4>1. carried \in [Client -> SUBSET Doc]
        BY TypeParts
      <4>2. carried' = carried
        BY <2>1, <2>2, <4>1 DEF ServeOpen, Respond
      <4> QED
        BY <1>u, <2>2, <3>2, <4>2 DEF ServeOpen, brokerVars
    <3> QED
      BY <3>1, <3>2
  <2>3. CASE ServeRead(c)
    <3>1. holders' = holders
      BY <2>3 DEF ServeRead
    <3> QED
      BY <1>0, <2>1, <2>3, <3>1, Taken
  <2>4. CASE ReadBlocks
    <3>1. PICK docs \in SUBSET {e \in collection : credit[e] > 0} :
            /\ credit' = [e \in Doc |-> IF e \in docs THEN credit[e] - 1 ELSE credit[e]]
            /\ lost' = lost \cup docs
            /\ UNCHANGED <<holders, sockets, carried, received, refused>>
      BY <2>4 DEF ReadBlocks
    <3> QED
      BY <1>0, <2>1, <3>1, Moved
  <2>5. ASSUME NEW how, Throws(how) PROVE Total(d)' = 1
    BY <1>u, <2>5 DEF Throws, brokerVars, docVars
  <2> QED
    BY <1>5, <2>2, <2>3, <2>4, <2>5 DEF HandleRequest, Serve, OpenThrows
<1>6. ASSUME NEW c \in Client, HandleError(c) PROVE Total(d)' = 1
  BY <1>6, <1>u DEF HandleError, Throws, brokerVars, docVars
<1> QED
  BY <1>1, <1>2, <1>3, <1>4, <1>5, <1>6 DEF Next, Receive, Handle

(* While the processor is open every document is in one place, for any     *)
(* number of clients that come, share it and disappear.                    *)
THEOREM AlwaysOneReader == Spec => []OneReader
<1>1. Init => OneReader
  BY DEF Init, OneReader
<1>2. (SessionTypeOK /\ Dialogues) /\ OneReader /\ [Next]_vars => OneReader'
  BY OneReaderInductive
<1> QED
  BY <1>1, <1>2, DialogueInvariant, SafetyPart, PTL

----------------------------------------------------------------------------
(* What a failure of one client may cost.                                  *)

(* A client that is gone or has got a part of a header remains so.         *)
LEMMA FailureStays ==
  ASSUME SessionTypeOK, Dialogues, [Next]_vars
  PROVE  /\ short \subseteq short'
         /\ \A x \in Client : client[x] = "gone" => client'[x] = "gone"
         /\ \A x \in Client : client[x] \in {"confused", "gone"} /\ packet_id[x] = 0
                               => client'[x] \in {"confused", "gone"} /\ packet_id'[x] = 0
         /\ fault # "none" => fault' = fault
<1>0. /\ client \in [Client -> {"new", "waiting", "body", "ready", "confused", "gone"}]
      /\ packet_id \in [Client -> {0, PacketIdSize}]
  BY TypeParts
<1>f. fault # "none" => fault' = fault
  BY DEF Next, Insert, ThreadThrows, Throws, ClientOpen, ClientRead, ClientGone, Receive,
         RecvHeader, RecvBody, Handle, HandleRequest, HandleError, vars
<1>1. CASE Insert \/ ThreadThrows \/ UNCHANGED vars
  BY <1>1, <1>f DEF Insert, ThreadThrows, vars, proxyVars
<1>2. ASSUME NEW c \in Client, ClientOpen(c) \/ ClientRead(c) \/ ClientGone(c)
      PROVE  /\ short' = short /\ packet_id' = packet_id
             /\ \A x \in Client : \/ client'[x] = client[x] \/ client'[x] = "gone"
                                  \/ client[x] \notin {"gone", "confused"}
  BY <1>0, <1>2 DEF ClientOpen, ClientRead, ClientGone
<1>3. ASSUME NEW c \in Client, Receive(c)
      PROVE  /\ short \subseteq short'
             /\ \A x \in Client : \/ client'[x] = client[x] /\ packet_id'[x] = packet_id[x]
                                  \/ client[x] \notin {"gone", "confused"}
  <2>1. CASE RecvHeader(c)
    <3>1. short' \in {short, short \cup {c}}
      BY <2>1 DEF RecvHeader
    <3> QED
      BY <1>0, <2>1, <3>1 DEF RecvHeader
  <2>2. CASE RecvBody(c)
    BY <1>0, <2>2 DEF RecvBody
  <2> QED
    BY <1>3, <2>1, <2>2 DEF Receive
<1>4. ASSUME NEW c \in Client, Handle(c) PROVE UNCHANGED <<client, packet_id, short>>
  BY <1>4 DEF Handle, HandleRequest, HandleError, proxyVars
<1>5. CASE \E c \in Client : ClientOpen(c) \/ ClientRead(c) \/ ClientGone(c)
  BY <1>2, <1>5, <1>f
<1>6. CASE \E c \in Client : Receive(c)
  BY <1>3, <1>6, <1>f
<1>7. CASE \E c \in Client : Handle(c)
  BY <1>4, <1>7, <1>f
<1> QED
  BY <1>1, <1>5, <1>6, <1>7 DEF Next

LEMMA LossInductive ==
  ASSUME SessionTypeOK, Dialogues, LossNeedsFailure, [Next]_vars
  PROVE  LossNeedsFailure'
<1> DEFINE Failure == short # {} \/ (\E x \in Client : client[x] = "gone") \/ fault = "blocked"
<1> SUFFICES ASSUME lost' # {} PROVE Failure'
  BY DEF LossNeedsFailure
<1>0. client \in [Client -> {"new", "waiting", "body", "ready", "confused", "gone"}]
  BY TypeParts
<1>s. ASSUME lost' = lost \/ lost' = {}
      PROVE  Failure'
  BY <1>s, FailureStays DEF LossNeedsFailure
<1>c. ASSUME NEW c \in Client, client[c] = "gone" \/ c \in short
      PROVE  Failure'
  BY <1>c, FailureStays
<1>1. CASE Insert \/ ThreadThrows \/ UNCHANGED vars
  BY <1>1, <1>s DEF Insert, ThreadThrows, Throws, vars, docVars
<1>2. ASSUME NEW c \in Client, ClientOpen(c) \/ ClientRead(c) \/ RecvHeader(c) \/ HandleError(c)
      PROVE  Failure'
  BY <1>2, <1>s DEF ClientOpen, ClientRead, RecvHeader, HandleError, Throws, docVars
<1>3. ASSUME NEW c \in Client, ClientGone(c)
      PROVE  Failure'
  BY <1>0, <1>3 DEF ClientGone
<1>4. ASSUME NEW c \in Client, RecvBody(c)
      PROVE  Failure'
  <2>1. CASE lost' = lost
    BY <1>s, <2>1
  <2>2. CASE lost' # lost
    <3>1. unread[c] - size[c] # 0 /\ client[c] = "body"
      BY <1>4, <2>2 DEF RecvBody
    <3>2. unread[c] \in Nat /\ size[c] \in Nat
      BY TypeParts
    <3>3. unread[c] # size[c]
      BY <3>1, <3>2
    <3>4. c \in short
      BY <3>1, <3>3 DEF Dialogues, Dialogue
    <3> QED
      BY <1>c, <3>4
  <2> QED
    BY <2>1, <2>2
<1>5. ASSUME NEW c \in Client, HandleRequest(c)
      PROVE  Failure'
  <2>1. CASE client[c] = "waiting"
    <3>1. lost' = lost \/ lost' = {} \/ fault' = "blocked"
      BY <1>5, <2>1 DEF HandleRequest, Serve, ServeOpen, ServeRead, OpenThrows, ReadBlocks,
                        Throws, docVars
    <3> QED
      BY <1>s, <3>1
  <2>2. CASE client[c] \in {"confused", "gone"}
    <3>1. client[c] = "gone" \/ c \in short
      BY <2>2 DEF Dialogues, Dialogue
    <3> QED
      BY <1>c, <3>1
  <2> QED
    BY <1>5, <2>1, <2>2, Requester DEF HandleRequest
<1> QED
  BY <1>1, <1>2, <1>3, <1>4, <1>5 DEF Next, Receive, Handle

(* No batch is lost between the broker and a client while all clients stay *)
(* and get their headers in one piece and READs return.                    *)
THEOREM LossAlwaysNeedsFailure == Spec => []LossNeedsFailure
<1>1. Init => LossNeedsFailure
  BY DEF Init, LossNeedsFailure
<1>2. (SessionTypeOK /\ Dialogues) /\ LossNeedsFailure /\ [Next]_vars => LossNeedsFailure'
  BY LossInductive
<1> QED
  BY <1>1, <1>2, DialogueInvariant, SafetyPart, PTL

LEMMA FaultInductive ==
  ASSUME SessionTypeOK, Dialogues, FaultCause, [Next]_vars
  PROVE  FaultCause'
<1>1. CASE fault # "none"
  <2>1. fault' = fault /\ short \subseteq short'
    BY <1>1, FailureStays
  <2>2. CASE fault = "body"
    BY <2>1, <2>2, FailureStays DEF FaultCause
  <2>3. CASE fault = "parse"
    <3>1. short \subseteq Client
      BY TypeParts
    <3> QED
      BY <2>1, <2>3, <3>1, FailureStays DEF FaultCause
  <2> QED
    BY <2>1, <2>2, <2>3 DEF FaultCause
<1>2. CASE fault = "none" /\ fault' = "body"
  <2>1. PICK c \in Client : HandleError(c)
    BY <1>2 DEF Next, Insert, ThreadThrows, Throws, ClientOpen, ClientRead,
                ClientGone, Receive, RecvHeader,
                RecvBody, Handle, HandleRequest, Serve, OpenThrows, ReadBlocks, vars
  <2>2. client'[c] = "gone"
    BY <2>1 DEF HandleError, proxyVars
  <2> QED
    BY <1>2, <2>2 DEF FaultCause
<1>3. CASE fault = "none" /\ fault' = "parse" /\ OpenChars = OpenSize
  <2>1. PICK c \in Client : HandleRequest(c)
    BY <1>3 DEF Next, Insert, ThreadThrows, Throws, ClientOpen, ClientRead,
                ClientGone, Receive, RecvHeader,
                RecvBody, Handle, HandleError, vars
  <2>2. ~WellFormed(c) /\ requests[c] # <<>> /\ UNCHANGED <<client, packet_id, short>>
    BY <1>3, <2>1 DEF HandleRequest, Serve, OpenThrows, ReadBlocks, Throws, proxyVars
  <2>3. \A cmd : RequestLength(cmd, PacketIdSize) = HeaderSize + Declared(BodyChars(cmd))
    BY <1>3, SizesType DEF RequestLength, Declared, BodyChars, BodySize
  <2>4. Head(requests[c]) # "OPEN" /\ packet_id[c] # PacketIdSize
    BY <2>2, <2>3 DEF WellFormed, Awaited, IdSent
  <2>5. packet_id[c] = 0 /\ Dialogue(c) /\ Head(<<"OPEN">>) = "OPEN"
    BY <2>4, TypeParts DEF Dialogues
  <2>6. client[c] \in {"waiting", "confused", "gone"}
    BY <2>2, Requester
  <2>7. client[c] \in {"confused", "gone"} /\ c \in short
    BY <2>2, <2>4, <2>5, <2>6 DEF Dialogue, Waiting
  <2> QED
    BY <1>3, <2>2, <2>5, <2>7 DEF FaultCause
<1>4. CASE fault = "none" /\ (fault' \notin {"body", "parse"} \/ (fault' = "parse" /\ OpenChars # OpenSize))
  BY <1>4 DEF FaultCause
<1> QED
  BY <1>1, <1>2, <1>3, <1>4

(* Whatever the number of clients and the sizes of packets: the server     *)
(* meets a request cut off in its middle only from a client that is gone,  *)
(* and bytes that are not the request its header announces only when the   *)
(* options have characters of several bytes or a client has lost its       *)
(* packet id with a part of a header.  The other ends of the server, an    *)
(* OPEN without a database, an error of the database in the read thread    *)
(* and a call that never returns, need no client to fail.                  *)
THEOREM FaultAlwaysNeedsFailure == Spec => []FaultNeedsFailure
<1>1. Init => FaultCause
  BY DEF Init, FaultCause
<1>2. (SessionTypeOK /\ Dialogues) /\ FaultCause /\ [Next]_vars => FaultCause'
  BY FaultInductive
<1>3. FaultCause => FaultNeedsFailure
  BY DEF FaultCause, FaultNeedsFailure
<1> QED
  BY <1>1, <1>2, <1>3, DialogueInvariant, SafetyPart, PTL

=============================================================================
