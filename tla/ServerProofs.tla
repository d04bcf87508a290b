---------------------------- MODULE ServerProofs ----------------------------
(***************************************************************************)
(* Theorems about Server, for any number of connections, any options and   *)
(* any number of requests; all but SendBufferKept as long as clients send  *)
(* what the Ruby client sends, repeat their OPEN, rewind, or send a number *)
(* that is no command.                                                     *)
(***************************************************************************)
EXTENDS Server, FiniteSetTheorems, SequenceTheorems, TLAPS

(* Clients do not send CLOSE, nor READ or WRITE to the wrong purpose.      *)
Orderly == Extra \subseteq {"OPEN", "REWIND", "unknown"}

(* What a request may ask for: before OPEN nothing but OPEN.               *)
Okay(c, cmd) ==
  \/ cmd = "OPEN"
  \/ opened[c] /\ cmd \in ProxyCommands(handle[c][2]) \cup Extra

(* A connection and its client agree on where they are, and the connection *)
(* has the processor its client opened from its OPEN until its end.        *)
LocalInv(c) ==
  /\ client[c] = "new" => reading[c] \in {"none", "refused"} /\ stream[c] = <<>>
  /\ client[c] # "new" => handle[c] \in Id
  /\ client[c] = "ready" =>
       opened[c] /\ reading[c] = "header" /\ stream[c] = <<>> /\ sending[c] = "none"
  /\ opened[c] => reading[c] \notin {"none", "refused"}
  /\ reading[c] = "ended" => client[c] = "gone"
  /\ sending[c] # "none" => opened[c] /\ reading[c] # "body" /\ stream[c] = <<>>
  /\ processor[c] = IF opened[c] /\ reading[c] # "ended" THEN handle[c] ELSE NULL

(* The parts of a request that are still to be read.                       *)
PartsLeft(c) == IF reading[c] = "body" THEN 1 ELSE 2

(* At most one request is under way; the last part is a command in order.  *)
StreamInv(c) ==
  /\ Len(stream[c]) <= PartsLeft(c)
  /\ Len(stream[c]) = PartsLeft(c) => Okay(c, stream[c][PartsLeft(c)])

(* The inductive invariant.                                                *)
ServerInv ==
  /\ ServerTypeOK
  /\ \A c \in Conn : LocalInv(c) /\ StreamInv(c)
  /\ RefcountExact
  /\ NoAssertion

Part == {"header", "unknown"} \cup Command

----------------------------------------------------------------------------
(* Facts about the operators.                                              *)

(* NULL is no processor.                                                   *)
LEMMA NullIsNoId == NULL \notin Id
  BY DEF NULL, Id

(* Every processor id is a pair with one of the two purposes.              *)
LEMMA IdPurpose == \A p \in Id : p[2] \in Purpose
  BY DEF Id

(* A prefix of a sequence of parts.                                        *)
LEMMA Prefix ==
  ASSUME NEW s \in Seq(Part), NEW n \in 0..Len(s)
  PROVE  /\ SubSeq(s, 1, n) \in Seq(Part)
         /\ Len(SubSeq(s, 1, n)) = n
         /\ \A i \in 1..n : SubSeq(s, 1, n)[i] = s[i]
<1>1. Len(s) \in Nat /\ s \in [1..Len(s) -> Part]
  BY LenProperties
<1>2. \A i \in 1..n : s[i] \in Part
  BY <1>1
<1>3. n \in Int /\ 1 \in Int /\ n - 1 + 1 = n
  BY <1>1
<1> QED
  BY <1>1, <1>2, <1>3, SubSeqProperties

(* A packet is two parts.                                                  *)
LEMMA PacketParts ==
  ASSUME NEW cmd \in Command \cup {"unknown"}
  PROVE  /\ Packet(cmd) \in Seq(Part)
         /\ Len(Packet(cmd)) = 2
         /\ Packet(cmd)[2] = cmd
         /\ <<>> \o Packet(cmd) = Packet(cmd)
<1>1. /\ Packet(cmd) \in Seq(Part)
      /\ Len(Packet(cmd)) = 2
      /\ Packet(cmd)[2] = cmd
  BY DEF Packet, Part
<1> QED
  BY <1>1, ConcatEmptySeq

----------------------------------------------------------------------------
(* The invariant in pieces.                                                *)

(* The variables of a connection d that a step leaves alone.               *)
Kept(d) ==
  /\ reading'[d] = reading[d] /\ processor'[d] = processor[d]
  /\ opened'[d] = opened[d] /\ sending'[d] = sending[d]
  /\ client'[d] = client[d] /\ handle'[d] = handle[d] /\ stream'[d] = stream[d]

(* What is not touched keeps its invariant.                                *)
LEMMA KeptInv ==
  ASSUME NEW d, LocalInv(d), StreamInv(d), Kept(d)
  PROVE  LocalInv(d)' /\ StreamInv(d)'
  BY DEF LocalInv, StreamInv, Kept, PartsLeft, Okay

(* A step that moves no reference keeps the count.                         *)
LEMMA RefcountKept ==
  ASSUME HeldExactly, UNCHANGED <<processor, procVars>>
  PROVE  HeldExactly'
  BY DEF HeldExactly, Holders, procVars

(* The types of the functions, without the links between them.             *)
FunctionTypes ==
  /\ reading \in [Conn -> {"none", "refused", "header", "body", "ended"}]
  /\ processor \in [Conn -> Id \cup {NULL}]
  /\ opened \in [Conn -> BOOLEAN]
  /\ sending \in [Conn -> ReadResponse \cup {"none", "AlreadyOpen"}]
  /\ connected \in [Id -> SUBSET Purpose]
  /\ refcount \in [Id -> Nat]
  /\ client \in [Conn -> {"new", "waiting", "ready", "closing", "gone"}]
  /\ handle \in [Conn -> Id \cup {NULL}]
  /\ stream \in [Conn -> Seq(Part)]
  /\ requests \in [Conn -> 0..MaxRequests]

(* The other conjuncts of the type invariant follow from the rest.         *)
LEMMA InvFromParts ==
  ASSUME FunctionTypes', \A c \in Conn : LocalInv(c)' /\ StreamInv(c)',
         HeldExactly', fault' \in {"none", "exception", "blocked"}
  PROVE  ServerInv'
<1>1. \A p \in Id : refcount'[p] \in 0..Cardinality(Conn)
  <2> SUFFICES ASSUME NEW p \in Id PROVE refcount'[p] \in 0..Cardinality(Conn)
    OBVIOUS
  <2>1. Holders(p)' \in SUBSET Conn
    BY DEF Holders
  <2>2. /\ IsFiniteSet(Holders(p)')
        /\ Cardinality(Holders(p)') <= Cardinality(Conn)
    BY <2>1, ServerAssumption, FS_Subset
  <2>3. Cardinality(Holders(p)') \in Nat /\ Cardinality(Conn) \in Nat
    BY <2>2, ServerAssumption, FS_CardinalityType
  <2>4. refcount'[p] = Cardinality(Holders(p)')
    BY DEF HeldExactly
  <2> QED
    BY <2>2, <2>3, <2>4
<1>2. refcount' \in [Id -> 0..Cardinality(Conn)]
  BY <1>1 DEF FunctionTypes
<1>3. \A c \in Conn : processor'[c] # NULL <=> opened'[c] /\ reading'[c] # "ended"
  <2> SUFFICES ASSUME NEW c \in Conn
               PROVE  processor'[c] # NULL <=> opened'[c] /\ reading'[c] # "ended"
    OBVIOUS
  <2>1. /\ opened'[c] => reading'[c] \notin {"none", "refused"}
        /\ client'[c] = "new" => reading'[c] \in {"none", "refused"}
        /\ client'[c] # "new" => handle'[c] \in Id
        /\ processor'[c] =
             IF opened'[c] /\ reading'[c] # "ended" THEN handle'[c] ELSE NULL
    BY DEF LocalInv
  <2> QED
    BY <2>1, NullIsNoId
<1>4. ServerTypeOK'
  BY <1>2, <1>3 DEF ServerTypeOK, FunctionTypes, Part
<1> QED
  BY <1>4 DEF ServerInv, NoAssertion, RefcountExact

(* And the other way round.                                                *)
LEMMA PartsFromInv ==
  ASSUME ServerInv, Up
  PROVE  /\ FunctionTypes
         /\ \A c \in Conn : LocalInv(c) /\ StreamInv(c)
         /\ HeldExactly
         /\ fault = "none"
<1>1. Cardinality(Conn) \in Nat
  BY ServerAssumption, FS_CardinalityType
<1>2. refcount \in [Id -> Nat]
  BY <1>1 DEF ServerInv, ServerTypeOK
<1>3. FunctionTypes
  BY <1>2 DEF ServerInv, ServerTypeOK, FunctionTypes, Part
<1> QED
  BY <1>3 DEF ServerInv, Up, RefcountExact

(* A step of one connection: what is left to show.                         *)
LEMMA StepOf ==
  ASSUME ServerInv, Up, NEW c \in Conn,
         FunctionTypes', \A d \in Conn \ {c} : Kept(d),
         LocalInv(c)', StreamInv(c)', HeldExactly',
         fault' \in {"none", "exception", "blocked"}
  PROVE  ServerInv'
<1>1. \A d \in Conn : LocalInv(d) /\ StreamInv(d)
  BY PartsFromInv
<1>2. \A d \in Conn : LocalInv(d)' /\ StreamInv(d)'
  BY <1>1, KeptInv
<1> QED
  BY <1>2, InvFromParts

----------------------------------------------------------------------------
(* The clients' steps.                                                     *)

(* A client that opens a connection sends its OPEN as its first request.   *)
LEMMA ClientOpenInv ==
  ASSUME ServerInv, NEW c \in Conn, ClientOpen(c)
  PROVE  ServerInv'
<1>0. Up
  BY DEF ClientOpen
<1>1. FunctionTypes /\ LocalInv(c) /\ HeldExactly /\ fault = "none"
  BY <1>0, PartsFromInv
<1>2. PICK id \in Id : handle' = [handle EXCEPT ![c] = id]
  BY DEF ClientOpen
<1>3. /\ Packet("OPEN") \in Seq(Part)
      /\ Len(Packet("OPEN")) = 2
      /\ Packet("OPEN")[2] = "OPEN"
  BY PacketParts DEF Command
<1>4. FunctionTypes'
  BY <1>1, <1>2, <1>3 DEF FunctionTypes, ClientOpen, connVars, ownerVars, procVars
<1>5. \A d \in Conn \ {c} : Kept(d)
  BY <1>1, <1>2 DEF FunctionTypes, ClientOpen, connVars, ownerVars, Kept
<1>6. /\ reading[c] \in {"none", "refused"} /\ ~opened[c] /\ sending[c] = "none"
      /\ processor[c] = NULL
  BY <1>1 DEF LocalInv, ClientOpen
<1>7. /\ reading'[c] \in {"none", "refused"} /\ opened'[c] = opened[c] /\ sending'[c] = "none"
      /\ processor'[c] = NULL /\ handle'[c] = id
      /\ client'[c] = "waiting" /\ stream'[c] = Packet("OPEN")
  BY <1>1, <1>2, <1>6 DEF FunctionTypes, ClientOpen, connVars, ownerVars
<1>8. LocalInv(c)'
  BY <1>6, <1>7 DEF LocalInv
<1>9. StreamInv(c)'
  <2>1. PartsLeft(c)' = 2
    BY <1>7 DEF PartsLeft
  <2>2. Len(stream'[c]) = 2 /\ stream'[c][2] = "OPEN"
    BY <1>3, <1>7
  <2> QED
    BY <2>1, <2>2 DEF StreamInv, Okay
<1>10. HeldExactly'
  BY <1>1, RefcountKept DEF ClientOpen, connVars, ownerVars
<1>11. fault' \in {"none", "exception", "blocked"}
  BY <1>1 DEF ClientOpen
<1> QED
  BY <1>0, <1>4, <1>5, <1>8, <1>9, <1>10, <1>11, StepOf

(* A client sends only when it is owed nothing: the packet is read whole.  *)
LEMMA ClientSendInv ==
  ASSUME ServerInv, NEW c \in Conn, ClientSend(c)
  PROVE  ServerInv'
<1>0. Up
  BY DEF ClientSend
<1>1. FunctionTypes /\ LocalInv(c) /\ HeldExactly /\ fault = "none"
  BY <1>0, PartsFromInv
<1>2. PICK cmd \in ProxyCommands(handle[c][2]) \cup Extra :
        /\ stream' = [stream EXCEPT ![c] = @ \o Packet(cmd)]
        /\ client' = [client EXCEPT ![c] = IF cmd = "CLOSE" THEN "closing" ELSE "waiting"]
  BY DEF ClientSend
<1>3. cmd \in Command \cup {"unknown"}
  BY ServerAssumption DEF ProxyCommands, Command
<1>4. /\ Packet(cmd) \in Seq(Part)
      /\ Len(Packet(cmd)) = 2
      /\ Packet(cmd)[2] = cmd
      /\ <<>> \o Packet(cmd) = Packet(cmd)
  BY <1>3, PacketParts
<1>5. /\ opened[c] /\ reading[c] = "header" /\ stream[c] = <<>> /\ sending[c] = "none"
      /\ processor[c] = handle[c] /\ handle[c] \in Id
  BY <1>1 DEF LocalInv, ClientSend
<1>6. stream' = [stream EXCEPT ![c] = Packet(cmd)]
  BY <1>2, <1>4, <1>5
<1>7. requests' \in [Conn -> 0..MaxRequests]
  BY <1>1, ServerAssumption DEF FunctionTypes, ClientSend
<1>8. FunctionTypes'
  <2>1. stream' \in [Conn -> Seq(Part)]
    BY <1>1, <1>4, <1>6 DEF FunctionTypes
  <2>2. client' \in [Conn -> {"new", "waiting", "ready", "closing", "gone"}]
    BY <1>1, <1>2 DEF FunctionTypes
  <2>3. UNCHANGED <<reading, processor, opened, sending, refcount, connected, handle>>
    BY DEF ClientSend, connVars, ownerVars, procVars
  <2> QED
    BY <1>1, <1>7, <2>1, <2>2, <2>3 DEF FunctionTypes
<1>9. \A d \in Conn \ {c} : Kept(d)
  BY <1>1, <1>2 DEF FunctionTypes, ClientSend, connVars, ownerVars, Kept
<1>10. /\ reading'[c] = "header" /\ opened'[c] /\ sending'[c] = "none"
       /\ processor'[c] = handle[c] /\ handle'[c] = handle[c]
       /\ client'[c] \in {"closing", "waiting"} /\ stream'[c] = Packet(cmd)
  BY <1>1, <1>2, <1>5, <1>6 DEF FunctionTypes, ClientSend, connVars, ownerVars
<1>11. LocalInv(c)'
  BY <1>5, <1>10 DEF LocalInv
<1>12. StreamInv(c)'
  <2>1. PartsLeft(c)' = 2
    BY <1>10 DEF PartsLeft
  <2>2. Len(stream'[c]) = 2 /\ stream'[c][2] = cmd
    BY <1>4, <1>10
  <2> QED
    BY <1>10, <2>1, <2>2 DEF StreamInv, Okay
<1>13. HeldExactly'
  BY <1>1, RefcountKept DEF ClientSend, connVars, ownerVars
<1>14. fault' \in {"none", "exception", "blocked"}
  BY <1>1 DEF ClientSend
<1> QED
  BY <1>0, <1>8, <1>9, <1>11, <1>12, <1>13, <1>14, StepOf

(* What a vanished client leaves in the stream is at most a cut-off packet.*)
LEMMA ClientGoneInv ==
  ASSUME ServerInv, NEW c \in Conn, ClientGone(c)
  PROVE  ServerInv'
<1>0. Up
  BY DEF ClientGone
<1>1. /\ FunctionTypes /\ LocalInv(c) /\ StreamInv(c)
      /\ HeldExactly /\ fault = "none"
  BY <1>0, PartsFromInv
<1>2. PICK n \in 0..Len(stream[c]) : stream' = [stream EXCEPT ![c] = SubSeq(@, 1, n)]
  BY DEF ClientGone
<1>3. stream[c] \in Seq(Part) /\ Len(stream[c]) \in Nat
  BY <1>1, LenProperties DEF FunctionTypes
<1>4. /\ SubSeq(stream[c], 1, n) \in Seq(Part)
      /\ Len(SubSeq(stream[c], 1, n)) = n
      /\ \A i \in 1..n : SubSeq(stream[c], 1, n)[i] = stream[c][i]
  BY <1>3, Prefix
<1>5. FunctionTypes'
  BY <1>1, <1>2, <1>4 DEF FunctionTypes, ClientGone, connVars, ownerVars, procVars
<1>6. \A d \in Conn \ {c} : Kept(d)
  BY <1>1, <1>2 DEF FunctionTypes, ClientGone, connVars, ownerVars, Kept
<1>7. /\ reading'[c] = reading[c] /\ opened'[c] = opened[c] /\ sending'[c] = sending[c]
      /\ processor'[c] = processor[c] /\ handle'[c] = handle[c]
      /\ client'[c] = "gone" /\ stream'[c] = SubSeq(stream[c], 1, n)
  BY <1>1, <1>2 DEF FunctionTypes, ClientGone, connVars, ownerVars
<1>8. stream[c] = <<>> => stream'[c] = <<>>
  BY <1>2, <1>3, <1>4, <1>7, EmptySeq
<1>9. LocalInv(c)'
  BY <1>1, <1>7, <1>8 DEF LocalInv, ClientGone
<1>10. StreamInv(c)'
  <2>1. PartsLeft(c)' = PartsLeft(c) /\ PartsLeft(c) \in 1..2
    BY <1>7 DEF PartsLeft
  <2>2. Len(stream'[c]) = n /\ n <= Len(stream[c]) /\ n \in Nat
    BY <1>2, <1>3, <1>4, <1>7
  <2>3. ASSUME n = PartsLeft(c)
        PROVE  Len(stream[c]) = n /\ stream'[c][n] = stream[c][n]
    <3>1. n \in 1..n
      BY <2>1, <2>3
    <3>2. Len(stream[c]) <= n
      BY <1>1, <2>3 DEF StreamInv
    <3> QED
      BY <1>3, <1>4, <1>7, <2>2, <3>1, <3>2
  <2>4. CASE n = PartsLeft(c)
    <3>1. Okay(c, stream[c][n])
      BY <1>1, <2>3, <2>4 DEF StreamInv
    <3>2. stream'[c][n] = stream[c][n] /\ Len(stream'[c]) = n /\ PartsLeft(c)' = n
      BY <2>1, <2>2, <2>3, <2>4
    <3>3. opened'[c] = opened[c] /\ handle'[c] = handle[c]
      BY <1>7
    <3>4. \/ stream[c][n] = "OPEN"
          \/ opened'[c] /\ stream[c][n] \in ProxyCommands(handle'[c][2]) \cup Extra
      BY <3>1, <3>3 DEF Okay
    <3> QED
      BY <2>2, <3>2, <3>4 DEF StreamInv, Okay
  <2>5. CASE n # PartsLeft(c)
    <3>1. n < PartsLeft(c)
      BY <1>1, <1>3, <2>1, <2>2, <2>5 DEF StreamInv
    <3> QED
      BY <2>1, <2>2, <3>1 DEF StreamInv
  <2> QED
    BY <2>4, <2>5
<1>11. HeldExactly'
  BY <1>1, RefcountKept DEF ClientGone, connVars, ownerVars
<1>12. fault' \in {"none", "exception", "blocked"}
  BY <1>1 DEF ClientGone
<1> QED
  BY <1>0, <1>5, <1>6, <1>9, <1>10, <1>11, <1>12, StepOf

----------------------------------------------------------------------------
(* The handlers.                                                           *)

(* Connections that are never accepted hold nothing and have read nothing. *)
LEMMA HandleAcceptErrorInv ==
  ASSUME ServerInv, NEW c \in Conn, HandleAcceptError(c)
  PROVE  ServerInv'
<1>0. Up
  BY DEF HandleAcceptError
<1>1. /\ FunctionTypes /\ \A d \in Conn : LocalInv(d) /\ StreamInv(d)
      /\ HeldExactly /\ fault = "none"
  BY <1>0, PartsFromInv
<1>2. UNCHANGED <<fault, processor, opened, sending, refcount, connected, client,
                  handle, requests, stream>>
  BY DEF HandleAcceptError, ownerVars, procVars, clientVars
<1>3. \A d \in Conn :
        \/ reading'[d] = reading[d]
        \/ reading[d] = "none" /\ reading'[d] = "refused"
  BY DEF HandleAcceptError
<1>4. FunctionTypes'
  BY <1>1, <1>2 DEF FunctionTypes, HandleAcceptError
<1>5. ASSUME NEW d \in Conn PROVE LocalInv(d)' /\ StreamInv(d)'
  <2>1. LocalInv(d) /\ StreamInv(d)
    BY <1>1
  <2>2. CASE reading'[d] = reading[d]
    BY <1>2, <2>1, <2>2, KeptInv DEF Kept
  <2>3. CASE reading[d] = "none" /\ reading'[d] = "refused"
    <3>1. LocalInv(d)'
      BY <1>2, <2>1, <2>3 DEF LocalInv
    <3>2. StreamInv(d)'
      BY <1>2, <2>1, <2>3 DEF StreamInv, PartsLeft, Okay
    <3> QED
      BY <3>1, <3>2
  <2> QED
    BY <1>3, <2>2, <2>3
<1>6. HeldExactly'
  BY <1>1, <1>2, RefcountKept DEF procVars
<1> QED
  BY <1>1, <1>2, <1>4, <1>5, <1>6, InvFromParts


(* An accepted connection starts to read a header and has no processor.    *)
LEMMA HandleAcceptInv ==
  ASSUME ServerInv, NEW c \in Conn, HandleAccept(c)
  PROVE  ServerInv'
<1>0. Up
  BY DEF HandleAccept
<1>1. /\ FunctionTypes /\ LocalInv(c) /\ StreamInv(c)
      /\ HeldExactly /\ fault = "none"
  BY <1>0, PartsFromInv
<1>2. FunctionTypes'
  BY <1>1 DEF FunctionTypes, HandleAccept, ownerVars, procVars, clientVars
<1>3. \A d \in Conn \ {c} : Kept(d)
  BY <1>1 DEF FunctionTypes, HandleAccept, ownerVars, clientVars, Kept
<1>4. /\ reading[c] = "none" /\ reading'[c] = "header" /\ client[c] # "new"
      /\ opened'[c] = opened[c] /\ sending'[c] = sending[c]
      /\ processor'[c] = processor[c] /\ handle'[c] = handle[c]
      /\ client'[c] = client[c] /\ stream'[c] = stream[c]
  BY <1>1 DEF FunctionTypes, HandleAccept, ownerVars, clientVars
<1>5. LocalInv(c)'
  BY <1>1, <1>4 DEF LocalInv
<1>6. StreamInv(c)'
  BY <1>1, <1>4 DEF StreamInv, PartsLeft, Okay
<1>7. HeldExactly' /\ fault' \in {"none", "exception", "blocked"}
  BY <1>1, RefcountKept DEF HandleAccept, ownerVars
<1> QED
  BY <1>0, <1>2, <1>3, <1>5, <1>6, <1>7, StepOf

(* A header leaves the body of the same packet to read.                    *)
LEMMA HandleReadHeaderInv ==
  ASSUME ServerInv, NEW c \in Conn, HandleReadHeader(c)
  PROVE  ServerInv'
<1>0. Up
  BY DEF HandleReadHeader
<1>1. /\ FunctionTypes /\ LocalInv(c) /\ StreamInv(c)
      /\ HeldExactly /\ fault = "none"
  BY <1>0, PartsFromInv
<1>2. stream[c] \in Seq(Part) /\ stream[c] # <<>> /\ Len(stream[c]) \in Nat
  BY <1>1, LenProperties DEF FunctionTypes, HandleReadHeader
<1>3. /\ Tail(stream[c]) \in Seq(Part)
      /\ Len(Tail(stream[c])) = Len(stream[c]) - 1
      /\ \A i \in 1..Len(Tail(stream[c])) : Tail(stream[c])[i] = stream[c][i + 1]
  BY <1>2, HeadTailProperties
<1>4. FunctionTypes'
  BY <1>1, <1>3 DEF FunctionTypes, HandleReadHeader, ownerVars, procVars, clientVars
<1>5. \A d \in Conn \ {c} : Kept(d)
  BY <1>1 DEF FunctionTypes, HandleReadHeader, ownerVars, clientVars, Kept
<1>6. /\ reading[c] = "header" /\ reading'[c] = "body"
      /\ opened'[c] = opened[c] /\ sending'[c] = sending[c]
      /\ processor'[c] = processor[c] /\ handle'[c] = handle[c]
      /\ client'[c] = client[c] /\ stream'[c] = Tail(stream[c])
  BY <1>1 DEF FunctionTypes, HandleReadHeader, ownerVars, clientVars
<1>7. LocalInv(c)'
  BY <1>1, <1>2, <1>6 DEF LocalInv
<1>8. StreamInv(c)'
  <2>1. PartsLeft(c) = 2 /\ PartsLeft(c)' = 1
    BY <1>6 DEF PartsLeft
  <2>2. Len(stream'[c]) = Len(stream[c]) - 1 /\ Len(stream[c]) <= 2
    BY <1>1, <1>3, <1>6, <2>1 DEF StreamInv
  <2>3. CASE Len(stream[c]) = 2
    <3>1. stream'[c][1] = stream[c][2]
      BY <1>3, <1>6, <2>2, <2>3
    <3>2. \/ stream[c][2] = "OPEN"
          \/ opened[c] /\ stream[c][2] \in ProxyCommands(handle[c][2]) \cup Extra
      BY <1>1, <2>1, <2>3 DEF StreamInv, Okay
    <3>3. \/ stream'[c][1] = "OPEN"
          \/ opened'[c] /\ stream'[c][1] \in ProxyCommands(handle'[c][2]) \cup Extra
      BY <1>6, <3>1, <3>2
    <3> QED
      BY <2>1, <2>2, <2>3, <3>3 DEF StreamInv, Okay
  <2>4. CASE Len(stream[c]) # 2
    BY <1>2, <2>1, <2>2, <2>4 DEF StreamInv
  <2> QED
    BY <2>3, <2>4
<1>9. HeldExactly' /\ fault' \in {"none", "exception", "blocked"}
  BY <1>1, RefcountKept DEF HandleReadHeader, ownerVars
<1> QED
  BY <1>0, <1>4, <1>5, <1>7, <1>8, <1>9, StepOf

(* The last holder to go stops the brokers, an earlier one does not.       *)
LEMMA CloseRefcount ==
  ASSUME FunctionTypes, HeldExactly, NEW c \in Conn, NEW p \in Id,
         processor[c] = p, ProcessorClose(p),
         processor' = [processor EXCEPT ![c] = NULL]
  PROVE  /\ HeldExactly'
         /\ refcount' \in [Id -> Nat] /\ connected' \in [Id -> SUBSET Purpose]
<1> DEFINE H == Holders(p)
<1>1. H \in SUBSET Conn /\ c \in H
  BY DEF Holders
<1>2. Holders(p)' = H \ {c}
  BY NullIsNoId DEF FunctionTypes, Holders
<1>3. \A q \in Id \ {p} : Holders(q)' = Holders(q)
  BY NullIsNoId DEF FunctionTypes, Holders
<1>4. IsFiniteSet(H)
  BY <1>1, ServerAssumption, FS_Subset
<1>5. /\ IsFiniteSet(H \ {c}) /\ Cardinality(H \ {c}) = Cardinality(H) - 1
      /\ Cardinality(H) \in Nat /\ Cardinality(H \ {c}) \in Nat
  BY <1>1, <1>4, FS_RemoveElement, FS_CardinalityType
<1>6. Cardinality(H \ {c}) = 0 <=> H \ {c} = {}
  BY <1>5, FS_EmptySet
<1>7. refcount[p] = Cardinality(H) /\ connected[p] = {p[2]}
  BY <1>1 DEF HeldExactly
<1>8. CASE refcount[p] > 1
  <2>1. refcount' = [refcount EXCEPT ![p] = @ - 1] /\ connected' = connected
    BY <1>8 DEF ProcessorClose
  <2>2. /\ refcount'[p] = Cardinality(H \ {c}) /\ H \ {c} # {}
        /\ connected'[p] = {p[2]}
        /\ \A q \in Id \ {p} : refcount'[q] = refcount[q] /\ connected'[q] = connected[q]
    BY <1>5, <1>6, <1>7, <1>8, <2>1 DEF FunctionTypes
  <2>3. HeldExactly'
    BY <1>2, <1>3, <2>2 DEF HeldExactly
  <2> QED
    BY <1>5, <1>7, <2>1, <2>3 DEF FunctionTypes
<1>9. CASE ~(refcount[p] > 1)
  <2>1. /\ refcount' = [refcount EXCEPT ![p] = 0]
        /\ connected' = [connected EXCEPT ![p] = {}]
    BY <1>9 DEF ProcessorClose
  <2>2. /\ refcount'[p] = Cardinality(H \ {c}) /\ H \ {c} = {}
        /\ connected'[p] = {}
        /\ \A q \in Id \ {p} : refcount'[q] = refcount[q] /\ connected'[q] = connected[q]
    BY <1>5, <1>6, <1>7, <1>9, <2>1 DEF FunctionTypes
  <2>3. HeldExactly'
    BY <1>2, <1>3, <2>2 DEF HeldExactly
  <2> QED
    BY <2>1, <2>3 DEF FunctionTypes
<1> QED
  BY <1>8, <1>9

(* A close that never returns leaves all but the count as it is.           *)
LEMMA CloseBlocksInv ==
  ASSUME ServerInv, Up, NEW c \in Conn, processor[c] # NULL,
         ProcessorCloseBlocks(processor[c]), UNCHANGED <<reading, clientVars, stream>>
  PROVE  ServerInv'
<1>1. FunctionTypes /\ \A d \in Conn : LocalInv(d) /\ StreamInv(d)
  BY PartsFromInv
<1>2. /\ fault' = "blocked"
      /\ UNCHANGED <<reading, processor, opened, sending, connected, client, handle,
                     requests, stream>>
      /\ refcount' = [refcount EXCEPT ![processor[c]] = 0]
  BY DEF ProcessorCloseBlocks, ownerVars, clientVars
<1>3. \A d \in Conn : LocalInv(d)' /\ StreamInv(d)'
  BY <1>1, <1>2, KeptInv DEF Kept
<1>4. Cardinality(Conn) \in Nat
  BY ServerAssumption, FS_CardinalityType
<1>5. refcount' \in [Id -> 0..Cardinality(Conn)]
  BY <1>2, <1>4 DEF ServerInv, ServerTypeOK
<1>6. ServerTypeOK'
  BY <1>2, <1>5 DEF ServerInv, ServerTypeOK
<1> QED
  BY <1>2, <1>3, <1>6 DEF ServerInv, RefcountExact, NoAssertion

(* A connection that ends gives back the reference it holds, if any.       *)
LEMMA HandleReadHeaderErrorInv ==
  ASSUME ServerInv, NEW c \in Conn, HandleReadHeaderError(c)
  PROVE  ServerInv'
<1>0. Up
  BY DEF HandleReadHeaderError
<1>1. /\ FunctionTypes /\ LocalInv(c) /\ StreamInv(c)
      /\ HeldExactly /\ fault = "none"
  BY <1>0, PartsFromInv
<1>a. CASE processor[c] # NULL /\ ProcessorCloseBlocks(processor[c]) /\ UNCHANGED reading
  BY <1>0, <1>a, CloseBlocksInv DEF HandleReadHeaderError
<1>b. CASE /\ IF processor[c] # NULL THEN ProcessorClose(processor[c]) ELSE UNCHANGED procVars
           /\ processor' = [processor EXCEPT ![c] = NULL]
           /\ reading' = [reading EXCEPT ![c] = "ended"]
           /\ UNCHANGED <<fault, opened, sending>>
  <2>2. /\ HeldExactly'
        /\ refcount' \in [Id -> Nat] /\ connected' \in [Id -> SUBSET Purpose]
    <3>1. CASE processor[c] = NULL
      <4>1. processor' = processor /\ UNCHANGED procVars
        BY <1>1, <1>b, <3>1 DEF FunctionTypes
      <4> QED
        BY <1>1, <4>1, RefcountKept DEF FunctionTypes, procVars
    <3>2. CASE processor[c] # NULL
      <4>1. PICK p \in Id : processor[c] = p
        BY <1>1, <3>2 DEF FunctionTypes
      <4>2. ProcessorClose(p) /\ processor' = [processor EXCEPT ![c] = NULL]
        BY <1>b, <3>2, <4>1
      <4> QED
        BY <1>1, <4>1, <4>2, CloseRefcount
    <3> QED
      BY <3>1, <3>2
  <2>3. FunctionTypes'
    BY <1>1, <1>b, <2>2 DEF FunctionTypes, HandleReadHeaderError, clientVars
  <2>4. \A d \in Conn \ {c} : Kept(d)
    BY <1>1, <1>b DEF FunctionTypes, HandleReadHeaderError, clientVars, Kept
  <2>5. /\ reading'[c] = "ended" /\ reading[c] = "header" /\ processor'[c] = NULL
        /\ client[c] = "gone" /\ stream[c] = <<>>
        /\ opened'[c] = opened[c] /\ sending'[c] = sending[c]
        /\ handle'[c] = handle[c] /\ client'[c] = client[c] /\ stream'[c] = stream[c]
    BY <1>1, <1>b DEF FunctionTypes, HandleReadHeaderError, EndOfFile, clientVars
  <2>6. LocalInv(c)'
    BY <1>1, <2>5 DEF LocalInv
  <2>7. StreamInv(c)'
    BY <2>5, EmptySeq DEF StreamInv, PartsLeft
  <2> QED
    BY <1>0, <1>1, <1>b, <2>2, <2>3, <2>4, <2>6, <2>7, StepOf
<1> QED
  BY <1>a, <1>b DEF HandleReadHeaderError

(* An OPEN adds a holder, and the brokers run from the first one on.       *)
LEMMA OpenRefcount ==
  ASSUME FunctionTypes, HeldExactly, NEW c \in Conn, NEW p \in Id,
         processor[c] = NULL, ProcessorOpen(p, p[2]),
         processor' = [processor EXCEPT ![c] = p]
  PROVE  /\ HeldExactly'
         /\ refcount' \in [Id -> Nat] /\ connected' \in [Id -> SUBSET Purpose]
<1> DEFINE H == Holders(p)
<1>1. H \in SUBSET Conn /\ c \notin H
  BY NullIsNoId DEF Holders
<1>2. Holders(p)' = H \cup {c}
  BY DEF FunctionTypes, Holders
<1>3. \A q \in Id \ {p} : Holders(q)' = Holders(q)
  BY NullIsNoId DEF FunctionTypes, Holders
<1>4. IsFiniteSet(H)
  BY <1>1, ServerAssumption, FS_Subset
<1>5. Cardinality(H \cup {c}) = Cardinality(H) + 1 /\ Cardinality(H) \in Nat
  BY <1>1, <1>4, FS_AddElement, FS_CardinalityType
<1>6. refcount[p] = Cardinality(H) /\ connected[p] \in {{}, {p[2]}}
  BY DEF HeldExactly
<1>7. /\ connected' = [connected EXCEPT ![p] = @ \cup {p[2]}]
      /\ refcount' = [refcount EXCEPT ![p] = @ + 1]
  BY DEF ProcessorOpen
<1>8. /\ refcount'[p] = Cardinality(H \cup {c})
      /\ connected'[p] = {p[2]}
      /\ \A q \in Id \ {p} : refcount'[q] = refcount[q] /\ connected'[q] = connected[q]
  BY <1>5, <1>6, <1>7 DEF FunctionTypes
<1>9. HeldExactly'
  BY <1>2, <1>3, <1>8 DEF HeldExactly
<1>10. refcount' \in [Id -> Nat]
  BY <1>7 DEF FunctionTypes
<1>11. connected' \in [Id -> SUBSET Purpose]
  BY <1>7, IdPurpose DEF FunctionTypes
<1> QED
  BY <1>9, <1>10, <1>11

(* What a request that is in order does: it is answered and changes no     *)
(* processor, or it ends the server by an exception or blocks it, or it is *)
(* the OPEN of its connection.                                             *)
LEMMA ProcessCases ==
  ASSUME Orderly, FunctionTypes, HeldExactly, NEW c \in Conn, LocalInv(c),
         reading[c] = "body", NEW cmd, Okay(c, cmd), Process(c, cmd),
         fault = "none"
  PROVE  \/ /\ opened[c]
            /\ \E r \in ReadResponse \cup {"AlreadyOpen"} : Reply(c, r)
            /\ UNCHANGED <<fault, ownerVars, procVars>>
         \/ Ends("exception") \/ Ends("blocked")
         \/ /\ ~opened[c] /\ processor[c] = NULL
            /\ processor' = [processor EXCEPT ![c] = handle[c]]
            /\ opened' = [opened EXCEPT ![c] = TRUE]
            /\ ProcessorOpen(handle[c], handle[c][2])
            /\ Reply(c, "OK")
            /\ UNCHANGED fault
<1>1. handle[c] \in Id
  BY DEF LocalInv
<1>2. opened[c] => processor[c] = handle[c] /\ processor[c] # NULL
  BY <1>1, NullIsNoId DEF LocalInv
<1>3. ~opened[c] => processor[c] = NULL /\ Find(c) = handle[c]
  BY DEF LocalInv, Find
<1>4. opened[c] => connected[handle[c]] = {handle[c][2]}
  BY <1>1, <1>2 DEF HeldExactly, Holders
<1>5. CASE cmd = "OPEN"
  BY <1>3, <1>5 DEF Process, ProcessOpen
<1>6. CASE cmd # "OPEN"
  <2>1. opened[c] /\ cmd \in ProxyCommands(handle[c][2]) \cup Extra
    BY <1>6 DEF Okay
  <2>2. ProcessorProcess(c, handle[c], cmd)
    BY <1>2, <1>6, <2>1 DEF Process
  <2>3. cmd # "CLOSE"
    BY <2>1 DEF Orderly, ProxyCommands
  <2>4. cmd = "READ" => "Read" \in connected[handle[c]]
    BY <1>4, <2>1 DEF Orderly, ProxyCommands
  <2>5. cmd = "WRITE" => "Write" \in connected[handle[c]]
    BY <1>1, <1>4, <2>1, IdPurpose DEF Orderly, ProxyCommands, Purpose
  <2> QED
    BY <2>1, <2>2, <2>3, <2>4, <2>5 DEF ProcessorProcess, ReadResponse
<1> QED
  BY <1>5, <1>6

(* A request is answered, opens its processor, or ends the server.         *)
LEMMA HandleReadBodyInv ==
  ASSUME Orderly, ServerInv, NEW c \in Conn, HandleReadBody(c)
  PROVE  ServerInv'
<1>0. Up
  BY DEF HandleReadBody
<1>1. /\ FunctionTypes /\ LocalInv(c) /\ StreamInv(c)
      /\ HeldExactly /\ fault = "none"
  BY <1>0, PartsFromInv
<1>2. stream[c] \in Seq(Part) /\ stream[c] # <<>> /\ reading[c] = "body"
  BY <1>1 DEF FunctionTypes, HandleReadBody
<1>3. Len(stream[c]) = 1 /\ Okay(c, stream[c][1])
  <2>1. PartsLeft(c) = 1
    BY <1>2 DEF PartsLeft
  <2>2. Len(stream[c]) \in Nat /\ Len(stream[c]) # 0
    BY <1>2, EmptySeq
  <2>3. Len(stream[c]) <= 1
    BY <1>1, <2>1 DEF StreamInv
  <2>4. Len(stream[c]) = 1
    <3>1. \A n \in Nat : n # 0 /\ n <= 1 => n = 1
      OBVIOUS
    <3> QED
      BY <2>2, <2>3, <3>1, Zenon
  <2> QED
    BY <1>1, <2>1, <2>4 DEF StreamInv, Okay
<1>4. Tail(stream[c]) = <<>> /\ Head(stream[c]) = stream[c][1]
  <2>1. Tail(stream[c]) \in Seq(Part) /\ Len(Tail(stream[c])) = 0
    BY <1>2, <1>3, HeadTailProperties
  <2>2. Tail(stream[c]) = <<>>
    BY <2>1, EmptySeq
  <2> QED
    BY <1>2, <2>2
<1>5. PICK cmd : cmd = stream[c][1]
  OBVIOUS
<1>6. Okay(c, cmd) /\ Process(c, cmd)
  BY <1>3, <1>4, <1>5 DEF HandleReadBody
<1>7. sending[c] = "none" /\ handle[c] \in Id /\ client[c] # "ready" /\ client[c] # "new"
  BY <1>1, <1>2 DEF LocalInv
<1>8. /\ reading' = [reading EXCEPT ![c] = "header"]
      /\ stream' = [stream EXCEPT ![c] = <<>>]
      /\ UNCHANGED <<client, handle, requests>>
  BY <1>4 DEF HandleReadBody, clientVars
<1>9. /\ reading' \in [Conn -> {"none", "refused", "header", "body", "ended"}]
      /\ stream' \in [Conn -> Seq(Part)]
      /\ reading'[c] = "header" /\ stream'[c] = <<>>
      /\ client'[c] = client[c] /\ handle'[c] = handle[c]
  BY <1>1, <1>8, EmptySeq DEF FunctionTypes
<1>10. StreamInv(c)'
  <2>1. PartsLeft(c)' = 2
    BY <1>9 DEF PartsLeft
  <2> QED
    BY <1>9, <2>1, EmptySeq DEF StreamInv
<1>11. CASE /\ opened[c]
            /\ \E r \in ReadResponse \cup {"AlreadyOpen"} : Reply(c, r)
            /\ UNCHANGED <<fault, ownerVars, procVars>>
  <2>1. PICK r \in ReadResponse \cup {"AlreadyOpen"} :
          sending' = [sending EXCEPT ![c] = r]
    BY <1>11 DEF Reply
  <2>2. UNCHANGED <<fault, processor, opened, refcount, connected>>
    BY <1>11 DEF ownerVars, procVars
  <2>3. sending' \in [Conn -> ReadResponse \cup {"none", "AlreadyOpen"}]
    BY <1>1, <2>1 DEF FunctionTypes
  <2>4. FunctionTypes'
    BY <1>1, <1>8, <1>9, <2>2, <2>3 DEF FunctionTypes
  <2>5. \A d \in Conn \ {c} : Kept(d)
    BY <1>1, <1>8, <2>1, <2>2 DEF FunctionTypes, Kept
  <2>6. opened'[c] /\ processor'[c] = handle[c]
    BY <1>1, <1>2, <1>11, <2>2 DEF LocalInv
  <2>7. LocalInv(c)'
    BY <1>7, <1>9, <2>6 DEF LocalInv
  <2>8. HeldExactly'
    BY <1>1, <2>2, RefcountKept DEF procVars
  <2> QED
    BY <1>0, <1>1, <1>10, <2>2, <2>4, <2>5, <2>7, <2>8, StepOf
<1>12. CASE Ends("exception") \/ Ends("blocked")
  <2>1. /\ fault' \in {"exception", "blocked"}
        /\ UNCHANGED <<processor, opened, sending, refcount, connected>>
    BY <1>12 DEF Ends, ownerVars, procVars
  <2>2. FunctionTypes'
    BY <1>1, <1>8, <1>9, <2>1 DEF FunctionTypes
  <2>3. \A d \in Conn \ {c} : Kept(d)
    BY <1>1, <1>8, <2>1 DEF FunctionTypes, Kept
  <2>4. opened'[c] = opened[c] /\ sending'[c] = "none" /\ processor'[c] = processor[c]
    BY <1>7, <2>1
  <2>5. LocalInv(c)'
    BY <1>1, <1>2, <1>7, <1>9, <2>4 DEF LocalInv
  <2>6. HeldExactly'
    BY <1>1, <2>1, RefcountKept DEF procVars
  <2> QED
    BY <1>0, <1>10, <2>1, <2>2, <2>3, <2>5, <2>6, StepOf
<1>13. CASE /\ ~opened[c] /\ processor[c] = NULL
            /\ processor' = [processor EXCEPT ![c] = handle[c]]
            /\ opened' = [opened EXCEPT ![c] = TRUE]
            /\ ProcessorOpen(handle[c], handle[c][2])
            /\ Reply(c, "OK")
            /\ UNCHANGED fault
  <2>1. PICK p \in Id : p = handle[c]
    BY <1>7
  <2>2. /\ HeldExactly'
        /\ refcount' \in [Id -> Nat] /\ connected' \in [Id -> SUBSET Purpose]
    BY <1>1, <1>13, <2>1, OpenRefcount
  <2>3. sending' = [sending EXCEPT ![c] = "OK"]
    BY <1>13 DEF Reply
  <2>4. /\ sending' \in [Conn -> ReadResponse \cup {"none", "AlreadyOpen"}]
        /\ processor' \in [Conn -> Id \cup {NULL}]
        /\ opened' \in [Conn -> BOOLEAN]
    BY <1>1, <1>7, <1>13, <2>3 DEF FunctionTypes, ReadResponse
  <2>5. FunctionTypes'
    BY <1>1, <1>8, <1>9, <2>2, <2>4 DEF FunctionTypes
  <2>6. \A d \in Conn \ {c} : Kept(d)
    BY <1>1, <1>8, <1>13, <2>3 DEF FunctionTypes, Kept
  <2>7. opened'[c] /\ processor'[c] = handle[c]
    BY <1>1, <1>13 DEF FunctionTypes
  <2>8. LocalInv(c)'
    BY <1>7, <1>9, <2>7 DEF LocalInv
  <2> QED
    BY <1>0, <1>1, <1>10, <1>13, <2>2, <2>5, <2>6, <2>8, StepOf
<1> QED
  BY <1>1, <1>2, <1>6, <1>11, <1>12, <1>13, ProcessCases

(* A body that cannot be read ends the server by an exception.             *)
LEMMA HandleReadBodyErrorInv ==
  ASSUME ServerInv, NEW c \in Conn, HandleReadBodyError(c)
  PROVE  ServerInv'
<1>0. Up
  BY DEF HandleReadBodyError
<1>1. /\ FunctionTypes /\ \A d \in Conn : LocalInv(d) /\ StreamInv(d)
      /\ HeldExactly
  BY <1>0, PartsFromInv
<1>2. /\ fault' = "exception"
      /\ UNCHANGED <<reading, processor, opened, sending, refcount, connected,
                     client, handle, requests, stream>>
  BY DEF HandleReadBodyError, Ends, ownerVars, procVars, clientVars
<1>3. FunctionTypes' /\ \A d \in Conn : Kept(d)
  BY <1>1, <1>2 DEF FunctionTypes, Kept
<1>4. \A d \in Conn : LocalInv(d)' /\ StreamInv(d)'
  BY <1>1, <1>3, KeptInv
<1>5. HeldExactly'
  BY <1>1, <1>2, RefcountKept DEF procVars
<1> QED
  BY <1>2, <1>3, <1>4, <1>5, InvFromParts

(* An answer that is sent frees m_send_buffer before the next request.     *)
LEMMA HandleWriteInv ==
  ASSUME ServerInv, NEW c \in Conn, HandleWrite(c)
  PROVE  ServerInv'
<1>0. Up
  BY DEF HandleWrite
<1>1. /\ FunctionTypes /\ LocalInv(c) /\ StreamInv(c)
      /\ HeldExactly /\ fault = "none"
  BY <1>0, PartsFromInv
<1>2. FunctionTypes'
  BY <1>1 DEF FunctionTypes, HandleWrite, ClientReceive, ownerVars, procVars
<1>3. \A d \in Conn \ {c} : Kept(d)
  BY <1>1 DEF FunctionTypes, HandleWrite, ClientReceive, ownerVars, Kept
<1>4. /\ sending[c] # "none" /\ sending'[c] = "none"
      /\ client'[c] = (IF client[c] = "waiting" THEN "ready" ELSE client[c])
      /\ reading'[c] = reading[c] /\ opened'[c] = opened[c]
      /\ processor'[c] = processor[c] /\ handle'[c] = handle[c]
      /\ stream'[c] = stream[c]
      /\ reading[c] \in {"none", "refused", "header", "body", "ended"}
  BY <1>1 DEF FunctionTypes, HandleWrite, ClientReceive, ownerVars
<1>5. opened[c] /\ reading[c] \in {"header", "ended"} /\ stream[c] = <<>>
  BY <1>1, <1>4 DEF LocalInv
<1>6. LocalInv(c)'
  BY <1>1, <1>4, <1>5 DEF LocalInv
<1>7. StreamInv(c)'
  BY <1>4, <1>5, EmptySeq DEF StreamInv, PartsLeft
<1>8. HeldExactly' /\ fault' \in {"none", "exception", "blocked"}
  BY <1>1, RefcountKept DEF HandleWrite, ownerVars
<1> QED
  BY <1>0, <1>2, <1>3, <1>6, <1>7, <1>8, StepOf

(* An answer that cannot be sent closes the socket: nothing more is read.  *)
LEMMA HandleWriteErrorInv ==
  ASSUME ServerInv, NEW c \in Conn, HandleWriteError(c)
  PROVE  ServerInv'
<1>0. Up
  BY DEF HandleWriteError
<1>1. /\ FunctionTypes /\ LocalInv(c) /\ StreamInv(c)
      /\ HeldExactly /\ fault = "none"
  BY <1>0, PartsFromInv
<1>2. FunctionTypes'
  BY <1>1, EmptySeq
     DEF FunctionTypes, HandleWriteError, ownerVars, procVars, clientVars
<1>3. \A d \in Conn \ {c} : Kept(d)
  BY <1>1 DEF FunctionTypes, HandleWriteError, ownerVars, clientVars, Kept
<1>4. /\ client[c] = "gone" /\ sending'[c] = "none" /\ stream'[c] = <<>>
      /\ client'[c] = client[c]
      /\ reading'[c] = reading[c] /\ opened'[c] = opened[c]
      /\ processor'[c] = processor[c] /\ handle'[c] = handle[c]
  BY <1>1 DEF FunctionTypes, HandleWriteError, ownerVars, clientVars
<1>5. LocalInv(c)'
  BY <1>1, <1>4 DEF LocalInv
<1>6. StreamInv(c)'
  BY <1>4, EmptySeq DEF StreamInv, PartsLeft
<1>7. HeldExactly' /\ fault' \in {"none", "exception", "blocked"}
  BY <1>1, RefcountKept DEF HandleWriteError, ownerVars
<1> QED
  BY <1>0, <1>2, <1>3, <1>5, <1>6, <1>7, StepOf

(* A broker's thread ends the process.                                     *)
LEMMA ThreadThrowsInv ==
  ASSUME ServerInv, ThreadThrows
  PROVE  ServerInv'
<1>1. /\ fault = "none" /\ fault' = "exception"
      /\ UNCHANGED <<reading, processor, opened, sending, refcount, connected,
                     client, handle, requests, stream>>
  BY DEF ThreadThrows, Up, Ends, ownerVars, procVars, clientVars
<1>2. \A d \in Conn : LocalInv(d)' /\ StreamInv(d)'
  BY <1>1, KeptInv DEF ServerInv, Kept
<1>3. ServerTypeOK'
  BY <1>1 DEF ServerInv, ServerTypeOK
<1>4. RefcountExact' /\ NoAssertion'
  BY <1>1 DEF ServerInv, RefcountExact, HeldExactly, Holders, NoAssertion
<1> QED
  BY <1>2, <1>3, <1>4 DEF ServerInv

----------------------------------------------------------------------------
(* The theorems.                                                           *)

(* The first state satisfies the invariant: nobody holds a processor.      *)
LEMMA ServerInvInit == Init => ServerInv
<1> SUFFICES ASSUME Init PROVE ServerInv
  OBVIOUS
<1>1. \A p \in Id : Holders(p) = {}
  BY NullIsNoId DEF Init, Holders
<1>2. RefcountExact
  BY <1>1, FS_EmptySet DEF Init, RefcountExact, HeldExactly
<1>3. Cardinality(Conn) \in Nat
  BY ServerAssumption, FS_CardinalityType
<1>4. ServerTypeOK
  BY <1>3, ServerAssumption, EmptySeq DEF Init, ServerTypeOK
<1>5. \A c \in Conn : LocalInv(c) /\ StreamInv(c)
  BY EmptySeq DEF Init, LocalInv, StreamInv, PartsLeft
<1> QED
  BY <1>2, <1>4, <1>5 DEF ServerInv, Init, NoAssertion

(* Every step keeps it.                                                    *)
LEMMA ServerInvNext ==
  ASSUME Orderly
  PROVE  ServerInv /\ [Next]_vars => ServerInv'
<1> SUFFICES ASSUME ServerInv, [Next]_vars PROVE ServerInv'
  OBVIOUS
<1>1. ASSUME NEW c \in Conn, ClientStep(c) PROVE ServerInv'
  BY <1>1, ClientOpenInv, ClientSendInv, ClientGoneInv DEF ClientStep
<1>2. ASSUME NEW c \in Conn, HandlerStep(c) PROVE ServerInv'
  BY <1>2, HandleAcceptInv, HandleReadHeaderInv, HandleReadHeaderErrorInv,
     HandleReadBodyInv, HandleReadBodyErrorInv, HandleWriteInv, HandleWriteErrorInv
     DEF HandlerStep
<1>3. ASSUME NEW c \in Conn, HandleAcceptError(c) PROVE ServerInv'
  BY <1>3, HandleAcceptErrorInv
<1>3t. CASE ThreadThrows
  BY <1>3t, ThreadThrowsInv
<1>4. CASE UNCHANGED vars
  <2>1. UNCHANGED <<fault, reading, processor, opened, sending, refcount, connected,
                    client, handle, requests, stream>>
    BY <1>4 DEF vars, connVars, ownerVars, procVars, clientVars
  <2>2. \A d \in Conn : LocalInv(d)' /\ StreamInv(d)'
    BY <2>1, KeptInv DEF ServerInv, Kept
  <2>3. ServerTypeOK'
    BY <2>1 DEF ServerInv, ServerTypeOK
  <2>4. RefcountExact' /\ NoAssertion'
    BY <2>1 DEF ServerInv, RefcountExact, HeldExactly, Holders, NoAssertion
  <2> QED
    BY <2>2, <2>3, <2>4 DEF ServerInv
<1> QED
  BY <1>1, <1>2, <1>3, <1>3t, <1>4 DEF Next

(* The state keeps its shape, and a connection has a processor exactly     *)
(* from its OPEN until its end.                                            *)
THEOREM ServerTypeCorrect == Orderly => (Spec => []ServerTypeOK)
<1> SUFFICES ASSUME Orderly PROVE Spec => []ServerTypeOK
  OBVIOUS
<1>1. ServerInv => ServerTypeOK
  BY DEF ServerInv
<1> QED
  BY <1>1, ServerInvInit, ServerInvNext, PTL DEF Spec

(* However many connections share a processor, and however they come and   *)
(* go, m_refcount counts those that hold it, and its brokers run exactly   *)
(* while there is one, unless a handler is blocked half-way.               *)
THEOREM RefcountCorrect == Orderly => (Spec => []RefcountExact)
<1> SUFFICES ASSUME Orderly PROVE Spec => []RefcountExact
  OBVIOUS
<1>1. ServerInv => RefcountExact
  BY DEF ServerInv
<1> QED
  BY <1>1, ServerInvInit, ServerInvNext, PTL DEF Spec

(* No assertion of connection::process or asio_processor::process fails.   *)
THEOREM NoAssertionFails == Orderly => (Spec => []NoAssertion)
<1> SUFFICES ASSUME Orderly PROVE Spec => []NoAssertion
  OBVIOUS
<1>1. ServerInv => NoAssertion
  BY DEF ServerInv
<1> QED
  BY <1>1, ServerInvInit, ServerInvNext, PTL DEF Spec

----------------------------------------------------------------------------
(* The send buffer, whatever commands clients send.                        *)

Response == ReadResponse \cup {"none", "AlreadyOpen"}

SendTypes ==
  /\ reading \in [Conn -> {"none", "refused", "header", "body", "ended"}]
  /\ sending \in [Conn -> Response]
  /\ client \in [Conn -> {"new", "waiting", "ready", "closing", "gone"}]
  /\ stream \in [Conn -> Seq(Part)]

(* A client sends one request and then waits, and what is left of it is    *)
(* read before the answer begins to be sent.                               *)
Alternation(c) ==
  /\ Len(stream[c]) <= PartsLeft(c)
  /\ sending[c] # "none" \/ client[c] \in {"new", "ready"} =>
       reading[c] # "body" /\ stream[c] = <<>>
  /\ client[c] \in {"new", "ready"} => sending[c] = "none"

SendInv == SendTypes /\ \A c \in Conn : Alternation(c)

(* A step that concerns one connection.                                    *)
LEMMA AlternationStep ==
  ASSUME SendInv, NEW c \in Conn, SendTypes', Alternation(c)',
         \A d \in Conn \ {c} : /\ reading'[d] = reading[d] /\ sending'[d] = sending[d]
                               /\ client'[d] = client[d] /\ stream'[d] = stream[d]
  PROVE  SendInv'
<1> SUFFICES ASSUME NEW d \in Conn \ {c} PROVE Alternation(d)'
  BY DEF SendInv
<1> QED
  BY DEF SendInv, Alternation, PartsLeft

(* Processing a request touches no send buffer but its connection's.       *)
LEMMA ProcessReplies ==
  ASSUME NEW c \in Conn, NEW cmd, Process(c, cmd)
  PROVE  sending' = sending \/ \E r \in Response : sending' = [sending EXCEPT ![c] = r]
BY DEF Process, ProcessOpen, ProcessorProcess, ProcessorCloseBlocks, Ends, Reply, Response, ReadResponse

LEMMA SendClient ==
  ASSUME SendInv, NEW c \in Conn, ClientStep(c)
  PROVE  SendInv'
<1>0. SendTypes /\ Alternation(c) /\ Len(<<>>) = 0
  BY EmptySeq DEF SendInv
<1> USE DEF connVars, procVars, ownerVars
<1>1. CASE ClientOpen(c) \/ ClientSend(c)
  <2>1. PICK cmd \in Command \cup {"unknown"} :
          /\ client[c] \in {"new", "ready"}
          /\ stream' = [stream EXCEPT ![c] = Packet(cmd)]
          /\ \E x \in {"waiting", "closing"} : client' = [client EXCEPT ![c] = x]
          /\ reading' = reading /\ sending' = sending
    <3>1. CASE ClientOpen(c)
      BY <3>1 DEF ClientOpen, Command
    <3>2. CASE ClientSend(c)
      <4>1. PICK cmd \in ProxyCommands(handle[c][2]) \cup Extra :
              /\ stream' = [stream EXCEPT ![c] = @ \o Packet(cmd)]
              /\ client' = [client EXCEPT ![c] = IF cmd = "CLOSE" THEN "closing" ELSE "waiting"]
        BY <3>2 DEF ClientSend
      <4>2. cmd \in Command \cup {"unknown"}
        BY ServerAssumption DEF ProxyCommands, Command
      <4>3. client[c] = "ready" /\ stream[c] = <<>>
        BY <1>0, <3>2 DEF ClientSend, Alternation
      <4>4. stream' = [stream EXCEPT ![c] = Packet(cmd)]
        BY <1>0, <4>1, <4>2, <4>3, PacketParts DEF SendTypes
      <4> QED
        BY <3>2, <4>1, <4>2, <4>3, <4>4 DEF ClientSend
    <3> QED
      BY <1>1, <3>1, <3>2
  <2>2. Packet(cmd) \in Seq(Part) /\ Len(Packet(cmd)) = 2
    BY PacketParts
  <2>3. SendTypes'
    BY <1>0, <2>1, <2>2 DEF SendTypes
  <2>4. /\ stream'[c] = Packet(cmd) /\ client'[c] \in {"waiting", "closing"}
        /\ reading'[c] # "body" /\ sending'[c] = "none"
    BY <1>0, <2>1 DEF SendTypes, Alternation
  <2>5. PartsLeft(c)' = 2 /\ Len(stream'[c]) = 2
    BY <2>2, <2>4 DEF PartsLeft
  <2>6. Alternation(c)'
    BY <2>4, <2>5 DEF Alternation
  <2> QED
    BY <1>0, <2>1, <2>3, <2>6, AlternationStep DEF SendTypes
<1>2. CASE ClientGone(c)
  <2>1. PICK n \in 0..Len(stream[c]) : stream' = [stream EXCEPT ![c] = SubSeq(@, 1, n)]
    BY <1>2 DEF ClientGone
  <2>2. stream[c] \in Seq(Part) /\ Len(stream[c]) \in Nat
    BY <1>0, LenProperties DEF SendTypes
  <2>3. SubSeq(stream[c], 1, n) \in Seq(Part) /\ Len(SubSeq(stream[c], 1, n)) = n
    BY <2>2, Prefix
  <2>4. /\ client' = [client EXCEPT ![c] = "gone"]
        /\ reading' = reading /\ sending' = sending
    BY <1>2 DEF ClientGone
  <2>5. SendTypes'
    BY <1>0, <2>1, <2>3, <2>4 DEF SendTypes
  <2>6. stream'[c] = SubSeq(stream[c], 1, n) /\ client'[c] = "gone"
    BY <1>0, <2>1, <2>4 DEF SendTypes
  <2>7. n \in Nat /\ n <= Len(stream[c]) /\ (stream[c] = <<>> => stream'[c] = <<>>)
    BY <1>0, <2>2, <2>3, <2>6, EmptySeq
  <2>8. Alternation(c)'
    BY <1>0, <2>2, <2>3, <2>4, <2>6, <2>7 DEF Alternation, PartsLeft
  <2> QED
    BY <1>0, <2>1, <2>4, <2>5, <2>8, AlternationStep DEF SendTypes
<1> QED
  BY <1>1, <1>2 DEF ClientStep

LEMMA SendHandler ==
  ASSUME SendInv, NEW c \in Conn, HandlerStep(c)
  PROVE  SendInv'
<1>0. /\ SendTypes /\ Alternation(c) /\ Len(<<>>) = 0 /\ <<>> \in Seq(Part)
      /\ stream[c] \in Seq(Part) /\ Len(stream[c]) \in Nat
  BY EmptySeq, LenProperties DEF SendInv, SendTypes
<1>e. stream[c] # <<>> => /\ Tail(stream[c]) \in Seq(Part)
                          /\ Len(Tail(stream[c])) = Len(stream[c]) - 1
                          /\ Len(stream[c]) # 0
  BY <1>0, HeadTailProperties, EmptySeq
<1> USE DEF ownerVars, procVars, clientVars
<1>1. CASE HandleAccept(c)
  <2>1. reading' = [reading EXCEPT ![c] = "header"] /\ UNCHANGED <<sending, client, stream>>
        /\ reading[c] = "none"
    BY <1>1 DEF HandleAccept
  <2>2. SendTypes' /\ Alternation(c)'
    BY <1>0, <2>1 DEF SendTypes, Alternation, PartsLeft
  <2> QED
    BY <1>0, <2>1, <2>2, AlternationStep DEF SendTypes
<1>2. CASE HandleReadHeader(c)
  <2>1. /\ reading' = [reading EXCEPT ![c] = "body"] /\ UNCHANGED <<sending, client>>
        /\ reading[c] = "header" /\ stream[c] # <<>>
        /\ stream' = [stream EXCEPT ![c] = Tail(stream[c])]
    BY <1>2 DEF HandleReadHeader
  <2>2. SendTypes' /\ Alternation(c)'
    BY <1>0, <1>e, <2>1 DEF SendTypes, Alternation, PartsLeft
  <2> QED
    BY <1>0, <2>1, <2>2, AlternationStep DEF SendTypes
<1>3. CASE HandleReadHeaderError(c)
  <2>1. /\ reading' = [reading EXCEPT ![c] = "ended"] \/ reading' = reading
        /\ UNCHANGED <<sending, client, stream>>
        /\ reading[c] = "header"
    BY <1>3 DEF HandleReadHeaderError, ProcessorCloseBlocks
  <2>2. SendTypes' /\ Alternation(c)'
    BY <1>0, <2>1 DEF SendTypes, Alternation, PartsLeft
  <2> QED
    BY <1>0, <2>1, <2>2, AlternationStep DEF SendTypes
<1>4. CASE HandleReadBody(c)
  <2>1. /\ reading' = [reading EXCEPT ![c] = "header"] /\ client' = client
        /\ reading[c] = "body" /\ stream[c] # <<>>
        /\ stream' = [stream EXCEPT ![c] = Tail(stream[c])]
    BY <1>4 DEF HandleReadBody
  <2>2. sending' = sending \/ \E r \in Response : sending' = [sending EXCEPT ![c] = r]
    BY <1>4, ProcessReplies DEF HandleReadBody
  <2>3. Tail(stream[c]) = <<>> /\ client[c] \notin {"new", "ready"}
    <3>1. Len(stream[c]) <= 1
      BY <1>0, <2>1 DEF Alternation, PartsLeft
    <3>2. Len(stream[c]) = 1
      <4> DEFINE k == Len(stream[c])
      <4>1. k \in Nat /\ k # 0 /\ k <= 1
        BY <1>0, <1>e, <2>1, <3>1
      <4> HIDE DEF k
      <4>2. k = 1
        BY <4>1
      <4> QED
        BY <4>2 DEF k
    <3>3. Tail(stream[c]) \in Seq(Part) /\ Len(Tail(stream[c])) = Len(stream[c]) - 1
      BY <1>e, <2>1
    <3>4. Len(Tail(stream[c])) = 0
      BY <3>2, <3>3
    <3> QED
      BY <1>0, <2>1, <3>3, <3>4, EmptySeq DEF Alternation
  <2>4. SendTypes'
    BY <1>0, <2>1, <2>2, <2>3 DEF SendTypes
  <2>5. Alternation(c)'
    BY <1>0, <2>1, <2>3 DEF SendTypes, Alternation, PartsLeft
  <2> QED
    BY <1>0, <2>1, <2>2, <2>4, <2>5, AlternationStep DEF SendTypes
<1>5. CASE HandleReadBodyError(c)
  <2>1. UNCHANGED <<reading, sending, client, stream>>
    BY <1>5 DEF HandleReadBodyError, Ends
  <2> QED
    BY <2>1 DEF SendInv, SendTypes, Alternation, PartsLeft
<1>6. CASE HandleWrite(c)
  <2>1. /\ sending' = [sending EXCEPT ![c] = "none"] /\ UNCHANGED <<reading, stream>>
        /\ client' = [client EXCEPT ![c] = IF @ = "waiting" THEN "ready" ELSE @]
        /\ sending[c] # "none"
    BY <1>6 DEF HandleWrite, ClientReceive
  <2>2. SendTypes'
    BY <1>0, <2>1 DEF SendTypes, Response
  <2>3. Alternation(c)'
    BY <1>0, <2>1 DEF SendTypes, Alternation, PartsLeft
  <2> QED
    BY <1>0, <2>1, <2>2, <2>3, AlternationStep DEF SendTypes
<1>7. CASE HandleWriteError(c)
  <2>1. /\ sending' = [sending EXCEPT ![c] = "none"] /\ UNCHANGED <<reading, client>>
        /\ stream' = [stream EXCEPT ![c] = <<>>] /\ client[c] = "gone"
    BY <1>7 DEF HandleWriteError
  <2>2. SendTypes'
    BY <1>0, <2>1 DEF SendTypes, Response
  <2>3. Alternation(c)'
    BY <1>0, <2>1 DEF SendTypes, Alternation, PartsLeft
  <2> QED
    BY <1>0, <2>1, <2>2, <2>3, AlternationStep DEF SendTypes
<1> QED
  BY <1>1, <1>2, <1>3, <1>4, <1>5, <1>6, <1>7 DEF HandlerStep

(* m_send_buffer is never reassigned while it is being sent, whatever      *)
(* commands clients send one at a time, CLOSE and unknown ones included.   *)
THEOREM SendBufferKept == Spec => []SendBufferStable
<1>1. Init => SendInv
  BY EmptySeq DEF Init, SendInv, SendTypes, Alternation, PartsLeft, Response
<1>2. SendInv /\ [Next]_vars => SendInv'
  <2> SUFFICES ASSUME SendInv, [Next]_vars PROVE SendInv'
    OBVIOUS
  <2>1. ASSUME NEW c \in Conn, HandleAcceptError(c) PROVE SendInv'
    <3>1. /\ reading' = [d \in Conn |-> IF reading[d] = "none" THEN "refused" ELSE reading[d]]
          /\ UNCHANGED <<sending, client, stream>>
      BY <2>1 DEF HandleAcceptError, clientVars
    <3> QED
      BY <3>1 DEF SendInv, SendTypes, Alternation, PartsLeft
  <2>2. CASE UNCHANGED vars
    BY <2>2 DEF vars, connVars, clientVars, SendInv, SendTypes, Alternation, PartsLeft
  <2>3. CASE ThreadThrows
    BY <2>3 DEF ThreadThrows, Ends, clientVars, SendInv, SendTypes, Alternation, PartsLeft
  <2> QED
    BY <2>1, <2>2, <2>3, SendClient, SendHandler DEF Next
<1>3. SendInv => SendBufferStable
  BY DEF SendInv, Alternation, SendBufferStable
<1> QED
  BY <1>1, <1>2, <1>3, PTL DEF Spec
=============================================================================
