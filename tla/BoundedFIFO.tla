---------------------------- MODULE BoundedFIFO -----------------------------
(***************************************************************************)
(* What sized_queue is to the brokers, which have one pushing thread each: *)
(* a bounded queue, first in first out, without locks, condition variables *)
(* or threads.                                                             *)
(***************************************************************************)
EXTENDS Naturals, Sequences

CONSTANTS
  Item,        \* what may be put into the queue
  Capacity     \* how many items it holds

VARIABLES
  pending,     \* the items offered and not yet put, in the order they go in
  buf,         \* the items in the queue
  out          \* the items taken out, in order

vars == <<pending, buf, out>>

Init == pending = <<>> /\ buf = <<>> /\ out = <<>>

Offer ==
  /\ pending = <<>>
  /\ pending' \in Seq(Item)
  /\ UNCHANGED <<buf, out>>

(* Items move from the front of pending to the end of buf, as many as one  *)
(* likes and there is room for.                                            *)
Put ==
  /\ Len(buf') \in Len(buf)..Capacity
  /\ buf' \o pending' = buf \o pending
  /\ UNCHANGED out

Get ==
  /\ buf # <<>>
  /\ buf' = Tail(buf)
  /\ out' = Append(out, Head(buf))
  /\ UNCHANGED pending

Clear ==
  /\ buf' = <<>>
  /\ out' = out \o buf
  /\ UNCHANGED pending

Next == Offer \/ Put \/ Get \/ Clear

Spec == Init /\ [][Next]_vars
=============================================================================
