------------------------------- MODULE Cursor -------------------------------
(***************************************************************************)
(* What a read processor promises about documents, whoever reads and       *)
(* however its two threads interleave: a READ answers with documents of    *)
(* the collection, each at most once, and each REWIND allows one more      *)
(* time.                                                                   *)
(***************************************************************************)
EXTENDS Naturals

CONSTANT Doc    \* the documents that may ever be in the collection

VARIABLES
  collection,   \* the documents in it
  credit        \* how often a READ may still answer with each document

vars == <<collection, credit>>

Init ==
  /\ collection \in SUBSET Doc
  /\ credit = [d \in Doc |-> 0]

Insert ==
  /\ \E d \in Doc \ collection : collection' = collection \cup {d}
  /\ UNCHANGED credit

Open ==
  /\ credit' = [d \in Doc |-> 1]
  /\ UNCHANGED collection

Rewind ==
  /\ credit' = [d \in Doc |-> credit[d] + 1]
  /\ UNCHANGED collection

(* A batch: credit goes down for documents of the collection only.         *)
Take ==
  /\ credit' \in [Doc -> Nat]
  /\ \A d \in Doc : /\ credit'[d] <= credit[d]
                    /\ credit'[d] # credit[d] => d \in collection
  /\ UNCHANGED collection

Next == Insert \/ Open \/ Rewind \/ Take

Spec == Init /\ [][Next]_vars
=============================================================================
