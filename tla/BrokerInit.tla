----------------------------- MODULE BrokerInit -----------------------------
(***************************************************************************)
(* What broker::init makes of the parameters of an OPEN (src/broker.cc):   *)
(* limit, skip, queue_size and read_timeout, each an int that may be       *)
(* missing, and what becomes of the results where they are used as size_t. *)
(* The widths and the default of limit are parameters, so that overflows   *)
(* happen with numbers a model can count to.                               *)
(***************************************************************************)
EXTENDS Integers

CONSTANTS
  IntBits,       \* the width of an int; a size_t is twice as wide
  DefaultLimit   \* 1000

ASSUME InitAssumption ==
  /\ IntBits \in Nat \ {0}
  /\ DefaultLimit \in 1 .. (2^(IntBits - 1) - 1)

INT_MIN == -(2^(IntBits - 1))
INT_MAX == 2^(IntBits - 1) - 1

(* A fact of arithmetic: a size_t counts further than an int.              *)
ASSUME SizeHoldsInt == 2^(IntBits - 1) < 2^(2 * IntBits)

(* And others: a power of 2 is twice the one before it, and 5 does not     *)
(* divide it.                                                              *)
ASSUME PowerOfTwo == 2^IntBits = 2 * 2^(IntBits - 1) /\ 2^IntBits % 5 # 0

(* A product of ints, which overflows without notice (-O0).                *)
ToInt(n) == ((n - INT_MIN) % 2^IntBits) + INT_MIN

(* An int passed as size_t, to set_size and to batch_pop.                  *)
ToSize(n) == n % 2^(2 * IntBits)

(* getIntField of a field that is not there.                               *)
Missing == INT_MIN

Parameters ==
  [limit : INT_MIN .. INT_MAX, skip : INT_MIN .. INT_MAX,
   queue_size : INT_MIN .. INT_MAX, read_timeout : INT_MIN .. INT_MAX]

InitLimit(p) == IF p.limit = Missing THEN DefaultLimit ELSE p.limit

InitSkip(p) == IF p.skip = Missing THEN 0 ELSE p.skip

InitQueueSize(p) ==
  IF p.queue_size = Missing THEN ToInt(InitLimit(p) * 5) ELSE p.queue_size

(* Mutant: a negative number of seconds is taken as it comes.              *)
NegativeTimeout(p) == IF p.read_timeout = Missing THEN 1 ELSE p.read_timeout

(* A negative number of seconds is replaced, zero is not.                  *)
InitReadTimeout(p) ==
  IF p.read_timeout = Missing \/ p.read_timeout < 0 THEN 1 ELSE p.read_timeout
=============================================================================
