----------------------------- MODULE MCConsensus -----------------------------
(* A call whose call data needs a file of two appended chunks, and one whose call data fits the transaction. *)
EXTENDS Consensus

CONSTANTS long, short

MCCallData == [c \in Calls |-> IF c = long THEN 3 ELSE 1]
==============================================================================
