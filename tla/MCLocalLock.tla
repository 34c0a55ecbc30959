----------------------------- MODULE MCLocalLock -----------------------------
(* Instances of LocalLock: three sessions of address "a" and one of "b". *)
EXTENDS LocalLock

CONSTANTS s1, s2, s3, s4

MCAddressOf == [s \in Sessions |-> IF s = s4 THEN "b" ELSE "a"]
=============================================================================
