------------------------- MODULE MCSendRawTransaction -------------------------
(* SendRawTransaction with two calls: two consecutive nonces, or one         *)
(* transaction sent twice.                                                   *)
EXTENDS SendRawTransaction

CONSTANTS t1, t2

Tx(n) == [nonce |-> n]
MCBurst == [t \in Txs |-> IF t = t1 THEN Tx(0) ELSE Tx(1)]
MCResend == [t \in Txs |-> Tx(0)]
MCWorkloads == {MCBurst, MCResend}
=============================================================================
