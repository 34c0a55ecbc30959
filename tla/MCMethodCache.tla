----------------------------- MODULE MCMethodCache -----------------------------
(* Calls of every kind of cached method about blocks that exist, that come   *)
(* to exist and that do not, with and without tags; calls that are refused.  *)
EXTENDS MethodCache

MCNumber(n) == [cls |-> "quantity", val |-> n]

MCTag(t) == [cls |-> "tag", val |-> t]

MCObject(o) == [cls |-> "object", val |-> o]

MCBoolean(b) == [cls |-> "boolean", val |-> b]

MCAddress == [cls |-> "hex20", val |-> "a"]

MCTransaction == MCObject([to |-> MCAddress, extra |-> MCNumber(1)])

MCHash(n) == [cls |-> "hex32", val |-> n]

MCCall(method, params) == [method |-> method, namespace |-> "eth", params |-> params]

MCCalls ==
    {MCCall("eth_getBlockByNumber", <<MCNumber(1), MCBoolean(b)>>) : b \in BOOLEAN}
    \cup {MCCall("eth_getLogs", <<MCObject([fromBlock |-> MCNumber(0), toBlock |-> MCNumber(1)])>>),
           MCCall("eth_call", <<MCTransaction, MCObject([blockNumber |-> MCTag("latest")])>>),
           MCCall("eth_getTransactionCount", <<MCAddress, MCHash(0)>>), MCCall("eth_feeHistory", <<MCNumber(1), MCNumber(1)>>),
           MCCall("eth_getStorageAt", <<MCAddress, MCHash(1), MCTag("safe")>>),
           [MCCall("engine_newPayload", <<>>) EXCEPT !.namespace = "engine"]}

(* The price changes with every block. *)
MCPrice == [h \in 0 .. MaxHead |-> h]

MCReceived == {<<"a", 0>>}
================================================================================
