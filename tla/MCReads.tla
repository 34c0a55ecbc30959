-------------------------------- MODULE MCReads --------------------------------
(* All reads over every chain of a few kinds of blocks: calls with logs, a  *)
(* deployment, a transfer between accounts, a HAPI transaction with logs of *)
(* two contracts and one without, and transactions that Hedera refused.     *)
EXTENDS AccountReads, ContractReads, DebugTraces

MCTx(kind, from, to, logs, result) ==
    [kind |-> kind, from |-> from, to |-> to, amount |-> IF kind = "synthetic" THEN 0 ELSE 1, logs |-> logs, result |-> result,
     created |-> FALSE,
     actions |-> IF kind = "eth" /\ result = "SUCCESS"
                 THEN <<<<from, to, 0>>>> \o [i \in DOMAIN logs |-> <<to, logs[i], 1>>]
                 ELSE <<>>]

MCCall == MCTx("eth", "a", "c", <<"c", "d">>, "SUCCESS")

(* A call with more actions than the pages that are read. *)
MCDeepCall == [MCCall EXCEPT !.actions = @ \o <<<<"d", "a", 2>>, <<"d", "b", 2>>>>]

MCDeploy == [MCTx("eth", "b", "d", <<>>, "SUCCESS") EXCEPT !.created = TRUE]

MCTransfer == MCTx("eth", "b", "a", <<>>, "SUCCESS")

MCWrongNonce == MCTx("eth", "a", "c", <<>>, "WRONG_NONCE")

MCRefused == MCTx("eth", "b", "c", <<>>, "INVALID_ACCOUNT_ID")

MCSynthetic == MCTx("synthetic", "none", "none", <<"c", "d">>, "SUCCESS")

MCTokens == MCTx("synthetic", "a", "b", <<"c">>, "SUCCESS")

MCHapi == MCTx("hapi", "a", "b", <<>>, "SUCCESS")

MCBlockContents ==
    {<<MCCall, MCTransfer>>, <<MCWrongNonce, MCDeepCall>>, <<MCTokens, MCSynthetic>>, <<MCHapi, MCTransfer>>,
     <<MCHapi, MCDeploy>>, <<MCRefused, MCSynthetic>>}

MCEntityType == [a |-> "account", b |-> "account", c |-> "contract", d |-> "contract"]

MCEvmAddress == [a |-> "a1", b |-> "b1", c |-> "c1", d |-> "d1"]

MCCreatedAt == [a |-> 0, c |-> 2, d |-> 0]

MCAddressLists == {<<>>, <<"c">>, <<"d">>, <<"d", "c">>}

(* Balance, nonce, storage, code and eth_call answer for the block they     *)
(* were asked about, whatever was imported between their queries and        *)
(* whichever of their ways of finding out AccountService and                *)
(* ContractService take.                                                    *)
StatesAtBlock == AccountsAtBlock /\ StateAtBlock
===============================================================================
