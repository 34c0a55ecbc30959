------------------------------- MODULE MCFilters -------------------------------
(* Filters over blocks that have a log or none. *)
EXTENDS Filters

MCTx(logs) == [kind |-> "eth", from |-> "a", to |-> "c", amount |-> 0, logs |-> logs, result |-> "SUCCESS"]

MCBlockContents == {<<MCTx(<<>>)>>, <<MCTx(<<"c">>)>>}

MCFromBlocks == {Tag("latest"), Number(0)}

MCToBlocks == {Tag("latest"), Number(1)}

MCAddresses == [a \in {"a", "c"} |-> "account"]
===============================================================================
