------------------------------- MODULE MCTxPool -------------------------------
(* Three calls that send transactions of two accounts: ones that compete for a nonce or for the balance, and one for every *)
(* reason to be refused.                                                                                                   *)
EXTENDS TxPool

Plain ==
    [parses |-> TRUE, from |-> "a", to |-> "none", nonce |-> 0, type |-> 2, gasLimit |-> 2, chainId |-> 1, v |-> 0, gasPrice |-> 0,
     maxFeePerGas |-> 4, maxPriorityFeePerGas |-> 1, value |-> 0, zeros |-> 0, nonZeros |-> 0, size |-> 2,
     deterministicDeployment |-> FALSE, accessList |-> FALSE]

MCCompeting ==
    {Plain, [Plain EXCEPT !.value = 10], [Plain EXCEPT !.nonce = 1, !.to = "c", !.maxFeePerGas = 3],
     [Plain EXCEPT !.from = "b", !.gasPrice = 4, !.zeros = 1]}

MCRefused ==
    {[Plain EXCEPT !.parses = FALSE], [Plain EXCEPT !.nonZeros = 3], [Plain EXCEPT !.size = 9], [Plain EXCEPT !.type = 3],
     [Plain EXCEPT !.gasLimit = 9], [Plain EXCEPT !.nonZeros = 1], [Plain EXCEPT !.chainId = 2], [Plain EXCEPT !.value = 3],
     [Plain EXCEPT !.maxFeePerGas = 2], [Plain EXCEPT !.from = "e"], [Plain EXCEPT !.value = 25], [Plain EXCEPT !.accessList = TRUE],
     [Plain EXCEPT !.to = "d"], [Plain EXCEPT !.from = "f"]}

MCShapes == MCCompeting \cup MCRefused

MCFunds == [a |-> 3, b |-> 1, f |-> 2]

MCLimits == [callData |-> 2, size |-> 4, gas |-> 8]

MCGasCosts == [base |-> 1, zero |-> 1, nonZero |-> 2]
================================================================================
