------------------------------- MODULE MCServer --------------------------------
(* Two addresses, methods of different tiers and one with the name of a     *)
(* member of every object, single requests and batches with well-formed and *)
(* malformed items.                                                         *)
EXTENDS Server, TLC

MCItem(id, valid, method) == [id |-> id, valid |-> valid, method |-> method, object |-> TRUE]

MCSend == MCItem("1", TRUE, "eth_sendRawTransaction")

MCChainId == MCItem("2", TRUE, "eth_chainId")

MCRequest(body, items, xff, form) ==
    [method |-> "POST", body |-> body, items |-> items, xff |-> xff, url |-> "/",
     forwarded |-> [form |-> form, tooLong |-> FALSE, closed |-> TRUE, ip |-> "b"], peer |-> "a"]

MCSingle(item) == MCRequest("single", <<item>>, "none", "none")

MCIncoming ==
    {MCSingle([MCSend EXCEPT !.id = "zero"]),
     MCRequest("batch", <<MCItem("2", TRUE, "toString")>>, "none", "quoted"),
     MCRequest("batch", <<MCSend, MCItem("object", TRUE, "eth_chainId")>>, "none", "quoted"),
     MCRequest("batch", <<MCItem("absent", TRUE, "eth_chainId"), MCSend, MCItem("1", TRUE, "debug_traceTransaction")>>, "a", "none"),
     MCRequest("batch", <<MCSend, MCSend, MCSend, MCSend>>, "none", "none"),
     [MCSingle(MCSend) EXCEPT !.url = "/health/readiness", !.method = "GET", !.body = "none", !.items = <<>>]}

MCOutcomes == {0, -32020429}

MCTiers == [tier1 |-> 1, tier2 |-> 2, tier3 |-> 3, default |-> 2]

MCSlots == Permutations(Slots)
================================================================================
