---------------------------- MODULE MCHbarLimiter ----------------------------
EXTENDS HbarLimiter, TLC

CONSTANTS a, b, x, y

MCTierLimit == [t \in Tier |-> CASE t = "BASIC" -> 1 [] t = "OPERATOR" -> 2 [] OTHER -> 2]

MCConfigured == <<"EXTENDED">>

Tx(relay, sender, ip, checked, estimate, fees, after) ==
  [relay |-> relay, sender |-> sender, ip |-> ip, checked |-> checked,
   estimate |-> estimate, fees |-> fees, after |-> after]

\* Two senders on two relays; a file and the transaction that uses it, on one.
MCWorkloads ==
  { (x :> Tx("r1", a, 0, TRUE, 0, <<1, 1>>, {}) @@ y :> Tx("r2", b, 1, TRUE, 1, <<1>>, {})),
    (x :> Tx("r1", a, 0, FALSE, 0, <<1>>, {}) @@ y :> Tx("r1", a, 0, TRUE, 0, <<1>>, {x})) }
=============================================================================
