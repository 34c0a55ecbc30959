-------------------------- MODULE MCWsSubscriptions --------------------------
EXTENDS WsSubscriptions, TLC

CONSTANTS c1, c2, r1, r2, r3, ip, logs, heads

MCIp == [c \in Conns |-> ip]

Ask(c, t) == [conn |-> c, tag |-> t]

Server(clients, requests, same, limits, blocks, intervals) ==
  [clients |-> clients, ask |-> requests, WS_SAME_SUB_FOR_SAME_EVENT |-> same,
   WS_CONNECTION_LIMIT |-> limits[1], WS_CONNECTION_LIMIT_PER_IP |-> limits[2],
   WS_SUBSCRIPTION_LIMIT |-> limits[3], blocks |-> blocks, ticks |-> intervals]

LogsOnce == r1 :> Ask(c1, logs) @@ r2 :> Ask(c2, logs) @@ r3 :> Ask(c2, heads)
LogsTwice == r1 :> Ask(c1, logs) @@ r2 :> Ask(c1, logs) @@ r3 :> Ask(c2, logs)
LogsAndHeads == r1 :> Ask(c1, logs) @@ r2 :> Ask(c1, heads) @@ r3 :> Ask(c2, heads)

\* Two connections at limits of one, with one interval of the poller; one
\* connection alone that is polled for over three blocks.
MCConfigs ==
  UNION { { Server({c1, c2}, LogsTwice, same, <<1, 1, 1>>, 1, 1),
            Server({c1, c2}, LogsAndHeads, same, <<1, 1, 2>>, 1, 0) } : same \in BOOLEAN }
  \cup { Server({c1}, LogsOnce, FALSE, <<1, 1, 1>>, 3, 3),
         Server({c1}, LogsTwice, FALSE, <<1, 1, 2>>, 3, 2),
         Server({c1}, LogsAndHeads, FALSE, <<1, 1, 2>>, 3, 2) }
=============================================================================
