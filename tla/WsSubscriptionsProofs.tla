------------------------- MODULE WsSubscriptionsProofs -------------------------
(***************************************************************************)
(* The WebSocket server for any number of connections, requests, addresses  *)
(* and filters and any limits: the limits on connections, the agreement of  *)
(* polls with subscriptions, the clean-up of closed connections, the count  *)
(* of subscriptions and that no log is missed.                              *)
(* Then, below, the filters that are polled over HTTP, on a chain of any    *)
(* blocks: what getFilterChanges answers and where it leaves the cursor of  *)
(* the filter, and from that the causes of a block left out or answered     *)
(* twice.                                                                   *)
(* Last, on the same chains, the reads: receipts and transactions of        *)
(* records that may be immature, logs of ranges, contract state and nonces  *)
(* of blocks.                                                               *)
(***************************************************************************)
EXTENDS WsSubscriptions, Filters, BlockReads, ContractReads, AccountReads, FiniteSetTheorems, TLAPS

\* The connections whose address is counted: those that were upgraded and
\* whose close event was not handled yet.
Counted(i) == {c \in Conns : Ip[c] = i /\ conn[c] \in {"open", "closing", "ended"}}

\* clientIps counts them.
CountInv == \A i \in Ips : clientIps[i] = Cardinality(Counted(i))

\* A request comes from a connection that was upgraded, subscribes at most once,
\* and is late if its connection closed before its filters were valid.
RequestInv ==
  /\ \A r \in Reqs : conn[ask[r].conn] \in {"none", "accepted"} => req[r] = "none"
  /\ \A r \in subs : req[r] \in {"subscribed", "done"}
  /\ \A r \in Reqs : req[r] = "validating" /\ conn[ask[r].conn] = "closed" => r \in late

\* The requests of a connection that subscribe once their validation is over,
\* or that did and have not told the limiter.
Pending(c) == Validating(c) \cup Uncounted(c)

\* websocket.subscriptions and what will still be added cover the subscriptions.
BalanceOf(c) ==
  /\ count[c] + Cardinality(Uncounted(c)) >= Cardinality(SubsOf(c))
  /\ ~config.WS_SAME_SUB_FOR_SAME_EVENT /\ conn[c] # "closed" =>
       count[c] + Cardinality(Uncounted(c)) = Cardinality(SubsOf(c))

\* Without a race there is room for all that the requests under way will add.
RoomOf(c) ==
  c \notin racing => count[c] + Cardinality(Pending(c)) <= config.WS_SUBSCRIPTION_LIMIT

BalanceInv == \A c \in Conns : BalanceOf(c) /\ RoomOf(c)

Subscribed == {r \in Reqs : req[r] \in {"subscribed", "done"}}

\* Every poll belongs to a request that subscribed, which happens once, so a
\* request for data that outlives its poll never meets a new one of that name.
\* A poll has an answer when its cursor is set.  Until two requests of a poll
\* are under way at once there is one at most, it asks from the cursor, and the
\* cursor it will move to is one the mirror node has reached.
FetchInv ==
  /\ fetches # {} => latest # 0
  /\ polls \subseteq Subscribed
  /\ \A f \in fetches : f.poll \in Subscribed /\ f.from # 0
  /\ \A p \in Reqs : (cursor[p] = 0 <=> first[p] = 0) /\ (cursor[p] # 0 => p \in Subscribed)
  /\ \A f \in fetches : f.poll \in polls \ overlap =>
       /\ latest <= f.start
       /\ f.from = IF cursor[f.poll] # 0 THEN cursor[f.poll] ELSE latest
  /\ \A f, g \in fetches : f.poll \in polls \ overlap /\ f.poll = g.poll => f = g

\* Who joined a tag that had answers finds its poll with answers.
JoinInv ==
  \A r \in subs : \A p \in polls : ask[p].tag = ask[r].tag /\ joined[r] # 0 => cursor[p] # 0

IInv == /\ TypeOK /\ CountInv /\ ConnectionsWithinLimits
        /\ PollsServeSubscriptions /\ RequestInv /\ ClosedIsUnsubscribed
        /\ BalanceInv /\ FetchInv /\ JoinInv /\ LogsReachSubscribers

\* A configuration says for every request which connection asks for what.
LEMMA ConfigType ==
  ASSUME config \in Configs
  PROVE  /\ \A r \in Reqs : ask[r].conn \in Conns /\ ask[r].tag \in Tags
         /\ config.WS_CONNECTION_LIMIT \in Nat /\ config.WS_CONNECTION_LIMIT_PER_IP \in Nat
         /\ config.WS_SUBSCRIPTION_LIMIT \in Nat
         /\ config.blocks \in Nat \ {0} /\ config.ticks \in Nat
  <1>1. config \in Config
    BY WsAssumption
  <1> QED
    BY <1>1 DEF Config, ask

\* The counted connections of an address are finitely many.
LEMMA CountedFinite ==
  ASSUME NEW i \in Ips
  PROVE  /\ IsFiniteSet(Counted(i)) /\ Cardinality(Counted(i)) \in Nat
  <1>1. Counted(i) \in SUBSET Conns
    BY DEF Counted
  <1>2. IsFiniteSet(Conns)
    BY WsAssumption
  <1>3. IsFiniteSet(Counted(i))
    BY <1>1, <1>2, FS_Subset
  <1> QED
    BY <1>3, FS_CardinalityType

\* The initial state satisfies the inductive invariant.
LEMMA InitIInv == ASSUME Init PROVE IInv
  <1>1. /\ config.blocks \in Nat \ {0} /\ config.ticks \in Nat
        /\ config.WS_CONNECTION_LIMIT \in Nat /\ config.WS_CONNECTION_LIMIT_PER_IP \in Nat
        /\ \A r \in Reqs : ask[r].conn \in Conns
    BY ConfigType DEF Init
  <1>2. TypeOK
    <2>1. polling \in BOOLEAN
      BY DEF Init
    <2>2. /\ joined \in [Reqs -> Nat] /\ cursor \in [Reqs -> Nat] /\ first \in [Reqs -> Nat]
          /\ clientIps \in [Ips -> Nat] /\ count \in [Conns -> Int]
      BY DEF Init
    <2>3. waiting \in 0 .. ticks /\ ticks \in 0 .. config.ticks
      BY <1>1 DEF Init
    <2>4. latest \in 0 .. head /\ head \in 1 .. config.blocks
      BY <1>1 DEF Init
    <2> QED
      BY <2>1, <2>2, <2>3, <2>4 DEF Init, TypeOK
  <1>3. CountInv
    <2>1. \A i \in Ips : Counted(i) = {}
      BY DEF Init, Counted
    <2> QED
      BY <2>1, FS_EmptySet DEF Init, CountInv
  <1>4. ConnectionsWithinLimits
    <2>1. Open = {} /\ \A i \in Ips : OpenFrom(i) = {}
      BY DEF Init, Open, OpenFrom
    <2> QED
      BY <1>1, <2>1, FS_EmptySet DEF ConnectionsWithinLimits
  <1>5. PollsServeSubscriptions
    BY DEF Init, PollsServeSubscriptions
  <1>6. RequestInv /\ ClosedIsUnsubscribed
    BY <1>1 DEF Init, RequestInv, ClosedIsUnsubscribed
  <1>7. BalanceInv
    <2>1. \A c \in Conns : SubsOf(c) = {} /\ Uncounted(c) = {} /\ Pending(c) = {} /\ count[c] = 0
      BY DEF Init, SubsOf, Uncounted, Validating, Pending
    <2>2. config.WS_SUBSCRIPTION_LIMIT \in Nat
      BY ConfigType DEF Init
    <2> QED
      BY <2>1, <2>2, FS_EmptySet DEF BalanceInv, BalanceOf, RoomOf
  <1>8. FetchInv /\ JoinInv /\ LogsReachSubscribers
    BY DEF Init, FetchInv, JoinInv, LogsReachSubscribers
  <1> QED
    BY <1>2, <1>3, <1>4, <1>5, <1>6, <1>7, <1>8 DEF IInv

\* A counted connection makes the counter of its address positive.
LEMMA CountPositive ==
  ASSUME CountInv, TypeOK, NEW c \in Conns, conn[c] \in {"open", "closing", "ended"}
  PROVE  clientIps[Ip[c]] - 1 \in Nat
  <1>1. Ip[c] \in Ips
    BY WsAssumption
  <1>2. c \in Counted(Ip[c])
    BY DEF Counted
  <1>3. Cardinality(Counted(Ip[c])) \in Nat /\ Cardinality(Counted(Ip[c])) # 0
    BY <1>1, <1>2, CountedFinite, FS_EmptySet
  <1> QED
    BY <1>1, <1>3 DEF CountInv

\* Subscribing keeps the types of what it changes.
LEMMA SubscribeType ==
  ASSUME TypeOK, NEW r \in Reqs, Subscribe(r)
  PROVE  /\ subs' \subseteq Reqs /\ polls' \subseteq Reqs /\ polling' \in BOOLEAN
         /\ joined' \in [Reqs -> Nat]
  <1> DEFINE polled == {p \in polls : ask[p].tag = ask[r].tag}
             from   == IF polled # {} THEN cursor[CHOOSE p \in polled : TRUE] ELSE 0
  <1>1. from \in Nat
    <2>1. CASE polled # {}
      <3>1. (CHOOSE p \in polled : TRUE) \in Reqs
        BY <2>1 DEF TypeOK
      <3> QED
        BY <2>1, <3>1 DEF TypeOK
    <2> QED
      BY <2>1
  <1>2. joined' = [joined EXCEPT ![r] = from]
    BY DEF Subscribe
  <1> HIDE DEF from
  <1>3. joined' \in [Reqs -> Nat]
    BY <1>1, <1>2 DEF TypeOK
  <1>4. subs' \subseteq Reqs /\ polls' \subseteq Reqs
    BY DEF Subscribe, TypeOK
  <1>5. polling' \in BOOLEAN
    BY DEF Subscribe, TypeOK
  <1> QED
    BY <1>3, <1>4, <1>5

\* A step of a connection keeps the types.
LEMMA ConnectionTypes ==
  ASSUME TypeOK, CountInv, NEW c \in Conns, Connection(c)
  PROVE  TypeOK'
  <1>1. Ip[c] \in Ips
    BY WsAssumption
  <1>2. CASE Accept(c) \/ InactivityTTL(c) \/ SocketEnds(c)
    BY <1>2 DEF Accept, InactivityTTL, SocketEnds, TypeOK, subVars, pollVars, feedVars
  <1>3. CASE Upgrade(c)
    <2>1. Cardinality(Sockets) \in Int
      <3>1. Sockets \in SUBSET Conns
        BY DEF Sockets
      <3>2. IsFiniteSet(Sockets)
        BY <3>1, FS_Subset, WsAssumption
      <3> QED
        BY <3>2, FS_CardinalityType
    <2> QED
      BY <1>1, <1>3, <2>1 DEF Upgrade, TypeOK, subVars, pollVars, feedVars
  <1>4. CASE EthUnsubscribe(c)
    <2>1. PICK gone \in {{r} : r \in SubsOf(c)} \cup {SubsOf(c)} :
            /\ Remove(gone)
            /\ count' = [count EXCEPT ![c] = @ - Cardinality(gone)]
      BY <1>4 DEF EthUnsubscribe
    <2>2. Cardinality(gone) \in Int
      <3>1. gone \in SUBSET Reqs
        BY DEF SubsOf, TypeOK
      <3>2. IsFiniteSet(gone)
        BY <3>1, FS_Subset, WsAssumption
      <3> QED
        BY <3>2, FS_CardinalityType
    <2>3. count' \in [Conns -> Int]
      BY <2>1, <2>2 DEF TypeOK
    <2>4. subs' \subseteq Reqs /\ polls' \subseteq Reqs
      BY <2>1 DEF Remove, TypeOK
    <2>5. polling' \in BOOLEAN
      BY <2>1 DEF Remove, TypeOK
    <2> QED
      BY <1>4, <2>3, <2>4, <2>5 DEF EthUnsubscribe, TypeOK, wsVars, feedVars
  <1>5. CASE HandleConnectionClose(c)
    <2>1. clientIps[Ip[c]] - 1 \in Nat
      BY <1>5, CountPositive DEF HandleConnectionClose
    <2>2. clientIps' \in [Ips -> Nat]
      BY <1>1, <1>5, <2>1 DEF HandleConnectionClose, TypeOK
    <2>3. subs' \subseteq Reqs /\ polls' \subseteq Reqs /\ late' \subseteq Reqs
      BY <1>5 DEF HandleConnectionClose, Remove, Validating, TypeOK
    <2>4. polling' \in BOOLEAN
      BY <1>5 DEF HandleConnectionClose, Remove, TypeOK
    <2>5. conn' \in [Conns -> {"none", "accepted", "open", "closing", "ended", "closed"}]
      BY <1>5 DEF HandleConnectionClose, TypeOK
    <2>6. connected' \in Int
      BY <1>5 DEF HandleConnectionClose, TypeOK
    <2> QED
      BY <1>5, <2>2, <2>3, <2>4, <2>5, <2>6 DEF HandleConnectionClose, TypeOK, feedVars
  <1> QED
    BY <1>2, <1>3, <1>4, <1>5 DEF Connection

\* A step of a request keeps the types.
LEMMA RequestTypes ==
  ASSUME TypeOK, NEW r \in Reqs, Request(r)
  PROVE  TypeOK'
  <1>1. ask[r].conn \in Conns
    BY ConfigType DEF TypeOK
  <1>2. CASE EthSubscribe(r)
    <2>1. /\ subs' \subseteq Reqs /\ polls' \subseteq Reqs /\ polling' \in BOOLEAN
          /\ joined' \in [Reqs -> Nat]
      <3>1. CASE Subscribe(r)
        BY <3>1, SubscribeType
      <3>2. CASE UNCHANGED <<count, subs, joined, polls, polling>>
        BY <3>2 DEF TypeOK
      <3> QED
        BY <1>2, <3>1, <3>2 DEF EthSubscribe
    <2>2. req' \in [Reqs -> {"none", "validating", "refused", "subscribed", "done"}]
      BY <1>2 DEF EthSubscribe, TypeOK
    <2>3. count' \in [Conns -> Int] /\ racing' \subseteq Conns
      BY <1>1, <1>2 DEF EthSubscribe, TypeOK
    <2> QED
      BY <1>2, <2>1, <2>2, <2>3 DEF EthSubscribe, TypeOK, wsVars, feedVars
  <1>3. CASE FiltersValid(r)
    BY <1>3, SubscribeType DEF FiltersValid, TypeOK, wsVars, feedVars
  <1>4. CASE FiltersInvalid(r)
    BY <1>4 DEF FiltersInvalid, TypeOK, wsVars, pollVars, feedVars
  <1>5. CASE IncrementSubs(r)
    BY <1>1, <1>5 DEF IncrementSubs, TypeOK, wsVars, pollVars, feedVars
  <1> QED
    BY <1>2, <1>3, <1>4, <1>5 DEF Request

\* A step of the poller keeps the types.
LEMMA PollerTypes ==
  ASSUME TypeOK, Poller
  PROVE  TypeOK'
  <1>1. config.blocks \in Nat /\ config.ticks \in Nat
    BY ConfigType DEF TypeOK
  <1>2. head \in Nat /\ latest \in Nat /\ ticks \in Nat /\ waiting \in Nat /\ waiting <= ticks
    BY <1>1 DEF TypeOK
  <1>3. CASE Tick
    BY <1>1, <1>2, <1>3 DEF Tick, TypeOK, wsVars, subVars, pollVars
  <1>4. CASE BlockNumber
    <2>1. waiting' \in 0 .. ticks
      BY <1>2, <1>4 DEF BlockNumber
    <2>2. latest' \in 0 .. head /\ fetches' \subseteq Fetch /\ overlap' \subseteq Reqs
      <3>1. CASE UNCHANGED <<latest, fetches, overlap>>
        BY <3>1 DEF TypeOK
      <3>2. ASSUME NEW b \in {head - 1, head} \ {0}, latest' = b,
                   fetches' = fetches \cup
                     {[poll |-> p, from |-> IF cursor[p] # 0 THEN cursor[p] ELSE b,
                       start |-> head, n |-> ticks - waiting] : p \in polls},
                   overlap' = overlap \cup {p \in polls : \E f \in fetches : f.poll = p}
            PROVE  latest' \in 0 .. head /\ fetches' \subseteq Fetch /\ overlap' \subseteq Reqs
        <4>1. head >= 1 /\ b \in 0 .. head /\ b \in Nat
          BY <1>2, <3>2 DEF TypeOK
        <4>2. ASSUME NEW p \in polls
              PROVE  [poll |-> p, from |-> IF cursor[p] # 0 THEN cursor[p] ELSE b,
                      start |-> head, n |-> ticks - waiting] \in Fetch
          BY <1>2, <4>1, <4>2 DEF Fetch, TypeOK
        <4>3. overlap' \subseteq Reqs
          BY <3>2 DEF TypeOK
        <4>4. fetches' \subseteq Fetch
          BY <3>2, <4>2 DEF TypeOK
        <4> QED
          BY <3>2, <4>1, <4>3, <4>4
      <3> QED
        BY <1>4, <3>1, <3>2 DEF BlockNumber
    <2> QED
      BY <1>4, <2>1, <2>2 DEF BlockNumber, TypeOK, wsVars, subVars
  <1>5. CASE PollAnswered
    <2>1. PICK f \in fetches : \E to \in f.start .. head :
            /\ fetches' = fetches \ {f}
            /\ cursor' = [cursor EXCEPT ![f.poll] = latest]
            /\ first' = [first EXCEPT ![f.poll] = IF @ = 0 THEN f.from ELSE @]
            /\ sent' = sent \cup (Subscribers(ask[f.poll].tag) \X Data(f, to))
      BY <1>5 DEF PollAnswered
    <2>2. PICK to \in f.start .. head :
            /\ fetches' = fetches \ {f}
            /\ cursor' = [cursor EXCEPT ![f.poll] = latest]
            /\ first' = [first EXCEPT ![f.poll] = IF @ = 0 THEN f.from ELSE @]
            /\ sent' = sent \cup (Subscribers(ask[f.poll].tag) \X Data(f, to))
      BY <2>1
    <2>3. f.poll \in Reqs /\ f.from \in Nat /\ f.start \in Nat
      BY DEF TypeOK, Fetch
    <2>4. to \in Nat
      BY <1>2, <2>3
    <2>5. Data(f, to) \subseteq Nat
      BY <2>3, <2>4 DEF Data
    <2>6. Subscribers(ask[f.poll].tag) \subseteq Reqs
      BY DEF Subscribers, TypeOK
    <2>7. sent' \subseteq Reqs \X Nat
      BY <2>2, <2>5, <2>6 DEF TypeOK
    <2>8. cursor' \in [Reqs -> Nat] /\ first' \in [Reqs -> Nat]
      BY <1>2, <2>2, <2>3 DEF TypeOK
    <2>9. fetches' \subseteq Fetch
      BY <2>2 DEF TypeOK
    <2> QED
      BY <1>5, <2>7, <2>8, <2>9 DEF PollAnswered, TypeOK, wsVars, subVars
  <1>6. CASE PollFails
    <2>1. fetches' \subseteq Fetch
      BY <1>6 DEF PollFails, TypeOK
    <2> QED
      BY <1>6, <2>1 DEF PollFails, TypeOK, wsVars, subVars, pollVars
  <1> QED
    BY <1>3, <1>4, <1>5, <1>6 DEF Poller

\* Every step keeps the types.
LEMMA TypeStep ==
  ASSUME TypeOK, CountInv, [Next]_vars
  PROVE  TypeOK'
  <1>1. ASSUME NEW c \in Conns, Connection(c) PROVE TypeOK'
    BY <1>1, ConnectionTypes
  <1>2. ASSUME NEW r \in Reqs, Request(r) PROVE TypeOK'
    BY <1>2, RequestTypes
  <1>3. CASE Poller
    BY <1>3, PollerTypes
  <1>4. CASE NewBlock
    <2>1. config.blocks \in Nat
      BY ConfigType DEF TypeOK
    <2>2. head' \in 1 .. config.blocks /\ latest \in 0 .. head'
      BY <1>4, <2>1 DEF NewBlock, TypeOK
    <2> QED
      BY <1>4, <2>2 DEF NewBlock, TypeOK, wsVars, subVars, pollVars
  <1>5. CASE UNCHANGED vars
    BY <1>5 DEF vars, wsVars, subVars, pollVars, feedVars, TypeOK
  <1> QED
    BY <1>1, <1>2, <1>3, <1>4, <1>5 DEF Next

\* Only the steps of connections change connections and configurations never
\* change.
LEMMA ConnectionsChange ==
  ASSUME [Next]_vars
  PROVE  /\ config' = config
         /\ \/ UNCHANGED <<conn, clientIps>>
            \/ \E c \in Conns : Accept(c) \/ Upgrade(c) \/ InactivityTTL(c) \/ SocketEnds(c)
                                \/ HandleConnectionClose(c)
  <1>1. ASSUME NEW c \in Conns, Connection(c)
        PROVE  config' = config /\ (UNCHANGED <<conn, clientIps>> \/
                 Accept(c) \/ Upgrade(c) \/ InactivityTTL(c) \/ SocketEnds(c) \/ HandleConnectionClose(c))
    BY <1>1 DEF Connection, Accept, Upgrade, InactivityTTL, SocketEnds, HandleConnectionClose,
                EthUnsubscribe, wsVars
  <1>2. ASSUME NEW r \in Reqs, Request(r) PROVE UNCHANGED <<config, conn, clientIps>>
    BY <1>2 DEF Request, EthSubscribe, FiltersValid, FiltersInvalid, IncrementSubs, wsVars
  <1>3. CASE Poller
    BY <1>3 DEF Poller, Tick, BlockNumber, PollAnswered, PollFails, wsVars
  <1>4. CASE NewBlock
    BY <1>4 DEF NewBlock, wsVars
  <1>5. CASE UNCHANGED vars
    BY <1>5 DEF vars, wsVars
  <1> QED
    BY <1>1, <1>2, <1>3, <1>4, <1>5 DEF Next

\* The counter of an address follows its connections: one is added by its
\* upgrade, also if a limit refuses it, and taken away by its close event.
LEMMA CountStep ==
  ASSUME TypeOK, CountInv, [Next]_vars
  PROVE  CountInv'
  <1> SUFFICES ASSUME NEW i \in Ips PROVE clientIps'[i] = Cardinality(Counted(i)')
    BY DEF CountInv
  <1>0. /\ clientIps \in [Ips -> Nat] /\ clientIps[i] = Cardinality(Counted(i))
        /\ conn \in [Conns -> {"none", "accepted", "open", "closing", "ended", "closed"}]
    BY DEF TypeOK, CountInv
  <1>1. CASE UNCHANGED <<conn, clientIps>>
    <2>1. Counted(i)' = Counted(i)
      BY <1>1 DEF Counted
    <2> QED
      BY <1>0, <1>1, <2>1
  <1>2. ASSUME NEW c \in Conns, Accept(c) \/ InactivityTTL(c) \/ SocketEnds(c)
        PROVE  clientIps'[i] = Cardinality(Counted(i)')
    <2>1. Counted(i)' = Counted(i)
      BY <1>0, <1>2 DEF Counted, Accept, InactivityTTL, SocketEnds
    <2>2. clientIps' = clientIps
      BY <1>2 DEF Accept, InactivityTTL, SocketEnds
    <2> QED
      BY <1>0, <2>1, <2>2
  <1>3. ASSUME NEW c \in Conns, Upgrade(c)
        PROVE  clientIps'[i] = Cardinality(Counted(i)')
    <2>1. Ip[c] \in Ips /\ clientIps' = [clientIps EXCEPT ![Ip[c]] = @ + 1]
      BY <1>3, WsAssumption DEF Upgrade
    <2>2. conn[c] = "accepted" /\ \E s \in {"open", "closing"} : conn' = [conn EXCEPT ![c] = s]
      BY <1>3 DEF Upgrade
    <2>3. CASE Ip[c] = i
      <3>1. Counted(i)' = Counted(i) \cup {c} /\ c \notin Counted(i)
        BY <1>0, <2>2, <2>3 DEF Counted
      <3> QED
        <4>1. Cardinality(Counted(i) \cup {c}) = Cardinality(Counted(i)) + 1
          BY <3>1, CountedFinite, FS_AddElement
        <4> QED
          BY <1>0, <2>1, <2>3, <3>1, <4>1
    <2>4. CASE Ip[c] # i
      <3>1. Counted(i)' = Counted(i)
        BY <1>0, <2>2, <2>4 DEF Counted
      <3> QED
        BY <1>0, <2>1, <2>4, <3>1
    <2> QED
      BY <2>3, <2>4
  <1>4. ASSUME NEW c \in Conns, HandleConnectionClose(c)
        PROVE  clientIps'[i] = Cardinality(Counted(i)')
    <2>1. Ip[c] \in Ips /\ clientIps' = [clientIps EXCEPT ![Ip[c]] = @ - 1]
      BY <1>4, WsAssumption DEF HandleConnectionClose
    <2>2. conn[c] = "ended" /\ conn' = [conn EXCEPT ![c] = "closed"]
      BY <1>4 DEF HandleConnectionClose
    <2>3. CASE Ip[c] = i
      <3>1. Counted(i)' = Counted(i) \ {c} /\ c \in Counted(i)
        BY <1>0, <2>2, <2>3 DEF Counted
      <3> QED
        <4>1. Cardinality(Counted(i) \ {c}) = Cardinality(Counted(i)) - 1
          BY <3>1, CountedFinite, FS_RemoveElement
        <4> QED
          BY <1>0, <2>1, <2>3, <3>1, <4>1
    <2>4. CASE Ip[c] # i
      <3>1. Counted(i)' = Counted(i)
        BY <1>0, <2>2, <2>4 DEF Counted
      <3> QED
        BY <1>0, <2>1, <2>4, <3>1
    <2> QED
      BY <2>3, <2>4
  <1> QED
    BY <1>1, <1>2, <1>3, <1>4, ConnectionsChange

\* A set of connections that lost members, or none, stays within its limit.
LEMMA FewerConnections ==
  ASSUME NEW S \in SUBSET Conns, NEW T \in SUBSET S, NEW n \in Nat, Cardinality(S) <= n
  PROVE  Cardinality(T) <= n
  <1>1. IsFiniteSet(S)
    BY FS_Subset, WsAssumption
  <1>2. IsFiniteSet(T) /\ Cardinality(T) <= Cardinality(S)
    BY <1>1, FS_Subset
  <1>3. Cardinality(S) \in Nat /\ Cardinality(T) \in Nat
    BY <1>1, <1>2, FS_CardinalityType
  <1> QED
    BY <1>2, <1>3

\* A connection opens only when the sockets, and the counted connections of its
\* address, are within the limits.
LEMMA LimitsStep ==
  ASSUME TypeOK, CountInv, CountInv', ConnectionsWithinLimits, [Next]_vars
  PROVE  ConnectionsWithinLimits'
  <1>0. /\ config' = config
        /\ config.WS_CONNECTION_LIMIT \in Nat /\ config.WS_CONNECTION_LIMIT_PER_IP \in Nat
        /\ Ip \in [Conns -> Ips] /\ clientIps \in [Ips -> Nat]
        /\ conn \in [Conns -> {"none", "accepted", "open", "closing", "ended", "closed"}]
    BY ConnectionsChange, ConfigType, WsAssumption DEF TypeOK
  <1>1. SUFFICES /\ Cardinality(Open') <= config.WS_CONNECTION_LIMIT
                 /\ \A i \in Ips : Cardinality(OpenFrom(i)') <= config.WS_CONNECTION_LIMIT_PER_IP
    BY <1>0 DEF ConnectionsWithinLimits
  <1>2. ASSUME Open' \subseteq Open
        PROVE  /\ Cardinality(Open') <= config.WS_CONNECTION_LIMIT
               /\ \A i \in Ips : Cardinality(OpenFrom(i)') <= config.WS_CONNECTION_LIMIT_PER_IP
    <2>1. /\ Open \in SUBSET Conns
          /\ \A i \in Ips : OpenFrom(i) \in SUBSET Conns /\ OpenFrom(i)' \in SUBSET OpenFrom(i)
      BY <1>2 DEF Open, OpenFrom
    <2> QED
      BY <1>0, <1>2, <2>1, FewerConnections DEF ConnectionsWithinLimits
  <1>3. CASE UNCHANGED <<conn, clientIps>>
    <2>1. Open' \subseteq Open
      BY <1>3 DEF Open
    <2> QED
      BY <1>2, <2>1
  <1>4. ASSUME NEW c \in Conns, Accept(c) \/ InactivityTTL(c) \/ SocketEnds(c) \/ HandleConnectionClose(c)
        PROVE  Open' \subseteq Open
    BY <1>0, <1>4 DEF Accept, InactivityTTL, SocketEnds, HandleConnectionClose, Open
  <1>5. ASSUME NEW c \in Conns, Upgrade(c)
        PROVE  /\ Cardinality(Open') <= config.WS_CONNECTION_LIMIT
               /\ \A i \in Ips : Cardinality(OpenFrom(i)') <= config.WS_CONNECTION_LIMIT_PER_IP
    <2>1. CASE conn' = [conn EXCEPT ![c] = "closing"]
      <3>1. Open' \subseteq Open
        BY <1>0, <2>1 DEF Open
      <3> QED
        BY <1>2, <3>1
    <2>2. CASE /\ connected' <= config.WS_CONNECTION_LIMIT
               /\ clientIps'[Ip[c]] <= config.WS_CONNECTION_LIMIT_PER_IP
               /\ conn' = [conn EXCEPT ![c] = "open"]
      <3>1. Cardinality(Sockets) <= config.WS_CONNECTION_LIMIT /\ conn[c] = "accepted"
        BY <1>5, <2>2 DEF Upgrade
      <3>2. Open' \in SUBSET Sockets /\ Sockets \in SUBSET Conns
        BY <1>0, <2>2, <3>1 DEF Open, Sockets
      <3>3. Cardinality(Open') <= config.WS_CONNECTION_LIMIT
        BY <1>0, <3>1, <3>2, FewerConnections
      <3>4. ASSUME NEW i \in Ips
            PROVE  Cardinality(OpenFrom(i)') <= config.WS_CONNECTION_LIMIT_PER_IP
        <4>1. CASE i = Ip[c]
          <5>1. Cardinality(Counted(i)') <= config.WS_CONNECTION_LIMIT_PER_IP
            BY <2>2, <4>1 DEF CountInv
          <5>2. OpenFrom(i)' \in SUBSET Counted(i)' /\ Counted(i)' \in SUBSET Conns
            BY DEF OpenFrom, Open, Counted
          <5> QED
            BY <1>0, <5>1, <5>2, FewerConnections
        <4>2. CASE i # Ip[c]
          <5>1. OpenFrom(i)' \in SUBSET OpenFrom(i) /\ OpenFrom(i) \in SUBSET Conns
            BY <1>0, <2>2, <4>2 DEF OpenFrom, Open
          <5> QED
            BY <1>0, <5>1, FewerConnections DEF ConnectionsWithinLimits
        <4> QED
          BY <4>1, <4>2
      <3> QED
        BY <3>3, <3>4
    <2> QED
      BY <1>5, <2>1, <2>2 DEF Upgrade
  <1> QED
    BY <1>2, <1>3, <1>4, <1>5, ConnectionsChange

\* Polls and the interval still serve the subscriptions after a subscription.
LEMMA SubscribeServes ==
  ASSUME TypeOK, PollsServeSubscriptions, NEW r \in Reqs, Subscribe(r), UNCHANGED config
  PROVE  PollsServeSubscriptions'
  <1> DEFINE t == ask[r].tag
             known == config.WS_SAME_SUB_FOR_SAME_EVENT /\ \E s \in SubsOf(ask[r].conn) : ask[s].tag = t
             polled == {p \in polls : ask[p].tag = t}
  <1>1. /\ subs' = (IF known THEN subs ELSE subs \cup {r})
        /\ polls' = (IF known \/ polled # {} THEN polls ELSE polls \cup {r})
        /\ polling' = (polling \/ ~known)
    BY DEF Subscribe
  <1>2. ask' = ask
    BY DEF ask
  <1> HIDE DEF known
  <1>3. polling' <=> polls' # {}
    BY <1>1 DEF PollsServeSubscriptions
  <1>4. {ask[p].tag : p \in polls'} = {ask[s].tag : s \in subs'}
    <2>1. {ask[p].tag : p \in polls} = {ask[s].tag : s \in subs}
      BY DEF PollsServeSubscriptions
    <2>2. CASE known
      BY <1>1, <2>1, <2>2
    <2>3. CASE ~known /\ polled # {}
      <3>1. \E p \in polls : ask[p].tag = ask[r].tag
        BY <2>3
      <3> QED
        BY <1>1, <2>1, <2>3, <3>1
    <2>4. CASE ~known /\ polled = {}
      <3>1. polls' = polls \cup {r} /\ subs' = subs \cup {r}
        BY <1>1, <2>4
      <3>2. \A p \in polls : \E s \in subs : ask[p].tag = ask[s].tag
        BY <2>1
      <3>3. \A s \in subs : \E p \in polls : ask[p].tag = ask[s].tag
        BY <2>1
      <3>4. /\ \A p \in polls' : \E s \in subs' : ask[p].tag = ask[s].tag
            /\ \A s \in subs' : \E p \in polls' : ask[p].tag = ask[s].tag
        BY <3>1, <3>2, <3>3
      <3> QED
        BY <3>4
    <2> QED
      BY <2>2, <2>3, <2>4
  <1>5. \A p, q \in polls' : ask[p].tag = ask[q].tag => p = q
    BY <1>1 DEF PollsServeSubscriptions
  <1> QED
    BY <1>2, <1>3, <1>4, <1>5 DEF PollsServeSubscriptions

\* Polls and the interval still serve what an unsubscription leaves.
LEMMA RemoveServes ==
  ASSUME TypeOK, PollsServeSubscriptions, NEW gone, Remove(gone), UNCHANGED config
  PROVE  PollsServeSubscriptions'
  <1>1. /\ subs' = subs \ gone
        /\ polls' = {p \in polls : \E r \in subs' : ask[r].tag = ask[p].tag}
        /\ polling' = (polling /\ polls' # {})
    BY DEF Remove
  <1>2. ask' = ask
    BY DEF ask
  <1>3. polling' <=> polls' # {}
    BY <1>1 DEF PollsServeSubscriptions
  <1>4. {ask[p].tag : p \in polls'} = {ask[s].tag : s \in subs'}
    <2>1. \A s \in subs' : \E p \in polls : ask[p].tag = ask[s].tag
      BY <1>1 DEF PollsServeSubscriptions
    <2> QED
      BY <1>1, <2>1
  <1>5. \A p, q \in polls' : ask[p].tag = ask[q].tag => p = q
    BY <1>1 DEF PollsServeSubscriptions
  <1> QED
    BY <1>2, <1>3, <1>4, <1>5 DEF PollsServeSubscriptions

\* No other step changes subscriptions, polls or the interval.
LEMMA PollsStep ==
  ASSUME TypeOK, PollsServeSubscriptions, [Next]_vars
  PROVE  PollsServeSubscriptions'
  <1>1. CASE UNCHANGED <<config, subs, polls, polling>>
    BY <1>1 DEF PollsServeSubscriptions, ask
  <1>2. ASSUME NEW c \in Conns, Connection(c) PROVE PollsServeSubscriptions'
    <2>1. CASE EthUnsubscribe(c)
      BY <2>1, RemoveServes DEF EthUnsubscribe
    <2>2. CASE HandleConnectionClose(c)
      BY <2>2, RemoveServes DEF HandleConnectionClose
    <2>3. CASE Accept(c) \/ Upgrade(c) \/ InactivityTTL(c) \/ SocketEnds(c)
      BY <1>1, <2>3 DEF Accept, Upgrade, InactivityTTL, SocketEnds, subVars, pollVars
    <2> QED
      BY <1>2, <2>1, <2>2, <2>3 DEF Connection
  <1>3. ASSUME NEW r \in Reqs, Request(r) PROVE PollsServeSubscriptions'
    <2>1. CASE Subscribe(r) /\ UNCHANGED config
      BY <2>1, SubscribeServes
    <2> QED
      BY <1>1, <1>3, <2>1 DEF Request, EthSubscribe, FiltersValid, FiltersInvalid, IncrementSubs, pollVars
  <1>4. CASE Poller
    BY <1>1, <1>4 DEF Poller, Tick, BlockNumber, PollAnswered, PollFails, subVars, pollVars
  <1>5. CASE NewBlock
    BY <1>1, <1>5 DEF NewBlock, subVars, pollVars
  <1>6. CASE UNCHANGED vars
    BY <1>1, <1>6 DEF vars, subVars, pollVars
  <1> QED
    BY <1>2, <1>3, <1>4, <1>5, <1>6 DEF Next

\* The requests and their connections stay consistent, and a closed connection
\* keeps no subscription but one that was late.
LEMMA RequestStep ==
  ASSUME TypeOK, RequestInv, ClosedIsUnsubscribed, [Next]_vars
  PROVE  RequestInv' /\ ClosedIsUnsubscribed'
  <1>0. /\ \A r \in Reqs : ask[r].conn \in Conns
        /\ conn \in [Conns -> {"none", "accepted", "open", "closing", "ended", "closed"}]
        /\ req \in [Reqs -> {"none", "validating", "refused", "subscribed", "done"}]
        /\ subs \subseteq Reqs /\ late \subseteq Reqs
    BY ConfigType DEF TypeOK
  <1>1. ask' = ask
    BY ConnectionsChange DEF ask
  <1>2. CASE UNCHANGED <<conn, req, subs, late>>
    BY <1>1, <1>2 DEF RequestInv, ClosedIsUnsubscribed
  <1>3. ASSUME NEW c \in Conns, Connection(c) PROVE RequestInv' /\ ClosedIsUnsubscribed'
    <2>1. CASE Accept(c) \/ Upgrade(c) \/ InactivityTTL(c) \/ SocketEnds(c)
      <3>1. UNCHANGED <<req, subs, late>>
        BY <2>1 DEF Accept, Upgrade, InactivityTTL, SocketEnds, subVars
      <3>2. \A d \in Conns : \/ conn'[d] = conn[d]
                             \/ conn[d] = "none" /\ conn'[d] = "accepted"
                             \/ conn[d] = "accepted" /\ conn'[d] \in {"open", "closing", "closed"}
                             \/ conn[d] \in {"open", "closing"} /\ conn'[d] \in {"closing", "ended"}
        BY <1>0, <2>1 DEF Accept, Upgrade, InactivityTTL, SocketEnds
      <3>3. RequestInv'
        BY <1>0, <1>1, <3>1, <3>2 DEF RequestInv
      <3>4. ClosedIsUnsubscribed'
        BY <1>0, <1>1, <3>1, <3>2 DEF RequestInv, ClosedIsUnsubscribed
      <3> QED
        BY <3>3, <3>4
    <2>2. CASE EthUnsubscribe(c)
      <3>1. subs' \subseteq subs /\ UNCHANGED <<conn, req, late>>
        BY <2>2 DEF EthUnsubscribe, Remove, wsVars
      <3> QED
        BY <1>0, <1>1, <3>1 DEF RequestInv, ClosedIsUnsubscribed
    <2>3. CASE HandleConnectionClose(c)
      <3>1. /\ conn[c] = "ended" /\ conn' = [conn EXCEPT ![c] = "closed"]
            /\ subs' = subs \ SubsOf(c)
            /\ late' = late \cup Validating(c)
            /\ req' = req
        BY <2>3 DEF HandleConnectionClose, Remove
      <3>2. RequestInv'
        BY <1>0, <1>1, <3>1 DEF RequestInv, Validating
      <3>3. ClosedIsUnsubscribed'
        BY <1>0, <1>1, <3>1 DEF ClosedIsUnsubscribed, SubsOf
      <3> QED
        BY <3>2, <3>3
    <2> QED
      BY <1>3, <2>1, <2>2, <2>3 DEF Connection
  <1>4. ASSUME NEW r \in Reqs, Request(r) PROVE RequestInv' /\ ClosedIsUnsubscribed'
    <2>1. UNCHANGED <<conn, late>>
      BY <1>4 DEF Request, EthSubscribe, FiltersValid, FiltersInvalid, IncrementSubs, wsVars
    <2>2. CASE EthSubscribe(r)
      <3>1. /\ conn[ask[r].conn] \in {"open", "closing"}
            /\ \/ subs' = subs /\ \E s \in {"refused", "validating"} : req' = [req EXCEPT ![r] = s]
               \/ subs' \subseteq subs \cup {r} /\ req' = [req EXCEPT ![r] = "done"]
        BY <2>2 DEF EthSubscribe, Subscribe
      <3>2. req[r] = "none" /\ r \notin subs
        BY <2>2 DEF EthSubscribe, RequestInv
      <3>3. RequestInv'
        BY <1>0, <1>1, <2>1, <3>1, <3>2 DEF RequestInv
      <3>4. ClosedIsUnsubscribed'
        BY <1>0, <1>1, <2>1, <3>1 DEF ClosedIsUnsubscribed
      <3> QED
        BY <3>3, <3>4
    <2>3. CASE FiltersValid(r)
      <3>1. req[r] = "validating" /\ req' = [req EXCEPT ![r] = "subscribed"] /\ subs' \subseteq subs \cup {r}
        BY <2>3 DEF FiltersValid, Subscribe
      <3>2. RequestInv'
        BY <1>0, <1>1, <2>1, <3>1 DEF RequestInv
      <3>3. ClosedIsUnsubscribed'
        BY <1>0, <1>1, <2>1, <3>1 DEF RequestInv, ClosedIsUnsubscribed
      <3> QED
        BY <3>2, <3>3
    <2>4. CASE FiltersInvalid(r) \/ IncrementSubs(r)
      <3>1. /\ subs' = subs
            /\ \/ req[r] = "validating" /\ req' = [req EXCEPT ![r] = "refused"]
               \/ req[r] = "subscribed" /\ req' = [req EXCEPT ![r] = "done"]
        BY <2>4 DEF FiltersInvalid, IncrementSubs
      <3> QED
        BY <1>0, <1>1, <2>1, <3>1 DEF RequestInv, ClosedIsUnsubscribed
    <2> QED
      BY <1>4, <2>2, <2>3, <2>4 DEF Request
  <1>5. CASE Poller
    BY <1>2, <1>5 DEF Poller, Tick, BlockNumber, PollAnswered, PollFails, wsVars, subVars
  <1>6. CASE NewBlock
    BY <1>2, <1>6 DEF NewBlock, wsVars, subVars
  <1>7. CASE UNCHANGED vars
    BY <1>2, <1>7 DEF vars, wsVars, subVars
  <1> QED
    BY <1>3, <1>4, <1>5, <1>6, <1>7 DEF Next

\* Sets of requests are finite, and how their sizes change.
LEMMA RequestSets ==
  ASSUME NEW S \in SUBSET Reqs
  PROVE  /\ IsFiniteSet(S) /\ Cardinality(S) \in Nat
         /\ \A r \in Reqs \ S : Cardinality(S \cup {r}) = Cardinality(S) + 1
         /\ \A r \in S : Cardinality(S \ {r}) = Cardinality(S) - 1
         /\ \A T \in SUBSET S : /\ Cardinality(T) \in Nat /\ Cardinality(T) <= Cardinality(S)
                                /\ Cardinality(S \ T) = Cardinality(S) - Cardinality(T)
  <1>1. IsFiniteSet(S) /\ Cardinality(S) \in Nat
    BY FS_Subset, FS_CardinalityType, WsAssumption
  <1>2. \A r \in Reqs \ S : Cardinality(S \cup {r}) = Cardinality(S) + 1
    BY <1>1, FS_AddElement
  <1>3. \A r \in S : Cardinality(S \ {r}) = Cardinality(S) - 1
    BY <1>1, FS_RemoveElement
  <1>4. ASSUME NEW T \in SUBSET S
        PROVE  /\ Cardinality(T) \in Nat /\ Cardinality(T) <= Cardinality(S)
               /\ Cardinality(S \ T) = Cardinality(S) - Cardinality(T)
    <2>1. IsFiniteSet(T) /\ Cardinality(T) <= Cardinality(S)
      BY <1>1, FS_Subset
    <2>2. Cardinality(T) \in Nat
      BY <2>1, FS_CardinalityType
    <2>3. Cardinality(S \ T) = Cardinality(S) - Cardinality(S \cap T)
      BY <1>1, FS_Difference
    <2>4. S \cap T = T
      OBVIOUS
    <2> QED
      BY <2>1, <2>2, <2>3, <2>4
  <1> QED
    BY <1>1, <1>2, <1>3, <1>4

\* What the requests of a connection are counted by stays the same.
LEMMA CountKept ==
  ASSUME NEW c \in Conns, BalanceOf(c), RoomOf(c), config' = config,
         count'[c] = count[c], SubsOf(c)' = SubsOf(c), Uncounted(c)' = Uncounted(c), Pending(c)' = Pending(c),
         c \in racing => c \in racing', conn'[c] # "closed" => conn[c] # "closed"
  PROVE  BalanceOf(c)' /\ RoomOf(c)'
  BY DEF BalanceOf, RoomOf

\* A subscribe request adds its subscription, unless its connection has one to
\* the tag that is used again.
LEMMA SubscribeCounts ==
  ASSUME TypeOK, RequestInv, NEW r \in Reqs, Subscribe(r), req[r] \notin {"subscribed", "done"}, config' = config
  PROVE  /\ r \notin subs /\ subs \subseteq subs' /\ subs' \subseteq subs \cup {r}
         /\ ~config.WS_SAME_SUB_FOR_SAME_EVENT => subs' = subs \cup {r}
         /\ \A d \in Conns : ask[r].conn # d => SubsOf(d)' = SubsOf(d)
         /\ LET c == ask[r].conn IN
              /\ Cardinality(SubsOf(c)') \in {Cardinality(SubsOf(c)), Cardinality(SubsOf(c)) + 1}
              /\ ~config.WS_SAME_SUB_FOR_SAME_EVENT => Cardinality(SubsOf(c)') = Cardinality(SubsOf(c)) + 1
  <1> DEFINE c == ask[r].conn
  <1>1. r \notin subs
    BY DEF RequestInv
  <1>2. subs \subseteq subs' /\ subs' \subseteq subs \cup {r}
        /\ (~config.WS_SAME_SUB_FOR_SAME_EVENT => subs' = subs \cup {r})
    BY DEF Subscribe
  <1>3. ask' = ask
    BY DEF ask
  <1>4. \A d \in Conns : c # d => SubsOf(d)' = SubsOf(d)
    BY <1>2, <1>3 DEF SubsOf
  <1>5. SubsOf(c) \in SUBSET Reqs /\ r \notin SubsOf(c)
    BY <1>1 DEF SubsOf, TypeOK
  <1>6. subs' = subs => SubsOf(c)' = SubsOf(c)
    BY <1>3 DEF SubsOf
  <1>7. subs' = subs \cup {r} => SubsOf(c)' = SubsOf(c) \cup {r}
    BY <1>3 DEF SubsOf
  <1>8. subs' = subs \/ subs' = subs \cup {r}
    BY <1>2
  <1>9. Cardinality(SubsOf(c) \cup {r}) = Cardinality(SubsOf(c)) + 1
    BY <1>5, RequestSets
  <1> QED
    BY <1>1, <1>2, <1>4, <1>6, <1>7, <1>8, <1>9

\* Only these steps touch the counts, the requests or the subscriptions, and a
\* closed connection stays closed.
LEMMA SubscriptionsChange ==
  ASSUME TypeOK, [Next]_vars
  PROVE  /\ config' = config
         /\ \A d \in Conns : conn[d] = "closed" => conn'[d] = "closed"
         /\ \/ UNCHANGED <<count, req, subs, racing>>
            \/ \E r \in Reqs : Request(r)
            \/ \E c \in Conns : EthUnsubscribe(c) \/ HandleConnectionClose(c)
  <1>1. config' = config
    BY ConnectionsChange
  <1>2. \A d \in Conns : conn[d] = "closed" => conn'[d] = "closed"
    BY ConnectionsChange DEF Accept, Upgrade, InactivityTTL, SocketEnds, HandleConnectionClose, TypeOK
  <1>3. ASSUME NEW c \in Conns, Connection(c)
        PROVE  UNCHANGED <<count, req, subs, racing>> \/ EthUnsubscribe(c) \/ HandleConnectionClose(c)
    BY <1>3 DEF Connection, Accept, Upgrade, InactivityTTL, SocketEnds, subVars
  <1>4. ASSUME Poller \/ NewBlock PROVE UNCHANGED <<count, req, subs, racing>>
    BY <1>4 DEF Poller, Tick, BlockNumber, PollAnswered, PollFails, NewBlock, subVars
  <1>5. ASSUME UNCHANGED vars PROVE UNCHANGED <<count, req, subs, racing>>
    BY <1>5 DEF vars, subVars
  <1> QED
    BY <1>1, <1>2, <1>3, <1>4, <1>5 DEF Next

\* eth_subscribe takes the room that there is for one more.
LEMMA EthSubscribeCounts ==
  ASSUME TypeOK, RequestInv, NEW d \in Conns, BalanceOf(d), RoomOf(d), NEW r \in Reqs, EthSubscribe(r)
  PROVE  BalanceOf(d)' /\ RoomOf(d)'
  <1> DEFINE c == ask[r].conn
  <1>1. /\ c \in Conns /\ config' = config /\ conn' = conn /\ ask' = ask
        /\ req \in [Reqs -> {"none", "validating", "refused", "subscribed", "done"}]
        /\ count \in [Conns -> Int] /\ req[r] = "none" /\ config.WS_SUBSCRIPTION_LIMIT \in Nat
    BY ConfigType DEF EthSubscribe, wsVars, ask, TypeOK
  <1>2. racing' = IF Pending(c) # {} THEN racing \cup {c} ELSE racing
    BY DEF EthSubscribe, Pending
  <1>3. /\ SubsOf(d) \in SUBSET Reqs /\ Uncounted(d) \in SUBSET Reqs /\ Pending(d) \in SUBSET Reqs
    BY DEF SubsOf, Uncounted, Validating, Pending, TypeOK
  <1>4. /\ Cardinality(SubsOf(d)) \in Nat /\ Cardinality(Uncounted(d)) \in Nat /\ Cardinality(Pending(d)) \in Nat
    BY <1>3, RequestSets
  <1>5. CASE ~WithinLimit(c) /\ req' = [req EXCEPT ![r] = "refused"] /\ UNCHANGED <<count, subs>>
    <2>1. Uncounted(d)' = Uncounted(d) /\ Pending(d)' = Pending(d) /\ SubsOf(d)' = SubsOf(d)
      BY <1>1, <1>5 DEF Uncounted, Validating, Pending, SubsOf
    <2> QED
      BY <1>1, <1>2, <1>5, <2>1, CountKept
  <1>6. CASE /\ WithinLimit(c) /\ Subscribe(r) /\ count' = [count EXCEPT ![c] = @ + 1]
             /\ req' = [req EXCEPT ![r] = "done"]
    <2>1. Uncounted(d)' = Uncounted(d) /\ Pending(d)' = Pending(d)
      BY <1>1, <1>6 DEF Uncounted, Validating, Pending
    <2>2. CASE c # d
      <3>1. SubsOf(d)' = SubsOf(d) /\ count'[d] = count[d]
        BY <1>1, <1>6, <2>2, SubscribeCounts
      <3> QED
        BY <1>1, <1>2, <2>1, <3>1, CountKept
    <2>3. CASE c = d
      <3>1. /\ count'[d] = count[d] + 1 /\ count[d] < config.WS_SUBSCRIPTION_LIMIT
            /\ count[d] \in Int
        BY <1>1, <1>6, <2>3 DEF WithinLimit
      <3>2. /\ Cardinality(SubsOf(d)') \in {Cardinality(SubsOf(d)), Cardinality(SubsOf(d)) + 1}
            /\ ~config.WS_SAME_SUB_FOR_SAME_EVENT => Cardinality(SubsOf(d)') = Cardinality(SubsOf(d)) + 1
        BY <1>1, <1>6, <2>3, SubscribeCounts
      <3>3. BalanceOf(d)'
        BY <1>1, <1>4, <2>1, <3>1, <3>2 DEF BalanceOf
      <3>4. d \notin racing' => Cardinality(Pending(d)') = 0
        BY <1>2, <2>1, <2>3, FS_EmptySet
      <3>5. RoomOf(d)'
        BY <1>1, <3>1, <3>4 DEF RoomOf
      <3> QED
        BY <3>3, <3>5
    <2> QED
      BY <2>2, <2>3
  <1>7. CASE WithinLimit(c) /\ req' = [req EXCEPT ![r] = "validating"] /\ UNCHANGED <<count, subs>>
    <2>1. Uncounted(d)' = Uncounted(d) /\ SubsOf(d)' = SubsOf(d)
      BY <1>1, <1>7 DEF Uncounted, SubsOf
    <2>2. CASE c # d
      <3>1. Pending(d)' = Pending(d)
        BY <1>1, <1>7, <2>2 DEF Uncounted, Validating, Pending
      <3> QED
        BY <1>1, <1>2, <1>7, <2>1, <3>1, CountKept
    <2>3. CASE c = d
      <3>1. Pending(d)' = Pending(d) \cup {r}
        BY <1>1, <1>7, <2>3 DEF Uncounted, Validating, Pending
      <3>2. Pending(d) = {} => Cardinality(Pending(d)') = 1
        BY <3>1, FS_Singleton
      <3>3. BalanceOf(d)'
        BY <1>1, <1>7, <2>1 DEF BalanceOf
      <3>4. RoomOf(d)'
        BY <1>1, <1>2, <1>7, <2>3, <3>2 DEF RoomOf, WithinLimit
      <3> QED
        BY <3>3, <3>4
    <2> QED
      BY <2>2, <2>3
  <1> QED
    BY <1>5, <1>6, <1>7 DEF EthSubscribe

\* What a validated request subscribes is counted by its incrementSubs.
LEMMA ValidatedCounts ==
  ASSUME TypeOK, RequestInv, NEW d \in Conns, BalanceOf(d), RoomOf(d), NEW r \in Reqs,
         FiltersValid(r) \/ FiltersInvalid(r) \/ IncrementSubs(r)
  PROVE  BalanceOf(d)' /\ RoomOf(d)'
  <1> DEFINE c == ask[r].conn
  <1>1. /\ c \in Conns /\ config' = config /\ conn' = conn /\ ask' = ask /\ racing' = racing
        /\ req \in [Reqs -> {"none", "validating", "refused", "subscribed", "done"}]
        /\ count \in [Conns -> Int] /\ config.WS_SUBSCRIPTION_LIMIT \in Nat
    BY ConfigType DEF FiltersValid, FiltersInvalid, IncrementSubs, wsVars, ask, TypeOK
  <1>2. /\ SubsOf(d) \in SUBSET Reqs /\ Uncounted(d) \in SUBSET Reqs /\ Pending(d) \in SUBSET Reqs
    BY DEF SubsOf, Uncounted, Validating, Pending, TypeOK
  <1>3. /\ Cardinality(SubsOf(d)) \in Nat /\ Cardinality(Uncounted(d)) \in Nat /\ Cardinality(Pending(d)) \in Nat
    BY <1>2, RequestSets
  <1>4. CASE FiltersValid(r)
    <2>1. req[r] = "validating" /\ req' = [req EXCEPT ![r] = "subscribed"] /\ count' = count /\ Subscribe(r)
      BY <1>4 DEF FiltersValid
    <2>2. Pending(d)' = Pending(d)
      BY <1>1, <2>1 DEF Uncounted, Validating, Pending
    <2>3. CASE c # d
      <3>1. SubsOf(d)' = SubsOf(d) /\ Uncounted(d)' = Uncounted(d)
        BY <1>1, <2>1, <2>3, SubscribeCounts DEF Uncounted
      <3> QED
        BY <1>1, <2>1, <2>2, <3>1, CountKept
    <2>4. CASE c = d
      <3>1. Uncounted(d)' = Uncounted(d) \cup {r} /\ r \notin Uncounted(d)
        BY <1>1, <2>1, <2>4 DEF Uncounted
      <3>2. Cardinality(Uncounted(d)') = Cardinality(Uncounted(d)) + 1
        BY <1>2, <3>1, RequestSets
      <3>3. /\ Cardinality(SubsOf(d)') \in {Cardinality(SubsOf(d)), Cardinality(SubsOf(d)) + 1}
            /\ ~config.WS_SAME_SUB_FOR_SAME_EVENT => Cardinality(SubsOf(d)') = Cardinality(SubsOf(d)) + 1
        BY <1>1, <2>1, <2>4, SubscribeCounts
      <3>4. BalanceOf(d)'
        BY <1>1, <1>3, <2>1, <3>2, <3>3 DEF BalanceOf
      <3>5. RoomOf(d)'
        BY <1>1, <2>1, <2>2 DEF RoomOf
      <3> QED
        BY <3>4, <3>5
    <2> QED
      BY <2>3, <2>4
  <1>5. CASE FiltersInvalid(r)
    <2>1. req[r] = "validating" /\ req' = [req EXCEPT ![r] = "refused"] /\ UNCHANGED <<count, subs>>
      BY <1>5 DEF FiltersInvalid
    <2>2. Uncounted(d)' = Uncounted(d) /\ SubsOf(d)' = SubsOf(d) /\ Pending(d)' \in SUBSET Pending(d)
      BY <1>1, <2>1 DEF Uncounted, Validating, Pending, SubsOf
    <2>3. Cardinality(Pending(d)') \in Nat /\ Cardinality(Pending(d)') <= Cardinality(Pending(d))
      BY <1>2, <2>2, RequestSets
    <2>4. BalanceOf(d)'
      BY <1>1, <2>1, <2>2 DEF BalanceOf
    <2>5. RoomOf(d)'
      BY <1>1, <1>3, <2>1, <2>3 DEF RoomOf
    <2> QED
      BY <2>4, <2>5
  <1>6. CASE IncrementSubs(r)
    <2>1. /\ req[r] = "subscribed" /\ req' = [req EXCEPT ![r] = "done"] /\ subs' = subs
          /\ count' = [count EXCEPT ![c] = @ + 1]
      BY <1>6 DEF IncrementSubs
    <2>2. SubsOf(d)' = SubsOf(d)
      BY <1>1, <2>1 DEF SubsOf
    <2>3. CASE c # d
      <3>1. Uncounted(d)' = Uncounted(d) /\ Pending(d)' = Pending(d) /\ count'[d] = count[d]
        BY <1>1, <2>1, <2>3 DEF Uncounted, Validating, Pending
      <3> QED
        BY <1>1, <2>2, <3>1, CountKept
    <2>4. CASE c = d
      <3>1. /\ Uncounted(d)' = Uncounted(d) \ {r} /\ r \in Uncounted(d)
            /\ Pending(d)' = Pending(d) \ {r} /\ r \in Pending(d)
        BY <1>1, <2>1, <2>4 DEF Uncounted, Validating, Pending
      <3>2. /\ Cardinality(Uncounted(d)') = Cardinality(Uncounted(d)) - 1
            /\ Cardinality(Pending(d)') = Cardinality(Pending(d)) - 1
        BY <1>2, <3>1, RequestSets
      <3>3. count'[d] = count[d] + 1 /\ count[d] \in Int
        BY <1>1, <2>1, <2>4
      <3>4. BalanceOf(d)'
        BY <1>1, <1>3, <2>2, <3>2, <3>3 DEF BalanceOf
      <3>5. RoomOf(d)'
        BY <1>1, <1>3, <3>2, <3>3 DEF RoomOf
      <3> QED
        BY <3>4, <3>5
    <2> QED
      BY <2>3, <2>4
  <1> QED
    BY <1>4, <1>5, <1>6

\* eth_unsubscribe takes from the count what it removes; the close event
\* removes all subscriptions and leaves the count of the dead connection.
LEMMA RemovalCounts ==
  ASSUME TypeOK, NEW d \in Conns, BalanceOf(d), RoomOf(d), NEW c \in Conns,
         EthUnsubscribe(c) \/ HandleConnectionClose(c)
  PROVE  BalanceOf(d)' /\ RoomOf(d)'
  <1>1. /\ config' = config /\ ask' = ask /\ racing' = racing /\ req' = req
        /\ count \in [Conns -> Int] /\ config.WS_SUBSCRIPTION_LIMIT \in Nat
    BY ConfigType DEF EthUnsubscribe, HandleConnectionClose, ask, TypeOK
  <1>2. Uncounted(d)' = Uncounted(d) /\ Pending(d)' = Pending(d)
    BY <1>1 DEF Uncounted, Validating, Pending
  <1>3. /\ SubsOf(d) \in SUBSET Reqs /\ Uncounted(d) \in SUBSET Reqs /\ Pending(d) \in SUBSET Reqs
    BY DEF SubsOf, Uncounted, Validating, Pending, TypeOK
  <1>4. /\ Cardinality(SubsOf(d)) \in Nat /\ Cardinality(Uncounted(d)) \in Nat /\ Cardinality(Pending(d)) \in Nat
    BY <1>3, RequestSets
  <1>5. CASE EthUnsubscribe(c)
    <2>1. PICK gone \in {{r} : r \in SubsOf(c)} \cup {SubsOf(c)} :
            subs' = subs \ gone /\ count' = [count EXCEPT ![c] = @ - Cardinality(gone)]
      BY <1>5 DEF EthUnsubscribe, Remove
    <2>2. gone \in SUBSET SubsOf(c) /\ conn' = conn
      BY <1>5 DEF EthUnsubscribe, wsVars
    <2>3. CASE c # d
      <3>1. SubsOf(d)' = SubsOf(d) /\ count'[d] = count[d]
        BY <1>1, <2>1, <2>2, <2>3 DEF SubsOf
      <3> QED
        BY <1>1, <1>2, <2>2, <3>1, CountKept
    <2>4. CASE c = d
      <3>1. SubsOf(d)' = SubsOf(d) \ gone /\ gone \in SUBSET SubsOf(d)
        BY <1>1, <2>1, <2>2, <2>4 DEF SubsOf
      <3>2. Cardinality(gone) \in Nat /\ Cardinality(SubsOf(d)') = Cardinality(SubsOf(d)) - Cardinality(gone)
        BY <1>3, <3>1, RequestSets
      <3>3. count'[d] = count[d] - Cardinality(gone) /\ count[d] \in Int
        BY <1>1, <2>1, <2>4
      <3>4. BalanceOf(d)'
        BY <1>1, <1>2, <1>4, <2>2, <3>2, <3>3 DEF BalanceOf
      <3>5. RoomOf(d)'
        BY <1>1, <1>2, <1>4, <3>2, <3>3 DEF RoomOf
      <3> QED
        BY <3>4, <3>5
    <2> QED
      BY <2>3, <2>4
  <1>6. CASE HandleConnectionClose(c)
    <2>1. subs' = subs \ SubsOf(c) /\ count' = count /\ conn' = [conn EXCEPT ![c] = "closed"]
      BY <1>6 DEF HandleConnectionClose, Remove
    <2>2. CASE c # d
      <3>1. SubsOf(d)' = SubsOf(d) /\ conn'[d] = conn[d]
        BY <1>1, <2>1, <2>2 DEF SubsOf, TypeOK
      <3> QED
        BY <1>1, <1>2, <2>1, <3>1, CountKept
    <2>3. CASE c = d
      <3>1. SubsOf(d)' = {} /\ conn'[d] = "closed"
        BY <1>1, <2>1, <2>3 DEF SubsOf, TypeOK
      <3>2. Cardinality(SubsOf(d)') = 0
        BY <3>1, FS_EmptySet
      <3>3. BalanceOf(d)'
        BY <1>1, <1>2, <1>4, <2>1, <3>1, <3>2 DEF BalanceOf
      <3>4. RoomOf(d)'
        BY <1>1, <1>2, <2>1 DEF RoomOf
      <3> QED
        BY <3>3, <3>4
    <2> QED
      BY <2>2, <2>3
  <1> QED
    BY <1>5, <1>6

\* Every step keeps the count of every connection in balance.
LEMMA BalanceStep ==
  ASSUME TypeOK, RequestInv, BalanceInv, [Next]_vars
  PROVE  BalanceInv'
  <1> SUFFICES ASSUME NEW d \in Conns PROVE BalanceOf(d)' /\ RoomOf(d)'
    BY DEF BalanceInv
  <1>1. BalanceOf(d) /\ RoomOf(d)
    BY DEF BalanceInv
  <1>2. CASE UNCHANGED <<count, req, subs, racing>>
    <2>1. config' = config /\ ask' = ask /\ (conn'[d] # "closed" => conn[d] # "closed")
      BY SubscriptionsChange DEF ask
    <2>2. Uncounted(d)' = Uncounted(d) /\ Pending(d)' = Pending(d) /\ SubsOf(d)' = SubsOf(d)
      BY <1>2, <2>1 DEF Uncounted, Validating, Pending, SubsOf
    <2> QED
      BY <1>1, <1>2, <2>1, <2>2, CountKept
  <1>3. ASSUME NEW r \in Reqs, Request(r) PROVE BalanceOf(d)' /\ RoomOf(d)'
    BY <1>1, <1>3, EthSubscribeCounts, ValidatedCounts DEF Request
  <1>4. ASSUME NEW c \in Conns, EthUnsubscribe(c) \/ HandleConnectionClose(c) PROVE BalanceOf(d)' /\ RoomOf(d)'
    BY <1>1, <1>4, RemovalCounts
  <1> QED
    BY <1>2, <1>3, <1>4, SubscriptionsChange

\* Unsubscribing, a request that fails and all that is not about polls keep
\* what was sent.
LEMMA FeedKept ==
  ASSUME FetchInv, JoinInv, LogsReachSubscribers, ask' = ask,
         Subscribed \subseteq Subscribed', subs' \subseteq subs, polls' \subseteq polls, fetches' \subseteq fetches,
         UNCHANGED <<joined, cursor, first, overlap, latest, sent>>
  PROVE  FetchInv' /\ JoinInv' /\ LogsReachSubscribers'
  <1>1. FetchInv'
    BY DEF FetchInv
  <1>2. JoinInv'
    BY DEF JoinInv
  <1>3. LogsReachSubscribers'
    BY DEF LogsReachSubscribers
  <1> QED
    BY <1>1, <1>2, <1>3

\* A new subscription starts at the cursor of the poll it finds, or with a poll
\* that has no answer.
LEMMA SubscribeFeed ==
  ASSUME TypeOK, RequestInv, PollsServeSubscriptions, FetchInv, JoinInv, LogsReachSubscribers, NEW r \in Reqs, Subscribe(r),
         r \notin Subscribed, ask' = ask, Subscribed' = Subscribed \cup {r},
         UNCHANGED <<cursor, first, overlap, latest, fetches, sent>>
  PROVE  FetchInv' /\ JoinInv' /\ LogsReachSubscribers'
  <1> DEFINE polled == {p \in polls : ask[p].tag = ask[r].tag}
             chosen == CHOOSE p \in polled : TRUE
             known == config.WS_SAME_SUB_FOR_SAME_EVENT /\ \E s \in SubsOf(ask[r].conn) : ask[s].tag = ask[r].tag
  <1>1. /\ subs' \subseteq subs \cup {r}
        /\ polls' = (IF known \/ polled # {} THEN polls ELSE polls \cup {r})
        /\ joined' = [joined EXCEPT ![r] = IF polled # {} THEN cursor[chosen] ELSE 0]
    BY DEF Subscribe
  <1>2. /\ joined \in [Reqs -> Nat] /\ cursor \in [Reqs -> Nat] /\ first \in [Reqs -> Nat]
        /\ subs \subseteq Reqs /\ polls \subseteq Reqs
    BY DEF TypeOK
  <1>3. \A p \in polled : p = chosen
    <2> SUFFICES ASSUME NEW p \in polled PROVE p = chosen
      OBVIOUS
    <2>1. chosen \in polled
      OBVIOUS
    <2> QED
      BY <2>1 DEF PollsServeSubscriptions
  <1>4. \A s \in subs : \E p \in polls : ask[p].tag = ask[s].tag
    BY DEF PollsServeSubscriptions
  <1>5. cursor[r] = 0 /\ first[r] = 0
    BY DEF FetchInv
  <1>6. /\ joined'[r] = (IF polled # {} THEN cursor[chosen] ELSE 0)
        /\ \A s \in Reqs : s # r => joined'[s] = joined[s]
    BY <1>1, <1>2
  <1>7. polls' \subseteq polls \cup {r}
    BY <1>1
  <1>8. polled # {} => polls' = polls
    BY <1>1
  <1> HIDE DEF known, chosen
  <1>9. FetchInv'
    <2>1. \A f \in fetches : f.poll # r
      BY DEF FetchInv
    <2>2. polls' \subseteq Subscribed'
      BY <1>7 DEF FetchInv
    <2>3. \A f \in fetches : f.poll \in polls' \ overlap' => f.poll \in polls \ overlap
      BY <1>7, <2>1
    <2> QED
      BY <2>2, <2>3 DEF FetchInv
  \* What holds between the new subscription, or the new poll, and the others.
  <1>10. ASSUME NEW s \in subs', NEW p \in polls', ask[p].tag = ask[s].tag
         PROVE  \/ s \in subs /\ s # r /\ p \in polls
                \/ s = r /\ polled # {} /\ p = chosen
                \/ s = r /\ polled = {} /\ p = r
                \/ s = r /\ s \in subs
    <2>1. CASE s # r
      <3>1. s \in subs
        BY <1>1, <2>1
      <3>2. PICK q \in polls : ask[q].tag = ask[s].tag
        BY <1>4, <3>1
      <3>3. p \in polls
        <4>1. CASE p = r
          <5>1. q \in polled
            BY <1>10, <3>2, <4>1
          <5> QED
            BY <1>8, <5>1
        <4> QED
          BY <1>7, <4>1
      <3> QED
        BY <2>1, <3>1, <3>3
    <2>2. CASE s = r /\ p \in polls
      <3>1. p \in polled
        BY <1>10, <2>2
      <3> QED
        BY <1>3, <2>2, <3>1
    <2>3. CASE s = r /\ p \notin polls
      <3>1. p = r /\ polls' # polls
        BY <1>7, <2>3
      <3> QED
        BY <1>8, <2>3, <3>1
    <2> QED
      BY <2>1, <2>2, <2>3
  <1>11. r \notin subs
    BY DEF Subscribed, RequestInv
  <1>12. JoinInv'
    <2> SUFFICES ASSUME NEW s \in subs', NEW p \in polls', ask[p].tag = ask[s].tag, joined'[s] # 0
                 PROVE  cursor[p] # 0
      BY DEF JoinInv
    <2>1. CASE s \in subs /\ s # r /\ p \in polls
      BY <1>2, <1>6, <2>1 DEF JoinInv
    <2> QED
      BY <1>6, <1>10, <1>11, <2>1
  <1>13. LogsReachSubscribers'
    <2> SUFFICES ASSUME NEW s \in subs', NEW p \in polls', ask[s].tag \in LogTags, ask[p].tag = ask[s].tag,
                        p \notin overlap,
                        NEW b \in (IF joined'[s] # 0 THEN joined'[s] ELSE first[p]) .. (cursor[p] - 1)
                 PROVE  <<s, b>> \in sent
      BY DEF LogsReachSubscribers
    <2>1. CASE s \in subs /\ s # r /\ p \in polls
      <3>1. joined'[s] = joined[s]
        BY <1>2, <1>6, <2>1
      <3> QED
        BY <2>1, <3>1 DEF LogsReachSubscribers
    <2>2. CASE s = r /\ polled # {} /\ p = chosen
      <3>1. p \in Reqs
        BY <1>2, <1>8, <2>2
      <3>2. joined'[s] = cursor[p] /\ (cursor[p] = 0 => first[p] = 0) /\ cursor[p] \in Nat
        BY <1>2, <1>6, <2>2, <3>1 DEF FetchInv
      <3> QED
        BY <3>2
    <2>3. CASE s = r /\ polled = {} /\ p = r
      BY <1>5, <1>6, <2>3
    <2> QED
      BY <1>10, <1>11, <2>1, <2>2, <2>3
  <1> QED
    BY <1>9, <1>12, <1>13

\* The block number starts one request of each poll, from its cursor.
LEMMA BlockNumberFeed ==
  ASSUME TypeOK, FetchInv, JoinInv, LogsReachSubscribers, BlockNumber
  PROVE  FetchInv' /\ JoinInv' /\ LogsReachSubscribers'
  <1>1. UNCHANGED <<config, req, subs, joined, polls, cursor, first, sent>>
    BY DEF BlockNumber, subVars
  <1>2. ask' = ask /\ Subscribed' = Subscribed
    BY <1>1 DEF ask, Subscribed
  <1>3. CASE UNCHANGED <<latest, fetches, overlap>>
    BY <1>1, <1>2, <1>3, FeedKept
  <1>4. ASSUME NEW b \in {head - 1, head} \ {0}, latest' = b,
               fetches' = fetches \cup
                 {[poll |-> p, from |-> IF cursor[p] # 0 THEN cursor[p] ELSE b,
                   start |-> head, n |-> ticks - waiting] : p \in polls},
               overlap' = overlap \cup {p \in polls : \E f \in fetches : f.poll = p}
        PROVE  FetchInv' /\ JoinInv' /\ LogsReachSubscribers'
    <2> DEFINE asked(p) == [poll |-> p, from |-> IF cursor[p] # 0 THEN cursor[p] ELSE b,
                            start |-> head, n |-> ticks - waiting]
    <2>1. \A f \in fetches' : f \in fetches \/ \E p \in polls : f = asked(p)
      BY <1>4
    <2>2. \A p \in polls : /\ asked(p).poll = p /\ asked(p).start = head
                           /\ asked(p).from = IF cursor[p] # 0 THEN cursor[p] ELSE b
      OBVIOUS
    <2> HIDE DEF asked
    <2>3. b # 0 /\ b <= head /\ b \in Nat /\ polls \subseteq Reqs
      <3>1. head \in Nat /\ head >= 1
        BY ConfigType DEF TypeOK
      <3> QED
        BY <3>1 DEF TypeOK
    <2>4. \A f \in fetches : f.poll \notin polls \ overlap'
      BY <1>4
    <2>5. \A f \in fetches' : f.poll \in polls \ overlap' => f = asked(f.poll)
      BY <2>1, <2>2, <2>4
    <2>6. \A f \in fetches' : f.poll \in Subscribed /\ f.from # 0
      <3> SUFFICES ASSUME NEW p \in polls PROVE asked(p).poll \in Subscribed /\ asked(p).from # 0
        BY <2>1 DEF FetchInv
      <3> QED
        BY <2>2, <2>3 DEF FetchInv
    <2>7. \A f \in fetches' : f.poll \in polls \ overlap' =>
            /\ latest' <= f.start
            /\ f.from = IF cursor[f.poll] # 0 THEN cursor[f.poll] ELSE latest'
      BY <1>4, <2>2, <2>3, <2>5
    <2>8. \A f, g \in fetches' : f.poll \in polls \ overlap' /\ f.poll = g.poll => f = g
      BY <2>5
    <2>9. FetchInv'
      BY <1>1, <1>2, <1>4, <2>3, <2>6, <2>7, <2>8 DEF FetchInv
    <2>10. JoinInv'
      BY <1>1, <1>2 DEF JoinInv
    <2>11. LogsReachSubscribers'
      BY <1>1, <1>2, <1>4 DEF LogsReachSubscribers
    <2> QED
      BY <2>9, <2>10, <2>11
  <1> QED
    BY <1>3, <1>4 DEF BlockNumber

\* An answer moves the cursor no further than its data goes.
LEMMA AnswerFeed ==
  ASSUME TypeOK, FetchInv, JoinInv, LogsReachSubscribers, PollAnswered
  PROVE  FetchInv' /\ JoinInv' /\ LogsReachSubscribers'
  <1>1. /\ UNCHANGED <<config, req, subs, joined, polls, overlap, latest>>
        /\ ask' = ask /\ Subscribed' = Subscribed
    BY DEF PollAnswered, subVars, ask, Subscribed
  <1>9. PICK f \in fetches : \E to \in f.start .. head :
          /\ fetches' = fetches \ {f}
          /\ cursor' = [cursor EXCEPT ![f.poll] = latest]
          /\ first' = [first EXCEPT ![f.poll] = IF @ = 0 THEN f.from ELSE @]
          /\ sent' = sent \cup (Subscribers(ask[f.poll].tag) \X Data(f, to))
    BY DEF PollAnswered
  <1>2. PICK to \in f.start .. head :
          /\ fetches' = fetches \ {f}
          /\ cursor' = [cursor EXCEPT ![f.poll] = latest]
          /\ first' = [first EXCEPT ![f.poll] = IF @ = 0 THEN f.from ELSE @]
          /\ sent' = sent \cup (Subscribers(ask[f.poll].tag) \X Data(f, to))
    BY <1>9
  <1> DEFINE p == f.poll
  <1>3. /\ p \in Reqs /\ f.from \in Nat /\ f.start \in Nat /\ latest \in Nat /\ head \in Nat
        /\ cursor \in [Reqs -> Nat] /\ first \in [Reqs -> Nat] /\ joined \in [Reqs -> Nat]
        /\ subs \subseteq Reqs /\ polls \subseteq Reqs
    BY ConfigType DEF TypeOK, Fetch
  <1>4. latest # 0 /\ f.from # 0 /\ p \in Subscribed
    BY DEF FetchInv
  <1>5. /\ cursor'[p] = latest /\ \A q \in Reqs \ {p} : cursor'[q] = cursor[q]
        /\ first'[p] = (IF first[p] = 0 THEN f.from ELSE first[p])
        /\ \A q \in Reqs \ {p} : first'[q] = first[q]
    BY <1>2, <1>3
  <1>6. FetchInv'
    <2>1. \A q \in Reqs : (cursor'[q] = 0 <=> first'[q] = 0) /\ (cursor'[q] # 0 => q \in Subscribed)
      BY <1>3, <1>4, <1>5 DEF FetchInv
    <2>2. \A g \in fetches' : g.poll \in polls \ overlap => g.poll # p /\ g.poll \in Reqs
      BY <1>2, <1>3 DEF FetchInv
    <2>3. \A g \in fetches' : g.poll \in polls \ overlap =>
            g.from = IF cursor'[g.poll] # 0 THEN cursor'[g.poll] ELSE latest
      BY <1>2, <1>5, <2>2 DEF FetchInv
    <2>4. /\ fetches' # {} => latest # 0
          /\ polls \subseteq Subscribed
          /\ \A g \in fetches' : g.poll \in Subscribed /\ g.from # 0
          /\ \A g \in fetches' : g.poll \in polls \ overlap => latest <= g.start
          /\ \A g, h \in fetches' : g.poll \in polls \ overlap /\ g.poll = h.poll => g = h
      BY <1>2 DEF FetchInv
    <2> QED
      BY <1>1, <2>1, <2>3, <2>4 DEF FetchInv
  <1>7. JoinInv'
    <2> SUFFICES ASSUME NEW r \in subs, NEW q \in polls, ask[q].tag = ask[r].tag, joined[r] # 0
                 PROVE  cursor'[q] # 0
      BY <1>1 DEF JoinInv
    <2>1. cursor[q] # 0
      BY DEF JoinInv
    <2> QED
      BY <1>3, <1>4, <1>5, <2>1
  <1>8. LogsReachSubscribers'
    <2> SUFFICES ASSUME NEW r \in subs, NEW q \in polls, ask[r].tag \in LogTags, ask[q].tag = ask[r].tag,
                        q \notin overlap,
                        NEW b \in (IF joined[r] # 0 THEN joined[r] ELSE first'[q]) .. (cursor'[q] - 1)
                 PROVE  <<r, b>> \in sent'
      BY <1>1 DEF LogsReachSubscribers
    <2>1. sent \subseteq sent'
      BY <1>2
    <2>2. CASE q # p
      <3>1. first'[q] = first[q] /\ cursor'[q] = cursor[q]
        BY <1>3, <1>5, <2>2
      <3> QED
        BY <2>1, <3>1 DEF LogsReachSubscribers
    <2>3. CASE q = p
      <3>1. latest <= f.start /\ f.from = IF cursor[q] # 0 THEN cursor[q] ELSE latest
        BY <2>3 DEF FetchInv
      <3>2. CASE cursor[q] = 0
        <4>1. joined[r] = 0 /\ first[q] = 0
          BY <1>3, <3>2 DEF JoinInv, FetchInv
        <4>2. first'[q] = latest /\ cursor'[q] = latest
          BY <1>5, <2>3, <3>1, <3>2, <4>1
        <4> QED
          BY <1>3, <4>1, <4>2
      <3>3. CASE cursor[q] # 0
        <4>1. first[q] # 0 /\ f.from = cursor[q] /\ cursor[q] \in Nat
          BY <1>3, <3>1, <3>3 DEF FetchInv
        <4>2. first'[q] = first[q] /\ cursor'[q] = latest
          BY <1>5, <2>3, <4>1
        <4>3. /\ b \in Int /\ b <= latest - 1
              /\ b >= (IF joined[r] # 0 THEN joined[r] ELSE first[q])
          BY <1>3, <4>2
        <4>4. CASE b <= cursor[q] - 1
          <5>1. b \in (IF joined[r] # 0 THEN joined[r] ELSE first[q]) .. (cursor[q] - 1)
            BY <1>3, <4>1, <4>3, <4>4
          <5> QED
            BY <2>1, <5>1 DEF LogsReachSubscribers
        <4>5. CASE b >= cursor[q]
          <5>1. b \in f.from .. to
            BY <1>3, <3>1, <4>1, <4>3, <4>5
          <5>2. b \in Data(f, to)
            BY <2>3, <5>1 DEF Data
          <5>3. r \in Subscribers(ask[f.poll].tag)
            BY <2>3 DEF Subscribers
          <5> QED
            BY <1>2, <5>2, <5>3
        <4> QED
          BY <4>1, <4>3, <4>4, <4>5
      <3> QED
        BY <3>2, <3>3
    <2> QED
      BY <2>2, <2>3
  <1> QED
    BY <1>6, <1>7, <1>8

\* Every step keeps what the poller owes its subscribers.
LEMMA FeedStep ==
  ASSUME TypeOK, RequestInv, PollsServeSubscriptions, FetchInv, JoinInv, LogsReachSubscribers, [Next]_vars
  PROVE  FetchInv' /\ JoinInv' /\ LogsReachSubscribers'
  <1>0. ask' = ask /\ req \in [Reqs -> {"none", "validating", "refused", "subscribed", "done"}]
    BY ConnectionsChange DEF ask, TypeOK
  <1>1. CASE UNCHANGED <<req, subs, joined, polls, cursor, first, overlap, latest, fetches, sent>>
    <2>1. Subscribed' = Subscribed
      BY <1>1 DEF Subscribed
    <2> QED
      BY <1>0, <1>1, <2>1, FeedKept
  <1>2. ASSUME NEW c \in Conns, Connection(c)
        PROVE  FetchInv' /\ JoinInv' /\ LogsReachSubscribers'
    <2>1. CASE Accept(c) \/ Upgrade(c) \/ InactivityTTL(c) \/ SocketEnds(c)
      BY <1>1, <2>1 DEF Accept, Upgrade, InactivityTTL, SocketEnds, subVars, pollVars, feedVars
    <2>2. CASE EthUnsubscribe(c) \/ HandleConnectionClose(c)
      <3>1. subs' \subseteq subs /\ polls' \subseteq polls
        BY <2>2 DEF EthUnsubscribe, HandleConnectionClose, Remove
      <3>2. UNCHANGED <<req, joined, cursor, first, overlap, latest, fetches, sent>>
        BY <2>2 DEF EthUnsubscribe, HandleConnectionClose, feedVars
      <3>3. Subscribed' = Subscribed
        BY <3>2 DEF Subscribed
      <3> QED
        BY <1>0, <3>1, <3>2, <3>3, FeedKept
    <2> QED
      BY <1>2, <2>1, <2>2 DEF Connection
  <1>3. ASSUME NEW r \in Reqs, Request(r)
        PROVE  FetchInv' /\ JoinInv' /\ LogsReachSubscribers'
    <2>1. UNCHANGED <<cursor, first, overlap, latest, fetches, sent>>
      BY <1>3 DEF Request, EthSubscribe, FiltersValid, FiltersInvalid, IncrementSubs, pollVars, feedVars
    <2>2. CASE /\ Subscribe(r) /\ r \notin Subscribed
               /\ \E s \in {"subscribed", "done"} : req' = [req EXCEPT ![r] = s]
      <3>1. Subscribed' = Subscribed \cup {r}
        BY <1>0, <2>2 DEF Subscribed
      <3> QED
        BY <1>0, <2>1, <2>2, <3>1, SubscribeFeed
    <2>3. CASE UNCHANGED <<subs, joined, polls>>
      <3>1. Subscribed \subseteq Subscribed'
        BY <1>0, <1>3 DEF Request, EthSubscribe, FiltersValid, FiltersInvalid, IncrementSubs, Subscribed
      <3> QED
        BY <1>0, <2>1, <2>3, <3>1, FeedKept
    <2> QED
      BY <1>3, <2>2, <2>3 DEF Request, EthSubscribe, FiltersValid, FiltersInvalid, IncrementSubs, pollVars, Subscribed
  <1>4. CASE Poller
    <2>1. CASE Tick
      BY <1>1, <2>1 DEF Tick, subVars, pollVars
    <2>2. CASE PollFails
      <3>1. fetches' \subseteq fetches /\ UNCHANGED <<req, subs, joined, polls, cursor, first, overlap, latest, sent>>
        BY <2>2 DEF PollFails, subVars, pollVars
      <3>2. Subscribed' = Subscribed
        BY <3>1 DEF Subscribed
      <3> QED
        BY <1>0, <3>1, <3>2, FeedKept
    <2> QED
      BY <1>4, <2>1, <2>2, BlockNumberFeed, AnswerFeed DEF Poller
  <1>5. CASE NewBlock
    BY <1>1, <1>5 DEF NewBlock, subVars, pollVars
  <1>6. CASE UNCHANGED vars
    BY <1>1, <1>6 DEF vars, subVars, pollVars, feedVars
  <1> QED
    BY <1>2, <1>3, <1>4, <1>5, <1>6 DEF Next

\* The inductive invariant holds in every reachable state of the server.
THEOREM Invariance == Spec => []IInv
  <1>1. Init => IInv
    BY InitIInv
  <1>2. IInv /\ [Next]_vars => IInv'
    <2> SUFFICES ASSUME IInv, [Next]_vars PROVE IInv'
      OBVIOUS
    <2>1. TypeOK' /\ CountInv'
      BY TypeStep, CountStep DEF IInv
    <2>2. ConnectionsWithinLimits'
      BY <2>1, LimitsStep DEF IInv
    <2>3. PollsServeSubscriptions'
      BY PollsStep DEF IInv
    <2>4. RequestInv' /\ ClosedIsUnsubscribed'
      BY RequestStep DEF IInv
    <2>5. BalanceInv'
      BY BalanceStep DEF IInv
    <2>6. FetchInv' /\ JoinInv' /\ LogsReachSubscribers'
      BY FeedStep DEF IInv
    <2> QED
      BY <2>1, <2>2, <2>3, <2>4, <2>5, <2>6 DEF IInv
  <1> QED
    BY <1>1, <1>2, PTL DEF Spec

\* Type correctness; in particular the count of an address, kept by
\* incrementCounters and decrementCounters, never becomes negative.
THEOREM TypeCorrectness == Spec => []TypeOK
  <1>1. IInv => TypeOK
    BY DEF IInv
  <1> QED
    BY <1>1, Invariance, PTL

\* applyLimits never lets more connections through than the limits allow.
THEOREM LimitsHold == Spec => []ConnectionsWithinLimits
  <1>1. IInv => ConnectionsWithinLimits
    BY DEF IInv
  <1> QED
    BY <1>1, Invariance, PTL

\* The PollerService polls exactly for the tags of the SubscriptionService.
THEOREM PollsServe == Spec => []PollsServeSubscriptions
  <1>1. IInv => PollsServeSubscriptions
    BY DEF IInv
  <1> QED
    BY <1>1, Invariance, PTL

\* handleConnectionClose leaves no subscription behind, and the only way to
\* get one afterwards is a request that was being validated.
THEOREM ClosedUnsubscribed == Spec => []ClosedIsUnsubscribed
  <1>1. IInv => ClosedIsUnsubscribed
    BY DEF IInv
  <1> QED
    BY <1>1, Invariance, PTL

\* What the limiter of subscriptions is told never falls below what there is,
\* and only requests that overlap at their validation exceed the limit.
THEOREM SubscriptionsCounted == Spec => []SubscriptionsAreCounted
  <1>1. IInv => SubscriptionsAreCounted
    <2> SUFFICES ASSUME IInv, NEW c \in Conns
                 PROVE  /\ BalanceOf(c)
                        /\ Cardinality(SubsOf(c)) > config.WS_SUBSCRIPTION_LIMIT => c \in racing
      BY DEF SubscriptionsAreCounted, BalanceOf
    <2>1. BalanceOf(c) /\ RoomOf(c) /\ TypeOK
      BY DEF IInv, BalanceInv
    <2>2. SubsOf(c) \in SUBSET Reqs /\ Pending(c) \in SUBSET Reqs /\ Uncounted(c) \in SUBSET Pending(c)
      BY <2>1 DEF SubsOf, Validating, Uncounted, Pending, TypeOK
    <2>3. /\ Cardinality(SubsOf(c)) \in Nat /\ Cardinality(Pending(c)) \in Nat
          /\ Cardinality(Uncounted(c)) \in Nat /\ Cardinality(Uncounted(c)) <= Cardinality(Pending(c))
      BY <2>2, RequestSets
    <2>4. count[c] \in Int /\ config.WS_SUBSCRIPTION_LIMIT \in Nat
      BY <2>1, ConfigType DEF TypeOK
    <2> QED
      BY <2>1, <2>3, <2>4 DEF BalanceOf, RoomOf
  <1> QED
    BY <1>1, Invariance, PTL

\* No log between where a subscriber joined and the cursor of its poll is
\* missed, whichever requests fail and however late they answer.
THEOREM LogsReach == Spec => []LogsReachSubscribers
  <1>1. IInv => LogsReachSubscribers
    BY DEF IInv
  <1> QED
    BY <1>1, Invariance, PTL

-----------------------------------------------------------------------------
(* The logs of the mirror node, for a chain of any blocks. *)

ChainOK == chain \in Seq(BlockContents) /\ Len(chain) \in Nat \ {0}

(* What is at a place of the chain. *)
LEMMA BlockAt ==
  ASSUME ChainOK, NEW n \in 0 .. Len(chain) - 1
  PROVE  /\ n + 1 \in DOMAIN chain
         /\ DOMAIN chain[n + 1] = 1 .. Len(chain[n + 1]) /\ Len(chain[n + 1]) \in 1 .. Slots
         /\ \A i \in DOMAIN chain[n + 1] :
              IsFiniteSet(DOMAIN chain[n + 1][i].logs) /\ DOMAIN chain[n + 1][i].logs \subseteq Nat
  <1>1. n + 1 \in DOMAIN chain
    BY DEF ChainOK
  <1>2. chain[n + 1] \in BlockContents
    BY <1>1 DEF ChainOK
  <1> QED
    BY <1>1, <1>2, MirrorNodeAssumption

LEMMA SlotsType == Slots \in Nat \ {0} /\ PageSize \in Nat \ {0} /\ RetryCount \in Nat \ {0}
  BY MirrorNodeAssumption

(* A view of whole blocks. *)
LEMMA WholeView ==
  ASSUME NEW v \in Nat
  PROVE  Closed(2 * v) = v /\ Seen(2 * v) = v
  BY DEF Closed, Seen

(* A block has its slots before those of the next. *)
LEMMA SlotsOfBlocks ==
  ASSUME NEW n \in Nat, NEW m \in Nat, n < m
  PROVE  n * Slots \in Nat /\ m * Slots \in Nat /\ n * Slots + Slots <= m * Slots
  <1>1. PICK d \in Nat : m = n + 1 + d
    <2>1. m - n - 1 \in Nat /\ m = n + 1 + (m - n - 1)
      OBVIOUS
    <2> QED
      BY <2>1
  <1>2. m * Slots = n * Slots + Slots + d * Slots
    BY <1>1, SlotsType
  <1>3. d * Slots \in Nat /\ n * Slots \in Nat
    BY SlotsType
  <1>4. m * Slots \in Nat
    BY SlotsType
  <1> QED
    BY <1>2, <1>3, <1>4, SlotsType

(* The log k of the transaction i of the block n. *)
IsLog(log) ==
    \E n \in 0 .. Len(chain) - 1 : \E i \in DOMAIN chain[n + 1] : \E k \in DOMAIN chain[n + 1][i].logs : log = <<n, i, k>>

LEMMA LogParts ==
  ASSUME ChainOK, NEW log, IsLog(log)
  PROVE  /\ log = <<log[1], log[2], log[3]>>
         /\ log[1] \in 0 .. Len(chain) - 1 /\ log[2] \in 1 .. Len(chain[log[1] + 1]) /\ log[2] \in 1 .. Slots
         /\ log[3] \in Nat /\ HasLogs(log[1])
         /\ LogTime(log) = log[1] * Slots + log[2] - 1
  <1>1. PICK n \in 0 .. Len(chain) - 1 : \E i \in DOMAIN chain[n + 1] : \E k \in DOMAIN chain[n + 1][i].logs : log = <<n, i, k>>
    BY DEF IsLog
  <1>a. PICK i \in DOMAIN chain[n + 1] : \E k \in DOMAIN chain[n + 1][i].logs : log = <<n, i, k>>
    BY <1>1
  <1>b. PICK k \in DOMAIN chain[n + 1][i].logs : log = <<n, i, k>>
    BY <1>a
  <1>2. log[1] = n /\ log[2] = i /\ log[3] = k
    BY <1>b
  <1>3. i \in 1 .. Len(chain[n + 1]) /\ i \in 1 .. Slots /\ k \in Nat
    BY BlockAt, SlotsType
  <1>4. HasLogs(n)
    BY DEF HasLogs
  <1>5. LogTime(log) = n * Slots + i - 1
    BY <1>2 DEF LogTime, IdOf, TimeOf, Start
  <1> QED
    BY <1>b, <1>2, <1>3, <1>4, <1>5

LEMMA LogsOfView ==
  ASSUME ChainOK, NEW v \in 1 .. Len(chain), NEW log
  PROVE  log \in AllLogs(2 * v) <=> IsLog(log) /\ log[1] < v
  <1>1. Seen(2 * v) = v
    BY WholeView
  <1>2. ASSUME log \in AllLogs(2 * v) PROVE IsLog(log) /\ log[1] < v
    <2>1. PICK id \in Transactions(2 * v) : \E k \in DOMAIN Tx(id).logs : log = <<id[1], id[2], k>>
      BY <1>2 DEF AllLogs
    <2>2. PICK k \in DOMAIN Tx(id).logs : log = <<id[1], id[2], k>>
      BY <2>1
    <2>3. id[1] \in 0 .. v - 1 /\ id[2] \in 1 .. Slots /\ id[2] <= Len(chain[id[1] + 1])
      BY <1>1 DEF Transactions
    <2>4. id[1] \in 0 .. Len(chain) - 1
      BY <2>3
    <2>5. id[2] \in DOMAIN chain[id[1] + 1]
      BY <2>3, <2>4, BlockAt
    <2>6. k \in DOMAIN chain[id[1] + 1][id[2]].logs
      BY DEF Tx
    <2> QED
      BY <2>2, <2>3, <2>4, <2>5, <2>6 DEF IsLog
  <1>3. ASSUME IsLog(log), log[1] < v PROVE log \in AllLogs(2 * v)
    <2>a. PICK n \in 0 .. Len(chain) - 1 : \E i \in DOMAIN chain[n + 1] : \E k \in DOMAIN chain[n + 1][i].logs : log = <<n, i, k>>
      BY <1>3 DEF IsLog
    <2>b. PICK i \in DOMAIN chain[n + 1] : \E k \in DOMAIN chain[n + 1][i].logs : log = <<n, i, k>>
      BY <2>a
    <2>1. PICK k \in DOMAIN chain[n + 1][i].logs : log = <<n, i, k>>
      BY <2>b
    <2> DEFINE id == <<n, i>>
    <2>2. n \in 0 .. v - 1 /\ i \in 1 .. Slots /\ i <= Len(chain[n + 1])
      BY <1>3, <2>1, BlockAt, SlotsType
    <2>3. id \in Transactions(2 * v)
      BY <1>1, <2>2 DEF Transactions
    <2>4. k \in DOMAIN Tx(id).logs
      BY DEF Tx
    <2>5. log = <<id[1], id[2], k>>
      BY <2>1
    <2> HIDE DEF id
    <2>6. log \in {<<id[1], id[2], l>> : l \in DOMAIN Tx(id).logs}
      BY <2>4, <2>5
    <2> QED
      BY <2>3, <2>6 DEF AllLogs
  <1> QED
    BY <1>2, <1>3

(* The image of a finite set. *)
LEMMA FiniteImage ==
  ASSUME NEW D, IsFiniteSet(D), NEW f, DOMAIN f = D, f = [x \in D |-> f[x]]
  PROVE  IsFiniteSet({f[x] : x \in D})
  <1>1. f \in Surjection(D, {f[x] : x \in D})
    BY DEF Surjection
  <1> QED
    BY <1>1, FS_Surjection

LEMMA FiniteLogs ==
  ASSUME ChainOK, NEW v \in 1 .. Len(chain)
  PROVE  IsFiniteSet(AllLogs(2 * v))
  <1> DEFINE T == Transactions(2 * v)
             L(id) == {<<id[1], id[2], k>> : k \in DOMAIN Tx(id).logs}
             f == [id \in T |-> L(id)]
  <1>1. IsFiniteSet(T)
    <2>0. Seen(2 * v) = v /\ v - 1 \in Int /\ Slots \in Int
      BY WholeView, SlotsType
    <2> DEFINE w == v - 1
    <2>b. w \in Int
      BY <2>0
    <2> HIDE DEF w
    <2>c. IsFiniteSet(0 .. w)
      BY <2>b, FS_Interval
    <2>d. IsFiniteSet(1 .. Slots)
      BY <2>0, FS_Interval
    <2>a. IsFiniteSet(0 .. v - 1) /\ IsFiniteSet(1 .. Slots)
      BY <2>c, <2>d DEF w
    <2>1. IsFiniteSet(0 .. Seen(2 * v) - 1) /\ IsFiniteSet(1 .. Slots)
      BY <2>0, <2>a
    <2>2. IsFiniteSet((0 .. Seen(2 * v) - 1) \X (1 .. Slots))
      BY <2>1, FS_Product
    <2> QED
      BY <2>2, FS_Subset DEF Transactions
  <1>2. ASSUME NEW id \in T PROVE IsFiniteSet(L(id))
    <2>1. id[1] \in 0 .. Len(chain) - 1 /\ id[2] \in 1 .. Slots /\ id[2] <= Len(chain[id[1] + 1])
      BY <1>2, WholeView DEF Transactions
    <2>2. IsFiniteSet(DOMAIN Tx(id).logs)
      <3> DEFINE n == id[1]
                 block == chain[n + 1]
      <3>1. n \in 0 .. Len(chain) - 1 /\ id[2] \in 1 .. Slots /\ id[2] <= Len(block)
        BY <2>1
      <3>2. Tx(id) = block[id[2]]
        BY DEF Tx
      <3> HIDE DEF n
      <3>3. DOMAIN block = 1 .. Len(block) /\ Len(block) \in 1 .. Slots /\ \A i \in DOMAIN block : IsFiniteSet(DOMAIN block[i].logs)
        BY <3>1, BlockAt
      <3> HIDE DEF block
      <3>4. id[2] \in DOMAIN block
        BY <3>1, <3>3, SlotsType
      <3> QED
        BY <3>2, <3>3, <3>4
    <2> DEFINE g == [k \in DOMAIN Tx(id).logs |-> <<id[1], id[2], k>>]
    <2>3. IsFiniteSet({g[k] : k \in DOMAIN Tx(id).logs})
      BY <2>2, FiniteImage
    <2>4. L(id) = {g[k] : k \in DOMAIN Tx(id).logs}
      OBVIOUS
    <2> QED
      BY <2>3, <2>4
  <1> HIDE DEF T, L
  <1>3. IsFiniteSet({f[id] : id \in T})
    BY <1>1, FiniteImage
  <1>4. {f[id] : id \in T} = {L(id) : id \in T}
    OBVIOUS
  <1>5. IsFiniteSet({L(id) : id \in T})
    BY <1>3, <1>4
  <1>6. IsFiniteSet(UNION {L(id) : id \in T})
    BY <1>2, <1>5, FS_UNION
  <1> QED
    BY <1>6 DEF AllLogs, T, L

(* Logs of a time range from the start of a block to the end of one. *)
LEMMA LogsOfBlocks ==
  ASSUME ChainOK, NEW v \in 1 .. Len(chain), NEW f \in 0 .. v - 1, NEW t \in f .. v - 1
  PROVE  \A log : log \in LogsIn(<<Start(f), End(t)>>, 2 * v) <=> IsLog(log) /\ log[1] \in f .. t
  <1> SUFFICES ASSUME NEW log, IsLog(log)
               PROVE  /\ log[1] \in f .. t => log[1] < v
                      /\ log[1] < v => (Within(<<Start(f), End(t)>>, LogTime(log)) <=> log[1] \in f .. t)
    BY LogsOfView DEF LogsIn
  <1> DEFINE n == log[1]
             i == log[2]
             last == Len(chain[t + 1])
  <1>1. /\ n \in 0 .. Len(chain) - 1 /\ i \in 1 .. Slots /\ i <= Len(chain[n + 1])
        /\ LogTime(log) = n * Slots + i - 1
    BY LogParts
  <1>2. last \in 1 .. Slots
    <2>1. t \in 0 .. Len(chain) - 1
      OBVIOUS
    <2> QED
      BY <2>1, BlockAt
  <1>3. Within(<<Start(f), End(t)>>, LogTime(log)) <=> f * Slots <= n * Slots + i - 1 /\ n * Slots + i - 1 <= t * Slots + last - 1
    BY <1>1 DEF Within, Start, End
  <1>4. f * Slots \in Nat /\ t * Slots \in Nat /\ n * Slots \in Nat /\ f \in Nat /\ t \in Nat /\ n \in Nat
    BY <1>1, SlotsType
  <1> HIDE DEF n, i, last
  <1>5. n < f => ~(f * Slots <= n * Slots + i - 1)
    <2>1. n < f => n * Slots + Slots <= f * Slots
      BY <1>4, SlotsOfBlocks
    <2> QED
      BY <1>1, <1>4, <2>1, SlotsType
  <1>6. n >= f => f * Slots <= n * Slots + i - 1
    <2>1. n > f => f * Slots + Slots <= n * Slots
      BY <1>4, SlotsOfBlocks
    <2>2. n = f => f * Slots = n * Slots
      OBVIOUS
    <2> QED
      BY <1>1, <1>4, <2>1, <2>2, SlotsType
  <1>7. n < t => n * Slots + i - 1 <= t * Slots + last - 1
    <2>1. n < t => n * Slots + Slots <= t * Slots
      BY <1>4, SlotsOfBlocks
    <2> QED
      BY <1>1, <1>2, <1>4, <2>1, SlotsType
  <1>8. n = t => n * Slots + i - 1 <= t * Slots + last - 1
    BY <1>1, <1>2, <1>4 DEF last
  <1>9. n > t => ~(n * Slots + i - 1 <= t * Slots + last - 1)
    <2>1. n > t => t * Slots + Slots <= n * Slots
      BY <1>4, SlotsOfBlocks
    <2> QED
      BY <1>1, <1>2, <1>4, <2>1, SlotsType
  <1>10. n < Len(chain)
    BY <1>1, <1>4 DEF ChainOK
  <1>11. Within(<<Start(f), End(t)>>, LogTime(log)) <=> n \in f .. t
    BY <1>3, <1>4, <1>5, <1>6, <1>7, <1>8, <1>9
  <1>12. n \in f .. t => n < v
    BY <1>4
  <1> QED
    BY <1>11, <1>12 DEF n

(* Logs are in a strict and total order, and in that of their blocks. *)
LEMMA LogsOrdered ==
  ASSUME ChainOK, NEW x, NEW y, NEW z, IsLog(x), IsLog(y), IsLog(z)
  PROVE  /\ ~LogPrecedes(x, x)
         /\ LogPrecedes(x, y) /\ LogPrecedes(y, z) => LogPrecedes(x, z)
         /\ x = y \/ LogPrecedes(x, y) \/ LogPrecedes(y, x)
         /\ LogPrecedes(x, y) => x[1] <= y[1]
  <1> DEFINE time(log) == log[1] * Slots + log[2] - 1
  <1>1. \A log \in {x, y, z} :
          /\ log = <<log[1], log[2], log[3]>>
          /\ log[1] \in Nat /\ log[2] \in 1 .. Slots /\ log[3] \in Nat /\ LogTime(log) = time(log)
    <2> SUFFICES ASSUME NEW log, IsLog(log)
                 PROVE  /\ log = <<log[1], log[2], log[3]>>
                        /\ log[1] \in Nat /\ log[2] \in 1 .. Slots /\ log[3] \in Nat /\ LogTime(log) = time(log)
      OBVIOUS
    <2>1. /\ log = <<log[1], log[2], log[3]>> /\ log[1] \in 0 .. Len(chain) - 1 /\ log[2] \in 1 .. Slots
          /\ log[3] \in Nat /\ LogTime(log) = time(log)
      BY LogParts
    <2>2. log[1] \in Nat
      BY <2>1
    <2> QED
      BY <2>1, <2>2
  <1>2. \A log \in {x, y, z} : log[1] * Slots \in Nat
    BY <1>1, SlotsType
  <1>3. LogTime(x) \in Int /\ LogTime(y) \in Int /\ LogTime(z) \in Int
    BY <1>1, <1>2
  <1>4. ASSUME NEW a \in {x, y}, NEW b \in {x, y}, a[1] < b[1]
        PROVE  time(a) < time(b)
    <2> DEFINE n == a[1]
               m == b[1]
    <2>1. n \in Nat /\ m \in Nat /\ a[2] \in 1 .. Slots /\ b[2] \in 1 .. Slots
      BY <1>1
    <2> HIDE DEF n, m
    <2>2. n * Slots \in Nat /\ m * Slots \in Nat /\ n * Slots + Slots <= m * Slots
      BY <1>4, <2>1, SlotsOfBlocks DEF n, m
    <2>3. n * Slots + a[2] - 1 < m * Slots + b[2] - 1
      BY <2>1, <2>2, SlotsType
    <2> QED
      BY <2>3 DEF n, m
  <1>5. LogPrecedes(x, y) => x[1] <= y[1]
    <2>1. y[1] < x[1] => LogTime(y) < LogTime(x)
      BY <1>1, <1>4
    <2> QED
      BY <1>1, <1>3, <2>1 DEF LogPrecedes
  <1>6. LogTime(x) = LogTime(y) /\ x[3] = y[3] => x = y
    <2> SUFFICES ASSUME LogTime(x) = LogTime(y), x[3] = y[3] PROVE x = y
      OBVIOUS
    <2>1. x[1] = y[1]
      <3>1. x[1] < y[1] => LogTime(x) < LogTime(y)
        BY <1>1, <1>4
      <3>2. y[1] < x[1] => LogTime(y) < LogTime(x)
        BY <1>1, <1>4
      <3>3. x[1] \in Nat /\ y[1] \in Nat
        BY <1>1
      <3> QED
        BY <1>3, <3>1, <3>2, <3>3
    <2>2. x[1] * Slots = y[1] * Slots
      BY <2>1
    <2>3. x[2] = y[2]
      <3> DEFINE p == x[1] * Slots
                 q == y[1] * Slots
      <3>1. p \in Nat /\ q \in Nat /\ p = q /\ p + x[2] - 1 = q + y[2] - 1
        BY <1>1, <1>2, <2>2
      <3> HIDE DEF p, q
      <3> QED
        BY <1>1, <3>1, SlotsType
    <2> QED
      BY <1>1, <2>1, <2>3
  <1>7. x = y \/ LogPrecedes(x, y) \/ LogPrecedes(y, x)
    BY <1>1, <1>3, <1>6 DEF LogPrecedes
  <1>8. ~LogPrecedes(x, x)
    BY <1>1, <1>3 DEF LogPrecedes
  <1>9. LogPrecedes(x, y) /\ LogPrecedes(y, z) => LogPrecedes(x, z)
    BY <1>1, <1>3 DEF LogPrecedes
  <1> QED
    BY <1>5, <1>7, <1>8, <1>9

(* A sequence that has at each place the element of S with as many before it: it has each element in one place, in order.  *)
LEMMA Ranked ==
  ASSUME NEW S, IsFiniteSet(S), NEW before \in [S -> SUBSET S],
         \A x \in S : x \notin before[x],
         \A x, y, z \in S : x \in before[y] /\ y \in before[z] => x \in before[z],
         \A x, y \in S : x = y \/ x \in before[y] \/ y \in before[x],
         NEW seq,
         \A i \in 1 .. Cardinality(S) :
            (\E x \in S : Cardinality(before[x]) = i - 1) => seq[i] \in S /\ Cardinality(before[seq[i]]) = i - 1
  PROVE  LET N == Cardinality(S)
         IN  /\ N \in Nat
             /\ \A i \in 1 .. N : seq[i] \in S /\ Cardinality(before[seq[i]]) = i - 1
             /\ \A x \in S : \E i \in 1 .. N : seq[i] = x
             /\ \A i, j \in 1 .. N : i < j => seq[i] \in before[seq[j]]
  <1> DEFINE rank(x) == Cardinality(before[x])
             N == Cardinality(S)
  <1>1. N \in Nat
    BY FS_CardinalityType
  <1>2. \A i \in 1 .. N : (\E x \in S : rank(x) = i - 1) => seq[i] \in S /\ rank(seq[i]) = i - 1
    OBVIOUS
  <1>N. IsFiniteSet(S) /\ N = Cardinality(S)
    OBVIOUS
  <1> HIDE DEF N
  <1>3. ASSUME NEW x \in S PROVE IsFiniteSet(before[x]) /\ rank(x) \in 0 .. N - 1
    <2>1. before[x] \subseteq S \ {x}
      OBVIOUS
    <2>2. IsFiniteSet(S \ {x}) /\ Cardinality(S \ {x}) = N - 1
      BY <1>N, FS_RemoveElement
    <2>3. IsFiniteSet(before[x]) /\ rank(x) <= N - 1
      BY <2>1, <2>2, FS_Subset
    <2>4. rank(x) \in Nat
      BY <2>3, FS_CardinalityType
    <2> QED
      BY <1>1, <2>3, <2>4
  <1>4. ASSUME NEW x \in S, NEW y \in S, x \in before[y] PROVE rank(x) < rank(y)
    <2>1. before[x] \subseteq before[y] /\ x \in before[y] /\ x \notin before[x]
      BY <1>4
    <2>2. IsFiniteSet(before[y]) /\ rank(y) \in Nat /\ rank(x) \in Nat
      BY <1>1, <1>3
    <2>3. rank(x) <= rank(y) /\ (rank(x) = rank(y) => before[x] = before[y])
      BY <2>1, <2>2, FS_Subset
    <2> QED
      BY <2>1, <2>2, <2>3
  <1>R. \A x \in S : rank(x) \in Nat
    BY <1>1, <1>3
  <1> HIDE DEF rank
  <1>5. ASSUME NEW x \in S, NEW y \in S, rank(x) = rank(y) PROVE x = y
    BY <1>4, <1>5, <1>R
  <1>6. ASSUME NEW i \in 1 .. N PROVE \E x \in S : rank(x) = i - 1
    <2> SUFFICES ASSUME \A x \in S : rank(x) # i - 1 PROVE FALSE
      OBVIOUS
    <2> DEFINE T == (0 .. N - 1) \ {i - 1}
               f == [x \in S |-> rank(x)]
    <2>1. IsFiniteSet(0 .. N - 1) /\ Cardinality(0 .. N - 1) = N
      <3>1. N - 1 \in Int /\ 0 <= N - 1 /\ N - 1 - 0 + 1 = N
        BY <1>1
      <3> QED
        BY <3>1, FS_Interval
    <2>2. i - 1 \in 0 .. N - 1
      BY <1>1
    <2>3. IsFiniteSet(T) /\ Cardinality(T) = N - 1
      <3> DEFINE I == 0 .. N - 1
                 e == i - 1
      <3>1. IsFiniteSet(I) /\ Cardinality(I) = N /\ e \in I /\ T = I \ {e}
        BY <2>1, <2>2
      <3> HIDE DEF I, e, T
      <3> QED
        BY <3>1, FS_RemoveElement
    <2>4. Cardinality(T) < Cardinality(S)
      BY <1>1, <1>N, <2>3
    <2>5. f \in [S -> T]
      BY <1>3 DEF rank
    <2> HIDE DEF T
    <2>6. \E x, y \in S : x # y /\ f[x] = f[y]
      <3> HIDE DEF f
      <3> QED
        BY <2>3, <2>4, <2>5, <1>N, FS_PigeonHole
    <2> QED
      BY <1>5, <2>6
  <1>7. \A i \in 1 .. N : seq[i] \in S /\ rank(seq[i]) = i - 1
    BY <1>2, <1>6
  <1>8. ASSUME NEW x \in S PROVE \E i \in 1 .. N : seq[i] = x
    <2>1. rank(x) + 1 \in 1 .. N /\ (rank(x) + 1) - 1 = rank(x)
      BY <1>1, <1>3 DEF rank
    <2> QED
      BY <1>5, <1>7, <2>1
  <1>9. ASSUME NEW i \in 1 .. N, NEW j \in 1 .. N, i < j PROVE seq[i] \in before[seq[j]]
    <2> DEFINE x == seq[i]
               y == seq[j]
    <2>1. x \in S /\ y \in S /\ rank(x) = i - 1 /\ rank(y) = j - 1
      BY <1>7
    <2> HIDE DEF x, y
    <2>2. rank(x) < rank(y)
      BY <1>1, <1>9, <2>1
    <2>3. x # y /\ y \notin before[x]
      BY <1>4, <1>R, <2>1, <2>2
    <2>4. x \in before[y]
      BY <2>1, <2>3
    <2> QED
      BY <2>4 DEF x, y
  <1> QED
    BY <1>1, <1>7, <1>8, <1>9 DEF N, rank

(* A sorted sequence of logs has each of them in one place and in order, and the last one is of the last block. *)
LEMMA SortedLogs ==
  ASSUME ChainOK, NEW S, IsFiniteSet(S), \A x \in S : IsLog(x)
  PROVE  LET seq == Sorted(S, LogPrecedes)
         IN  /\ DOMAIN seq = 1 .. Cardinality(S) /\ Cardinality(S) \in Nat
             /\ \A i \in DOMAIN seq : seq[i] \in S
             /\ \A x \in S : \E i \in DOMAIN seq : seq[i] = x
             /\ \A i, j \in DOMAIN seq : i < j => LogPrecedes(seq[i], seq[j])
             /\ \A x \in S : x[1] <= seq[Cardinality(S)][1]
  <1> DEFINE before == [x \in S |-> {y \in S : LogPrecedes(y, x)}]
             N == Cardinality(S)
             seq == Sorted(S, LogPrecedes)
  <1>1. DOMAIN seq = 1 .. N /\ \A i \in 1 .. N : seq[i] = CHOOSE x \in S : Cardinality({y \in S : LogPrecedes(y, x)}) = i - 1
    BY DEF Sorted
  <1>2. \A i \in 1 .. N :
          (\E x \in S : Cardinality(before[x]) = i - 1) => seq[i] \in S /\ Cardinality(before[seq[i]]) = i - 1
    <2> SUFFICES ASSUME NEW i \in 1 .. N, \E x \in S : Cardinality({y \in S : LogPrecedes(y, x)}) = i - 1
                 PROVE  seq[i] \in S /\ Cardinality({y \in S : LogPrecedes(y, seq[i])}) = i - 1
      OBVIOUS
    <2> HIDE DEF seq
    <2> QED
      BY <1>1
  <1>3. before \in [S -> SUBSET S] /\ \A x, y \in S : x \in before[y] <=> LogPrecedes(x, y)
    OBVIOUS
  <1>O. \A x, y, z \in S :
          /\ ~LogPrecedes(x, x)
          /\ LogPrecedes(x, y) /\ LogPrecedes(y, z) => LogPrecedes(x, z)
          /\ x = y \/ LogPrecedes(x, y) \/ LogPrecedes(y, x)
          /\ LogPrecedes(x, y) => x[1] <= y[1]
    BY LogsOrdered
  <1> HIDE DEF before, seq, N
  <1>4. /\ \A x \in S : x \notin before[x]
        /\ \A x, y, z \in S : x \in before[y] /\ y \in before[z] => x \in before[z]
        /\ \A x, y \in S : x = y \/ x \in before[y] \/ y \in before[x]
    BY <1>3, <1>O
  <1>5. /\ N \in Nat
        /\ \A i \in 1 .. N : seq[i] \in S
        /\ \A x \in S : \E i \in 1 .. N : seq[i] = x
        /\ \A i, j \in 1 .. N : i < j => seq[i] \in before[seq[j]]
    BY <1>2, <1>3, <1>4, Ranked DEF N
  <1>6. \A i, j \in 1 .. N : i < j => LogPrecedes(seq[i], seq[j])
    BY <1>3, <1>5
  <1>7. ASSUME NEW x \in S PROVE x[1] <= seq[N][1]
    <2>1. PICK i \in 1 .. N : seq[i] = x
      BY <1>5
    <2>2. N \in 1 .. N /\ (i < N \/ i = N)
      BY <1>5
    <2>3. x[1] \in Nat
      BY LogParts DEF ChainOK
    <2> QED
      BY <1>5, <1>6, <1>O, <2>1, <2>2, <2>3
  <1> QED
    BY <1>1, <1>5, <1>6, <1>7 DEF seq, N

(* The logs of whole blocks are there at once: no record is immature. *)
LEMMA LogsAtOnce ==
  ASSUME ChainOK, NEW v \in 1 .. Len(chain), NEW lo \in 0 .. v - 1, NEW hi \in lo .. v - 1,
         GetLogsWithParams(<<>>, <<Start(lo), End(hi)>>, 2 * v).st = "ok"
  PROVE  GetLogsWithParams(<<>>, <<Start(lo), End(hi)>>, 2 * v) =
           Ok(Sorted(LogsIn(<<Start(lo), End(hi)>>, 2 * v), LogPrecedes))
  <1> DEFINE range == <<Start(lo), End(hi)>>
             h == 2 * v
             S == LogsIn(range, h)
             views == [k \in 1 .. RetryCount |-> h]
             A == GetPaginatedResults(S, CalculateMaxPage(range))
             answers == [k \in DOMAIN views |-> GetPaginatedResults(LogsIn(range, views[k]), CalculateMaxPage(range))]
             done == {k \in DOMAIN views : answers[k].st = "ok" => \A row \in answers[k].val : Mature(row, views[k])}
             answer == GetContractResultsLogsWithRetry(range, views)
  <1>1. RetryCount \in Nat \ {0}
    BY SlotsType
  <1>2. A.st = "ok" => A = Ok(S)
    BY DEF GetPaginatedResults, Err, Ok
  <1>3. \A row \in S : Mature(row, h)
    <2>1. \A row \in S : row[1] \in lo .. hi
      BY LogsOfBlocks
    <2>2. Closed(h) = v
      BY WholeView
    <2> HIDE DEF S
    <2> QED
      BY <2>1, <2>2 DEF Mature
  <1> HIDE DEF S
  <1>4. Ok(S).val = S
    BY DEF Ok
  <1>5. \A k \in 1 .. RetryCount : views[k] = h /\ answers[k] = A
    BY DEF S
  <1>6. DOMAIN views = 1 .. RetryCount
    OBVIOUS
  <1> HIDE DEF A, views, h, range
  <1>7. answer = IF done = {} THEN Err("IMMATURE_RECORDS") ELSE answers[CHOOSE k \in done : \A j \in done : k <= j]
    BY DEF GetContractResultsLogsWithRetry, WithRetry
  <1> HIDE DEF answers
  <1>8. done = 1 .. RetryCount
    BY <1>2, <1>3, <1>4, <1>5, <1>6
  <1> HIDE DEF done
  <1>9. 1 \in done /\ \A j \in done : 1 <= j
    BY <1>1, <1>8
  <1>10. (CHOOSE k \in done : \A j \in done : k <= j) \in done
    BY <1>9
  <1>11. answer = A
    BY <1>5, <1>7, <1>8, <1>9, <1>10
  <1> HIDE DEF answer
  <1>12. GetLogsWithParams(<<>>, range, h) = IF answer.st # "ok" THEN answer ELSE Ok(Sorted(answer.val, LogPrecedes))
    BY DEF GetLogsWithParams, answer, views
  <1>13. GetLogsWithParams(<<>>, range, h).st = "ok"
    BY DEF range, h
  <1>14. answer.st = "ok"
    BY <1>12, <1>13
  <1>15. answer.val = S
    BY <1>2, <1>4, <1>11, <1>14
  <1>16. GetLogsWithParams(<<>>, range, h) = Ok(Sorted(S, LogPrecedes))
    BY <1>12, <1>14, <1>15
  <1> QED
    BY <1>16 DEF range, h, S

(* The block a bound stands for. *)
BoundOK(p) == p \in Bounds /\ (p.tag = "number" \/ p.n = 0)

BlockOf(p, v) == GetHistoricalBlockResponse(p, 2 * v, 2 * v)

LEMMA BlockOfBound ==
  ASSUME NEW p, BoundOK(p), NEW v \in Nat \ {0}
  PROVE  BlockOf(p, v) = IF p.tag \in {"number", "earliest"} THEN (IF p.n < v THEN p.n ELSE NoBlock) ELSE v - 1
  <1>1. Closed(2 * v) = v
    BY WholeView
  <1>2. MaxBlockRange \in Nat
    BY EthCommonAssumption
  <1>3. p.n \in Nat /\ p.tag \in {"number", "latest", "pending", "safe", "finalized", "earliest"}
    BY DEF BoundOK, Bounds
  <1>4. CASE p.tag = "number"
    BY <1>1, <1>2, <1>3, <1>4
       DEF BlockOf, GetHistoricalBlockResponse, BlockTagIsLatestOrPending, GetLatestBlock, GetBlock, NoBlock
  <1>5. CASE p.tag = "earliest"
    BY <1>1, <1>3, <1>5
       DEF BlockOf, GetHistoricalBlockResponse, BlockTagIsLatestOrPending, GetLatestBlock, GetBlock, NoBlock, BoundOK
  <1>6. CASE p.tag \in {"latest", "pending", "safe", "finalized"}
    BY <1>1, <1>6 DEF BlockOf, GetHistoricalBlockResponse, BlockTagIsLatestOrPending, GetLatestBlock
  <1> QED
    BY <1>3, <1>4, <1>5, <1>6

SameBlock(from, to) == from = to \/ (BlockTagIsLatestOrPending(from) /\ BlockTagIsLatestOrPending(to))

(* The logs of the blocks lo .. hi, in their order. *)
Found(logs, lo, hi) ==
    LET blocks == {n \in lo .. hi : HasLogs(n)}
    IN  /\ BlocksOf(logs) = blocks
        /\ logs = <<>> <=> blocks = {}
        /\ logs # <<>> => logs[Len(logs)][1] \in blocks /\ \A n \in blocks : n <= logs[Len(logs)][1]

LEMMA SortedFound ==
  ASSUME ChainOK, NEW v \in 1 .. Len(chain), NEW lo \in 0 .. v - 1, NEW hi \in lo .. v - 1
  PROVE  Found(Sorted(LogsIn(<<Start(lo), End(hi)>>, 2 * v), LogPrecedes), lo, hi)
  <1> DEFINE S == LogsIn(<<Start(lo), End(hi)>>, 2 * v)
             N == Cardinality(S)
             seq == Sorted(S, LogPrecedes)
             blocks == {n \in lo .. hi : HasLogs(n)}
  <1>1. \A log : log \in S <=> IsLog(log) /\ log[1] \in lo .. hi
    BY LogsOfBlocks
  <1>2. IsFiniteSet(S)
    BY FiniteLogs, FS_Subset DEF LogsIn
  <1> HIDE DEF S
  <1>3. /\ DOMAIN seq = 1 .. N /\ N \in Nat
        /\ \A i \in DOMAIN seq : seq[i] \in S
        /\ \A x \in S : \E i \in DOMAIN seq : seq[i] = x
        /\ \A x \in S : x[1] <= seq[N][1]
    BY <1>1, <1>2, SortedLogs
  <1>4. seq = [i \in 1 .. N |-> seq[i]]
    <2> DEFINE at(i) == CHOOSE x \in S : Cardinality({y \in S : LogPrecedes(y, x)}) = i - 1
    <2>1. seq = [i \in 1 .. N |-> at(i)]
      BY DEF Sorted
    <2> HIDE DEF at, seq
    <2> QED
      BY <2>1
  <1> HIDE DEF seq, N
  <1>5. Len(seq) = N /\ (N = 0 <=> seq = <<>>)
    BY <1>3, <1>4
  <1>6. \A x \in S : x[1] \in blocks
    BY <1>1, LogParts
  <1>7. \A n \in blocks : \E x \in S : x[1] = n
    <2> SUFFICES ASSUME NEW n \in blocks PROVE \E x \in S : x[1] = n
      OBVIOUS
    <2>1. PICK i \in DOMAIN chain[n + 1] : \E k : k \in DOMAIN chain[n + 1][i].logs
      BY DEF HasLogs
    <2>2. PICK k : k \in DOMAIN chain[n + 1][i].logs
      BY <2>1
    <2> DEFINE x == <<n, i, k>>
    <2>3. n \in 0 .. Len(chain) - 1
      OBVIOUS
    <2>4. IsLog(x)
      BY <2>2, <2>3 DEF IsLog
    <2>5. x[1] = n /\ n \in lo .. hi
      OBVIOUS
    <2> HIDE DEF x
    <2> QED
      BY <1>1, <2>4, <2>5
  <1>8. BlocksOf(seq) = blocks
    <2>1. \A n : n \in BlocksOf(seq) <=> \E i \in DOMAIN seq : n = seq[i][1]
      BY DEF BlocksOf
    <2> HIDE DEF blocks
    <2>2. \A n : n \in BlocksOf(seq) <=> n \in blocks
      BY <1>3, <1>6, <1>7, <2>1
    <2> QED
      BY <2>2
  <1>9. seq = <<>> <=> blocks = {}
    <2> HIDE DEF blocks
    <2>1. N = 0 <=> S = {}
      BY <1>2, FS_EmptySet DEF N
    <2> QED
      BY <1>5, <1>6, <1>7, <2>1
  <1>10. ASSUME seq # <<>> PROVE seq[Len(seq)][1] \in blocks /\ \A n \in blocks : n <= seq[Len(seq)][1]
    <2> HIDE DEF blocks
    <2>1. N \in DOMAIN seq
      BY <1>3, <1>5, <1>10
    <2>2. seq[N] \in S
      BY <1>3, <2>1
    <2> QED
      BY <1>3, <1>5, <1>6, <1>7, <2>2
  <1> QED
    BY <1>8, <1>9, <1>10 DEF Found, seq, S

(* eth_getLogs, whose range is looked for at u blocks and, for its end and the logs, at t: a range that is not there has   *)
(* none, and otherwise all of its logs are found.                                                                          *)
LEMMA LogsAnswered ==
  ASSUME ChainOK, NEW u \in 1 .. Len(chain), NEW t \in u .. Len(chain), NEW l, NEW from, NEW to, BoundOK(from), BoundOK(to),
         NEW vs, vs = <<2 * u, 2 * u, 2 * t, 2 * t, 2 * l>>, GetLogs(from, to, <<>>, vs).st = "ok"
  PROVE  LET logs == GetLogs(from, to, <<>>, vs).val
             lo == BlockOf(from, u)
             hi == IF SameBlock(from, to) THEN lo ELSE BlockOf(to, t)
         IN  \/ logs = <<>> /\ (lo = NoBlock \/ hi = NoBlock)
             \/ lo \in 0 .. t - 1 /\ hi \in lo .. t - 1 /\ Found(logs, lo, hi)
  <1> DEFINE single == Len(<<>>) = 1
             range == ValidateBlockRangeAndAddTimestampToParams(from, to, single, vs)
             res == GetLogs(from, to, <<>>, vs)
             lo == BlockOf(from, u)
             end == BlockOf(to, t)
             hi == IF SameBlock(from, to) THEN lo ELSE end
  <1>1. vs[1] = 2 * u /\ vs[2] = 2 * u /\ vs[3] = 2 * t /\ vs[4] = 2 * t
    OBVIOUS
  <1>2. from.tag # "hash" /\ from.tag # "none" /\ from.n \in Nat /\ to.n \in Nat
    BY DEF BoundOK, Bounds
  <1>3. u \in Nat \ {0} /\ t \in Nat \ {0} /\ u <= t
    BY DEF ChainOK
  <1>4. res = CASE range.st = "null" -> Ok(<<>>)
                [] range.st = "ok" -> GetLogsWithParams(<<>>, range.val, 2 * t)
                [] OTHER -> range
    BY <1>1, <1>2 DEF GetLogs
  <1>5. range = IF lo = NoBlock THEN Null
                ELSE IF SameBlock(from, to) THEN Ok(<<Start(lo), End(lo)>>)
                ELSE IF end = NoBlock THEN Null
                ELSE IF End(end) - Start(lo) > MaxTimeRange THEN Err("TIMESTAMP_RANGE_TOO_LARGE")
                ELSE IF lo > end THEN Err("INVALID_BLOCK_RANGE")
                ELSE IF ~single /\ end - lo > BlockRangeLimit THEN Err("RANGE_TOO_LARGE")
                ELSE Ok(<<Start(lo), End(end)>>)
    <2>1. ~MissingFromBlock(from, to, vs[1])
      BY <1>2 DEF MissingFromBlock
    <2> QED
      BY <1>1, <2>1 DEF ValidateBlockRangeAndAddTimestampToParams, SameBlock, BlockOf
  <1>6. lo = NoBlock \/ lo \in 0 .. u - 1
    <2>1. lo = IF from.tag \in {"number", "earliest"} THEN (IF from.n < u THEN from.n ELSE NoBlock) ELSE u - 1
      BY <1>3, BlockOfBound
    <2> HIDE DEF lo
    <2> QED
      BY <1>2, <1>3, <2>1
  <1>7. end = NoBlock \/ end \in 0 .. t - 1
    <2>1. end = IF to.tag \in {"number", "earliest"} THEN (IF to.n < t THEN to.n ELSE NoBlock) ELSE t - 1
      BY <1>3, BlockOfBound
    <2> HIDE DEF end
    <2> QED
      BY <1>2, <1>3, <2>1
  <1> HIDE DEF lo, end, res, range, single
  <1>8. Null.st = "null" /\ \A x : Ok(x).st = "ok" /\ Ok(x).val = x
    BY DEF Null, Ok
  <1>9. CASE lo = NoBlock \/ hi = NoBlock
    <2>1. range = Null
      BY <1>5, <1>9
    <2> QED
      BY <1>4, <1>8, <1>9, <2>1 DEF res, lo, end
  <1>10. CASE lo # NoBlock /\ hi # NoBlock
    <2>1. lo \in 0 .. t - 1 /\ (SameBlock(from, to) \/ end \in 0 .. t - 1)
      BY <1>3, <1>6, <1>7, <1>10
    <2>2. range = Ok(<<Start(lo), End(hi)>>) /\ hi \in lo .. t - 1
      <3>1. res.st = "ok"
        BY DEF res
      <3>2. CASE SameBlock(from, to)
        BY <1>3, <1>5, <1>10, <2>1, <3>2
      <3>3. CASE ~SameBlock(from, to)
        <4>1. /\ "TIMESTAMP_RANGE_TOO_LARGE" \notin {"ok", "null"} /\ "INVALID_BLOCK_RANGE" \notin {"ok", "null"}
              /\ "RANGE_TOO_LARGE" \notin {"ok", "null"} /\ \A e : Err(e).st = e
          BY DEF Err
        <4>2. range.st \in {"ok", "null"}
          BY <1>4, <3>1
        <4>3. ~(lo > end)
          BY <1>5, <1>10, <3>3, <4>1, <4>2
        <4>4. range = Ok(<<Start(lo), End(end)>>)
          BY <1>5, <1>10, <3>3, <4>1, <4>2
        <4> QED
          BY <1>3, <2>1, <3>3, <4>3, <4>4
      <3> QED
        BY <3>2, <3>3
    <2> HIDE DEF hi
    <2>3. res = GetLogsWithParams(<<>>, <<Start(lo), End(hi)>>, 2 * t)
      BY <1>4, <1>8, <2>2
    <2>4. t \in 1 .. Len(chain)
      BY <1>3 DEF ChainOK
    <2> DEFINE sorted == Sorted(LogsIn(<<Start(lo), End(hi)>>, 2 * t), LogPrecedes)
    <2>5. res = Ok(sorted)
      BY <2>1, <2>2, <2>3, <2>4, LogsAtOnce DEF res
    <2>6. Found(sorted, lo, hi)
      BY <2>1, <2>2, <2>4, SortedFound
    <2> HIDE DEF sorted
    <2>7. res.val = sorted
      BY <1>8, <2>5
    <2> QED
      BY <2>1, <2>2, <2>6, <2>7 DEF res, lo, hi, end
  <1> QED
    BY <1>9, <1>10

-----------------------------------------------------------------------------
(* What a request for changes answers and where it leaves the filter. *)

(* h: how many blocks there were when the filter was read. *)
FilterOK(f, h) ==
    /\ f \in [type : {"log", "newBlock"}, to : Bounds, from : Bounds, lastQueried : Int]
    /\ f.from.tag = "number" \/ f.from.n = 0
    /\ f.to.tag = "number" \/ f.to.n = 0
    /\ f.lastQueried >= NoQuery
    /\ f.type = "newBlock" => f.from.tag = "number"
    /\ IF f.type = "log" THEN f.lastQueried <= h ELSE f.lastQueried < h

(* The filter was written back with the cursor next after the blocks were answered, by a request that began at b blocks:   *)
(* it does not go back, what is answered was ahead of it and is behind it, and it passes nothing else that is wanted       *)
(* without an excuse.                                                                                                      *)
MovesOn(f, g, blocks, b) ==
    /\ FilterOK(g, Len(chain))
    /\ \A n \in Nat : Passed(f, n) => Passed(g, n)
    /\ \A n \in blocks : n \in Nat /\ Passed(g, n) /\ ~Passed(f, n)
    /\ \A n \in 0 .. Len(chain) - 1 :
         Wanted(g, n) /\ Passed(g, n) => \/ Wanted(f, n) /\ Passed(f, n)
                                         \/ n \in blocks
                                         \/ n >= b
                                         \/ f.to.tag = "number" /\ f.to.n >= b

LEMMA ViewsOfRequest ==
  ASSUME ChainOK, NEW b \in 1 .. Len(chain), NEW vs \in ViewsSince(b)
  PROVE  \E u, t, l \in b .. Len(chain) : u <= t /\ t <= l /\ vs = <<2 * u, 2 * u, 2 * t, 2 * t, 2 * l>>
  <1>1. PICK u, t, l \in b .. Len(chain) : vs = <<2 * u, 2 * u, 2 * t, 2 * t, 2 * l>>
    BY DEF ViewsSince
  <1>2. vs[2] <= vs[3] /\ vs[4] <= vs[5]
    BY DEF ViewsSince
  <1>3. 2 * u <= 2 * t /\ 2 * t <= 2 * l
    BY <1>1, <1>2
  <1>4. u \in Int /\ t \in Int /\ l \in Int
    BY DEF ChainOK
  <1>5. u <= t /\ t <= l
    BY <1>3, <1>4
  <1> QED
    BY <1>1, <1>5

(* The cursor of a filter, and what of it a new lastQueried changes. *)
LEMMA CursorOK ==
  ASSUME NEW f, NEW h, FilterOK(f, h)
  PROVE  /\ BoundOK(Cursor(f)) /\ Cursor(f).n \in Nat
         /\ f.lastQueried > 0 => Cursor(f).tag = "number" /\ Cursor(f).n = f.lastQueried
         /\ ~(f.lastQueried > 0) => Cursor(f) = f.from
  BY DEF FilterOK, Cursor, Number, BoundOK, Bounds

LEMMA NewCursor ==
  ASSUME NEW f, NEW h, FilterOK(f, h), NEW next
  PROVE  LET g == [f EXCEPT !.lastQueried = next]
         IN  /\ g.type = f.type /\ g.to = f.to /\ g.from = f.from /\ g.lastQueried = next
             /\ \A n : Wanted(g, n) <=> Wanted(f, n)
             /\ next \in Int /\ next >= NoQuery /\ (IF f.type = "log" THEN next <= Len(chain) ELSE next < Len(chain))
                  => FilterOK(g, Len(chain))
  <1> DEFINE g == [f EXCEPT !.lastQueried = next]
  <1>1. g.type = f.type /\ g.to = f.to /\ g.from = f.from /\ g.lastQueried = next
    BY DEF FilterOK
  <1>2. next \in Int => g \in [type : {"log", "newBlock"}, to : Bounds, from : Bounds, lastQueried : Int]
    BY DEF FilterOK
  <1> HIDE DEF g
  <1>3. \A n : Wanted(g, n) <=> Wanted(f, n)
    BY <1>1 DEF Wanted
  <1>4. next \in Int /\ next >= NoQuery /\ (IF f.type = "log" THEN next <= Len(chain) ELSE next < Len(chain))
                  => FilterOK(g, Len(chain))
    BY <1>1, <1>2 DEF FilterOK
  <1> QED
    BY <1>1, <1>3, <1>4 DEF g

(* handleLogFilterChanges *)
LEMMA LogChanges ==
  ASSUME ChainOK, NEW b \in 1 .. Len(chain), NEW f, FilterOK(f, b), f.type = "log", NEW vs \in ViewsSince(b),
         HandleLogFilterChanges(f, vs).st = "ok"
  PROVE  LET res == HandleLogFilterChanges(f, vs)
         IN  MovesOn(f, [f EXCEPT !.lastQueried = res.next], res.blocks, b)
  <1> DEFINE res == HandleLogFilterChanges(f, vs)
             c == Cursor(f)
             answer == GetLogs(c, f.to, <<>>, vs)
             logs == answer.val
             next == res.next
             g == [f EXCEPT !.lastQueried = next]
  <1>1. PICK u, t, l \in b .. Len(chain) : u <= t /\ t <= l /\ vs = <<2 * u, 2 * u, 2 * t, 2 * t, 2 * l>>
    BY ViewsOfRequest
  <1>2. /\ b \in Nat \ {0} /\ u \in Nat \ {0} /\ t \in Nat \ {0} /\ l \in Nat \ {0} /\ b <= u /\ u <= t /\ t <= l
        /\ l <= Len(chain) /\ Len(chain) \in Nat
    BY <1>1 DEF ChainOK
  <1>3. /\ answer.st = "ok" /\ res.blocks = BlocksOf(logs)
        /\ next = 1 + IF logs # <<>> THEN logs[Len(logs)][1] ELSE l - 1
    <2>1. answer.st = "ok"
      BY DEF HandleLogFilterChanges
    <2>2. vs[5] = 2 * l
      BY <1>1
    <2>3. GetLatestBlockNumber(vs[5]) = l - 1
      BY <1>2, <2>2, WholeView DEF GetLatestBlockNumber, GetLatestBlock
    <2> HIDE DEF answer
    <2> QED
      BY <2>1, <2>3 DEF HandleLogFilterChanges, answer
  <1>4. BoundOK(c) /\ BoundOK(f.to) /\ c.n \in Nat /\ f.to.n \in Nat
    BY CursorOK DEF FilterOK, BoundOK, Bounds
  <1> DEFINE lo == BlockOf(c, u)
             end == BlockOf(f.to, t)
             hi == IF SameBlock(c, f.to) THEN lo ELSE end
  <1>5. \/ logs = <<>> /\ (lo = NoBlock \/ hi = NoBlock)
        \/ lo \in 0 .. t - 1 /\ hi \in lo .. t - 1 /\ Found(logs, lo, hi)
    <2>1. u \in 1 .. Len(chain) /\ t \in u .. Len(chain)
      BY <1>2
    <2> QED
      BY <1>1, <1>3, <1>4, <2>1, LogsAnswered
  <1>6. lo = IF c.tag \in {"number", "earliest"} THEN (IF c.n < u THEN c.n ELSE NoBlock) ELSE u - 1
    BY <1>2, <1>4, BlockOfBound
  <1>7. end = IF f.to.tag \in {"number", "earliest"} THEN (IF f.to.n < t THEN f.to.n ELSE NoBlock) ELSE t - 1
    BY <1>2, <1>4, BlockOfBound
  <1>8. f.lastQueried \in Int /\ f.lastQueried <= b /\ f.lastQueried >= NoQuery /\ f.from.n \in Nat
    BY DEF FilterOK, Bounds
  <1>9. /\ f.lastQueried > 0 => c.tag = "number" /\ c.n = f.lastQueried
        /\ ~(f.lastQueried > 0) => c = f.from
    BY CursorOK
  <1>10. \A n : Passed(f, n) <=> n < f.lastQueried
    BY DEF Passed
  <1>11. /\ \A n : Passed(g, n) <=> n < next
         /\ \A n : Wanted(g, n) <=> Wanted(f, n)
         /\ next \in Int /\ next >= NoQuery /\ next <= Len(chain) => FilterOK(g, Len(chain))
    BY NewCursor DEF Passed
  <1> DEFINE blocks == res.blocks
             excused1(n) == n >= b \/ (f.to.tag = "number" /\ f.to.n >= b)
  <1> HIDE DEF g, c, res, next, answer, logs, lo, end, hi, blocks
  <1>12. SUFFICES /\ next \in 0 .. Len(chain) /\ f.lastQueried <= next
                  /\ \A n \in blocks : n \in Nat /\ n < next /\ ~(n < f.lastQueried)
                  /\ \A n \in 0 .. Len(chain) - 1 :
                       Wanted(f, n) /\ n < next => n < f.lastQueried \/ n \in blocks \/ excused1(n)
    <2>1. next \in Int /\ next >= NoQuery /\ next <= Len(chain) /\ f.lastQueried <= next
      BY <1>2, <1>12 DEF NoQuery
    <2>2. \A n \in Nat : Passed(f, n) => Passed(g, n)
      BY <1>8, <1>10, <1>11, <2>1
    <2>3. \A n \in blocks : n \in Nat /\ Passed(g, n) /\ ~Passed(f, n)
      BY <1>10, <1>11, <1>12
    <2>4. \A n \in 0 .. Len(chain) - 1 :
            Wanted(g, n) /\ Passed(g, n) => (Wanted(f, n) /\ Passed(f, n)) \/ n \in blocks \/ excused1(n)
      BY <1>10, <1>11, <1>12
    <2>5. MovesOn(f, g, blocks, b)
      BY <1>11, <2>1, <2>2, <2>3, <2>4 DEF MovesOn
    <2> QED
      BY <2>5 DEF g, next, res, blocks
  (* From the cursor on, what is wanted is in the range or beyond it. *)
  <1>13. ASSUME NEW n \in Nat, Wanted(f, n), ~(n < f.lastQueried)
         PROVE  c.tag \in {"number", "earliest"} /\ n >= c.n /\ HasLogs(n) /\ (f.to.tag \in {"number", "earliest"} => n <= f.to.n)
    BY <1>8, <1>9, <1>13 DEF Wanted
  <1>14. CASE logs = <<>> /\ (lo = NoBlock \/ hi = NoBlock)
    <2>1. next = l
      BY <1>2, <1>3, <1>14
    <2>2. blocks = {}
      BY <1>3, <1>14 DEF BlocksOf, blocks
    <2>3. ASSUME NEW n \in 0 .. Len(chain) - 1, Wanted(f, n), ~(n < f.lastQueried) PROVE excused1(n)
      <3>1. n \in Nat
        OBVIOUS
      <3>2. c.tag \in {"number", "earliest"} /\ n >= c.n /\ (f.to.tag \in {"number", "earliest"} => n <= f.to.n)
        BY <1>13, <2>3, <3>1
      <3>3. CASE lo = NoBlock
        <4>1. c.n >= u
          BY <1>2, <1>4, <1>6, <3>2, <3>3 DEF NoBlock
        <4> QED
          BY <1>2, <1>4, <3>1, <3>2, <4>1
      <3>4. CASE lo # NoBlock
        <4>1. end = NoBlock
          BY <1>14, <3>4 DEF hi
        <4>2. f.to.tag \in {"number", "earliest"} /\ f.to.n >= t
          BY <1>2, <1>4, <1>7, <4>1 DEF NoBlock
        <4>3. f.to.tag = "number" \/ f.to.n = 0
          BY <1>4 DEF BoundOK
        <4> QED
          BY <1>2, <1>4, <4>2, <4>3
      <3> QED
        BY <3>3, <3>4
    <2> QED
      BY <1>2, <1>8, <2>1, <2>2, <2>3
  <1>15. CASE lo \in 0 .. t - 1 /\ hi \in lo .. t - 1 /\ Found(logs, lo, hi)
    <2>1. /\ blocks = {n \in lo .. hi : HasLogs(n)}
          /\ logs = <<>> <=> blocks = {}
          /\ logs # <<>> => logs[Len(logs)][1] \in blocks /\ \A n \in blocks : n <= logs[Len(logs)][1]
      BY <1>3, <1>15 DEF Found, blocks
    <2>2. lo \in Nat /\ hi \in Nat /\ lo <= hi /\ hi < t /\ lo # NoBlock
      BY <1>2, <1>15 DEF NoBlock
    <2>3. f.lastQueried > 0 => lo = f.lastQueried
      BY <1>6, <1>9, <2>2
    <2>4. \A n \in blocks : n \in Nat /\ n >= lo /\ n <= hi /\ ~(n < f.lastQueried)
      BY <1>8, <2>1, <2>2, <2>3
    <2>5. ASSUME NEW n \in Nat, Wanted(f, n), ~(n < f.lastQueried)
          PROVE  n >= lo /\ (n <= hi => n \in blocks)
      <3>1. c.tag \in {"number", "earliest"} /\ n >= c.n /\ HasLogs(n)
        BY <1>13, <2>5
      <3>2. lo = c.n
        BY <1>6, <2>2, <3>1
      <3> QED
        BY <2>1, <2>2, <3>1, <3>2
    <2>6. CASE logs # <<>>
      <3> DEFINE last == logs[Len(logs)][1]
      <3>1. next = 1 + last /\ last \in blocks /\ \A n \in blocks : n <= last
        BY <1>3, <2>1, <2>6
      <3> HIDE DEF last
      <3>2. last \in Nat /\ last <= hi /\ lo <= last
        BY <2>4, <3>1
      <3>3. next \in 0 .. Len(chain) /\ f.lastQueried <= next
        BY <1>2, <1>8, <2>2, <2>3, <3>1, <3>2
      <3>4. \A n \in blocks : n \in Nat /\ n < next /\ ~(n < f.lastQueried)
        BY <2>4, <3>1, <3>2
      <3>5. \A n \in 0 .. Len(chain) - 1 : Wanted(f, n) /\ n < next => n < f.lastQueried \/ n \in blocks
        BY <2>2, <2>5, <3>1, <3>2
      <3> QED
        BY <3>3, <3>4, <3>5
    <2>7. CASE logs = <<>>
      <3>1. next = l /\ blocks = {}
        BY <1>2, <1>3, <2>1, <2>7
      <3>2. ASSUME NEW n \in 0 .. Len(chain) - 1, Wanted(f, n), ~(n < f.lastQueried) PROVE excused1(n)
        <4>1. n \in Nat
          OBVIOUS
        <4>2. n > hi
          BY <2>2, <2>5, <3>1, <3>2, <4>1
        <4>3. c.tag \in {"number", "earliest"} /\ (f.to.tag \in {"number", "earliest"} => n <= f.to.n)
          BY <1>13, <3>2, <4>1
        <4>4. ~SameBlock(c, f.to)
          <5> SUFFICES ASSUME SameBlock(c, f.to) PROVE FALSE
            OBVIOUS
          <5>1. c = f.to
            BY <4>3 DEF SameBlock, BlockTagIsLatestOrPending
          <5>2. hi = c.n
            BY <1>6, <2>2, <4>3 DEF hi
          <5> QED
            BY <1>4, <4>1, <4>2, <4>3, <5>1, <5>2
        <4>5. hi = end
          BY <4>4 DEF hi
        <4>6. CASE f.to.tag \in {"number", "earliest"}
          BY <1>4, <1>7, <2>2, <4>1, <4>2, <4>3, <4>5, <4>6 DEF NoBlock
        <4>7. CASE f.to.tag \notin {"number", "earliest"}
          BY <1>2, <1>7, <4>1, <4>2, <4>5, <4>7
        <4> QED
          BY <4>6, <4>7
      <3> QED
        BY <1>2, <1>8, <3>1, <3>2
    <2> QED
      BY <2>6, <2>7
  <1> QED
    BY <1>5, <1>14, <1>15

(* A set of naturals that has a bound has a greatest element, the least of its bounds. *)
LEMMA GreatestNatural ==
  ASSUME NEW S \in SUBSET Nat, S # {}, NEW w \in Nat, \A k \in S : k <= w
  PROVE  \E m \in S : \A k \in S : m >= k
  <1> DEFINE T == {u \in Nat : \A k \in S : k <= u}
             R == OpToRel(<, Nat)
  <1>1. \A x, y \in Nat : y < x => <<y, x>> \in R
    BY DEF OpToRel
  <1>2. IsWellFoundedOn(R, Nat)
    BY NatLessThanWellFounded
  <1>3. T \subseteq Nat /\ T # {}
    <2>1. w \in T
      OBVIOUS
    <2> QED
      BY <2>1
  <1> HIDE DEF T, R
  <1>4. PICK m \in T : \A y \in T : ~(<<y, m>> \in R)
    BY <1>2, <1>3, WFMin
  <1>5. m \in Nat /\ \A k \in S : k \in Nat /\ k <= m
    BY DEF T
  <1>6. m \in S
    <2> SUFFICES ASSUME m \notin S PROVE FALSE
      OBVIOUS
    <2>1. \A k \in S : k <= m - 1
      BY <1>5
    <2>2. m - 1 \in Nat
      <3>1. PICK k \in S : TRUE
        OBVIOUS
      <3> QED
        BY <1>5, <2>1, <3>1
    <2>3. m - 1 \in T
      BY <2>1, <2>2 DEF T
    <2>4. m - 1 < m
      BY <1>5
    <2> QED
      BY <1>1, <1>4, <1>5, <2>2, <2>3, <2>4
  <1> QED
    BY <1>5, <1>6

(* A page of blocks after c, of those before t, has every block up to its last, and is empty only when there is none. *)
LEMMA PageOfBlocks ==
  ASSUME NEW c \in Nat, NEW t \in Nat \ {0}
  PROVE  LET blocks == GetBlocksAfter(c, 2 * t)
         IN  /\ \A m \in blocks : m \in Nat /\ c < m /\ m < t
             /\ \A m \in blocks, n \in Nat : c < n /\ n <= m => n \in blocks
             /\ blocks = {} => t <= c + 1
  <1> DEFINE all == {m \in 0 .. t - 1 : m > c}
             Lower(m) == {k \in all : k < m}
             blocks == GetBlocksAfter(c, 2 * t)
  <1>1. blocks = {m \in all : Cardinality(Lower(m)) < PageSize}
    BY WholeView DEF GetBlocksAfter
  <1>2. \A m \in all : m \in Nat /\ c < m /\ m < t
    OBVIOUS
  <1>3. \A n \in Nat : c < n /\ n < t => n \in all
    OBVIOUS
  <1>4. IsFiniteSet(all)
    <2> DEFINE w == t - 1
    <2>1. w \in Int
      OBVIOUS
    <2> HIDE DEF w
    <2>2. IsFiniteSet(0 .. w)
      BY <2>1, FS_Interval
    <2>3. all \subseteq 0 .. w
      BY DEF w
    <2> QED
      BY <2>2, <2>3, FS_Subset
  <1> HIDE DEF all, blocks
  <1>5. \A m : IsFiniteSet(Lower(m)) /\ Cardinality(Lower(m)) \in Nat
    <2> SUFFICES ASSUME NEW m PROVE IsFiniteSet(Lower(m)) /\ Cardinality(Lower(m)) \in Nat
      OBVIOUS
    <2>1. IsFiniteSet(Lower(m))
      BY <1>4, FS_Subset
    <2> HIDE DEF Lower
    <2> QED
      BY <2>1, FS_CardinalityType
  <1>6. ASSUME NEW m \in blocks, NEW n \in Nat, c < n, n <= m PROVE n \in blocks
    <2>1. m \in all /\ m \in Nat /\ m < t /\ Cardinality(Lower(m)) < PageSize
      BY <1>1, <1>2
    <2>2. n \in all
      BY <1>3, <1>6, <2>1
    <2>3. Lower(n) \subseteq Lower(m)
      <3> SUFFICES ASSUME NEW k \in all, k < n PROVE k < m
        OBVIOUS
      <3>1. k \in Nat
        BY <1>2
      <3> QED
        BY <1>6, <2>1, <3>1
    <2> HIDE DEF Lower
    <2>4. Cardinality(Lower(n)) <= Cardinality(Lower(m))
      BY <1>5, <2>3, FS_Subset
    <2>5. Cardinality(Lower(n)) < PageSize
      BY <1>5, <2>1, <2>4, SlotsType
    <2> QED
      BY <1>1, <2>2, <2>5
  <1>7. ASSUME blocks = {} PROVE t <= c + 1
    <2> SUFFICES ASSUME ~(t <= c + 1) PROVE FALSE
      OBVIOUS
    <2> DEFINE m == c + 1
    <2>1. m \in all
      BY <1>3
    <2>2. Lower(m) = {}
      BY <1>2
    <2>3. Cardinality(Lower(m)) = 0
      BY <2>2, FS_EmptySet
    <2> HIDE DEF Lower, m
    <2>4. Cardinality(Lower(m)) < PageSize
      BY <2>3, SlotsType
    <2> QED
      BY <1>1, <1>7, <2>1, <2>4
  <1>8. \A m \in blocks : m \in all
    BY <1>1
  <1> QED
    BY <1>2, <1>6, <1>7, <1>8 DEF blocks

(* handleNewBlockFilterChanges *)
LEMMA BlockChanges ==
  ASSUME ChainOK, NEW b \in 1 .. Len(chain), NEW f, FilterOK(f, b), f.type = "newBlock", NEW vs \in ViewsSince(b)
  PROVE  LET res == HandleNewBlockFilterChanges(f, vs)
         IN  MovesOn(f, [f EXCEPT !.lastQueried = res.next], res.blocks, b)
  <1> DEFINE res == HandleNewBlockFilterChanges(f, vs)
             c == Cursor(f).n
             blocks == res.blocks
             next == res.next
             g == [f EXCEPT !.lastQueried = next]
  <1>1. PICK u, t, l \in b .. Len(chain) : u <= t /\ t <= l /\ vs = <<2 * u, 2 * u, 2 * t, 2 * t, 2 * l>>
    BY ViewsOfRequest
  <1>2. /\ b \in Nat \ {0} /\ t \in Nat \ {0} /\ l \in Nat \ {0} /\ b <= t /\ t <= l
        /\ l <= Len(chain) /\ Len(chain) \in Nat
    BY <1>1 DEF ChainOK
  <1>3. /\ blocks = GetBlocksAfter(c, 2 * t)
        /\ next = IF blocks # {} THEN CHOOSE m \in blocks : \A k \in blocks : m >= k ELSE l - 1
    <2>1. vs[4] = 2 * t /\ vs[5] = 2 * l
      BY <1>1
    <2>2. GetLatestBlockNumber(vs[5]) = l - 1
      BY <1>2, <2>1, WholeView DEF GetLatestBlockNumber, GetLatestBlock
    <2> QED
      BY <2>1, <2>2 DEF HandleNewBlockFilterChanges
  <1>4. c \in Nat /\ (f.lastQueried > 0 => c = f.lastQueried) /\ (~(f.lastQueried > 0) => c = f.from.n)
    BY CursorOK
  <1>5. f.lastQueried \in Int /\ f.lastQueried < b /\ f.lastQueried >= NoQuery /\ f.from.n \in Nat
    BY DEF FilterOK, Bounds
  <1>6. /\ \A m \in blocks : m \in Nat /\ c < m /\ m < t
        /\ \A m \in blocks, n \in Nat : c < n /\ n <= m => n \in blocks
        /\ blocks = {} => t <= c + 1
    <2> DEFINE page == GetBlocksAfter(c, 2 * t)
    <2> HIDE DEF c
    <2>1. /\ \A m \in page : m \in Nat /\ c < m /\ m < t
          /\ \A m \in page, n \in Nat : c < n /\ n <= m => n \in page
          /\ page = {} => t <= c + 1
      BY <1>2, <1>4, PageOfBlocks
    <2>2. blocks = page
      BY <1>3
    <2> HIDE DEF page, blocks
    <2> QED
      BY <2>1, <2>2
  <1>7. \A n : /\ Passed(f, n) <=> n <= f.lastQueried
               /\ Wanted(f, n) <=> n > f.from.n
    BY DEF Passed, Wanted
  <1>8. /\ \A n : Passed(g, n) <=> n <= next
        /\ \A n : Wanted(g, n) <=> Wanted(f, n)
        /\ next \in Int /\ next >= NoQuery /\ next < Len(chain) => FilterOK(g, Len(chain))
    BY NewCursor DEF Passed
  <1> HIDE DEF c, g, res, blocks, next
  <1>9. SUFFICES /\ next \in 0 .. Len(chain) - 1 /\ f.lastQueried <= next
                 /\ \A n \in blocks : n <= next
                 /\ \A n \in Nat : c < n /\ n <= next => n \in blocks \/ n >= b
    <2>1. next \in Int /\ next >= NoQuery /\ next < Len(chain) /\ f.lastQueried <= next
      BY <1>2, <1>9 DEF NoQuery
    <2>2. \A n \in Nat : Passed(f, n) => Passed(g, n)
      BY <1>5, <1>7, <1>8, <2>1
    <2>3. \A n \in blocks : n \in Nat /\ Passed(g, n) /\ ~Passed(f, n)
      BY <1>4, <1>5, <1>6, <1>7, <1>8, <1>9
    <2>4. \A n \in 0 .. Len(chain) - 1 :
            Wanted(g, n) /\ Passed(g, n) => (Wanted(f, n) /\ Passed(f, n)) \/ n \in blocks \/ n >= b
      BY <1>4, <1>5, <1>7, <1>8, <1>9
    <2>5. MovesOn(f, g, blocks, b)
      BY <1>8, <2>1, <2>2, <2>3, <2>4 DEF MovesOn
    <2> QED
      BY <2>5 DEF g, next, res, blocks
  <1>10. CASE blocks = {}
    <2>1. next = l - 1 /\ t <= c + 1
      BY <1>3, <1>6, <1>10
    <2> QED
      BY <1>2, <1>4, <1>5, <1>10, <2>1
  <1>11. CASE blocks # {}
    <2>1. \E m \in blocks : \A k \in blocks : m >= k
      <3>1. blocks \in SUBSET Nat /\ \A k \in blocks : k <= t
        BY <1>2, <1>6
      <3> QED
        BY <1>2, <1>11, <3>1, GreatestNatural
    <2>2. next \in blocks /\ \A k \in blocks : next >= k
      BY <1>3, <1>11, <2>1
    <2>3. next \in Nat /\ c < next /\ next < t
      BY <1>6, <2>2
    <2>4. \A n \in blocks : n <= next
      BY <1>6, <2>2, <2>3
    <2>5. \A n \in Nat : c < n /\ n <= next => n \in blocks
      BY <1>6, <2>2
    <2>6. next \in 0 .. Len(chain) - 1 /\ f.lastQueried <= next
      BY <1>2, <1>4, <1>5, <2>3
    <2> QED
      BY <2>4, <2>5, <2>6
  <1> QED
    BY <1>10, <1>11

-----------------------------------------------------------------------------
(* The invariant of the filters. *)

RequestTypeOK(q) ==
    \/ q = Idle
    \/ q.kind = "uninstallFilter" /\ q.id \in FilterIds
    \/ /\ DOMAIN q = {"kind", "id", "read", "began"}
       /\ q.kind \in Kinds /\ q.id \in FilterIds /\ q.began \in 1 .. Len(chain)
       /\ FilterOK(q.read[1], q.began)

FilterTypes ==
    /\ ChainOK
    /\ DOMAIN filters \subseteq FilterIds /\ \A id \in DOMAIN filters : FilterOK(filters[id], Len(chain))
    /\ DOMAIN requests = Requests /\ \A r \in Requests : RequestTypeOK(requests[r])
    /\ DOMAIN answered = FilterIds /\ DOMAIN excused = FilterIds
    /\ \A id \in FilterIds : answered[id] \subseteq Nat

(* The requests that read the filter and may write it back. *)
Readers(id) == {r \in InFlight(id) : requests[r].kind # "uninstallFilter"}

(* What the filter has passed was answered or is excused. *)
Covered(f, id) ==
    \A n \in 0 .. Len(chain) - 1 : Wanted(f, n) /\ Passed(f, n) => n \in answered[id] \cup excused[id]

CoverInv ==
    /\ \A id \in DOMAIN filters : Covered(filters[id], id)
    /\ \A id \in FilterIds : \A r \in Readers(id) : Covered(requests[r].read[1], id)

(* Without overlap or failing writes there is one request at a time, and everything answered is behind the filter. *)
Behind(f, id) == \A n \in answered[id] : Passed(f, n)

OneAtATime ==
    \A id \in FilterIds \ disturbed :
        /\ \A r, s \in InFlight(id) : r = s
        /\ id \in DOMAIN filters => Behind(filters[id], id)
        /\ \A r \in Readers(id) : Behind(requests[r].read[1], id)

LifeInv ==
    \A id \in FilterIds :
        /\ InFlight(id) # {} \/ answered[id] # {} => id \in DOMAIN filters \cup removed
        /\ id \in removed /\ (id \in DOMAIN filters \/ InFlight(id) # {}) => id \in retained

FilterInv == FilterTypes /\ CoverInv /\ OneAtATime /\ LifeInv /\ repeated \subseteq disturbed

(* A request for changes that is answered. *)
LEMMA ChangesMoveOn ==
  ASSUME ChainOK, NEW b \in 1 .. Len(chain), NEW f, FilterOK(f, b), NEW vs \in ViewsSince(b), Changes(f, vs).st = "ok"
  PROVE  MovesOn(f, [f EXCEPT !.lastQueried = Changes(f, vs).next], Changes(f, vs).blocks, b)
  <1>1. CASE f.type = "log"
    <2>1. Changes(f, vs) = HandleLogFilterChanges(f, vs)
      BY <1>1 DEF Changes
    <2> QED
      BY <1>1, <2>1, LogChanges
  <1>2. CASE f.type = "newBlock"
    <2>1. Changes(f, vs) = HandleNewBlockFilterChanges(f, vs)
      BY <1>2 DEF Changes
    <2> QED
      BY <1>2, <2>1, BlockChanges
  <1> QED
    BY <1>1, <1>2 DEF FilterOK

LEMMA FilterLater ==
  ASSUME NEW f, NEW h \in Nat, NEW k \in Nat, h <= k, FilterOK(f, h)
  PROVE  FilterOK(f, k)
  BY DEF FilterOK

(* A filter that was never asked has passed nothing. *)
LEMMA NewPassedNothing ==
  ASSUME NEW f, f.lastQueried = NoQuery, NEW n \in Nat
  PROVE  ~Passed(f, n)
  BY DEF Passed, NoQuery

(* What is in the cache after a write or a delete. *)
LEMMA WithAt ==
  ASSUME NEW f, NEW id, NEW v
  PROVE  /\ DOMAIN With(f, id, v) = DOMAIN f \cup {id} /\ With(f, id, v)[id] = v
         /\ \A x \in DOMAIN f \ {id} : With(f, id, v)[x] = f[x]
         /\ DOMAIN Without(f, id) = DOMAIN f \ {id}
         /\ \A x \in DOMAIN f \ {id} : Without(f, id)[x] = f[x]
  BY DEF With, Without

(* A request that is in flight, and what it read. *)
LEMMA OfRequest ==
  ASSUME FilterInv, NEW id, NEW r \in InFlight(id)
  PROVE  /\ r \in Requests /\ requests[r].id = id /\ id \in FilterIds
         /\ id \in removed => id \in retained
         /\ id \notin disturbed => InFlight(id) = {r}
         /\ r \in Readers(id) =>
              /\ requests[r].began \in 1 .. Len(chain) /\ FilterOK(requests[r].read[1], requests[r].began)
              /\ FilterOK(requests[r].read[1], Len(chain))
              /\ Covered(requests[r].read[1], id)
              /\ id \notin disturbed => Behind(requests[r].read[1], id)
  <1>1. r \in Requests /\ requests[r].id = id /\ requests[r].kind # "none"
    BY DEF InFlight
  <1>2. requests[r] # Idle /\ RequestTypeOK(requests[r])
    BY <1>1 DEF Idle, FilterInv, FilterTypes
  <1>3. id \in FilterIds
    BY <1>1, <1>2 DEF RequestTypeOK
  <1>4. (id \in removed => id \in retained) /\ (id \notin disturbed => InFlight(id) = {r})
    BY <1>3 DEF FilterInv, LifeInv, OneAtATime
  <1>5. ASSUME r \in Readers(id)
        PROVE  /\ requests[r].began \in 1 .. Len(chain) /\ FilterOK(requests[r].read[1], requests[r].began)
               /\ FilterOK(requests[r].read[1], Len(chain))
               /\ Covered(requests[r].read[1], id)
               /\ id \notin disturbed => Behind(requests[r].read[1], id)
    <2>1. requests[r].began \in 1 .. Len(chain) /\ FilterOK(requests[r].read[1], requests[r].began)
      BY <1>2, <1>5 DEF RequestTypeOK, Readers
    <2>2. Len(chain) \in Nat /\ requests[r].began \in Nat /\ requests[r].began <= Len(chain)
      BY <2>1 DEF FilterInv, FilterTypes, ChainOK
    <2>3. FilterOK(requests[r].read[1], Len(chain))
      BY <2>1, <2>2, FilterLater
    <2>4. Covered(requests[r].read[1], id) /\ (id \notin disturbed => Behind(requests[r].read[1], id))
      BY <1>3, <1>5 DEF FilterInv, CoverInv, OneAtATime
    <2> QED
      BY <2>1, <2>3, <2>4
  <1> QED
    BY <1>1, <1>3, <1>4, <1>5

(* A request that ends leaves the others as they are. *)
LEMMA DoneKeeps ==
  ASSUME FilterTypes, NEW r \in Requests, Done(r)
  PROVE  /\ DOMAIN requests' = Requests /\ requests'[r] = Idle /\ \A s \in Requests \ {r} : requests'[s] = requests[s]
         /\ \A id : /\ InFlight(id)' = InFlight(id) \ {r}
                    /\ Readers(id)' = Readers(id) \ {r}
                    /\ \A s \in InFlight(id)' : requests'[s] = requests[s]
  <1>1. DOMAIN requests' = Requests /\ requests'[r] = Idle /\ \A s \in Requests \ {r} : requests'[s] = requests[s]
    BY DEF FilterTypes, Done
  <1>2. ASSUME NEW id PROVE InFlight(id)' = InFlight(id) \ {r}
    BY <1>1 DEF InFlight, Idle
  <1>3. \A id : Readers(id)' = Readers(id) \ {r}
    BY <1>1, <1>2 DEF Readers, InFlight
  <1> QED
    BY <1>1, <1>2, <1>3 DEF InFlight

LEMMA InitFilterInv == FilterInit => FilterInv
  <1> SUFFICES ASSUME FilterInit PROVE FilterInv
    OBVIOUS
  <1>1. ChainOK
    <2>1. PICK c \in BlockContents : chain = <<c>>
      BY DEF FilterInit, ChainInit
    <2>2. <<c>> \in Seq(BlockContents) /\ Len(<<c>>) = 1
      OBVIOUS
    <2> QED
      BY <2>1, <2>2 DEF ChainOK
  <1>2. DOMAIN filters = {} /\ \A id : InFlight(id) = {} /\ Readers(id) = {}
    BY DEF FilterInit, InFlight, Idle, Readers
  <1>3. /\ DOMAIN requests = Requests /\ \A r \in Requests : RequestTypeOK(requests[r])
        /\ DOMAIN answered = FilterIds /\ DOMAIN excused = FilterIds
        /\ \A id \in FilterIds : answered[id] = {}
    BY DEF FilterInit, RequestTypeOK
  <1>4. FilterTypes
    BY <1>1, <1>2, <1>3 DEF FilterTypes
  <1>5. CoverInv /\ OneAtATime
    BY <1>2 DEF CoverInv, OneAtATime
  <1>6. LifeInv /\ repeated \subseteq disturbed
    BY <1>2, <1>3 DEF LifeInv, FilterInit
  <1> QED
    BY <1>4, <1>5, <1>6 DEF FilterInv

(* A block that is imported is behind no filter, and the others have the logs they had. *)
LEMMA ImportKeeps ==
  ASSUME FilterInv, ImportBlock
  PROVE  FilterInv'
  <1>1. PICK c \in BlockContents : chain' = Append(chain, c)
    BY DEF ImportBlock, Import
  <1>2. UNCHANGED <<filters, requests, answered, excused, disturbed, repeated, removed, retained>>
    BY DEF ImportBlock, fvars, ghosts
  <1>3. ChainOK /\ Len(chain) \in Nat \ {0}
    BY DEF FilterInv, FilterTypes, ChainOK
  <1>4. /\ Len(chain') = Len(chain) + 1 /\ DOMAIN chain' = 1 .. Len(chain')
        /\ \A i \in 1 .. Len(chain) : chain'[i] = chain[i]
        /\ chain'[Len(chain) + 1] = c
    BY <1>1, <1>3 DEF ChainOK
  <1>5. ChainOK'
    <2>1. Append(chain, c) \in Seq(BlockContents)
      BY <1>3 DEF ChainOK
    <2> QED
      BY <1>1, <1>3, <1>4, <2>1 DEF ChainOK
  <1>6. \A f : \A n \in 0 .. Len(chain) - 1 : Wanted(f, n)' <=> Wanted(f, n)
    <2>1. \A n \in 0 .. Len(chain) - 1 : HasLogs(n)' <=> HasLogs(n)
      BY <1>3, <1>4 DEF HasLogs
    <2> QED
      BY <2>1 DEF Wanted
  <1>7. ASSUME NEW f, NEW id, FilterOK(f, Len(chain)), Covered(f, id) PROVE Covered(f, id)'
    <2> SUFFICES ASSUME NEW n \in 0 .. Len(chain'), n <= Len(chain') - 1, Wanted(f, n)', Passed(f, n)
                 PROVE  n \in answered[id] \cup excused[id]
      BY <1>2, <1>3, <1>4 DEF Covered, Passed
    <2>1. f.lastQueried \in Int /\ ~Passed(f, Len(chain))
      BY <1>3, <1>7 DEF FilterOK, Passed
    <2>2. n \in 0 .. Len(chain) - 1
      BY <1>3, <1>4, <2>1
    <2> QED
      BY <1>6, <1>7, <2>2 DEF Covered
  <1>8. \A id : InFlight(id)' = InFlight(id) /\ Readers(id)' = Readers(id)
    BY <1>2 DEF InFlight, Readers
  <1>9. \A f, id : Behind(f, id)' <=> Behind(f, id)
    BY <1>2 DEF Behind, Passed
  <1>10. \A f : FilterOK(f, Len(chain)) => FilterOK(f, Len(chain'))
    BY <1>3, <1>4, FilterLater
  <1>11. FilterTypes'
    <2>1. \A r \in Requests : RequestTypeOK(requests[r])'
      BY <1>2, <1>3, <1>4 DEF FilterInv, FilterTypes, RequestTypeOK
    <2> QED
      BY <1>2, <1>5, <1>10, <2>1 DEF FilterInv, FilterTypes
  <1>12. CoverInv'
    <2>1. \A id \in DOMAIN filters : Covered(filters[id], id)'
      BY <1>2, <1>7 DEF FilterInv, FilterTypes, CoverInv
    <2>2. \A id \in FilterIds : \A r \in Readers(id) : Covered(requests[r].read[1], id)'
      BY <1>2, <1>7, OfRequest DEF Readers
    <2> QED
      BY <1>2, <1>8, <2>1, <2>2 DEF CoverInv
  <1>13. OneAtATime'
    BY <1>2, <1>8, <1>9 DEF FilterInv, OneAtATime
  <1>14. LifeInv' /\ (repeated \subseteq disturbed)'
    BY <1>2, <1>8 DEF FilterInv, LifeInv
  <1> QED
    BY <1>11, <1>12, <1>13, <1>14 DEF FilterInv

(* What depends on the chain and the answers only. *)
LEMMA SameChain ==
  ASSUME UNCHANGED chain
  PROVE  /\ ChainOK' <=> ChainOK
         /\ \A f, n : Wanted(f, n)' <=> Wanted(f, n)
         /\ \A q : RequestTypeOK(q) => RequestTypeOK(q)'
         /\ \A f, id : answered'[id] = answered[id] => (Behind(f, id)' <=> Behind(f, id))
         /\ \A f, id : answered[id] \cup excused[id] \subseteq answered'[id] \cup excused'[id] /\ Covered(f, id) => Covered(f, id)'
  <1>1. \A f, n : Wanted(f, n)' <=> Wanted(f, n)
    BY DEF Wanted, HasLogs
  <1>2. \A f, id : answered'[id] = answered[id] => (Behind(f, id)' <=> Behind(f, id))
    BY DEF Behind, Passed
  <1>3. ASSUME NEW f, NEW id, answered[id] \cup excused[id] \subseteq answered'[id] \cup excused'[id], Covered(f, id)
        PROVE  Covered(f, id)'
    BY <1>1, <1>3 DEF Covered, Passed
  <1> QED
    BY <1>1, <1>2, <1>3 DEF ChainOK, RequestTypeOK

(* A filter is created under an id that nothing is known of. *)
LEMMA CreateKeeps ==
  ASSUME FilterInv, NEW id \in FilterIds, NEW f, FilterOK(f, Len(chain)), f.lastQueried = NoQuery, CreateFilter(id, f)
  PROVE  FilterInv'
  <1>1. UNCHANGED <<chain, requests, answered, excused, disturbed, repeated, removed, retained>>
    BY DEF CreateFilter, ghosts
  <1>2. filters' = With(filters, id, f) /\ id \notin DOMAIN filters /\ id \notin removed
    BY DEF CreateFilter, Cached
  <1>3. /\ DOMAIN filters' = DOMAIN filters \cup {id} /\ filters'[id] = f
        /\ \A x \in DOMAIN filters : x # id /\ filters'[x] = filters[x]
    BY <1>2 DEF With
  <1>4. answered[id] = {}
    BY <1>2 DEF FilterInv, LifeInv
  <1>5. \A k : InFlight(k)' = InFlight(k) /\ Readers(k)' = Readers(k)
    BY <1>1 DEF InFlight, Readers
  <1>6. FilterTypes'
    BY <1>1, <1>3, SameChain DEF FilterInv, FilterTypes
  <1>7. CoverInv'
    <2>1. Covered(f, id)
      BY NewPassedNothing DEF Covered
    <2> QED
      BY <1>1, <1>3, <1>5, <2>1, SameChain DEF FilterInv, CoverInv
  <1>8. OneAtATime'
    <2>1. Behind(f, id)
      BY <1>4 DEF Behind
    <2> QED
      BY <1>1, <1>3, <1>5, <2>1, SameChain DEF FilterInv, OneAtATime
  <1>9. LifeInv' /\ (repeated \subseteq disturbed)'
    BY <1>1, <1>2, <1>3, <1>5 DEF FilterInv, LifeInv
  <1> QED
    BY <1>6, <1>7, <1>8, <1>9 DEF FilterInv

(* The number of the latest block is a bound. *)
LEMMA LatestBound ==
  ASSUME FilterInv
  PROVE  LET newest == Number(GetLatestBlockNumber(2 * Len(chain)))
         IN  newest \in Bounds /\ newest.tag = "number" /\ Len(chain) \in Nat \ {0}
  <1>1. GetLatestBlockNumber(2 * Len(chain)) \in Nat /\ Len(chain) \in Nat \ {0}
    BY WholeView DEF FilterInv, FilterTypes, ChainOK, GetLatestBlockNumber, GetLatestBlock
  <1> QED
    BY <1>1 DEF Number, Bounds

LEMMA NewFilterKeeps ==
  ASSUME FilterInv, NEW id \in FilterIds, NEW from \in FromBlocks, NEW to \in ToBlocks, NewFilter(id, from, to)
  PROVE  FilterInv'
  <1> DEFINE newest == Number(GetLatestBlockNumber(2 * Len(chain)))
             f == [type |-> "log", to |-> to, lastQueried |-> NoQuery, from |-> IF from = Tag("latest") THEN newest ELSE from]
  <1>1. /\ from \in Bounds /\ (from.tag = "number" \/ from.n = 0)
        /\ to \in Bounds /\ (to.tag = "number" \/ to.n = 0)
    BY FiltersAssumption DEF Tag
  <1>2. CreateFilter(id, f)
    BY DEF NewFilter
  <1>3. newest \in Bounds /\ newest.tag = "number" /\ Len(chain) \in Nat \ {0}
    BY LatestBound
  <1> HIDE DEF newest
  <1>4. FilterOK(f, Len(chain)) /\ f.lastQueried = NoQuery
    BY <1>1, <1>3 DEF FilterOK, NoQuery
  <1> HIDE DEF f
  <1> QED
    BY <1>2, <1>4, CreateKeeps

LEMMA NewBlockFilterKeeps ==
  ASSUME FilterInv, NEW id \in FilterIds, NewBlockFilter(id)
  PROVE  FilterInv'
  <1> DEFINE newest == Number(GetLatestBlockNumber(2 * Len(chain)))
             f == [type |-> "newBlock", to |-> Tag("latest"), lastQueried |-> NoQuery, from |-> newest]
  <1>1. CreateFilter(id, f)
    BY DEF NewBlockFilter
  <1>2. newest \in Bounds /\ newest.tag = "number" /\ Len(chain) \in Nat \ {0}
    BY LatestBound
  <1> HIDE DEF newest
  <1>3. FilterOK(f, Len(chain)) /\ f.lastQueried = NoQuery
    BY <1>2 DEF FilterOK, NoQuery, Tag, Bounds
  <1> HIDE DEF f
  <1> QED
    BY <1>1, <1>3, CreateKeeps

LEMMA AskKeeps ==
  ASSUME FilterInv, NEW r \in Requests, NEW kind \in Kinds, NEW id \in FilterIds, Ask(r, kind, id)
  PROVE  FilterInv'
  <1> DEFINE q == IF kind = "uninstallFilter" THEN [Idle EXCEPT !.kind = kind, !.id = id]
                  ELSE [kind |-> kind, id |-> id, read |-> <<filters[id]>>, began |-> Len(chain)]
  <1>1. UNCHANGED <<chain, filters, answered, excused, repeated, removed, retained>>
    BY DEF Ask
  <1>2. /\ requests[r].kind = "none" /\ id \in DOMAIN filters
        /\ requests' = [requests EXCEPT ![r] = q]
        /\ disturbed' = IF InFlight(id) = {} THEN disturbed ELSE disturbed \cup {id}
    BY DEF Ask, Cached
  <1>3. /\ q.kind = kind /\ kind # "none" /\ q.id = id
        /\ kind # "uninstallFilter" => q.read[1] = filters[id] /\ q.began = Len(chain)
    BY DEF Kinds, Idle
  <1>4. kind # "uninstallFilter" => DOMAIN q = {"kind", "id", "read", "began"}
    OBVIOUS
  <1> HIDE DEF q
  <1>5. DOMAIN requests' = Requests /\ requests'[r] = q /\ \A s \in Requests \ {r} : requests'[s] = requests[s]
    BY <1>2 DEF FilterInv, FilterTypes
  <1>6. /\ InFlight(id)' = InFlight(id) \cup {r} /\ \A k : k # id => InFlight(k)' = InFlight(k)
        /\ \A k : r \notin InFlight(k)
    BY <1>2, <1>3, <1>5 DEF InFlight
  <1>7. \A k : \A s \in InFlight(k) : requests'[s] = requests[s]
    BY <1>5, <1>6 DEF InFlight
  <1>a. \A k : \A s \in Readers(k)' :
          IF s = r THEN k = id /\ q.read[1] = filters[id] ELSE s \in Readers(k) /\ requests'[s] = requests[s]
    BY <1>3, <1>5, <1>6, <1>7 DEF Readers
  <1>8. FilterTypes'
    <2>1. RequestTypeOK(q)
      BY <1>2, <1>3, <1>4 DEF FilterInv, FilterTypes, ChainOK, RequestTypeOK
    <2>2. \A s \in Requests : RequestTypeOK(requests'[s])
      BY <1>5, <2>1 DEF FilterInv, FilterTypes
    <2> QED
      BY <1>1, <1>5, <2>2, SameChain DEF FilterInv, FilterTypes
  <1>9. CoverInv'
    <2>1. \A k \in FilterIds : \A s \in Readers(k)' : Covered(requests'[s].read[1], k)
      BY <1>2, <1>5, <1>a DEF FilterInv, CoverInv
    <2> QED
      BY <1>1, <2>1, SameChain DEF FilterInv, CoverInv
  <1>10. OneAtATime'
    <2>1. \A k \in FilterIds \ disturbed' : k \notin disturbed /\ (k = id => InFlight(k) = {})
      BY <1>2
    <2>2. \A k \in FilterIds \ disturbed' : \A s, t \in InFlight(k)' : s = t
      BY <1>6, <2>1 DEF FilterInv, OneAtATime
    <2>3. \A k \in FilterIds \ disturbed' : \A s \in Readers(k)' : Behind(requests'[s].read[1], k)
      BY <1>2, <1>5, <1>a, <2>1 DEF FilterInv, OneAtATime
    <2> QED
      BY <1>1, <2>1, <2>2, <2>3, SameChain DEF FilterInv, OneAtATime
  <1>11. LifeInv' /\ (repeated \subseteq disturbed)'
    BY <1>1, <1>2, <1>6 DEF FilterInv, LifeInv
  <1> QED
    BY <1>8, <1>9, <1>10, <1>11 DEF FilterInv

(* A request ends and leaves the filter g in the cache, or what was there; more may be answered of its id than before. *)
LEMMA EndKeeps ==
  ASSUME FilterInv, NEW id, NEW r \in InFlight(id), Done(r), NEW g,
         UNCHANGED <<chain, disturbed, removed, retained>>,
         DOMAIN answered' = FilterIds, DOMAIN excused' = FilterIds, answered'[id] \subseteq Nat,
         \A k \in FilterIds \ {id} : answered'[k] = answered[k] /\ excused'[k] = excused[k],
         answered[id] \cup excused[id] \subseteq answered'[id] \cup excused'[id],
         filters' = With(filters, id, g), FilterOK(g, Len(chain)), Covered(g, id)', id \notin disturbed => Behind(g, id)',
         repeated' \subseteq disturbed
  PROVE  FilterInv'
  <1>1. id \in FilterIds /\ r \in Requests /\ (id \in removed => id \in retained) /\ (id \notin disturbed => InFlight(id) = {r})
    BY OfRequest
  <1>2. /\ DOMAIN requests' = Requests /\ requests'[r] = Idle /\ \A s \in Requests \ {r} : requests'[s] = requests[s]
        /\ \A k : /\ InFlight(k)' = InFlight(k) \ {r} /\ Readers(k)' = Readers(k) \ {r}
                  /\ \A s \in InFlight(k)' : requests'[s] = requests[s]
    BY <1>1, DoneKeeps DEF FilterInv
  <1>3. /\ DOMAIN filters' = DOMAIN filters \cup {id} /\ filters'[id] = g
        /\ \A k \in DOMAIN filters' : k # id => k \in DOMAIN filters /\ filters'[k] = filters[k]
    BY DEF With
  <1>4. \A k \in FilterIds : answered[k] \cup excused[k] \subseteq answered'[k] \cup excused'[k]
    OBVIOUS
  <1>5. FilterTypes'
    <2>1. \A s \in Requests : RequestTypeOK(requests'[s])
      BY <1>2 DEF FilterInv, FilterTypes, RequestTypeOK
    <2>2. \A k \in DOMAIN filters' : k \in FilterIds /\ FilterOK(filters'[k], Len(chain))
      BY <1>1, <1>3 DEF FilterInv, FilterTypes
    <2>3. \A k \in FilterIds : answered'[k] \subseteq Nat
      BY DEF FilterInv, FilterTypes
    <2> QED
      BY <1>2, <2>1, <2>2, <2>3, SameChain DEF FilterInv, FilterTypes
  <1>6. CoverInv'
    <2>1. \A k \in DOMAIN filters : k \in FilterIds
      BY DEF FilterInv, FilterTypes
    <2>2. \A k \in DOMAIN filters' : Covered(filters[k], k)'
      BY <1>3, <1>4, <2>1, SameChain DEF FilterInv, CoverInv
    <2>3. \A k \in FilterIds : \A s \in Readers(k)' : Covered(requests[s].read[1], k)'
      BY <1>2, <1>4, SameChain DEF FilterInv, CoverInv, Readers
    <2> QED
      BY <2>2, <2>3 DEF CoverInv
  <1>7. OneAtATime'
    <2> SUFFICES ASSUME NEW k \in FilterIds, k \notin disturbed
                 PROVE  /\ \A s, t \in InFlight(k)' : s = t
                        /\ k \in DOMAIN filters' => Behind(filters[k], k)'
                        /\ \A s \in Readers(k)' : Behind(requests[s].read[1], k)'
      BY DEF OneAtATime
    <2>1. CASE k = id
      BY <1>1, <1>2, <1>3, <2>1 DEF Readers
    <2>2. CASE k # id
      BY <1>2, <1>3, <2>2, SameChain DEF FilterInv, OneAtATime, Readers
    <2> QED
      BY <2>1, <2>2
  <1>8. LifeInv' /\ (repeated \subseteq disturbed)'
    <2> SUFFICES ASSUME NEW k \in FilterIds
                 PROVE  /\ InFlight(k)' # {} \/ answered'[k] # {} => k \in DOMAIN filters' \cup removed
                        /\ k \in removed /\ (k \in DOMAIN filters' \/ InFlight(k)' # {}) => k \in retained
      BY DEF LifeInv
    <2>1. CASE k = id
      BY <1>1, <1>3, <2>1
    <2>2. CASE k # id
      BY <1>2, <1>3, <2>2 DEF FilterInv, LifeInv
    <2> QED
      BY <2>1, <2>2
  <1> QED
    BY <1>5, <1>6, <1>7, <1>8 DEF FilterInv

(* A request ends and the cache stays as it is. *)
LEMMA RefusedKeeps ==
  ASSUME FilterInv, NEW id, NEW r \in InFlight(id), Done(r),
         UNCHANGED <<chain, filters, answered, excused, disturbed, repeated, removed, retained>>
  PROVE  FilterInv'
  <1>1. r \in Requests
    BY OfRequest
  <1>2. /\ DOMAIN requests' = Requests /\ requests'[r] = Idle /\ \A s \in Requests \ {r} : requests'[s] = requests[s]
        /\ \A k : /\ InFlight(k)' = InFlight(k) \ {r} /\ Readers(k)' = Readers(k) \ {r}
                  /\ \A s \in InFlight(k)' : requests'[s] = requests[s]
    BY <1>1, DoneKeeps DEF FilterInv
  <1>3. FilterTypes'
    <2>1. \A s \in Requests : RequestTypeOK(requests'[s])
      BY <1>2 DEF FilterInv, FilterTypes, RequestTypeOK
    <2> QED
      BY <1>2, <2>1, SameChain DEF FilterInv, FilterTypes
  <1>4. CoverInv'
    BY <1>2, SameChain DEF FilterInv, CoverInv, Readers
  <1>5. OneAtATime'
    BY <1>2, SameChain DEF FilterInv, OneAtATime, Readers
  <1>6. LifeInv' /\ (repeated \subseteq disturbed)'
    BY <1>2 DEF FilterInv, LifeInv
  <1> QED
    BY <1>3, <1>4, <1>5, <1>6 DEF FilterInv

(* A request is answered, and the filter could not be written back. *)
LEMMA UnwrittenKeeps ==
  ASSUME FilterInv, NEW id, NEW r \in InFlight(id), Done(r),
         UNCHANGED <<chain, filters, removed, retained>>, disturbed' = disturbed \cup {id},
         DOMAIN answered' = FilterIds, DOMAIN excused' = FilterIds, answered'[id] \subseteq Nat,
         \A k \in FilterIds \ {id} : answered'[k] = answered[k] /\ excused'[k] = excused[k],
         answered[id] \cup excused[id] \subseteq answered'[id] \cup excused'[id],
         repeated' \subseteq disturbed'
  PROVE  FilterInv'
  <1>1. r \in Requests /\ id \in FilterIds
    BY OfRequest
  <1>2. /\ DOMAIN requests' = Requests /\ requests'[r] = Idle /\ \A s \in Requests \ {r} : requests'[s] = requests[s]
        /\ \A k : /\ InFlight(k)' = InFlight(k) \ {r} /\ Readers(k)' = Readers(k) \ {r}
                  /\ \A s \in InFlight(k)' : requests'[s] = requests[s]
    BY <1>1, DoneKeeps DEF FilterInv
  <1>3. \A k \in FilterIds : answered[k] \cup excused[k] \subseteq answered'[k] \cup excused'[k]
    OBVIOUS
  <1>4. FilterTypes'
    <2>1. \A s \in Requests : RequestTypeOK(requests'[s])
      BY <1>2 DEF FilterInv, FilterTypes, RequestTypeOK
    <2>2. \A k \in FilterIds : answered'[k] \subseteq Nat
      BY DEF FilterInv, FilterTypes
    <2> QED
      BY <1>2, <2>1, <2>2, SameChain DEF FilterInv, FilterTypes
  <1>5. CoverInv'
    <2>1. \A k \in DOMAIN filters : k \in FilterIds /\ Covered(filters[k], k)'
      BY <1>3, SameChain DEF FilterInv, FilterTypes, CoverInv
    <2>2. \A k \in FilterIds : \A s \in Readers(k)' : Covered(requests[s].read[1], k)'
      BY <1>2, <1>3, SameChain DEF FilterInv, CoverInv, Readers
    <2> QED
      BY <2>1, <2>2 DEF CoverInv
  <1>6. OneAtATime'
    BY <1>2, SameChain DEF FilterInv, OneAtATime, Readers
  <1>7. LifeInv'
    BY <1>1, <1>2 DEF FilterInv, LifeInv
  <1> QED
    BY <1>4, <1>5, <1>6, <1>7 DEF FilterInv

LEMMA ChangesKeep ==
  ASSUME FilterInv, NEW r \in Requests, GetFilterChanges(r)
  PROVE  FilterInv'
  <1> PICK id, f, b : id = requests[r].id /\ f = requests[r].read[1] /\ b = requests[r].began
    OBVIOUS
  <1> DEFINE g(res) == [f EXCEPT !.lastQueried = res.next]
  <1>1. Done(r) /\ UNCHANGED <<chain, removed, retained>>
    BY DEF GetFilterChanges
  <1>2. r \in InFlight(id) /\ r \in Readers(id)
    BY DEF GetFilterChanges, InFlight, Readers
  <1>3. PICK res \in {Changes(f, vs) : vs \in ViewsSince(b)}, fails \in BOOLEAN :
          IF res.st = "ok"
          THEN /\ UpdateFilterCache(id, g(res), fails)
               /\ answered' = [answered EXCEPT ![id] = @ \cup res.blocks]
               /\ excused' = [excused EXCEPT ![id] =
                                 (@ \cup IF fails THEN {} ELSE Excuse(r, f)) \ (answered[id] \cup res.blocks)]
               /\ repeated' = IF res.blocks \cap answered[id] = {} THEN repeated ELSE repeated \cup {id}
          ELSE UNCHANGED <<filters, answered, excused, disturbed, repeated, faults>>
    BY DEF GetFilterChanges
  <1>4. CASE res.st # "ok"
    <2>1. UNCHANGED <<filters, answered, excused, disturbed, repeated>>
      BY <1>3, <1>4
    <2> QED
      BY <1>1, <1>2, <2>1, RefusedKeeps
  <1>5. CASE res.st = "ok"
    <2>1. /\ id \in FilterIds /\ b \in 1 .. Len(chain) /\ FilterOK(f, b) /\ Covered(f, id)
          /\ id \notin disturbed => Behind(f, id)
      BY <1>2, OfRequest
    <2>2. ChainOK /\ DOMAIN answered = FilterIds /\ DOMAIN excused = FilterIds /\ answered[id] \subseteq Nat /\ repeated \subseteq disturbed
      BY <2>1 DEF FilterInv, FilterTypes
    <2> DEFINE new == g(res)
               blocks == res.blocks
    <2>3. MovesOn(f, new, blocks, b)
      <3>1. PICK vs \in ViewsSince(b) : res = Changes(f, vs)
        OBVIOUS
      <3> QED
        BY <1>5, <2>1, <2>2, <3>1, ChangesMoveOn
    <2> DEFINE ex == IF fails THEN {} ELSE Excuse(r, f)
    <2>4. /\ filters' = IF fails THEN filters ELSE With(filters, id, new)
          /\ disturbed' = IF fails THEN disturbed \cup {id} ELSE disturbed
          /\ answered' = [answered EXCEPT ![id] = @ \cup blocks]
          /\ excused' = [excused EXCEPT ![id] = (@ \cup ex) \ (answered[id] \cup blocks)]
          /\ repeated' = IF blocks \cap answered[id] = {} THEN repeated ELSE repeated \cup {id}
      BY <1>3, <1>5 DEF UpdateFilterCache
    <2>5. Excuse(r, f) = IF f.to.tag = "number" /\ f.to.n >= b THEN 0 .. Len(chain) - 1 ELSE b .. Len(chain) - 1
      BY DEF Excuse
    <2> HIDE DEF new, blocks, ex
    <2>6. /\ DOMAIN answered' = FilterIds /\ DOMAIN excused' = FilterIds
          /\ answered'[id] = answered[id] \cup blocks
          /\ excused'[id] = (excused[id] \cup ex) \ (answered[id] \cup blocks)
          /\ \A k \in FilterIds \ {id} : answered'[k] = answered[k] /\ excused'[k] = excused[k]
      BY <2>1, <2>2, <2>4
    <2>7. answered[id] \cup excused[id] \subseteq answered'[id] \cup excused'[id] /\ answered'[id] \subseteq Nat
      BY <2>2, <2>3, <2>6 DEF MovesOn
    <2>a. CASE ~fails
      <3>1. Covered(new, id)'
        <4>1. \A n \in 0 .. Len(chain) - 1 :
                n >= b \/ (f.to.tag = "number" /\ f.to.n >= b) => n \in Excuse(r, f)
          BY <2>1, <2>2, <2>5 DEF ChainOK
        <4>2. \A n \in 0 .. Len(chain) - 1 : Wanted(new, n) /\ Passed(new, n) => n \in answered'[id] \cup excused'[id]
          BY <2>1, <2>3, <2>6, <2>a, <4>1 DEF MovesOn, Covered, ex
        <4> QED
          BY <1>1, <4>2, SameChain DEF Covered, Passed
      <3>2. id \notin disturbed => Behind(new, id)'
        <4>1. id \notin disturbed => \A n \in answered'[id] : Passed(new, n)
          BY <2>1, <2>2, <2>3, <2>6 DEF MovesOn, Behind
        <4> QED
          BY <4>1 DEF Behind, Passed
      <3>3. repeated' \subseteq disturbed
        <4>1. id \in disturbed \/ blocks \cap answered[id] = {}
          BY <2>1, <2>3 DEF MovesOn, Behind
        <4> QED
          BY <2>2, <2>4, <4>1
      <3>4. FilterOK(new, Len(chain))
        BY <2>3 DEF MovesOn
      <3> QED
        BY <1>1, <1>2, <2>a, <2>4, <2>6, <2>7, <3>1, <3>2, <3>3, <3>4, EndKeeps
    <2>b. CASE fails
      <3>1. repeated' \subseteq disturbed'
        BY <2>2, <2>4, <2>b
      <3> QED
        BY <1>1, <1>2, <2>b, <2>4, <2>6, <2>7, <3>1, UnwrittenKeeps
    <2> QED
      BY <2>a, <2>b
  <1> QED
    BY <1>4, <1>5

LEMMA LogsKeep ==
  ASSUME FilterInv, NEW r \in Requests, GetFilterLogs(r)
  PROVE  FilterInv'
  <1> PICK id, f : id = requests[r].id /\ f = requests[r].read[1]
    OBVIOUS
  <1>1. Done(r) /\ UNCHANGED <<chain, answered, excused, disturbed, repeated, removed, retained>>
    BY DEF GetFilterLogs, ghosts
  <1>2. r \in InFlight(id) /\ r \in Readers(id)
    BY DEF GetFilterLogs, InFlight, Readers
  <1>3. filters' = With(filters, id, f) \/ filters' = filters
    BY DEF GetFilterLogs
  <1>4. FilterOK(f, Len(chain)) /\ Covered(f, id) /\ (id \notin disturbed => Behind(f, id)) /\ id \in FilterIds
    BY <1>2, OfRequest
  <1>5. Covered(f, id)' /\ (id \notin disturbed => Behind(f, id)')
    BY <1>1, <1>4, SameChain
  <1>6. CASE filters' = With(filters, id, f)
    <2>1. /\ DOMAIN answered' = FilterIds /\ DOMAIN excused' = FilterIds /\ answered'[id] \subseteq Nat
          /\ repeated' \subseteq disturbed
      BY <1>1, <1>4 DEF FilterInv, FilterTypes
    <2> QED
      BY <1>1, <1>2, <1>4, <1>5, <1>6, <2>1, EndKeeps
  <1>7. CASE filters' = filters
    BY <1>1, <1>2, <1>7, RefusedKeeps
  <1> QED
    BY <1>3, <1>6, <1>7

(* A filter that goes is in use when a request other than the one that ends is in flight. *)
LEMMA RemoveKeeps ==
  ASSUME FilterInv, NEW id, NEW others, NEW fails \in BOOLEAN, RemoveFilter(id, others, fails), InFlight(id)' \subseteq others,
         DOMAIN requests' = Requests, \A s \in Requests : requests'[s] \in {requests[s], Idle}
  PROVE  FilterInv'
  <1>1. /\ UNCHANGED <<chain, answered, excused, disturbed, repeated>>
        /\ filters' = (IF fails THEN filters ELSE Without(filters, id)) /\ removed' = removed \cup {id}
        /\ retained' = IF fails \/ others # {} THEN retained \cup {id} ELSE retained
    BY DEF RemoveFilter
  <1>2. /\ DOMAIN filters' = (IF fails THEN DOMAIN filters ELSE DOMAIN filters \ {id})
        /\ \A k \in DOMAIN filters' : filters'[k] = filters[k]
    BY <1>1 DEF Without
  <1>3. \A k : /\ InFlight(k)' \subseteq InFlight(k) /\ \A s \in InFlight(k)' : requests'[s] = requests[s]
               /\ Readers(k)' \subseteq Readers(k)
    BY DEF InFlight, Idle, Readers
  <1>4. FilterTypes'
    <2>1. \A s \in Requests : RequestTypeOK(requests'[s])
      BY DEF FilterInv, FilterTypes, RequestTypeOK
    <2> QED
      BY <1>1, <1>2, <2>1, SameChain DEF FilterInv, FilterTypes
  <1>5. CoverInv'
    BY <1>1, <1>2, <1>3, SameChain DEF FilterInv, CoverInv, Readers
  <1>6. OneAtATime'
    BY <1>1, <1>2, <1>3, SameChain DEF FilterInv, OneAtATime, Readers
  <1>7. LifeInv' /\ (repeated \subseteq disturbed)'
    BY <1>1, <1>2, <1>3 DEF FilterInv, LifeInv
  <1> QED
    BY <1>4, <1>5, <1>6, <1>7 DEF FilterInv

LEMMA UninstallKeeps ==
  ASSUME FilterInv, NEW r \in Requests, UninstallFilter(r)
  PROVE  FilterInv'
  <1> PICK id, others : id = requests[r].id /\ others = InFlight(id) \ {r}
    OBVIOUS
  <1>1. PICK fails \in BOOLEAN : Done(r) /\ RemoveFilter(id, others, fails)
    BY DEF UninstallFilter
  <1>2. /\ DOMAIN requests' = Requests /\ requests'[r] = Idle /\ \A s \in Requests \ {r} : requests'[s] = requests[s]
        /\ InFlight(id)' = others
    BY <1>1, DoneKeeps DEF FilterInv
  <1> QED
    BY <1>1, <1>2, RemoveKeeps

LEMMA ExpireKeeps ==
  ASSUME FilterInv, NEW id \in FilterIds, Expire(id)
  PROVE  FilterInv'
  <1>1. RemoveFilter(id, InFlight(id), FALSE) /\ UNCHANGED requests
    BY DEF Expire
  <1>2. InFlight(id)' = InFlight(id) /\ DOMAIN requests' = Requests
    BY <1>1 DEF InFlight, FilterInv, FilterTypes
  <1> QED
    BY <1>1, <1>2, RemoveKeeps

LEMMA NextFilterInv == FilterInv /\ [FilterNext]_filterVars => FilterInv'
  <1> SUFFICES ASSUME FilterInv, [FilterNext]_filterVars PROVE FilterInv'
    OBVIOUS
  <1>1. CASE ImportBlock
    BY <1>1, ImportKeeps
  <1>2. CASE \E id \in FilterIds, from \in FromBlocks, to \in ToBlocks : NewFilter(id, from, to)
    BY <1>2, NewFilterKeeps
  <1>3. CASE \E id \in FilterIds : NewBlockFilter(id)
    BY <1>3, NewBlockFilterKeeps
  <1>4. CASE \E id \in FilterIds : Expire(id)
    BY <1>4, ExpireKeeps
  <1>5. CASE \E id \in FilterIds, r \in Requests, kind \in Kinds : Ask(r, kind, id)
    BY <1>5, AskKeeps
  <1>6. CASE \E r \in Requests : GetFilterChanges(r)
    BY <1>6, ChangesKeep
  <1>7. CASE \E r \in Requests : GetFilterLogs(r)
    BY <1>7, LogsKeep
  <1>8. CASE \E r \in Requests : UninstallFilter(r)
    BY <1>8, UninstallKeeps
  <1>9. CASE UNCHANGED filterVars
    <2>1. UNCHANGED <<chain, filters, requests, answered, excused, disturbed, repeated, removed, retained>>
      BY <1>9 DEF filterVars, fvars, ghosts
    <2>2. \A k : InFlight(k)' = InFlight(k) /\ Readers(k)' = Readers(k)
      BY <2>1 DEF InFlight, Readers
    <2>3. FilterTypes' /\ CoverInv' /\ OneAtATime'
      BY <2>1, <2>2, SameChain DEF FilterInv, FilterTypes, CoverInv, OneAtATime
    <2>4. LifeInv' /\ (repeated \subseteq disturbed)'
      BY <2>1, <2>2 DEF FilterInv, LifeInv
    <2> QED
      BY <2>3, <2>4 DEF FilterInv
  <1> QED
    BY <1>1, <1>2, <1>3, <1>4, <1>5, <1>6, <1>7, <1>8, <1>9 DEF FilterNext

(* The invariant of the filters holds for every chain, every number of filters and requests, and any page size and limits. *)
THEOREM FilterInvariance == FilterSpec => []FilterInv
  BY InitFilterInv, NextFilterInv, PTL DEF FilterSpec

(* A block that a filter wants and has passed was in an answer of getFilterChanges, or was imported while a request was in *)
(* flight, or the filter's toBlock was still to come.                                                                       *)
THEOREM LossesHaveCause == FilterSpec => []LostHasCause
  <1>1. FilterInv => LostHasCause
    BY DEF FilterInv, CoverInv, Covered, LostHasCause
  <1> QED
    BY <1>1, FilterInvariance, PTL

(* A block is in two answers only after requests of its filter overlapped or one could not write it back, and a filter    *)
(* that is gone is in the cache only when a request was in flight as it went or it could not be deleted.                  *)
THEOREM RepeatsCaused == FilterSpec => []RepeatsHaveCause
  <1>1. FilterInv => RepeatsHaveCause
    BY DEF FilterInv, FilterTypes, LifeInv, RepeatsHaveCause
  <1> QED
    BY <1>1, FilterInvariance, PTL

-----------------------------------------------------------------------------
(* The reads of the eth services. *)

(* A set of naturals has a least element. *)
LEMMA LeastNatural ==
  ASSUME NEW S \in SUBSET Nat, S # {}
  PROVE  \E m \in S : \A k \in S : m <= k
  <1> DEFINE R == OpToRel(<, Nat)
  <1>1. \A x, y \in Nat : y < x => <<y, x>> \in R
    BY DEF OpToRel
  <1>2. IsWellFoundedOn(R, Nat)
    BY NatLessThanWellFounded
  <1> HIDE DEF R
  <1>3. PICK m \in S : \A y \in S : ~(<<y, m>> \in R)
    BY <1>2, WFMin
  <1>4. \A k \in S : m \in Nat /\ k \in Nat /\ ~(k < m)
    BY <1>1, <1>3
  <1> QED
    BY <1>4

(* A request that is retried ends with the first answer that has no immature record, or is refused. *)
Settled(answers, views, k) == answers[k].st = "ok" => \A row \in answers[k].val : Mature(row, views[k])

LEMMA RetryEnds ==
  ASSUME NEW answers, NEW views, DOMAIN views = 1 .. RetryCount
  PROVE  LET answer == WithRetry(answers, views)
         IN  /\ \/ answer = Err("IMMATURE_RECORDS")
                \/ \E k \in 1 .. RetryCount : answer = answers[k] /\ Settled(answers, views, k)
             /\ Settled(answers, views, 1) => answer = answers[1]
  <1> DEFINE done == {k \in 1 .. RetryCount : Settled(answers, views, k)}
             least == CHOOSE k \in done : \A j \in done : k <= j
  <1>1. WithRetry(answers, views) = IF done = {} THEN Err("IMMATURE_RECORDS") ELSE answers[least]
    BY DEF WithRetry, Settled
  <1>2. done \subseteq 1 .. RetryCount /\ done \in SUBSET Nat /\ \A k \in done : Settled(answers, views, k)
    BY SlotsType
  <1>3. Settled(answers, views, 1) => 1 \in done
    BY SlotsType
  <1> HIDE DEF done
  <1>4. ASSUME done # {} PROVE least \in done /\ \A j \in done : least <= j
    <2>1. \E m \in done : \A j \in done : m <= j
      BY <1>2, <1>4, LeastNatural
    <2> QED
      BY <2>1
  <1>5. 1 \in done => least = 1
    <2>1. 1 \in done => least \in 1 .. RetryCount /\ least <= 1
      BY <1>2, <1>4
    <2> HIDE DEF least
    <2> QED
      BY <2>1, SlotsType
  <1> HIDE DEF least
  <1> QED
    BY <1>1, <1>2, <1>3, <1>4, <1>5

(* A request that is retried when nothing was found ends as its first attempt does, or as its last. *)
LEMMA GetEnds ==
  ASSUME NEW label, NEW found \in BOOLEAN, NEW body
  PROVE  Get(label, found, body) = IF found THEN Ok(body) ELSE HandleError(label, 404)
  <1> DEFINE status == IF found THEN 200 ELSE 404
             N == Retries + 1
             attempts == [k \in 1 .. N |-> status]
             final == {k \in 1 .. N : k = N \/ attempts[k] \notin RetryCodes \cup {0}}
             least == CHOOSE k \in final : \A j \in final : k <= j
  <1>1. Retries \in Nat /\ N \in Nat \ {0}
    BY MirrorNodeAssumption
  <1>2. attempts = [k \in 1 .. N |-> IF found THEN 200 ELSE 404]
    OBVIOUS
  <1>3. DOMAIN attempts = 1 .. N /\ \A k \in 1 .. N : attempts[k] = status
    OBVIOUS
  <1>4. Get(label, found, body) = Answer(label, attempts, body)
    BY DEF Get
  <1>S. status \in {200, 404} /\ (status = 200 <=> found)
    OBVIOUS
  <1> HIDE DEF status, N
  <1>L. Len(attempts) = N
    BY <1>1
  <1> HIDE DEF attempts
  <1>5. StatusOf(attempts) = attempts[least]
    BY <1>3, <1>L DEF StatusOf
  <1>6. final = (IF status \notin RetryCodes \cup {0} THEN 1 .. N ELSE {N})
    BY <1>1, <1>3
  <1>7. \E m \in final : \A j \in final : m <= j
    <2>1. CASE final = 1 .. N
      <3>1. 1 \in final /\ \A j \in final : 1 <= j
        BY <1>1, <2>1
      <3> QED
        BY <3>1
    <2>2. CASE final = {N}
      <3>1. N \in final /\ \A j \in final : N <= j
        BY <1>1, <2>2
      <3> QED
        BY <3>1
    <2> QED
      BY <1>6, <2>1, <2>2
  <1>8. final \subseteq 1 .. N
    OBVIOUS
  <1> HIDE DEF final
  <1>9. least \in 1 .. N
    BY <1>7, <1>8
  <1>10. StatusOf(attempts) = status
    BY <1>3, <1>5, <1>9
  <1> QED
    BY <1>4, <1>10, <1>S DEF Answer

(* The contract result of a transaction is answered once it is there. *)
LEMMA ResultAnswer ==
  ASSUME NEW id, NEW h
  PROVE  GetContractResult(id, h) = IF id \in Transactions(h) /\ Tx(id).kind = "eth" THEN Ok({id}) ELSE Null
  <1> DEFINE found == id \in Transactions(h) /\ Tx(id).kind = "eth"
  <1>1. found \in BOOLEAN /\ GetContractResult(id, h) = Get("result", found, {id})
    BY DEF GetContractResult
  <1>2. HandleError("result", 404) = Null
    BY DEF HandleError, AcceptedNotFound
  <1> HIDE DEF found
  <1>3. GetContractResult(id, h) = IF found THEN Ok({id}) ELSE Null
    BY <1>1, <1>2, GetEnds
  <1> QED
    BY <1>3 DEF found

(* What a view shows is what the blocks it has seen show. *)
LEMMA ViewParts ==
  ASSUME ChainOK, NEW h \in Views
  PROVE  /\ h \in Nat /\ Closed(h) \in Nat /\ Seen(h) \in 1 .. Len(chain) /\ Closed(h) <= Seen(h)
         /\ Transactions(h) = Transactions(2 * Seen(h)) /\ AllLogs(h) = AllLogs(2 * Seen(h))
  <1>1. h \in Nat /\ h >= 2 /\ h <= 2 * Len(chain) /\ Len(chain) \in Nat
    BY DEF Views, ChainOK
  <1>2. Closed(h) \in Nat /\ Seen(h) \in 1 .. Len(chain) /\ Closed(h) <= Seen(h)
    BY <1>1 DEF Closed, Seen
  <1>3. Seen(2 * Seen(h)) = Seen(h)
    <2>1. Seen(h) \in Nat
      BY <1>1, <1>2
    <2> QED
      BY <2>1, WholeView
  <1>4. Transactions(h) = Transactions(2 * Seen(h))
    BY <1>3 DEF Transactions
  <1> QED
    BY <1>1, <1>2, <1>4 DEF AllLogs

(* A later view has at least the blocks of an earlier one. *)
LEMMA ViewsGrow ==
  ASSUME ChainOK, NEW g \in Views, NEW h \in Views, g <= h
  PROVE  Closed(g) <= Closed(h) /\ Seen(g) <= Seen(h)
  <1>1. g \in Nat /\ h \in Nat
    BY ViewParts
  <1> QED
    BY <1>1 DEF Closed, Seen

(* The transactions of a view. *)
LEMMA TransactionParts ==
  ASSUME ChainOK, NEW h \in Views, NEW id
  PROVE  id \in Transactions(h) <=>
           /\ id = <<id[1], id[2]>> /\ id[1] \in 0 .. Seen(h) - 1
           /\ id[2] \in DOMAIN chain[id[1] + 1]
  <1>1. Seen(h) \in 1 .. Len(chain)
    BY ViewParts
  <1>2. id \in Transactions(h) <=> id = <<id[1], id[2]>> /\ id[1] \in 0 .. Seen(h) - 1 /\ id[2] \in 1 .. Slots /\ id[2] <= Len(chain[id[1] + 1])
    BY DEF Transactions
  <1> DEFINE n == id[1]
             i == id[2]
             S == Seen(h)
  <1>3. ASSUME n \in 0 .. S - 1
        PROVE  i \in DOMAIN chain[n + 1] <=> i \in 1 .. Slots /\ i <= Len(chain[n + 1])
    <2>1. n \in 0 .. Len(chain) - 1
      BY <1>1, <1>3 DEF ChainOK
    <2> HIDE DEF n, i
    <2>2. DOMAIN chain[n + 1] = 1 .. Len(chain[n + 1]) /\ Len(chain[n + 1]) \in 1 .. Slots
      BY <2>1, BlockAt
    <2> QED
      BY <2>2, SlotsType
  <1> QED
    BY <1>2, <1>3

(* The logs of a transaction are there with it, all of them. *)
LEMMA LogsOfTransaction ==
  ASSUME ChainOK, NEW h \in Views, NEW id \in Transactions(Whole)
  PROVE  LET rows == {log \in AllLogs(h) : IdOf(log) = id}
         IN  /\ \A log \in rows : log[1] = id[1]
             /\ id \in Transactions(h) => /\ rows = {} <=> DOMAIN Tx(id).logs = {}
                                          /\ Pages(rows) = Pages(DOMAIN Tx(id).logs)
  <1> DEFINE rows == {log \in AllLogs(h) : IdOf(log) = id}
             K == DOMAIN Tx(id).logs
             f == [k \in K |-> <<id[1], id[2], k>>]
  <1>0. Whole \in Views
    BY DEF Whole, Views, ChainOK
  <1>1. id = <<id[1], id[2]>> /\ id[1] \in 0 .. Len(chain) - 1 /\ id[2] \in DOMAIN chain[id[1] + 1]
    <2>1. Seen(Whole) \in 1 .. Len(chain)
      BY <1>0, ViewParts
    <2>2. id = <<id[1], id[2]>> /\ id[1] \in 0 .. Seen(Whole) - 1 /\ id[2] \in DOMAIN chain[id[1] + 1]
      BY <1>0, TransactionParts
    <2> QED
      BY <2>1, <2>2 DEF ChainOK
  <1>2. IsFiniteSet(K)
    <2> DEFINE n == id[1]
               i == id[2]
    <2>1. K = DOMAIN chain[n + 1][i].logs
      BY DEF Tx
    <2>2. n \in 0 .. Len(chain) - 1 /\ i \in DOMAIN chain[n + 1]
      BY <1>1
    <2> HIDE DEF n, i, K
    <2> QED
      BY <2>1, <2>2, BlockAt
  <1>3. \A log \in rows : log[1] = id[1]
    BY DEF IdOf
  <1>4. ASSUME id \in Transactions(h) PROVE rows = {f[k] : k \in K}
    <2>1. ASSUME NEW log \in rows PROVE log \in {f[k] : k \in K}
      <3>1. PICK x \in Transactions(h) : \E k \in DOMAIN Tx(x).logs : log = <<x[1], x[2], k>>
        BY <2>1 DEF AllLogs
      <3>2. PICK k \in DOMAIN Tx(x).logs : log = <<x[1], x[2], k>>
        BY <3>1
      <3>3. IdOf(log) = <<x[1], x[2]>> /\ IdOf(log) = id
        BY <2>1, <3>2 DEF IdOf
      <3>4. x = <<x[1], x[2]>>
        BY TransactionParts
      <3>5. x = id
        BY <3>3, <3>4
      <3> QED
        BY <3>2, <3>5
    <2>2. ASSUME NEW k \in K PROVE f[k] \in rows
      <3>1. f[k] = <<id[1], id[2], k>>
        OBVIOUS
      <3>2. f[k] \in {<<id[1], id[2], l>> : l \in DOMAIN Tx(id).logs}
        BY <3>1
      <3>3. f[k] \in AllLogs(h)
        BY <1>4, <3>2 DEF AllLogs
      <3>4. IdOf(f[k]) = id
        BY <1>1, <3>1 DEF IdOf
      <3> QED
        BY <3>3, <3>4
    <2> HIDE DEF rows, f
    <2> QED
      BY <2>1, <2>2
  <1>5. ASSUME id \in Transactions(h) PROVE Cardinality(rows) = Cardinality(K)
    <2> HIDE DEF rows
    <2>1. f \in [K -> rows]
      BY <1>4, <1>5
    <2>2. \A k, l \in K : f[k] = f[l] => k = l
      OBVIOUS
    <2>3. \A row \in rows : \E k \in K : f[k] = row
      BY <1>4, <1>5
    <2> HIDE DEF f, K
    <2>4. f \in Bijection(K, rows)
      BY <2>1, <2>2, <2>3 DEF Bijection, Injection, Surjection, IsInjective
    <2> QED
      BY <1>2, <2>4, FS_Bijection DEF ExistsBijection
  <1>6. ASSUME id \in Transactions(h) PROVE rows = {} <=> K = {}
    <2> HIDE DEF rows, K
    <2>1. rows = {f[k] : k \in K}
      BY <1>4, <1>6
    <2> HIDE DEF f
    <2> QED
      BY <2>1
  <1> QED
    BY <1>3, <1>5, <1>6 DEF Pages

(* The views of the attempts of a request, none behind one before it. *)
GrowingViews == {views \in [1 .. RetryCount -> Views] : \A j, k \in 1 .. RetryCount : j <= k => views[j] <= views[k]}

(* A record that is mature stays so, and its transaction is there. *)
LEMMA MatureStays ==
  ASSUME ChainOK, NEW id \in Transactions(Whole), NEW views \in GrowingViews, NEW j \in 1 .. RetryCount, NEW k \in 1 .. RetryCount,
         j <= k, Mature(id, views[j])
  PROVE  Mature(id, views[k]) /\ id \in Transactions(views[j])
  <1>0. Whole \in Views
    BY DEF Whole, Views, ChainOK
  <1>1. views[j] \in Views /\ views[k] \in Views /\ views[j] <= views[k]
    BY DEF GrowingViews
  <1>2. id = <<id[1], id[2]>> /\ id[1] \in Nat /\ id[2] \in DOMAIN chain[id[1] + 1]
    <2>1. Seen(Whole) \in 1 .. Len(chain)
      BY <1>0, ViewParts
    <2> QED
      BY <1>0, <2>1, TransactionParts
  <1>3. /\ Closed(views[j]) \in Nat /\ Closed(views[k]) \in Nat /\ Closed(views[j]) <= Closed(views[k])
        /\ Seen(views[j]) \in 1 .. Len(chain) /\ Closed(views[j]) <= Seen(views[j])
    BY <1>1, ViewParts, ViewsGrow
  <1>4. Mature(id, views[k])
    BY <1>2, <1>3 DEF Mature
  <1>5. id[1] \in 0 .. Seen(views[j]) - 1
    BY <1>2, <1>3 DEF Mature
  <1> QED
    BY <1>1, <1>2, <1>4, <1>5, TransactionParts

(* The contract result of a transaction, read with retries: complete, missing or refused. *)
LEMMA ResultEnds ==
  ASSUME ChainOK, NEW id \in Transactions(Whole), NEW views \in GrowingViews
  PROVE  LET result == ContractResultOf(id, views)
         IN  /\ \/ result = Err("IMMATURE_RECORDS")
                \/ result = Null
                \/ result = Ok({id}) /\ \E k \in 1 .. RetryCount : Mature(id, views[k])
             /\ Mature(id, views[1]) => result = IF Tx(id).kind = "eth" THEN Ok({id}) ELSE Null
  <1> DEFINE answers == [k \in DOMAIN views |-> GetContractResult(id, views[k])]
             result == ContractResultOf(id, views)
  <1>1. DOMAIN views = 1 .. RetryCount /\ 1 \in 1 .. RetryCount
    BY SlotsType DEF GrowingViews
  <1>2. result = WithRetry(answers, views)
    BY DEF ContractResultOf, GetContractResultWithRetry
  <1>3. \A k \in 1 .. RetryCount :
          answers[k] = IF id \in Transactions(views[k]) /\ Tx(id).kind = "eth" THEN Ok({id}) ELSE Null
    BY <1>1, ResultAnswer
  <1> HIDE DEF answers, result
  <1>4. Ok({id}).st = "ok" /\ Ok({id}).val = {id} /\ Null.st = "null"
    BY DEF Ok, Null
  <1>5. \A k \in 1 .. RetryCount : Settled(answers, views, k) <=> (answers[k] = Ok({id}) => Mature(id, views[k]))
    BY <1>3, <1>4 DEF Settled
  <1>6. \/ result = Err("IMMATURE_RECORDS")
        \/ \E k \in 1 .. RetryCount : result = answers[k] /\ Settled(answers, views, k)
    BY <1>1, <1>2, RetryEnds
  <1>7. Settled(answers, views, 1) => result = answers[1]
    BY <1>1, <1>2, RetryEnds
  <1>8. \/ result = Err("IMMATURE_RECORDS")
        \/ result = Null
        \/ result = Ok({id}) /\ \E k \in 1 .. RetryCount : Mature(id, views[k])
    BY <1>3, <1>5, <1>6
  <1>9. ASSUME Mature(id, views[1]) PROVE result = IF Tx(id).kind = "eth" THEN Ok({id}) ELSE Null
    <2>1. id \in Transactions(views[1])
      BY <1>1, <1>9, MatureStays, SlotsType
    <2> QED
      BY <1>1, <1>3, <1>5, <1>7, <1>9, <2>1
  <1> QED
    BY <1>8, <1>9 DEF result

(* Its logs, read with retries: complete or refused. *)
LEMMA LogsEnd ==
  ASSUME ChainOK, NEW id \in Transactions(Whole), NEW views \in GrowingViews
  PROVE  LET found == GetLogsOfTransaction(id, views)
             paged == Pages(DOMAIN Tx(id).logs) >= LogsPageMax
         IN  /\ found.st = "ok" /\ found.val # {} => \E k \in 1 .. RetryCount : Mature(id, views[k])
             /\ Mature(id, views[1]) =>
                  /\ paged => found.st = "PAGINATION_MAX"
                  /\ ~paged => found.st = "ok" /\ (found.val = {} <=> DOMAIN Tx(id).logs = {})
  <1> DEFINE rows(h) == {log \in AllLogs(h) : IdOf(log) = id}
             answers == [k \in DOMAIN views |-> GetPaginatedResults(rows(views[k]), LogsPageMax)]
             found == GetLogsOfTransaction(id, views)
  <1>1. DOMAIN views = 1 .. RetryCount /\ 1 \in 1 .. RetryCount /\ \A k \in 1 .. RetryCount : views[k] \in Views
    BY SlotsType DEF GrowingViews
  <1>2. found = WithRetry(answers, views)
    BY DEF GetLogsOfTransaction
  <1>3. \A k \in 1 .. RetryCount :
          answers[k] = IF Pages(rows(views[k])) >= LogsPageMax THEN Err("PAGINATION_MAX") ELSE Ok(rows(views[k]))
    BY <1>1 DEF GetPaginatedResults
  <1>4. \A h \in Views :
          /\ \A log \in rows(h) : log[1] = id[1]
          /\ id \in Transactions(h) => /\ rows(h) = {} <=> DOMAIN Tx(id).logs = {}
                                       /\ Pages(rows(h)) = Pages(DOMAIN Tx(id).logs)
    BY LogsOfTransaction
  <1> HIDE DEF answers, found, rows
  <1>5. /\ \A x : Ok(x).st = "ok" /\ Ok(x).val = x
        /\ Err("PAGINATION_MAX").st = "PAGINATION_MAX" /\ Err("IMMATURE_RECORDS").st = "IMMATURE_RECORDS"
    BY DEF Ok, Err
  <1>6. \/ found = Err("IMMATURE_RECORDS")
        \/ \E k \in 1 .. RetryCount : found = answers[k] /\ Settled(answers, views, k)
    BY <1>1, <1>2, RetryEnds
  <1>7. Settled(answers, views, 1) => found = answers[1]
    BY <1>1, <1>2, RetryEnds
  <1>8. ASSUME found.st = "ok", found.val # {} PROVE \E k \in 1 .. RetryCount : Mature(id, views[k])
    <2>1. PICK k \in 1 .. RetryCount : found = answers[k] /\ Settled(answers, views, k)
      BY <1>5, <1>6, <1>8
    <2>2. found.val = rows(views[k]) /\ \A row \in found.val : Mature(row, views[k])
      BY <1>3, <1>5, <1>8, <2>1 DEF Settled
    <2>3. PICK row \in rows(views[k]) : Mature(row, views[k])
      BY <1>8, <2>2
    <2>4. row[1] = id[1]
      BY <1>1, <1>4
    <2> QED
      BY <2>3, <2>4 DEF Mature
  <1>9. ASSUME Mature(id, views[1])
        PROVE  LET paged == Pages(DOMAIN Tx(id).logs) >= LogsPageMax
               IN  /\ paged => found.st = "PAGINATION_MAX"
                   /\ ~paged => found.st = "ok" /\ (found.val = {} <=> DOMAIN Tx(id).logs = {})
    <2>1. id \in Transactions(views[1]) /\ views[1] \in Views
      BY <1>1, <1>9, MatureStays, SlotsType
    <2>2. \A row \in rows(views[1]) : Mature(row, views[1])
      BY <1>4, <1>9, <2>1 DEF Mature
    <2>3. Settled(answers, views, 1)
      BY <1>1, <1>3, <1>5, <2>2 DEF Settled
    <2>4. found = answers[1]
      BY <1>7, <2>3
    <2> QED
      BY <1>1, <1>3, <1>4, <1>5, <2>1, <2>4
  <1> QED
    BY <1>8, <1>9 DEF found

(* A receipt and a transaction are made from the result, or from the logs when there is none, so neither is immature. *)
LEMMA NoneImmature ==
  ASSUME ChainOK
  PROVE  NoImmatureAnswers
  <1> SUFFICES ASSUME NEW id \in Transactions(Whole), NEW views \in GrowingViews
               PROVE  LET r == GetTransactionReceipt(id, {}, {}, views)
                          t == GetTransactionByHash(id, {}, {}, views)
                          paged == Tx(id).kind # "eth" /\ Pages(DOMAIN Tx(id).logs) >= LogsPageMax
                      IN  /\ r.st = "ok" \/ t.st = "ok" => Mature(id, views[RetryCount])
                          /\ Mature(id, views[1]) /\ id \in Listed(id[1]) =>
                               IF paged THEN r.st = "PAGINATION_MAX" /\ t.st = "PAGINATION_MAX"
                               ELSE r.st = "ok" /\ t.st = "ok"
    BY DEF NoImmatureAnswers, GrowingViews
  <1> DEFINE result == ContractResultOf(id, views)
             found == GetLogsOfTransaction(id, views)
             r == GetTransactionReceipt(id, {}, {}, views)
             t == GetTransactionByHash(id, {}, {}, views)
             pages == Pages(DOMAIN Tx(id).logs)
             eth == Tx(id).kind = "eth"
             hasLogs == DOMAIN Tx(id).logs # {}
  <1>1. /\ \A x : Ok(x).st = "ok"
        /\ Null.st = "null" /\ Err("IMMATURE_RECORDS").st = "IMMATURE_RECORDS"
    BY DEF Ok, Null, Err
  <1>2. r.st = IF result.st = "ok" THEN "ok"
               ELSE IF result.st # "null" THEN result.st
               ELSE IF found.st # "ok" THEN found.st
               ELSE IF found.val = {} THEN "null" ELSE "ok"
    <2>1. GetCurrentGasPriceForBlock(id[1], {}).st = "ok"
      BY <1>1 DEF GetCurrentGasPriceForBlock, GetGasPriceInWeibars
    <2>2. HandleRegularTransactionReceipt(id, {}, {}).st = "ok"
      BY <1>1, <2>1 DEF HandleRegularTransactionReceipt
    <2>3. HandleSyntheticTransactionReceipt(id, {}, views).st =
            IF found.st # "ok" THEN found.st ELSE IF found.val = {} THEN "null" ELSE "ok"
      BY <1>1, <2>1 DEF HandleSyntheticTransactionReceipt
    <2> HIDE DEF found, result
    <2>4. r = CASE result.st = "ok" -> HandleRegularTransactionReceipt(id, {}, {})
                [] result.st = "null" -> HandleSyntheticTransactionReceipt(id, {}, views)
                [] OTHER -> result
      BY DEF GetTransactionReceipt, result
    <2> QED
      BY <2>2, <2>3, <2>4
  <1>3. t.st = IF result.st = "ok" THEN "ok"
               ELSE IF result.st # "null" THEN result.st
               ELSE IF found.st # "ok" THEN found.st
               ELSE IF found.val = {} THEN "null" ELSE "ok"
    <2> DEFINE tx == CreateTransactionFromContractResult(id, {}, {})
               regular == IF Tx(id).created THEN [tx EXCEPT !.to = "none"] ELSE tx
               made == CreateTransactionFromLog(Sorted(found.val, LogPrecedes)[1])
    <2>1. t = CASE result.st = "ok" -> Ok(regular)
                [] result.st = "null" /\ found.st = "ok" -> IF found.val = {} THEN Null ELSE Ok(made)
                [] result.st = "null" /\ found.st # "ok" -> found
                [] OTHER -> result
      BY DEF GetTransactionByHash
    <2> HIDE DEF found, result, t, regular, made
    <2> QED
      BY <1>1, <2>1
  <1>4. /\ \/ result.st = "IMMATURE_RECORDS"
           \/ result.st = "null"
           \/ result.st = "ok" /\ \E k \in 1 .. RetryCount : Mature(id, views[k])
        /\ Mature(id, views[1]) => result.st = IF eth THEN "ok" ELSE "null"
    BY <1>1, ResultEnds
  <1>5. /\ found.st = "ok" /\ found.val # {} => \E k \in 1 .. RetryCount : Mature(id, views[k])
        /\ Mature(id, views[1]) =>
             /\ pages >= LogsPageMax => found.st = "PAGINATION_MAX"
             /\ ~(pages >= LogsPageMax) => found.st = "ok" /\ (found.val = {} <=> ~hasLogs)
    BY LogsEnd
  <1>6. id \in Listed(id[1]) => eth \/ hasLogs
    BY DEF Listed
  <1> HIDE DEF result, found, r, t, pages, eth, hasLogs
  <1>7. (\E k \in 1 .. RetryCount : Mature(id, views[k])) => Mature(id, views[RetryCount])
    <2>1. RetryCount \in 1 .. RetryCount /\ \A k \in 1 .. RetryCount : k <= RetryCount
      BY SlotsType
    <2> QED
      BY <2>1, MatureStays
  <1>8. r.st = "ok" \/ t.st = "ok" => Mature(id, views[RetryCount])
    BY <1>2, <1>3, <1>4, <1>5, <1>7
  <1>9. Mature(id, views[1]) /\ id \in Listed(id[1]) =>
          IF ~eth /\ pages >= LogsPageMax THEN r.st = "PAGINATION_MAX" /\ t.st = "PAGINATION_MAX"
          ELSE r.st = "ok" /\ t.st = "ok"
    BY <1>2, <1>3, <1>4, <1>5, <1>6
  <1> QED
    BY <1>8, <1>9 DEF r, t, pages, eth

(* The logs of closed blocks, at any view that has them. *)
LEMMA LogsOfClosed ==
  ASSUME ChainOK, NEW h \in Views, NEW lo \in 0 .. Closed(h) - 1, NEW hi \in lo .. Closed(h) - 1
  PROVE  LET S == LogsIn(<<Start(lo), End(hi)>>, h)
         IN  /\ \A log : log \in S <=> IsLog(log) /\ log[1] \in lo .. hi
             /\ \A log \in S : Mature(log, h)
             /\ IsFiniteSet(S)
  <1> DEFINE range == <<Start(lo), End(hi)>>
             v == Seen(h)
             S == LogsIn(range, h)
  <1>1. Closed(h) \in Nat /\ v \in 1 .. Len(chain) /\ Closed(h) <= v /\ AllLogs(h) = AllLogs(2 * v)
    BY ViewParts
  <1>2. S = LogsIn(range, 2 * v)
    BY <1>1 DEF LogsIn
  <1> HIDE DEF v
  <1>3. lo \in 0 .. v - 1 /\ hi \in lo .. v - 1
    BY <1>1 DEF ChainOK
  <1>4. \A log : log \in S <=> IsLog(log) /\ log[1] \in lo .. hi
    BY <1>1, <1>2, <1>3, LogsOfBlocks
  <1>5. IsFiniteSet(S)
    BY <1>1, <1>2, FiniteLogs, FS_Subset DEF LogsIn
  <1> HIDE DEF S
  <1>6. \A log \in S : Mature(log, h)
    BY <1>1, <1>4 DEF Mature
  <1> QED
    BY <1>4, <1>5, <1>6 DEF S

(* They are there at once, for no record is immature, and are answered or refused for their number. *)
LEMMA AllLogsAtOnce ==
  ASSUME ChainOK, NEW h \in Views, NEW lo \in 0 .. Closed(h) - 1, NEW hi \in lo .. Closed(h) - 1
  PROVE  LET range == <<Start(lo), End(hi)>>
             S == LogsIn(range, h)
         IN  GetLogsWithParams(<<>>, range, h) =
               IF Pages(S) >= CalculateMaxPage(range) THEN Err("PAGINATION_MAX") ELSE Ok(Sorted(S, LogPrecedes))
  <1> DEFINE range == <<Start(lo), End(hi)>>
             S == LogsIn(range, h)
             views == [k \in 1 .. RetryCount |-> h]
             A == GetPaginatedResults(S, CalculateMaxPage(range))
             answers == [k \in DOMAIN views |-> GetPaginatedResults(LogsIn(range, views[k]), CalculateMaxPage(range))]
             answer == GetContractResultsLogsWithRetry(range, views)
  <1>1. DOMAIN views = 1 .. RetryCount /\ 1 \in 1 .. RetryCount
    BY SlotsType
  <1>2. A = IF Pages(S) >= CalculateMaxPage(range) THEN Err("PAGINATION_MAX") ELSE Ok(S)
    BY DEF GetPaginatedResults
  <1>3. \A row \in S : Mature(row, h)
    BY LogsOfClosed
  <1>4. views[1] = h /\ answers[1] = A
    BY <1>1
  <1>5. answer = WithRetry(answers, views)
    BY DEF GetContractResultsLogsWithRetry
  <1>6. GetLogsWithParams(<<>>, range, h) = IF answer.st # "ok" THEN answer ELSE Ok(Sorted(answer.val, LogPrecedes))
    BY DEF GetLogsWithParams
  <1>7. Ok(S).st = "ok" /\ Ok(S).val = S /\ Err("PAGINATION_MAX").st = "PAGINATION_MAX"
    BY DEF Ok, Err
  <1> HIDE DEF S, A, answers, answer, views
  <1>8. Settled(answers, views, 1)
    BY <1>2, <1>3, <1>4, <1>7 DEF Settled
  <1>9. answer = A
    BY <1>1, <1>4, <1>5, <1>8, RetryEnds
  <1>10. GetLogsWithParams(<<>>, range, h) =
           IF Pages(S) >= CalculateMaxPage(range) THEN Err("PAGINATION_MAX") ELSE Ok(Sorted(S, LogPrecedes))
    BY <1>2, <1>6, <1>7, <1>9
  <1> QED
    BY <1>10 DEF S

(* Rows that fill the pages. *)
LEMMA FullPages ==
  ASSUME NEW rows, IsFiniteSet(rows), NEW m \in Nat \ {0}, Pages(rows) >= m
  PROVE  Cardinality(rows) >= m * PageSize - PageSize
  <1> DEFINE c == Cardinality(rows)
             q == c \div PageSize
  <1>1. c \in Nat /\ PageSize \in Nat \ {0}
    BY FS_CardinalityType, SlotsType
  <1>2. q + 1 >= m
    BY DEF Pages
  <1> HIDE DEF c
  <1>3. q \in Nat /\ q * PageSize <= c
    BY <1>1
  <1> HIDE DEF q
  <1>4. PICK d \in Nat : q = m - 1 + d
    <2>1. q - (m - 1) \in Nat /\ q = m - 1 + (q - (m - 1))
      BY <1>2, <1>3
    <2> QED
      BY <2>1
  <1>5. q * PageSize = m * PageSize - PageSize + d * PageSize
    BY <1>1, <1>4
  <1>6. d * PageSize \in Nat /\ m * PageSize \in Nat
    BY <1>1
  <1> QED
    BY <1>1, <1>3, <1>5, <1>6 DEF c

(* The logs of S with the addresses they were asked for, and the order of these. *)
Keyed(as, S) == {r \in (DOMAIN as) \X S : AddressOf(r[2]) = as[r[1]]}

KeyedPrecedes(q, r) ==
    \/ LogTime(q[2]) < LogTime(r[2])
    \/ LogTime(q[2]) = LogTime(r[2]) /\ (q[1] < r[1] \/ (q[1] = r[1] /\ q[2][3] < r[2][3]))

KeyOK(r) == IsLog(r[2]) /\ r = <<r[1], r[2]>> /\ r[1] \in Nat /\ r[2][3] \in Nat /\ LogTime(r[2]) \in Int

(* What a log and the place of its address are made of. *)
LEMMA KeyParts ==
  ASSUME ChainOK, NEW as \in AddressLists, NEW S, \A log \in S : IsLog(log), NEW r \in Keyed(as, S)
  PROVE  KeyOK(r) /\ r[1] \in DOMAIN as /\ r[2] \in S /\ AddressOf(r[2]) = as[r[1]]
  <1> DEFINE D == DOMAIN as
  <1>D. \A i \in D : i \in Nat
    <2>1. D = 1 .. Len(as) /\ Len(as) \in Nat
      BY BlockReadsAssumption
    <2> HIDE DEF D
    <2> QED
      BY <2>1
  <1>K. r \in D \X S /\ AddressOf(r[2]) = as[r[1]]
    BY DEF Keyed
  <1> HIDE DEF D
  <1>1. r = <<r[1], r[2]>> /\ r[1] \in D /\ r[2] \in S /\ AddressOf(r[2]) = as[r[1]]
    BY <1>K
  <1>2. r[1] \in Nat
    BY <1>1, <1>D
  <1> DEFINE log == r[2]
  <1>3. IsLog(log)
    BY <1>1
  <1> HIDE DEF log
  <1>4. /\ log[3] \in Nat /\ log[1] \in 0 .. Len(chain) - 1 /\ log[2] \in 1 .. Slots
        /\ LogTime(log) = log[1] * Slots + log[2] - 1
    BY <1>3, LogParts
  <1>5. log[1] * Slots \in Nat /\ log[2] \in Nat
    BY <1>4, SlotsType
  <1>6. LogTime(log) \in Int
    BY <1>4, <1>5
  <1> QED
    BY <1>1, <1>2, <1>3, <1>4, <1>6 DEF KeyOK, log, D

(* The order by time and then by address is strict and total. *)
LEMMA KeysOrdered ==
  ASSUME ChainOK, NEW x, NEW y, NEW z, KeyOK(x), KeyOK(y), KeyOK(z)
  PROVE  /\ ~KeyedPrecedes(x, x)
         /\ KeyedPrecedes(x, y) /\ KeyedPrecedes(y, z) => KeyedPrecedes(x, z)
         /\ x = y \/ KeyedPrecedes(x, y) \/ KeyedPrecedes(y, x)
         /\ KeyedPrecedes(x, y) => LogTime(x[2]) <= LogTime(y[2]) /\ (x[1] = y[1] => LogPrecedes(x[2], y[2]))
  <1> DEFINE a == x[2]
             b == y[2]
             c == z[2]
  <1>1. /\ IsLog(a) /\ x = <<x[1], a>> /\ x[1] \in Nat /\ a[3] \in Nat /\ LogTime(a) \in Int
        /\ IsLog(b) /\ y = <<y[1], b>> /\ y[1] \in Nat /\ b[3] \in Nat /\ LogTime(b) \in Int
        /\ IsLog(c) /\ z[1] \in Nat /\ c[3] \in Nat /\ LogTime(c) \in Int
    BY DEF KeyOK
  <1>2. \A q, r : KeyedPrecedes(q, r) <=>
          \/ LogTime(q[2]) < LogTime(r[2])
          \/ LogTime(q[2]) = LogTime(r[2]) /\ (q[1] < r[1] \/ (q[1] = r[1] /\ q[2][3] < r[2][3]))
    BY DEF KeyedPrecedes
  <1>3. KeyedPrecedes(x, y) <=>
          LogTime(a) < LogTime(b) \/ (LogTime(a) = LogTime(b) /\ (x[1] < y[1] \/ (x[1] = y[1] /\ a[3] < b[3])))
    BY <1>2
  <1>4. KeyedPrecedes(y, x) <=>
          LogTime(b) < LogTime(a) \/ (LogTime(b) = LogTime(a) /\ (y[1] < x[1] \/ (y[1] = x[1] /\ b[3] < a[3])))
    BY <1>2
  <1>5. KeyedPrecedes(y, z) <=>
          LogTime(b) < LogTime(c) \/ (LogTime(b) = LogTime(c) /\ (y[1] < z[1] \/ (y[1] = z[1] /\ b[3] < c[3])))
    BY <1>2
  <1>6. KeyedPrecedes(x, z) <=>
          LogTime(a) < LogTime(c) \/ (LogTime(a) = LogTime(c) /\ (x[1] < z[1] \/ (x[1] = z[1] /\ a[3] < c[3])))
    BY <1>2
  <1>7. ~KeyedPrecedes(x, x)
    BY <1>1 DEF KeyedPrecedes
  <1> HIDE DEF a, b, c
  <1>8. LogTime(a) = LogTime(b) /\ a[3] = b[3] => a = b
    BY <1>1, LogsOrdered DEF LogPrecedes
  <1>9. x = y \/ KeyedPrecedes(x, y) \/ KeyedPrecedes(y, x)
    BY <1>1, <1>3, <1>4, <1>8
  <1>10. KeyedPrecedes(x, y) /\ KeyedPrecedes(y, z) => KeyedPrecedes(x, z)
    BY <1>1, <1>3, <1>5, <1>6
  <1>11. KeyedPrecedes(x, y) => LogTime(a) <= LogTime(b) /\ (x[1] = y[1] => LogPrecedes(a, b))
    BY <1>1, <1>3 DEF LogPrecedes
  <1> QED
    BY <1>7, <1>9, <1>10, <1>11 DEF a, b

(* The logs of several addresses, put together and sorted. *)
LEMMA SortedByAddress ==
  ASSUME ChainOK, NEW S, IsFiniteSet(S), \A log \in S : IsLog(log), NEW as \in AddressLists, as # <<>>,
         NEW keyed, keyed = Sorted(Keyed(as, S), KeyedPrecedes)
  PROVE  InOrder([n \in DOMAIN keyed |-> keyed[n][2]], {log \in S : \E i \in DOMAIN as : AddressOf(log) = as[i]}, as)
  <1> DEFINE found == Keyed(as, S)
             before == [x \in found |-> {y \in found : KeyedPrecedes(y, x)}]
             N == Cardinality(found)
             want == {log \in S : \E i \in DOMAIN as : AddressOf(log) = as[i]}
             seq == [n \in DOMAIN keyed |-> keyed[n][2]]
             second == [r \in found |-> r[2]]
  <1>1. /\ DOMAIN as = 1 .. Len(as) /\ Len(as) \in Nat /\ Len(as) > 0
        /\ \A i, j \in DOMAIN as : as[i] = as[j] => i = j
    BY BlockReadsAssumption
  <1>2. \A r \in found : KeyOK(r) /\ r[1] \in DOMAIN as /\ r[2] \in S /\ AddressOf(r[2]) = as[r[1]]
    BY KeyParts
  <1>4. IsFiniteSet(found)
    <2>1. IsFiniteSet(DOMAIN as)
      <3> DEFINE L == Len(as)
      <3>1. L \in Int /\ DOMAIN as = 1 .. L
        BY <1>1
      <3> HIDE DEF L
      <3>2. IsFiniteSet(1 .. L)
        BY <3>1, FS_Interval
      <3> QED
        BY <3>1, <3>2
    <2>2. IsFiniteSet((DOMAIN as) \X S)
      BY <2>1, FS_Product
    <2>3. found \subseteq (DOMAIN as) \X S
      BY DEF Keyed
    <2> QED
      BY <2>2, <2>3, FS_Subset
  <1>D. /\ DOMAIN keyed = 1 .. N
        /\ \A n \in 1 .. N : keyed[n] = CHOOSE x \in found : Cardinality({y \in found : KeyedPrecedes(y, x)}) = n - 1
    BY DEF Sorted
  <1>W. \A log : log \in want <=> \E r \in found : r[2] = log
    <2> SUFFICES ASSUME NEW log PROVE log \in want <=> \E r \in found : r[2] = log
      OBVIOUS
    <2>1. ASSUME log \in want PROVE \E r \in found : r[2] = log
      <3>1. PICK i \in DOMAIN as : AddressOf(log) = as[i]
        BY <2>1
      <3>2. <<i, log>> \in found /\ <<i, log>>[2] = log
        BY <2>1, <3>1 DEF Keyed
      <3> QED
        BY <3>2
    <2>2. ASSUME NEW r \in found, r[2] = log PROVE log \in want
      BY <1>2, <2>2
    <2> QED
      BY <2>1, <2>2
  <1> HIDE DEF found, N, want
  <1>5. before \in [found -> SUBSET found] /\ \A x, y \in found : y \in before[x] <=> KeyedPrecedes(y, x)
    OBVIOUS
  <1>6. \A n \in 1 .. N :
          (\E x \in found : Cardinality(before[x]) = n - 1) => keyed[n] \in found /\ Cardinality(before[keyed[n]]) = n - 1
    <2> SUFFICES ASSUME NEW n \in 1 .. N, \E x \in found : Cardinality({y \in found : KeyedPrecedes(y, x)}) = n - 1
                 PROVE  keyed[n] \in found /\ Cardinality({y \in found : KeyedPrecedes(y, keyed[n])}) = n - 1
      OBVIOUS
    <2> QED
      BY <1>D
  <1>O. \A x, y, z \in found :
          /\ ~KeyedPrecedes(x, x)
          /\ KeyedPrecedes(x, y) /\ KeyedPrecedes(y, z) => KeyedPrecedes(x, z)
          /\ x = y \/ KeyedPrecedes(x, y) \/ KeyedPrecedes(y, x)
          /\ KeyedPrecedes(x, y) => LogTime(x[2]) <= LogTime(y[2]) /\ (x[1] = y[1] => LogPrecedes(x[2], y[2]))
    BY <1>2, KeysOrdered
  <1> HIDE DEF before
  <1>8. /\ \A x \in found : x \notin before[x]
        /\ \A x, y, z \in found : x \in before[y] /\ y \in before[z] => x \in before[z]
        /\ \A x, y \in found : x = y \/ x \in before[y] \/ y \in before[x]
    BY <1>5, <1>O
  <1>9. /\ N \in Nat
        /\ \A n \in 1 .. N : keyed[n] \in found
        /\ \A x \in found : \E n \in 1 .. N : keyed[n] = x
        /\ \A n, m \in 1 .. N : n < m => keyed[n] \in before[keyed[m]]
    <2> HIDE DEF seq, second
    <2>1. \A n \in 1 .. Cardinality(found) :
            (\E x \in found : Cardinality(before[x]) = n - 1) => keyed[n] \in found /\ Cardinality(before[keyed[n]]) = n - 1
      BY <1>6 DEF N
    <2>2. /\ Cardinality(found) \in Nat
          /\ \A n \in 1 .. Cardinality(found) : keyed[n] \in found
          /\ \A x \in found : \E n \in 1 .. Cardinality(found) : keyed[n] = x
          /\ \A n, m \in 1 .. Cardinality(found) : n < m => keyed[n] \in before[keyed[m]]
      BY ONLY <1>4, <1>5, <1>8, <2>1, Ranked
    <2> QED
      BY <2>2 DEF N
  <1>10. N = Cardinality(want)
    <2>1. second \in [found -> want] /\ \A log \in want : \E r \in found : second[r] = log
      BY <1>W
    <2>2. \A x, y \in found : second[x] = second[y] => x = y
      <3> SUFFICES ASSUME NEW x \in found, NEW y \in found, x[2] = y[2] PROVE x = y
        OBVIOUS
      <3>1. as[x[1]] = as[y[1]] /\ x[1] \in DOMAIN as /\ y[1] \in DOMAIN as
        BY <1>2
      <3>2. x[1] = y[1]
        BY <1>1, <3>1
      <3> QED
        BY <1>2, <3>2 DEF KeyOK
    <2> HIDE DEF second
    <2>3. second \in Bijection(found, want)
      BY <2>1, <2>2 DEF Bijection, Injection, Surjection, IsInjective
    <2> QED
      BY <1>4, <2>3, FS_Bijection DEF ExistsBijection, N
  <1>11. DOMAIN seq = 1 .. N /\ Len(seq) = N /\ \A n \in 1 .. N : seq[n] = keyed[n][2]
    BY <1>9, <1>D
  <1> HIDE DEF seq
  <1>12. {seq[n] : n \in DOMAIN seq} = want
    <2>1. \A log : log \in {seq[n] : n \in DOMAIN seq} <=> \E n \in 1 .. N : keyed[n][2] = log
      BY <1>11
    <2>2. \A log : log \in want <=> \E n \in 1 .. N : keyed[n][2] = log
      <3> SUFFICES ASSUME NEW log PROVE log \in want <=> \E n \in 1 .. N : keyed[n][2] = log
        OBVIOUS
      <3>1. ASSUME log \in want PROVE \E n \in 1 .. N : keyed[n][2] = log
        <4>1. PICK x \in found : x[2] = log
          BY <1>W, <3>1
        <4>2. PICK n \in 1 .. N : keyed[n] = x
          BY <1>9
        <4> QED
          BY <4>1, <4>2
      <3>2. ASSUME NEW n \in 1 .. N, keyed[n][2] = log PROVE log \in want
        BY <1>9, <1>W, <3>2
      <3> QED
        BY <3>1, <3>2
    <2> QED
      BY <2>1, <2>2
  <1>13. ASSUME NEW n \in 1 .. N, NEW m \in 1 .. N, n < m
         PROVE  IF Len(as) < 2 THEN LogPrecedes(seq[n], seq[m]) ELSE LogTime(seq[n]) <= LogTime(seq[m])
    <2> DEFINE x == keyed[n]
               y == keyed[m]
    <2>1. x \in found /\ y \in found /\ KeyedPrecedes(x, y)
      BY <1>5, <1>9, <1>13
    <2> HIDE DEF x, y
    <2>2. Len(as) < 2 => x[1] = y[1]
      <3> DEFINE L == Len(as)
                 p == x[1]
                 q == y[1]
      <3>1. L \in Nat /\ p \in 1 .. L /\ q \in 1 .. L
        <4>1. p \in DOMAIN as /\ q \in DOMAIN as
          BY <1>2, <2>1
        <4> HIDE DEF p, q
        <4> QED
          BY <1>1, <4>1
      <3> HIDE DEF L, p, q
      <3>2. L < 2 => p = q
        BY <3>1
      <3> QED
        BY <3>2 DEF L, p, q
    <2>3. seq[n] = x[2] /\ seq[m] = y[2]
      BY <1>11 DEF x, y
    <2> QED
      BY <1>O, <2>1, <2>2, <2>3
  <1>14. InOrder(seq, want, as)
    BY <1>10, <1>11, <1>12, <1>13 DEF InOrder
  <1> QED
    BY <1>14 DEF seq, want

(* The queries of several addresses: all of their logs, or a refusal for one address that has too many. *)
LEMMA LogsByAddress ==
  ASSUME ChainOK, NEW h \in Views, NEW range, NEW as \in AddressLists, as # <<>>,
         IsFiniteSet(LogsIn(range, h)), \A log \in LogsIn(range, h) : IsLog(log)
  PROVE  LET got == GetLogsByAddress(as, range, h)
             S == LogsIn(range, h)
             of(i) == {log \in S : AddressOf(log) = as[i]}
         IN  \/ got.st = "PAGINATION_MAX" /\ \E i \in DOMAIN as : Pages(of(i)) >= CalculateMaxPage(range)
             \/ got.st = "ok" /\ InOrder(got.val, {log \in S : \E i \in DOMAIN as : AddressOf(log) = as[i]}, as)
  <1> DEFINE S == LogsIn(range, h)
             of(i) == {log \in S : AddressOf(log) = as[i]}
             M == CalculateMaxPage(range)
             answers == [i \in DOMAIN as |-> GetContractResultsLogsByAddress(as[i], range, h)]
             refused == {i \in DOMAIN as : answers[i].st # "ok"}
             rows == {<<i, log>> : i \in DOMAIN as, log \in AllLogs(h)}
             found == {r \in rows : r[2] \in answers[r[1]].val}
             keyed == [n \in 1 .. Cardinality(found) |-> CHOOSE x \in found : Cardinality({y \in found : KeyedPrecedes(y, x)}) = n - 1]
             got == GetLogsByAddress(as, range, h)
             want == {log \in S : \E i \in DOMAIN as : AddressOf(log) = as[i]}
  <1>1. \A i \in DOMAIN as : answers[i] = IF Pages(of(i)) >= M THEN Err("PAGINATION_MAX") ELSE Ok(of(i))
    BY DEF GetContractResultsLogsByAddress, GetPaginatedResults
  <1>2. \A x : Ok(x).st = "ok" /\ Ok(x).val = x
    BY DEF Ok
  <1>3. Err("PAGINATION_MAX").st = "PAGINATION_MAX"
    BY DEF Err
  <1>4. got = IF refused # {} THEN answers[CHOOSE i \in refused : TRUE] ELSE Ok([n \in DOMAIN keyed |-> keyed[n][2]])
    BY DEF GetLogsByAddress, Sorted, KeyedPrecedes
  <1>5. S \subseteq AllLogs(h)
    BY DEF LogsIn
  <1>6. CASE refused # {}
    <2>1. PICK i \in refused : got = answers[i]
      <3> DEFINE c == CHOOSE i \in refused : TRUE
      <3>1. got = answers[c]
        BY <1>4, <1>6
      <3> HIDE DEF refused, answers, got, keyed, found
      <3>2. c \in refused
        BY <1>6
      <3> QED
        BY <3>1, <3>2
    <2>2. i \in DOMAIN as /\ answers[i].st # "ok"
      OBVIOUS
    <2> HIDE DEF answers, refused, S, M, got, of
    <2>3. Pages(of(i)) >= M /\ got.st = "PAGINATION_MAX"
      BY <1>1, <1>2, <1>3, <2>1, <2>2
    <2> QED
      BY <2>2, <2>3 DEF got, of, M, S
  <1>7. CASE refused = {}
    <2>1. \A i \in DOMAIN as : answers[i].val = of(i)
      <3>1. \A i \in DOMAIN as : answers[i].st = "ok"
        BY <1>7
      <3> HIDE DEF answers, of, M
      <3> QED
        BY <1>1, <1>2, <1>3, <3>1
    <2> DEFINE D == DOMAIN as
    <2>2. found = {r \in D \X AllLogs(h) : r[2] \in answers[r[1]].val}
      <3>1. rows = {<<i, log>> : i \in D, log \in AllLogs(h)}
        OBVIOUS
      <3> HIDE DEF answers, D, rows
      <3>2. rows = D \X AllLogs(h)
        BY <3>1
      <3> QED
        BY <3>2
    <2>3. \A r \in D \X AllLogs(h) : r[2] \in answers[r[1]].val <=> r[2] \in S /\ AddressOf(r[2]) = as[r[1]]
      <3> SUFFICES ASSUME NEW i \in D, NEW log \in AllLogs(h)
                   PROVE  log \in answers[i].val <=> log \in S /\ AddressOf(log) = as[i]
        OBVIOUS
      <3> HIDE DEF answers, S
      <3> QED
        BY <2>1
    <2>4. Keyed(as, S) = {r \in D \X S : AddressOf(r[2]) = as[r[1]]}
      BY DEF Keyed
    <2> HIDE DEF found, S, answers, D
    <2>5. found = Keyed(as, S)
      <3>1. ASSUME NEW r \in found PROVE r \in Keyed(as, S)
        <4>1. r \in D \X AllLogs(h) /\ r[2] \in S /\ AddressOf(r[2]) = as[r[1]]
          BY <2>2, <2>3, <3>1
        <4>2. r \in D \X S
          BY <4>1
        <4> QED
          BY <2>4, <4>1, <4>2
      <3>2. ASSUME NEW r \in Keyed(as, S) PROVE r \in found
        <4>1. r \in D \X S /\ AddressOf(r[2]) = as[r[1]]
          BY <2>4, <3>2
        <4>2. r \in D \X AllLogs(h) /\ r[2] \in S
          BY <1>5, <4>1
        <4> QED
          BY <2>2, <2>3, <4>1, <4>2
      <3> QED
        BY <3>1, <3>2
    <2>6. keyed = Sorted(Keyed(as, S), KeyedPrecedes)
      BY <2>5 DEF Sorted
    <2> HIDE DEF keyed
    <2>7. InOrder([n \in DOMAIN keyed |-> keyed[n][2]], want, as)
      <3>1. IsFiniteSet(S) /\ \A log \in S : IsLog(log)
        BY DEF S
      <3> QED
        BY <2>6, <3>1, SortedByAddress
    <2>8. got = Ok([n \in DOMAIN keyed |-> keyed[n][2]])
      BY <1>4, <1>7
    <2> HIDE DEF got
    <2>9. got.st = "ok" /\ got.val = [n \in DOMAIN keyed |-> keyed[n][2]]
      BY <1>2, <2>8
    <2> QED
      BY <2>7, <2>9 DEF got, S
  <1> QED
    BY <1>6, <1>7

(* The logs of a set in the order of the chain. *)
LEMMA SortedInOrder ==
  ASSUME ChainOK, NEW S, IsFiniteSet(S), \A log \in S : IsLog(log)
  PROVE  InOrder(Sorted(S, LogPrecedes), S, <<>>)
  <1> DEFINE N == Cardinality(S)
             seq == Sorted(S, LogPrecedes)
             at(i) == CHOOSE x \in S : Cardinality({y \in S : LogPrecedes(y, x)}) = i - 1
  <1>1. seq = [i \in 1 .. N |-> at(i)]
    BY DEF Sorted
  <1>2. /\ DOMAIN seq = 1 .. N /\ N \in Nat
        /\ \A i \in DOMAIN seq : seq[i] \in S
        /\ \A x \in S : \E i \in DOMAIN seq : seq[i] = x
        /\ \A i, j \in DOMAIN seq : i < j => LogPrecedes(seq[i], seq[j])
    BY SortedLogs
  <1> HIDE DEF at, seq, N
  <1>3. Len(seq) = N
    BY <1>1, <1>2
  <1>4. {seq[i] : i \in DOMAIN seq} = S
    BY <1>2
  <1>5. Len(<<>>) < 2
    OBVIOUS
  <1> QED
    BY <1>2, <1>3, <1>4, <1>5 DEF InOrder, seq, N

(* What is answered for a range of closed blocks. *)
LEMMA LogsOrRefusal ==
  ASSUME ChainOK, NEW h \in Views, NEW f \in 0 .. Closed(h) - 1, NEW t \in f .. Closed(h) - 1, NEW as \in AddressLists
  PROVE  LET range == <<Start(f), End(t)>>
             got == GetLogsWithParams(as, range, h)
             want == {log \in LogsIn(range, h) : as = <<>> \/ \E i \in DOMAIN as : AddressOf(log) = as[i]}
         IN  \/ got.st = "ok" /\ InOrder(got.val, want, as)
             \/ got.st = "PAGINATION_MAX" /\ Cardinality(want) >= CalculateMaxPage(range) * PageSize - PageSize
  <1> DEFINE range == <<Start(f), End(t)>>
             S == LogsIn(range, h)
             M == CalculateMaxPage(range)
             got == GetLogsWithParams(as, range, h)
             want == {log \in S : as = <<>> \/ \E i \in DOMAIN as : AddressOf(log) = as[i]}
  <1>1. IsFiniteSet(S) /\ \A log \in S : IsLog(log)
    BY LogsOfClosed
  <1>2. M \in Nat \ {0}
    BY MirrorNodeAssumption DEF CalculateMaxPage
  <1>3. CASE as = <<>>
    <2>1. got = IF Pages(S) >= M THEN Err("PAGINATION_MAX") ELSE Ok(Sorted(S, LogPrecedes))
      BY <1>3, AllLogsAtOnce
    <2>2. want = S
      BY <1>3
    <2> HIDE DEF S, M, got, want
    <2>3. InOrder(Sorted(S, LogPrecedes), S, <<>>)
      BY <1>1, SortedInOrder
    <2>4. Pages(S) >= M => Cardinality(S) >= M * PageSize - PageSize
      BY <1>1, <1>2, FullPages
    <2>5. Err("PAGINATION_MAX").st = "PAGINATION_MAX" /\ \A x : Ok(x).st = "ok" /\ Ok(x).val = x
      BY DEF Err, Ok
    <2>6. \/ got.st = "ok" /\ InOrder(got.val, want, as)
          \/ got.st = "PAGINATION_MAX" /\ Cardinality(want) >= M * PageSize - PageSize
      BY <1>3, <2>1, <2>2, <2>3, <2>4, <2>5
    <2> QED
      BY <2>6 DEF S, M, got, want
  <1>4. CASE as # <<>>
    <2> DEFINE of(i) == {log \in S : AddressOf(log) = as[i]}
               wanted == {log \in S : \E i \in DOMAIN as : AddressOf(log) = as[i]}
    <2>1. want = wanted
      BY <1>4
    <2>2. got = GetLogsByAddress(as, range, h)
      BY <1>4 DEF GetLogsWithParams
    <2>3. \/ got.st = "PAGINATION_MAX" /\ \E i \in DOMAIN as : Pages(of(i)) >= M
          \/ got.st = "ok" /\ InOrder(got.val, wanted, as)
      BY <1>1, <1>4, <2>2, LogsByAddress
    <2>4. ASSUME NEW i \in DOMAIN as, Pages(of(i)) >= M PROVE Cardinality(wanted) >= M * PageSize - PageSize
      <3>1. of(i) \subseteq wanted /\ wanted \subseteq S
        OBVIOUS
      <3>p. Pages(of(i)) >= M
        BY <2>4
      <3> DEFINE mine == of(i)
      <3> HIDE DEF S, M, of, wanted
      <3>2. IsFiniteSet(wanted)
        BY <1>1, <3>1, FS_Subset
      <3>3. IsFiniteSet(mine) /\ Cardinality(mine) <= Cardinality(wanted)
        BY <3>1, <3>2, FS_Subset
      <3>q. Pages(mine) >= M
        BY <3>p
      <3> HIDE DEF mine
      <3>4. Cardinality(mine) >= M * PageSize - PageSize
        BY <1>2, <3>3, <3>q, FullPages
      <3>5. Cardinality(mine) \in Nat /\ Cardinality(wanted) \in Nat /\ M * PageSize \in Nat /\ PageSize \in Nat
        BY <1>2, <3>2, <3>3, FS_CardinalityType, SlotsType
      <3> QED
        BY <3>3, <3>4, <3>5
    <2> HIDE DEF got, want, wanted, of, M
    <2>5. \/ got.st = "ok" /\ InOrder(got.val, want, as)
          \/ got.st = "PAGINATION_MAX" /\ Cardinality(want) >= M * PageSize - PageSize
      BY <2>1, <2>3, <2>4
    <2> QED
      BY <2>5 DEF got, want, M
  <1> QED
    BY <1>3, <1>4

(* eth_getLogs of every range of closed blocks. *)
LEMMA RangesAnswered ==
  ASSUME ChainOK
  PROVE  LogsOfRange
  <1> SUFFICES ASSUME NEW f \in 0 .. Len(chain) - 1, NEW t \in 0 .. Len(chain) - 1, NEW as \in AddressLists, NEW h \in Views,
                      f <= t, t < Closed(h)
               PROVE  RangeAnswered(f, t, as, h)
    BY DEF LogsOfRange
  <1> DEFINE range == <<Start(f), End(t)>>
             got == GetLogs(Number(f), Number(t), as, <<h, h, h, h>>)
             want == {log \in LogsIn(range, h) : as = <<>> \/ \E i \in DOMAIN as : AddressOf(log) = as[i]}
             found == GetLogsWithParams(as, range, h)
             vs == <<h, h, h, h>>
             single == Len(as) = 1
             checked == ValidateBlockRangeAndAddTimestampToParams(Number(f), Number(t), single, vs)
  <1>1. Closed(h) \in Nat /\ f \in Nat /\ t \in Nat /\ MaxBlockRange \in Nat
    BY ViewParts, EthCommonAssumption
  <1>2. f \in 0 .. Closed(h) - 1 /\ t \in f .. Closed(h) - 1
    BY <1>1
  <1>3. \/ found.st = "ok" /\ InOrder(found.val, want, as)
        \/ found.st = "PAGINATION_MAX" /\ Cardinality(want) >= CalculateMaxPage(range) * PageSize - PageSize
    BY <1>2, LogsOrRefusal
  <1>4. \A n \in {f, t} : GetHistoricalBlockResponse(Number(n), h, h) = n
    BY <1>1, <1>2 DEF GetHistoricalBlockResponse, Number, BlockTagIsLatestOrPending, GetLatestBlock, GetBlock
  <1>5. /\ Number(f).tag = "number" /\ Number(t).tag = "number" /\ Number(f).n = f /\ Number(t).n = t
        /\ ~BlockTagIsLatestOrPending(Number(f)) /\ ~MissingFromBlock(Number(f), Number(t), h)
    BY DEF Number, BlockTagIsLatestOrPending, MissingFromBlock
  <1>6. Number(f) = Number(t) => f = t
    BY <1>5
  <1>7. f # NoBlock /\ t # NoBlock /\ ~(f > t)
    BY <1>1 DEF NoBlock
  <1>8. checked = IF Number(f) = Number(t) THEN Ok(<<Start(f), End(f)>>)
                  ELSE IF End(t) - Start(f) > MaxTimeRange THEN Err("TIMESTAMP_RANGE_TOO_LARGE")
                  ELSE IF ~single /\ t - f > BlockRangeLimit THEN Err("RANGE_TOO_LARGE")
                  ELSE Ok(range)
    <2>1. vs[1] = h /\ vs[2] = h /\ vs[3] = h
      OBVIOUS
    <2> HIDE DEF vs, single
    <2> QED
      BY <1>4, <1>5, <1>7, <2>1 DEF ValidateBlockRangeAndAddTimestampToParams
  <1>9. got = CASE checked.st = "null" -> Ok(<<>>)
                [] checked.st = "ok" -> GetLogsWithParams(as, checked.val, h)
                [] OTHER -> checked
    BY <1>5 DEF GetLogs
  <1>10. /\ \A x : Ok(x).st = "ok" /\ Ok(x).val = x
         /\ Err("TIMESTAMP_RANGE_TOO_LARGE").st = "TIMESTAMP_RANGE_TOO_LARGE" /\ Err("RANGE_TOO_LARGE").st = "RANGE_TOO_LARGE"
    BY DEF Ok, Err
  <1> HIDE DEF got, checked, want, found, vs
  <1>11. \/ got = found
         \/ got.st = "TIMESTAMP_RANGE_TOO_LARGE" /\ End(t) - Start(f) > MaxTimeRange
         \/ got.st = "RANGE_TOO_LARGE" /\ ~single /\ t - f > BlockRangeLimit
    <2>1. checked = Ok(range) => got = found
      BY <1>9, <1>10 DEF found
    <2>2. Number(f) = Number(t) => checked = Ok(range)
      BY <1>6, <1>8
    <2> HIDE DEF range
    <2> QED
      BY <1>8, <1>9, <1>10, <2>1, <2>2
  <1> QED
    BY <1>3, <1>11 DEF got, want, RangeAnswered

(* The transactions up to the end of a closed block are those of the blocks up to it, at any view that has it. *)
LEMMA UpToBlock ==
  ASSUME ChainOK, NEW h \in Views, NEW n \in 0 .. Closed(h) - 1, NEW id
  PROVE  id \in Transactions(h) /\ TimeOf(id) <= End(n) <=> id \in Transactions(Whole) /\ id[1] <= n
  <1> DEFINE m == id[1]
             i == id[2]
             last == Len(chain[n + 1])
             v == Seen(h)
  <1>0. Whole \in Views /\ Seen(Whole) = Len(chain)
    BY DEF Whole, Views, ChainOK, Seen
  <1>1. Closed(h) \in Nat /\ v \in 1 .. Len(chain) /\ Closed(h) <= v /\ Len(chain) \in Nat /\ n \in Nat /\ n < v
    BY ViewParts DEF ChainOK
  <1>2. id \in Transactions(h) <=> id = <<m, i>> /\ m \in 0 .. v - 1 /\ i \in DOMAIN chain[m + 1]
    BY TransactionParts
  <1>3. id \in Transactions(Whole) <=> id = <<m, i>> /\ m \in 0 .. Len(chain) - 1 /\ i \in DOMAIN chain[m + 1]
    BY <1>0, TransactionParts
  <1>4. TimeOf(id) = m * Slots + i - 1 /\ End(n) = n * Slots + last - 1
    BY DEF TimeOf, Start, End
  <1> HIDE DEF m, i, v
  <1>5. n \in 0 .. Len(chain) - 1
    BY <1>1
  <1>6. last \in 1 .. Slots
    BY <1>5, BlockAt
  <1>7. ASSUME m \in 0 .. Len(chain) - 1, i \in DOMAIN chain[m + 1]
        PROVE  TimeOf(id) <= End(n) <=> m <= n
    <2>1. i \in 1 .. Len(chain[m + 1]) /\ i \in 1 .. Slots /\ m \in Nat
      BY <1>7, BlockAt, SlotsType
    <2>2. n * Slots \in Nat /\ m * Slots \in Nat
      BY <1>1, <2>1, SlotsType
    <2>3. m < n => m * Slots + Slots <= n * Slots
      BY <1>1, <2>1, SlotsOfBlocks
    <2>4. n < m => n * Slots + Slots <= m * Slots
      BY <1>1, <2>1, SlotsOfBlocks
    <2>5. m = n => i <= last
      BY <2>1
    <2> HIDE DEF last
    <2>6. CASE m < n
      BY <1>1, <1>4, <1>6, <2>1, <2>2, <2>3, <2>6, SlotsType
    <2>7. CASE n < m
      <3> DEFINE p == n * Slots
                 q == m * Slots
      <3>1. p \in Nat /\ q \in Nat /\ p + Slots <= q /\ TimeOf(id) = q + i - 1 /\ End(n) = p + last - 1
        BY <1>4, <2>2, <2>4, <2>7
      <3> HIDE DEF p, q
      <3>2. ~(TimeOf(id) <= End(n))
        BY <1>6, <2>1, <3>1, SlotsType
      <3> QED
        BY <1>1, <2>1, <2>7, <3>2
    <2>8. CASE m = n
      BY <1>1, <1>4, <1>6, <2>1, <2>2, <2>5, <2>8, SlotsType
    <2> QED
      BY <1>1, <2>1, <2>6, <2>7, <2>8
  <1>8. m <= n /\ m \in 0 .. Len(chain) - 1 => m \in 0 .. v - 1
    BY <1>1
  <1>9. m \in 0 .. v - 1 => m \in 0 .. Len(chain) - 1
    BY <1>1
  <1> QED
    BY <1>2, <1>3, <1>7, <1>8, <1>9 DEF m

(* The storage of a closed block is no longer changed by what is imported. *)
LEMMA SlotSettled ==
  ASSUME ChainOK, NEW h \in Views, NEW n \in 0 .. Closed(h) - 1, NEW a
  PROVE  SlotAt(a, End(n), h) = SlotAt(a, End(n), 2 * Len(chain))
  <1> DEFINE S(v) == {id \in Transactions(v) : Tx(id).to = a /\ Tx(id).result = "SUCCESS" /\ TimeOf(id) <= End(n)}
  <1>1. Whole \in Views /\ n \in 0 .. Closed(Whole) - 1
    <2>1. Closed(h) \in Nat /\ Closed(h) <= Seen(h) /\ Seen(h) \in 1 .. Len(chain)
      BY ViewParts
    <2>2. Closed(Whole) = Len(chain) /\ Len(chain) \in Nat \ {0}
      BY WholeView DEF Whole, ChainOK
    <2> QED
      BY <2>1, <2>2 DEF Whole, Views
  <1>2. \A id : /\ id \in Transactions(h) /\ TimeOf(id) <= End(n) <=> id \in Transactions(Whole) /\ id[1] <= n
                /\ id \in Transactions(Whole) /\ TimeOf(id) <= End(n) <=> id \in Transactions(Whole) /\ id[1] <= n
    BY <1>1, UpToBlock
  <1>3. S(h) = S(Whole)
    BY <1>2
  <1> QED
    BY <1>3 DEF SlotAt, Whole

(* eth_getStorageAt, eth_getCode, eth_call and eth_estimateGas at every block. *)
LEMMA StateOfBlock ==
  ASSUME ChainOK
  PROVE  StateAtBlock
  <1> SUFFICES ASSUME NEW a \in DOMAIN CreatedAt, NEW n \in 0 .. Len(chain), NEW h \in Views, NEW g \in Views, h <= g
               PROVE  LET storage(p) == GetStorageAt(a, p, h, g)
                          call(p)    == Call(PlainCall(a), p, "ok", h, g)
                          end        == SlotAt(a, End(n), 2 * Len(chain))
                          known      == n < Closed(h)
                      IN
              /\ known => \A p \in {Number(n), Hash(n)} : storage(p) = Ok(end) /\ call(p) = Ok(end)
              /\ ~known => storage(Hash(n)) = Err("RESOURCE_NOT_FOUND")
                             /\ call(Hash(n)) = Err("RESOURCE_NOT_FOUND")
              /\ n >= Closed(g) => call(Number(n)) = Ok("0x")
              /\ known => \A p \in {Number(n)} :
                   (GetCode(a, p, {}, {}, h).val \in {"code", "redirect"})
                      <=> (EntityType[a] \in {"contract", "token"} /\ CreatedAt[a] <= End(n))
              /\ storage(Tag("latest")).val \in
                   {SlotAt(a, Now, v) : v \in {w \in Views : h <= w /\ w <= g}}
              /\ \A e \in Outcomes \ {"ok", "FAIL_INVALID"} :
                   known => Call(PlainCall(a), Number(n), e, h, g).st
                              = EstimateGas(PlainCall(a), e, g).st
    BY DEF StateAtBlock
  <1> DEFINE storage(p) == GetStorageAt(a, p, h, g)
             answerTo(p) == Call(PlainCall(a), p, "ok", h, g)
             slot(v) == SlotAt(a, End(n), v)
             end == slot(2 * Len(chain))
             known == n < Closed(h)
             formatted(c) == [ContractCallFormat(c) EXCEPT !.gas = GetCappedBlockGasLimit(@)]
  <1>1. Closed(h) \in Nat /\ Closed(g) \in Nat /\ Closed(h) <= Closed(g) /\ n \in Nat /\ MaxBlockRange \in Nat
    BY ViewParts, ViewsGrow, EthCommonAssumption DEF ChainOK
  <1>2. \A x : /\ Ok(x).st = "ok" /\ Ok(x).val = x /\ Err(x).st = x
               /\ Number(x).tag = "number" /\ Number(x).n = x /\ Hash(x).tag = "hash" /\ Hash(x).n = x
    BY DEF Ok, Err, Number, Hash
  <1>3. known => slot(g) = end
    BY <1>1, SlotSettled
  <1>4. /\ GetBlock(n, h) = IF known THEN n ELSE NoBlock
        /\ GetBlock(n, g) = IF n < Closed(g) THEN n ELSE NoBlock
        /\ n # NoBlock
    BY <1>1 DEF GetBlock, NoBlock
  <1>5. /\ GetHistoricalBlockResponse(Number(n), h, h) = IF known THEN n ELSE NoBlock
        /\ GetHistoricalBlockResponse(Hash(n), h, h) = IF known THEN n ELSE NoBlock
    BY <1>1, <1>2, <1>4 DEF GetHistoricalBlockResponse, BlockTagIsLatestOrPending, GetLatestBlock
  <1>6. ~BlockTagIsLatestOrPending(Number(n)) /\ ~BlockTagIsLatestOrPending(Hash(n))
    BY <1>2 DEF BlockTagIsLatestOrPending
  <1>7. \A p \in {Number(n), Hash(n)} : storage(p) = IF known THEN Ok(slot(g)) ELSE Err("RESOURCE_NOT_FOUND")
    BY <1>4, <1>5, <1>6 DEF GetStorageAt
  <1>8. \A e : PostContractCall(formatted(PlainCall(a)), Number(n), e, g) =
                 IF n >= Closed(g) THEN Null ELSE IF e = "ok" THEN Ok(slot(g)) ELSE Err(e)
    <2>1. formatted(PlainCall(a)).to = a
      BY DEF PlainCall, ContractCallFormat
    <2>2. HandleError("call", 404) = Null
      BY DEF HandleError, AcceptedNotFound
    <2> HIDE DEF formatted
    <2> QED
      BY <1>1, <1>2, <1>4, <2>1, <2>2 DEF PostContractCall
  <1>9. \A e : Call(PlainCall(a), Number(n), e, h, g) = CallMirrorNode(formatted(PlainCall(a)), Number(n), e, g)
    BY <1>2 DEF Call, ExtractBlockNumberOrTag
  <1>10. \A e : Call(PlainCall(a), Hash(n), e, h, g) =
                  IF known THEN CallMirrorNode(formatted(PlainCall(a)), Number(n), e, g) ELSE Err("RESOURCE_NOT_FOUND")
    BY <1>2, <1>4 DEF Call, ExtractBlockNumberOrTag, GetBlockNumberFromHash
  <1>N. Null.st = "null"
    BY DEF Null
  <1>11. CallMirrorNode(formatted(PlainCall(a)), Number(n), "ok", g) = IF n >= Closed(g) THEN Ok("0x") ELSE Ok(slot(g))
    BY <1>2, <1>8, <1>N DEF CallMirrorNode
  <1>12. known => ~(n >= Closed(g))
    BY <1>1
  <1>13. known => (GetCode(a, Number(n), {}, {}, h).val \in {"code", "redirect"}
                     <=> (EntityType[a] \in {"contract", "token"} /\ CreatedAt[a] <= End(n)))
    <2> SUFFICES ASSUME known
                 PROVE  GetCode(a, Number(n), {}, {}, h).val \in {"code", "redirect"}
                          <=> (EntityType[a] \in {"contract", "token"} /\ CreatedAt[a] <= End(n))
      OBVIOUS
    <2> DEFINE type == ResolveEntityType(a, {"contract", "token"}, {}, {})
               code == GetCode(a, Number(n), {}, {}, h)
    <2>1. type = IF EntityType[a] \in {"contract", "token"} THEN EntityType[a] ELSE "null"
      BY DEF ResolveEntityType
    <2>2. CreatedAt[a] \in Nat /\ a # HtsAddress
      BY ContractReadsAssumption
    <2>3. End(n) \in Int
      <3>1. n \in 0 .. Len(chain) - 1 /\ Len(chain[n + 1]) \in 1 .. Slots
        <4>1. n \in 0 .. Len(chain) - 1
          BY <1>1, ViewParts DEF ChainOK
        <4> QED
          BY <4>1, BlockAt
      <3>2. n * Slots \in Nat /\ Len(chain[n + 1]) \in Nat
        BY <1>1, <3>1, SlotsType
      <3> QED
        BY <3>2 DEF End
    <2>4. code = IF type = "null" \/ CreatedAt[a] > End(n) THEN Ok("empty")
                 ELSE CASE type = "token" -> Ok("redirect") [] type = "contract" -> Ok("code") [] OTHER -> Ok("empty")
      BY <1>2, <1>4, <1>5, <2>2 DEF GetCode, IsBlockParamValid
    <2> HIDE DEF type, code
    <2>5. CreatedAt[a] > End(n) <=> ~(CreatedAt[a] <= End(n))
      BY <2>2, <2>3
    <2>6. code.val = IF EntityType[a] \notin {"contract", "token"} \/ CreatedAt[a] > End(n) THEN "empty"
                     ELSE IF EntityType[a] = "token" THEN "redirect" ELSE "code"
      BY <1>2, <2>1, <2>4
    <2> QED
      BY <2>5, <2>6 DEF code
  <1>14. storage(Tag("latest")).val \in {SlotAt(a, Now, v) : v \in {w \in Views : h <= w /\ w <= g}}
    <2>1. storage(Tag("latest")) = Ok(SlotAt(a, Now, g))
      BY DEF GetStorageAt, Tag, BlockTagIsLatestOrPending
    <2>2. g \in {w \in Views : h <= w /\ w <= g}
      BY ViewParts
    <2> QED
      BY <1>2, <2>1, <2>2
  <1>15. ASSUME NEW e \in Outcomes \ {"ok", "FAIL_INVALID"}, known
         PROVE  Call(PlainCall(a), Number(n), e, h, g).st = EstimateGas(PlainCall(a), e, g).st
    <2>1. e \in {"CONTRACT_REVERT_EXECUTED", "BAD_REQUEST", "MIRROR_NODE"}
      BY DEF Outcomes
    <2>2. CallMirrorNode(formatted(PlainCall(a)), Number(n), e, g) = HandleMirrorNodeClientError(e)
      BY <1>2, <1>8, <1>12, <1>15, <2>1 DEF CallMirrorNode
    <2>3. PostContractCall(ContractCallFormat(PlainCall(a)), Tag("latest"), e, g) = Err(e)
      <3>1. TranslateBlockTag(Tag("latest"), g) = Closed(g) - 1 /\ Tag("latest").tag = "latest"
        BY DEF TranslateBlockTag, Tag, BlockTagIsLatestOrPending, GetLatestBlockNumber, GetLatestBlock
      <3>2. Closed(g) - 1 # NoBlock
        BY <1>1, <1>15 DEF NoBlock
      <3> QED
        BY <2>1, <3>1, <3>2 DEF PostContractCall
    <2> QED
      BY <1>2, <1>9, <2>1, <2>2, <2>3 DEF HandleMirrorNodeClientError, EstimateGas
  <1> HIDE DEF storage, answerTo, slot, end, known, formatted
  <1>16. known => \A p \in {Number(n), Hash(n)} : storage(p) = Ok(end) /\ answerTo(p) = Ok(end)
    BY <1>3, <1>7, <1>9, <1>10, <1>11, <1>12 DEF answerTo
  <1>17. /\ ~known => storage(Hash(n)) = Err("RESOURCE_NOT_FOUND") /\ answerTo(Hash(n)) = Err("RESOURCE_NOT_FOUND")
         /\ n >= Closed(g) => answerTo(Number(n)) = Ok("0x")
    BY <1>7, <1>9, <1>10, <1>11 DEF answerTo
  <1> QED
    BY <1>13, <1>14, <1>15, <1>16, <1>17 DEF storage, answerTo, slot, end, known

(* The transactions of a view are finitely many. *)
LEMMA FiniteTransactions ==
  ASSUME ChainOK, NEW h \in Views
  PROVE  IsFiniteSet(Transactions(h))
  <1> DEFINE w == Seen(h) - 1
  <1>1. w \in Int /\ Slots \in Int
    BY ViewParts, SlotsType
  <1>2. Transactions(h) \subseteq (0 .. w) \X (1 .. Slots)
    BY DEF Transactions
  <1> HIDE DEF w
  <1>3. IsFiniteSet(0 .. w) /\ IsFiniteSet(1 .. Slots)
    BY <1>1, FS_Interval
  <1>4. IsFiniteSet((0 .. w) \X (1 .. Slots))
    BY <1>3, FS_Product
  <1> QED
    BY <1>2, <1>4, FS_Subset

(* Transactions have times of their own, that grow with their blocks. *)
LEMMA TimesOrdered ==
  ASSUME ChainOK, NEW h \in Views, NEW x \in Transactions(h), NEW y \in Transactions(h)
  PROVE  /\ TimeOf(x) \in Nat /\ TimeOf(y) \in Nat
         /\ TimeOf(x) = TimeOf(y) => x = y
         /\ TimeOf(x) <= TimeOf(y) => x[1] <= y[1]
  <1>1. /\ x = <<x[1], x[2]>> /\ x[1] \in Nat /\ x[2] \in 1 .. Slots
        /\ y = <<y[1], y[2]>> /\ y[1] \in Nat /\ y[2] \in 1 .. Slots
    BY ViewParts DEF Transactions
  <1> DEFINE p == x[1] * Slots
             q == y[1] * Slots
             m == x[1]
             n == y[1]
             i == x[2]
             j == y[2]
  <1>2. TimeOf(x) = p + i - 1 /\ TimeOf(y) = q + j - 1
    BY DEF TimeOf, Start
  <1>3. p \in Nat /\ q \in Nat
    BY <1>1, SlotsType
  <1>4. m < n => p + Slots <= q
    BY <1>1, SlotsOfBlocks
  <1>5. n < m => q + Slots <= p
    BY <1>1, SlotsOfBlocks
  <1>6. m = n => p = q
    OBVIOUS
  <1>7. m \in Nat /\ n \in Nat /\ i \in 1 .. Slots /\ j \in 1 .. Slots /\ Slots \in Nat
    BY <1>1, SlotsType
  <1>8. x = <<m, i>> /\ y = <<n, j>>
    BY <1>1
  <1> HIDE DEF p, q, m, n, i, j
  <1>9. TimeOf(x) \in Nat /\ TimeOf(y) \in Nat
    BY <1>2, <1>3, <1>7
  <1>10. TimeOf(x) <= TimeOf(y) => m <= n
    BY <1>2, <1>3, <1>5, <1>7
  <1>11. TimeOf(x) = TimeOf(y) => m = n /\ i = j
    BY <1>2, <1>3, <1>4, <1>5, <1>6, <1>7
  <1> QED
    BY <1>8, <1>9, <1>10, <1>11 DEF m, n

(* The latest two of a set of transactions. *)
LEMMA LatestTwo ==
  ASSUME ChainOK, NEW h \in Views, NEW Q \in SUBSET Transactions(h)
  PROVE  \/ Q = {} /\ LatestOf(Q, 2) = {} /\ LatestOf(Q, 1) = {}
         \/ \E x \in Q : Q = {x} /\ LatestOf(Q, 2) = {x} /\ LatestOf(Q, 1) = {x}
         \/ \E x, y \in Q : /\ x # y /\ LatestOf(Q, 2) = {x, y} /\ LatestOf(Q, 1) = {x}
                            /\ \A z \in Q \ {x} : TimeOf(z) < TimeOf(x)
  <1> DEFINE before == [x \in Q |-> {y \in Q : TimeOf(y) > TimeOf(x)}]
             N == Cardinality(Q)
             seq == [i \in 1 .. N |-> CHOOSE x \in Q : Cardinality(before[x]) = i - 1]
  <1>1. IsFiniteSet(Q) /\ N \in Nat
    BY FiniteTransactions, FS_Subset, FS_CardinalityType
  <1>2. \A x, y \in Q : TimeOf(x) \in Nat /\ (TimeOf(x) = TimeOf(y) => x = y)
    BY TimesOrdered
  <1>3. before \in [Q -> SUBSET Q]
    OBVIOUS
  <1>4. /\ \A x \in Q : x \notin before[x]
        /\ \A x, y, z \in Q : x \in before[y] /\ y \in before[z] => x \in before[z]
        /\ \A x, y \in Q : x = y \/ x \in before[y] \/ y \in before[x]
    BY <1>2
  <1>5. \A k : LatestOf(Q, k) = {x \in Q : Cardinality(before[x]) < k}
    BY DEF LatestOf
  <1>6. \A x, y \in Q : x \in before[y] <=> TimeOf(x) > TimeOf(y)
    OBVIOUS
  <1> HIDE DEF before
  <1>7. \A i \in 1 .. N : (\E x \in Q : Cardinality(before[x]) = i - 1) => seq[i] \in Q /\ Cardinality(before[seq[i]]) = i - 1
    OBVIOUS
  <1> HIDE DEF seq
  <1>8. /\ \A i \in 1 .. N : seq[i] \in Q /\ Cardinality(before[seq[i]]) = i - 1
        /\ \A x \in Q : \E i \in 1 .. N : seq[i] = x
        /\ \A i, j \in 1 .. N : i < j => seq[i] \in before[seq[j]]
    BY <1>1, <1>3, <1>4, <1>7, Ranked
  <1> HIDE DEF N
  <1>9. CASE N = 0
    <2>1. Q = {}
      BY <1>8, <1>9
    <2> QED
      BY <1>5, <2>1
  <1>10. CASE N = 1
    <2>1. seq[1] \in Q /\ Cardinality(before[seq[1]]) = 0 /\ Q = {seq[1]}
      BY <1>8, <1>10
    <2> QED
      BY <1>5, <2>1
  <1>11. CASE N >= 2
    <2>1. 1 \in 1 .. N /\ 2 \in 1 .. N
      BY <1>1, <1>11
    <2>2. /\ seq[1] \in Q /\ Cardinality(before[seq[1]]) = 0
          /\ seq[2] \in Q /\ Cardinality(before[seq[2]]) = 1
      BY <1>8, <2>1
    <2>3. \A x \in Q : /\ Cardinality(before[x]) < 2 => x \in {seq[1], seq[2]}
                       /\ Cardinality(before[x]) < 1 => x = seq[1]
      BY <1>1, <1>8
    <2>4. LatestOf(Q, 2) = {seq[1], seq[2]} /\ LatestOf(Q, 1) = {seq[1]}
      BY <1>5, <2>2, <2>3
    <2>5. \A z \in Q \ {seq[1]} : TimeOf(z) < TimeOf(seq[1])
      <3> SUFFICES ASSUME NEW z \in Q, z # seq[1] PROVE TimeOf(z) < TimeOf(seq[1])
        OBVIOUS
      <3>1. PICK i \in 1 .. N : seq[i] = z
        BY <1>8
      <3>2. seq[1] \in before[z]
        BY <1>1, <1>8, <2>1, <3>1
      <3> QED
        BY <1>2, <1>6, <2>2, <3>2
    <2>6. seq[1] # seq[2]
      BY <2>2
    <2> QED
      BY <2>2, <2>4, <2>5, <2>6
  <1> QED
    BY <1>1, <1>9, <1>10, <1>11

(* The current account. *)
LEMMA CurrentNonce ==
  ASSUME NEW a \in Accounts, NEW h
  PROVE  GetAccountLatestEthereumNonce(a, h) = Ok(Nonces(a, Transactions(h)))
  <1> DEFINE body == [balance |-> BalanceAfter(a, Transactions(h)), nonce |-> Nonces(a, Transactions(h))]
  <1>1. GetAccount(a, h) = Get("accounts", TRUE, body)
    BY DEF GetAccount
  <1>2. body.nonce = Nonces(a, Transactions(h))
    OBVIOUS
  <1> HIDE DEF body
  <1>3. GetAccount(a, h) = Ok(body)
    BY <1>1, GetEnds
  <1> QED
    BY <1>2, <1>3 DEF GetAccountLatestEthereumNonce, Ok

(* The nonce after a transaction that was accepted counts the ones of its   *)
(* sender up to it.                                                         *)
LEMMA NonceAfterLast ==
  ASSUME ChainOK, NEW h \in Views, NEW n \in 0 .. Closed(h) - 1, NEW a,
         NEW own, own = {id \in UpTo(n) \cap TransactionsOf(a, h) : Tx(id).kind = "eth"},
         NEW x \in own, \A z \in own \ {x} : TimeOf(z) < TimeOf(x),
         Tx(x).from = a, Tx(x).result # "WRONG_NONCE"
  PROVE  NonceOf(x) + 1 = Nonces(a, UpTo(n))
  <1> DEFINE counts(id) == Tx(id).kind = "eth" /\ Tx(id).from = a /\ Tx(id).result # "WRONG_NONCE"
             C == {id \in UpTo(n) : counts(id)}
             earlier == {y \in (0 .. x[1]) \X (1 .. Slots) : y[2] <= Len(chain[y[1] + 1]) /\ TimeOf(y) < TimeOf(x)}
             P == {id \in earlier : counts(id)}
  <1>1. Whole \in Views /\ Seen(Whole) = Len(chain) /\ UpTo(n) = {id \in Transactions(Whole) : id[1] <= n}
    BY DEF Whole, Views, ChainOK, Seen, UpTo
  <1>2. n \in Nat /\ n < Len(chain) /\ Len(chain) \in Nat
    BY ViewParts DEF ChainOK
  <1>3. x \in UpTo(n) /\ x \in Transactions(Whole) /\ x[1] <= n /\ x[1] \in Nat /\ counts(x)
    BY <1>1, TransactionParts
  <1>4. ASSUME NEW id, id \in UpTo(n), counts(id) PROVE id \in own
    BY <1>1, <1>4, UpToBlock DEF TransactionsOf
  <1>5. ASSUME NEW id, id \in C, id # x PROVE id \in P
    <2>1. id \in own /\ id \in Transactions(Whole)
      BY <1>1, <1>4, <1>5
    <2>2. TimeOf(id) < TimeOf(x)
      BY <1>5, <2>1
    <2>3. id[1] <= x[1]
      BY <1>1, <1>3, <2>1, <2>2, TimesOrdered
    <2>4. id = <<id[1], id[2]>> /\ id[1] \in Nat /\ id[2] \in 1 .. Slots /\ id[2] <= Len(chain[id[1] + 1])
      BY <1>1, <1>2, <2>1 DEF Transactions
    <2>5. id \in (0 .. x[1]) \X (1 .. Slots)
      BY <1>3, <2>3, <2>4
    <2> QED
      BY <1>5, <2>2, <2>4, <2>5
  <1>6. ASSUME NEW id, id \in P PROVE id \in C /\ id # x
    <2>1. id = <<id[1], id[2]>> /\ id[1] \in 0 .. x[1] /\ id[2] \in 1 .. Slots /\ id[2] <= Len(chain[id[1] + 1]) /\ TimeOf(id) < TimeOf(x)
      BY <1>6
    <2>2. id[1] \in 0 .. Len(chain) - 1 /\ id[1] <= n
      BY <1>2, <1>3, <2>1
    <2>3. id \in Transactions(Whole)
      BY <1>1, <2>1, <2>2 DEF Transactions
    <2>4. TimeOf(x) \in Nat
      BY <1>1, <1>3, TimesOrdered
    <2> QED
      BY <1>1, <1>6, <2>1, <2>2, <2>3, <2>4
  <1>7. P = C \ {x} /\ x \in C
    BY <1>3, <1>5, <1>6
  <1>8. IsFiniteSet(C)
    BY <1>1, FiniteTransactions, FS_Subset
  <1>9. NonceOf(x) = Cardinality(P) /\ Nonces(a, UpTo(n)) = Cardinality(C)
    BY DEF NonceOf, Nonces
  <1> HIDE DEF P, C
  <1>10. Cardinality(P) = Cardinality(C) - 1 /\ Cardinality(C) \in Nat
    BY <1>7, <1>8, FS_RemoveElement, FS_CardinalityType
  <1> QED
    BY <1>9, <1>10

(* eth_getTransactionCount of a closed block. *)
LEMMA NonceOfBlock ==
  ASSUME ChainOK
  PROVE  NoncesAtBlock
  <1> SUFFICES ASSUME NEW a \in Accounts, NEW n \in 0 .. Len(chain) - 1, NEW vs \in Triples, n < Closed(vs[1]), n > 1
               PROVE  NonceIsThatOfTheBlock(a, n, vs)
    BY DEF NoncesAtBlock, NonceIsThatOfTheBlock
  <1> DEFINE g == vs[1]
             h == vs[3]
             own == {id \in UpTo(n) \cap TransactionsOf(a, h) : Tx(id).kind = "eth"}
             upTo == {id \in TransactionsOf(a, h) : Tx(id).kind = "eth" /\ TimeOf(id) <= End(n)}
             two == LatestOf(own, 2)
             last == CHOOSE x \in two : \A y \in two : TimeOf(x) >= TimeOf(y)
             c == GetTransactionCount(a, Number(n), vs)
             near == GetLatestBlock(g) - n <= MaxBlockRange
  <1>1. g \in Views /\ h \in Views /\ g <= h /\ n \in 0 .. Closed(h) - 1 /\ n \in Nat
    <2>1. vs[1] \in Views /\ vs[2] \in Views /\ vs[3] \in Views /\ vs[1] <= vs[2] /\ vs[2] <= vs[3]
      BY DEF Triples
    <2>0. vs[1] \in Nat /\ vs[2] \in Nat /\ vs[3] \in Nat
      BY <2>1, ViewParts
    <2>2. vs[1] <= vs[3]
      BY <2>0, <2>1
    <2>3. Closed(vs[1]) <= Closed(vs[3]) /\ Closed(vs[1]) \in Nat /\ Closed(vs[3]) \in Nat /\ n \in Nat
      BY <2>1, <2>2, ViewsGrow, ViewParts
    <2> QED
      BY <2>1, <2>2, <2>3
  <1>2. c = GetAccountNonceForHistoricBlock(a, n, g, h)
    BY <1>1 DEF GetTransactionCount, Number, BlockTagIsLatestOrPending
  <1>3. near => c = Ok(Nonces(a, Transactions(h)))
    BY <1>2, CurrentNonce DEF GetAccountNonceForHistoricBlock
  <1>4. GetBlock(n, h) = n /\ n # NoBlock
    BY <1>1, ViewParts DEF GetBlock, NoBlock
  <1>5. upTo = own
    <2>1. Transactions(Whole) = Transactions(2 * Len(chain))
      BY DEF Whole
    <2> QED
      BY <1>1, <2>1, UpToBlock DEF TransactionsOf, UpTo
  <1>6. ~near => c = IF two = {} THEN Ok(0) ELSE IF Cardinality(two) = 1 THEN Ok(1)
                     ELSE IF Tx(last).from = a THEN Ok(NonceOf(last) + 1)
                     ELSE GetAccountLatestEthereumNonce(a, h)
    <2> DEFINE pair == LatestOf(upTo, 2)
               newest == CHOOSE x \in pair : \A y \in pair : TimeOf(x) >= TimeOf(y)
    <2>1. pair = two /\ newest = last
      BY <1>5
    <2>2. GetAccountNonceFromContractResult(a, n, h) =
            CASE n = NoBlock -> Err("UNKNOWN_BLOCK")
              [] n # NoBlock /\ pair = {} -> Ok(0)
              [] n # NoBlock /\ Cardinality(pair) = 1 -> Ok(1)
              [] OTHER -> IF Tx(newest).from = a THEN Ok(NonceOf(newest) + 1) ELSE GetAccountLatestEthereumNonce(a, h)
      BY DEF GetAccountNonceFromContractResult
    <2> HIDE DEF pair, newest
    <2>3. pair = {} => Cardinality(pair) # 1
      BY FS_EmptySet
    <2>4. GetAccountNonceFromContractResult(a, n, h) =
            IF pair = {} THEN Ok(0) ELSE IF Cardinality(pair) = 1 THEN Ok(1)
            ELSE IF Tx(newest).from = a THEN Ok(NonceOf(newest) + 1) ELSE GetAccountLatestEthereumNonce(a, h)
      BY <1>4, <2>2, <2>3
    <2> HIDE DEF two, last
    <2> QED
      BY <1>2, <1>4, <2>1, <2>4 DEF GetAccountNonceForHistoricBlock
  <1>7. ASSUME ~near, \A id \in LatestOf(own, 1) : Tx(id).from = a /\ Tx(id).result # "WRONG_NONCE"
        PROVE  c = Ok(Nonces(a, UpTo(n)))
    <2> DEFINE C == {id \in UpTo(n) : Tx(id).kind = "eth" /\ Tx(id).from = a /\ Tx(id).result # "WRONG_NONCE"}
    <2>1. own \in SUBSET Transactions(h)
      BY DEF TransactionsOf
    <2>2. C \subseteq own
      <3>1. \A id : id \in UpTo(n) => id \in Transactions(h)
        BY <1>1, UpToBlock DEF UpTo, Whole
      <3> QED
        BY <3>1 DEF TransactionsOf
    <2>3. Nonces(a, UpTo(n)) = Cardinality(C)
      BY DEF Nonces
    <2>4. CASE own = {} /\ two = {}
      BY <1>6, <1>7, <2>2, <2>3, <2>4, FS_EmptySet
    <2>5. ASSUME NEW x \in own, own = {x}, two = {x}, LatestOf(own, 1) = {x} PROVE c = Ok(Nonces(a, UpTo(n)))
      <3>1. C = {x}
        BY <1>7, <2>2, <2>5
      <3>2. Cardinality(C) = 1 /\ Cardinality(two) = 1 /\ two # {}
        BY <2>5, <3>1, FS_Singleton
      <3> QED
        BY <1>6, <1>7, <2>3, <3>2
    <2>6. ASSUME NEW x \in own, NEW y \in own, x # y, two = {x, y}, LatestOf(own, 1) = {x},
                 \A z \in own \ {x} : TimeOf(z) < TimeOf(x)
          PROVE  c = Ok(Nonces(a, UpTo(n)))
      <3>1. TimeOf(x) \in Nat /\ TimeOf(y) \in Nat /\ TimeOf(y) < TimeOf(x)
        BY <1>1, <2>1, <2>6, TimesOrdered
      <3>2. last = x
        BY <2>6, <3>1
      <3>3. two # {} /\ Cardinality(two) # 1
        <4>1. IsFiniteSet(own) /\ {x, y} \in SUBSET own
          BY <1>1, <2>1, <2>6, FiniteTransactions, FS_Subset
        <4>2. IsFiniteSet({x, y})
          BY <4>1, FS_Subset
        <4> QED
          BY <2>6, <4>2, FS_Singleton
      <3>4. Tx(x).from = a /\ Tx(x).result # "WRONG_NONCE"
        BY <1>7, <2>6
      <3> HIDE DEF own
      <3>5. own = {id \in UpTo(n) \cap TransactionsOf(a, h) : Tx(id).kind = "eth"}
        BY DEF own
      <3>6. NonceOf(x) + 1 = Nonces(a, UpTo(n))
        BY <1>1, <2>6, <3>4, <3>5, NonceAfterLast
      <3> QED
        BY <1>6, <1>7, <3>2, <3>3, <3>4, <3>6
    <2> HIDE DEF own, c
    <2> QED
      BY <1>1, <2>1, <2>4, <2>5, <2>6, LatestTwo
  <1>8. \A x : Ok(x).val = x
    BY DEF Ok
  <1>9. near => c.val = Nonces(a, Transactions(h))
    BY <1>3, <1>8
  <1>10. ~near /\ (\A id \in LatestOf(own, 1) : Tx(id).from = a /\ Tx(id).result # "WRONG_NONCE")
           => c.val = Nonces(a, UpTo(n))
    BY <1>7, <1>8
  <1>11. GetLatestBlock(g) - n > MaxBlockRange => ~near
    <2>1. Closed(g) \in Nat
      BY <1>1, ViewParts
    <2>2. GetLatestBlock(g) - n \in Int /\ MaxBlockRange \in Int
      BY <1>1, <2>1, EthCommonAssumption DEF GetLatestBlock
    <2> QED
      BY <2>2
  <1>12. n > 1 /\ GetLatestBlock(g) - n <= MaxBlockRange => c.val = Nonces(a, Transactions(h))
    BY <1>9
  <1>13. n > 1 /\ GetLatestBlock(g) - n > MaxBlockRange
           /\ (\A id \in LatestOf(own, 1) : Tx(id).from = a /\ Tx(id).result # "WRONG_NONCE")
           => c.val = Nonces(a, UpTo(n))
    BY <1>10, <1>11
  <1> QED
    BY <1>12, <1>13, Zenon DEF NonceIsThatOfTheBlock

(* The chain has blocks of BlockContents, and one at least. *)
LEMMA ChainAlways == ChainSpec => []ChainOK
  <1>1. ChainInit => ChainOK
    <2> SUFFICES ASSUME NEW c \in BlockContents, chain = <<c>> PROVE ChainOK
      BY DEF ChainInit
    <2> QED
      BY DEF ChainOK
  <1>2. ChainOK /\ [ChainNext]_chain => ChainOK'
    <2> SUFFICES ASSUME ChainOK, ChainNext PROVE ChainOK'
      BY DEF ChainOK
    <2>1. PICK c \in BlockContents : chain' = Append(chain, c)
      BY DEF ChainNext, Import
    <2> QED
      BY <2>1 DEF ChainOK
  <1> QED
    BY <1>1, <1>2, PTL DEF ChainSpec

(* getContractResultWithRetry and getContractResultsLogsWithRetry with any number of retries: no receipt and no             *)
(* transaction is answered of a record whose block is not closed, and one of a closed block is answered in full.            *)
THEOREM ImmatureWithheld == ChainSpec => []NoImmatureAnswers
  <1>1. ChainOK => NoImmatureAnswers
    BY NoneImmature
  <1> QED
    BY <1>1, ChainAlways, PTL

(* ContractService answers storage, code and calls for the block it was asked about, at every view that has the block,      *)
(* and refuses a hash that is not there yet.                                                                                *)
THEOREM ContractStates == ChainSpec => []StateAtBlock
  <1>1. ChainOK => StateAtBlock
    BY StateOfBlock
  <1> QED
    BY <1>1, ChainAlways, PTL

(* eth_getLogs answers a range of closed blocks with all of its logs, once each and in order, or refuses it for its size:   *)
(* no page is dropped on the way, for any page size, limits and list of addresses.                                          *)
THEOREM RangesHaveTheirLogs == ChainSpec => []LogsOfRange
  <1>1. ChainOK => LogsOfRange
    BY RangesAnswered
  <1> QED
    BY <1>1, ChainAlways, PTL

(* eth_getTransactionCount of a block counts the sender's transactions up to it, found from the last two of them however    *)
(* many there are, and is the current nonce for the newest blocks.                                                          *)
THEOREM NoncesOfBlocks == ChainSpec => []NoncesAtBlock
  <1>1. ChainOK => NoncesAtBlock
    BY NonceOfBlock
  <1> QED
    BY <1>1, ChainAlways, PTL
=============================================================================
