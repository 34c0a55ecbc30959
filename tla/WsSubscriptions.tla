---------------------------- MODULE WsSubscriptions ----------------------------
(***************************************************************************)
(* The WebSocket server: connections and their limits, the requests that    *)
(* subscribe and unsubscribe, the table of subscriptions and the poller     *)
(* that feeds it.                                                           *)
(*                                                                          *)
(* Node runs one handler at a time and lets others in at every await: a     *)
(* request for logs awaits the validation of its addresses, an interval of  *)
(* the poller awaits the block number, a poll awaits its data.  A request   *)
(* is also the identity of the subscription it makes.                       *)
(***************************************************************************)
EXTENDS Integers, FiniteSets

CONSTANTS Conns, Reqs, Ips,
          Ip,        \* the address a connection comes from
          LogTags,   \* the tags of logs subscriptions, by their filters
          HeadTags,  \* the tags of newHeads subscriptions
          Configs    \* the configurations of the server and its clients

Tags == LogTags \cup HeadTags

\* clients and ask: the connections that come, and what the requests ask for;
\* blocks and ticks bound the chain and the intervals of the poller.
Config ==
  [clients : SUBSET Conns, ask : [Reqs -> [conn : Conns, tag : Tags]],
   WS_SAME_SUB_FOR_SAME_EVENT : BOOLEAN,
   WS_CONNECTION_LIMIT : Nat, WS_CONNECTION_LIMIT_PER_IP : Nat, WS_SUBSCRIPTION_LIMIT : Nat,
   blocks : Nat \ {0}, ticks : Nat]

ASSUME WsAssumption ==
  /\ IsFiniteSet(Conns) /\ IsFiniteSet(Reqs)
  /\ LogTags \cap HeadTags = {}
  /\ Ip \in [Conns -> Ips]
  /\ \A c \in Configs : c \in Config

VARIABLES config,
          conn,       \* the state of a connection
          connected,  \* connectedClients
          clientIps,
          count,      \* websocket.subscriptions of a connection
          req,        \* the state of a request
          subs,       \* the subscriptions of all tags
          joined,     \* history: how far the tag was polled when a subscription began
          polls,      \* the polls, each by the request that added it
          cursor,     \* lastPolled of a poll, 0 if undefined
          first,      \* history: the block the first answer to a poll began at
          overlap,    \* history: polls with two requests under way at once
          polling,    \* the interval is set
          waiting,    \* intervals that wait for the block number
          ticks,
          latest,     \* latestBlock, 0 if undefined
          fetches,    \* requests of polls that wait for their data
          sent,       \* the results that were sent to subscribers
          head,       \* the height of the chain
          racing,     \* history: connections with two subscribe requests at once
          late        \* history: requests whose connection closed under them

wsVars   == <<conn, connected, clientIps>>
subVars  == <<count, req, subs, joined, racing, late>>
pollVars == <<polls, cursor, first, overlap, polling>>
feedVars == <<waiting, ticks, latest, fetches, sent, head>>
vars     == <<config, wsVars, subVars, pollVars, feedVars>>

Init ==
  /\ config \in Configs
  /\ conn = [c \in Conns |-> "none"]
  /\ connected = 0
  /\ clientIps = [i \in Ips |-> 0]
  /\ count = [c \in Conns |-> 0]
  /\ req = [r \in Reqs |-> "none"]
  /\ subs = {} /\ polls = {} /\ overlap = {}
  /\ joined = [r \in Reqs |-> 0]
  /\ cursor = [r \in Reqs |-> 0]
  /\ first = [r \in Reqs |-> 0]
  /\ polling = FALSE
  /\ waiting = 0 /\ ticks = 0 /\ latest = 0
  /\ fetches = {} /\ sent = {}
  /\ head = 1
  /\ racing = {} /\ late = {}

ask == config.ask

SubsOf(c) == {r \in subs : ask[r].conn = c}
Subscribers(t) == {r \in subs : ask[r].tag = t}
Validating(c) == {r \in Reqs : ask[r].conn = c /\ req[r] = "validating"}

\* Requests that subscribed and have not told the limiter yet.
Uncounted(c) == {r \in Reqs : ask[r].conn = c /\ req[r] = "subscribed"}
----------------------------------------------------------------------------
(* Connections and the ConnectionLimiter                                   *)

\* The sockets that server._connections counts.
Sockets == {c \in Conns : conn[c] \in {"accepted", "open", "closing"}}

Accept(c) ==
  /\ conn[c] = "none" /\ c \in config.clients
  /\ conn' = [conn EXCEPT ![c] = "accepted"]
  /\ UNCHANGED <<config, connected, clientIps, subVars, pollVars, feedVars>>

\* Mutant: a connection may go one over the limits.
UpgradeOffByOne(c) ==
  /\ conn[c] = "accepted"
  /\ connected' = Cardinality(Sockets)
  /\ clientIps' = [clientIps EXCEPT ![Ip[c]] = @ + 1]
  /\ \/ connected' > config.WS_CONNECTION_LIMIT + 1 /\ conn' = [conn EXCEPT ![c] = "closing"]
     \/ /\ connected' <= config.WS_CONNECTION_LIMIT + 1 /\ clientIps'[Ip[c]] > config.WS_CONNECTION_LIMIT_PER_IP + 1
        /\ conn' = [conn EXCEPT ![c] = "closing"]
     \/ /\ connected' <= config.WS_CONNECTION_LIMIT + 1 /\ clientIps'[Ip[c]] <= config.WS_CONNECTION_LIMIT_PER_IP + 1
        /\ conn' = [conn EXCEPT ![c] = "open"]
  /\ UNCHANGED <<config, subVars, pollVars, feedVars>>

\* incrementCounters, then applyLimits: websocket.close leaves the connection
\* closing, and its messages are still handled.
Upgrade(c) ==
  /\ conn[c] = "accepted"
  /\ connected' = Cardinality(Sockets)
  /\ clientIps' = [clientIps EXCEPT ![Ip[c]] = @ + 1]
  /\ \/ connected' > config.WS_CONNECTION_LIMIT /\ conn' = [conn EXCEPT ![c] = "closing"]
     \/ /\ connected' <= config.WS_CONNECTION_LIMIT /\ clientIps'[Ip[c]] > config.WS_CONNECTION_LIMIT_PER_IP
        /\ conn' = [conn EXCEPT ![c] = "closing"]
     \/ /\ connected' <= config.WS_CONNECTION_LIMIT /\ clientIps'[Ip[c]] <= config.WS_CONNECTION_LIMIT_PER_IP
        /\ conn' = [conn EXCEPT ![c] = "open"]
  /\ UNCHANGED <<config, subVars, pollVars, feedVars>>

\* startInactivityTTLTimer: nothing was sent or received for too long.
InactivityTTL(c) ==
  /\ conn[c] = "open"
  /\ conn' = [conn EXCEPT ![c] = "closing"]
  /\ UNCHANGED <<config, connected, clientIps, subVars, pollVars, feedVars>>

\* The socket ends, by either side or by the network; the close event follows.
SocketEnds(c) ==
  /\ conn[c] \in {"accepted", "open", "closing"}
  /\ conn' = [conn EXCEPT ![c] = IF @ = "accepted" THEN "closed" ELSE "ended"]
  /\ UNCHANGED <<config, connected, clientIps, subVars, pollVars, feedVars>>
----------------------------------------------------------------------------
(* The SubscriptionService with the list of polls                          *)

\* subscribe: the connection may already be subscribed to the tag; the tag may
\* already be polled.
Subscribe(r) ==
  LET c == ask[r].conn
      t == ask[r].tag
      known == config.WS_SAME_SUB_FOR_SAME_EVENT /\ \E s \in SubsOf(c) : ask[s].tag = t
      polled == {p \in polls : ask[p].tag = t}
  IN /\ subs' = IF known THEN subs ELSE subs \cup {r}
     /\ polls' = IF known \/ polled # {} THEN polls ELSE polls \cup {r}
     /\ polling' = (polling \/ ~known)
     /\ joined' = [joined EXCEPT ![r] = IF polled # {} THEN cursor[CHOOSE p \in polled : TRUE] ELSE 0]

\* validateSubscriptionLimit
WithinLimit(c) == count[c] < config.WS_SUBSCRIPTION_LIMIT

\* eth_subscribe: newHeads subscribes at once, logs first validates its filters.
EthSubscribe(r) ==
  LET c == ask[r].conn
  IN /\ req[r] = "none" /\ conn[c] \in {"open", "closing"}
     /\ \/ /\ ~WithinLimit(c)
           /\ req' = [req EXCEPT ![r] = "refused"]
           /\ UNCHANGED <<count, subs, joined, polls, polling>>
        \/ /\ WithinLimit(c) /\ ask[r].tag \in HeadTags
           /\ Subscribe(r)
           /\ count' = [count EXCEPT ![c] = @ + 1]
           /\ req' = [req EXCEPT ![r] = "done"]
        \/ /\ WithinLimit(c) /\ ask[r].tag \in LogTags
           /\ req' = [req EXCEPT ![r] = "validating"]
           /\ UNCHANGED <<count, subs, joined, polls, polling>>
     /\ racing' = IF Validating(c) \cup Uncounted(c) # {} THEN racing \cup {c} ELSE racing
     /\ UNCHANGED <<config, wsVars, late, cursor, first, overlap, feedVars>>

\* The validation ends, whatever became of the connection meanwhile.
FiltersValid(r) ==
  /\ req[r] = "validating"
  /\ Subscribe(r)
  /\ req' = [req EXCEPT ![r] = "subscribed"]
  /\ UNCHANGED <<config, wsVars, count, racing, late, cursor, first, overlap, feedVars>>

\* incrementSubs, after the await of the subscription, which may have been an
\* old one or be gone again.
IncrementSubs(r) ==
  /\ req[r] = "subscribed"
  /\ req' = [req EXCEPT ![r] = "done"]
  /\ count' = [count EXCEPT ![ask[r].conn] = @ + 1]
  /\ UNCHANGED <<config, wsVars, subs, joined, racing, late, pollVars, feedVars>>

FiltersInvalid(r) ==
  /\ req[r] = "validating"
  /\ req' = [req EXCEPT ![r] = "refused"]
  /\ UNCHANGED <<config, wsVars, count, subs, joined, racing, late, pollVars, feedVars>>

\* Mutant: the poll of a tag goes with any of its subscriptions.
RemoveTagAlways(gone) ==
  /\ subs' = subs \ gone
  /\ polls' = {p \in polls : \A r \in gone : ask[r].tag # ask[p].tag}
  /\ polling' = (polling /\ polls' # {})

\* unsubscribe: a tag without subscriptions is no longer polled, and without
\* tags the interval stops.
Remove(gone) ==
  /\ subs' = subs \ gone
  /\ polls' = {p \in polls : \E r \in subs' : ask[r].tag = ask[p].tag}
  /\ polling' = (polling /\ polls' # {})

\* Mutant: the counter is not told how many there were.
EthUnsubscribeTwice(c) ==
  /\ conn[c] \in {"open", "closing"}
  /\ \E gone \in {{r} : r \in SubsOf(c)} \cup {SubsOf(c)} :
       /\ gone # {}
       /\ Remove(gone)
       /\ count' = [count EXCEPT ![c] = @ - Cardinality(gone) - 1]
  /\ UNCHANGED <<config, wsVars, req, joined, racing, late, cursor, first, overlap, feedVars>>

\* eth_unsubscribe of one subscription, or of all when it names none.
EthUnsubscribe(c) ==
  /\ conn[c] \in {"open", "closing"}
  /\ \E gone \in {{r} : r \in SubsOf(c)} \cup {SubsOf(c)} :
       /\ gone # {}
       /\ Remove(gone)
       /\ count' = [count EXCEPT ![c] = @ - Cardinality(gone)]
  /\ UNCHANGED <<config, wsVars, req, joined, racing, late, cursor, first, overlap, feedVars>>

\* Mutant: a closed connection keeps its subscriptions.
CloseKeepsSubscriptions(c) ==
  /\ conn[c] = "ended"
  /\ conn' = [conn EXCEPT ![c] = "closed"]
  /\ Remove({})
  /\ clientIps' = [clientIps EXCEPT ![Ip[c]] = @ - 1]
  /\ connected' = connected - 1
  /\ late' = late \cup Validating(c)
  /\ UNCHANGED <<config, count, req, joined, racing, cursor, first, overlap, feedVars>>

\* handleConnectionClose: unsubscribe from all, then decrementCounters.
HandleConnectionClose(c) ==
  /\ conn[c] = "ended"
  /\ conn' = [conn EXCEPT ![c] = "closed"]
  /\ Remove(SubsOf(c))
  /\ clientIps' = [clientIps EXCEPT ![Ip[c]] = @ - 1]
  /\ connected' = connected - 1
  /\ late' = late \cup Validating(c)
  /\ UNCHANGED <<config, count, req, joined, racing, cursor, first, overlap, feedVars>>
----------------------------------------------------------------------------
(* The PollerService                                                       *)

\* The interval fires and asks for the block number.
Tick ==
  /\ polling /\ ticks < config.ticks
  /\ ticks' = ticks + 1
  /\ waiting' = waiting + 1
  /\ UNCHANGED <<config, wsVars, subVars, pollVars, latest, fetches, sent, head>>

\* The block number comes, perhaps an old one, and every poll asks for its data
\* from where it is; blockNumber may also throw.
BlockNumber ==
  /\ waiting > 0
  /\ waiting' = waiting - 1
  /\ \/ /\ \E b \in {head - 1, head} \ {0} :
             /\ latest' = b
             /\ fetches' = fetches \cup
                  {[poll |-> p, from |-> IF cursor[p] # 0 THEN cursor[p] ELSE b,
                    start |-> head, n |-> ticks - waiting] : p \in polls}
        /\ overlap' = overlap \cup {p \in polls : \E f \in fetches : f.poll = p}
     \/ UNCHANGED <<latest, fetches, overlap>>
  /\ UNCHANGED <<config, wsVars, subVars, polls, cursor, first, polling, ticks, sent, head>>

\* The data of a poll: the logs from the cursor to the latest block as the
\* mirror node sees it, or the latest block itself.
Data(f, to) == IF ask[f.poll].tag \in LogTags THEN f.from .. to ELSE {to}

\* getLogs or getBlockByNumber answers: lastPolled moves on to the latestBlock
\* of now, and all subscribers of the tag are notified of what the cache of
\* results does not know to be sent.
PollAnswered ==
  /\ \E f \in fetches : \E to \in f.start .. head :
       /\ fetches' = fetches \ {f}
       /\ cursor' = [cursor EXCEPT ![f.poll] = latest]
       /\ first' = [first EXCEPT ![f.poll] = IF @ = 0 THEN f.from ELSE @]
       /\ sent' = sent \cup (Subscribers(ask[f.poll].tag) \X Data(f, to))
  /\ UNCHANGED <<config, wsVars, subVars, polls, overlap, polling,
                 waiting, ticks, latest, head>>

\* Mutant: the cursor moves on although there was no answer.
PollSkips ==
  /\ \E f \in fetches :
       /\ fetches' = fetches \ {f}
       /\ cursor' = [cursor EXCEPT ![f.poll] = latest]
  /\ UNCHANGED <<config, wsVars, subVars, polls, first, overlap, polling,
                 waiting, ticks, latest, sent, head>>

\* The request throws: the poll stays where it is.
PollFails ==
  /\ \E f \in fetches : fetches' = fetches \ {f}
  /\ UNCHANGED <<config, wsVars, subVars, pollVars, waiting, ticks, latest, sent, head>>

\* The mirror node imports a block.
NewBlock ==
  /\ head < config.blocks
  /\ head' = head + 1
  /\ UNCHANGED <<config, wsVars, subVars, pollVars, waiting, ticks, latest, fetches, sent>>
----------------------------------------------------------------------------
Connection(c) ==
  \/ Accept(c) \/ Upgrade(c) \/ InactivityTTL(c) \/ SocketEnds(c)
  \/ EthUnsubscribe(c) \/ HandleConnectionClose(c)

Request(r) == EthSubscribe(r) \/ FiltersValid(r) \/ FiltersInvalid(r) \/ IncrementSubs(r)

Poller == Tick \/ BlockNumber \/ PollAnswered \/ PollFails

Next ==
  \/ \E c \in Conns : Connection(c)
  \/ \E r \in Reqs : Request(r)
  \/ Poller \/ NewBlock

Spec == Init /\ [][Next]_vars
----------------------------------------------------------------------------
(* Properties                                                              *)

Fetch == [poll : Reqs, from : Nat, start : Nat, n : Nat]

TypeOK ==
  /\ config \in Configs
  /\ conn \in [Conns -> {"none", "accepted", "open", "closing", "ended", "closed"}]
  /\ connected \in Int /\ clientIps \in [Ips -> Nat]
  /\ count \in [Conns -> Int]
  /\ req \in [Reqs -> {"none", "validating", "refused", "subscribed", "done"}]
  /\ subs \subseteq Reqs /\ polls \subseteq Reqs /\ overlap \subseteq Reqs
  /\ joined \in [Reqs -> Nat] /\ cursor \in [Reqs -> Nat] /\ first \in [Reqs -> Nat]
  /\ polling \in BOOLEAN
  /\ waiting \in 0 .. ticks /\ ticks \in 0 .. config.ticks
  /\ latest \in 0 .. head /\ head \in 1 .. config.blocks
  /\ fetches \subseteq Fetch
  /\ sent \subseteq Reqs \X Nat
  /\ racing \subseteq Conns /\ late \subseteq Reqs

Open == {c \in Conns : conn[c] = "open"}
OpenFrom(i) == {c \in Open : Ip[c] = i}

\* The connections that passed the limits are never more than
\* WS_CONNECTION_LIMIT, nor WS_CONNECTION_LIMIT_PER_IP from one address,
\* although the counters are kept by handlers that run later than the sockets.
ConnectionsWithinLimits ==
  /\ Cardinality(Open) <= config.WS_CONNECTION_LIMIT
  /\ \A i \in Ips : Cardinality(OpenFrom(i)) <= config.WS_CONNECTION_LIMIT_PER_IP

\* Exactly the tags with subscriptions are polled, each by one poll, and the
\* interval is set exactly while there are polls.
PollsServeSubscriptions ==
  /\ {ask[p].tag : p \in polls} = {ask[r].tag : r \in subs}
  /\ \A p, q \in polls : ask[p].tag = ask[q].tag => p = q
  /\ polling <=> polls # {}

\* The subscriptions of a connection are counted: websocket.subscriptions, with
\* what the requests under way will still add, never falls below them (and is
\* equal to them until the close, without WS_SAME_SUB_FOR_SAME_EVENT), so they
\* exceed WS_SUBSCRIPTION_LIMIT only if one subscribe request was checked while
\* another one was waiting for its validation or to be counted.
SubscriptionsAreCounted ==
  \A c \in Conns :
    LET told == count[c] + Cardinality(Uncounted(c))
        held == Cardinality(SubsOf(c))
    IN /\ told >= held
       /\ ~config.WS_SAME_SUB_FOR_SAME_EVENT /\ conn[c] # "closed" => told = held
       /\ held > config.WS_SUBSCRIPTION_LIMIT => c \in racing

\* A closed connection has no subscription, except one whose request was being
\* validated when the connection closed.
ClosedIsUnsubscribed ==
  \A r \in subs : conn[ask[r].conn] = "closed" => r \in late

\* Every log from where a subscriber joined (or the first answer began, if the
\* tag had no answer yet) up to the cursor of its tag was sent to it, whichever
\* requests failed and whoever came and went, unless two requests of the poll
\* were under way at once.
LogsReachSubscribers ==
  \A r \in subs : \A p \in polls :
    ask[r].tag \in LogTags /\ ask[p].tag = ask[r].tag /\ p \notin overlap =>
      \A b \in (IF joined[r] # 0 THEN joined[r] ELSE first[p]) .. (cursor[p] - 1) :
        <<r, b>> \in sent
=============================================================================
