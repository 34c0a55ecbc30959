-------------------------------- MODULE Server --------------------------------
(***************************************************************************)
(* The HTTP front of the relay: the middlewares of server.ts, single and   *)
(* batch requests of koaJsonRpc, and the limit on requests of an address,  *)
(* kept in memory (LruRateLimitStore) or in Redis (RedisRateLimitStore).   *)
(* The items of a batch are screened in order, checked against the limit   *)
(* in order, and executed side by side.  In memory all checks of a request *)
(* run before anything else does; in Redis each one is a command.          *)
(***************************************************************************)
EXTENDS Integers, Sequences, FiniteSets, Functions

CONSTANTS
    Slots,              \* requests in flight together
    Incoming,           \* the requests clients send
    Outcomes,           \* codes executeRpcMethod may end with, see Execute
    Addresses,
    Tiers,              \* tier -> its limit; "default" is DEFAULT_RATE_LIMIT
    Duration,           \* LIMIT_DURATION
    MaxTime,            \* bound of the clock
    MaxRequests,        \* bound of the requests that reach the methods
    RateLimitDisabled, RequestIdIsOptional, BatchEnabled, BatchMax, Disallowed, AdminDisabled,
    ValidStatus,        \* ON_VALID_JSON_RPC_HTTP_RESPONSE_STATUS_CODE
    Inherited           \* names every JavaScript object has a member of, such as "toString"

Items == UNION {Range(q.items) : q \in Incoming}

Methods == {i.method : i \in Items}

ASSUME ServerAssumption ==
    /\ Duration \in Nat \ {0} /\ MaxTime \in Nat /\ MaxRequests \in Nat
    /\ {"tier1", "tier2", "tier3", "default"} \subseteq DOMAIN Tiers
    /\ \A t \in DOMAIN Tiers : Tiers[t] \in Nat \ {0}
    /\ \A code \in Outcomes : code \in Int /\ (code \in {0, 3} \/ code < 0)
    /\ \A q \in Incoming :
            /\ q.items \in Seq(Items) /\ (q.body # "batch" => Len(q.items) <= 1)
            /\ q.peer \in Addresses /\ {q.xff, q.forwarded.ip} \subseteq Addresses \cup {"none"}

VARIABLES
    store,      \* the rate limit store: "lru" or "redis"
    now,
    database,   \* LruRateLimitStore: address -> its window and what remains of it
    members,    \* what it wrote as remaining on the members of the names in Inherited, which all addresses share
    counters,   \* Redis: <<address, method>> -> count and expiry
    http,       \* slot -> its request, the answers of its items and its response
    received,   \* number of requests that reached the methods
    admitted,   \* requests let through: whose, when, whether the store counted them, and their number among those alike
    refused     \* refusals, with the admissions of the last Duration

vars == <<store, now, database, members, counters, http, received, admitted, refused>>

-----------------------------------------------------------------------------
(* The limits of the methods. *)

Tier1 ==
    {"eth_call", "eth_hashrate", "eth_maxPriorityFeePerGas", "eth_mining", "eth_sendRawTransaction", "eth_sendTransaction",
     "eth_sign", "eth_signTransaction", "eth_submitHashrate", "eth_submitWork", "eth_syncing", "debug_traceTransaction",
     "debug_traceBlockByNumber", "batch_request"}

Tier3 == {"web3_clientVersion", "web3_sha3", "net_listening", "net_version", "net_peerCount", "ADMIN_CONFIG"}

Tier2 ==
    {"eth_blockNumber", "eth_coinbase", "eth_simulateV1", "eth_blobBaseFee", "eth_estimateGas", "eth_gasPrice",
     "eth_getBalance", "eth_getBlockByHash", "eth_getBlockByNumber", "eth_getBlockReceipts",
     "eth_getBlockTransactionCountByHash", "eth_getBlockTransactionCountByNumber", "eth_getCode", "eth_chainId",
     "eth_getFilterChanges", "eth_getLogs", "eth_getStorageAt", "eth_getTransactionByBlockHashAndIndex",
     "eth_getTransactionByBlockNumberAndIndex", "eth_getTransactionByHash", "eth_getTransactionCount",
     "eth_getTransactionReceipt", "eth_getUncleByBlockHashAndIndex", "eth_getUncleByBlockNumberAndIndex",
     "eth_getUncleCountByBlockHash", "eth_getUncleCountByBlockNumber", "eth_getWork", "eth_feeHistory",
     "eth_protocolVersion", "eth_accounts", "eth_newBlockFilter", "eth_newPendingTransactionFilter", "eth_newFilter",
     "eth_uninstallFilter", "eth_getFilterLogs", "eth_getProof", "eth_createAccessList"}

TotalLimit(method) ==
    Tiers[CASE method \in Tier1 -> "tier1" [] method \in Tier2 -> "tier2" [] method \in Tier3 -> "tier3" [] OTHER -> "default"]

-----------------------------------------------------------------------------
(* The stores.  Each returns the store's next state and whether the request is refused. *)

NoEntry == [reset |-> -1, remaining |-> <<>>]

With(f, x, v) == [y \in DOMAIN f \cup {x} |-> IF y = x THEN v ELSE f[y]]

PrecheckRenews(entry, method) ==
    LET known == IF entry = NoEntry THEN [reset |-> now + Duration, remaining |-> <<>>] ELSE entry
    IN  [known EXCEPT !.remaining = With(@, method, TotalLimit(method))]

(* methodInfo is a plain object, in which a name of Inherited is found although no entry was made for it. *)
Precheck(entry, method) ==
    LET known == IF entry = NoEntry THEN [reset |-> now + Duration, remaining |-> <<>>] ELSE entry
    IN  IF method \in DOMAIN known.remaining \cup Inherited THEN known
        ELSE [known EXCEPT !.remaining = With(@, method, TotalLimit(method))]

NeverResets(entry) == FALSE

ShouldReset(entry) == entry.reset < now

LruIncrementAndCheck(ip, method) ==
    LET entry == Precheck(database[ip], method)
        reset == [reset |-> now + Duration, remaining |-> [x \in DOMAIN entry.remaining |-> TotalLimit(x)]]
        used == IF ShouldReset(entry) THEN reset ELSE entry
        left == IF method \notin Inherited THEN used.remaining[method]
                ELSE IF ShouldReset(entry) THEN TotalLimit(method) ELSE members[method]
        spent == IF left = 0 THEN 0 ELSE left - 1
    IN  [entry |-> IF method \in Inherited THEN used ELSE [used EXCEPT !.remaining[method] = spent],
         members |-> IF method \in Inherited THEN [members EXCEPT ![method] = spent] ELSE members,
         limited |-> left = 0]

NoCount == [count |-> 0, expires |-> 0]

(* Each window is counted from its first request: EXPIRE is set when INCR made the key. *)
RedisScript(ip, method) ==
    LET live == IF counters[<<ip, method>>].expires > now THEN counters[<<ip, method>>] ELSE NoCount
        next == [count |-> live.count + 1, expires |-> IF live.count = 0 THEN now + Duration ELSE live.expires]
    IN  [counter |-> next, limited |-> next.count > TotalLimit(method)]

-----------------------------------------------------------------------------
(* Responses: code 0 is a result.  An id that is neither a string, a number nor null cannot be answered: both makers of  *)
(* responses throw, and so does the handler that turns what they throw into a response.                                  *)

ToCheck == [id |-> "none", code |-> 1]

Running == [id |-> "none", code |-> 2]

Rejected == [id |-> "none", code |-> 4]

Pending == {ToCheck, Running}

JsonResp(id, code) == IF id = "object" THEN Rejected ELSE [id |-> id, code |-> code]

HasValidJsonRpcId(item) == item.id # "absent" \/ (item.object /\ RequestIdIsOptional)

IdOf(item) == IF item.id = "absent" THEN "0" ELSE item.id

Screen(item, batch) ==
    IF ~HasValidJsonRpcId(item) THEN JsonResp("null", -32600)
    ELSE IF ~item.valid THEN JsonResp(IdOf(item), -32600)
    ELSE IF batch /\ item.method \in Disallowed THEN JsonResp(IdOf(item), -32007)
    ELSE ToCheck

(* translateRpcErrorToHttpStatus: code -32020 carries the status of the mirror node. *)
HttpStatus(code) ==
    CASE code \in {0, 3} -> 200
      [] code = -32603 -> 500
      [] code \in {-32605, -32020429} -> 429
      [] code = -32020501 -> 501
      [] code = -32020500 -> 500
      [] OTHER -> 400

(* The ids 0 and '', which are taken for none. *)
FalsyIds == {"zero", "empty"}

NullId(answer) == IF answer.id \in FalsyIds THEN [answer EXCEPT !.id = "null"] ELSE answer

(* ensureEthereumJsonRpcCompliance: a response other than 200 has an id or null, and only one to a request that is not    *)
(* valid JSON-RPC keeps status 400.                                                                                        *)
Compliant(status, body) ==
    [status |-> IF status = 400 /\ body[1].code \notin {-32600, -32700} THEN ValidStatus ELSE status,
     body |-> IF status = 200 THEN body ELSE [i \in DOMAIN body |-> NullId(body[i])]]

-----------------------------------------------------------------------------
(* The middlewares. *)

(* parseForwardedHeader: the first entry of the header, quoted, in brackets or plain. *)
ParseForwardedHeader(h) ==
    IF h.tooLong \/ h.form = "none" \/ (h.form \in {"quoted", "bracketed"} /\ ~h.closed) THEN "none" ELSE h.ip

(* The address of the client: X-Forwarded-For, set from Forwarded when absent, else the peer. *)
ClientIp(q) ==
    LET forwarded == IF q.xff = "none" THEN ParseForwardedHeader(q.forwarded) ELSE q.xff
    IN  IF forwarded = "none" THEN q.peer ELSE forwarded

(* The status of a request that does not reach the JSON-RPC application; 0 for one that does.  A disabled /config leaves  *)
(* the response without a body, which is status 404.                                                                       *)
Routed(q, healthy) ==
    CASE q.url = "/health/liveness" -> IF healthy THEN 200 ELSE 503
      [] q.url = "/health/readiness" -> IF healthy THEN 200 ELSE 503
      [] q.url = "/config" /\ AdminDisabled -> 404
      [] q.url \in {"/metrics", "/config", "/openrpc"} -> 200
      [] q.method = "OPTIONS" -> 200
      [] q.method # "POST" -> 405
      [] OTHER -> 0

(* The response of a body that is refused as a whole; <<>> when its items are handled. *)
RefusedBody(q) ==
    IF q.body = "unparsable" THEN <<JsonResp("null", -32700)>>
    ELSE IF q.body = "batch" /\ ~BatchEnabled THEN <<JsonResp("null", -32202)>>
    ELSE IF q.body = "batch" /\ Len(q.items) > BatchMax THEN [i \in DOMAIN q.items |-> JsonResp("null", -32203)]
    ELSE <<>>

-----------------------------------------------------------------------------
NoRequest == [url |-> "none", items |-> <<>>]

Idle == [pc |-> "idle", ip |-> "none", query |-> NoRequest, answers |-> <<>>, executed |-> {}]

Init ==
    /\ store \in {"lru", "redis"}
    /\ now = 0
    /\ database = [a \in Addresses |-> NoEntry]
    /\ members = [x \in Inherited |-> 0]
    /\ counters = [k \in Addresses \X Methods |-> NoCount]
    /\ http = [r \in Slots |-> Idle]
    /\ received = 0
    /\ admitted = {}
    /\ refused = {}

Settled(r) == \A i \in DOMAIN http[r].answers : http[r].answers[i] \notin Pending

(* Checks in memory run to the end of the request before other code does. *)
ThreadFree == store = "lru" => \A r \in Slots : ToCheck \notin Range(http[r].answers)

(* A response that does not depend on the items of the request: from a middleware, or for a body refused as a whole. *)
WholeResponse(q, healthy) ==
    LET status == Routed(q, healthy)
        whole == RefusedBody(q)
    IN  IF status # 0 \/ whole = <<>> THEN [status |-> status, body |-> <<>>]
        ELSE IF q.body = "batch" /\ BatchEnabled THEN [status |-> 200, body |-> whole]
        ELSE Compliant(400, whole)

Receive(r, q) ==
    /\ ThreadFree
    /\ http[r].pc = "idle" \/ (http[r].pc = "replied" /\ Settled(r))
    /\ received < MaxRequests
    /\ \E healthy \in IF store = "redis" THEN BOOLEAN ELSE {TRUE} :
        LET answered == WholeResponse(q, healthy).status # 0
        IN  /\ received' = IF answered THEN received ELSE received + 1
            /\ http' = [http EXCEPT ![r] =
                    IF answered THEN Idle
                    ELSE [pc |-> "open", ip |-> ClientIp(q), query |-> q, executed |-> {},
                          answers |-> [i \in DOMAIN q.items |-> Screen(q.items[i], q.body = "batch")]]]
    /\ UNCHANGED <<store, now, database, members, counters, admitted, refused>>

Admissions(ip, method, kinds) == {a \in admitted : a.ip = ip /\ a.method = method /\ a.kind \in kinds}

(* Requests of an address let through in the last Duration. *)
Recent(ip, method, kinds) == Cardinality({a \in Admissions(ip, method, kinds) : a.time + Duration >= now})

Admission(ip, method, kind) ==
    [ip |-> ip, method |-> method, kind |-> kind, time |-> now,
     n |-> Cardinality({a \in Admissions(ip, method, {kind}) : a.time = now}) + 1]

Decide(r, i, limited, kind) ==
    LET ip == http[r].ip
        item == http[r].query.items[i]
    IN  /\ http' = [http EXCEPT ![r].answers[i] = IF limited THEN JsonResp(IdOf(item), -32605) ELSE Running]
        /\ admitted' = IF limited THEN admitted ELSE admitted \cup {Admission(ip, item.method, kind)}
        /\ refused' = IF limited
                      THEN refused \cup {[method |-> item.method, recent |-> Recent(ip, item.method, {"counted", "open"})]}
                      ELSE refused

(* shouldRateLimit on the next item.  A command that fails lets the request through, whether or not Redis ran it. *)
CheckLimit(r) ==
    \E i \in DOMAIN http[r].answers :
        LET ip == http[r].ip
            method == http[r].query.items[i].method
            lru == LruIncrementAndCheck(ip, method)
            redis == RedisScript(ip, method)
        IN  /\ http[r].answers[i] = ToCheck /\ \A k \in DOMAIN http[r].answers : k < i => http[r].answers[k] # ToCheck
            /\ \/ /\ ~RateLimitDisabled /\ store = "lru"
                  /\ database' = [database EXCEPT ![ip] = lru.entry] /\ members' = lru.members
                  /\ Decide(r, i, lru.limited, "counted")
                  /\ UNCHANGED counters
               \/ /\ ~RateLimitDisabled /\ store = "redis"
                  /\ counters' = [counters EXCEPT ![<<ip, method>>] = redis.counter]
                  /\ \/ Decide(r, i, redis.limited, "counted")
                     \/ Decide(r, i, FALSE, "open")
                  /\ UNCHANGED <<database, members>>
               \/ /\ RateLimitDisabled \/ store = "redis"
                  /\ Decide(r, i, FALSE, "open")
                  /\ UNCHANGED <<database, members, counters>>
            /\ UNCHANGED <<store, now, received>>

(* relay.executeRpcMethod ends.  A method without a result is an internal error of the server. *)
Execute(r, i, code) ==
    /\ ThreadFree
    /\ http[r].answers[i] = Running
    /\ LET open == [http[r] EXCEPT !.answers[i] = JsonResp(IdOf(http[r].query.items[i]), code), !.executed = @ \cup {i}]
       IN  http' = [http EXCEPT ![r] = IF open.pc = "replied" /\ Pending \cap Range(open.answers) = {} THEN Idle ELSE open]
    /\ UNCHANGED <<store, now, database, members, counters, received, admitted, refused>>

AnyRejected(r) == Rejected \in Range(http[r].answers)

RepliesToTheFirst(r) == http[r].answers[1] \notin Pending

(* Promise.all waits for every item, and for none once one is rejected. *)
CanReply(r) == Settled(r) \/ AnyRejected(r)

(* Koa answers what was thrown, by a single request or by a batch, with status 500 and no JSON-RPC body. *)
Response(r) ==
    LET answers == http[r].answers
    IN  IF AnyRejected(r) THEN [status |-> 500, body |-> <<>>]
        ELSE IF http[r].query.body = "batch" THEN [status |-> 200, body |-> answers]
        ELSE Compliant(HttpStatus(answers[1].code), answers)

(* The response is sent; items still running after a rejection end later, without one. *)
Reply(r) ==
    /\ ThreadFree
    /\ http[r].pc = "open"
    /\ CanReply(r)
    /\ http' = [http EXCEPT ![r] = IF Settled(r) THEN Idle ELSE [@ EXCEPT !.pc = "replied"]]
    /\ UNCHANGED <<store, now, database, members, counters, received, admitted, refused>>

Tick ==
    /\ now < MaxTime
    /\ now' = now + 1
    /\ UNCHANGED <<store, database, members, counters, http, received, admitted, refused>>

Next ==
    \/ \E r \in Slots, q \in Incoming : Receive(r, q)
    \/ \E r \in Slots : CheckLimit(r) \/ Reply(r)
    \/ \E r \in Slots : \E i \in DOMAIN http[r].answers, code \in Outcomes : Execute(r, i, code)
    \/ Tick

Spec == Init /\ [][Next]_vars

-----------------------------------------------------------------------------
Answers == [id : {"none", "null", "0"} \cup {i.id : i \in Items}, code : Int]

TypeOK ==
    /\ store \in {"lru", "redis"} /\ now \in 0 .. MaxTime /\ received \in 0 .. MaxRequests
    /\ DOMAIN database = Addresses
    /\ \A a \in Addresses : \E M \in SUBSET Methods : database[a] \in [reset : Int, remaining : [M -> Nat]]
    /\ members \in [Inherited -> Nat]
    /\ counters \in [Addresses \X Methods -> [count : Nat, expires : Nat]]
    /\ http \in [Slots -> [pc : {"idle", "open", "replied"}, ip : Addresses \cup {"none"}, query : Incoming \cup {NoRequest},
                           answers : Seq(Answers), executed : SUBSET Nat]]
    /\ admitted \subseteq [ip : Addresses, method : Methods, kind : {"counted", "open"}, time : 0 .. now, n : Nat]
    /\ refused \subseteq [method : Methods, recent : Nat]

(* In memory the names of Inherited have one allowance for all addresses, that none has before a first window ended and    *)
(* that every address renews with its own: no limit is kept for them.                                                       *)
Overlooked(method) == store = "lru" /\ method \in Inherited

(* What an address and a method are let through within any Duration is at most two windows of the limit: a window can end  *)
(* and the next one begin in it, and only commands that failed add to it (rateLimiterService, both stores).                *)
AdmittedWithinLimits ==
    \A a \in admitted : Overlooked(a.method) \/ Recent(a.ip, a.method, {"counted"}) <= 2 * TotalLimit(a.method)

(* A request is refused only when its address was let through at least the limit of its method in the last Duration, or    *)
(* its method has the name of a member of every object: in memory requests of other methods open the window, in Redis      *)
(* refused requests count too, and neither may refuse more (LruRateLimitStore.incrementAndCheck, LUA_SCRIPT).               *)
RefusedHasCause ==
    \A r \in refused : Overlooked(r.method) \/ r.recent >= TotalLimit(r.method)

(* Every item of a request is answered, in its place and with its id, and no item is executed whose answer is dropped -    *)
(* except that one id that cannot be answered takes the answers of the whole batch, and that the ids 0 and '' of a single  *)
(* request are null in a response other than 200 (koaJsonRpc handleBatchRequest, getRequestResult,                          *)
(* ensureEthereumJsonRpcCompliance).                                                                                        *)
RepliesAreComplete ==
    \A r \in Slots :
        http[r].pc = "open" /\ ThreadFree /\ CanReply(r) =>
            LET items == http[r].query.items
                response == Response(r)
                single == http[r].query.body # "batch"
                answerable(i) == /\ HasValidJsonRpcId(items[i])
                                 /\ ~(single /\ HttpStatus(http[r].answers[1].code) # 200 /\ IdOf(items[i]) \in FalsyIds)
            IN  \/ /\ \E i \in DOMAIN items : items[i].id = "object"
                   /\ response.status = 500 /\ response.body = <<>>
                \/ /\ DOMAIN response.body = DOMAIN items
                   /\ \A i \in DOMAIN items :
                        /\ response.body[i].id = (IF answerable(i) THEN IdOf(items[i]) ELSE "null")
                        /\ i \in http[r].executed => response.body[i].code \in Outcomes
                        /\ response.body[i].code = 0 => i \in http[r].executed
                   /\ response.status # 200 => single /\ \A i \in DOMAIN items : response.body[i].code # 0
================================================================================
