------------------------------ MODULE MethodCache ------------------------------
(***************************************************************************)
(* A call of a JSON-RPC method through the dispatcher and the cache        *)
(* decorator: validation, look-up, evaluation at the head of the chain     *)
(* then, and storage.  Calls overlap one another and the growth of the     *)
(* chain; queries fail; entries run out or are evicted.  The cache is a    *)
(* LocalLRUCache or, through SafeRedisCache, Redis, where values are       *)
(* written as JSON and commands may fail.                                  *)
(***************************************************************************)
EXTENDS RpcMethods

CONSTANTS
    Callers,        \* calls in flight together
    Calls,          \* the calls clients make: [method, namespace, params]
    MaxHead,        \* bound of the chain
    MaxCalls,       \* bound of the calls made
    Failures,       \* errors a query may fail with
    MaxBlockRange,  \* MAX_BLOCK_RANGE
    FeeHistoryFixed,    \* ETH_FEE_HISTORY_FIXED
    Price,          \* head -> the gas price then
    Received        \* <<address, n>>: the last transaction of the address up to block n was another's, sent to it

ASSUME MethodCacheAssumption == MaxBlockRange \in Nat

VARIABLES
    cacheType,  \* "lru" or "redis"
    head,       \* number of the latest block
    entries,    \* the cache: key -> value, the head it was evaluated at, and whether a query failed then
    calls,      \* caller -> its call
    made        \* number of calls made

cacheVars == <<cacheType, head, entries, calls, made>>

-----------------------------------------------------------------------------
(* What the services answer at head h.  A value is [st, val]; st is "error" for a JsonRpcError that is returned, "thrown"  *)
(* for one that is thrown and "null" for none.  The val of a state is the number of its block.  Some answers quote the      *)
(* current gas price.  What filters, the pool and sent transactions answer is never cached.                                *)

Ok(v) == [st |-> "ok", val |-> v]

Null == [st |-> "null", val |-> <<>>]

Thrown(e) == [st |-> "thrown", val |-> e]

(* 0x *)
EmptyHex == Ok(-1)

(* A block parameter, which an object may hold. *)
Inner(p) == IF p.cls = "object" THEN p.val[CHOOSE f \in DOMAIN p.val : TRUE] ELSE p

NonCachable == {"latest", "pending", "finalized", "safe"}

(* The number a block parameter stands for at head h: a tag (earliest is the one that is not the latest block), a number,  *)
(* or the hash of the block with that number.                                                                               *)
NumberOf(p, h) == IF p.cls = "tag" THEN (IF p.val \in NonCachable THEN h ELSE 0) ELSE p.val

(* eth_getLogs: a missing bound is the latest block, a range beyond the head has no logs, nor has an unknown hash. *)
LogsOf(filter, h) ==
    LET bound(f) == IF f \in DOMAIN filter THEN NumberOf(filter[f], h) ELSE h
        from == bound("fromBlock")
        to == bound("toBlock")
    IN  IF "blockHash" \in DOMAIN filter THEN Ok({n \in {filter.blockHash.val} : n <= h})
        ELSE IF "fromBlock" \notin DOMAIN filter /\ to # h THEN Thrown("MISSING_FROM_BLOCK_PARAM")
        ELSE IF from > h \/ to > h THEN Ok({})
        ELSE IF from > to THEN Thrown("INVALID_BLOCK_RANGE")
        ELSE Ok(from .. to)

BlockParams == {"blockNumber", "blockHash", "blockParams", "transactionHash"}

BlockIndex(m) == CHOOSE i \in DOMAIN Registry[m].rules : Registry[m].rules[i].types \cap BlockParams # {}

(* eth_getBalance and eth_getTransactionCount answer the latest state for a block this close to the head. *)
Tolerance(kind) ==
    CASE kind = "balance" -> 1
      [] kind = "nonce" -> MaxBlockRange
      [] OTHER -> 0

(* The block of an unknown hash is null, and its number is read.  The nonce of an old block is the latest one when the    *)
(* last transaction before it was not sent by the address.                                                                 *)
AccountValue(kind, args, n, h) ==
    LET p == args[2]
    IN  IF p.cls = "hex32" /\ n > h THEN Thrown("Error")
        ELSE IF p.cls = "tag" /\ p.val = "earliest" THEN Ok(0)
        ELSE IF kind = "nonce" /\ p.cls = "quantity" /\ n \in {0, 1} THEN Ok(0)
        ELSE IF h - n <= Tolerance(kind) \/ (kind = "nonce" /\ <<args[1].val, n>> \in Received) THEN Ok(h)
        ELSE Ok(n)

StorageValue(n, h) == IF n > h THEN Thrown("RESOURCE_NOT_FOUND") ELSE Ok(n)

(* A hash is not a block that getCode takes. *)
CodeValue(p, n, h) ==
    IF p.cls = "hex32" THEN Thrown("UNKNOWN_BLOCK")
    ELSE IF n > h THEN EmptyHex ELSE Ok(n)

(* extractBlockNumberOrTag: an object without block, and an unknown hash; the number of a block that is not there answers *)
(* 0x.                                                                                                                     *)
CallValue(p, n, h) ==
    IF p.cls = "object" /\ DOMAIN p.val = {} THEN Thrown("INVALID_ARGUMENTS")
    ELSE IF p.cls = "object" /\ "blockHash" \in DOMAIN p.val THEN StorageValue(n, h)
    ELSE IF n > h THEN EmptyHex ELSE Ok(n)

(* The error is returned, not thrown.  The fees are the current price, or those of the blocks up to n and of the one after *)
(* it, which is taken for that of n while n is the latest block.                                                           *)
HistoryValue(count, n, h, price) ==
    IF n > h THEN [st |-> "error", val |-> "REQUEST_BEYOND_HEAD_BLOCK"]
    ELSE IF count = 0 THEN Ok("none")
    ELSE IF FeeHistoryFixed THEN Ok(<<n, price>>)
    ELSE Ok(<<n, Price[IF h > n THEN n + 1 ELSE n]>>)

(* What the method of the registry answers at head h, when the gas price is the given one. *)
Value(m, args, h, price) ==
    LET kind == Registry[m].kind
        p == args[BlockIndex(m)]
        n == NumberOf(Inner(p), h)
    IN  CASE kind \in {"constant", "filter", "send", "pool"} -> Ok(0)
          [] kind = "unsupported" -> [st |-> "error", val |-> "UNSUPPORTED_METHOD"]
          [] kind = "head" -> Ok(h)
          [] kind = "block" -> IF n > h THEN Null ELSE Ok(<<n, args, price>>)
          [] kind \in {"entry", "count"} -> IF n > h THEN Null ELSE Ok(<<n, args>>)
          [] kind \in {"balance", "nonce"} -> AccountValue(kind, args, n, h)
          [] kind \in {"storage", "trace"} -> StorageValue(n, h)
          [] kind = "code" -> CodeValue(p, n, h)
          [] kind = "call" -> CallValue(p, n, h)
          [] kind = "history" -> HistoryValue(args[1].val, n, h, price)
          [] kind = "logs" -> LogsOf(args[1].val, h)

(* Services that go on without what a query did not answer: feeHistory has an empty history or fees of 0, addresses are    *)
(* not resolved, code is not found, accounts are missing from a trace (resolveEntityType, prestateTracer).                 *)
Lenient == {"history", "block", "entry", "code", "trace"}

(* Errors of the mirror node that eth_call takes for an empty result. *)
TakenForEmpty == {"FAIL_INVALID", "INVALID_TRANSACTION"}

(* What a method answers when a query of it fails with e: most throw, and eth_call returns an error that is not one of the *)
(* mirror node.                                                                                                            *)
Failed(m, e) ==
    LET kind == Registry[m].kind
        thrown == Thrown(IF e \in TakenForEmpty THEN "MirrorNodeClientError" ELSE e)
    IN  IF kind = "call" /\ e \in TakenForEmpty THEN {EmptyHex}
        ELSE IF kind = "call" /\ e = "Error" THEN {[st |-> "error", val |-> "INTERNAL_ERROR"]}
        ELSE IF kind = "history" THEN {Ok("degraded")}
        ELSE IF kind \in Lenient THEN {thrown, Ok("degraded")} ELSE {thrown}

-----------------------------------------------------------------------------
(* The decorator. *)

IsNonCachable(p) == p.cls = "tag" /\ p.val \in NonCachable

(* The parameter is missing or names the latest state. *)
ShouldSkipCachingForSingleParams(args, cache) ==
    cache.skip # 0 /\ (ParamAt(args, cache.skip) = Undefined \/ IsNonCachable(args[cache.skip]))

(* Only fields that are there are looked at. *)
ShouldSkipCachingForNamedParams(args, cache) ==
    \E f \in cache.named : f \in DOMAIN args[1].val /\ IsNonCachable(args[1].val[f])

KeyWithoutFlags(m, args) == <<m, [i \in DOMAIN args |-> IF args[i].cls = "boolean" THEN Undefined ELSE args[i]]>>

GenerateCacheKey(m, args) == <<m, args>>

MayStore(m, args, value) ==
    /\ value.st \notin {"null", "thrown"}
    /\ ~ShouldSkipCachingForSingleParams(args, Registry[m].cache)
    /\ ~ShouldSkipCachingForNamedParams(args, Registry[m].cache)

ParsedAlways(value) == IF value.st = "error" THEN [st |-> "object", val |-> value.val] ELSE value

(* Through Redis a returned JsonRpcError comes back as a plain object. *)
Parsed(value) == IF cacheType = "redis" /\ value.st = "error" THEN [st |-> "object", val |-> value.val] ELSE value

-----------------------------------------------------------------------------
NoCall ==
    [pc |-> "idle", method |-> "none", args |-> <<>>, began |-> 0, at |-> 0, value |-> Null, failed |-> FALSE, cached |-> FALSE]

CacheInit ==
    /\ cacheType \in {"lru", "redis"}
    /\ head = 0
    /\ entries = <<>>
    /\ calls = [c \in Callers |-> NoCall]
    /\ made = 0

(* The outcome of processRpcMethod: what is returned or thrown as an error is answered as one. *)
Done(call, value, at, failed, cached) ==
    [call EXCEPT !.pc = "done", !.value = IF value.st = "thrown" THEN [st |-> "error", val |-> HandleRpcMethodError(value.val)]
                                          ELSE value, !.at = at, !.failed = failed, !.cached = cached]

(* precheckRpcMethod: the error of a call that is refused before anything is read. *)
Refusal(q) ==
    IF q.method \notin DOMAIN Registry THEN Unregistered(q.namespace)
    ELSE IF Registry[q.method].validated /\ ~ValidateParams(q.params, Registry[q.method].rules) THEN "INVALID_PARAMETER"
    ELSE "none"

(* Calls are alike: one that begins takes the first free place. *)
Free(c) == c = CHOOSE d \in Callers : calls[d].pc = "idle"

Dispatch(c, q) ==
    /\ calls[c].pc = "idle" /\ Free(c)
    /\ made < MaxCalls
    /\ Refusal(q) = "none"
    /\ made' = made + 1
    /\ calls' = [calls EXCEPT ![c] =
            [NoCall EXCEPT !.method = q.method, !.began = head, !.args = ArrangeRpcParams(Registry[q.method], q.params),
                         !.pc = IF Registry[q.method].cache.cached THEN "lookup" ELSE "evaluate"]]
    /\ UNCHANGED <<cacheType, head, entries>>

Refuse(c, q) ==
    /\ calls[c].pc = "idle" /\ Free(c)
    /\ made < MaxCalls
    /\ Refusal(q) # "none"
    /\ made' = made + 1
    /\ calls' = [calls EXCEPT ![c] = Done([NoCall EXCEPT !.method = q.method], [st |-> "error", val |-> Refusal(q)], head, FALSE, FALSE)]
    /\ UNCHANGED <<cacheType, head, entries>>

Return(c) ==
    /\ calls[c].pc = "done"
    /\ calls' = [calls EXCEPT ![c] = NoCall]
    /\ UNCHANGED <<cacheType, head, entries, made>>

(* cacheService.getAsync.  An entry that has run out (CACHE_TTL) or was evicted (CACHE_MAX) is gone when it is looked for; *)
(* a failed read of Redis is a miss.                                                                                       *)
LookUp(c) ==
    /\ calls[c].pc = "lookup"
    /\ LET key == GenerateCacheKey(calls[c].method, calls[c].args)
       IN  \/ /\ key \in DOMAIN entries
              /\ calls' = [calls EXCEPT ![c] = Done(@, Parsed(entries[key].value), entries[key].at, entries[key].failed, TRUE)]
              /\ UNCHANGED entries
           \/ /\ entries' = Restrict(entries, DOMAIN entries \ {key})
              /\ calls' = [calls EXCEPT ![c].pc = "evaluate"]
           \/ /\ cacheType = "redis"
              /\ calls' = [calls EXCEPT ![c].pc = "evaluate"]
              /\ UNCHANGED entries
    /\ UNCHANGED <<cacheType, head, made>>

(* The method returned the value, or threw it. *)
Evaluated(c, value, failed) ==
    /\ calls' = [calls EXCEPT ![c] =
            IF Registry[@.method].cache.cached /\ MayStore(@.method, @.args, value)
            THEN [@ EXCEPT !.pc = "store", !.value = value, !.at = head, !.failed = failed]
            ELSE Done(@, value, head, failed, FALSE)]
    /\ UNCHANGED <<cacheType, head, entries, made>>

Evaluate(c) ==
    /\ calls[c].pc = "evaluate"
    /\ Evaluated(c, Value(calls[c].method, calls[c].args, head, Price[head]), FALSE)

Fail(c, e) ==
    /\ calls[c].pc = "evaluate"
    /\ \E value \in Failed(calls[c].method, e) : Evaluated(c, value, TRUE)

(* The cache with an entry. *)
Put(key, entry) == [k \in DOMAIN entries \cup {key} |-> IF k = key THEN entry ELSE entries[k]]

(* cacheService.set; a failed write to Redis is ignored. *)
Store(c) ==
    /\ calls[c].pc = "store"
    /\ LET key == GenerateCacheKey(calls[c].method, calls[c].args)
       IN  \/ entries' = Put(key, [value |-> calls[c].value, at |-> calls[c].at, failed |-> calls[c].failed])
           \/ cacheType = "redis" /\ entries' = entries
    /\ calls' = [calls EXCEPT ![c] = Done(@, @.value, @.at, @.failed, FALSE)]
    /\ UNCHANGED <<cacheType, head, made>>

NewBlock ==
    /\ head < MaxHead
    /\ head' = head + 1
    /\ UNCHANGED <<cacheType, entries, calls, made>>

CacheNext ==
    \/ \E c \in Callers : LookUp(c) \/ Evaluate(c) \/ Store(c) \/ Return(c)
    \/ \E c \in Callers, q \in Calls : Dispatch(c, q) \/ Refuse(c, q)
    \/ \E c \in Callers, e \in Failures : Fail(c, e)
    \/ NewBlock

CacheSpec == CacheInit /\ [][CacheNext]_cacheVars

-----------------------------------------------------------------------------
Answered(c) == calls[c].pc = "done" /\ calls[c].method \in DOMAIN Registry /\ calls[c].value.st \in {"ok", "object"}

(* A fresh evaluation at some moment of the call answers the same, but for the gas price that an answer of the cache quotes. *)
Current(call) ==
    \E h \in call.began .. head :
        LET fresh == Value(call.method, call.args, h, Price[IF call.cached THEN call.at ELSE h])
        IN  call.value.st = "ok" /\ fresh.st = "ok" /\ fresh.val = call.value.val

(* The answer is about a block, or a range of blocks, that was there when it was evaluated, and not about the latest state *)
(* then, which a balance or a nonce may be and which the last fee of a history is before the next block.                    *)
Final(call) ==
    LET kind == Registry[call.method].kind
        args == call.args
        filter == args[1].val
        p == Inner(args[BlockIndex(call.method)])
        n == NumberOf(p, call.at)
    IN  CASE kind = "logs" /\ "blockHash" \in DOMAIN filter -> filter.blockHash.val \in 0 .. call.at
          [] kind = "logs" /\ "blockHash" \notin DOMAIN filter ->
                \A f \in {"fromBlock", "toBlock"} : f \in DOMAIN filter /\ NumberOf(filter[f], call.at) \in 0 .. call.at
          [] OTHER -> /\ p.cls # "tag" /\ n \in 0 .. call.at
                      /\ kind \in {"balance", "nonce"} => call.at - n > Tolerance(kind)
                      /\ kind = "nonce" => <<args[1].val, n>> \notin Received
                      /\ kind = "history" => FeeHistoryFixed \/ call.at > n

(* An answer for which no query failed is the one the services would have given at some moment of the call, whatever was   *)
(* cached before and by whom, except for the gas price that a cached block or history quotes, and except when it was       *)
(* evaluated before the blocks it is about were final: at a block that did not exist then, a balance or a nonce within the *)
(* tolerance of the head, a nonce that fell back to the latest, the fees up to the latest block, logs of a range that left *)
(* out a bound or went beyond the head, logs of an unknown hash, and a tag within an object, which the decorator does not  *)
(* see (cache.decorator.ts, the cache options of eth.ts and debug.ts).                                                     *)
AnswersAreCurrent ==
    \A c \in Callers :
        Answered(c) => calls[c].failed \/ Current(calls[c]) \/ (calls[c].cached /\ ~Final(calls[c]))

(* An error is answered as an error, except one that the method returned instead of throwing it and that was stored in     *)
(* Redis, whose next readers get it as a result (FeeService.feeHistory, ContractService.call, RedisCache.get), except      *)
(* where a service goes on without what a query did not answer, and except two errors of the mirror node for which         *)
(* eth_call answers 0x (handleMirrorNodeClientError).                                                                       *)
ErrorsStayErrors ==
    \A c \in Callers :
        LET call == calls[c]
            kind == Registry[call.method].kind
        IN  Answered(c) /\ (call.failed \/ Value(call.method, call.args, call.at, Price[call.at]).st # "ok") =>
                \/ cacheType = "redis" /\ call.cached /\ kind \in {"history", "call"}
                \/ call.failed /\ kind \in Lenient
                \/ call.failed /\ kind = "call" /\ call.value = EmptyHex
================================================================================
