------------------------------- MODULE EthCommon -------------------------------
(***************************************************************************)
(* CommonService: block parameters, block ranges, logs, addresses and gas  *)
(* prices.  A block parameter is [tag, n]: a tag, "none" when it was left  *)
(* out, or the number, or the hash of the block, n.                        *)
(***************************************************************************)
EXTENDS MirrorNode

CONSTANTS
    MaxBlockRange,    \* MAX_BLOCK_RANGE
    BlockRangeLimit,  \* ETH_GET_LOGS_BLOCK_RANGE_LIMIT
    MaxTimeRange,     \* maxTimestampParamRange
    PercentageBuffer, \* GAS_PRICE_PERCENTAGE_BUFFER
    EntityType,       \* of each address: "account", "contract", "token"
    EvmAddress        \* of each address, as the mirror node knows it

ASSUME EthCommonAssumption ==
    {MaxBlockRange, BlockRangeLimit, MaxTimeRange, PercentageBuffer} \subseteq Nat

Tag(t) == [tag |-> t, n |-> 0]

Number(k) == [tag |-> "number", n |-> k]

Hash(k) == [tag |-> "hash", n |-> k]

BlockTagIsLatestOrPending(p) ==
    p.tag \in {"none", "latest", "pending", "safe", "finalized"}

(* COULD_NOT_RETRIEVE_LATEST_BLOCK is out of the model: there is a block.   *)
GetLatestBlockNumber(h) == GetLatestBlock(h)

TranslateBlockTag(p, h) ==
    CASE BlockTagIsLatestOrPending(p) -> GetLatestBlockNumber(h)
      [] p.tag = "earliest"           -> 0
      [] OTHER                        -> p.n

(* The latest block is read first (at h) for a number or a tag, the block   *)
(* itself at g.  A number far beyond the latest block is not asked for.     *)
GetHistoricalBlockResponse(p, h, g) ==
    CASE BlockTagIsLatestOrPending(p) -> GetLatestBlock(h)
      [] p.tag = "earliest"           -> GetBlock(0, g)
      [] p.tag = "hash"               -> GetBlock(p.n, g)
      [] OTHER -> IF p.n > GetLatestBlock(h) + MaxBlockRange
                  THEN NoBlock ELSE GetBlock(p.n, g)

MissingFromBlock(from, to, h) ==
    /\ ~BlockTagIsLatestOrPending(to)
    /\ from.tag = "none"
    /\ to.tag # "number" \/ to.n # GetLatestBlockNumber(h)

(* The answer is "null" when a block of the range does not exist (yet), the *)
(* range of time otherwise.  vs: the views of the three look-ups.           *)
ValidateBlockRangeAndAddTimestampToParams(from, to, single, vs) ==
    LET f == GetHistoricalBlockResponse(from, vs[2], vs[2])
        t == GetHistoricalBlockResponse(to, vs[3], vs[3])
        sameBlock == \/ from = to
                     \/ BlockTagIsLatestOrPending(from) /\ BlockTagIsLatestOrPending(to)
    IN  IF MissingFromBlock(from, to, vs[1])  THEN Err("MISSING_FROM_BLOCK")
        ELSE IF f = NoBlock                   THEN Null
        ELSE IF sameBlock                     THEN Ok(<<Start(f), End(f)>>)
        ELSE IF t = NoBlock                   THEN Null
        ELSE IF End(t) - Start(f) > MaxTimeRange
             THEN Err("TIMESTAMP_RANGE_TOO_LARGE")
        ELSE IF f > t                         THEN Err("INVALID_BLOCK_RANGE")
        ELSE IF ~single /\ t - f > BlockRangeLimit
             THEN Err("RANGE_TOO_LARGE")
        ELSE Ok(<<Start(f), End(t)>>)

(* The check of eth_newFilter, with views of its own. *)
ValidateBlockRange(from, to, vs) ==
    LET f == IF BlockTagIsLatestOrPending(from) THEN GetLatestBlock(vs[2]) ELSE from.n
        t == IF BlockTagIsLatestOrPending(to) THEN GetLatestBlock(vs[3]) ELSE to.n
    IN  IF MissingFromBlock(from, to, vs[1]) THEN "MISSING_FROM_BLOCK"
        ELSE IF f > t THEN "INVALID_BLOCK_RANGE" ELSE "ok"

ValidateBlockHashAndAddTimestampToParams(k, h) ==
    IF GetBlock(k, h) = NoBlock THEN Null ELSE Ok(<<Start(k), End(k)>>)

(* The logs of several addresses are put together address by address and    *)
(* sorted by time alone; one refused query refuses them all.                *)
GetLogsByAddress(as, range, h) ==
    LET answers == [i \in DOMAIN as |-> GetContractResultsLogsByAddress(as[i], range, h)]
        refused == {i \in DOMAIN as : answers[i].st # "ok"}
        rows    == {<<i, log>> : i \in DOMAIN as, log \in AllLogs(h)}
        found   == {r \in rows : r[2] \in answers[r[1]].val}
        precedes(q, r) == \/ LogTime(q[2]) < LogTime(r[2])
                          \/ LogTime(q[2]) = LogTime(r[2]) /\ (q[1] < r[1] \/ (q[1] = r[1] /\ q[2][3] < r[2][3]))
        keyed   == Sorted(found, precedes)
    IN  IF refused # {} THEN answers[CHOOSE i \in refused : TRUE]
        ELSE Ok([i \in DOMAIN keyed |-> keyed[i][2]])

LogPrecedes(log1, log2) ==
    LogTime(log1) < LogTime(log2) \/ (LogTime(log1) = LogTime(log2) /\ log1[3] < log2[3])

(* as: the addresses, <<>> for any. *)
GetLogsWithParams(as, range, h) ==
    IF as # <<>> THEN GetLogsByAddress(as, range, h)
    ELSE LET answer == GetContractResultsLogsWithRetry(
                           range, [k \in 1 .. RetryCount |-> h])
         IN  IF answer.st # "ok" THEN answer ELSE Ok(Sorted(answer.val, LogPrecedes))

(* eth_getLogs.  A range that is not there yet has no logs. *)
GetLogs(from, to, as, vs) ==
    LET range == IF from.tag = "hash"
                 THEN ValidateBlockHashAndAddTimestampToParams(from.n, vs[3])
                 ELSE ValidateBlockRangeAndAddTimestampToParams(from, to, Len(as) = 1, vs)
    IN  CASE range.st = "null" -> Ok(<<>>)
          [] range.st = "ok"   -> GetLogsWithParams(as, range.val, vs[4])
          [] OTHER             -> range

-----------------------------------------------------------------------------
(* Addresses.  The entity of an address is looked for among the contracts   *)
(* first and then among accounts and tokens together; a look-up that fails  *)
(* counts as one that found nothing.  What was found is cached, whatever    *)
(* types it was looked for among (known: the cached addresses).             *)

ResolveEntityType(a, types, known, down) ==
    IF a \in known \/ EntityType[a] \in types \ down THEN EntityType[a] ELSE "null"

ResolveEvmAddress(a, types, known, down) ==
    IF ResolveEntityType(a, types, known, down) \in {"contract", "account"}
    THEN EvmAddress[a] ELSE a

-----------------------------------------------------------------------------
(* Gas prices. *)

(* external: the schedule of fees changes with every block. *)
NetworkFees(t) == t \div Slots + 1

GetGasPriceInWeibars(t, down) ==
    IF "fees" \in down THEN Err("INTERNAL_ERROR") ELSE Ok(NetworkFees(t))

AddPercentageBufferToGasPrice(p) == p + (2 * p * PercentageBuffer + 100) \div 200

GasPrice(h, down) ==
    LET p == GetGasPriceInWeibars(End(GetLatestBlock(h)), down)
    IN  IF p.st # "ok" THEN p ELSE Ok(AddPercentageBufferToGasPrice(p.val))

(* The price that held when the block of a receipt began. *)
GetCurrentGasPriceForBlock(n, down) == GetGasPriceInWeibars(Start(n), down)
=============================================================================
