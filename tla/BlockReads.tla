------------------------------- MODULE BlockReads -------------------------------
(***************************************************************************)
(* Blocks, transactions and receipts: blockWorker, BlockService, the read  *)
(* side of TransactionService and the factories of transactions and        *)
(* receipts; FeeService.  The hash of a transaction is its place in the    *)
(* chain.  known and down: the cached addresses and the endpoints that     *)
(* fail, see EthCommon.                                                    *)
(***************************************************************************)
EXTENDS EthCommon

CONSTANTS
    RevertStatuses,     \* HEDERA_SPECIFIC_REVERT_STATUSES
    MaxBlockSize,       \* ETH_GET_TRANSACTION_COUNT_MAX_BLOCK_RANGE
    FeeHistoryMax,      \* FEE_HISTORY_MAX_RESULTS
    FeeHistoryFixed,    \* ETH_FEE_HISTORY_FIXED
    AddressLists        \* lists of addresses eth_getLogs is asked for, <<>> for any

ASSUME BlockReadsAssumption ==
    \A as \in AddressLists :
        /\ DOMAIN as = 1 .. Len(as) /\ Len(as) \in Nat
        /\ as # <<>> => Len(as) > 0
        /\ \A i, j \in DOMAIN as : as[i] = as[j] => i = j

AllTypes == {"contract", "token", "account"}

Repeat(h) == [k \in 1 .. RetryCount |-> h]

IsRevertedDueToHederaSpecificValidation(id) == Tx(id).result \in RevertStatuses

(* A transaction made of a contract result, with resolved addresses. *)
CreateTransactionFromContractResult(id, known, down) ==
    [hash  |-> id,
     from  |-> ResolveEvmAddress(Tx(id).from, {"account"}, known, down),
     to    |-> ResolveEvmAddress(Tx(id).to, AllTypes, known, down)]

(* A transaction made up for a log: the contract sends to itself. *)
CreateTransactionFromLog(log) ==
    [hash |-> IdOf(log), from |-> AddressOf(log), to |-> AddressOf(log)]

-----------------------------------------------------------------------------
(* eth_getBlockBy... *)

PrepareTransactionArray(ids, known, down) ==
    LET kept == {id \in ids : ~IsRevertedDueToHederaSpecificValidation(id)}
        seq  == Sorted(kept, Earlier)
    IN  [i \in DOMAIN seq |-> CreateTransactionFromContractResult(seq[i], known, down)]

(* Mutant: the logs of listed transactions are not left out. *)
PopulateAllLogs(details, txs, logs) ==
    txs \o [i \in DOMAIN logs |-> CreateTransactionFromLog(logs[i])]

(* The logs of transactions that have no contract result get one made up;   *)
(* equal ones are dropped.  Without details only the hash is compared.      *)
PopulateSyntheticTransactions(details, txs, logs) ==
    LET new  == SelectSeq(logs, LAMBDA log : \A i \in DOMAIN txs : txs[i].hash # IdOf(log))
        made == [i \in DOMAIN new |-> CreateTransactionFromLog(new[i])]
        same(x, y) == IF details THEN x = y ELSE x.hash = y.hash
        fresh == {i \in DOMAIN made : \A j \in 1 .. i - 1 : ~same(made[i], made[j])}
        order == Sorted(fresh, LAMBDA i, j : i < j)
    IN  txs \o [i \in DOMAIN order |-> made[order[i]]]

(* The parts of a receipt that go into the root: the logs of a transaction  *)
(* without a result get a bloom of the first log of the whole block.        *)
BuildReceiptRootHashes(txs, ids, logs) ==
    [i \in DOMAIN txs |->
        [logs  |-> SelectSeq(logs, LAMBDA log : IdOf(log) = txs[i].hash),
         bloom |-> IF txs[i].hash \in ids THEN txs[i].hash ELSE IdOf(logs[1]),
         index |-> txs[i].hash[2] - 1]]

(* vs: the views of the block, of its results and logs, and of the fee.     *)
GetBlockResponse(p, details, known, down, vs) ==
    LET n       == GetHistoricalBlockResponse(p, vs[1], vs[1])
        range   == <<Start(n), End(n)>>
        results == GetContractResultsWithRetry(range, Repeat(vs[2]))
        logs    == GetLogsWithParams(<<>>, range, vs[2])
        txs     == PopulateSyntheticTransactions(
                       details, PrepareTransactionArray(results.val, known, down), logs.val)
        price   == GasPrice(vs[3], down)
    IN  IF n = NoBlock THEN Null
        ELSE IF results.st # "ok" THEN results
        ELSE IF logs.st # "ok" THEN logs
        ELSE IF details /\ Cardinality(results.val) >= MaxBlockSize THEN Err("MAX_BLOCK_SIZE")
        ELSE IF price.st # "ok" THEN price
        ELSE Ok([number |-> n, transactions |-> txs, baseFee |-> price.val,
                 root |-> BuildReceiptRootHashes(txs, results.val, logs.val)])

(* external: the count of the block has every transaction of the record file. *)
CountOf(n) == Len(chain[n + 1])

GetBlockTransactionCount(p, vs) ==
    LET n == GetBlock(IF p.tag = "hash" THEN p.n ELSE TranslateBlockTag(p, vs[1]), vs[2])
    IN  IF n = NoBlock THEN Null ELSE Ok(CountOf(n))

-----------------------------------------------------------------------------
(* Receipts and transactions. *)

CreateSyntheticReceipt(logs, price) ==
    [hash |-> IdOf(logs[1]), from |-> "zero", to |-> AddressOf(logs[1]),
     logs |-> <<logs[1]>>, price |-> price]

(* The receipt of a transaction that created its contract has no receiver. *)
CreateRegularReceipt(id, logs, price, known, down) ==
    [hash |-> id,
     from |-> ResolveEvmAddress(Tx(id).from, AllTypes, known, down),
     to   |-> IF Tx(id).created THEN "none" ELSE ResolveEvmAddress(Tx(id).to, AllTypes, known, down),
     logs |-> logs, price |-> price]

GetBlockReceipts(p, known, down, vs) ==
    LET n       == GetHistoricalBlockResponse(p, vs[1], vs[1])
        range   == <<Start(n), End(n)>>
        results == GetContractResults(range, vs[2])
        logs    == GetLogsWithParams(<<>>, range, vs[2])
        price   == GetGasPriceInWeibars(Start(n), down)
        of(id)  == SelectSeq(logs.val, LAMBDA log : IdOf(log) = id)
        regular == Sorted({id \in results.val : ~IsRevertedDueToHederaSpecificValidation(id)}, Earlier)
        others  == Sorted({IdOf(logs.val[i]) : i \in DOMAIN logs.val} \ results.val, Earlier)
    IN  IF n = NoBlock THEN Null
        ELSE IF results.st # "ok" THEN results
        ELSE IF logs.st # "ok" THEN logs
        ELSE IF results.val = {} /\ logs.val = <<>> THEN Ok(<<>>)
        ELSE IF price.st # "ok" THEN price
        ELSE Ok([i \in DOMAIN regular |->
                    CreateRegularReceipt(regular[i], of(regular[i]), price.val, known, down)]
                \o [i \in DOMAIN others |-> CreateSyntheticReceipt(of(others[i]), price.val)])

HandleRegularTransactionReceipt(id, known, down) ==
    LET price == GetCurrentGasPriceForBlock(id[1], down)
        logs  == [k \in DOMAIN Tx(id).logs |-> <<id[1], id[2], k>>]
    IN  IF price.st # "ok" THEN price
        ELSE Ok(CreateRegularReceipt(id, logs, price.val, known, down))

HandleSyntheticTransactionReceipt(id, down, views) ==
    LET found == GetLogsOfTransaction(id, views)
        logs  == Sorted(found.val, LogPrecedes)
        price == GetCurrentGasPriceForBlock(id[1], down)
    IN  IF found.st # "ok" THEN found
        ELSE IF found.val = {} THEN Null
        ELSE IF price.st # "ok" THEN price
        ELSE Ok(CreateSyntheticReceipt(logs, price.val))

(* Mutant: the first answer counts, with or without a block. *)
ContractResultOnce(id, views) == GetContractResult(id, views[1])

ContractResultOf(id, views) == GetContractResultWithRetry(id, views)

GetTransactionReceipt(id, known, down, views) ==
    LET result == ContractResultOf(id, views) IN
    CASE result.st = "ok"   -> HandleRegularTransactionReceipt(id, known, down)
      [] result.st = "null" -> HandleSyntheticTransactionReceipt(id, down, views)
      [] OTHER              -> result

(* One that created its contract has no receiver here either, though the    *)
(* block lists it with the contract.                                        *)
GetTransactionByHash(id, known, down, views) ==
    LET result == ContractResultOf(id, views)
        logs   == GetLogsOfTransaction(id, views)
        tx     == CreateTransactionFromContractResult(id, known, down)
    IN  CASE result.st = "ok" -> Ok(IF Tx(id).created THEN [tx EXCEPT !.to = "none"] ELSE tx)
          [] result.st = "null" /\ logs.st = "ok" ->
               IF logs.val = {} THEN Null
               ELSE Ok(CreateTransactionFromLog(Sorted(logs.val, LogPrecedes)[1]))
          [] result.st = "null" /\ logs.st # "ok" -> logs
          [] OTHER -> result

GetTransactionByBlockHashOrBlockNumAndIndex(n, index, known, down, h) ==
    LET result == GetContractResultsByIndex(n, index, h)
    IN  IF result.st # "ok" THEN result
        ELSE IF result.val = {} THEN Null
        ELSE Ok(CreateTransactionFromContractResult(<<n, index + 1>>, known, down))

GetTransactionByBlockAndIndex(p, index, known, down, vs) ==
    GetTransactionByBlockHashOrBlockNumAndIndex(
        IF p.tag = "hash" THEN p.n ELSE TranslateBlockTag(p, vs[1]), index, known, down, vs[2])

-----------------------------------------------------------------------------
(* eth_feeHistory *)

NumMax(x, y) == IF x > y THEN x ELSE y

GetFeeByBlockNumber(n, down, h) ==
    IF GetBlock(n, h) = NoBlock \/ GetGasPriceInWeibars(End(n), down).st # "ok" THEN 0
    ELSE GetGasPriceInWeibars(End(n), down).val

Fill(k, x) == [i \in 1 .. k |-> x]

(* The fee after the newest block is that of the next one when there is.    *)
GetFeeHistory(count, newest, latest, rewards, down, h) ==
    LET oldest == NumMax(0, newest - count + 1)
        fees   == [i \in 1 .. newest - oldest + 1 |-> GetFeeByBlockNumber(oldest + i - 1, down, h)]
        next   == IF latest > newest THEN GetFeeByBlockNumber(newest + 1, down, h)
                  ELSE fees[Len(fees)]
    IN  [oldest |-> oldest, fees |-> Append(fees, next), ratios |-> Len(fees),
         rewards |-> IF rewards THEN count ELSE 0]

GetRepeatedFeeHistory(count, oldest, rewards, fee) ==
    [oldest |-> oldest, fees |-> Fill(count + 1, fee), ratios |-> count,
     rewards |-> IF rewards THEN count ELSE 0]

EmptyFeeHistory == [oldest |-> 0, fees |-> <<>>, ratios |-> 0, rewards |-> 0]

FeeHistory(count, p, rewards, down, vs) ==
    LET latest  == TranslateBlockTag(Tag("latest"), vs[1])
        newest  == IF p.tag \in {"latest", "pending"} THEN latest ELSE TranslateBlockTag(p, vs[2])
        blocks  == IF count > FeeHistoryMax THEN FeeHistoryMax ELSE count
        short   == newest - blocks + 1 <= 0
        price   == GasPrice(vs[3], down)
    IN  IF newest > latest THEN Err("REQUEST_BEYOND_HEAD_BLOCK")
        ELSE IF blocks <= 0 THEN Ok(EmptyFeeHistory)
        ELSE IF ~FeeHistoryFixed
             THEN Ok(GetFeeHistory(blocks, newest, latest, rewards, down, vs[3]))
        ELSE IF price.st # "ok" THEN Ok(EmptyFeeHistory)
        ELSE Ok(GetRepeatedFeeHistory(IF short THEN 1 ELSE blocks,
                                      IF short THEN 1 ELSE newest - blocks + 1,
                                      rewards, price.val))

-----------------------------------------------------------------------------
Whole == 2 * Len(chain)

Hashes(txs) == {txs[i].hash : i \in DOMAIN txs}

(* What a closed block shows: its Ethereum transactions that Hedera did not *)
(* refuse, and the ones that have logs.                                     *)
Listed(n) ==
    {id \in Transactions(Whole) : id[1] = n /\ ~IsRevertedDueToHederaSpecificValidation(id)
        /\ (Tx(id).kind = "eth" \/ DOMAIN Tx(id).logs # {})}

AddressesOfLogs(id) == {Tx(id).logs[k] : k \in DOMAIN Tx(id).logs}

(* The fees of a history are those of its blocks, one for each and one for  *)
(* the block after them.                                                    *)
FeesAreThoseOfTheBlocks(n, h) ==
    \A count \in 1 .. FeeHistoryMax + 1 :
        LET f == FeeHistory(count, Number(n), FALSE, {}, <<h, h, h>>).val
            k == IF count > FeeHistoryMax THEN FeeHistoryMax ELSE count
        IN  ~FeeHistoryFixed =>
              /\ Len(f.fees) = f.ratios + 1
              /\ f.oldest = IF n - k + 1 < 0 THEN 0 ELSE n - k + 1
              /\ \A i \in 1 .. f.ratios : f.fees[i] = NetworkFees(End(f.oldest + i - 1))

(* A block, read with or without details, its receipts, and its             *)
(* transactions read one by one, tell the same: the transactions of the     *)
(* block, with the same sender, receiver and logs.  The exceptions: one     *)
(* that deploys a contract has no receiver in its receipt and by hash, and  *)
(* the contract in its block; a synthetic one with logs of two contracts is *)
(* listed twice with details, and its receipt has its first log and no      *)
(* sender.  The fee history has the fees of these blocks.                   *)
BlocksAgree ==
    \A n \in 0 .. Len(chain) - 1, h \in Views :
      n < Closed(h) =>
        LET vs      == <<h, h, h>>
            full    == GetBlockResponse(Number(n), TRUE, {}, {}, vs).val.transactions
            brief   == GetBlockResponse(Hash(n), FALSE, {}, {}, vs).val.transactions
            rs      == GetBlockReceipts(Number(n), {}, {}, vs).val
            double  == {id \in Listed(n) : Tx(id).kind = "synthetic"
                                              /\ Cardinality(AddressesOfLogs(id)) > 1}
        IN  /\ Hashes(full) = Listed(n)
            /\ Hashes(brief) = Listed(n) /\ Len(brief) = Cardinality(Listed(n))
            /\ Hashes(rs) = Listed(n) /\ Len(rs) = Cardinality(Listed(n))
            /\ (Len(full) = Cardinality(Listed(n))) <=> (double = {})
            /\ GetBlockTransactionCount(Hash(n), vs).val >= Len(brief)
            /\ \A i \in DOMAIN full :
                 LET id == full[i].hash IN
                 /\ Tx(id).kind = "eth" =>
                      /\ GetTransactionByHash(id, {}, {}, Repeat(h))
                           = Ok(IF Tx(id).created THEN [full[i] EXCEPT !.to = "none"] ELSE full[i])
                      /\ GetTransactionByBlockAndIndex(Number(n), id[2] - 1, {}, {}, vs)
                           = Ok(full[i])
            /\ \A i \in DOMAIN rs :
                 /\ GetTransactionReceipt(rs[i].hash, {}, {}, Repeat(h)) = Ok(rs[i])
                 /\ Tx(rs[i].hash).kind = "eth" =>
                      /\ Len(rs[i].logs) = Len(Tx(rs[i].hash).logs)
                      /\ rs[i].to = GetTransactionByHash(rs[i].hash, {}, {}, Repeat(h)).val.to
            /\ FeesAreThoseOfTheBlocks(n, h)

(* A transaction of a block that is not closed has neither a receipt nor an *)
(* answer by hash that lacks its block: it is refused as immature unless    *)
(* the block is closed within the retries.  One of a closed block that the  *)
(* block lists has both, unless it has no contract result and its logs fill *)
(* the pages they are read from.                                            *)
NoImmatureAnswers ==
    \A id \in Transactions(Whole), views \in [1 .. RetryCount -> Views] :
      (\A j, k \in 1 .. RetryCount : j <= k => views[j] <= views[k]) =>
        LET r == GetTransactionReceipt(id, {}, {}, views)
            t == GetTransactionByHash(id, {}, {}, views)
            paged == Tx(id).kind # "eth" /\ Pages(DOMAIN Tx(id).logs) >= LogsPageMax
        IN  /\ r.st = "ok" \/ t.st = "ok" => Mature(id, views[RetryCount])
            /\ Mature(id, views[1]) /\ id \in Listed(id[1]) =>
                 IF paged THEN r.st = "PAGINATION_MAX" /\ t.st = "PAGINATION_MAX"
                 ELSE r.st = "ok" /\ t.st = "ok"

(* seq has every log of want in one place, in the order of the chain, or of *)
(* time when several addresses were asked for.                              *)
InOrder(seq, want, as) ==
    /\ Len(seq) = Cardinality(want)
    /\ {seq[i] : i \in DOMAIN seq} = want
    /\ \A i, j \in DOMAIN seq : i < j =>
         IF Len(as) < 2 THEN LogPrecedes(seq[i], seq[j]) ELSE LogTime(seq[i]) <= LogTime(seq[j])

(* The logs of the blocks f .. t, asked for at view h. *)
RangeAnswered(f, t, as, h) ==
    LET got   == GetLogs(Number(f), Number(t), as, <<h, h, h, h>>)
        range == <<Start(f), End(t)>>
        want  == {log \in LogsIn(range, h) : as = <<>> \/ \E i \in DOMAIN as : AddressOf(log) = as[i]}
        most  == CalculateMaxPage(range) * PageSize
    IN  IF got.st = "ok" THEN InOrder(got.val, want, as)
        ELSE \/ got.st = "RANGE_TOO_LARGE" /\ Len(as) # 1 /\ t - f > BlockRangeLimit
             \/ got.st = "TIMESTAMP_RANGE_TOO_LARGE" /\ End(t) - Start(f) > MaxTimeRange
             \/ got.st = "PAGINATION_MAX" /\ Cardinality(want) >= most - PageSize

(* eth_getLogs answers the logs of its range, all of them and in the order  *)
(* of the chain, or refuses; it refuses a range for its length, or because  *)
(* there are as many logs as fill its pages.  Only logs of one transaction  *)
(* that several addresses were asked for come address by address.           *)
LogsOfRange ==
    \A f \in 0 .. Len(chain) - 1, t \in 0 .. Len(chain) - 1, as \in AddressLists, h \in Views :
        f <= t /\ t < Closed(h) => RangeAnswered(f, t, as, h)
=============================================================================
