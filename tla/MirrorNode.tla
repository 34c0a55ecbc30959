------------------------------ MODULE MirrorNode ------------------------------
(***************************************************************************)
(* The mirror node as the relay reads it: a chain of blocks that only      *)
(* grows, and the queries of MirrorNodeClient on it.                       *)
(*                                                                         *)
(* A request of the relay makes several queries, between which blocks are  *)
(* imported.  As the chain only grows, what a query sees is fixed by how   *)
(* far the import had come: a view h has h \div 2 blocks closed, and when  *)
(* h is odd the transactions of the next block are there already, without  *)
(* their block (an immature record).  The queries of a request see views   *)
(* that do not decrease.                                                   *)
(*                                                                         *)
(* A transaction has kind "eth" (it has a contract result), "synthetic"    *)
(* (a HAPI transaction that has logs only) or "hapi" (neither).            *)
(***************************************************************************)
EXTENDS Integers, Sequences, FiniteSets

CONSTANTS
    BlockContents,    \* the sequences of transactions a block may have
    Slots,            \* time from the start of a block to that of the next
    MaxBlocks,        \* bound of the chain
    PageSize,         \* MIRROR_NODE_LIMIT_PARAM
    LogsPageMax,      \* MIRROR_NODE_CONTRACT_RESULTS_LOGS_PG_MAX
    BlockLogsPageMax, \* MIRROR_NODE_CONTRACT_RESULTS_LOGS_BLOCK_RANGE_PG_MAX
    ResultsPageMax,   \* MIRROR_NODE_CONTRACT_RESULTS_PG_MAX
    RetryCount,       \* MIRROR_NODE_REQUEST_RETRY_COUNT
    Retries,          \* MIRROR_NODE_RETRIES
    RetryCodes        \* MIRROR_NODE_RETRY_CODES

ASSUME MirrorNodeAssumption ==
    /\ {Slots, MaxBlocks, PageSize, LogsPageMax, BlockLogsPageMax,
        ResultsPageMax, RetryCount} \subseteq Nat \ {0}
    /\ Retries \in Nat
    /\ \A c \in BlockContents :
         /\ DOMAIN c = 1 .. Len(c) /\ Len(c) \in 1 .. Slots
         /\ \A i \in DOMAIN c : IsFiniteSet(DOMAIN c[i].logs) /\ DOMAIN c[i].logs \subseteq Nat

VARIABLE chain      \* the blocks, each a sequence of transactions

ChainInit == chain \in {<<c>> : c \in BlockContents}

(* The importer adds a block. *)
Import(c) == Len(chain) < MaxBlocks /\ chain' = Append(chain, c)

ChainNext == \E c \in BlockContents : Import(c)

ChainSpec == ChainInit /\ [][ChainNext]_chain

Closed(h) == h \div 2

Seen(h) == (h + 1) \div 2

Views == 2 .. 2 * Len(chain)

NoBlock == -1

Start(n) == n * Slots

End(n) == n * Slots + Len(chain[n + 1]) - 1

Tx(id) == chain[id[1] + 1][id[2]]

TimeOf(id) == Start(id[1]) + id[2] - 1

Transactions(h) ==
    {id \in (0 .. Seen(h) - 1) \X (1 .. Slots) : id[2] <= Len(chain[id[1] + 1])}

Within(range, t) == range[1] <= t /\ t <= range[2]

Earlier(id1, id2) == TimeOf(id1) < TimeOf(id2)

(* The elements of S in the order Precedes, which is strict and total. *)
Sorted(S, Precedes(_, _)) ==
    [i \in 1 .. Cardinality(S) |->
        CHOOSE x \in S : Cardinality({y \in S : Precedes(y, x)}) = i - 1]

-----------------------------------------------------------------------------
(* Requests.  An answer is [st, val]: st is "ok", "null" or the error.      *)

Ok(x) == [st |-> "ok", val |-> x]

Null == [st |-> "null", val |-> <<>>]

Err(e) == [st |-> e, val |-> <<>>]

(* The endpoints of which a 404 is answered with null; any other status     *)
(* that is an error, and a 404 of another endpoint, is thrown.              *)
AcceptedNotFound ==
    {"accounts", "balances", "block", "blocks", "contracts", "results",
     "result", "resultDetails", "logs", "logsByAddress", "actions", "opcodes",
     "exchangerate", "fees", "tokens", "transactions", "call", "state"}

HandleError(label, status) ==
    IF status = 404 /\ label \in AcceptedNotFound THEN Null
    ELSE IF status = 404 THEN Err("NOT_FOUND") ELSE Err("MIRROR_NODE")

(* The status of a request: that of its first attempt that is not to be     *)
(* retried, or else of the last; 0 stands for no response.                  *)
StatusOf(attempts) ==
    LET final == {k \in DOMAIN attempts :
                    k = Len(attempts) \/ attempts[k] \notin RetryCodes \cup {0}}
    IN  attempts[CHOOSE k \in final : \A j \in final : k <= j]

Answer(label, attempts, body) ==
    IF StatusOf(attempts) = 200 THEN Ok(body) ELSE HandleError(label, StatusOf(attempts))

Get(label, found, body) ==
    Answer(label, [k \in 1 .. Retries + 1 |-> IF found THEN 200 ELSE 404], body)

(* All pages of a query.  A page has a link to the next one when it is      *)
(* full; the page limit is checked before the link.                         *)
Pages(rows) == Cardinality(rows) \div PageSize + 1

(* Mutant: the pages after the last allowed one are left out. *)
PagesUpToTheLimit(rows, pageMax) ==
    Ok({x \in rows : Cardinality({y \in rows : y[1] < x[1]}) < PageSize * (pageMax - 1)})

GetPaginatedResults(rows, pageMax) ==
    IF Pages(rows) >= pageMax THEN Err("PAGINATION_MAX") ELSE Ok(rows)

(* A row, a result or a log, starts with its block: it is immature until    *)
(* the record of that block is complete.                                    *)
Mature(row, h) == row[1] < Closed(h)

(* The first answer that has no immature record, of as many as there are    *)
(* retries: answers[k] is that of the k-th attempt, on the view views[k].   *)
WithRetry(answers, views) ==
    LET done == {k \in DOMAIN views :
                    answers[k].st = "ok" => \A row \in answers[k].val : Mature(row, views[k])}
    IN  IF done = {} THEN Err("IMMATURE_RECORDS")
        ELSE answers[CHOOSE k \in done : \A j \in done : k <= j]

-----------------------------------------------------------------------------
(* Blocks. *)

GetBlock(n, h) == IF 0 <= n /\ n < Closed(h) THEN n ELSE NoBlock

(* The blocks after n, in ascending order, at most a page. *)
GetBlocksAfter(n, h) ==
    LET all == {m \in 0 .. Closed(h) - 1 : m > n}
    IN  {m \in all : Cardinality({k \in all : k < m}) < PageSize}

GetLatestBlock(h) == Closed(h) - 1

GetEarliestBlock(h) == IF Closed(h) > 0 THEN 0 ELSE NoBlock

-----------------------------------------------------------------------------
(* Contract results and logs. *)

GetContractResult(id, h) ==
    Get("result", id \in Transactions(h) /\ Tx(id).kind = "eth", {id})

ResultsIn(range, h) ==
    {id \in Transactions(h) : Tx(id).kind = "eth" /\ Within(range, TimeOf(id))}

GetContractResults(range, h) ==
    GetPaginatedResults(ResultsIn(range, h), ResultsPageMax)

GetContractResultWithRetry(id, views) ==
    WithRetry([k \in DOMAIN views |-> GetContractResult(id, views[k])], views)

GetContractResultsWithRetry(range, views) ==
    WithRetry([k \in DOMAIN views |-> GetContractResults(range, views[k])], views)

GetContractResultsByIndex(n, index, h) ==
    GetPaginatedResults(
        {id \in Transactions(h) : Tx(id).kind = "eth" /\ id = <<n, index + 1>>
                                     /\ Mature(id, h)}, ResultsPageMax)

(* A log is <<n, i, k>>: the k-th one of the transaction <<n, i>>.          *)
IdOf(log) == <<log[1], log[2]>>

AddressOf(log) == Tx(IdOf(log)).logs[log[3]]

LogTime(log) == TimeOf(IdOf(log))

AllLogs(h) ==
    UNION {{<<id[1], id[2], k>> : k \in DOMAIN Tx(id).logs} : id \in Transactions(h)}

LogsIn(range, h) == {log \in AllLogs(h) : Within(range, LogTime(log))}

(* A range shorter than three seconds, that is one block, may have more     *)
(* pages than a longer one.                                                 *)
CalculateMaxPage(range) ==
    IF range[2] - range[1] < Slots THEN BlockLogsPageMax ELSE LogsPageMax

GetContractResultsLogsWithRetry(range, views) ==
    WithRetry([k \in DOMAIN views |->
                 GetPaginatedResults(LogsIn(range, views[k]), CalculateMaxPage(range))], views)

(* The logs of one address: without the retry. *)
GetContractResultsLogsByAddress(a, range, h) ==
    GetPaginatedResults({log \in LogsIn(range, h) : AddressOf(log) = a},
                        CalculateMaxPage(range))

GetLogsOfTransaction(id, views) ==
    WithRetry([k \in DOMAIN views |->
                 GetPaginatedResults({log \in AllLogs(views[k]) : IdOf(log) = id},
                                     LogsPageMax)], views)
=============================================================================
