# TLA+ models of the JSON-RPC relay

The relay answers Ethereum JSON-RPC over HTTP and WebSocket on top of a Hedera
network. It submits transactions to the consensus nodes through the SDK, reads
state from the mirror node, and keeps what several requests share in Redis or,
for a relay that runs alone, in memory. Node runs one handler at a time per
process, but lets any other handler in at every `await`, and several relay
processes may share Redis. That is where its hard behaviour is, and that is what
these modules are about.

`PROJECT.json` lists the components, the runs, the mutants, the source lines of
every definition, the hazards and the theorems. The modules need TLC and, for
`*Proofs.tla`, tlapm:

    tlc -config RedisLock_safety.cfg MCRedisLock
    tlapm RedisLockProofs.tla

Paths below are relative to `packages/relay/src/lib` unless they start with
`ws-server` or `server`.

## Inventory

| Component | State | Operations | What is hard | What makes it correct |
|---|---|---|---|---|
| `RedisLockStrategy` | lock key, queue list, heartbeat keys in Redis | acquireLock (lPush, heartbeat, lIndex, SET NX, lLen, exists, lRem), releaseLock (Lua) | every command is an await; commands fail, keys run out, processes crash | one holder, FIFO, only the owner releases, waiters get out |
| `LocalLockStrategy` | LRU cache of mutexes with session key and timer | acquireLock, releaseLock, force release | timers of earlier owners, eviction of locks in use | one holder per mutex, a timer for every owner, waiters get out |
| `TransactionService.sendRawTransaction` | pending set of a sender, nonces in the mirror node and the network | lock, precheck, save, submit, release, remove, poll for the record, explain WRONG_NONCE | nonce reads at different times, lagging mirror node, SDK timeouts, crashes with an entry in the pool | order of submission, no unexplained nonce error, no orphan entries, lock given back, every call ends |
| `Precheck`, `TransactionPoolService` and its storages, `TxPoolImpl` | pending sets by sender and a global one, with TTLs in Redis | the checks in their order, addToList, removeFromList, txpool_content, contentFrom, status | state read from a mirror node that is behind; two keys with two TTLs | what passed the checks is refused only for what happened since; the views agree |
| `HAPIService`, `SDKClient`, `MetricService` | SDK client with its counters, files on the network, events, expenses | getSDKClient, createFile, appendFile, FileInfoQuery, execute, deleteFile, decrementErrorCounter, captureTransactionMetrics | failures with and without effect and response; reports, deletions and look-ups that come after the client was renewed | clients are renewed in time, files are deleted, charges are recorded |
| `HbarLimitService`, its repositories | spending plans, their amounts and links (with TTLs), `reset` per relay | shouldLimit, reset, createSpendingPlan, addExpense | read-modify-write over an async cache, several relays with a reset each, TTLs that do not agree with windows, failing Redis | charges are not lost, nobody passes a used-up plan, nobody pays for an earlier window |
| WebSocket server (`ws-server/src`): `ConnectionLimiter`, `SubscriptionService`, `PollerService`, controllers | connection and IP counters, subscriptions by tag, polls with cursors | connect, close, inactivity, eth_subscribe, eth_unsubscribe, interval, poll, notify | check and count on two sides of an await, close during a validation, overlapping and failing polls | limits, counters agree with subscriptions, polls agree with subscriptions, no log lost |
| HTTP server (`server/src`), `IPRateLimiterService` and its stores | requests in flight, windows per address and method | routing, single and batch requests, incrementAndCheck in memory or in Redis | items of a batch side by side, window boundaries, Redis that fails open | limits, refusals with a cause, every item answered under its id |
| dispatcher, registry, validators, cache decorator | cached answers with TTLs | validate, look up, evaluate, store | an answer is stored after a query that other calls and new blocks overlap; conditions on what may be stored | answers are current, errors stay errors |
| `FilterService` | filters in the cache with `lastQueried` | newFilter, newBlockFilter, getFilterChanges, getFilterLogs, uninstallFilter, expiry | cursor read, query and write are separate awaits | no change lost or repeated without a cause, uninstalled stays uninstalled, changes are answered |
| `MirrorNodeClient` | none of its own | requests with retries, pagination, getContractResultWithRetry, getContractResultsLogsWithRetry, resolveEntityType | records that are there before their block, page limits, refused and accepted statuses | no immature record is returned, nothing is cut short silently |
| `CommonService`, `AccountService`, `BlockService`, `ContractService`, `FeeService`, `DebugImpl`, the factories | none (a few cached addresses and traces) | balances, nonces, blocks, receipts, logs, code, storage, calls, fees, traces | several queries per answer, between which blocks are imported | what is said of one block by different methods agrees |
| workers pool, configuration, formatters, metrics | none, or read-only | conversions | little | not modelled |

A request comes through the HTTP or WebSocket server, its rate limit and the
dispatcher, which validates it and may answer it from the cache. A read goes on
to one of the read services and from there to the mirror node. A transaction
goes to `TransactionService`, which takes the sender's lock (`LockService`, Redis
or local), prechecks against the mirror node and the pool, saves to the pool,
submits through `HAPIService` and `SDKClient` (which asks `HbarLimitService`
first and afterwards emits the event by which `MetricService` charges the fees),
releases the lock, cleans the pool and polls the mirror node. The WebSocket
server adds long-lived state: its connections subscribe, and one interval polls
for all of them.

## Modules

| Module | Models | Composition |
|---|---|---|
| `FifoLease` | what `types/lock.ts` promises for one address (abstract) | - |
| `RedisLock` | `RedisLockStrategy` | implements `FifoLease` |
| `LocalLock` | `LocalLockStrategy`, async-mutex and lru-cache from their use | implements `FifoLease` |
| `SendRawTransaction` | sendRawTransaction with pool, nonce precheck, network, mirror node | takes the lock as `INSTANCE FifoLease` |
| `TxPool` | `Precheck`, both pool storages, the txpool methods | - |
| `Consensus` | `HAPIService`, `SDKClient`, submitTransaction, `MetricService` | - |
| `HbarLimiter` | limiter, plans, cache, charging | - |
| `WsSubscriptions` | connections, limits, subscriptions, poller | - |
| `Server` | `server.ts`, koaJsonRpc, rate limiter with both stores | - |
| `RpcMethods` | the registered methods, their parameters and cache options, validation, errors of the dispatcher | - |
| `MethodCache` | dispatcher and cache decorator over both caches | extends `RpcMethods` |
| `MirrorNode` | the chain and the queries of `MirrorNodeClient` | - |
| `EthCommon` | `CommonService`, entity resolution | extends `MirrorNode` |
| `AccountReads`, `ContractReads`, `BlockReads` | `AccountService`; `ContractService`; blocks, transactions, receipts, `FeeService` | extend `EthCommon` |
| `DebugTraces` | `DebugImpl` | extends `BlockReads` |
| `Filters` | `FilterService` | extends `EthCommon`, whose GetLogs it calls |
| `UniqueList` | lists without repetitions, shared by the locks | - |
| `MC*` | instances for TLC | extend their modules; `MCReads` joins all reads |
| `*Proofs` | theorems | extend their module; `ServerProofs` is also about `MethodCache`, `WsSubscriptionsProofs` also about `Filters` and the reads |

**Atomicity.** An action is the code between two awaits. Reads that decide a
later write are steps of their own. Two deliberate exceptions in `HbarLimiter`:
the reads of one look-up (link, plan, amount) are one step, and the deletions of
one reset, all issued before the first is awaited, are one step. Reads of the
mirror node are treated differently, see `MirrorNode`.

**`RedisLock`.** One address, because keys of different addresses are disjoint.
A session is one call of acquireLock with its random key. Every command is an
action that may succeed, fail with its effect, or fail without (`MaxErrors`
bounds the failures). TTLs are actions; `LateBeats` says whether a live waiter
may be too slow to refresh its heartbeat. The list is kept oldest first.

**`LocalLock`.** A lock state is named after the session that made it, so that
an evicted state and its successor are different. `ForceReleaseExpiredLock` is
the timer. `Watched` picks the lock state that the refinement compares.

**`SendRawTransaction`.** One sender. `async` is USE_ASYNC_TX_PROCESSING. The
outcome of a submission is any the SDK can report: success, timeout (the
transaction may still execute), failure, WRONG_NONCE, refusal. `cnNonce` is what
the consensus nodes expect, `mnNonce` what the mirror node has imported so far.
All checks but that of the nonce are one nondeterministic rejection here
(`TxPool` has them all). Storage failures, crashes, a lock that fails open, a
command of the lock that fails with its effect and a release that is lost count
against `MaxFaults`; `stranded` are the calls whose lock such a failure left to its
TTL.

**`TxPool`.** Without the nonce lock, which is off by default, so that the checks of
several calls overlap. A transaction is a record of the fields the checks look at;
quantities are small numbers in the same ratios (`TinybarToWeibar`). `Unbalanced`
are accounts the mirror node shows without a balance. `ledger` is the accounts of
the network, at first and after each transaction it executed, and `imported` is how
many of these states the mirror node has; `seen` and `at`, the states a call was
checked and submitted at, are history. `ExpireAddress` and `ExpireAll` are the TTLs:
every addToList renews the global key and the key of its sender, so the key added to
last cannot run out before the global one.

**`Consensus`.** A call goes from the exchange rate to the end of
submitTransaction; its deletion, the report of its error and the look-ups of the
records of what it executed go on after it. A transaction may be charged, take
effect, and come back with a response or not, independently where the network
allows it. `served`, `overtime` and `unheeded` count what the current client was
handed out for, in all, after it was too old, and after a status of
HAPI_CLIENT_ERROR_RESET was reported; they follow the reports and the clock, not the
flag that HAPIService keeps. `charged` is what the operator paid, `unread` and
`rejected` what was lost because no record was found or because addExpense
rejected. The fee of a transaction is added before the charge for reading its
record; when it is rejected, the latter is not added either, and the rejection of
the listener is only logged (`server/src/server.ts:345`).

**`HbarLimiter`.** A call is one execution; `stage` says on whose behalf the same
sub-step runs (reset, budget check, sender check, charge of the operator, charge of
the sender). `redis` chooses the cache: atomic INCRBY, or the local
read-await-write. `added`, `lossy` and `stale` are history: what was charged in this
window, whether one of the races named at `lossy`'s assignments took some, and which
calls were under way, and at which stage, when the window began. In memory the
plans, links and amounts share one LRU cache with the answers of all methods; only
the keys of the preconfigured plans are reserved (`relay.ts:285`). `Evict` takes any
other entry away at any moment; how full the cache is depends on the other traffic.

**`WsSubscriptions`.** A request is also the identity of the subscription it
makes. A configuration fixes which connections come and what is asked; it is
chosen in `Init`. A connection is accepted, then open or (refused, inactive)
closing, then ended (the socket is gone, its close handler has not run), then
closed. `cursor` is `lastPolled`, `fetches` the polls that wait for their answer.
`racing`, `late`, `overlap`, `joined` and `first` are history. A batch is a set
of requests that run together. Left out: the cache of recent results, which only
prevents duplicates (`sent` is a set), and the pings.

**`Server`.** The items of a request are screened in order, checked against the
limit in order, executed side by side and answered together. In memory all
checks of a request run before other code does (`ThreadFree`); in Redis each is
a command that may fail after or before it counted. `admitted` is history: the
requests that were let through, with their time and whether the store counted
them or failed open. A malformed id stands for every id that no response can carry,
"zero" and "empty" for the falsy ones. The store in memory keeps the methods of an
address in a plain object: `Inherited` are the names that every object has as
members, which are found without an entry; `members` is what remains for each of
them, written on the member itself, which all addresses share.

**`MethodCache`.** A call is validated, looked up, evaluated at some head of the
chain and stored; between these steps the chain grows, other calls go on, and
entries run out or are evicted, which `LookUp` finds. What the services answer is a
value of the method, its arguments, the head and the gas price there (`Value`), or,
when a query fails, an error or what the services that go on without it answer
(`Failed`); an entry remembers the head it was evaluated at (`at`) and whether a
query failed then (`failed`). A block quotes the current gas price, a fee history
that of the next block or, for the latest block, its own; a nonce at a block after
which the account last received a transaction falls back to the latest nonce
(`Received`). A cache in Redis writes values as JSON, so a returned error comes back
as a plain object, and its commands fail.

**`MirrorNode` and the read modules.** The chain only grows, so what a query sees
is fixed by how far the import had come when it was made: a view. A view with an
odd number has the transactions of a block that is not closed yet, the immature
records. An answer that takes several queries is an operator of several views,
and the properties quantify over all non-decreasing choices of them, which are
all interleavings of the request with the importer. The reads are therefore
checked on `ChainSpec`, which has the import as its only action. Queries made side
by side (the results and the logs of a block in `DebugTraces`) have views that are
not ordered. `known` and `down` are the addresses that are
cached and the endpoints that fail.

**`Filters`.** A request reads the filter (`Ask`), makes its queries at views
since then, and writes the filter back or deletes it (`GetFilterChanges` and the
others). With `Redis` the cache swallows a write or a deletion that fails
(`Command`): the request is answered and the filter stays as it was. A filter may go
at any moment, by its TTL or from the full cache in memory (`Expire`). `answered`,
`excused`, `disturbed` (two requests overlapped, or a write failed), `repeated`,
`removed` and `retained` (a request was in flight as the filter went, or its deletion
failed) are history.

## Runs

| Run | Instance | What holds |
|---|---|---|
| `RedisLock_safety` | 3 sessions, 1 failing command, symmetry | MutualExclusion, FifoGrants, OnlyOwnerReleases, ImplementsFifoLease |
| `RedisLock_liveness` | 2 sessions, 1 failing command | WaiterReturns |
| `LocalLock` | 4 sessions, 2 addresses, cache of 1 | OneHolderPerMutex, ImplementsFifoLease, WaiterReturns |
| `SendRawTransaction` | 2 calls: nonces 0 and 1, or one transaction twice; 1 fault; sync and async | SubmittedInOrder, WrongNonceHasCause, TooLowHasCause, HashMeansOutcome, EndedCallsLeaveNothing, EveryCallEnds |
| `TxPool` | 3 calls with any of 18 transactions of two senders, one without a balance and an unknown one; 1 fault; memory and Redis | AcceptedIsValid, PoolViewsAgree |
| `Consensus` | a call with a file of 2 further chunks and one without; clients renewed after 2 operations, one status or their age; 2 faults; both collectors | ClientsAreRenewed, FilesHaveCause, UnrecordedHasCause |
| `HbarLimiter` | 2 relays with a sender each, or a file and its transaction on one relay; windows of 2, clock to 3, 1 failing command or eviction; Redis and memory | AmountCoversCharges, AdmittedWithinLimit, LimitedForThisWindow |
| `WsSubscriptions` | 2 connections of one address at limits of 1; 1 connection with 1 or 2 subscriptions over 3 blocks and 2 or 3 intervals | ConnectionsWithinLimits, PollsServeSubscriptions, SubscriptionsAreCounted, ClosedIsUnsubscribed, LogsReachSubscribers |
| `Server` | 2 requests in flight, 3 in all, of two addresses: single with id 0, batches with a repeated, a missing, an unanswerable id, a method not allowed and one named toString, a batch that is too long, a health check; windows of 1, clock to 2; memory and Redis | AdmittedWithinLimits, RefusedHasCause, RepliesAreComplete |
| `MethodCache` | 2 calls in flight, 3 in all, of every kind of cached method; queries that fail in two ways; chain of 3 blocks with a gas price each; memory and Redis | AnswersAreCurrent, ErrorsStayErrors |
| `Reads` | every chain of up to 4 blocks of 6 kinds, every view | StatesAtBlock, BlocksAgree, NoImmatureAnswers, LogsOfRange, TracesAgree |
| `Filters` | 1 log or block filter, 2 requests in flight, chain of 3 blocks, range limit 1, 1 failing command of Redis | LostHasCause, RepeatsHaveCause, EveryChangeIsAnswered |

**Bounds.** Three sessions are a holder, a waiter and a third that overtakes or
prunes; one failing command is one partial failure anywhere, and an unbounded
number is covered by the proofs. A cache of one entry makes two addresses evict
one another. Two calls of a sender are the pair every ordering property speaks
of, and one fault lets each kind of fault meet each location, a command of the lock
included. In `TxPool` the
third call is what two competing ones need beside one of another sender, and the
transactions have one shape for each reason to be refused. Two faults in
`Consensus` are a failed submission and a failed deletion or look-up; a client of
two operations is renewed several times within one call. A window of 2 with the
clock to 3 contains one reset and the expiry of a plan made before it; one fault is
a failing command with Redis and an eviction in memory. Two
connections at limits of one reach both refusals (the one for the address while a
socket has ended and its close handler has not run); three blocks and two
intervals are what a lost log needs, and the third interval lets a failed poll
catch up. In `Server`, three requests that reach the methods fill a window and
begin the next; the limits 1 and 2 are reached by single requests and by one
batch. In `MethodCache`, one call stores, another reads while a third is
evaluated, and the head passes the block that a call is about. Four blocks in
`Reads` are a block, one before and one after it, and a fourth beyond the
tolerance of the latest block; the page sizes are such that results fill less
than, exactly, and more than their pages, and a range of more than two blocks is
beyond the range limit. In `Filters`, the range limit of 1 with
3 blocks lets a filter fall behind. Runs without deadlock checking are those
whose calls, requests, chains or clocks simply end.

**Fairness.** `RedisLock`: a call that joined goes on (the event loop schedules it
and the Redis client answers or rejects), and TTLs run out; nothing makes a holder
release. `LocalLock`: microtasks and timers run. `SendRawTransaction`: every await
settles, because the SDK and the mirror node client have timeouts and bounded
retries; a crashed or stranded holder's lease ends and a crashed waiter is dropped,
which is what `RedisLock`'s TTLs and pruning do. `Filters`: every request ends, for
the same reason, and the client keeps asking for changes, which is the premise of
what a filter promises.

**Mutants.** Every property of a run has a mutated definition of the code
(defined next to the original) under which TLC finds the property violated.

## Where the code departs from its words

Many properties name a cause: "a log is lost only if ...". The cause is what the
code does and its words do not say. Those met so far:

Locks and transactions
- `types/lock.ts:13` says acquireLock "Blocks until the lock is available or
  timeout is reached". A live waiter that has pushed its key and not yet written
  its first heartbeat is pruned as a crashed one
  (`services/lockService/RedisLockStrategy.ts:98`) and then polls for ever. This is
  the exception `pruned` in `WaiterReturns`.
- `docs/nonce-ordering-with-locks.md:149` says the force release "Ensures queue
  progresses even if transaction processing hangs or crashes". The state of a held
  lock that is evicted from the LRU cache is found neither by releaseLock
  (`services/lockService/LocalLockStrategy.ts:89`) nor by the timer (line 151), and
  its waiters hang: the exception in `LocalLock`'s `WaiterReturns`. Two sessions
  of one address may then hold a lock, each of its own lock state.
- The lock "prevents nonce-related failures when multiple transactions from the
  same sender arrive in rapid succession" (the same page, line 6). It is released
  before the pool entry is removed (`TransactionService.ts:513`), so the next
  nonce can be refused as too low: a cause in `TooLowHasCause`.
- releaseLock swallows a failing command
  (`services/lockService/RedisLockStrategy.ts:158`), and acquireLock fails open when
  its SET NX was carried out but not answered (line 108): the next caller then waits
  for LOCK_MAX_HOLD_MS (`stranded` in `EndedCallsLeaveNothing`).
- An account nonce of 0 is taken for a missing one (`TransactionService.ts:624`),
  and a nonce error becomes an internal error; the comment at line 606 expects the
  nonces to differ.
- `docs/nonce-management-and-tx-pool.md:27` describes a pool entry as removed once
  the mirror node has the transaction; the code removes it right after the
  submission. Line 96 of the same page describes the computed hash as the answer
  to an SDK timeout; the code answers INTERNAL_ERROR when no record is found.
- "After transaction execution, whether successful or not, any entity associated
  with the 'fileId' should be removed" (`TransactionService.ts:703`). fileId is
  known only when the submission succeeded: the file of a failed one stays
  (`FilesHaveCause`).
- The chunks of an append that fails later are paid for by the operator and
  charged to nobody (`clients/sdkClient.ts:427`, `UnrecordedHasCause`). So is what
  addExpense rejects, because a plan expired after it was found or a look-up failed
  (`services/metricService/metricService.ts:115`), and with a rejected fee the charge
  for its record.
- An error of a request on a replaced client renews the new one as well
  (`services/hapiService/hapiService.ts:223`).
- `docs/design/hbar-limiter.md:107` says that once the operator's budget is
  exceeded "all subsequent requests from any user will be blocked until the next
  reset". The operator's plan lives for limitDuration from its first use
  (`services/hbarLimitService/index.ts:497`): it runs out within a window, and the
  budget starts again.
- In memory an amount, a plan or a link is evicted like any other answer when the
  cache is full (`clients/cache/localLRUCache.ts:26`), and what was spent is
  forgotten within the window (`Evict`, a cause in `AmountCoversCharges` and
  `AdmittedWithinLimit`).
- `docs/design/hbar-limiter.md:473` says the "total budget and spending limits are
  reset when the current timestamp exceeds the reset timestamp". A reset that listed
  the amounts before a window began
  (`db/repositories/hbarLimiter/hbarSpendingPlanRepository.ts:152`) moves the reset
  time of its relay into that window (`services/hbarLimitService/index.ts:184`) and
  leaves what was added after its listing, so callers are limited for the earlier
  window: the exception `ResetsLate` in `LimitedForThisWindow`.
- txpool_contentFrom and txpool_content may differ once a sender's key ran out, and
  txpool_status counts transactions of one nonce that txpool_content shows as one.

WebSocket
- `docs/configuration.md:165` calls WS_SUBSCRIPTION_LIMIT the "Maximum amount of
  subscriptions per single connection"; logs subscriptions in flight together
  exceed it (`racing` in `SubscriptionsAreCounted`), and with
  WS_SAME_SUB_FOR_SAME_EVENT the counter drifts upwards.
- A logs subscription whose connection closes during the validation stays for
  ever (`late` in `ClosedIsUnsubscribed`).
- Overlapping requests of one poll can move its cursor past blocks neither
  covered (`overlap` in `LogsReachSubscribers`).

Server
- One item of a batch with an id that no response can carry takes the answers of
  the whole batch, executed items included (`server/src/koaJsonRpc/index.ts:158`).
- A failing single request with the id 0 or "" is answered under the id null
  (`server/src/koaJsonRpc/services/EthereumRPCConformityService.ts:96`); its success,
  and any item of a batch, keeps the id.
- A method named like a member of every object (`toString`, `constructor`) is refused
  for its rate by the store in memory although nothing was let through
  (`services/rateLimiterService/LruRateLimitStore.ts:115`, `Overlooked`). That
  assigning `__proto__` differs from assigning the other names is not modelled.
- The limit of the method `batch_request` in the configuration of the methods is
  never checked. A Redis store that fails lets every request through.

Cache
- `eth.ts:1002` says that with only `fromBlock` logs go "to the latest block". Such
  an answer is stored for up to an hour, because only fields that are there are
  compared with the uncacheable tags (`decorators/cache.decorator.ts:129`).
- The error feeHistory returns for a block beyond the head, and the INTERNAL_ERROR
  eth_call returns when a query fails with anything but an error of the mirror
  node, are cached, and through Redis they are answered as results
  (`ErrorsStayErrors`).
- What a service answers after it swallowed a failure is cached as well: the empty
  history of feeHistory (`FeeService.ts:117`), code that was not found, blocks and
  traces with addresses that were not resolved (`Lenient`).
- `{blockNumber: 'latest'}` of eth_call is not seen as a tag; answers about a block
  beyond the head, logs of a hash that is unknown then, and balances and nonces
  within the tolerance of the latest block, are cached too (`Final`), and so are a
  nonce that fell back to the latest one (`AccountService.ts:481`), the fees up to what
  was the latest block (`FeeService.ts:206`) and the gas price a block quotes
  (`blockWorker.ts:292`).
- eth_call answers the errors FAIL_INVALID and INVALID_TRANSACTION of the mirror node
  as `0x` (`ContractService.ts:504`), which is stored like a result.

Reads and filters
- Blocks imported between the log query and the read of the latest block are
  skipped by a filter, and so is a range whose toBlock is still to come
  (`excused`); a filter that is further behind than the range limit is refused for
  ever (`TooFarBehind`).
- A write of the cursor or a deletion that fails in Redis is swallowed
  (`clients/cache/redisCache/safeRedisCache.ts:53`): the next request answers the same
  changes again, and uninstallFilter answers true for a filter that stays
  (`disturbed`, `retained`).
- eth_getTransactionByHash of a deployment has no `to`
  (`TransactionService.ts:198`), and neither has its receipt; the block lists the
  address that was created (`blockWorker.ts:226`).
- Transactions whose actions fill the pages that are read cannot be traced, and a
  trace made while its transaction was imported may lack the calls, because actions
  and result are read side by side.
- getBalance takes back what happened from the end of the block on, the last
  transaction of the block included (`>=`): the balance is that before it.
- eth_call on the number of a block that does not exist answers `0x`.
- A synthetic transaction with logs of two contracts is listed twice in a block
  with details and once in one without.
- traceBlockByNumber leaves out transactions with WRONG_NONCE only; any other
  transaction that Hedera refused makes the whole trace fail. A prestate trace made
  while an endpoint failed is cached with its gaps.

## Proofs

All theorems hold for every value of the constants under the named assumptions
of the modules: finite sets of connections and requests, positive durations,
chunks, pages and tier limits, well-formed workloads, configurations and transactions
(quantities are natural numbers), blocks that fit into their slots, bounds of
filters that are tags or numbers, lists of addresses without repetitions
(`BlockReadsAssumption`), an HTS precompile that is no contract of the mirror node
(`ContractReadsAssumption`), `None` outside the sessions, and "none" is no
status of the network. The bounds on failures, clocks and chains are constants
like the others: the theorems hold for each of their values.

`RedisLockProofs`. `IInv` adds to TypeOK: tickets number the joins (`TicketInv`),
the queue is sorted by ticket (`QueueInv`), whoever is about to SET NX found
itself first (`FirstInv`), a waiter leaves the queue only by being pruned
(`WaitInv`), and the lock key names whoever is past SET NX unless its TTL ran out
(`OwnerInv`). MutualExclusion follows from `OwnerInv`, because the key has one
value; FifoGrants from `FirstInv` with `WaitInv`. `RefinesFifoLease` maps the lock
key to the owner and the sessions no longer in the list to the dropped ones.

`LocalLockProofs`. The cache has one state per address (`CacheInv`), a session key
belongs to the head of its mutex (`KeyInv`), a session is once in the mutex of its
own state (`MutexInv`), whoever holds is the owner (`HoldInv`), timers belong to
sessions past acquireLock (`TimerInv`), and every owner the cache knows has one
(`OwnerHasTimer`). Two holders of one mutex would both be its session key. The
refinement is proved for any `Watched` state.

`HbarLimiterProofs`. `IInv` is TypeOK, AmountCoversCharges and that a call that adds
or links has a plan (`PlanInv`). Each write either adds to the amount what it adds
to the history, or marks the plan lossy; an eviction marks it too.
AdmissionsWithinLimit is an action property: the check compares the amount, and the
amount covers the charges. LimitsAreOfThisWindow is the other direction, an action
property that needs `WInv`: a reset time is a boundary of a window and at most the
next one (`ResetTimes`), so a new window makes the reset of every relay due; a call
that began in an earlier window is under way, and one of them that still resets was
resetting then (`StaleInv`); and what is left of an earlier window (`Leftovers`),
which only shrinks within a window, is gone once a relay's reset time is ahead, and
is listed by every reset of this window before it deletes (`WindowInv`). The attempt
to prove the property without `ResetsLate` is what showed that race.

`WsSubscriptionsProofs`. `clientIps` equals the number of connections that were
upgraded and not yet closed (`CountInv`), which keeps the counter from becoming
negative and gives the limit per address: a connection opens only after it was
counted. The total limit follows because open connections are sockets.
`PollsServeSubscriptions` is inductive by itself. ClosedIsUnsubscribed needs that
requests come from upgraded connections, subscribe once, and are late if their
connection closed before their validation ended (`RequestInv`).
SubscriptionsAreCounted is `BalanceInv`: the counter with the requests that have
subscribed and not told the limiter covers the subscriptions (`BalanceOf`), and,
as long as no two requests raced, the counter with all requests under way is
within the limit (`RoomOf`), which is what the check of a new request relies on.
LogsReachSubscribers needs that a poll without overlap has at most one request for
data under way, which asks from the cursor and will move it no further than it
asked (`FetchInv`), that a poll's name is never used again after the poll ended, so
that no late answer meets a new poll, and that whoever joined a tag with answers
finds a poll with answers (`JoinInv`).

The second part of `WsSubscriptionsProofs` is `Filters`, over a chain of any blocks.
Its first half is about the queries. Logs are strictly and totally ordered, and in
the order of their blocks (`LogsOrdered`); what `Sorted` returns has every element,
and its last log is of the last block with any (`SortedLogs`, by the pigeonhole
principle on the ranks); the time range of whole blocks holds exactly their logs
(`LogsOfBlocks`), and at a view of whole blocks none is immature (`LogsAtOnce`). So
eth_getLogs answers exactly the blocks of its range that have logs, or nothing when
a bound is not there (`LogsAnswered`), and a page of blocks has all up to its last
(`PageOfBlocks`). From this, one step of a filter (`MovesOn`): the cursor does not go
back, what is answered was ahead of the cursor and is behind it now, and nothing
else that is wanted is passed, except what was imported since the request began or
a range whose toBlock was missing. `FilterInv` then says that the cursor in the
cache, and every cursor that a request in flight has read, has passed only what was
answered or is excused (`CoverInv`; it has to speak of the requests because they
write their copy back); that without overlap and failing writes one request is in
flight and all that was answered is behind every copy (`OneAtATime`), which makes a
repetition impossible; and that an id that was removed and is still or again there,
or may be brought back by a request, was in use when it went or could not be deleted
(`LifeInv`).

`ConsensusProofs`. `ClientInv`: the operations a client served and those it may
still serve are together HAPI_CLIENT_TRANSACTION_RESET, a client whose count is used
up, that served one operation after it was too old, or of which a status was
reported is marked for its renewal, so that none is handed out unheeded, and only an
enabled renewal is ever marked. `FileInv`: a call has no file before it creates one
and knows it from the end of the appending on; it is not submitted before its
transaction succeeded; a deletion begins only when its call ends; and the file of a
submitted call is there only until its deletion succeeds. `ChargeInv`: a charge
belongs to a step its call has taken (`Placed`), so nothing later is charged when a
step fails; and a charge that is in no event, no expense and neither unread nor
rejected is the last of a call, or of a deletion, that ended with an error
(`Ending`). The chunks of an append are one step of the call, so those paid before
the one that fails are covered by the same argument.

`SendRawTransactionProofs`. `LockInv`: the owner is a call with a session key that
has not given the lock back, or one that a failed command stranded, and a call with
a session key between acquireLock and the release is the owner unless its lease ran
out. `QueueInv`: the queue is sorted by arrival and holds every waiter but the
overlooked ones, so nobody under the lock overtook one. SubmittedInOrder follows:
two calls about to submit would both be the owner. `NonceInv`: the executed
transactions used exactly the nonces below cnNonce, and the mirror node is behind.
`OutcomeInv` ties the outcome of a submission to what was executed.
WrongNonceHasCause is part of the invariant: it is established at the submission,
where the nonce the network expects is the missing one, and each of its disjuncts is
never taken back (`Lasting`). TooLowHasCause: under the lock, a pool entry whose
owner has not released contradicts `LockInv`, and an empty pool leaves the mirror
node's nonce, which `NonceInv` bounds.

`TxPoolProofs`. `CallInv` says what a call has checked by the time it gets somewhere:
its static checks passed, its sender exists, and at the state the checks saw it had
the nonce free and could pay (`Affordable`). `LedgerInv`: along the ledger nonces
never go back, and an account whose nonce is the same has the same balance.
AcceptedIsValid follows at the submission: none of the static reasons is left
(`StaticallyValid`), and a nonce or balance that does not do any more means that the
nonce moved between the two states. TypeOK contains that balances are natural
numbers, so no account is overdrawn. `PoolInv`: the entries of a sender are those of
the global index it sent, unless its key ran out; PoolViewsAgree follows, its last
part by counting: the map from entries to (sender, nonce) that has no collision
preserves the cardinality.

`ServerProofs`. Both stores keep windows, and `WindowInv` says of each window, by
counting the admissions in `admitted`, three things: at most the limit was counted
since its start, at most the limit was counted in the Duration before it, and what
the store has used up of the limit is neither less than what it counted nor more
than what was let through since the start (unless that is the limit already). A
method of `Inherited` has no entry of its own in memory; both properties exempt it
there, and the windows say nothing of it. The first two give
AdmittedWithinLimits: an interval of length Duration that ends now lies in the
window and the Duration before it. The last one gives RefusedHasCause. `Window` is
the same for both stores; they differ in where a window starts and ends (`LruOK`:
one window per address, which its first request after the reset opens; `RedisOK`:
one per address and method, while the key lives). Admissions are numbered
(`NumberInv`) so that they can be counted as a set. `RequestInv` ties the answer of
an item to how far the item got (`AnswerOK`), which is what RepliesAreComplete needs
when the answers are put together.

The second part of `ServerProofs` is `MethodCache`, for the methods of the registry
and any calls. `CacheInv`: an entry, and the value of a call that is about to store
one, is what the method answered at a head of the past, or what it answers when a
query fails, and may be stored (`Storable`); what a call answers was evaluated
during the call or is such an entry as the cache returns it (`AnswerStands`). That a
key names its method and all its arguments is what lets an entry stand for the call
that finds it. AnswersAreCurrent then needs `FinalStays`: a storable answer about
blocks that were final at its head is the answer at every later head and the same
gas price, shown for each kind of method. ErrorsStayErrors needs which kinds return
an error instead of throwing it (`ValueStatus`) and which swallow a failure
(`FailedStatus`). The facts about the registry that these need (`RegistryOK`) are
shown group by group.

The third part of `WsSubscriptionsProofs` is the reads. Their properties are of the
state: what the operators answer for every choice of views on any chain that the
import can make, which is all that `ChainSpec` has to supply (`ChainAlways`).
NoImmatureAnswers: a request that is retried ends with its first answer without an
immature record (`RetryEnds`, by the least of the attempts), a record that is mature
stays so (`MatureStays`), and the logs of a transaction come with it, all of them
(`LogsOfTransaction`), so that result and logs are complete, missing or refused
(`ResultEnds`, `LogsEnd`). The proof needs the exception that the property names: a
transaction without a result and with more logs than the pages hold is refused.
LogsOfRange: the range of closed blocks holds the same logs at every view
(`LogsOfClosed`), pages are answered in full or not at all (`FullPages` gives the
size of what is refused), and the merge of the queries of several addresses is
sorted by time and has each log once, because an address is in the list once
(`SortedByAddress`). StateAtBlock and NoncesAtBlock, two of the three parts of
`StatesAtBlock`, rest on `UpToBlock`: up to the end of a closed block every later view
has the same transactions, those of the blocks up to it. The nonce is then that of
the latest of the account's transactions and one more (`LatestTwo`,
`NonceAfterLast`).

Only model-checked: liveness (`WaiterReturns`, `EveryCallEnds`,
`EveryChangeIsAnswered`), which needs fairness and ENABLED; BalancesAtBlock, the rest
of `StatesAtBlock`, because a balance is a sum over a set, which is defined by
recursion and would need induction over data; BlocksAgree and TracesAgree, which
select from sequences (`SelectSeq`, the same), and which also suppose that the
blocks fit the pages and that the mirror node's actions match its transactions, as
those of the instance do.

## Not modelled

Formatting and wording, logging, tracing and Prometheus metrics: no state of the
models depends on them. The workers pool: a library's threads around functions
that the read modules model. Configuration and start-up, with the reconciliation
of preconfigured spending plans: the plans are a constant of `HbarLimiter`. The
decoding of raw transactions, and the evaluation of calls by the mirror node:
external. REST endpoints of the mirror node that no modelled operation uses. Pings
and the duplicate filter of the WebSocket server. The number of entries of the shared
LRU cache: that an entry may be evicted is part of `HbarLimiter` (`Evict`), `Filters`
(`Expire`) and `MethodCache` (`LookUp`).

## Plan

The components of the inventory are modelled, and every safety property of the
locks, the transaction path, the limiters, the caches, the filters, the HTTP and the
WebSocket server is proved, and of the reads those about immature records, logs,
contract state and nonces. What is left:

1. BlocksAgree for every chain that fits the pages, with the selections written as
   sorted sets; the sums of balances need induction.
2. The start-up reconciliation of preconfigured plans as a component of its own.
