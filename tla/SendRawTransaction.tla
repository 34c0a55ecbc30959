-------------------------- MODULE SendRawTransaction --------------------------
(***************************************************************************)
(* eth_sendRawTransaction for ONE sender: TransactionService with the lock  *)
(* (through FifoLease, which RedisLock and LocalLock implement), the        *)
(* pending pool (TransactionPoolService and its storages), the nonce        *)
(* precheck, and the consensus and mirror nodes it talks to.                *)
(*                                                                          *)
(* A transaction is one call of sendRawTransaction.  Every `await` that     *)
(* reads or writes something another call can change is one action.         *)
(***************************************************************************)
EXTENDS Naturals, Sequences, FiniteSets

CONSTANTS Txs,          \* the calls of sendRawTransaction
          None,         \* no call
          Workloads,    \* what the calls may be asked to send
          MaxFaults     \* bound on storage failures, crashes, fail-open locks...

ASSUME SendAssumption ==
  /\ None \notin Txs
  /\ \A w \in Workloads : DOMAIN w = Txs /\ \A t \in Txs : w[t].nonce \in Nat
  /\ MaxFaults \in Nat

VARIABLES async,      \* USE_ASYNC_TX_PROCESSING, fixed when the relay starts
          raw,        \* the signed transaction of each call; calls may repeat one
          queue, owner, dropped, granted,   \* the lock of the sender: FifoLease
          pc,         \* where each call is
          key,        \* the calls that hold a lockSessionKey
          seenNonce,  \* the ethereum_nonce each precheck read from the mirror node
          error,      \* the outcome of submitTransaction of each call
          answer,     \* what the client was told
          pool,       \* the pending set of the sender: raw transactions
          cnNonce,    \* the nonce the consensus nodes expect next
          inNetwork,  \* submitted, outcome unknown to the relay: may still execute
          executed,   \* the calls whose transaction was executed
          mnNonce,    \* the nonce of the account in the mirror node, which lags
          recorded,   \* the executed calls the mirror node knows
          arrived,    \* history: the calls in the order of their acquireLock
          expired,    \* history: the calls whose lock ran out
          overlooked, \* history: the calls that lost their place in the queue
          orphans,    \* history: raw transactions whose removal did not happen
          stranded,   \* history: the calls whose lock was left to its TTL by a failed command
          faults

lease    == <<queue, owner, dropped, granted>>
call     == <<async, raw, pc, key, seenNonce, error, answer>>
network  == <<cnNonce, inNetwork, executed, mnNonce, recorded>>
history  == <<arrived, expired, overlooked, orphans, stranded>>
vars     == <<lease, call, pool, network, history, faults>>

Lease == INSTANCE FifoLease WITH Sessions <- Txs

\* Before consensus submission, and from the save to the removal.
Unsubmitted == {"lock", "gasPrice", "account", "nonce", "save", "submit"}
Pooled      == {"submit", "release", "unpool"}
Location    == Unsubmitted \cup Pooled \cup
               {"arrive", "poll", "wrongNonce", "abort", "answered", "crashed"}
Outcome     == {"none", "timeout", "failed", "WRONG_NONCE", "refused"}
Answer      == {"none", "hash", "INTERNAL_ERROR", "NONCE_TOO_LOW", "NONCE_TOO_HIGH", "error"}

Init ==
  /\ async \in BOOLEAN
  /\ raw \in Workloads
  /\ Lease!LeaseInit
  /\ pc = [t \in Txs |-> "arrive"]
  /\ key = {}
  /\ seenNonce = [t \in Txs |-> 0]
  /\ error = [t \in Txs |-> "none"]
  /\ answer = [t \in Txs |-> "none"]
  /\ pool = {}
  /\ cnNonce = 0 /\ mnNonce = 0
  /\ inNetwork = {} /\ executed = {} /\ recorded = {}
  /\ arrived = <<>>
  /\ expired = {} /\ overlooked = {} /\ orphans = {} /\ stranded = {}
  /\ faults = 0

Nonce(t) == raw[t].nonce

Goto(t, to) == pc' = [pc EXCEPT ![t] = to] /\ UNCHANGED <<async, raw>>

\* The promise of sendRawTransaction settles once: with USE_ASYNC_TX_PROCESSING
\* it already did when the transaction was saved.
Tell(t, a) == answer' = [answer EXCEPT ![t] = IF @ = "none" THEN a ELSE @]

Fault == faults < MaxFaults /\ faults' = faults + 1
----------------------------------------------------------------------------
(* sendRawTransaction: lock, prechecks, pool.                              *)

Arrive(t) ==
  /\ pc[t] = "arrive"
  /\ Lease!Enter(t)
  /\ arrived' = Append(arrived, t)
  /\ Goto(t, "lock")
  /\ UNCHANGED <<key, seenNonce, error, answer, pool, network, expired, overlooked, orphans, stranded, faults>>

\* Mutant: acquireLock returns a session key without waiting.
LockWithoutWaiting(t) ==
  /\ pc[t] = "lock"
  /\ key' = key \cup {t}
  /\ Goto(t, "gasPrice")
  /\ UNCHANGED <<lease, seenNonce, error, answer, pool, network, history, faults>>

\* acquireLock returned a session key: the call has left the queue, unless
\* removeFromQueue failed.
Lock(t) ==
  /\ pc[t] = "lock"
  /\ Lease!Grant(t)
  /\ \/ t \notin Lease!Elems(queue') /\ UNCHANGED faults
     \/ t \in Lease!Elems(queue') /\ Fault
  /\ key' = key \cup {t}
  /\ Goto(t, "gasPrice")
  /\ UNCHANGED <<seenNonce, error, answer, pool, network, history>>

\* acquireLock returned no session key: the call goes on without the lock.  Its
\* entry left the queue, or is still there; and when the command that failed came
\* after SET NX, or was SET NX and took effect, the lock is its own all the same.
FailOpen(t) ==
  /\ pc[t] = "lock"
  /\ \/ (Lease!Drop(t) \/ UNCHANGED lease) /\ UNCHANGED stranded
     \/ Lease!Grant(t) /\ stranded' = stranded \cup {t}
  /\ Fault
  /\ Goto(t, "gasPrice")
  /\ UNCHANGED <<key, seenNonce, error, answer, pool, network, arrived, expired, overlooked, orphans>>

\* releaseLock with the session key, if there is one.  The script does nothing
\* when the lock is another's by now; an error of Redis is swallowed.
GiveBack(t) ==
  \/ /\ t \in key /\ owner = t
     /\ Lease!End
     /\ UNCHANGED <<stranded, faults>>
  \/ /\ t \in key /\ owner = t
     /\ Fault
     /\ stranded' = stranded \cup {t}
     /\ UNCHANGED lease
  \/ /\ t \notin key \/ owner # t
     /\ UNCHANGED <<lease, stranded, faults>>

GasPrice(t) ==
  /\ pc[t] = "gasPrice"
  /\ Goto(t, "account")
  /\ UNCHANGED <<lease, key, seenNonce, error, answer, pool, network, history, faults>>

\* Any other reason to stop before the save: no gas price, a failed precheck.
Reject(t) ==
  /\ pc[t] \in {"gasPrice", "account", "nonce"}
  /\ Goto(t, "abort")
  /\ Tell(t, "error")
  /\ UNCHANGED <<lease, key, seenNonce, error, pool, network, history, faults>>

\* Precheck.verifyAccount, and then the pending count of the sender.
ReadAccount(t) ==
  /\ pc[t] = "account"
  /\ seenNonce' = [seenNonce EXCEPT ![t] = mnNonce]
  /\ Goto(t, "nonce")
  /\ UNCHANGED <<lease, key, error, answer, pool, network, history, faults>>

\* Mutant: the transaction itself is counted as pending.
SignerNonceOffByOne(t) == seenNonce[t] + Cardinality(pool) + 1

SignerNonce(t) == seenNonce[t] + Cardinality(pool)

CheckNonce(t) ==
  /\ pc[t] = "nonce"
  /\ \/ /\ SignerNonce(t) > Nonce(t)
        /\ Goto(t, "abort")
        /\ Tell(t, "NONCE_TOO_LOW")
     \/ /\ SignerNonce(t) <= Nonce(t)
        /\ Goto(t, "save")
        /\ UNCHANGED answer
  /\ UNCHANGED <<lease, key, seenNonce, error, pool, network, history, faults>>

\* Mutant: the lock is released before the transaction is submitted.
SaveAndRelease(t) ==
  /\ pc[t] = "save"
  /\ pool' = pool \cup {raw[t]}
  /\ Goto(t, "submit")
  /\ IF async THEN Tell(t, "hash") ELSE UNCHANGED answer
  /\ IF t \in key /\ owner = t THEN Lease!End ELSE UNCHANGED lease
  /\ UNCHANGED <<key, seenNonce, error, network, history, faults>>

Save(t) ==
  /\ pc[t] = "save"
  /\ pool' = pool \cup {raw[t]}
  /\ Goto(t, "submit")
  /\ IF async THEN Tell(t, "hash") ELSE UNCHANGED answer
  /\ UNCHANGED <<lease, key, seenNonce, error, network, history, faults>>

\* saveTransaction throws, although the entry may have been written.
SaveFails(t) ==
  /\ pc[t] = "save"
  /\ Fault
  /\ \/ UNCHANGED <<pool, orphans>>
     \/ pool' = pool \cup {raw[t]} /\ orphans' = orphans \cup {raw[t]}
  /\ Goto(t, "abort")
  /\ Tell(t, "error")
  /\ UNCHANGED <<lease, key, seenNonce, error, network, arrived, expired, overlooked, stranded>>

\* The catch block: give the lock back, if there is one, and rethrow.
Abort(t) ==
  /\ pc[t] = "abort"
  /\ GiveBack(t)
  /\ Goto(t, "answered")
  /\ UNCHANGED <<key, seenNonce, error, answer, pool, network, arrived, expired, overlooked, orphans>>
----------------------------------------------------------------------------
(* submitTransaction: what the consensus nodes make of it.                 *)

Submitted(t, e) ==
  /\ pc[t] = "submit"
  /\ error' = [error EXCEPT ![t] = e]
  /\ Goto(t, "release")
  /\ UNCHANGED <<lease, key, seenNonce, answer, pool, mnNonce, recorded, history, faults>>

SubmitSucceeds(t) ==
  /\ Submitted(t, "none")
  /\ Nonce(t) = cnNonce
  /\ cnNonce' = cnNonce + 1
  /\ executed' = executed \cup {t}
  /\ UNCHANGED inNetwork

SubmitWrongNonce(t) ==
  /\ Submitted(t, "WRONG_NONCE")
  /\ Nonce(t) # cnNonce
  /\ UNCHANGED <<cnNonce, executed, inNetwork>>

\* "SDK timeout exceeded" or "Connection dropped": an SDKClientError with the
\* transaction id; the transaction may reach consensus later, or never.
SubmitTimesOut(t) ==
  /\ Submitted(t, "timeout")
  /\ inNetwork' = inNetwork \cup {t}
  /\ UNCHANGED <<cnNonce, executed>>

\* Any other SDKClientError: a failed precheck of the node, or a receipt that
\* is not SUCCESS of a transaction that ran (a revert) and used its nonce.
SubmitFails(t) ==
  /\ Submitted(t, "failed")
  /\ \/ Nonce(t) = cnNonce /\ cnNonce' = cnNonce + 1 /\ executed' = executed \cup {t}
     \/ UNCHANGED <<cnNonce, executed>>
  /\ UNCHANGED inNetwork

\* HBAR limit reached, no exchange rate: nothing was sent.
SubmitRefused(t) ==
  /\ Submitted(t, "refused")
  /\ UNCHANGED <<cnNonce, executed, inNetwork>>
----------------------------------------------------------------------------
(* sendRawTransactionProcessor after submitTransaction.                    *)

ReleaseLock(t) ==
  /\ pc[t] = "release"
  /\ GiveBack(t)
  /\ Goto(t, "unpool")
  /\ UNCHANGED <<key, seenNonce, error, answer, pool, network, arrived, expired, overlooked, orphans>>

\* Mutant: only a transaction that went through is removed.
RemoveOnSuccess(t) ==
  /\ pc[t] = "unpool"
  /\ IF error[t] = "none" THEN pool' = pool \ {raw[t]} ELSE UNCHANGED pool
  /\ IF error[t] = "refused"
     THEN Goto(t, "answered") /\ Tell(t, "error")
     ELSE Goto(t, "poll") /\ UNCHANGED answer
  /\ UNCHANGED <<lease, key, seenNonce, error, network, history, faults>>

RemoveFromPool(t) ==
  /\ pc[t] = "unpool"
  /\ pool' = pool \ {raw[t]}
  /\ orphans' = orphans \ {raw[t]}
  /\ IF error[t] = "refused"
     THEN Goto(t, "answered") /\ Tell(t, "error")
     ELSE Goto(t, "poll") /\ UNCHANGED answer
  /\ UNCHANGED <<lease, key, seenNonce, error, network, arrived, expired, overlooked, stranded, faults>>

\* removeTransaction throws: to the catch block of sendRawTransaction, or to
\* nobody when the processor runs in the background.
RemoveFails(t) ==
  /\ pc[t] = "unpool"
  /\ Fault
  /\ orphans' = orphans \cup {raw[t]}
  /\ Goto(t, IF async THEN "answered" ELSE "abort")
  /\ Tell(t, "error")
  /\ UNCHANGED <<lease, key, seenNonce, error, pool, network, arrived, expired, overlooked, stranded>>

\* Mutants: without a record the computed hash is returned; the poll has no
\* limit.
PollReturnsHash(t) ==
  /\ pc[t] = "poll"
  /\ Goto(t, "answered")
  /\ Tell(t, "hash")
  /\ UNCHANGED <<lease, key, seenNonce, error, pool, network, history, faults>>

PollWithoutLimit(t) ==
  /\ pc[t] = "poll"
  /\ t \in recorded
  /\ Goto(t, "answered")
  /\ Tell(t, "hash")
  /\ UNCHANGED <<lease, key, seenNonce, error, pool, network, history, faults>>

\* repeatedRequest(getContractResult): the record was found (its hash may be
\* null; a transaction with the wrong nonce leaves a failed record too), or all
\* the retries went by without an answer of the mirror node.
PollMirrorNode(t) ==
  /\ pc[t] = "poll"
  /\ \/ /\ t \in recorded \/ error[t] = "WRONG_NONCE"
        /\ Goto(t, "answered")
        /\ Tell(t, "hash") \/ Tell(t, "INTERNAL_ERROR")
     \/ /\ IF error[t] = "WRONG_NONCE"
           THEN Goto(t, "wrongNonce") /\ UNCHANGED answer
           ELSE Goto(t, "answered") /\ Tell(t, "INTERNAL_ERROR")
  /\ UNCHANGED <<lease, key, seenNonce, error, pool, network, history, faults>>

\* sendRawTransactionErrorHandler for WRONG_NONCE: poll the account until its
\* nonce is not the transaction's, then compare.  `!accountNonce` holds for
\* null, when the retries are used up, and for 0.  getAccount may throw.
ExplainWrongNonce(t) ==
  /\ pc[t] = "wrongNonce"
  /\ \/ /\ mnNonce # Nonce(t) /\ mnNonce # 0
        /\ Goto(t, "answered")
        /\ Tell(t, IF Nonce(t) > mnNonce THEN "NONCE_TOO_HIGH" ELSE "NONCE_TOO_LOW")
     \/ /\ mnNonce = Nonce(t) \/ mnNonce = 0
        /\ Goto(t, IF async THEN "answered" ELSE "abort")
        /\ Tell(t, "INTERNAL_ERROR")
     \/ /\ Goto(t, IF async THEN "answered" ELSE "abort")
        /\ Tell(t, "error")
  /\ UNCHANGED <<lease, key, seenNonce, error, pool, network, history, faults>>
----------------------------------------------------------------------------
(* The environment.                                                        *)

\* LOCK_MAX_HOLD_MS.
ExpireLease ==
  /\ Lease!End
  /\ expired' = expired \cup {owner}
  /\ UNCHANGED <<call, pool, network, arrived, overlooked, orphans, stranded, faults>>

\* A waiter the lock's janitor took for dead.
Overlook(t) ==
  /\ pc[t] = "lock"
  /\ Lease!Drop(t)
  /\ Fault
  /\ overlooked' = overlooked \cup {t}
  /\ UNCHANGED <<call, pool, network, arrived, expired, orphans, stranded>>

Crash(t) ==
  /\ pc[t] \notin {"arrive", "answered", "crashed"}
  /\ Fault
  /\ Goto(t, "crashed")
  /\ orphans' = IF pc[t] \in Pooled THEN orphans \cup {raw[t]} ELSE orphans
  /\ UNCHANGED <<lease, key, seenNonce, error, answer, pool, network, arrived, expired, overlooked, stranded>>

\* The other waiters remove the entry of one that crashed, or that went on and
\* could not remove it, from the queue.
Prune(t) ==
  /\ pc[t] # "lock"
  /\ Lease!Drop(t)
  /\ UNCHANGED <<call, pool, network, history, faults>>

\* The TTL of the sender's set in Redis.
ExpirePool ==
  /\ pool # {}
  /\ Fault
  /\ pool' = {}
  /\ orphans' = {}
  /\ UNCHANGED <<lease, call, network, arrived, expired, overlooked, stranded>>

\* A transaction whose outcome the relay did not wait for.
LateConsensus(t) ==
  /\ t \in inNetwork
  /\ inNetwork' = inNetwork \ {t}
  /\ \/ Nonce(t) = cnNonce /\ cnNonce' = cnNonce + 1 /\ executed' = executed \cup {t}
     \/ UNCHANGED <<cnNonce, executed>>
  /\ UNCHANGED <<lease, call, pool, mnNonce, recorded, history, faults>>

MirrorImport ==
  /\ \E t \in executed \ recorded :
       Nonce(t) = mnNonce /\ recorded' = recorded \cup {t}
  /\ mnNonce' = mnNonce + 1
  /\ UNCHANGED <<lease, call, pool, cnNonce, inNetwork, executed, history, faults>>
----------------------------------------------------------------------------
Submit(t) ==
  \/ SubmitSucceeds(t) \/ SubmitWrongNonce(t) \/ SubmitTimesOut(t)
  \/ SubmitFails(t) \/ SubmitRefused(t)

Progress(t) ==
  \/ Lock(t) \/ GasPrice(t) \/ Reject(t) \/ ReadAccount(t) \/ CheckNonce(t)
  \/ Save(t) \/ Abort(t) \/ Submit(t) \/ ReleaseLock(t) \/ RemoveFromPool(t)
  \/ PollMirrorNode(t) \/ ExplainWrongNonce(t)

Next ==
  \/ \E t \in Txs :
       \/ Arrive(t) \/ Progress(t) \/ FailOpen(t) \/ SaveFails(t) \/ RemoveFails(t)
       \/ Overlook(t) \/ Crash(t) \/ Prune(t) \/ LateConsensus(t)
  \/ ExpireLease \/ ExpirePool \/ MirrorImport

Spec == Init /\ [][Next]_vars

\* Every call in progress goes on: each await settles, the SDK and the mirror
\* node client give up after their timeouts and retries.  A crashed holder loses
\* its lock, a crashed waiter its place (the liveness of RedisLock).
FairSpec ==
  /\ Spec
  /\ WF_vars(ExpireLease)
  /\ \A t \in Txs : WF_vars(Progress(t)) /\ WF_vars(Prune(t))
----------------------------------------------------------------------------
(* Properties                                                              *)

TypeOK ==
  /\ queue \in Seq(Txs) /\ owner \in Txs \cup {None}
  /\ dropped \subseteq Txs /\ granted \subseteq Txs
  /\ async \in BOOLEAN /\ raw \in Workloads
  /\ pc \in [Txs -> Location]
  /\ key \subseteq Txs
  /\ seenNonce \in [Txs -> Nat]
  /\ error \in [Txs -> Outcome]
  /\ answer \in [Txs -> Answer]
  /\ pool \subseteq {raw[t] : t \in Txs}
  /\ cnNonce \in Nat /\ mnNonce \in Nat
  /\ inNetwork \subseteq Txs /\ executed \subseteq Txs /\ recorded \subseteq executed
  /\ arrived \in Seq(Txs)
  /\ expired \subseteq Txs /\ overlooked \subseteq Txs
  /\ orphans \subseteq {raw[t] : t \in Txs}
  /\ stranded \subseteq Txs
  /\ faults \in 0 .. MaxFaults

Before(u, t) ==
  \E i, j \in DOMAIN arrived : i < j /\ arrived[i] = u /\ arrived[j] = t

\* The calls that went on without the lock, or lost it, or lost their place.
Unlocked == {t \in Txs \ key : pc[t] \notin {"arrive", "lock"}} \cup expired \cup overlooked

\* Transactions of a sender reach the consensus nodes in the order in which
\* they arrived: a call submits only when every earlier one has submitted or
\* given up, unless the lock of one of the two failed open, ran out or was
\* never given to an overlooked waiter.
SubmittedInOrder ==
  [][\A t, u \in Txs :
       /\ pc[t] = "submit" /\ pc'[t] = "release"
       /\ Before(u, t)
       /\ pc[u] \in Unsubmitted
       => t \in Unlocked \/ u \in Unlocked]_vars

\* A transaction did not run at its turn.
NotExecuted(u) ==
  \/ error[u] \in {"timeout", "WRONG_NONCE", "refused"}
  \/ u \notin executed /\ (error[u] = "failed" \/ pc[u] \in {"abort", "answered", "crashed"})

\* The point of nonce ordering: a transaction is refused for its nonce only if
\* the nonce was used already, or one of the smaller nonces has no call that
\* came before, under the lock, and was executed.
WrongNonceHasCause ==
  \A t \in Txs : error[t] = "WRONG_NONCE" =>
    \/ t \in Unlocked
    \/ \E u \in Txs \ {t} : u \in executed /\ Nonce(u) = Nonce(t)
    \/ \E n \in 0 .. Nonce(t) - 1 : \A u \in Txs :
         Nonce(u) = n => ~Before(u, t) \/ u \in Unlocked \/ NotExecuted(u)

\* The precheck of a call under the lock refuses a nonce that is still to be
\* used only because of an entry that outlived its submission: one of a call
\* that released the lock and has not removed it yet, or an orphan.
TooLowHasCause ==
  [][\A t \in Txs :
       pc[t] = "nonce" /\ answer'[t] = "NONCE_TOO_LOW" =>
         \/ Nonce(t) < cnNonce
         \/ t \in Unlocked
         \/ \E r \in pool : \/ r \in orphans
                            \/ \E u \in Txs : raw[u] = r /\ (pc[u] = "unpool" \/ u \in Unlocked)]_vars

\* The answer "hash" of a call that waited for its result means that the
\* transaction was executed, or that the mirror node has its failed record.
HashMeansOutcome ==
  ~async => \A t \in Txs :
    answer[t] = "hash" => t \in executed \/ error[t] = "WRONG_NONCE"

\* A call leaves nothing behind, on whichever path it ends: the lock is left to
\* LOCK_MAX_HOLD_MS only when Redis failed as it was given back, or as
\* acquireLock failed open after it had been taken; and every entry of the pool
\* belongs to a call that will still remove it, or to one that crashed or could
\* not.
EndedCallsLeaveNothing ==
  /\ \A t \in Txs : pc[t] = "answered" => owner # t \/ t \in stranded
  /\ \A r \in pool : r \in orphans \/ \E t \in Txs : raw[t] = r /\ pc[t] \in Pooled

\* Every call ends, unless its process crashes or the lock overlooked it.
EveryCallEnds ==
  \A t \in Txs : pc[t] = "lock" ~> (pc[t] \in {"answered", "crashed"} \/ t \in overlooked)
=============================================================================
