-------------------------------- MODULE TxPool --------------------------------
(***************************************************************************)
(* The checks of a raw transaction before it is submitted (Precheck), the  *)
(* pool of pending transactions in memory or in Redis, and what the txpool *)
(* methods show of it.  The mirror node, where the checks read accounts,   *)
(* is behind the network that executes the transactions.  The nonce lock   *)
(* is off, as by default; module SendRawTransaction is about it.           *)
(***************************************************************************)
EXTENDS Integers, Sequences, FiniteSets

CONSTANTS
    Calls,          \* numbers of the calls of eth_sendRawTransaction, in the order of their arrival
    Shapes,         \* the transactions clients send
    Funds,          \* address -> its balance in tinybars; addresses without an account have none
    Unbalanced,     \* accounts the mirror node answers without a balance
    SignatureRequired,  \* accounts that must sign what they receive
    Subsidized,     \* receivers whose transactions the paymaster pays
    Limits,         \* the configured limits: callData, size, gas
    Chain,          \* CHAIN_ID
    NetworkGasPrice,    \* in weibars, with its buffer
    GasPriceBuffer, \* GAS_PRICE_TINY_BAR_BUFFER
    TinybarToWeibar,    \* TINYBAR_TO_WEIBAR_COEF
    GasCosts,       \* of a transaction, of a zero and of another byte of its call data
    MaxFaults       \* bound of the queries and commands that fail

ASSUME PoolAssumption ==
    /\ TinybarToWeibar \in Nat \ {0} /\ Limits.callData \in Nat /\ MaxFaults \in Nat
    /\ \A a \in DOMAIN Funds : Funds[a] \in Nat
    /\ \A tx \in Shapes :
            /\ tx.nonce \in Nat /\ tx.value \in Nat /\ tx.gasLimit \in Nat /\ tx.zeros \in Nat /\ tx.nonZeros \in Nat
            /\ tx.gasPrice \in Nat /\ tx.maxFeePerGas \in Nat /\ tx.maxPriorityFeePerGas \in Nat

VARIABLES
    storage,    \* "local" or "redis"
    txs,        \* call -> its transaction
    pc,         \* call -> where it is
    answers,    \* call -> the error or the outcome it ends with
    seen,       \* call -> length of the ledger at the mirror node when its account was read
    at,         \* call -> length of the ledger when its transaction was submitted
    ledger,     \* the accounts at first, and after each transaction the network executed
    imported,   \* how much of the ledger the mirror node has
    pending,    \* address -> its pending transactions
    globalIndex,    \* all pending transactions
    lastAdded,  \* address of the latest addToList
    lapsed,     \* addresses whose key in Redis ran out before the global one
    faults

vars == <<storage, txs, pc, answers, seen, at, ledger, imported, pending, globalIndex, lastAdded, lapsed, faults>>

poolVars == <<pending, globalIndex, lastAdded, lapsed>>

Senders == {tx.from : tx \in Shapes}

None == [from |-> "none"]

-----------------------------------------------------------------------------
(* Precheck: each check of a transaction by itself. *)

CallDataSize(tx) == tx.zeros + tx.nonZeros <= Limits.callData

TransactionSize(tx) == tx.size <= Limits.size

TransactionType(tx) == tx.type # 3

TransactionIntrinsicGasCost(tx) == GasCosts.base + GasCosts.zero * tx.zeros + GasCosts.nonZero * tx.nonZeros

IsLegacyUnprotectedEtx(tx) == tx.chainId = 0 /\ tx.v \in {27, 28}

ChainId(tx) == IsLegacyUnprotectedEtx(tx) \/ tx.chainId = Chain

Value(tx) == tx.value = 0 \/ tx.value >= TinybarToWeibar

TxGasPrice(tx) == IF tx.gasPrice # 0 THEN tx.gasPrice ELSE tx.maxFeePerGas + tx.maxPriorityFeePerGas

GasPrice(tx) ==
    \/ TxGasPrice(tx) >= NetworkGasPrice
    \/ tx.deterministicDeployment
    \/ tx.to \in Subsidized
    \/ GasPriceBuffer # 0 /\ TxGasPrice(tx) + GasPriceBuffer >= NetworkGasPrice

Cost(tx) == tx.value + TxGasPrice(tx) * tx.gasLimit

BalanceCoversValue(tx, balance) == balance * TinybarToWeibar >= tx.value

Balance(tx, balance) == balance * TinybarToWeibar >= Cost(tx)

(* The checks that need no account, in their order; "none" if all pass. *)
StaticError(tx) ==
    IF ~tx.parses THEN "INVALID_ARGUMENTS"
    ELSE IF ~CallDataSize(tx) THEN "CALL_DATA_SIZE_LIMIT_EXCEEDED"
    ELSE IF ~TransactionSize(tx) THEN "TRANSACTION_SIZE_LIMIT_EXCEEDED"
    ELSE IF ~TransactionType(tx) THEN "UNSUPPORTED_TRANSACTION_TYPE_3"
    ELSE IF tx.gasLimit > Limits.gas THEN "GAS_LIMIT_TOO_HIGH"
    ELSE IF tx.gasLimit < TransactionIntrinsicGasCost(tx) THEN "GAS_LIMIT_TOO_LOW"
    ELSE IF ~ChainId(tx) THEN "UNSUPPORTED_CHAIN_ID"
    ELSE IF ~Value(tx) THEN "VALUE_TOO_LOW"
    ELSE IF ~GasPrice(tx) THEN "GAS_PRICE_TOO_LOW"
    ELSE "none"

-----------------------------------------------------------------------------
(* The network: the accounts, which the mirror node has up to `imported`. *)

Account(nonce, balance) == [nonce |-> nonce, balance |-> balance]

Genesis == [a \in DOMAIN Funds |-> Account(0, Funds[a] * TinybarToWeibar)]

Latest == ledger[Len(ledger)]

Charged(accounts, tx) ==
    [accounts EXCEPT ![tx.from] = Account(@.nonce + 1, @.balance - Cost(tx))]

-----------------------------------------------------------------------------
Init ==
    /\ storage \in {"local", "redis"}
    /\ txs = [c \in Calls |-> None] /\ pc = [c \in Calls |-> "idle"] /\ answers = [c \in Calls |-> "none"]
    /\ seen = [c \in Calls |-> 1] /\ at = [c \in Calls |-> 1]
    /\ ledger = <<Genesis>> /\ imported = 1
    /\ pending = [a \in Senders |-> {}] /\ globalIndex = {} /\ lastAdded = "none" /\ lapsed = {}
    /\ faults = 0

MayFail == faults < MaxFaults

Answers(c, answer) == pc' = [pc EXCEPT ![c] = "ended"] /\ answers' = [answers EXCEPT ![c] = answer]

Moves(c, step) == pc' = [pc EXCEPT ![c] = step] /\ UNCHANGED answers

(* parseRawTransaction and the checks before the first query. *)
Arrive(c, tx) ==
    /\ pc[c] = "idle" /\ \A d \in Calls : d < c => pc[d] # "idle"
    /\ txs' = [txs EXCEPT ![c] = tx]
    /\ IF StaticError(tx) = "none" THEN Moves(c, "account") ELSE Answers(c, StaticError(tx))
    /\ UNCHANGED <<storage, seen, at, ledger, imported, poolVars, faults>>

(* verifyAccount *)
VerifyAccount(c) ==
    /\ pc[c] = "account"
    /\ seen' = [seen EXCEPT ![c] = imported]
    /\ IF txs[c].from \in DOMAIN Funds THEN Moves(c, "nonce") ELSE Answers(c, "RESOURCE_NOT_FOUND")
    /\ UNCHANGED <<storage, txs, at, ledger, imported, poolVars, faults>>

Count(a) == Cardinality(pending[a])

(* After the pending count was read: nonce, balance, accessList. *)
AccountError(c) ==
    LET tx == txs[c]
        account == ledger[seen[c]][tx.from]
    IN  IF account.nonce + Count(tx.from) > tx.nonce THEN "NONCE_TOO_LOW"
        ELSE IF tx.from \in Unbalanced THEN "RESOURCE_NOT_FOUND"
        ELSE IF ~Balance(tx, account.balance \div TinybarToWeibar) THEN "INSUFFICIENT_ACCOUNT_BALANCE"
        ELSE IF tx.accessList THEN "NOT_YET_IMPLEMENTED"
        ELSE "none"

CheckAccount(c) ==
    /\ pc[c] = "nonce"
    /\ IF AccountError(c) = "none" THEN Moves(c, IF txs[c].to = "none" THEN "save" ELSE "receiver")
       ELSE Answers(c, AccountError(c))
    /\ UNCHANGED <<storage, txs, seen, at, ledger, imported, poolVars, faults>>

ReceiverAccount(c) ==
    /\ pc[c] = "receiver"
    /\ IF txs[c].to \in SignatureRequired THEN Answers(c, "RECEIVER_SIGNATURE_ENABLED") ELSE Moves(c, "save")
    /\ UNCHANGED <<storage, txs, seen, at, ledger, imported, poolVars, faults>>

(* A query of the mirror node or a command of Redis fails: the call ends with it, before its submission. *)
Fail(c) ==
    /\ MayFail
    /\ pc[c] \in {"account", "receiver"} \/ (storage = "redis" /\ pc[c] \in {"nonce", "save"})
    /\ faults' = faults + 1
    /\ Answers(c, "INTERNAL_ERROR")
    /\ UNCHANGED <<storage, txs, seen, at, ledger, imported, poolVars>>

-----------------------------------------------------------------------------
(* The pool.  An entry is the serialized transaction: equal transactions are one entry. *)

AddToList(a, tx) ==
    /\ pending' = [pending EXCEPT ![a] = @ \cup {tx}]
    /\ globalIndex' = globalIndex \cup {tx}
    /\ lastAdded' = a
    /\ lapsed' = IF pending[a] = {} /\ ~\E t \in globalIndex : t.from = a THEN lapsed \ {a} ELSE lapsed

RemoveFromAddress(a, tx) ==
    /\ pending' = [pending EXCEPT ![a] = @ \ {tx}]
    /\ UNCHANGED <<globalIndex, lastAdded, lapsed>>

RemoveFromList(a, tx) ==
    /\ pending' = [pending EXCEPT ![a] = @ \ {tx}]
    /\ globalIndex' = globalIndex \ {tx}
    /\ UNCHANGED <<lastAdded, lapsed>>

SaveTransaction(c) ==
    /\ pc[c] = "save"
    /\ AddToList(txs[c].from, txs[c])
    /\ Moves(c, "submit")
    /\ UNCHANGED <<storage, txs, seen, at, ledger, imported, faults>>

(* removeTransaction, after the submission; an error of Redis ends the call and leaves the entry. *)
RemoveTransaction(c) ==
    /\ pc[c] = "remove"
    /\ pc' = [pc EXCEPT ![c] = "ended"]
    /\ \/ RemoveFromList(txs[c].from, txs[c]) /\ UNCHANGED faults
       \/ storage = "redis" /\ MayFail /\ faults' = faults + 1 /\ UNCHANGED poolVars
    /\ UNCHANGED <<storage, txs, answers, seen, at, ledger, imported>>

(* The TTL of an address is set anew with each of its transactions, the global one with every transaction: another         *)
(* address may keep the global key alive, and no key outlives it.                                                          *)
ExpireAddress(a) ==
    /\ storage = "redis" /\ a # lastAdded /\ pending[a] # {}
    /\ pending' = [pending EXCEPT ![a] = {}]
    /\ lapsed' = lapsed \cup {a}
    /\ UNCHANGED <<storage, txs, pc, answers, seen, at, ledger, imported, globalIndex, lastAdded, faults>>

ExpireAll ==
    /\ storage = "redis" /\ globalIndex # {}
    /\ pending' = [a \in Senders |-> {}] /\ globalIndex' = {} /\ lapsed' = {}
    /\ UNCHANGED <<storage, txs, pc, answers, seen, at, ledger, imported, lastAdded, faults>>

-----------------------------------------------------------------------------
(* The network: a transaction is executed if it is one of this chain, pays for its call data, is the next of its account   *)
(* and the account can pay it.                                                                                             *)
Outcome(tx) ==
    IF tx.chainId \notin {0, Chain} THEN "WRONG_CHAIN_ID"
    ELSE IF tx.gasLimit < TransactionIntrinsicGasCost(tx) THEN "INSUFFICIENT_GAS"
    ELSE IF tx.zeros + tx.nonZeros > Limits.callData THEN "TRANSACTION_OVERSIZE"
    ELSE IF tx.nonce # Latest[tx.from].nonce THEN "WRONG_NONCE"
    ELSE IF Cost(tx) > Latest[tx.from].balance THEN "INSUFFICIENT_PAYER_BALANCE"
    ELSE "SUCCESS"

Submit(c) ==
    /\ pc[c] = "submit"
    /\ pc' = [pc EXCEPT ![c] = "remove"]
    /\ answers' = [answers EXCEPT ![c] = Outcome(txs[c])]
    /\ at' = [at EXCEPT ![c] = Len(ledger)]
    /\ ledger' = IF Outcome(txs[c]) = "SUCCESS" THEN Append(ledger, Charged(Latest, txs[c])) ELSE ledger
    /\ UNCHANGED <<storage, txs, seen, imported, poolVars, faults>>

Import ==
    /\ imported < Len(ledger)
    /\ imported' = imported + 1
    /\ UNCHANGED <<storage, txs, pc, answers, seen, at, ledger, poolVars, faults>>

Next ==
    \/ \E c \in Calls, tx \in Shapes : Arrive(c, tx)
    \/ \E c \in Calls :
            VerifyAccount(c) \/ CheckAccount(c) \/ ReceiverAccount(c) \/ SaveTransaction(c) \/ Submit(c) \/ RemoveTransaction(c)
                \/ Fail(c)
    \/ \E a \in Senders : ExpireAddress(a)
    \/ ExpireAll
    \/ Import

Spec == Init /\ [][Next]_vars

-----------------------------------------------------------------------------
(* The txpool methods. *)

(* groupByNonce: transactions of one nonce are shown as one. *)
GroupByNonce(transactions) == {tx.nonce : tx \in transactions}

GroupByAddressAndNonce(transactions) == {<<tx.from, tx.nonce>> : tx \in transactions}

Content == GroupByAddressAndNonce(globalIndex)

ContentFrom(a) == GroupByNonce(pending[a])

Status == Cardinality(globalIndex)

-----------------------------------------------------------------------------
Errors ==
    {"INVALID_ARGUMENTS", "CALL_DATA_SIZE_LIMIT_EXCEEDED", "TRANSACTION_SIZE_LIMIT_EXCEEDED", "UNSUPPORTED_TRANSACTION_TYPE_3",
     "GAS_LIMIT_TOO_HIGH", "GAS_LIMIT_TOO_LOW", "UNSUPPORTED_CHAIN_ID", "VALUE_TOO_LOW", "GAS_PRICE_TOO_LOW",
     "RESOURCE_NOT_FOUND", "NONCE_TOO_LOW", "INSUFFICIENT_ACCOUNT_BALANCE", "NOT_YET_IMPLEMENTED",
     "RECEIVER_SIGNATURE_ENABLED", "INTERNAL_ERROR"}

Outcomes ==
    {"SUCCESS", "WRONG_NONCE", "INSUFFICIENT_PAYER_BALANCE", "WRONG_CHAIN_ID", "INSUFFICIENT_GAS", "TRANSACTION_OVERSIZE"}

TypeOK ==
    /\ storage \in {"local", "redis"}
    /\ txs \in [Calls -> Shapes \cup {None}]
    /\ pc \in [Calls -> {"idle", "account", "nonce", "receiver", "save", "submit", "remove", "ended"}]
    /\ answers \in [Calls -> {"none"} \cup Errors \cup Outcomes]
    /\ ledger \in Seq([DOMAIN Funds -> [nonce : Nat, balance : Nat]])
    /\ imported \in DOMAIN ledger
    /\ seen \in [Calls -> DOMAIN ledger] /\ at \in [Calls -> DOMAIN ledger]
    /\ pending \in [Senders -> SUBSET Shapes] /\ globalIndex \subseteq Shapes
    /\ lastAdded \in Senders \cup {"none"} /\ lapsed \subseteq Senders
    /\ faults \in 0 .. MaxFaults

Executed(c) == answers[c] \in Outcomes

(* A transaction that passed the checks is not refused by the network for what the relay checks, except for a nonce that   *)
(* is still too high, or for a nonce or a balance that another transaction of the sender used up after the state the       *)
(* checks saw (precheck.ts, sendRawTransactionCheck: the balance is compared with one transaction at a time, and with what *)
(* the mirror node knows).                                                                                                 *)
AcceptedIsValid ==
    \A c \in Calls :
        Executed(c) =>
            \/ answers[c] = "SUCCESS"
            \/ answers[c] = "WRONG_NONCE" /\ txs[c].nonce > ledger[at[c]][txs[c].from].nonce
            \/ /\ answers[c] \in {"WRONG_NONCE", "INSUFFICIENT_PAYER_BALANCE"}
               /\ ledger[at[c]][txs[c].from].nonce > ledger[seen[c]][txs[c].from].nonce

(* What txpool_contentFrom shows of a sender is in txpool_content, and the other way round unless the key of the sender    *)
(* ran out; txpool_status counts what txpool_content shows, except transactions with the sender and the nonce of another   *)
(* (txpool.ts; addToList, removeFromList and the TTLs of RedisPendingTransactionStorage).                                  *)
PoolViewsAgree ==
    /\ \A a \in Senders :
            LET shown == {n \in {tx.nonce : tx \in Shapes} : <<a, n>> \in Content}
            IN  /\ ContentFrom(a) \subseteq shown
                /\ shown # ContentFrom(a) => a \in lapsed
    /\ Status # Cardinality(Content) => \E t, u \in globalIndex : t # u /\ t.from = u.from /\ t.nonce = u.nonce
================================================================================
