------------------------------ MODULE AccountReads ------------------------------
(***************************************************************************)
(* AccountService: eth_getBalance and eth_getTransactionCount at a block,  *)
(* computed from the current account, its transactions and snapshots.      *)
(***************************************************************************)
EXTENDS EthCommon, FiniteSetsExt

CONSTANTS
    Accounts,         \* the accounts that exist
    InitialBalance,   \* of every account
    BalancesInterval, \* BALANCES_UPDATE_INTERVAL
    AccountPage,      \* MIRROR_NODE_QUERY_LIMIT
    PendingCount      \* transactions of a sender in the transaction pool

LatestTolerance == 1

-----------------------------------------------------------------------------
(* The accounts of the mirror node. *)

Delta(a, id) ==
    IF Tx(id).result # "SUCCESS" THEN 0
    ELSE (IF Tx(id).to = a THEN Tx(id).amount ELSE 0)
       - (IF Tx(id).from = a THEN Tx(id).amount ELSE 0)

BalanceAfter(a, ids) == InitialBalance + MapThenSumSet(LAMBDA id : Delta(a, id), ids)

(* The transactions of an account, the ones it received from included. *)
TransactionsOf(a, h) == {id \in Transactions(h) : a \in {Tx(id).from, Tx(id).to}}

LatestOf(ids, k) == {x \in ids : Cardinality({y \in ids : TimeOf(y) > TimeOf(x)}) < k}

Nonces(a, ids) ==
    Cardinality({id \in ids : Tx(id).kind = "eth" /\ Tx(id).from = a
                                 /\ Tx(id).result # "WRONG_NONCE"})

WrongNonce == 7

NonceOf(id) ==
    IF Tx(id).result = "WRONG_NONCE" THEN WrongNonce
    ELSE Nonces(Tx(id).from,
                {x \in (0 .. id[1]) \X (1 .. Slots) :
                    x[2] <= Len(chain[x[1] + 1]) /\ TimeOf(x) < TimeOf(id)})

GetAccount(a, h) ==
    Get("accounts", a \in Accounts,
        [balance |-> BalanceAfter(a, Transactions(h)), nonce |-> Nonces(a, Transactions(h))])

(* The snapshot of balances that was taken last. *)
GetBalanceAtTimestamp(a, t, h) ==
    BalanceAfter(a, {id \in Transactions(h) :
                        TimeOf(id) < (t \div BalancesInterval) * BalancesInterval})

-----------------------------------------------------------------------------
(* eth_getBalance *)

(* Mutant: the whole block is taken back. *)
GetBalanceAtBlockStart(a, ids, n) ==
    MapThenSumSet(LAMBDA id : Delta(a, id), {id \in ids : TimeOf(id) >= Start(n)})

(* What the account's transactions from the end of the block on moved; the  *)
(* last transaction of the block is at its end.                             *)
GetBalanceAtBlockTimestamp(a, ids, n) ==
    MapThenSumSet(LAMBDA id : Delta(a, id), {id \in ids : TimeOf(id) >= End(n)})

(* The transactions on the pages after the first are asked for only when    *)
(* the first one does not reach back to the end of the block.               *)
GetPagedTransactions(a, n, h) ==
    LET first == LatestOf(TransactionsOf(a, h), AccountPage)
        rest  == TransactionsOf(a, h) \ first
        full  == Cardinality(first) = AccountPage
    IN  IF full /\ \A id \in first : TimeOf(id) >= End(n)
        THEN LET more == GetPaginatedResults(rest, 20)
             IN  IF more.st = "ok" THEN Ok(first \cup more.val) ELSE more
        ELSE Ok(first)

(* latest: the latest block as it was read before. *)
GetBalanceAtBlockNumber(a, n, latest, h) ==
    LET account == GetAccount(a, h)
        ids     == GetPagedTransactions(a, n, h)
    IN  IF End(latest) - Start(n) > BalancesInterval
        THEN Ok(GetBalanceAtTimestamp(a, Start(n), h))
        ELSE IF account.st # "ok" THEN account
        ELSE IF ids.st # "ok" THEN ids
        ELSE Ok(account.val.balance - GetBalanceAtBlockTimestamp(a, ids.val, n))

(* A block at most one behind the latest counts as the latest (cached: the  *)
(* number of the latest block as an eth_getBalance before cached it; its    *)
(* timestamp is read anew).                                                 *)
ExtractBlockNumberAndTimestamp(p, cached) ==
    IF p.tag \in {"number", "hash"} /\ cached - p.n <= LatestTolerance
    THEN Tag("latest") ELSE p

(* vs: the views of the latest block, of the block and of the account.      *)
GetBalance(a, p, cached, vs) ==
    LET q     == IF BlockTagIsLatestOrPending(p) THEN p
                 ELSE ExtractBlockNumberAndTimestamp(p, cached)
        n     == GetHistoricalBlockResponse(q, vs[2], vs[2])
        exact == IF BlockTagIsLatestOrPending(q) \/ n = NoBlock THEN Null
                 ELSE GetBalanceAtBlockNumber(a, n, GetLatestBlock(vs[1]), vs[3])
        now   == GetAccount(a, vs[3])
    IN  CASE exact.st = "ok"   -> exact
          [] exact.st = "null" -> Ok(IF now.st = "ok" THEN now.val.balance ELSE 0)
          [] OTHER             -> exact

-----------------------------------------------------------------------------
(* eth_getTransactionCount *)

GetAccountLatestEthereumNonce(a, h) ==
    LET account == GetAccount(a, h) IN Ok(IF account.st = "ok" THEN account.val.nonce ELSE 0)

(* Mutant: the nonce of the last transaction is taken for the next one. *)
LastNonceIsNext(a, n, h) ==
    LET two == LatestOf({id \in TransactionsOf(a, h) : Tx(id).kind = "eth"
                                                        /\ TimeOf(id) <= End(n)}, 2)
    IN  Ok(IF two = {} THEN 0 ELSE NonceOf(CHOOSE x \in two : \A y \in two : TimeOf(x) >= TimeOf(y)))

(* From the last two Ethereum transactions of the account up to the block.  *)
GetAccountNonceFromContractResult(a, n, h) ==
    LET upTo == {id \in TransactionsOf(a, h) : Tx(id).kind = "eth" /\ TimeOf(id) <= End(n)}
        two  == LatestOf(upTo, 2)
        last == CHOOSE x \in two : \A y \in two : TimeOf(x) >= TimeOf(y)
    IN  CASE n = NoBlock              -> Err("UNKNOWN_BLOCK")
          [] n # NoBlock /\ two = {}  -> Ok(0)
          [] n # NoBlock /\ Cardinality(two) = 1 -> Ok(1)
          [] OTHER -> IF Tx(last).from = a THEN Ok(NonceOf(last) + 1)
                      ELSE GetAccountLatestEthereumNonce(a, h)

GetAccountNonceForHistoricBlock(a, k, h, g) ==
    IF GetLatestBlock(h) - k <= MaxBlockRange
    THEN GetAccountLatestEthereumNonce(a, g)
    ELSE GetAccountNonceFromContractResult(a, GetBlock(k, g), g)

GetAccountNonceForEarliestBlock(h) ==
    IF GetEarliestBlock(h) = NoBlock THEN Err("INTERNAL_ERROR") ELSE Ok(0)

GetTransactionCount(a, p, vs) ==
    CASE p.tag = "number" /\ p.n \in {0, 1} -> Ok(0)
      [] p.tag = "pending" -> Ok(GetAccountLatestEthereumNonce(a, vs[2]).val + PendingCount)
      [] BlockTagIsLatestOrPending(p) /\ p.tag # "pending" ->
           GetAccountLatestEthereumNonce(a, vs[2])
      [] p.tag = "earliest" -> GetAccountNonceForEarliestBlock(vs[2])
      [] OTHER -> GetAccountNonceForHistoricBlock(a, p.n, vs[1], vs[3])

-----------------------------------------------------------------------------
(* What the chain says: the state after the block n. *)

UpTo(n) == {id \in Transactions(2 * Len(chain)) : id[1] <= n}

Triples == {vs \in [1 .. 3 -> {v \in Views : v % 2 = 0}] : vs[1] <= vs[2] /\ vs[2] <= vs[3]}

LastOf(n) == <<n, Len(chain[n + 1])>>

(* The balance of a block that is not old enough for a snapshot is that     *)
(* after the block, or after all of the block but its last transaction; of  *)
(* the newest two blocks it is the current one.                             *)
BalanceIsThatOfTheBlock(a, n, cached, vs) ==
    LET b == GetBalance(a, Number(n), cached, vs) IN
    IF cached - n <= LatestTolerance
    THEN b.val = BalanceAfter(a, Transactions(vs[3]))
    ELSE End(GetLatestBlock(vs[1])) - Start(n) <= BalancesInterval =>
           b.val \in {BalanceAfter(a, UpTo(n)), BalanceAfter(a, UpTo(n) \ {LastOf(n)})}

(* The nonce of a block before the newest MaxBlockRange ones is the number  *)
(* of the sender's transactions up to it, unless the account took part in a *)
(* later transaction of another sender, or sent a wrong nonce, by then.     *)
NonceIsThatOfTheBlock(a, n, vs) ==
    LET own  == {id \in UpTo(n) \cap TransactionsOf(a, vs[3]) : Tx(id).kind = "eth"}
        last == LatestOf(own, 1)
        c    == GetTransactionCount(a, Number(n), vs)
    IN  /\ n > 1 /\ GetLatestBlock(vs[1]) - n <= MaxBlockRange
             => c.val = Nonces(a, Transactions(vs[3]))
        /\ n > 1 /\ GetLatestBlock(vs[1]) - n > MaxBlockRange
             /\ (\A id \in last : Tx(id).from = a /\ Tx(id).result # "WRONG_NONCE")
             => c.val = Nonces(a, UpTo(n))

(* eth_getBalance, at any block and with any latest block that was cached.   *)
BalancesAtBlock ==
    \A a \in Accounts, n \in 0 .. Len(chain) - 1, vs \in Triples :
        n < Closed(vs[1]) =>
            \A cached \in n .. GetLatestBlock(vs[1]) : BalanceIsThatOfTheBlock(a, n, cached, vs)

(* eth_getTransactionCount, at any block.                                   *)
NoncesAtBlock ==
    \A a \in Accounts, n \in 0 .. Len(chain) - 1, vs \in Triples :
        n < Closed(vs[1]) => NonceIsThatOfTheBlock(a, n, vs)

(* eth_getBalance and eth_getTransactionCount answer for the block they     *)
(* were asked about, whatever was imported between their queries and        *)
(* whichever of their three ways of finding out they take.                  *)
AccountsAtBlock == BalancesAtBlock /\ NoncesAtBlock
=============================================================================
