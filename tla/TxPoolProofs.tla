----------------------------- MODULE TxPoolProofs -----------------------------
(***************************************************************************)
(* Why a transaction that passed the checks may still be refused, and where *)
(* the views of the pool may differ, for any number of calls, any           *)
(* transactions and any balances.                                           *)
(***************************************************************************)
EXTENDS TxPool, FiniteSetTheorems, TLAPS

(* At the state its checks saw, the sender of a call has the nonce free and can pay. *)
Affordable(c) ==
    LET account == ledger[seen[c]][txs[c].from]
    IN  account.nonce <= txs[c].nonce /\ Cost(txs[c]) <= account.balance

(* What a call has checked by the time it gets somewhere. *)
CallOK(c) ==
    /\ pc[c] # "idle" => txs[c] \in Shapes
    /\ pc[c] \notin {"remove", "ended"} => answers[c] = "none"
    /\ pc[c] \in {"account", "nonce", "receiver", "save", "submit"} => StaticError(txs[c]) = "none"
    /\ pc[c] \in {"nonce", "receiver", "save", "submit"} => txs[c].from \in DOMAIN Funds
    /\ pc[c] \in {"receiver", "save", "submit"} => Affordable(c)

CallInv == \A c \in Calls : CallOK(c)

(* Nonces never go back, and an account that paid has a higher one. *)
LedgerInv ==
    \A m, n \in DOMAIN ledger : m <= n =>
        \A a \in DOMAIN Funds :
            /\ ledger[m][a].nonce <= ledger[n][a].nonce
            /\ ledger[m][a].nonce = ledger[n][a].nonce => ledger[m][a].balance = ledger[n][a].balance

(* The entries of an address are those of the global index that it sent, unless its key ran out. *)
PoolInv ==
    /\ IsFiniteSet(globalIndex)
    /\ \A a \in Senders :
            /\ pending[a] \subseteq {tx \in globalIndex : tx.from = a}
            /\ a \notin lapsed => {tx \in globalIndex : tx.from = a} \subseteq pending[a]

IInv == TypeOK /\ CallInv /\ LedgerInv /\ PoolInv /\ AcceptedIsValid

Steps == {"idle", "account", "nonce", "receiver", "save", "submit", "remove", "ended"}

Accounts == [DOMAIN Funds -> [nonce : Nat, balance : Nat]]
-----------------------------------------------------------------------------
(* The checks.                                                             *)

(* A transaction costs a natural number of weibars. *)
LEMMA CostType ==
  ASSUME NEW tx \in Shapes
  PROVE  Cost(tx) \in Nat
  <1>1. TxGasPrice(tx) \in Nat /\ tx.gasLimit \in Nat /\ tx.value \in Nat
    BY PoolAssumption DEF TxGasPrice
  <1>2. TxGasPrice(tx) * tx.gasLimit \in Nat
    BY <1>1
  <1> QED
    BY <1>1, <1>2 DEF Cost

(* What passes the checks that need no account is not refused by the network for any of the reasons they cover. *)
LEMMA StaticallyValid ==
  ASSUME NEW tx \in Shapes, StaticError(tx) = "none"
  PROVE  /\ tx.chainId \in {0, Chain}
         /\ ~(tx.gasLimit < TransactionIntrinsicGasCost(tx))
         /\ ~(tx.zeros + tx.nonZeros > Limits.callData)
  <1>1. CallDataSize(tx) /\ ChainId(tx) /\ ~(tx.gasLimit < TransactionIntrinsicGasCost(tx))
    BY DEF StaticError
  <1>2. ~(tx.zeros + tx.nonZeros > Limits.callData)
    BY <1>1, PoolAssumption DEF CallDataSize
  <1> QED
    BY <1>1, <1>2 DEF ChainId, IsLegacyUnprotectedEtx

(* The checks answer with errors, the network with outcomes. *)
LEMMA AnswerTypes ==
  ASSUME NEW tx, NEW c
  PROVE  /\ StaticError(tx) \in {"none"} \cup Errors
         /\ AccountError(c) \in {"none"} \cup Errors
         /\ Outcome(tx) \in Outcomes
         /\ ({"none"} \cup Errors) \cap Outcomes = {}
  <1>1. StaticError(tx) \in {"none"} \cup Errors
    BY DEF StaticError, Errors
  <1>2. AccountError(c) \in {"none"} \cup Errors
    BY DEF AccountError, Errors
  <1>3. Outcome(tx) \in Outcomes
    BY DEF Outcome, Outcomes
  <1>4. ({"none"} \cup Errors) \cap Outcomes = {}
    BY DEF Errors, Outcomes
  <1> QED
    BY <1>1, <1>2, <1>3, <1>4

(* An account of the ledger is one. *)
LEMMA AccountType ==
  ASSUME TypeOK, NEW n \in DOMAIN ledger, NEW a \in DOMAIN Funds
  PROVE  ledger[n][a].nonce \in Nat /\ ledger[n][a].balance \in Nat
  <1>1. ledger[n] \in Accounts
    BY DEF TypeOK, Accounts
  <1>2. ledger[n][a] \in [nonce : Nat, balance : Nat]
    BY <1>1 DEF Accounts
  <1> QED
    BY <1>2

(* The checks of the account leave the nonce free and the cost covered, at the state they saw. *)
LEMMA ChecksAfford ==
  ASSUME TypeOK, PoolInv, NEW c \in Calls, txs[c] \in Shapes, txs[c].from \in DOMAIN Funds,
         AccountError(c) = "none"
  PROVE  Affordable(c)
  <1> DEFINE tx == txs[c]
             account == ledger[seen[c]][tx.from]
  <1>1. account.nonce \in Nat /\ account.balance \in Nat
    <2>1. seen[c] \in DOMAIN ledger
      BY DEF TypeOK
    <2> QED
      BY <2>1, AccountType
  <1>2. Count(tx.from) \in Nat
    <2>1. tx.from \in Senders
      BY DEF Senders
    <2>2. pending[tx.from] \in SUBSET globalIndex /\ IsFiniteSet(globalIndex)
      BY <2>1 DEF PoolInv
    <2>3. IsFiniteSet(pending[tx.from])
      BY <2>2, FS_Subset
    <2> QED
      BY <2>3, FS_CardinalityType DEF Count
  <1>3. tx.nonce \in Nat /\ Cost(tx) \in Nat
    BY CostType, PoolAssumption
  <1>4. /\ ~(account.nonce + Count(tx.from) > tx.nonce)
        /\ (account.balance \div TinybarToWeibar) * TinybarToWeibar >= Cost(tx)
    BY DEF AccountError, Balance
  <1>5. (account.balance \div TinybarToWeibar) * TinybarToWeibar <= account.balance
    <2>1. ASSUME NEW n \in Nat, NEW d \in Nat \ {0}
          PROVE  (n \div d) * d \in Nat /\ (n \div d) * d <= n
      OBVIOUS
    <2> QED
      BY <1>1, <2>1, PoolAssumption
  <1>6. (account.balance \div TinybarToWeibar) * TinybarToWeibar \in Nat
    <2>1. ASSUME NEW n \in Nat, NEW d \in Nat \ {0}
          PROVE  (n \div d) * d \in Nat
      OBVIOUS
    <2> QED
      BY <1>1, <2>1, PoolAssumption
  <1> HIDE DEF account, tx
  <1>7. account.nonce <= tx.nonce
    BY <1>1, <1>2, <1>3, <1>4
  <1>8. Cost(tx) <= account.balance
    <2> DEFINE rounded == (account.balance \div TinybarToWeibar) * TinybarToWeibar
    <2>1. rounded \in Nat /\ rounded >= Cost(tx) /\ rounded <= account.balance
      BY <1>4, <1>5, <1>6
    <2> HIDE DEF rounded
    <2> QED
      BY <1>1, <1>3, <2>1
  <1> QED
    BY <1>7, <1>8 DEF Affordable, account, tx
-----------------------------------------------------------------------------
(* The ledger.                                                             *)

(* A transaction that is executed is one its account can pay. *)
LEMMA OutcomeSuccess ==
  ASSUME NEW tx, Outcome(tx) = "SUCCESS"
  PROVE  tx.nonce = Latest[tx.from].nonce /\ ~(Cost(tx) > Latest[tx.from].balance)
  BY DEF Outcome

(* The accounts after a transaction. *)
LEMMA ChargedType ==
  ASSUME TypeOK, NEW tx \in Shapes, tx.from \in DOMAIN Funds, Outcome(tx) = "SUCCESS"
  PROVE  /\ Charged(Latest, tx) \in Accounts
         /\ Charged(Latest, tx)[tx.from].nonce = Latest[tx.from].nonce + 1
         /\ \A a \in DOMAIN Funds : a # tx.from => Charged(Latest, tx)[a] = Latest[a]
  <1>1. Len(ledger) \in DOMAIN ledger /\ Latest \in Accounts
    BY DEF TypeOK, Accounts, Latest
  <1>2. Latest[tx.from].nonce \in Nat /\ Latest[tx.from].balance \in Nat
    BY <1>1, AccountType DEF Latest
  <1>3. Cost(tx) \in Nat /\ Cost(tx) <= Latest[tx.from].balance
    BY <1>2, CostType, OutcomeSuccess
  <1>4. Latest[tx.from].nonce + 1 \in Nat /\ Latest[tx.from].balance - Cost(tx) \in Nat
    BY <1>2, <1>3
  <1> QED
    BY <1>1, <1>4 DEF Charged, Account, Accounts

(* A submission appends what it charges, or nothing. *)
LEMMA SubmitLedger ==
  ASSUME TypeOK, CallInv, NEW c \in Calls, Submit(c)
  PROVE  /\ txs[c] \in Shapes /\ txs[c].from \in DOMAIN Funds
         /\ ledger' \in Seq(Accounts) /\ DOMAIN ledger \subseteq DOMAIN ledger'
         /\ \A n \in DOMAIN ledger : ledger'[n] = ledger[n]
         /\ \/ ledger' = ledger
            \/ /\ Outcome(txs[c]) = "SUCCESS"
               /\ DOMAIN ledger' = 1 .. Len(ledger) + 1
               /\ ledger'[Len(ledger) + 1] = Charged(Latest, txs[c])
  <1>1. txs[c] \in Shapes /\ txs[c].from \in DOMAIN Funds
    BY DEF CallInv, CallOK, Submit
  <1>2. ledger \in Seq(Accounts)
    BY DEF TypeOK, Accounts
  <1>3. CASE Outcome(txs[c]) = "SUCCESS"
    <2>1. ledger' = Append(ledger, Charged(Latest, txs[c])) /\ Charged(Latest, txs[c]) \in Accounts
      BY <1>1, <1>3, ChargedType DEF Submit
    <2> QED
      BY <1>1, <1>2, <1>3, <2>1
  <1>4. CASE Outcome(txs[c]) # "SUCCESS"
    BY <1>1, <1>2, <1>4 DEF Submit
  <1> QED
    BY <1>3, <1>4

(* The next state of the ledger is in order again. *)
LEMMA SubmitOrder ==
  ASSUME TypeOK, CallInv, LedgerInv, NEW c \in Calls, Submit(c)
  PROVE  LedgerInv'
  <1>1. /\ txs[c] \in Shapes /\ txs[c].from \in DOMAIN Funds
        /\ \A n \in DOMAIN ledger : ledger'[n] = ledger[n]
    BY SubmitLedger
  <1>2. CASE ledger' = ledger
    BY <1>2 DEF LedgerInv
  <1>3. CASE /\ Outcome(txs[c]) = "SUCCESS" /\ DOMAIN ledger' = 1 .. Len(ledger) + 1
             /\ ledger'[Len(ledger) + 1] = Charged(Latest, txs[c])
    <2> SUFFICES ASSUME NEW m \in DOMAIN ledger', NEW n \in DOMAIN ledger', m <= n,
                        NEW a \in DOMAIN Funds
                 PROVE  /\ ledger'[m][a].nonce <= ledger'[n][a].nonce
                        /\ ledger'[m][a].nonce = ledger'[n][a].nonce
                             => ledger'[m][a].balance = ledger'[n][a].balance
      BY DEF LedgerInv
    <2>1. Len(ledger) \in Nat /\ DOMAIN ledger = 1 .. Len(ledger) /\ Len(ledger) \in DOMAIN ledger
      BY DEF TypeOK
    <2>2. CASE n \in DOMAIN ledger
      BY <1>1, <1>3, <2>1, <2>2 DEF LedgerInv
    <2>3. CASE n = Len(ledger) + 1 /\ m = n
      <3>1. ledger'[n] \in Accounts
        BY <1>1, <1>3, <2>3, ChargedType
      <3>2. ledger'[n][a] \in [nonce : Nat, balance : Nat]
        BY <3>1 DEF Accounts
      <3> QED
        BY <2>3, <3>2
    <2>4. CASE n = Len(ledger) + 1 /\ m \in DOMAIN ledger
      <3>1. /\ ledger[m][a].nonce <= Latest[a].nonce
            /\ ledger[m][a].nonce = Latest[a].nonce => ledger[m][a].balance = Latest[a].balance
        BY <2>1, <2>4 DEF LedgerInv, Latest
      <3>2. ledger'[m] = ledger[m]
        BY <1>1, <2>4
      <3>3. ledger[m][a].nonce \in Nat /\ Latest[a].nonce \in Nat
        BY <2>1, <2>4, AccountType DEF Latest
      <3>4. CASE a = txs[c].from
        <4>1. ledger'[n][a].nonce = Latest[a].nonce + 1
          BY <1>1, <1>3, <2>4, <3>4, ChargedType
        <4> QED
          BY <3>1, <3>2, <3>3, <4>1
      <3>5. CASE a # txs[c].from
        <4>1. ledger'[n][a] = Latest[a]
          BY <1>1, <1>3, <2>4, <3>5, ChargedType
        <4> QED
          BY <3>1, <3>2, <4>1
      <3> QED
        BY <3>4, <3>5
    <2> QED
      BY <1>3, <2>1, <2>2, <2>3, <2>4
  <1> QED
    BY <1>2, <1>3, SubmitLedger

(* A call that was checked gets an outcome that its property allows. *)
LEMMA OutcomeHasCause ==
  ASSUME TypeOK, CallInv, LedgerInv, NEW c \in Calls, pc[c] = "submit", Outcome(txs[c]) # "SUCCESS"
  PROVE  \/ Outcome(txs[c]) = "WRONG_NONCE" /\ txs[c].nonce > Latest[txs[c].from].nonce
         \/ /\ Outcome(txs[c]) \in {"WRONG_NONCE", "INSUFFICIENT_PAYER_BALANCE"}
            /\ Latest[txs[c].from].nonce > ledger[seen[c]][txs[c].from].nonce
  <1> DEFINE tx == txs[c]
             then == ledger[seen[c]][tx.from]
             last == Latest[tx.from]
  <1>1. /\ tx \in Shapes /\ tx.from \in DOMAIN Funds /\ StaticError(tx) = "none"
        /\ then.nonce <= tx.nonce /\ Cost(tx) <= then.balance
    BY DEF CallInv, CallOK, Affordable
  <1>2. seen[c] \in DOMAIN ledger /\ Len(ledger) \in DOMAIN ledger /\ seen[c] <= Len(ledger)
    BY DEF TypeOK
  <1>3. /\ then.nonce \in Nat /\ then.balance \in Nat /\ last.nonce \in Nat /\ last.balance \in Nat
        /\ tx.nonce \in Nat /\ Cost(tx) \in Nat
    BY <1>1, <1>2, AccountType, CostType, PoolAssumption DEF Latest
  <1>4. then.nonce <= last.nonce /\ (then.nonce = last.nonce => then.balance = last.balance)
    BY <1>1, <1>2 DEF LedgerInv, Latest
  <1>5. \/ Outcome(tx) = "WRONG_NONCE" /\ tx.nonce # last.nonce
        \/ Outcome(tx) = "INSUFFICIENT_PAYER_BALANCE" /\ Cost(tx) > last.balance
    <2>1. /\ tx.chainId \in {0, Chain} /\ ~(tx.gasLimit < TransactionIntrinsicGasCost(tx))
          /\ ~(tx.zeros + tx.nonZeros > Limits.callData)
      BY <1>1, StaticallyValid
    <2> QED
      BY <2>1 DEF Outcome
  <1> HIDE DEF tx, then, last
  <1>6. \/ Outcome(tx) = "WRONG_NONCE" /\ tx.nonce > last.nonce
        \/ /\ Outcome(tx) \in {"WRONG_NONCE", "INSUFFICIENT_PAYER_BALANCE"}
           /\ last.nonce > then.nonce
    BY <1>1, <1>3, <1>4, <1>5
  <1> QED
    BY <1>6 DEF tx, then, last
-----------------------------------------------------------------------------
(* The steps.                                                              *)

(* A call that ends has its error, and the others are where they were. *)
LEMMA EndType ==
  ASSUME TypeOK, NEW c \in Calls, NEW x \in Errors, Answers(c, x)
  PROVE  /\ pc' \in [Calls -> Steps] /\ answers' \in [Calls -> {"none"} \cup Errors \cup Outcomes]
         /\ pc'[c] = "ended" /\ answers'[c] = x
         /\ \A d \in Calls : d # c => pc'[d] = pc[d] /\ answers'[d] = answers[d]
  BY DEF TypeOK, Answers, Steps

(* A call that moves on is at its next step, and the others where they were. *)
LEMMA MoveType ==
  ASSUME TypeOK, NEW c \in Calls, NEW s \in Steps, Moves(c, s)
  PROVE  /\ pc' \in [Calls -> Steps] /\ answers' = answers
         /\ pc'[c] = s
         /\ \A d \in Calls : d # c => pc'[d] = pc[d]
  BY DEF TypeOK, Moves, Steps

(* What is not about a call leaves it alone. *)
LEMMA CallStays ==
  ASSUME NEW d, CallOK(d), pc'[d] = pc[d], txs'[d] = txs[d], answers'[d] = answers[d],
         seen'[d] = seen[d], ledger'[seen[d]] = ledger[seen[d]]
  PROVE  CallOK(d)'
  BY DEF CallOK, Affordable

(* A transaction that arrives passes the checks that need no account, or ends with their error. *)
LEMMA ArriveStep ==
  ASSUME TypeOK, CallInv, NEW c \in Calls, NEW tx \in Shapes, Arrive(c, tx)
  PROVE  TypeOK' /\ CallInv'
  <1>1. /\ txs' = [txs EXCEPT ![c] = tx]
        /\ UNCHANGED <<storage, seen, at, ledger, imported, pending, globalIndex, lastAdded, lapsed, faults>>
    BY DEF Arrive, poolVars
  <1>2. txs' \in [Calls -> Shapes \cup {None}] /\ txs'[c] = tx /\ \A d \in Calls : d # c => txs'[d] = txs[d]
    BY <1>1 DEF TypeOK
  <1>3. CASE StaticError(tx) = "none"
    <2>1. Moves(c, "account") /\ "account" \in Steps /\ answers[c] = "none"
      BY <1>3 DEF Arrive, Steps, CallInv, CallOK
    <2>2. /\ pc' \in [Calls -> Steps] /\ answers' = answers /\ pc'[c] = "account"
          /\ \A d \in Calls : d # c => pc'[d] = pc[d]
      BY <2>1, MoveType
    <2>3. TypeOK'
      BY <1>1, <1>2, <2>2 DEF TypeOK, Steps
    <2>4. CallOK(c)'
      BY <1>2, <1>3, <2>1, <2>2 DEF CallOK
    <2>5. \A d \in Calls : d # c => CallOK(d)'
      BY <1>1, <1>2, <2>2, CallStays DEF CallInv
    <2> QED
      BY <2>3, <2>4, <2>5 DEF CallInv
  <1>4. CASE StaticError(tx) # "none"
    <2>1. Answers(c, StaticError(tx)) /\ StaticError(tx) \in Errors
      BY <1>4, AnswerTypes DEF Arrive
    <2>2. /\ pc' \in [Calls -> Steps] /\ answers' \in [Calls -> {"none"} \cup Errors \cup Outcomes]
          /\ pc'[c] = "ended"
          /\ \A d \in Calls : d # c => pc'[d] = pc[d] /\ answers'[d] = answers[d]
      BY <2>1, EndType
    <2>3. TypeOK'
      BY <1>1, <1>2, <2>2 DEF TypeOK, Steps
    <2>4. CallOK(c)'
      BY <1>2, <2>2 DEF CallOK
    <2>5. \A d \in Calls : d # c => CallOK(d)'
      BY <1>1, <1>2, <2>2, CallStays DEF CallInv
    <2> QED
      BY <2>3, <2>4, <2>5 DEF CallInv
  <1> QED
    BY <1>3, <1>4

(* A call that ends with an error keeps the types and the facts about the calls. *)
LEMMA EndStep ==
  ASSUME TypeOK, CallInv, NEW c \in Calls, NEW x \in Errors, Answers(c, x), pc[c] # "idle",
         UNCHANGED <<storage, txs, at, ledger, imported, pending, globalIndex, lastAdded, lapsed>>,
         seen' \in [Calls -> DOMAIN ledger], \A d \in Calls : d # c => seen'[d] = seen[d],
         faults' \in 0 .. MaxFaults
  PROVE  TypeOK' /\ CallInv'
  <1>1. /\ pc' \in [Calls -> Steps] /\ answers' \in [Calls -> {"none"} \cup Errors \cup Outcomes]
        /\ pc'[c] = "ended"
        /\ \A d \in Calls : d # c => pc'[d] = pc[d] /\ answers'[d] = answers[d]
    BY EndType
  <1>2. TypeOK'
    BY <1>1 DEF TypeOK, Steps
  <1>3. CallOK(c)'
    BY <1>1 DEF CallOK, CallInv
  <1>4. \A d \in Calls : d # c => CallOK(d)'
    BY <1>1, CallStays DEF CallInv
  <1> QED
    BY <1>2, <1>3, <1>4 DEF CallInv

(* A call that moves on to a check, the pool or the network has passed what comes before. *)
LEMMA MoveStep ==
  ASSUME TypeOK, CallInv, NEW c \in Calls, NEW s \in Steps, Moves(c, s),
         pc[c] \notin {"idle", "remove", "ended"}, s \in {"nonce", "receiver", "save", "submit"},
         txs[c].from \in DOMAIN Funds, s # "nonce" => Affordable(c)',
         UNCHANGED <<storage, txs, at, ledger, imported, faults>>,
         pending' \in [Senders -> SUBSET Shapes], globalIndex' \subseteq Shapes,
         lastAdded' \in Senders \cup {"none"}, lapsed' \subseteq Senders,
         seen' \in [Calls -> DOMAIN ledger], \A d \in Calls : d # c => seen'[d] = seen[d]
  PROVE  TypeOK' /\ CallInv'
  <1>1. /\ pc' \in [Calls -> Steps] /\ answers' = answers
        /\ pc'[c] = s
        /\ \A d \in Calls : d # c => pc'[d] = pc[d]
    BY MoveType
  <1>2. TypeOK'
    BY <1>1 DEF TypeOK, Steps
  <1>3. pc[c] \in {"account", "nonce", "receiver", "save", "submit"} /\ CallOK(c)
    BY DEF TypeOK, CallInv
  <1>4. CallOK(c)'
    BY <1>1, <1>3 DEF CallOK
  <1>5. \A d \in Calls : d # c => CallOK(d)'
    BY <1>1, CallStays DEF CallInv
  <1> QED
    BY <1>2, <1>4, <1>5 DEF CallInv

(* A submission changes the ledger only beyond what the other calls saw. *)
LEMMA SubmitStep ==
  ASSUME TypeOK, CallInv, NEW c \in Calls, Submit(c)
  PROVE  TypeOK' /\ CallInv'
  <1>1. /\ txs[c] \in Shapes
        /\ ledger' \in Seq(Accounts) /\ DOMAIN ledger \subseteq DOMAIN ledger'
        /\ \A n \in DOMAIN ledger : ledger'[n] = ledger[n]
    BY SubmitLedger
  <1>2. Outcome(txs[c]) \in Outcomes
    BY AnswerTypes
  <1>3. /\ pc' = [pc EXCEPT ![c] = "remove"] /\ answers' = [answers EXCEPT ![c] = Outcome(txs[c])]
        /\ at' = [at EXCEPT ![c] = Len(ledger)]
        /\ UNCHANGED <<storage, txs, seen, imported, pending, globalIndex, lastAdded, lapsed, faults>>
    BY DEF Submit, poolVars
  <1>4. Len(ledger) \in DOMAIN ledger
    BY DEF TypeOK
  <1>5. TypeOK'
    <2>1. /\ imported' \in DOMAIN ledger' /\ seen' \in [Calls -> DOMAIN ledger']
          /\ at' \in [Calls -> DOMAIN ledger']
      BY <1>1, <1>3, <1>4 DEF TypeOK
    <2>2. /\ pc' \in [Calls -> Steps]
          /\ answers' \in [Calls -> {"none"} \cup Errors \cup Outcomes]
      BY <1>2, <1>3 DEF TypeOK, Steps
    <2> QED
      BY <1>1, <1>3, <2>1, <2>2 DEF TypeOK, Accounts, Steps
  <1>6. CallOK(c)'
    BY <1>1, <1>3 DEF CallOK, TypeOK
  <1>7. \A d \in Calls : d # c => CallOK(d)'
    <2> SUFFICES ASSUME NEW d \in Calls, d # c PROVE CallOK(d)'
      OBVIOUS
    <2>1. pc'[d] = pc[d] /\ answers'[d] = answers[d] /\ txs'[d] = txs[d] /\ seen'[d] = seen[d]
      BY <1>3 DEF TypeOK
    <2>2. ledger'[seen[d]] = ledger[seen[d]]
      BY <1>1 DEF TypeOK
    <2> QED
      BY <2>1, <2>2, CallStays DEF CallInv
  <1> QED
    BY <1>5, <1>6, <1>7 DEF CallInv

(* The types of what the pool does. *)
LEMMA PoolType ==
  ASSUME TypeOK, NEW tx \in Shapes, AddToList(tx.from, tx) \/ RemoveFromList(tx.from, tx) \/ UNCHANGED poolVars
  PROVE  /\ pending' \in [Senders -> SUBSET Shapes] /\ globalIndex' \subseteq Shapes
         /\ lastAdded' \in Senders \cup {"none"} /\ lapsed' \subseteq Senders
  <1>1. tx.from \in Senders
    BY DEF Senders
  <1>2. CASE AddToList(tx.from, tx)
    BY <1>1, <1>2 DEF AddToList, TypeOK
  <1>3. CASE RemoveFromList(tx.from, tx)
    BY <1>1, <1>3 DEF RemoveFromList, TypeOK
  <1>4. CASE UNCHANGED poolVars
    BY <1>4 DEF poolVars, TypeOK
  <1> QED
    BY <1>2, <1>3, <1>4

(* The removal from the pool, or its failure, ends the call. *)
LEMMA RemoveStep ==
  ASSUME TypeOK, CallInv, NEW c \in Calls, RemoveTransaction(c)
  PROVE  TypeOK' /\ CallInv'
  <1>1. txs[c] \in Shapes
    BY DEF CallInv, CallOK, RemoveTransaction
  <1>2. RemoveFromList(txs[c].from, txs[c]) \/ UNCHANGED poolVars
    BY DEF RemoveTransaction
  <1>3. /\ pending' \in [Senders -> SUBSET Shapes] /\ globalIndex' \subseteq Shapes
        /\ lastAdded' \in Senders \cup {"none"} /\ lapsed' \subseteq Senders
    BY <1>1, <1>2, PoolType
  <1>4. /\ pc' = [pc EXCEPT ![c] = "ended"]
        /\ UNCHANGED <<storage, txs, answers, seen, at, ledger, imported>>
        /\ faults' \in 0 .. MaxFaults
    BY PoolAssumption DEF RemoveTransaction, MayFail, TypeOK
  <1>5. TypeOK'
    BY <1>3, <1>4 DEF TypeOK
  <1>6. CallOK(c)'
    BY <1>1, <1>4 DEF CallOK, TypeOK
  <1>7. \A d \in Calls : d # c => CallOK(d)'
    BY <1>4, CallStays DEF CallInv, TypeOK
  <1> QED
    BY <1>5, <1>6, <1>7 DEF CallInv

(* Every step keeps the types and the facts about the calls. *)
LEMMA NextCalls ==
  ASSUME TypeOK, CallInv, PoolInv, [Next]_vars
  PROVE  TypeOK' /\ CallInv'
  <1>1. CASE UNCHANGED vars
    BY <1>1 DEF vars, TypeOK, CallInv, CallOK, Affordable
  <1>2. ASSUME NEW c \in Calls, NEW tx \in Shapes, Arrive(c, tx)
        PROVE  TypeOK' /\ CallInv'
    BY <1>2, ArriveStep
  <1>3. ASSUME NEW c \in Calls
        PROVE  /\ seen \in [Calls -> DOMAIN ledger] /\ [seen EXCEPT ![c] = imported] \in [Calls -> DOMAIN ledger]
               /\ pending \in [Senders -> SUBSET Shapes] /\ globalIndex \subseteq Shapes
               /\ lastAdded \in Senders \cup {"none"} /\ lapsed \subseteq Senders
               /\ faults \in 0 .. MaxFaults /\ CallOK(c)
    BY DEF TypeOK, CallInv
  <1>4. ASSUME NEW c \in Calls, VerifyAccount(c)
        PROVE  TypeOK' /\ CallInv'
    <2>1. /\ pc[c] = "account" /\ seen' = [seen EXCEPT ![c] = imported]
          /\ UNCHANGED <<storage, txs, at, ledger, imported, pending, globalIndex, lastAdded, lapsed, faults>>
      BY <1>4 DEF VerifyAccount, poolVars
    <2>2. seen' \in [Calls -> DOMAIN ledger] /\ \A d \in Calls : d # c => seen'[d] = seen[d]
      BY <1>3, <2>1
    <2>3. CASE txs[c].from \in DOMAIN Funds
      <3>1. Moves(c, "nonce") /\ "nonce" \in Steps
        BY <1>4, <2>3 DEF VerifyAccount, Steps
      <3> QED
        BY <1>3, <2>1, <2>2, <2>3, <3>1, MoveStep
    <2>4. CASE txs[c].from \notin DOMAIN Funds
      <3>1. Answers(c, "RESOURCE_NOT_FOUND") /\ "RESOURCE_NOT_FOUND" \in Errors
        BY <1>4, <2>4 DEF VerifyAccount, Errors
      <3> QED
        BY <1>3, <2>1, <2>2, <3>1, EndStep
    <2> QED
      BY <2>3, <2>4
  <1>5. ASSUME NEW c \in Calls, CheckAccount(c)
        PROVE  TypeOK' /\ CallInv'
    <2>1. /\ pc[c] = "nonce"
          /\ UNCHANGED <<storage, txs, seen, at, ledger, imported, pending, globalIndex, lastAdded, lapsed, faults>>
      BY <1>5 DEF CheckAccount, poolVars
    <2>2. txs[c] \in Shapes /\ txs[c].from \in DOMAIN Funds
      BY <1>3, <2>1 DEF CallOK
    <2>3. CASE AccountError(c) = "none"
      <3> DEFINE s == IF txs[c].to = "none" THEN "save" ELSE "receiver"
      <3>1. Moves(c, s) /\ s \in Steps /\ s \in {"receiver", "save"}
        BY <1>5, <2>3 DEF CheckAccount, Steps
      <3>2. Affordable(c)'
        <4>1. Affordable(c)
          BY <2>2, <2>3, ChecksAfford
        <4> QED
          BY <2>1, <4>1 DEF Affordable
      <3> HIDE DEF s
      <3> QED
        BY <1>3, <2>1, <2>2, <3>1, <3>2, MoveStep
    <2>4. CASE AccountError(c) # "none"
      <3>1. Answers(c, AccountError(c)) /\ AccountError(c) \in Errors
        BY <1>5, <2>4, AnswerTypes DEF CheckAccount
      <3> QED
        BY <1>3, <2>1, <3>1, EndStep
    <2> QED
      BY <2>3, <2>4
  <1>6. ASSUME NEW c \in Calls, ReceiverAccount(c)
        PROVE  TypeOK' /\ CallInv'
    <2>1. /\ pc[c] = "receiver"
          /\ UNCHANGED <<storage, txs, seen, at, ledger, imported, pending, globalIndex, lastAdded, lapsed, faults>>
      BY <1>6 DEF ReceiverAccount, poolVars
    <2>2. txs[c].from \in DOMAIN Funds /\ Affordable(c)'
      BY <1>3, <2>1 DEF CallOK, Affordable
    <2>3. CASE Moves(c, "save")
      <3>1. "save" \in Steps
        BY DEF Steps
      <3> QED
        BY <1>3, <2>1, <2>2, <2>3, <3>1, MoveStep
    <2>4. CASE Answers(c, "RECEIVER_SIGNATURE_ENABLED")
      <3>1. "RECEIVER_SIGNATURE_ENABLED" \in Errors
        BY DEF Errors
      <3> QED
        BY <1>3, <2>1, <2>4, <3>1, EndStep
    <2> QED
      BY <1>6, <2>3, <2>4 DEF ReceiverAccount
  <1>7. ASSUME NEW c \in Calls, SaveTransaction(c)
        PROVE  TypeOK' /\ CallInv'
    <2>1. /\ pc[c] = "save" /\ Moves(c, "submit") /\ "submit" \in Steps /\ AddToList(txs[c].from, txs[c])
          /\ UNCHANGED <<storage, txs, seen, at, ledger, imported, faults>>
      BY <1>7 DEF SaveTransaction, Steps
    <2>2. txs[c] \in Shapes /\ txs[c].from \in DOMAIN Funds /\ Affordable(c)'
      BY <1>3, <2>1 DEF CallOK, Affordable
    <2>3. /\ pending' \in [Senders -> SUBSET Shapes] /\ globalIndex' \subseteq Shapes
          /\ lastAdded' \in Senders \cup {"none"} /\ lapsed' \subseteq Senders
      BY <2>1, <2>2, PoolType
    <2> QED
      BY <1>3, <2>1, <2>2, <2>3, MoveStep
  <1>8. ASSUME NEW c \in Calls, Fail(c)
        PROVE  TypeOK' /\ CallInv'
    <2>1. /\ pc[c] # "idle" /\ Answers(c, "INTERNAL_ERROR") /\ "INTERNAL_ERROR" \in Errors
          /\ UNCHANGED <<storage, txs, seen, at, ledger, imported, pending, globalIndex, lastAdded, lapsed>>
      BY <1>8 DEF Fail, poolVars, Errors
    <2>2. faults' \in 0 .. MaxFaults
      BY <1>3, <1>8, PoolAssumption DEF Fail, MayFail
    <2> QED
      BY <1>3, <2>1, <2>2, EndStep
  <1>9. CASE (\E a \in Senders : ExpireAddress(a)) \/ ExpireAll \/ Import
    <2>1. /\ pending' \in [Senders -> SUBSET Shapes] /\ globalIndex' \subseteq Shapes
          /\ lapsed' \subseteq Senders /\ imported' \in DOMAIN ledger
          /\ UNCHANGED <<storage, txs, pc, answers, seen, at, ledger, lastAdded, faults>>
      BY <1>9 DEF ExpireAddress, ExpireAll, Import, TypeOK, poolVars
    <2>2. TypeOK'
      BY <2>1 DEF TypeOK
    <2>3. \A d \in Calls : CallOK(d)'
      BY <2>1, CallStays DEF CallInv
    <2> QED
      BY <2>2, <2>3 DEF CallInv
  <1> QED
    BY <1>1, <1>2, <1>4, <1>5, <1>6, <1>7, <1>8, <1>9, SubmitStep, RemoveStep DEF Next

(* The global index and the lists of the addresses change together. *)
LEMMA NextPool ==
  ASSUME TypeOK, CallInv, PoolInv, [Next]_vars
  PROVE  PoolInv'
  <1>1. CASE UNCHANGED poolVars
    BY <1>1 DEF poolVars, PoolInv
  <1>2. ASSUME NEW c \in Calls, SaveTransaction(c)
        PROVE  PoolInv'
    <2> DEFINE tx == txs[c]
    <2>1. tx \in Shapes /\ tx.from \in Senders /\ AddToList(tx.from, tx)
      BY <1>2 DEF CallInv, CallOK, SaveTransaction, Senders
    <2> HIDE DEF tx
    <2>2. IsFiniteSet(globalIndex')
      BY <2>1, FS_AddElement DEF AddToList, PoolInv
    <2>3. ASSUME NEW a \in Senders
          PROVE  /\ pending'[a] \subseteq {t \in globalIndex' : t.from = a}
                 /\ a \notin lapsed' => {t \in globalIndex' : t.from = a} \subseteq pending'[a]
      <3>1. /\ pending[a] \subseteq {t \in globalIndex : t.from = a}
            /\ a \notin lapsed => {t \in globalIndex : t.from = a} \subseteq pending[a]
        BY DEF PoolInv
      <3>2. globalIndex' = globalIndex \cup {tx}
        BY <2>1 DEF AddToList
      <3>3. CASE a = tx.from
        <4>1. pending'[a] = pending[a] \cup {tx}
          BY <2>1, <3>3 DEF AddToList, TypeOK
        <4>2. a \notin lapsed' => a \notin lapsed \/ ~\E t \in globalIndex : t.from = a
          BY <2>1, <3>3 DEF AddToList
        <4> QED
          BY <3>1, <3>2, <3>3, <4>1, <4>2
      <3>4. CASE a # tx.from
        <4>1. pending'[a] = pending[a] /\ (a \notin lapsed' => a \notin lapsed)
          BY <2>1, <3>4 DEF AddToList, TypeOK
        <4> QED
          BY <3>1, <3>2, <3>4, <4>1
      <3> QED
        BY <3>3, <3>4
    <2> QED
      BY <2>2, <2>3 DEF PoolInv
  <1>3. ASSUME NEW c \in Calls, RemoveTransaction(c), RemoveFromList(txs[c].from, txs[c])
        PROVE  PoolInv'
    <2> DEFINE tx == txs[c]
    <2>1. tx.from \in Senders /\ RemoveFromList(tx.from, tx)
      BY <1>3 DEF CallInv, CallOK, RemoveTransaction, Senders
    <2> HIDE DEF tx
    <2>2. /\ globalIndex' = globalIndex \ {tx} /\ lapsed' = lapsed
          /\ \A a \in Senders : pending'[a] = IF a = tx.from THEN pending[a] \ {tx} ELSE pending[a]
      BY <2>1 DEF RemoveFromList, TypeOK
    <2>3. IsFiniteSet(globalIndex')
      BY <2>2, FS_RemoveElement DEF PoolInv
    <2>4. ASSUME NEW a \in Senders
          PROVE  /\ pending'[a] \subseteq {t \in globalIndex' : t.from = a}
                 /\ a \notin lapsed' => {t \in globalIndex' : t.from = a} \subseteq pending'[a]
      <3>1. /\ pending[a] \subseteq {t \in globalIndex : t.from = a}
            /\ a \notin lapsed => {t \in globalIndex : t.from = a} \subseteq pending[a]
        BY DEF PoolInv
      <3>2. CASE a = tx.from
        <4>1. pending'[a] = pending[a] \ {tx}
          BY <2>2, <3>2
        <4> QED
          BY <2>2, <3>1, <4>1
      <3>3. CASE a # tx.from
        <4>1. pending'[a] = pending[a]
          BY <2>2, <3>3
        <4> QED
          BY <2>2, <3>1, <3>3, <4>1
      <3> QED
        BY <3>2, <3>3
    <2> QED
      BY <2>3, <2>4 DEF PoolInv
  <1>4. ASSUME NEW a \in Senders, ExpireAddress(a)
        PROVE  PoolInv'
    <2>1. /\ globalIndex' = globalIndex /\ lapsed' = lapsed \cup {a}
          /\ \A b \in Senders : pending'[b] = IF b = a THEN {} ELSE pending[b]
      BY <1>4 DEF ExpireAddress, TypeOK
    <2> QED
      BY <2>1 DEF PoolInv
  <1>5. CASE ExpireAll
    BY <1>5, FS_EmptySet DEF ExpireAll, PoolInv
  <1> QED
    BY <1>1, <1>2, <1>3, <1>4, <1>5
    DEF Next, vars, poolVars, Arrive, VerifyAccount, CheckAccount, ReceiverAccount, Submit, RemoveTransaction, Fail, Import

(* The ledger changes with submissions only, and so does the outcome of a call. *)
LEMMA OutcomesStay ==
  ASSUME TypeOK, CallInv, [Next]_vars, ~\E c \in Calls : Submit(c)
  PROVE  /\ UNCHANGED <<ledger, at>>
         /\ \A c \in Calls : Executed(c)' => /\ Executed(c) /\ answers'[c] = answers[c]
                                             /\ txs'[c] = txs[c] /\ seen'[c] = seen[c]
  <1>1. UNCHANGED <<ledger, at>>
    BY DEF Next, vars, Arrive, VerifyAccount, CheckAccount, ReceiverAccount, SaveTransaction, RemoveTransaction,
           Fail, ExpireAddress, ExpireAll, Import
  <1>2. Errors \cap Outcomes = {} /\ "none" \notin Outcomes
    BY DEF Errors, Outcomes
  <1>3. ASSUME NEW d \in Calls, pc[d] \notin {"remove", "ended"}
        PROVE  ~Executed(d)
    BY <1>2, <1>3 DEF CallInv, CallOK, Executed
  <1>4. ASSUME NEW c \in Calls, NEW x \in Errors, Answers(c, x), NEW d \in Calls, Executed(d)'
        PROVE  d # c /\ Executed(d) /\ answers'[d] = answers[d]
    BY <1>2, <1>4 DEF Answers, Executed, TypeOK
  <1>5. ASSUME answers' = answers, NEW d \in Calls, Executed(d)'
        PROVE  Executed(d)
    BY <1>5 DEF Executed
  <1>6. ASSUME NEW c \in Calls, NEW tx \in Shapes, Arrive(c, tx), NEW d \in Calls, Executed(d)'
        PROVE  Executed(d) /\ answers'[d] = answers[d] /\ txs'[d] = txs[d] /\ seen'[d] = seen[d]
    <2>1. StaticError(tx) = "none" \/ StaticError(tx) \in Errors
      BY AnswerTypes
    <2>2. Executed(d) /\ answers'[d] = answers[d]
      BY <1>4, <1>5, <1>6, <2>1 DEF Arrive, Moves
    <2>3. d # c
      BY <1>3, <1>6, <2>2 DEF Arrive
    <2> QED
      BY <1>6, <2>2, <2>3 DEF Arrive, TypeOK
  <1>7. ASSUME NEW c \in Calls, VerifyAccount(c), NEW d \in Calls, Executed(d)'
        PROVE  Executed(d) /\ answers'[d] = answers[d] /\ txs'[d] = txs[d] /\ seen'[d] = seen[d]
    <2>1. "RESOURCE_NOT_FOUND" \in Errors
      BY DEF Errors
    <2>2. Executed(d) /\ answers'[d] = answers[d]
      BY <1>4, <1>5, <1>7, <2>1 DEF VerifyAccount, Moves
    <2>3. d # c
      BY <1>3, <1>7, <2>2 DEF VerifyAccount
    <2> QED
      BY <1>7, <2>2, <2>3 DEF VerifyAccount, TypeOK
  <1>8. ASSUME NEW c \in Calls, CheckAccount(c) \/ ReceiverAccount(c) \/ Fail(c), NEW d \in Calls, Executed(d)'
        PROVE  Executed(d) /\ answers'[d] = answers[d] /\ txs'[d] = txs[d] /\ seen'[d] = seen[d]
    <2>1. "RECEIVER_SIGNATURE_ENABLED" \in Errors /\ "INTERNAL_ERROR" \in Errors
      BY DEF Errors
    <2>2. AccountError(c) = "none" \/ AccountError(c) \in Errors
      BY AnswerTypes
    <2> QED
      BY <1>4, <1>5, <1>8, <2>1, <2>2 DEF CheckAccount, ReceiverAccount, Fail, Moves
  <1>9. ASSUME NEW d \in Calls, Executed(d)', UNCHANGED <<answers, txs, seen>>
        PROVE  Executed(d) /\ answers'[d] = answers[d] /\ txs'[d] = txs[d] /\ seen'[d] = seen[d]
    BY <1>5, <1>9
  <1>10. \/ \E c \in Calls, tx \in Shapes : Arrive(c, tx)
         \/ \E c \in Calls : VerifyAccount(c) \/ CheckAccount(c) \/ ReceiverAccount(c) \/ Fail(c)
         \/ UNCHANGED <<answers, txs, seen>>
    BY DEF Next, vars, SaveTransaction, Moves, RemoveTransaction, ExpireAddress, ExpireAll, Import
  <1> QED
    BY <1>1, <1>6, <1>7, <1>8, <1>9, <1>10

(* A submission ends with an outcome that has its cause, and no other call's changes. *)
LEMMA NextAccepted ==
  ASSUME TypeOK, CallInv, LedgerInv, AcceptedIsValid, [Next]_vars
  PROVE  AcceptedIsValid'
  <1> DEFINE Due(c) ==
               \/ answers[c] = "SUCCESS"
               \/ answers[c] = "WRONG_NONCE" /\ txs[c].nonce > ledger[at[c]][txs[c].from].nonce
               \/ /\ answers[c] \in {"WRONG_NONCE", "INSUFFICIENT_PAYER_BALANCE"}
                  /\ ledger[at[c]][txs[c].from].nonce > ledger[seen[c]][txs[c].from].nonce
  <1>1. ASSUME NEW c \in Calls, Submit(c), NEW d \in Calls, Executed(d)'
        PROVE  Due(d)'
    <2>1. \A n \in DOMAIN ledger : ledger'[n] = ledger[n]
      BY <1>1, SubmitLedger
    <2>2. /\ answers' = [answers EXCEPT ![c] = Outcome(txs[c])] /\ at' = [at EXCEPT ![c] = Len(ledger)]
          /\ UNCHANGED <<txs, seen>> /\ pc[c] = "submit"
      BY <1>1 DEF Submit
    <2>3. CASE d = c
      <3>1. answers'[d] = Outcome(txs[c]) /\ at'[d] = Len(ledger) /\ txs'[d] = txs[c] /\ seen'[d] = seen[c]
        BY <2>2, <2>3 DEF TypeOK
      <3>2. ledger'[Len(ledger)] = Latest /\ ledger'[seen[c]] = ledger[seen[c]]
        BY <2>1 DEF TypeOK, Latest
      <3> QED
        BY <2>2, <3>1, <3>2, OutcomeHasCause
    <2>4. CASE d # c
      <3>1. answers'[d] = answers[d] /\ at'[d] = at[d] /\ txs'[d] = txs[d] /\ seen'[d] = seen[d]
        BY <2>2, <2>4 DEF TypeOK
      <3>2. ledger'[at[d]] = ledger[at[d]] /\ ledger'[seen[d]] = ledger[seen[d]]
        BY <2>1 DEF TypeOK
      <3>3. Due(d)
        BY <1>1, <3>1 DEF AcceptedIsValid, Executed
      <3> QED
        BY <3>1, <3>2, <3>3
    <2> QED
      BY <2>3, <2>4
  <1>2. ASSUME ~\E c \in Calls : Submit(c), NEW d \in Calls, Executed(d)'
        PROVE  Due(d)'
    <2>1. /\ UNCHANGED <<ledger, at>> /\ Executed(d) /\ answers'[d] = answers[d]
          /\ txs'[d] = txs[d] /\ seen'[d] = seen[d]
      BY <1>2, OutcomesStay
    <2>2. Due(d)
      BY <2>1 DEF AcceptedIsValid
    <2> QED
      BY <2>1, <2>2
  <1> QED
    BY <1>1, <1>2 DEF AcceptedIsValid

(* Every step keeps the ledger in order. *)
LEMMA NextLedger ==
  ASSUME TypeOK, CallInv, LedgerInv, [Next]_vars
  PROVE  LedgerInv'
  <1>1. CASE ~\E c \in Calls : Submit(c)
    BY <1>1, OutcomesStay DEF LedgerInv
  <1> QED
    BY <1>1, SubmitOrder
-----------------------------------------------------------------------------
(* The theorems.                                                           *)

(* The pool starts empty, the ledger with the accounts as they are funded. *)
LEMMA InitIInv ==
  Init => IInv
  <1> SUFFICES ASSUME Init PROVE IInv
    OBVIOUS
  <1>1. Genesis \in Accounts /\ ledger = <<Genesis>>
    <2>1. ASSUME NEW a \in DOMAIN Funds
          PROVE  Account(0, Funds[a] * TinybarToWeibar) \in [nonce : Nat, balance : Nat]
      BY PoolAssumption DEF Account
    <2> QED
      BY <2>1 DEF Genesis, Accounts, Init
  <1>2. ledger \in Seq(Accounts) /\ DOMAIN ledger = {1}
    BY <1>1
  <1>3. TypeOK
    BY <1>2, PoolAssumption DEF Init, TypeOK, Accounts
  <1>4. CallInv
    BY DEF Init, CallInv, CallOK
  <1>5. LedgerInv
    <2> SUFFICES ASSUME NEW a \in DOMAIN Funds
                 PROVE  ledger[1][a].nonce <= ledger[1][a].nonce
      BY <1>2 DEF LedgerInv
    <2>1. ledger[1][a].nonce \in Nat
      BY <1>2, <1>3, AccountType
    <2> QED
      BY <2>1
  <1>6. PoolInv
    BY FS_EmptySet DEF Init, PoolInv
  <1>7. AcceptedIsValid
    BY DEF Init, AcceptedIsValid, Executed, Outcomes
  <1> QED
    BY <1>3, <1>4, <1>5, <1>6, <1>7 DEF IInv

(* Every step preserves the invariant. *)
LEMMA NextIInv ==
  IInv /\ [Next]_vars => IInv'
  BY NextCalls, NextPool, NextLedger, NextAccepted DEF IInv

(* The inductive invariant holds in every reachable state. *)
THEOREM Invariance ==
  Spec => []IInv
  BY InitIInv, NextIInv, PTL DEF Spec

(* Every variable keeps its type: in particular no account of the network is ever overdrawn. *)
THEOREM TypeCorrectness ==
  Spec => []TypeOK
  <1>1. IInv => TypeOK
    BY DEF IInv
  <1> QED
    BY <1>1, Invariance, PTL

(* A transaction that passed the checks of sendRawTransactionCheck is refused by the network only for a nonce that is      *)
(* still too high, or for a nonce or a balance that another transaction of the sender used up since the checks.            *)
THEOREM AcceptedValid ==
  Spec => []AcceptedIsValid
  <1>1. IInv => AcceptedIsValid
    BY DEF IInv
  <1> QED
    BY <1>1, Invariance, PTL

(* As many entries as senders with nonces, unless two entries share both. *)
LEMMA StatusCounts ==
  ASSUME IsFiniteSet(globalIndex), Status # Cardinality(Content)
  PROVE  \E t, u \in globalIndex : t # u /\ t.from = u.from /\ t.nonce = u.nonce
  <1> DEFINE f == [t \in globalIndex |-> <<t.from, t.nonce>>]
  <1>1. f \in Surjection(globalIndex, Content)
    BY DEF Surjection, Content, GroupByAddressAndNonce
  <1>2. f \notin Injection(globalIndex, Content)
    BY <1>1, FS_Surjection DEF Status
  <1>3. f \in [globalIndex -> Content]
    BY DEF Content, GroupByAddressAndNonce
  <1>4. PICK t, u \in globalIndex : f[t] = f[u] /\ t # u
    BY <1>2, <1>3 DEF Injection, IsInjective
  <1> QED
    BY <1>4

(* What contentFrom, content and status of the txpool methods show is of one pool, unless the key of a sender ran out.     *)
THEOREM PoolAgrees ==
  Spec => []PoolViewsAgree
  <1>1. IInv => PoolViewsAgree
    <2> SUFFICES ASSUME IInv PROVE PoolViewsAgree
      OBVIOUS
    <2>1. TypeOK /\ PoolInv
      BY DEF IInv
    <2>2. ASSUME NEW a \in Senders
          PROVE  LET shown == {n \in {tx.nonce : tx \in Shapes} : <<a, n>> \in Content}
                 IN  /\ ContentFrom(a) \subseteq shown
                     /\ shown # ContentFrom(a) => a \in lapsed
      <3>1. ASSUME NEW n \in ContentFrom(a)
            PROVE  n \in {tx.nonce : tx \in Shapes} /\ <<a, n>> \in Content
        <4>1. PICK tx \in pending[a] : n = tx.nonce
          BY <3>1 DEF ContentFrom, GroupByNonce
        <4>2. tx \in globalIndex /\ tx.from = a /\ tx \in Shapes
          BY <2>1, <4>1 DEF PoolInv, TypeOK
        <4> QED
          BY <4>1, <4>2 DEF Content, GroupByAddressAndNonce
      <3>2. ASSUME a \notin lapsed, NEW n, <<a, n>> \in Content
            PROVE  n \in ContentFrom(a)
        <4>1. PICK tx \in globalIndex : <<a, n>> = <<tx.from, tx.nonce>>
          BY <3>2 DEF Content, GroupByAddressAndNonce
        <4>2. tx \in pending[a]
          BY <2>1, <3>2, <4>1 DEF PoolInv
        <4> QED
          BY <4>1, <4>2 DEF ContentFrom, GroupByNonce
      <3> QED
        BY <3>1, <3>2
    <2>3. Status # Cardinality(Content) => \E t, u \in globalIndex : t # u /\ t.from = u.from /\ t.nonce = u.nonce
      BY <2>1, StatusCounts DEF PoolInv
    <2> QED
      BY <2>2, <2>3 DEF PoolViewsAgree
  <1> QED
    BY <1>1, Invariance, PTL
=============================================================================
