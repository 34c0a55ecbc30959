----------------------------- MODULE HbarLimiter -----------------------------
(***************************************************************************)
(* The HBAR limiter: what the relay's operator pays for.                    *)
(*                                                                          *)
(* A call is one transaction that SDKClient executes for a sender: the      *)
(* check of HbarLimitService.shouldLimit, the execution, and the            *)
(* execute_transaction event whose listener (MetricService) charges the     *)
(* fees with HbarLimitService.addExpense, to the plan of the operator and   *)
(* to the plan of the sender.  A large call data makes several calls, one   *)
(* after the other (createFile, then the Ethereum transaction).             *)
(*                                                                          *)
(* The spending plans are in the cache: Redis, shared by all relays, or the *)
(* memory of the only relay.  Every write to the cache is a step of its     *)
(* own, and so is every read whose value decides a later write.  The reads  *)
(* of one lookup (the link, the plan, its amount) are one step, and so are  *)
(* the deletions of one reset, which are all issued before any is awaited.  *)
(***************************************************************************)
EXTENDS Naturals, Sequences

CONSTANTS Relays, Senders, Calls,
          Operator,    \* the address of the operator, with a plan of its own
          Workloads,   \* what the calls may be
          Configured,  \* the tiers of the preconfigured plans, which never expire
          TierLimit,   \* HbarLimitService.TIER_LIMITS
          Duration,    \* limitDuration
          MaxTime,     \* bound on the clock
          MaxFaults    \* bound on Redis commands that fail, and on evictions

Tier == {"BASIC", "EXTENDED", "PRIVILEGED", "OPERATOR"}

ASSUME HbarAssumption ==
  /\ Operator \notin Senders
  /\ Configured \in Seq(Tier)
  /\ TierLimit \in [Tier -> Nat \ {0}]
  /\ Duration \in Nat \ {0} /\ MaxTime \in Nat \ {0} /\ MaxFaults \in Nat
  /\ \A w \in Workloads : \A c \in Calls :
       /\ w[c].relay \in Relays /\ w[c].sender \in Senders
       /\ w[c].ip \in 0 .. Len(Configured)   \* the plan of the IP address, or 0
       /\ w[c].checked \in BOOLEAN           \* shouldThrowHbarLimit
       /\ w[c].estimate \in Nat              \* estimatedTxFee
       /\ w[c].fees \in Seq(Nat \ {0}) /\ w[c].fees # <<>>
       /\ w[c].after \subseteq Calls         \* the earlier calls of the same request

VARIABLES redis,      \* the cache is Redis, and not the memory of the relay
          tx,         \* what each call is
          now,        \* the clock
          reset,      \* HbarLimitService.reset of each relay
          plans,      \* the spending plans with their amountSpent entries
          evm,        \* evmAddressHbarSpendingPlan entries: the plan of an address
          pc, stage,  \* what a call does, and what it does it for
          plan,       \* the spendingPlan a call works with
          seen,       \* LocalLRUCache.incrBy: the value it read
          keys,       \* resetAmountSpentOfAllPlans: the entries it found
          bill,       \* the fee that is being charged
          stale,      \* history: the calls under way when this window began, and their stages
          faults

call == <<pc, stage, plan, seen, keys, bill>>
vars == <<redis, tx, now, reset, plans, evm, call, stale, faults>>

Forever == MaxTime + 1

\* When an entry that is set now runs out; beyond the clock is never.
TtlEnd == IF now + Duration < Forever THEN now + Duration ELSE Forever

\* A plan and its amountSpent entry; `added` and `lossy` are history: what was
\* added in this window, and whether some of it is no longer in the amount.
NewPlan(tier, ttl) ==
  [tier |-> tier, expires |-> ttl, amount |-> 0, amountExpires |-> 0,
   added |-> 0, lossy |-> FALSE]

\* The plan p when its amountSpent entry is `amount` until `expires`.
WithAmount(p, amount, expires, added, lossy) ==
  [tier |-> p.tier, expires |-> p.expires, amount |-> amount, amountExpires |-> expires,
   added |-> added, lossy |-> lossy]

Init ==
  /\ redis \in BOOLEAN
  /\ tx \in Workloads
  /\ redis \/ \A c, d \in Calls : tx[c].relay = tx[d].relay
  /\ now = 1
  /\ reset = [r \in Relays |-> Duration]
  /\ plans = [i \in 1 .. Len(Configured) |-> NewPlan(Configured[i], Forever)]
  /\ evm = [a \in Senders \cup {Operator} |-> 0]
  /\ pc = [c \in Calls |-> "start"]
  /\ stage = [c \in Calls |-> "budget"]
  /\ plan = [c \in Calls |-> 0]
  /\ seen = [c \in Calls |-> 0]
  /\ keys = [c \in Calls |-> {}]
  /\ bill = [c \in Calls |-> 1]
  /\ stale = {}
  /\ faults = 0

Final == {"limited", "end", "failed"}

Live(id) == id \in DOMAIN plans /\ now < plans[id].expires

\* An absent amountSpent entry counts as 0.
Amount(id) == IF now < plans[id].amountExpires THEN plans[id].amount ELSE 0

Address(c) == IF stage[c] \in {"sender", "senderAdd"} THEN tx[c].sender ELSE Operator

\* getSpendingPlan: the plan of the address, or else of the IP address.
GetSpendingPlan(c) ==
  IF Live(evm[Address(c)]) THEN evm[Address(c)]
  ELSE IF Live(tx[c].ip) THEN tx[c].ip ELSE 0

\* getResetTimestamp: the reset time moves on by whole intervals until it is
\* not before now, which may leave it at now.
GetResetTimestamp(r) ==
  IF reset[r] < now
  THEN reset[r] + ((now - reset[r] + Duration - 1) \div Duration) * Duration
  ELSE reset[r]

\* Mutant: the limit itself may be spent.
ReachesLimitStrictly(tier, amount, estimate) == amount + estimate > TierLimit[tier]

\* remainingBudget <= 0 or remainingBudget - estimatedTxFee < 0, and the same
\* for the limit of a sender's tier.
ReachesLimit(tier, amount, estimate) ==
  amount >= TierLimit[tier] \/ amount + estimate > TierLimit[tier]

Goto(c, p, s) ==
  /\ pc' = [pc EXCEPT ![c] = p]
  /\ stage' = [stage EXCEPT ![c] = s]
----------------------------------------------------------------------------
(* shouldLimit                                                             *)

\* executeTransaction begins: shouldResetLimiter comes before any await.
Start(c) ==
  /\ pc[c] = "start"
  /\ \A d \in tx[c].after : pc[d] \in Final \/ stage[d] \in {"opAdd", "gauge", "senderAdd"}
  /\ \A d \in tx[c].after : pc[d] # "limited"
  /\ \/ ~tx[c].checked /\ Goto(c, "execute", "budget")
     \/ tx[c].checked /\ now >= reset[tx[c].relay] /\ Goto(c, "keys", "reset")
     \/ tx[c].checked /\ now < reset[tx[c].relay] /\ Goto(c, "find", "budget")
  /\ UNCHANGED <<redis, tx, now, reset, plans, evm, plan, seen, keys, bill, stale, faults>>

\* resetAmountSpentOfAllPlans: list the entries, then delete them.
ListKeys(c) ==
  /\ pc[c] = "keys"
  /\ keys' = [keys EXCEPT ![c] = {id \in DOMAIN plans : Amount(id) > 0}]
  /\ Goto(c, "delete", "reset")
  /\ UNCHANGED <<redis, tx, now, reset, plans, evm, plan, seen, bill, stale, faults>>

\* Mutant: only the amounts of the operator are reset.
DeleteOperatorOnly(c) ==
  /\ pc[c] = "delete"
  /\ plans' = [id \in DOMAIN plans |->
                 IF id \in keys[c] /\ plans[id].tier = "OPERATOR"
                 THEN WithAmount(plans[id], 0, 0, plans[id].added, plans[id].lossy)
                 ELSE plans[id]]
  /\ keys' = [keys EXCEPT ![c] = {}]
  /\ Goto(c, "find", "reset")
  /\ UNCHANGED <<redis, tx, now, reset, evm, plan, seen, bill, stale, faults>>

\* The entries of `ids` are deleted; what was added in this window is lost.
Delete(c, ids) ==
  /\ pc[c] = "delete"
  /\ plans' = [id \in DOMAIN plans |->
                 IF id \in ids
                 THEN WithAmount(plans[id], 0, 0, plans[id].added,
                                 plans[id].lossy \/ plans[id].added > 0)
                 ELSE plans[id]]
  /\ keys' = [keys EXCEPT ![c] = {}]
  /\ Goto(c, "find", "reset")

DeleteKeys(c) ==
  /\ Delete(c, keys[c])
  /\ UNCHANGED <<redis, tx, now, reset, evm, plan, seen, bill, stale, faults>>

\* What each caller does with the plan it asked for and its amountSpent.
Use(c, id, amount) ==
  /\ reset' = IF stage[c] = "reset"
              THEN [reset EXCEPT ![tx[c].relay] = GetResetTimestamp(tx[c].relay)]
              ELSE reset
  /\ \/ stage[c] = "reset" /\ Goto(c, "find", "budget")
     \/ stage[c] = "budget" /\ ReachesLimit("OPERATOR", amount, tx[c].estimate)
        /\ Goto(c, "limited", "budget")
     \/ stage[c] = "budget" /\ ~ReachesLimit("OPERATOR", amount, tx[c].estimate)
        /\ Goto(c, "find", "sender")
     \/ stage[c] = "sender" /\ ReachesLimit(plans[id].tier, amount, tx[c].estimate)
        /\ Goto(c, "limited", "sender")
     \/ stage[c] = "sender" /\ ~ReachesLimit(plans[id].tier, amount, tx[c].estimate)
        /\ Goto(c, "execute", "sender")
     \/ stage[c] \in {"opAdd", "senderAdd"} /\ Goto(c, "get", stage[c])
     \/ stage[c] = "gauge" /\ Goto(c, "find", "senderAdd")
  /\ plan' = [plan EXCEPT ![c] = IF pc'[c] = "get" THEN id ELSE 0]

FindPlan(c) ==
  /\ pc[c] = "find"
  /\ \/ /\ GetSpendingPlan(c) # 0
        /\ UNCHANGED plans
        /\ Use(c, GetSpendingPlan(c), Amount(GetSpendingPlan(c)))
     \/ /\ GetSpendingPlan(c) = 0
        /\ Goto(c, "create", stage[c])
        /\ UNCHANGED <<reset, plan, plans>>
  /\ UNCHANGED <<redis, tx, now, evm, seen, keys, bill, stale, faults>>

\* createSpendingPlanForAddress: the plan, then the link from the address.
CreatePlan(c) ==
  /\ pc[c] = "create"
  /\ plans' = Append(plans, NewPlan(IF Address(c) = Operator THEN "OPERATOR" ELSE "BASIC", TtlEnd))
  /\ plan' = [plan EXCEPT ![c] = Len(plans) + 1]
  /\ Goto(c, "save", stage[c])
  /\ UNCHANGED <<redis, tx, now, reset, evm, seen, keys, bill, stale, faults>>

SavePlan(c) ==
  /\ pc[c] = "save"
  /\ evm' = [evm EXCEPT ![Address(c)] = plan[c]]
  /\ UNCHANGED plans
  /\ Use(c, plan[c], 0)
  /\ UNCHANGED <<redis, tx, now, seen, keys, bill, stale, faults>>
----------------------------------------------------------------------------
(* The execution, and addExpense for each fee.                             *)

\* The event is emitted when there is a response with a transaction id,
\* whatever the receipt says; its listener asks for the record of the
\* transaction.  Without a response or a record the fees are never charged.
Execute(c) ==
  /\ pc[c] = "execute"
  /\ Goto(c, "find", "opAdd") \/ Goto(c, "failed", "opAdd")
  /\ UNCHANGED <<redis, tx, now, reset, plans, evm, plan, seen, keys, bill, stale, faults>>

\* addToAmountSpent: checkExistsAndActive throws, or the entry decides how to
\* add.
GetAmount(c) ==
  /\ pc[c] = "get"
  /\ \/ ~Live(plan[c]) /\ Goto(c, "failed", stage[c])
     \/ Live(plan[c]) /\ Amount(plan[c]) = 0 /\ Goto(c, "set", stage[c])
     \/ Live(plan[c]) /\ Amount(plan[c]) > 0 /\ Goto(c, "incr", stage[c])
  /\ UNCHANGED <<redis, tx, now, reset, plans, evm, plan, seen, keys, bill, stale, faults>>

Fee(c) == tx[c].fees[bill[c]]

\* The fee was added: on to the gauge, the sender, the next fee or the end.
Added(c) ==
  /\ plan' = [plan EXCEPT ![c] = 0]
  /\ \/ stage[c] = "opAdd" /\ UNCHANGED bill
        /\ Goto(c, "find", IF GetSpendingPlan(c) # 0 THEN "senderAdd" ELSE "gauge")
     \/ /\ stage[c] = "senderAdd" /\ bill[c] < Len(tx[c].fees)
        /\ Goto(c, "find", "opAdd")
        /\ bill' = [bill EXCEPT ![c] = @ + 1]
     \/ /\ stage[c] = "senderAdd" /\ bill[c] = Len(tx[c].fees)
        /\ Goto(c, "end", "senderAdd") /\ UNCHANGED bill

SetAmount(c, amount, expires, lost) ==
  /\ plans' = [plans EXCEPT ![plan[c]] =
                 WithAmount(plans[plan[c]], amount, expires,
                            plans[plan[c]].added + Fee(c), plans[plan[c]].lossy \/ lost)]
  /\ Added(c)

SetFirst(c) ==
  /\ pc[c] = "set"
  /\ SetAmount(c, Fee(c), TtlEnd, Amount(plan[c]) > 0)
  /\ UNCHANGED <<redis, tx, now, reset, evm, seen, keys, stale, faults>>

\* INCRBY of a missing key makes one without a TTL.
KeepTtl(id) == IF Amount(id) > 0 THEN plans[id].amountExpires ELSE Forever

\* Mutant: the fee overwrites the amount.
IncrOverwrites(c) ==
  /\ pc[c] = "incr" /\ redis
  /\ SetAmount(c, Fee(c), KeepTtl(plan[c]), FALSE)
  /\ UNCHANGED <<redis, tx, now, reset, evm, seen, keys, stale, faults>>

IncrInRedis(c) ==
  /\ pc[c] = "incr" /\ redis
  /\ SetAmount(c, Amount(plan[c]) + Fee(c), KeepTtl(plan[c]), FALSE)
  /\ UNCHANGED <<redis, tx, now, reset, evm, seen, keys, stale, faults>>

\* LocalLRUCache.incrBy: read, then write.
IncrReads(c) ==
  /\ pc[c] = "incr" /\ ~redis
  /\ seen' = [seen EXCEPT ![c] = Amount(plan[c])]
  /\ Goto(c, "write", stage[c])
  /\ UNCHANGED <<redis, tx, now, reset, plans, evm, plan, keys, bill, stale, faults>>

IncrWrites(c) ==
  /\ pc[c] = "write"
  /\ SetAmount(c, seen[c] + Fee(c), KeepTtl(plan[c]), Amount(plan[c]) # seen[c])
  /\ seen' = [seen EXCEPT ![c] = 0]
  /\ UNCHANGED <<redis, tx, now, reset, evm, keys, stale, faults>>
----------------------------------------------------------------------------
(* SafeRedisCache: a command that fails is logged and answered as if there  *)
(* were nothing.                                                            *)
CommandFails(c) ==
  /\ redis /\ faults < MaxFaults
  /\ faults' = faults + 1
  /\ \/ /\ pc[c] = "keys"                     \* nothing is listed
        /\ Goto(c, "delete", "reset")
        /\ UNCHANGED <<reset, plans, evm, plan, keys, bill>>
     \/ /\ \E id \in keys[c] : Delete(c, keys[c] \ {id})   \* one is not deleted
        /\ UNCHANGED <<reset, evm, plan, bill>>
     \/ /\ pc[c] = "find"                     \* a link or a plan is not found
        /\ ~(Live(tx[c].ip) /\ Live(evm[Address(c)]))
        /\ Goto(c, "create", stage[c])
        /\ UNCHANGED <<reset, plans, evm, plan, keys, bill>>
     \/ /\ pc[c] = "find" /\ Live(tx[c].ip)
        /\ UNCHANGED plans
        /\ Use(c, tx[c].ip, Amount(tx[c].ip))
        /\ UNCHANGED <<evm, keys, bill>>
     \/ /\ pc[c] = "create"                   \* the plan is not stored
        /\ plans' = Append(plans, NewPlan("BASIC", 0))
        /\ plan' = [plan EXCEPT ![c] = Len(plans) + 1]
        /\ Goto(c, "save", stage[c])
        /\ UNCHANGED <<reset, evm, keys, bill>>
     \/ /\ pc[c] = "find" /\ GetSpendingPlan(c) # 0   \* the amount is not found
        /\ UNCHANGED plans
        /\ Use(c, GetSpendingPlan(c), 0)
        /\ UNCHANGED <<evm, keys, bill>>
     \/ /\ pc[c] = "save"                     \* the link is not saved
        /\ UNCHANGED plans
        /\ Use(c, plan[c], 0)
        /\ UNCHANGED <<evm, keys, bill>>
     \/ /\ pc[c] = "get" /\ Live(plan[c])     \* the amount is not found
        /\ Goto(c, "set", stage[c])
        /\ UNCHANGED <<reset, plans, evm, plan, keys, bill>>
     \/ /\ pc[c] = "get"                      \* the plan is not found
        /\ Goto(c, "failed", stage[c])
        /\ UNCHANGED <<reset, plans, evm, plan, keys, bill>>
     \/ /\ pc[c] \in {"set", "incr"}          \* the fee is not added
        /\ SetAmount(c, Amount(plan[c]), plans[plan[c]].amountExpires, TRUE)
        /\ UNCHANGED <<reset, evm, keys>>
  /\ UNCHANGED <<redis, tx, now, seen, stale>>

\* LocalLRUCache: the entries of the rest of the relay, which share CACHE_MAX with
\* these, push out the least recently used, be it an amount, a plan or a link.
\* The keys of the preconfigured plans are reserved.
EvictAmount(id) ==
  /\ Amount(id) > 0
  /\ plans' = [plans EXCEPT ![id] =
                 WithAmount(plans[id], 0, 0, plans[id].added, plans[id].lossy \/ plans[id].added > 0)]
  /\ UNCHANGED evm

EvictPlan(id) ==
  /\ Live(id)
  /\ plans' = [plans EXCEPT ![id] = [plans[id] EXCEPT !.expires = 0]]
  /\ UNCHANGED evm

EvictLink(a) ==
  /\ evm[a] # 0
  /\ evm' = [evm EXCEPT ![a] = 0]
  /\ UNCHANGED plans

Evict ==
  /\ ~redis /\ faults < MaxFaults
  /\ faults' = faults + 1
  /\ \/ \E id \in DOMAIN plans \ DOMAIN Configured : EvictAmount(id) \/ EvictPlan(id)
     \/ \E a \in Senders \cup {Operator} : EvictLink(a)
  /\ UNCHANGED <<redis, tx, now, reset, call, stale>>

\* Time goes on; what was added counts per window.
Tick ==
  /\ now < MaxTime
  /\ now' = now + 1
  /\ LET fresh == now' % Duration = 0
     IN /\ stale' = IF fresh
                    THEN {<<c, stage[c]>> : c \in {d \in Calls : pc[d] \notin Final \cup {"start"}}}
                    ELSE stale
        /\ plans' = [id \in DOMAIN plans |->
             WithAmount(plans[id], plans[id].amount, plans[id].amountExpires,
                        IF fresh THEN 0 ELSE plans[id].added,
                        /\ ~fresh
                        /\ \/ plans[id].lossy
                           \/ plans[id].added > 0 /\ plans[id].amountExpires = now')]
  /\ UNCHANGED <<redis, tx, reset, evm, call, faults>>
----------------------------------------------------------------------------
Progress(c) ==
  \/ Start(c) \/ ListKeys(c) \/ DeleteKeys(c) \/ FindPlan(c) \/ CreatePlan(c)
  \/ SavePlan(c) \/ Execute(c) \/ GetAmount(c) \/ SetFirst(c)
  \/ IncrInRedis(c) \/ IncrReads(c) \/ IncrWrites(c)

Next == Tick \/ Evict \/ \E c \in Calls : Progress(c) \/ CommandFails(c)

Spec == Init /\ [][Next]_vars
----------------------------------------------------------------------------
(* Properties                                                              *)

Plan == [tier : Tier, expires : Nat, amount : Nat, amountExpires : Nat,
         added : Nat, lossy : BOOLEAN]

Stages == {"reset", "budget", "sender", "opAdd", "gauge", "senderAdd"}

TypeOK ==
  /\ redis \in BOOLEAN /\ tx \in Workloads
  /\ now \in 1 .. MaxTime
  /\ reset \in [Relays -> Nat]
  /\ plans \in Seq(Plan)
  /\ evm \in [Senders \cup {Operator} -> 0 .. Len(plans)]
  /\ pc \in [Calls -> {"start", "keys", "delete", "find", "create", "save", "execute",
                       "get", "set", "incr", "write"} \cup Final]
  /\ stage \in [Calls -> Stages]
  /\ plan \in [Calls -> 0 .. Len(plans)]
  /\ seen \in [Calls -> Nat]
  /\ keys \in [Calls -> SUBSET DOMAIN plans]
  /\ bill \in [Calls -> Nat \ {0}]
  /\ \A c \in Calls : bill[c] \in DOMAIN tx[c].fees
  /\ stale \subseteq Calls \X Stages
  /\ faults \in 0 .. MaxFaults

\* No charge gets lost on the way: the amount of a plan covers everything added
\* to it in this window, unless the entry was reset again, ran out, was evicted
\* from the memory of the relay, was overwritten by a concurrent first charge or
\* increment, or a command failed.
AmountCoversCharges ==
  \A id \in DOMAIN plans : plans[id].lossy \/ Amount(id) >= plans[id].added

Limit(c) ==
  IF stage[c] = "budget" THEN TierLimit["OPERATOR"] ELSE TierLimit[plans[GetSpendingPlan(c)].tier]

Admitted(c) ==
  \/ stage[c] = "budget" /\ stage'[c] = "sender"
  \/ stage[c] = "sender" /\ pc'[c] = "execute"

\* A call passes a check of a plan only if what was added to the plan in this
\* window, with the estimate, is within the limit, or the plan's amount lost
\* charges.  A plan that ran out or was evicted is not found any more: the next
\* call of its address gets a new one, with nothing added to it.
AdmittedWithinLimit ==
  [][\A c \in Calls : pc[c] = "find" /\ Admitted(c) /\ faults' = faults =>
       LET p == plans[GetSpendingPlan(c)] IN
       \/ p.added < Limit(c) /\ p.added + tx[c].estimate <= Limit(c)
       \/ p.lossy]_vars

BeganEarlier(c) == \E s \in Stages : <<c, s>> \in stale

\* A reset of relay r that listed the amounts of an earlier window may have
\* moved the reset time into this one.
ResetsLate(r) == \E d \in Calls : <<d, "reset">> \in stale /\ tx[d].relay = r

\* A call is limited only for what was added to the plan in this window: never
\* for an amount of an earlier window, unless the call itself, or a reset of its
\* relay, began then, a write of the old amount came after the reset, or a
\* command failed.
LimitedForThisWindow ==
  [][\A c \in Calls : pc[c] = "find" /\ pc'[c] = "limited" =>
       LET p == plans[GetSpendingPlan(c)] IN
       \/ p.added >= Limit(c) \/ p.added + tx[c].estimate > Limit(c)
       \/ BeganEarlier(c) \/ ResetsLate(tx[c].relay)
       \/ p.lossy
       \/ redis /\ faults' > 0]_vars
=============================================================================
