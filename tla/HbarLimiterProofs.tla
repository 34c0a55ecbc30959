--------------------------- MODULE HbarLimiterProofs ---------------------------
(***************************************************************************)
(* The amount of a spending plan covers what was charged to it in this      *)
(* window, for any number of relays, calls, plans, fees, failures and any   *)
(* window; and so nobody is let through past the limit of a plan whose      *)
(* amount is complete.  The reset takes away what is left of an earlier     *)
(* window; and so nobody is limited for it, unless the reset itself began   *)
(* in that window.                                                          *)
(***************************************************************************)
EXTENDS HbarLimiter, TLAPS

\* A call that adds to a plan, or links one, has a plan.
PlanInv ==
  \A c \in Calls : pc[c] \in {"save", "get", "set", "incr", "write"} => plan[c] \in DOMAIN plans

IInv == TypeOK /\ PlanInv /\ AmountCoversCharges

Steps  == {"start", "keys", "delete", "find", "create", "save", "execute",
           "get", "set", "incr", "write", "limited", "end", "failed"}

\* The state of a call stays well-formed when the call moves on.
LEMMA GotoType ==
  ASSUME TypeOK, NEW c \in Calls, NEW p \in Steps, NEW s \in Stages, Goto(c, p, s)
  PROVE  /\ pc' \in [Calls -> Steps] /\ stage' \in [Calls -> Stages]
         /\ pc'[c] = p /\ stage'[c] = s
         /\ \A d \in Calls : d # c => pc'[d] = pc[d] /\ stage'[d] = stage[d]
  BY DEF TypeOK, Goto, Steps, Stages, Final

\* A plan as findById finds it is one of the plans.
LEMMA FoundPlan ==
  ASSUME TypeOK, NEW c \in Calls, GetSpendingPlan(c) # 0
  PROVE  GetSpendingPlan(c) \in DOMAIN plans
  BY DEF GetSpendingPlan, Live

\* The reset timestamp is a time.
LEMMA ResetType ==
  ASSUME TypeOK, NEW r \in Relays
  PROVE  GetResetTimestamp(r) \in Nat
  <1>1. now \in Nat /\ reset[r] \in Nat /\ Duration \in Nat /\ Duration > 0
    BY HbarAssumption DEF TypeOK
  <1>2. CASE reset[r] < now
    <2>1. now - reset[r] + Duration - 1 \in Nat
      BY <1>1, <1>2
    <2>2. (now - reset[r] + Duration - 1) \div Duration \in Nat
      BY <1>1, <2>1
    <2>3. ((now - reset[r] + Duration - 1) \div Duration) * Duration \in Nat
      BY <1>1, <2>2
    <2> QED
      BY <1>1, <1>2, <2>3 DEF GetResetTimestamp
  <1>3. CASE ~(reset[r] < now)
    BY <1>1, <1>3 DEF GetResetTimestamp
  <1> QED
    BY <1>2, <1>3

\* What follows a lookup keeps the types, and a call that adds has its plan.
LEMMA UseType ==
  ASSUME TypeOK, PlanInv, NEW c \in Calls, NEW id \in DOMAIN plans, NEW amount,
         Use(c, id, amount), UNCHANGED plans
  PROVE  /\ pc' \in [Calls -> Steps] /\ stage' \in [Calls -> Stages]
         /\ plan' \in [Calls -> 0 .. Len(plans)]
         /\ reset' \in [Relays -> Nat]
         /\ PlanInv'
  <1>1. PICK p \in Steps, s \in Stages : Goto(c, p, s) /\ p \in {"find", "limited", "execute", "get"}
    BY DEF Use, Steps, Stages
  <1>2. /\ pc' \in [Calls -> Steps] /\ stage' \in [Calls -> Stages]
        /\ pc'[c] = p
        /\ \A d \in Calls : d # c => pc'[d] = pc[d] /\ stage'[d] = stage[d]
    BY <1>1, GotoType
  <1>3. id \in 1 .. Len(plans) /\ Len(plans) \in Nat
    BY DEF TypeOK
  <1>4. plan' = [plan EXCEPT ![c] = IF pc'[c] = "get" THEN id ELSE 0]
    BY DEF Use
  <1>5. plan' \in [Calls -> 0 .. Len(plans)]
    BY <1>3, <1>4 DEF TypeOK
  <1>6. PlanInv'
    BY <1>1, <1>2, <1>4 DEF PlanInv, TypeOK
  <1>7. tx[c].relay \in Relays
    BY HbarAssumption DEF TypeOK
  <1>8. reset' \in [Relays -> Nat]
    BY <1>7, ResetType DEF Use, TypeOK
  <1> QED
    BY <1>2, <1>5, <1>6, <1>8

\* The amounts do not change while neither the plans nor the clock do.
LEMMA CoversUnchanged ==
  ASSUME AmountCoversCharges, UNCHANGED <<plans, now>>
  PROVE  AmountCoversCharges'
  BY DEF AmountCoversCharges, Amount
----------------------------------------------------------------------------
(* The steps that change plans.                                            *)

\* The fee of a call is a positive amount.
LEMMA FeeType ==
  ASSUME TypeOK, NEW c \in Calls
  PROVE  Fee(c) \in Nat \ {0}
  BY HbarAssumption DEF TypeOK, Fee

\* What a call does after an addition keeps the types.
LEMMA AddedType ==
  ASSUME TypeOK, PlanInv, NEW c \in Calls, Added(c), UNCHANGED tx,
         DOMAIN plans' = DOMAIN plans
  PROVE  /\ pc' \in [Calls -> Steps] /\ stage' \in [Calls -> Stages]
         /\ plan' \in [Calls -> 0 .. Len(plans)]
         /\ bill' \in [Calls -> Nat \ {0}]
         /\ \A d \in Calls : bill'[d] \in DOMAIN tx[d].fees
         /\ PlanInv'
  <1>1. PICK p \in Steps, s \in Stages : Goto(c, p, s) /\ p \in {"find", "end"}
    BY DEF Added, Steps, Stages
  <1>2. /\ pc' \in [Calls -> Steps] /\ stage' \in [Calls -> Stages]
        /\ pc'[c] = p
        /\ \A d \in Calls : d # c => pc'[d] = pc[d]
    BY <1>1, GotoType
  <1>3. Len(plans) \in Nat /\ plan' = [plan EXCEPT ![c] = 0]
    BY DEF TypeOK, Added
  <1>4. plan' \in [Calls -> 0 .. Len(plans)]
    BY <1>3 DEF TypeOK
  <1>5. PlanInv'
    BY <1>1, <1>2, <1>3 DEF PlanInv, TypeOK
  <1>6. tx[c].fees \in Seq(Nat \ {0})
    BY HbarAssumption DEF TypeOK
  <1>7. \/ bill' = bill
        \/ bill[c] < Len(tx[c].fees) /\ bill' = [bill EXCEPT ![c] = @ + 1]
    BY DEF Added
  <1>8. bill' \in [Calls -> Nat \ {0}] /\ \A d \in Calls : bill'[d] \in DOMAIN tx[d].fees
    <2>1. DOMAIN tx[c].fees = 1 .. Len(tx[c].fees) /\ Len(tx[c].fees) \in Nat
      BY <1>6
    <2>2. bill \in [Calls -> Nat \ {0}] /\ \A d \in Calls : bill[d] \in DOMAIN tx[d].fees
      BY DEF TypeOK
    <2> QED
      BY <1>7, <2>1, <2>2
  <1> QED
    BY <1>2, <1>4, <1>5, <1>8

\* An amount is a natural number.
LEMMA AmountType ==
  ASSUME TypeOK, NEW id \in DOMAIN plans
  PROVE  Amount(id) \in Nat
  <1>1. plans \in Seq(Plan)
    BY DEF TypeOK
  <1>2. plans[id] \in Plan
    BY <1>1
  <1> QED
    BY <1>2 DEF Plan, Amount

\* An addition to a plan keeps its amount above its charges, if the new amount
\* contains the fee and all that was added before, or the plan is marked.
LEMMA SetStep ==
  ASSUME IInv, NEW c \in Calls, pc[c] \in {"set", "incr", "write"},
         NEW amount \in Nat, NEW expires \in Nat, NEW lost \in BOOLEAN,
         SetAmount(c, amount, expires, lost),
         \/ lost \/ plans[plan[c]].lossy
         \/ expires > now /\ amount >= plans[plan[c]].added + Fee(c),
         UNCHANGED <<redis, tx, now, reset, evm, keys, stale>>,
         seen' \in [Calls -> Nat], faults' \in 0 .. MaxFaults
  PROVE  IInv'
  <1> DEFINE i == plan[c]
             total == plans[i].added + Fee(c)
             lossy == plans[i].lossy \/ lost
             new == WithAmount(plans[i], amount, expires, total, lossy)
  <1>1. i \in DOMAIN plans /\ plans \in Seq(Plan) /\ plans[i] \in Plan
    BY DEF IInv, PlanInv, TypeOK
  <1>2. Fee(c) \in Nat \ {0} /\ total \in Nat /\ lossy \in BOOLEAN
    <2>1. Fee(c) \in Nat \ {0}
      BY FeeType DEF IInv
    <2>2. plans[i].added \in Nat
      BY <1>1 DEF Plan
    <2>3. lossy \in BOOLEAN
      BY Zenon
    <2> QED
      BY <2>1, <2>2, <2>3
  <1>3. plans' = [plans EXCEPT ![i] = new]
    BY DEF SetAmount
  <1>4. \/ lossy
        \/ expires > now /\ amount >= total
    OBVIOUS
  <1> HIDE DEF total, lossy, i
  <1>5. /\ new \in Plan
        /\ new.amount = amount /\ new.amountExpires = expires
        /\ new.added = total /\ new.lossy = lossy
    BY <1>1, <1>2 DEF WithAmount, Plan
  <1> HIDE DEF new
  <1>6. /\ plans' \in Seq(Plan) /\ DOMAIN plans' = DOMAIN plans /\ Len(plans') = Len(plans)
        /\ plans'[i] = new
        /\ \A j \in DOMAIN plans : j # i => plans'[j] = plans[j]
    BY <1>1, <1>3, <1>5
  <1>7. AmountCoversCharges'
    <2> SUFFICES ASSUME NEW j \in DOMAIN plans'
                 PROVE  plans'[j].lossy \/ Amount(j)' >= plans'[j].added
      BY DEF AmountCoversCharges
    <2>1. CASE j = i
      BY <2>1, <1>2, <1>4, <1>5, <1>6 DEF Amount
    <2>2. CASE j # i
      BY <2>2, <1>6 DEF Amount, IInv, AmountCoversCharges
    <2> QED
      BY <2>1, <2>2
  <1>8. Added(c) /\ TypeOK /\ PlanInv
    BY DEF SetAmount, IInv
  <1>9. TypeOK'
    BY <1>6, <1>8, AddedType DEF TypeOK, Steps, Stages, Final
  <1> QED
    BY <1>6, <1>7, <1>8, <1>9, AddedType DEF IInv

\* A deletion empties the amounts of some plans, and marks those of them that
\* were charged in this window.
LEMMA DeleteStep ==
  ASSUME IInv, NEW c \in Calls, NEW ids, Delete(c, ids),
         UNCHANGED <<redis, tx, now, reset, evm, plan, seen, bill, stale>>,
         faults' \in 0 .. MaxFaults
  PROVE  IInv'
  <1> DEFINE new(id) == IF id \in ids
                        THEN WithAmount(plans[id], 0, 0, plans[id].added,
                                        plans[id].lossy \/ plans[id].added > 0)
                        ELSE plans[id]
  <1>1. plans' = [id \in DOMAIN plans |-> new(id)]
    BY DEF Delete
  <1>2. plans \in Seq(Plan) /\ DOMAIN plans = 1 .. Len(plans) /\ Len(plans) \in Nat
    BY DEF IInv, TypeOK
  <1>3. ASSUME NEW id \in DOMAIN plans
        PROVE  /\ new(id) \in Plan /\ new(id).added = plans[id].added
               /\ id \in ids => new(id).lossy = (plans[id].lossy \/ plans[id].added > 0)
               /\ id \notin ids => new(id) = plans[id]
    <2>1. plans[id] \in Plan /\ 0 \in Nat
      BY <1>2
    <2>2. plans[id].added \in Nat /\ (plans[id].lossy \/ plans[id].added > 0) \in BOOLEAN
      BY <2>1 DEF Plan
    <2>3. CASE id \in ids
      BY <2>1, <2>2, <2>3 DEF WithAmount, Plan
    <2>4. CASE id \notin ids
      BY <2>1, <2>4
    <2> QED
      BY <2>3, <2>4
  <1> HIDE DEF new
  <1>4. plans' \in Seq(Plan) /\ DOMAIN plans' = DOMAIN plans /\ Len(plans') = Len(plans)
    BY <1>1, <1>2, <1>3
  <1>5. AmountCoversCharges'
    <2> SUFFICES ASSUME NEW id \in DOMAIN plans
                 PROVE  plans'[id].lossy \/ Amount(id)' >= plans'[id].added
      BY <1>4 DEF AmountCoversCharges
    <2>1. plans'[id] = new(id) /\ plans[id] \in Plan /\ new(id) \in Plan
      BY <1>1, <1>2, <1>3
    <2>2. CASE id \notin ids
      BY <2>1, <2>2, <1>3 DEF Amount, IInv, AmountCoversCharges
    <2>3. CASE id \in ids
      <3>1. CASE plans[id].added > 0
        BY <2>1, <2>3, <3>1, <1>3
      <3>2. CASE plans[id].added = 0
        BY <2>1, <2>3, <3>2, <1>3 DEF Amount, Plan
      <3> QED
        BY <2>1, <3>1, <3>2 DEF Plan
    <2> QED
      BY <2>2, <2>3
  <1>6. /\ pc' \in [Calls -> Steps] /\ stage' \in [Calls -> Stages]
        /\ pc'[c] = "find" /\ \A d \in Calls : d # c => pc'[d] = pc[d]
    BY GotoType DEF Delete, IInv, Steps, Stages
  <1>7. keys' \in [Calls -> SUBSET DOMAIN plans]
    BY DEF Delete, IInv, TypeOK
  <1>8. TypeOK'
    BY <1>4, <1>6, <1>7 DEF IInv, TypeOK, Steps, Stages, Final
  <1>9. PlanInv'
    BY <1>4, <1>6 DEF IInv, PlanInv
  <1> QED
    BY <1>5, <1>8, <1>9 DEF IInv

\* A new plan has no charges.
LEMMA CreateStep ==
  ASSUME IInv, NEW c \in Calls, NEW tier \in Tier, NEW ttl \in Nat,
         plans' = Append(plans, NewPlan(tier, ttl)),
         plan' = [plan EXCEPT ![c] = Len(plans) + 1],
         NEW s \in Stages, Goto(c, "save", s),
         UNCHANGED <<redis, tx, now, reset, evm, seen, keys, bill, stale>>,
         faults' \in 0 .. MaxFaults
  PROVE  IInv'
  <1>1. /\ NewPlan(tier, ttl) \in Plan /\ NewPlan(tier, ttl).added = 0
        /\ NewPlan(tier, ttl).amountExpires = 0
    BY DEF NewPlan, Plan
  <1>2. plans \in Seq(Plan) /\ Len(plans) \in Nat /\ DOMAIN plans = 1 .. Len(plans)
    BY DEF IInv, TypeOK
  <1>3. /\ plans' \in Seq(Plan) /\ Len(plans') = Len(plans) + 1
        /\ DOMAIN plans' = 1 .. (Len(plans) + 1)
        /\ plans'[Len(plans) + 1] = NewPlan(tier, ttl)
        /\ \A id \in DOMAIN plans : plans'[id] = plans[id]
    BY <1>1, <1>2
  <1>4. AmountCoversCharges'
    <2> SUFFICES ASSUME NEW id \in DOMAIN plans'
                 PROVE  plans'[id].lossy \/ Amount(id)' >= plans'[id].added
      BY DEF AmountCoversCharges
    <2>1. CASE id = Len(plans) + 1
      <3>1. now \in Nat
        BY DEF IInv, TypeOK
      <3> QED
        BY <2>1, <3>1, <1>1, <1>3 DEF Amount
    <2>2. CASE id \in DOMAIN plans
      BY <2>2, <1>3 DEF Amount, IInv, AmountCoversCharges
    <2> QED
      BY <2>1, <2>2, <1>2, <1>3
  <1>5. /\ pc' \in [Calls -> Steps] /\ stage' \in [Calls -> Stages]
        /\ pc'[c] = "save" /\ \A d \in Calls : d # c => pc'[d] = pc[d]
    BY GotoType DEF IInv, Steps, Stages
  <1>6. TypeOK /\ PlanInv
    BY DEF IInv
  <1>7. plan' \in [Calls -> 0 .. Len(plans')]
    BY <1>2, <1>3, <1>6 DEF TypeOK
  <1>8. evm' \in [Senders \cup {Operator} -> 0 .. Len(plans')]
    BY <1>2, <1>3, <1>6 DEF TypeOK
  <1>9. keys' \in [Calls -> SUBSET DOMAIN plans']
    BY <1>2, <1>3, <1>6 DEF TypeOK
  <1>10. TypeOK'
    BY <1>3, <1>5, <1>6, <1>7, <1>8, <1>9 DEF TypeOK, Steps, Stages, Final
  <1>11. PlanInv'
    BY <1>2, <1>3, <1>5, <1>6 DEF PlanInv, TypeOK
  <1> QED
    BY <1>4, <1>10, <1>11 DEF IInv

\* When the clock ticks, an entry that runs out takes its charges with it and
\* marks the plan; a new window has no charges.
LEMMA TickStep ==
  ASSUME IInv, Tick
  PROVE  IInv'
  <1> DEFINE fresh == (now + 1) % Duration = 0
             added(id) == IF fresh THEN 0 ELSE plans[id].added
             lossy(id) == /\ ~fresh
                          /\ \/ plans[id].lossy
                             \/ plans[id].added > 0 /\ plans[id].amountExpires = now + 1
             new(id) == WithAmount(plans[id], plans[id].amount, plans[id].amountExpires,
                                   added(id), lossy(id))
  <1>1. now' = now + 1 /\ plans' = [id \in DOMAIN plans |-> new(id)]
    BY DEF Tick
  <1>2. /\ plans \in Seq(Plan) /\ DOMAIN plans = 1 .. Len(plans) /\ Len(plans) \in Nat
        /\ now \in Nat /\ now' \in 1 .. MaxTime
    BY <1>1, HbarAssumption DEF IInv, TypeOK, Tick
  <1>3. ASSUME NEW id \in DOMAIN plans
        PROVE  /\ added(id) \in Nat /\ lossy(id) \in BOOLEAN /\ plans[id] \in Plan
               /\ fresh => added(id) = 0
               /\ ~fresh => added(id) = plans[id].added
               /\ ~fresh /\ plans[id].lossy => lossy(id)
               /\ ~fresh /\ plans[id].added > 0 /\ plans[id].amountExpires = now + 1 => lossy(id)
    <2>1. plans[id] \in Plan
      BY <1>2
    <2>2. added(id) \in Nat
      BY <2>1 DEF Plan
    <2>3. lossy(id) \in BOOLEAN
      BY Zenon
    <2> QED
      BY <2>1, <2>2, <2>3
  <1> HIDE DEF added, lossy, fresh
  <1>4. ASSUME NEW id \in DOMAIN plans
        PROVE  /\ new(id) \in Plan /\ new(id).amount = plans[id].amount
               /\ new(id).amountExpires = plans[id].amountExpires
               /\ new(id).added = added(id) /\ new(id).lossy = lossy(id)
    BY <1>3 DEF WithAmount, Plan
  <1> HIDE DEF new
  <1>5. plans' \in Seq(Plan) /\ DOMAIN plans' = DOMAIN plans /\ Len(plans') = Len(plans)
    BY <1>1, <1>2, <1>4
  <1>6. AmountCoversCharges'
    <2> SUFFICES ASSUME NEW id \in DOMAIN plans
                 PROVE  plans'[id].lossy \/ Amount(id)' >= plans'[id].added
      BY <1>5 DEF AmountCoversCharges
    <2>1. /\ plans'[id].amount = plans[id].amount
          /\ plans'[id].amountExpires = plans[id].amountExpires
          /\ plans'[id].added = added(id) /\ plans'[id].lossy = lossy(id)
      BY <1>1, <1>4
    <2>2. /\ plans[id].amount \in Nat /\ plans[id].amountExpires \in Nat
          /\ plans[id].added \in Nat
      <3>1. plans[id] \in Plan
        BY <1>2
      <3> QED
        BY <3>1 DEF Plan
    <2>3. CASE fresh
      BY <1>3, <2>1, <2>2, <2>3 DEF Amount
    <2>4. CASE ~fresh
      <3>1. plans[id].lossy \/ Amount(id) >= plans[id].added
        BY DEF IInv, AmountCoversCharges
      <3>2. CASE plans[id].lossy
        BY <3>2, <1>3, <2>1, <2>4
      <3>3. CASE Amount(id) >= plans[id].added /\ now + 1 < plans[id].amountExpires
        BY <3>3, <1>1, <1>2, <1>3, <2>1, <2>2, <2>4 DEF Amount
      <3>4. CASE Amount(id) >= plans[id].added /\ plans[id].amountExpires = now + 1
        <4>1. CASE plans[id].added > 0
          BY <3>4, <4>1, <1>3, <2>1, <2>4
        <4>2. CASE plans[id].added = 0
          BY <3>4, <4>2, <1>3, <2>1, <2>2, <2>4 DEF Amount
        <4> QED
          BY <2>2, <4>1, <4>2
      <3>5. CASE Amount(id) >= plans[id].added /\ plans[id].amountExpires <= now
        BY <3>5, <1>2, <1>3, <2>1, <2>2, <2>4 DEF Amount
      <3> QED
        BY <3>1, <3>2, <3>3, <3>4, <3>5, <1>2, <2>2
    <2> QED
      BY <2>3, <2>4
  <1>7. TypeOK'
    <2>1. stale' \subseteq Calls \X Stages
      BY DEF Tick, IInv, TypeOK
    <2> QED
      BY <2>1, <1>2, <1>5 DEF IInv, TypeOK, Tick, call
  <1>8. PlanInv'
    BY <1>5 DEF IInv, PlanInv, Tick, call
  <1> QED
    BY <1>6, <1>7, <1>8 DEF IInv
\* An eviction empties an amount and marks the plan, if it was charged in this
\* window, or takes away a plan or a link and leaves the amounts alone: no
\* amount is more than it was, or less than its charges without a mark.
LEMMA EvictFrame ==
  ASSUME IInv, Evict
  PROVE  /\ plans' \in Seq(Plan) /\ DOMAIN plans' = DOMAIN plans /\ Len(plans') = Len(plans)
         /\ evm' \in [Senders \cup {Operator} -> 0 .. Len(plans)]
         /\ faults' \in 0 .. MaxFaults
         /\ \A id \in DOMAIN plans :
              /\ plans'[id].lossy \/ Amount(id)' >= plans'[id].added
              /\ ~plans'[id].lossy /\ Amount(id)' > plans'[id].added =>
                   ~plans[id].lossy /\ Amount(id) > plans[id].added
  <1>1. /\ TypeOK /\ AmountCoversCharges /\ now' = now
        /\ plans \in Seq(Plan) /\ evm \in [Senders \cup {Operator} -> 0 .. Len(plans)]
        /\ Len(plans) \in Nat /\ DOMAIN plans = 1 .. Len(plans)
    BY DEF IInv, TypeOK, Evict
  <1>2. faults' \in 0 .. MaxFaults
    BY <1>1, HbarAssumption DEF Evict, TypeOK
  <1>3. ASSUME NEW id \in DOMAIN plans, EvictAmount(id)
        PROVE  /\ plans' \in Seq(Plan) /\ DOMAIN plans' = DOMAIN plans /\ Len(plans') = Len(plans)
               /\ plans'[id].added = plans[id].added /\ Amount(id)' = 0
               /\ plans[id].added \in Nat
               /\ plans[id].added > 0 => plans'[id].lossy
               /\ \A j \in DOMAIN plans : j # id => plans'[j] = plans[j]
    <2> DEFINE lossy == plans[id].lossy \/ plans[id].added > 0
               new == WithAmount(plans[id], 0, 0, plans[id].added, lossy)
    <2>1. plans[id] \in Plan /\ 0 \in Nat
      BY <1>1
    <2>2. plans[id].added \in Nat /\ lossy \in BOOLEAN /\ (plans[id].added > 0 => lossy)
      BY <2>1 DEF Plan
    <2>3. plans' = [plans EXCEPT ![id] = new]
      BY <1>3 DEF EvictAmount
    <2> HIDE DEF lossy
    <2>4. new \in Plan /\ new.added = plans[id].added /\ new.lossy = lossy /\ new.amount = 0
      BY <2>1, <2>2 DEF WithAmount, Plan
    <2> HIDE DEF new
    <2>5. /\ plans' \in Seq(Plan) /\ DOMAIN plans' = DOMAIN plans /\ Len(plans') = Len(plans)
          /\ plans'[id] = new /\ \A j \in DOMAIN plans : j # id => plans'[j] = plans[j]
      BY <1>1, <2>3, <2>4
    <2> QED
      BY <2>2, <2>4, <2>5 DEF Amount
  <1>4. ASSUME NEW id \in DOMAIN plans, EvictPlan(id)
        PROVE  /\ plans' \in Seq(Plan) /\ DOMAIN plans' = DOMAIN plans /\ Len(plans') = Len(plans)
               /\ \A j \in DOMAIN plans :
                    /\ plans'[j].added = plans[j].added /\ plans'[j].lossy = plans[j].lossy
                    /\ Amount(j)' = Amount(j)
    <2> DEFINE new == [plans[id] EXCEPT !.expires = 0]
    <2>1. plans[id] \in Plan /\ 0 \in Nat
      BY <1>1
    <2>2. plans' = [plans EXCEPT ![id] = new]
      BY <1>4 DEF EvictPlan
    <2>3. /\ new \in Plan /\ new.added = plans[id].added /\ new.lossy = plans[id].lossy
          /\ new.amount = plans[id].amount /\ new.amountExpires = plans[id].amountExpires
      BY <2>1 DEF Plan
    <2> HIDE DEF new
    <2>4. /\ plans' \in Seq(Plan) /\ DOMAIN plans' = DOMAIN plans /\ Len(plans') = Len(plans)
          /\ plans'[id] = new /\ \A j \in DOMAIN plans : j # id => plans'[j] = plans[j]
      BY <1>1, <2>2, <2>3
    <2> QED
      BY <1>1, <2>3, <2>4 DEF Amount
  <1>5. CASE \E id \in DOMAIN plans \ DOMAIN Configured : EvictAmount(id)
    <2>1. PICK id \in DOMAIN plans : EvictAmount(id)
      BY <1>5
    <2>2. evm' = evm
      BY <2>1 DEF EvictAmount
    <2>3. ASSUME NEW j \in DOMAIN plans
          PROVE  /\ plans'[j].lossy \/ Amount(j)' >= plans'[j].added
                 /\ ~plans'[j].lossy /\ Amount(j)' > plans'[j].added =>
                      ~plans[j].lossy /\ Amount(j) > plans[j].added
      <3>1. CASE j = id
        BY <1>3, <2>1, <3>1
      <3>2. CASE j # id
        BY <1>1, <1>3, <2>1, <3>2 DEF Amount, AmountCoversCharges
      <3> QED
        BY <3>1, <3>2
    <2> QED
      BY <1>1, <1>2, <1>3, <2>1, <2>2, <2>3
  <1>6. CASE \E id \in DOMAIN plans \ DOMAIN Configured : EvictPlan(id)
    <2>1. PICK id \in DOMAIN plans : EvictPlan(id)
      BY <1>6
    <2>2. evm' = evm
      BY <2>1 DEF EvictPlan
    <2> QED
      BY <1>1, <1>2, <1>4, <2>1, <2>2 DEF AmountCoversCharges
  <1>7. CASE \E a \in Senders \cup {Operator} : EvictLink(a)
    BY <1>1, <1>2, <1>7 DEF EvictLink, Amount, AmountCoversCharges
  <1> QED
    BY <1>5, <1>6, <1>7 DEF Evict

LEMMA EvictStep ==
  ASSUME IInv, Evict
  PROVE  IInv'
  <1>1. UNCHANGED <<redis, tx, now, reset, pc, stage, plan, seen, keys, bill, stale>>
    BY DEF Evict, call
  <1>2. TypeOK'
    BY <1>1, EvictFrame DEF IInv, TypeOK
  <1>3. PlanInv'
    BY <1>1, EvictFrame DEF IInv, PlanInv
  <1>4. AmountCoversCharges'
    BY EvictFrame DEF AmountCoversCharges
  <1> QED
    BY <1>2, <1>3, <1>4 DEF IInv
----------------------------------------------------------------------------
(* The steps that leave plans alone.                                       *)

\* A step of a call that keeps the plans and gives it no work on a plan.
LEMMA MoveStep ==
  ASSUME IInv, NEW c \in Calls, NEW p \in Steps, NEW s \in Stages, Goto(c, p, s),
         p \in {"save", "get", "set", "incr", "write"} => plan[c] \in DOMAIN plans,
         UNCHANGED <<redis, tx, now, reset, plans, evm, plan, bill, stale>>,
         seen' \in [Calls -> Nat], keys' \in [Calls -> SUBSET DOMAIN plans],
         faults' \in 0 .. MaxFaults
  PROVE  IInv'
  <1>1. /\ pc' \in [Calls -> Steps] /\ stage' \in [Calls -> Stages]
        /\ pc'[c] = p /\ \A d \in Calls : d # c => pc'[d] = pc[d]
    BY GotoType DEF IInv
  <1>2. TypeOK'
    BY <1>1 DEF IInv, TypeOK, Steps, Stages, Final
  <1>3. PlanInv'
    BY <1>1 DEF IInv, PlanInv
  <1> QED
    BY <1>2, <1>3, CoversUnchanged DEF IInv

\* A step that uses a plan it found or made.
LEMMA UseStep ==
  ASSUME IInv, NEW c \in Calls, NEW id \in DOMAIN plans, NEW amount, Use(c, id, amount),
         UNCHANGED <<redis, tx, now, plans, seen, keys, bill, stale>>,
         evm' \in [Senders \cup {Operator} -> 0 .. Len(plans)],
         faults' \in 0 .. MaxFaults
  PROVE  IInv'
  <1>1. TypeOK /\ PlanInv
    BY DEF IInv
  <1>2. TypeOK'
    BY <1>1, UseType DEF TypeOK, Steps, Stages, Final
  <1> QED
    BY <1>1, <1>2, UseType, CoversUnchanged DEF IInv
----------------------------------------------------------------------------
(* The theorems.                                                           *)

\* The preconfigured plans have no charges.
LEMMA InitIInv ==
  Init => IInv
  <1> SUFFICES ASSUME Init PROVE IInv
    OBVIOUS
  <1>1. plans \in Seq(Plan) /\ \A id \in DOMAIN plans : plans[id].added = 0 /\ plans[id].amountExpires = 0
    <2>1. Forever \in Nat /\ Configured \in Seq(Tier)
      BY HbarAssumption DEF Forever
    <2>2. ASSUME NEW i \in 1 .. Len(Configured)
          PROVE  /\ NewPlan(Configured[i], Forever) \in Plan
                 /\ NewPlan(Configured[i], Forever).added = 0
                 /\ NewPlan(Configured[i], Forever).amountExpires = 0
      BY <2>1 DEF NewPlan, Plan
    <2> QED
      BY <2>1, <2>2 DEF Init
  <1>2. \A c \in Calls : 1 \in DOMAIN tx[c].fees
    BY HbarAssumption DEF Init
  <1>3. 1 \in 1 .. MaxTime
    BY HbarAssumption
  <1>4. TypeOK
    BY <1>1, <1>2, <1>3, HbarAssumption DEF Init, TypeOK, Stages, Final
  <1>5. AmountCoversCharges
    BY <1>1 DEF Init, AmountCoversCharges, Amount
  <1> QED
    BY <1>4, <1>5 DEF IInv, PlanInv, Init

\* Every command that fails leaves the invariant alone.
LEMMA FailStep ==
  ASSUME IInv, NEW c \in Calls, CommandFails(c)
  PROVE  IInv'
  <1>1. TypeOK /\ PlanInv /\ stage[c] \in Stages
    BY DEF IInv, TypeOK, Stages
  <1>2. faults' \in 0 .. MaxFaults /\ UNCHANGED <<redis, tx, now, seen, stale>>
    BY <1>1, HbarAssumption DEF CommandFails, TypeOK
  <1>3. seen' \in [Calls -> Nat] /\ evm \in [Senders \cup {Operator} -> 0 .. Len(plans)]
        /\ keys \in [Calls -> SUBSET DOMAIN plans]
    BY <1>1, <1>2 DEF TypeOK
  <1>4. CASE /\ pc[c] = "keys" /\ Goto(c, "delete", "reset")
             /\ UNCHANGED <<reset, plans, evm, plan, keys, bill>>
    BY <1>2, <1>3, <1>4, MoveStep DEF Steps, Stages
  <1>5. CASE /\ \E id \in keys[c] : Delete(c, keys[c] \ {id})
             /\ UNCHANGED <<reset, evm, plan, bill>>
    BY <1>2, <1>5, DeleteStep
  <1>6. CASE /\ pc[c] = "find" /\ Goto(c, "create", stage[c])
             /\ UNCHANGED <<reset, plans, evm, plan, keys, bill>>
    BY <1>1, <1>2, <1>3, <1>6, MoveStep DEF Steps
  <1>7. CASE /\ pc[c] = "find" /\ Live(tx[c].ip) /\ UNCHANGED plans
             /\ Use(c, tx[c].ip, Amount(tx[c].ip))
             /\ UNCHANGED <<evm, keys, bill>>
    <2>1. tx[c].ip \in DOMAIN plans
      BY <1>7 DEF Live
    <2> QED
      BY <1>2, <1>3, <1>7, <2>1, UseStep
  <1>8. CASE /\ pc[c] = "create" /\ plans' = Append(plans, NewPlan("BASIC", 0))
             /\ plan' = [plan EXCEPT ![c] = Len(plans) + 1]
             /\ Goto(c, "save", stage[c])
             /\ UNCHANGED <<reset, evm, keys, bill>>
    <2>1. "BASIC" \in Tier /\ 0 \in Nat
      BY DEF Tier
    <2> QED
      BY <1>1, <1>2, <1>8, <2>1, CreateStep
  <1>9. CASE /\ pc[c] = "find" /\ GetSpendingPlan(c) # 0 /\ UNCHANGED plans
             /\ Use(c, GetSpendingPlan(c), 0)
             /\ UNCHANGED <<evm, keys, bill>>
    <2>1. GetSpendingPlan(c) \in DOMAIN plans
      BY <1>1, <1>9, FoundPlan
    <2> QED
      BY <1>2, <1>3, <1>9, <2>1, UseStep
  <1>10. CASE /\ pc[c] = "save" /\ UNCHANGED plans /\ Use(c, plan[c], 0)
              /\ UNCHANGED <<evm, keys, bill>>
    <2>1. plan[c] \in DOMAIN plans
      BY <1>1, <1>10 DEF PlanInv
    <2> QED
      BY <1>2, <1>3, <1>10, <2>1, UseStep
  <1>11. CASE /\ pc[c] = "get"
              /\ Goto(c, "set", stage[c]) \/ Goto(c, "failed", stage[c])
              /\ UNCHANGED <<reset, plans, evm, plan, keys, bill>>
    <2>1. plan[c] \in DOMAIN plans
      BY <1>1, <1>11 DEF PlanInv
    <2> QED
      BY <1>1, <1>2, <1>3, <1>11, <2>1, MoveStep DEF Steps
  <1>12. CASE /\ pc[c] \in {"set", "incr"}
              /\ SetAmount(c, Amount(plan[c]), plans[plan[c]].amountExpires, TRUE)
              /\ UNCHANGED <<reset, evm, keys>>
    <2>1. plan[c] \in DOMAIN plans
      BY <1>1, <1>12 DEF PlanInv
    <2>2. Amount(plan[c]) \in Nat /\ plans[plan[c]].amountExpires \in Nat
      <3>1. plans[plan[c]] \in Plan
        BY <1>1, <2>1 DEF TypeOK
      <3> QED
        BY <1>1, <2>1, <3>1, AmountType DEF Plan
    <2> QED
      BY <1>2, <1>3, <1>12, <2>2, SetStep
  <1> QED
    BY <1>4, <1>5, <1>6, <1>7, <1>8, <1>9, <1>10, <1>11, <1>12 DEF CommandFails

\* Every step preserves the invariant.
LEMMA NextIInv ==
  IInv /\ [Next]_vars => IInv'
  <1> SUFFICES ASSUME IInv, [Next]_vars PROVE IInv'
    OBVIOUS
  <1>1. CASE UNCHANGED vars
    BY <1>1 DEF vars, call, IInv, TypeOK, PlanInv, AmountCoversCharges, Amount
  <1>2. CASE Tick
    BY <1>2, TickStep
  <1>3. ASSUME NEW c \in Calls, Progress(c)
        PROVE  IInv'
    <2>1. TypeOK /\ PlanInv /\ stage[c] \in Stages
      BY DEF IInv, TypeOK, Stages
    <2>2. /\ seen \in [Calls -> Nat] /\ keys \in [Calls -> SUBSET DOMAIN plans]
          /\ evm \in [Senders \cup {Operator} -> 0 .. Len(plans)] /\ faults \in 0 .. MaxFaults
          /\ now \in Nat /\ now <= MaxTime
      BY <2>1, HbarAssumption DEF TypeOK
    <2>3. CASE Start(c)
      BY <2>2, <2>3, MoveStep DEF Start, Steps, Stages
    <2>4. CASE ListKeys(c)
      <3>1. keys' \in [Calls -> SUBSET DOMAIN plans]
        BY <2>2, <2>4 DEF ListKeys
      <3> QED
        BY <2>2, <2>4, <3>1, MoveStep DEF ListKeys, Steps, Stages
    <2>5. CASE DeleteKeys(c)
      BY <2>2, <2>5, DeleteStep DEF DeleteKeys
    <2>6. CASE FindPlan(c)
      <3>1. CASE GetSpendingPlan(c) # 0
        <4>1. GetSpendingPlan(c) \in DOMAIN plans
          BY <2>1, <3>1, FoundPlan
        <4> QED
          BY <2>2, <2>6, <3>1, <4>1, UseStep DEF FindPlan
      <3>2. CASE GetSpendingPlan(c) = 0
        BY <2>1, <2>2, <2>6, <3>2, MoveStep DEF FindPlan, Steps
      <3> QED
        BY <3>1, <3>2
    <2>7. CASE CreatePlan(c)
      <3>1. \A t \in {"OPERATOR", "BASIC"} : t \in Tier
        BY DEF Tier
      <3>2. TtlEnd \in Nat
        BY <2>2, HbarAssumption DEF TtlEnd, Forever
      <3> QED
        BY <2>1, <2>2, <2>7, <3>1, <3>2, CreateStep DEF CreatePlan
    <2>8. CASE SavePlan(c)
      <3>1. plan[c] \in DOMAIN plans
        BY <2>1, <2>8 DEF PlanInv, SavePlan
      <3>2. evm' \in [Senders \cup {Operator} -> 0 .. Len(plans)]
        BY <2>1, <2>8 DEF SavePlan, TypeOK
      <3> QED
        BY <2>2, <2>8, <3>1, <3>2, UseStep DEF SavePlan
    <2>9. CASE Execute(c)
      BY <2>2, <2>9, MoveStep DEF Execute, Steps, Stages
    <2>10. CASE GetAmount(c)
      <3>1. plan[c] \in DOMAIN plans
        BY <2>1, <2>10 DEF PlanInv, GetAmount
      <3> QED
        BY <2>1, <2>2, <2>10, <3>1, MoveStep DEF GetAmount, Steps
    <2>11. CASE IncrReads(c)
      <3>1. plan[c] \in DOMAIN plans
        BY <2>1, <2>11 DEF PlanInv, IncrReads
      <3>2. Amount(plan[c]) \in Nat
        BY <2>1, <3>1, AmountType
      <3>3. seen' \in [Calls -> Nat]
        BY <2>2, <2>11, <3>2 DEF IncrReads
      <3> QED
        BY <2>1, <2>2, <2>11, <3>1, <3>3, MoveStep DEF IncrReads, Steps
    <2>12. ASSUME pc[c] \in {"set", "incr", "write"}
           PROVE  /\ plan[c] \in DOMAIN plans /\ plans[plan[c]] \in Plan
                  /\ Amount(plan[c]) \in Nat /\ Fee(c) \in Nat \ {0}
                  /\ plans[plan[c]].added \in Nat
                  /\ plans[plan[c]].lossy \/ Amount(plan[c]) >= plans[plan[c]].added
                  /\ KeepTtl(plan[c]) \in Nat /\ KeepTtl(plan[c]) > now
      <3>1. plan[c] \in DOMAIN plans
        BY <2>1, <2>12 DEF PlanInv
      <3>2. plans[plan[c]] \in Plan
        BY <2>1, <3>1 DEF TypeOK
      <3>3. Amount(plan[c]) \in Nat /\ Fee(c) \in Nat \ {0}
        BY <2>1, <3>1, AmountType, FeeType
      <3>4. plans[plan[c]].lossy \/ Amount(plan[c]) >= plans[plan[c]].added
        BY <3>1 DEF IInv, AmountCoversCharges
      <3>5. Forever \in Nat /\ Forever > now
        BY <2>2, HbarAssumption DEF Forever
      <3>6. plans[plan[c]].added \in Nat /\ plans[plan[c]].amountExpires \in Nat
        BY <3>2 DEF Plan
      <3> QED
        BY <2>2, <3>1, <3>2, <3>3, <3>4, <3>5, <3>6 DEF KeepTtl, Amount
    <2>13. CASE SetFirst(c)
      <3> DEFINE lost == Amount(plan[c]) > 0
      <3>1. pc[c] = "set" /\ SetAmount(c, Fee(c), TtlEnd, lost)
        BY <2>13 DEF SetFirst
      <3>2. TtlEnd \in Nat /\ TtlEnd > now /\ lost \in BOOLEAN
        BY <2>2, HbarAssumption DEF TtlEnd, Forever
      <3>3. lost \/ plans[plan[c]].lossy \/ Fee(c) >= plans[plan[c]].added + Fee(c)
        BY <2>12, <3>1
      <3> HIDE DEF lost
      <3> QED
        BY <2>2, <2>12, <2>13, <3>1, <3>2, <3>3, SetStep DEF SetFirst
    <2>14. CASE IncrInRedis(c)
      <3>1. pc[c] = "incr" /\ SetAmount(c, Amount(plan[c]) + Fee(c), KeepTtl(plan[c]), FALSE)
        BY <2>14 DEF IncrInRedis
      <3>2. Amount(plan[c]) + Fee(c) \in Nat
        BY <2>12, <3>1
      <3>3. plans[plan[c]].lossy \/ Amount(plan[c]) + Fee(c) >= plans[plan[c]].added + Fee(c)
        BY <2>12, <3>1
      <3> QED
        BY <2>2, <2>12, <2>14, <3>1, <3>2, <3>3, SetStep DEF IncrInRedis
    <2>15. CASE IncrWrites(c)
      <3> DEFINE lost == Amount(plan[c]) # seen[c]
      <3>1. pc[c] = "write" /\ SetAmount(c, seen[c] + Fee(c), KeepTtl(plan[c]), lost)
        BY <2>15 DEF IncrWrites
      <3>2. seen[c] + Fee(c) \in Nat /\ lost \in BOOLEAN
        BY <2>2, <2>12, <3>1
      <3>3. lost \/ plans[plan[c]].lossy \/ seen[c] + Fee(c) >= plans[plan[c]].added + Fee(c)
        BY <2>12, <3>1
      <3>4. seen' \in [Calls -> Nat]
        BY <2>2, <2>15 DEF IncrWrites
      <3> HIDE DEF lost
      <3> QED
        BY <2>2, <2>12, <2>15, <3>1, <3>2, <3>3, <3>4, SetStep DEF IncrWrites
    <2> QED
      BY <1>3, <2>3, <2>4, <2>5, <2>6, <2>7, <2>8, <2>9, <2>10, <2>11, <2>13, <2>14, <2>15
      DEF Progress
  <1> QED
    BY <1>1, <1>2, <1>3, EvictStep, FailStep DEF Next

\* The inductive invariant holds in every reachable state.
THEOREM Invariance ==
  Spec => []IInv
  BY InitIInv, NextIInv, PTL DEF Spec

\* Every variable of the limiter keeps its type: in particular no call bills
\* more fees than its transaction has, or a plan that does not exist.
THEOREM TypeCorrectness ==
  Spec => []TypeOK
  <1>1. IInv => TypeOK
    BY DEF IInv
  <1> QED
    BY <1>1, Invariance, PTL

\* The amount of a plan covers what was charged to it in this window, whatever
\* the interleaving of addToAmountSpent with other charges, resets and expiry,
\* unless a race, an expiry, a second reset, an eviction or a failed command took
\* some of it and marked the plan.
THEOREM ChargesCovered ==
  Spec => []AmountCoversCharges
  <1>1. IInv => AmountCoversCharges
    BY DEF IInv
  <1> QED
    BY <1>1, Invariance, PTL

\* A step of a call moves that call only.
LEMMA OneCallMoves ==
  ASSUME TypeOK, PlanInv, NEW c \in Calls, Progress(c) \/ CommandFails(c)
  PROVE  \A d \in Calls : d # c => pc'[d] = pc[d] /\ stage'[d] = stage[d]
  <1>1. stage[c] \in Stages
    BY DEF TypeOK, Stages
  <1>2. \E p \in Steps, s \in Stages : Goto(c, p, s)
    <2>1. ASSUME NEW id, NEW amount, Use(c, id, amount)
          PROVE  \E p \in Steps, s \in Stages : Goto(c, p, s)
      BY <2>1, <1>1 DEF Use, Steps, Stages
    <2>2. ASSUME NEW amount, NEW expires, NEW lost, SetAmount(c, amount, expires, lost)
          PROVE  \E p \in Steps, s \in Stages : Goto(c, p, s)
      BY <2>2 DEF SetAmount, Added, Steps, Stages
    <2>3. ASSUME NEW ids, Delete(c, ids)
          PROVE  \E p \in Steps, s \in Stages : Goto(c, p, s)
      BY <2>3 DEF Delete, Steps, Stages
    <2>4. ASSUME NEW p \in {"delete", "find", "create", "save", "execute", "failed", "get",
                            "set", "incr", "write", "keys"},
                 NEW s \in Stages, Goto(c, p, s)
          PROVE  \E q \in Steps, t \in Stages : Goto(c, q, t)
      BY <2>4 DEF Steps
    <2>5. \A s \in {"reset", "budget", "opAdd"} : s \in Stages
      BY DEF Stages
    <2>6. CASE CommandFails(c)
      BY <1>1, <2>1, <2>2, <2>3, <2>4, <2>5, <2>6 DEF CommandFails
    <2>7. CASE Start(c) \/ ListKeys(c) \/ DeleteKeys(c) \/ FindPlan(c) \/ CreatePlan(c)
      BY <1>1, <2>1, <2>3, <2>4, <2>5, <2>7
      DEF Start, ListKeys, DeleteKeys, FindPlan, CreatePlan
    <2>8. CASE SavePlan(c) \/ Execute(c) \/ GetAmount(c) \/ IncrReads(c)
      BY <1>1, <2>1, <2>4, <2>5, <2>8 DEF SavePlan, Execute, GetAmount, IncrReads
    <2>9. CASE SetFirst(c) \/ IncrInRedis(c) \/ IncrWrites(c)
      BY <2>2, <2>9 DEF SetFirst, IncrInRedis, IncrWrites
    <2> QED
      BY <2>6, <2>7, <2>8, <2>9 DEF Progress
  <1> QED
    BY <1>2, GotoType

\* Nobody gets past a check of a plan whose charges of this window, with the
\* estimate, exceed the plan's limit, unless the plan's amount lost charges.
THEOREM AdmissionsWithinLimit ==
  Spec => AdmittedWithinLimit
  <1> DEFINE Within(c) == LET p == plans[GetSpendingPlan(c)] IN
                          \/ p.added < Limit(c) /\ p.added + tx[c].estimate <= Limit(c)
                          \/ p.lossy
             Step == \A c \in Calls : pc[c] = "find" /\ Admitted(c) /\ faults' = faults => Within(c)
  <1>1. IInv /\ [Next]_vars => Step
    <2> SUFFICES ASSUME IInv, [Next]_vars, NEW c \in Calls, pc[c] = "find", Admitted(c),
                        faults' = faults
                 PROVE  Within(c)
      BY Zenon
    <2>1. TypeOK /\ PlanInv /\ AmountCoversCharges
      BY DEF IInv
    <2>2. ~(pc'[c] = pc[c] /\ stage'[c] = stage[c])
      BY DEF Admitted
    <2>3. PICK d \in Calls : Progress(d) \/ CommandFails(d)
      BY <2>2 DEF Next, Tick, Evict, vars, call
    <2>4. d = c
      BY <2>1, <2>2, <2>3, OneCallMoves
    <2>5. ~CommandFails(c)
      BY <2>1 DEF CommandFails, TypeOK
    <2>6. FindPlan(c)
      BY <2>3, <2>4, <2>5
      DEF Progress, Start, ListKeys, DeleteKeys, Delete, CreatePlan, SavePlan, Execute,
          GetAmount, SetFirst, IncrInRedis, IncrReads, IncrWrites
    <2> DEFINE id == GetSpendingPlan(c)
               amount == Amount(id)
               p == plans[id]
    <2>7. id # 0 /\ Use(c, id, amount)
      <3>1. CASE id = 0
        <4>1. Goto(c, "create", stage[c]) /\ stage[c] \in Stages /\ "create" \in Steps
          BY <2>1, <2>6, <3>1 DEF FindPlan, TypeOK, Stages, Steps
        <4>2. pc'[c] = "create" /\ stage'[c] = stage[c]
          BY <2>1, <4>1, GotoType
        <4> QED
          BY <4>2 DEF Admitted
      <3> QED
        BY <2>6, <3>1 DEF FindPlan
    <2>8. id \in DOMAIN plans
      BY <2>1, <2>7, FoundPlan
    <2>9. p \in Plan /\ amount \in Nat
      <3>1. plans \in Seq(Plan)
        BY <2>1 DEF TypeOK
      <3>2. p \in Plan
        BY <2>8, <3>1
      <3>3. amount \in Nat
        BY <2>1, <2>8, AmountType
      <3> QED
        BY <3>2, <3>3
    <2>10. p.added \in Nat /\ p.tier \in Tier
      BY <2>9 DEF Plan
    <2>11. p.lossy \/ amount >= p.added
      BY <2>1, <2>8 DEF AmountCoversCharges
    <2>12. tx[c].estimate \in Nat
      BY <2>1, HbarAssumption DEF TypeOK
    <2>13. \A t \in Tier : TierLimit[t] \in Nat
      BY HbarAssumption
    <2> HIDE DEF id, amount, p
    <2>14. CASE stage[c] = "budget"
      <3>1. ~ReachesLimit("OPERATOR", amount, tx[c].estimate)
        BY <2>1, <2>7, <2>14 DEF Use, Goto, Admitted, TypeOK
      <3>2. "OPERATOR" \in Tier /\ Limit(c) = TierLimit["OPERATOR"]
        BY <2>14 DEF Tier, Limit
      <3> QED
        BY <3>1, <3>2, <2>9, <2>10, <2>11, <2>12, <2>13 DEF ReachesLimit, p, id
    <2>15. CASE stage[c] = "sender"
      <3>1. ~ReachesLimit(p.tier, amount, tx[c].estimate)
        BY <2>1, <2>7, <2>15 DEF Use, Goto, Admitted, TypeOK, p
      <3>2. Limit(c) = TierLimit[p.tier]
        BY <2>15 DEF Limit, p, id
      <3> QED
        BY <3>1, <3>2, <2>9, <2>10, <2>11, <2>12, <2>13 DEF ReachesLimit, p, id
    <2> QED
      BY <2>14, <2>15 DEF Admitted
  <1>2. Spec => [][Step]_vars
    BY <1>1, Invariance, PTL DEF Spec
  <1> QED
    BY <1>2 DEF AdmittedWithinLimit
----------------------------------------------------------------------------
(* What is left of an earlier window.                                      *)

\* The plans whose amount is more than what was added in this window.
Leftovers == {id \in DOMAIN plans : ~plans[id].lossy /\ Amount(id) > plans[id].added}

\* The reset time of a relay is a boundary of a window, and at most the next.
ResetTimes ==
  \A r \in Relays : reset[r] < now + Duration /\ \E k \in Nat : reset[r] = k * Duration

\* Only calls that are under way began earlier, and a call that resets and
\* began earlier was resetting when the window began.
StaleInv ==
  \A c \in Calls :
    /\ BeganEarlier(c) => pc[c] # "start"
    /\ BeganEarlier(c) /\ stage[c] = "reset" => <<c, "reset">> \in stale
    /\ pc[c] \in {"keys", "delete"} => stage[c] = "reset"

\* Nothing is left of an earlier window once a relay's reset time is ahead, or
\* a call of this window has passed the reset; a reset of this window has
\* listed all that is left.
WindowInv ==
  ~redis \/ faults = 0 =>
    /\ \A r \in Relays : reset[r] > now => Leftovers = {} \/ ResetsLate(r)
    /\ \A c \in Calls : ~BeganEarlier(c) =>
         /\ pc[c] = "delete" => Leftovers \subseteq keys[c]
         /\ pc[c] \in {"find", "create", "save"} /\ stage[c] \in {"reset", "budget", "sender"} =>
              Leftovers = {} \/ ResetsLate(tx[c].relay)

WInv == ResetTimes /\ StaleInv /\ WindowInv

\* The new reset time is a boundary again, and not beyond the next one.
LEMMA ResetBoundary ==
  ASSUME TypeOK, ResetTimes, NEW r \in Relays
  PROVE  /\ GetResetTimestamp(r) < now + Duration
         /\ \E k \in Nat : GetResetTimestamp(r) = k * Duration
  <1>1. now \in Nat /\ reset[r] \in Nat /\ Duration \in Nat \ {0}
    BY HbarAssumption DEF TypeOK
  <1>2. CASE reset[r] < now
    <2> DEFINE n == now - reset[r] + Duration - 1
               q == n \div Duration
    <2>1. n \in Nat /\ n + reset[r] = now + Duration - 1
      BY <1>1, <1>2
    <2> HIDE DEF n
    <2>2. q \in Nat /\ q * Duration <= n
      BY <1>1, <2>1
    <2>3. GetResetTimestamp(r) = reset[r] + q * Duration
      BY <1>2 DEF GetResetTimestamp, n
    <2> HIDE DEF q
    <2>4. q * Duration \in Nat
      BY <1>1, <2>2
    <2>5. GetResetTimestamp(r) < now + Duration
      BY <1>1, <2>1, <2>2, <2>3, <2>4
    <2>6. PICK k \in Nat : reset[r] = k * Duration
      BY DEF ResetTimes
    <2>7. k * Duration + q * Duration = (k + q) * Duration
      BY <1>1, <2>2
    <2>8. k + q \in Nat
      BY <2>2
    <2> QED
      BY <2>3, <2>5, <2>6, <2>7, <2>8
  <1>3. CASE ~(reset[r] < now)
    BY <1>3 DEF GetResetTimestamp, ResetTimes
  <1> QED
    BY <1>2, <1>3

\* Only a call that resets moves a reset time, that of its relay.
ResetMoves(c) ==
  \/ reset' = reset
  \/ /\ stage[c] = "reset" /\ pc[c] \in {"find", "save"}
     /\ reset' = [reset EXCEPT ![tx[c].relay] = GetResetTimestamp(tx[c].relay)]

\* What a step of a call does to its own place in shouldLimit.
PlaceMoves(c) ==
  /\ pc[c] = "start" => pc'[c] \in {"execute", "keys", "find"}
  /\ pc'[c] # "start"
  /\ stage'[c] = "reset" => stage[c] = "reset" \/ pc[c] = "start"
  /\ pc'[c] \in {"keys", "delete"} => stage'[c] = "reset"

\* Every step of a call moves the reset time and the call that way.
LEMMA StepMoves ==
  ASSUME TypeOK, StaleInv, NEW c \in Calls, Progress(c) \/ CommandFails(c)
  PROVE  ResetMoves(c) /\ PlaceMoves(c)
  <1>1. stage[c] \in Stages /\ pc \in [Calls -> Steps] /\ stage \in [Calls -> Stages]
    BY DEF TypeOK, Steps, Final
  <1>2. ASSUME NEW p, NEW s, Goto(c, p, s)
        PROVE  pc'[c] = p /\ stage'[c] = s
    BY <1>1, <1>2 DEF Goto
  <1>3. pc[c] \in {"keys", "delete"} => stage[c] = "reset"
    BY DEF StaleInv
  <1>4. ASSUME NEW id, NEW amount, Use(c, id, amount), pc[c] \in {"find", "save"}
        PROVE  ResetMoves(c) /\ PlaceMoves(c)
    <2>1. ResetMoves(c)
      BY <1>4 DEF Use, ResetMoves
    <2>2. PlaceMoves(c)
      BY <1>1, <1>2, <1>4 DEF Use, PlaceMoves
    <2> QED
      BY <2>1, <2>2
  <1>5. ASSUME NEW amount, NEW expires, NEW lost, SetAmount(c, amount, expires, lost),
               UNCHANGED reset, pc[c] # "start"
        PROVE  ResetMoves(c) /\ PlaceMoves(c)
    BY <1>1, <1>2, <1>5 DEF SetAmount, Added, ResetMoves, PlaceMoves
  <1>6. ASSUME NEW ids, Delete(c, ids), UNCHANGED reset
        PROVE  ResetMoves(c) /\ PlaceMoves(c)
    BY <1>2, <1>6, <1>3 DEF Delete, ResetMoves, PlaceMoves
  <1>7. ASSUME NEW p, Goto(c, p, stage[c]), UNCHANGED reset,
               p \notin {"start", "keys", "delete"}, pc[c] # "start"
        PROVE  ResetMoves(c) /\ PlaceMoves(c)
    BY <1>2, <1>7 DEF ResetMoves, PlaceMoves
  <1>8. ASSUME Goto(c, "delete", "reset"), UNCHANGED reset, pc[c] = "keys"
        PROVE  ResetMoves(c) /\ PlaceMoves(c)
    BY <1>2, <1>8, <1>3 DEF ResetMoves, PlaceMoves
  <1>9. CASE CommandFails(c)
    BY <1>4, <1>5, <1>6, <1>7, <1>8, <1>9 DEF CommandFails
  <1>10. CASE Start(c)
    BY <1>2, <1>10 DEF Start, ResetMoves, PlaceMoves
  <1>11. CASE Execute(c)
    BY <1>2, <1>11 DEF Execute, ResetMoves, PlaceMoves
  <1>12. CASE ListKeys(c) \/ DeleteKeys(c) \/ FindPlan(c) \/ CreatePlan(c) \/ SavePlan(c)
    BY <1>4, <1>6, <1>7, <1>8, <1>12 DEF ListKeys, DeleteKeys, FindPlan, CreatePlan, SavePlan
  <1>13. CASE GetAmount(c) \/ IncrReads(c)
    BY <1>7, <1>13 DEF GetAmount, IncrReads
  <1>14. CASE SetFirst(c) \/ IncrInRedis(c) \/ IncrWrites(c)
    BY <1>5, <1>14 DEF SetFirst, IncrInRedis, IncrWrites
  <1> QED
    BY <1>9, <1>10, <1>11, <1>12, <1>13, <1>14 DEF Progress

\* How a call comes to its deletion, and to what comes after the reset.
PassesReset(c) ==
  /\ pc'[c] = "delete" => ListKeys(c)
  /\ pc'[c] \in {"find", "create", "save"} /\ stage'[c] \in {"reset", "budget", "sender"} =>
       \/ pc[c] = "start" /\ now < reset[tx[c].relay]
       \/ DeleteKeys(c)
       \/ pc[c] \in {"find", "create", "save"} /\ stage[c] \in {"reset", "budget", "sender"}
  /\ ~ListKeys(c) /\ ~DeleteKeys(c) => UNCHANGED keys

\* Every step of a call without a failure takes it there that way.
LEMMA ProgressPasses ==
  ASSUME TypeOK, NEW c \in Calls, Progress(c)
  PROVE  PassesReset(c)
  <1>1. stage[c] \in Stages /\ pc \in [Calls -> Steps] /\ stage \in [Calls -> Stages]
    BY DEF TypeOK, Steps, Final
  <1>2. ASSUME NEW p, NEW s, Goto(c, p, s)
        PROVE  pc'[c] = p /\ stage'[c] = s
    BY <1>1, <1>2 DEF Goto
  <1>3. ASSUME NEW id, NEW amount, Use(c, id, amount), pc[c] \in {"find", "save"}, UNCHANGED keys
        PROVE  PassesReset(c)
    BY <1>1, <1>2, <1>3 DEF Use, PassesReset
  <1>4. ASSUME NEW amount, NEW expires, NEW lost, SetAmount(c, amount, expires, lost), UNCHANGED keys
        PROVE  PassesReset(c)
    BY <1>1, <1>2, <1>4 DEF SetAmount, Added, PassesReset
  <1>5. CASE Start(c)
    BY <1>2, <1>5 DEF Start, PassesReset
  <1>6. CASE ListKeys(c)
    BY <1>2, <1>6 DEF ListKeys, PassesReset
  <1>7. CASE DeleteKeys(c)
    BY <1>2, <1>7 DEF DeleteKeys, Delete, PassesReset
  <1>8. CASE FindPlan(c) \/ SavePlan(c)
    BY <1>1, <1>2, <1>3, <1>8 DEF FindPlan, SavePlan, PassesReset
  <1>9. CASE CreatePlan(c) \/ Execute(c) \/ GetAmount(c) \/ IncrReads(c)
    BY <1>1, <1>2, <1>9 DEF CreatePlan, Execute, GetAmount, IncrReads, PassesReset
  <1>10. CASE SetFirst(c) \/ IncrInRedis(c) \/ IncrWrites(c)
    BY <1>4, <1>10 DEF SetFirst, IncrInRedis, IncrWrites
  <1> QED
    BY <1>5, <1>6, <1>7, <1>8, <1>9, <1>10 DEF Progress

\* An addition leaves nothing of an earlier window that was not there, if the
\* new amount has nothing but the fee and the old amount.
LEMMA SetLeaves ==
  ASSUME IInv, NEW c \in Calls, pc[c] \in {"set", "incr", "write"},
         NEW amount \in Nat, NEW expires \in Nat, NEW lost \in BOOLEAN,
         SetAmount(c, amount, expires, lost), now' = now,
         lost \/ amount <= Amount(plan[c]) + Fee(c)
  PROVE  Leftovers' \subseteq Leftovers
  <1> DEFINE i == plan[c]
             total == plans[i].added + Fee(c)
             lossy == plans[i].lossy \/ lost
             new == WithAmount(plans[i], amount, expires, total, lossy)
  <1>1. i \in DOMAIN plans /\ plans \in Seq(Plan) /\ plans[i] \in Plan
    BY DEF IInv, PlanInv, TypeOK
  <1>2. Fee(c) \in Nat /\ plans[i].added \in Nat /\ total = plans[i].added + Fee(c) /\ Amount(i) \in Nat
    <2>1. Fee(c) \in Nat \ {0} /\ Amount(i) \in Nat
      BY <1>1, FeeType, AmountType DEF IInv
    <2> QED
      BY <1>1, <2>1 DEF Plan
  <1>3. plans' = [plans EXCEPT ![i] = new]
    BY DEF SetAmount
  <1>4. ~lossy => ~plans[i].lossy /\ amount <= Amount(i) + Fee(c)
    OBVIOUS
  <1> HIDE DEF total, lossy, i
  <1>5. /\ new.amount = amount /\ new.amountExpires = expires
        /\ new.added = total /\ new.lossy = lossy
    BY DEF WithAmount
  <1> HIDE DEF new
  <1>6. /\ DOMAIN plans' = DOMAIN plans
        /\ plans'[i] = new
        /\ \A j \in DOMAIN plans : j # i => plans'[j] = plans[j]
    BY <1>1, <1>3
  <1> SUFFICES ASSUME NEW j \in DOMAIN plans, ~plans'[j].lossy, Amount(j)' > plans'[j].added
               PROVE  ~plans[j].lossy /\ Amount(j) > plans[j].added
    BY <1>6 DEF Leftovers
  <1>7. CASE j = i
    <2>1. Amount(j)' \in Nat /\ Amount(j)' <= amount
      BY <1>5, <1>6, <1>7 DEF Amount
    <2> QED
      BY <1>2, <1>4, <1>5, <1>6, <1>7, <2>1
  <1>8. CASE j # i
    BY <1>6, <1>8 DEF Amount
  <1> QED
    BY <1>7, <1>8

\* A deletion leaves nothing of the plans it deletes, and the others alone.
LEMMA DeleteLeaves ==
  ASSUME IInv, NEW c \in Calls, DeleteKeys(c)
  PROVE  Leftovers' \subseteq Leftovers \ keys[c]
  <1>1. /\ DOMAIN plans' = DOMAIN plans /\ now' = now
        /\ \A id \in DOMAIN plans : id \notin keys[c] => plans'[id] = plans[id]
        /\ \A id \in DOMAIN plans : id \in keys[c] =>
             plans'[id] = WithAmount(plans[id], 0, 0, plans[id].added,
                                     plans[id].lossy \/ plans[id].added > 0)
    BY DEF DeleteKeys, Delete
  <1> SUFFICES ASSUME NEW id \in DOMAIN plans, ~plans'[id].lossy, Amount(id)' > plans'[id].added
               PROVE  ~plans[id].lossy /\ Amount(id) > plans[id].added /\ id \notin keys[c]
    BY <1>1 DEF Leftovers
  <1>2. plans[id] \in Plan
    BY DEF IInv, TypeOK
  <1>3. CASE id \in keys[c]
    <2>1. plans'[id].amount = 0 /\ plans'[id].added = plans[id].added
      BY <1>1, <1>3 DEF WithAmount
    <2>2. plans[id].added \in Nat /\ Amount(id)' = 0
      BY <1>2, <2>1 DEF Plan, Amount
    <2> QED
      BY <2>1, <2>2
  <1>4. CASE id \notin keys[c]
    BY <1>1, <1>4 DEF Amount
  <1> QED
    BY <1>3, <1>4

\* A new plan has no amount.
LEMMA CreateLeaves ==
  ASSUME IInv, NEW c \in Calls, CreatePlan(c)
  PROVE  Leftovers' \subseteq Leftovers
  <1> DEFINE tier == IF Address(c) = Operator THEN "OPERATOR" ELSE "BASIC"
             new == NewPlan(tier, TtlEnd)
  <1>1. new \in Plan /\ new.added = 0 /\ new.amount = 0
    <2>1. tier \in Tier
      BY DEF Tier
    <2>2. TtlEnd \in Nat
      BY HbarAssumption DEF IInv, TypeOK, TtlEnd, Forever
    <2> HIDE DEF tier
    <2> QED
      BY <2>1, <2>2 DEF NewPlan, Plan
  <1>2. plans' = Append(plans, new) /\ now' = now
    BY DEF CreatePlan
  <1>3. plans \in Seq(Plan) /\ Len(plans) \in Nat /\ DOMAIN plans = 1 .. Len(plans)
    BY DEF IInv, TypeOK
  <1> HIDE DEF new
  <1>4. /\ DOMAIN plans' = 1 .. (Len(plans) + 1)
        /\ plans'[Len(plans) + 1] = new
        /\ \A id \in DOMAIN plans : plans'[id] = plans[id]
    BY <1>1, <1>2, <1>3
  <1> SUFFICES ASSUME NEW id \in DOMAIN plans', ~plans'[id].lossy, Amount(id)' > plans'[id].added
               PROVE  id \in DOMAIN plans /\ ~plans[id].lossy /\ Amount(id) > plans[id].added
    BY DEF Leftovers
  <1>5. CASE id = Len(plans) + 1
    <2>1. Amount(id)' = 0 /\ plans'[id].added = 0
      BY <1>1, <1>4, <1>5 DEF Amount
    <2> QED
      BY <2>1
  <1>6. CASE id \in DOMAIN plans
    BY <1>2, <1>4, <1>6 DEF Amount
  <1> QED
    BY <1>3, <1>4, <1>5, <1>6

\* No step of a call without a failure leaves more of an earlier window.
LEMMA LeftoversShrink ==
  ASSUME IInv, NEW c \in Calls, Progress(c)
  PROVE  Leftovers' \subseteq Leftovers
  <1>1. TypeOK /\ PlanInv
    BY DEF IInv
  <1>2. ASSUME UNCHANGED <<plans, now>>
        PROVE  Leftovers' \subseteq Leftovers
    BY <1>2 DEF Leftovers, Amount
  <1>3. CASE Start(c) \/ ListKeys(c) \/ FindPlan(c) \/ SavePlan(c) \/ Execute(c)
    BY <1>2, <1>3 DEF Start, ListKeys, FindPlan, SavePlan, Execute
  <1>4. CASE GetAmount(c) \/ IncrReads(c)
    BY <1>2, <1>4 DEF GetAmount, IncrReads
  <1>5. CASE DeleteKeys(c)
    BY <1>5, DeleteLeaves
  <1>6. CASE CreatePlan(c)
    BY <1>6, CreateLeaves
  <1>7. ASSUME pc[c] \in {"set", "incr", "write"}
        PROVE  Amount(plan[c]) \in Nat /\ Fee(c) \in Nat /\ KeepTtl(plan[c]) \in Nat
    <2>1. plan[c] \in DOMAIN plans
      BY <1>1, <1>7 DEF PlanInv
    <2>2. plans[plan[c]] \in Plan
      BY <1>1, <2>1 DEF TypeOK
    <2>3. Forever \in Nat
      BY HbarAssumption DEF Forever
    <2>4. Amount(plan[c]) \in Nat /\ Fee(c) \in Nat
      BY <1>1, <2>1, AmountType, FeeType
    <2>5. plans[plan[c]].amountExpires \in Nat
      BY <2>2 DEF Plan
    <2> QED
      BY <2>3, <2>4, <2>5 DEF KeepTtl
  <1>8. CASE SetFirst(c)
    <2> DEFINE lost == Amount(plan[c]) > 0
    <2>1. pc[c] = "set" /\ SetAmount(c, Fee(c), TtlEnd, lost) /\ now' = now
      BY <1>8 DEF SetFirst
    <2>2. TtlEnd \in Nat /\ lost \in BOOLEAN
      BY <1>1, HbarAssumption DEF TypeOK, TtlEnd, Forever
    <2>3. Fee(c) \in Nat /\ Fee(c) <= Amount(plan[c]) + Fee(c)
      BY <1>7, <2>1
    <2> HIDE DEF lost
    <2> QED
      BY <2>1, <2>2, <2>3, SetLeaves
  <1>9. CASE IncrInRedis(c)
    <2>1. /\ pc[c] = "incr" /\ now' = now
          /\ SetAmount(c, Amount(plan[c]) + Fee(c), KeepTtl(plan[c]), FALSE)
      BY <1>9 DEF IncrInRedis
    <2>2. Amount(plan[c]) + Fee(c) \in Nat /\ KeepTtl(plan[c]) \in Nat
      BY <1>7, <2>1
    <2>3. Amount(plan[c]) + Fee(c) <= Amount(plan[c]) + Fee(c)
      BY <2>2
    <2> QED
      BY <2>1, <2>2, <2>3, SetLeaves
  <1>10. CASE IncrWrites(c)
    <2> DEFINE lost == Amount(plan[c]) # seen[c]
    <2>1. /\ pc[c] = "write" /\ now' = now
          /\ SetAmount(c, seen[c] + Fee(c), KeepTtl(plan[c]), lost)
      BY <1>10 DEF IncrWrites
    <2>2. /\ seen[c] + Fee(c) \in Nat /\ KeepTtl(plan[c]) \in Nat /\ lost \in BOOLEAN
          /\ lost \/ seen[c] + Fee(c) <= Amount(plan[c]) + Fee(c)
      BY <1>1, <1>7, <2>1 DEF TypeOK
    <2> HIDE DEF lost
    <2> QED
      BY <2>1, <2>2, SetLeaves
  <1> QED
    BY <1>3, <1>4, <1>5, <1>6, <1>8, <1>9, <1>10 DEF Progress

\* In a new window no reset time is ahead, and every call began earlier.
LEMMA TickWindow ==
  ASSUME IInv, WInv, Tick
  PROVE  WInv'
  <1>1. now \in Nat /\ now' = now + 1 /\ Duration \in Nat \ {0} /\ reset \in [Relays -> Nat]
    BY HbarAssumption DEF IInv, TypeOK, Tick
  <1>2. UNCHANGED <<redis, tx, reset, pc, stage, keys, faults>>
    BY DEF Tick, call
  <1>3. ResetTimes'
    <2> SUFFICES ASSUME NEW r \in Relays
                 PROVE  reset[r] < now' + Duration /\ \E k \in Nat : reset[r] = k * Duration
      BY <1>2 DEF ResetTimes
    <2>1. reset[r] < now + Duration /\ \E k \in Nat : reset[r] = k * Duration
      BY DEF WInv, ResetTimes
    <2>2. reset[r] < now' + Duration
      <3>1. reset[r] < now + Duration
        BY <2>1
      <3> QED
        BY <1>1, <3>1
    <2> QED
      BY <2>1, <2>2
  <1>4. CASE now' % Duration = 0
    <2>1. stale' = {<<c, stage[c]>> : c \in {d \in Calls : pc[d] \notin Final \cup {"start"}}}
      BY <1>4 DEF Tick
    <2>2. ASSUME NEW c \in Calls
          PROVE  /\ BeganEarlier(c)' => pc[c] # "start" /\ <<c, stage[c]>> \in stale'
                 /\ pc[c] \notin Final \cup {"start"} => BeganEarlier(c)'
      <3>1. stage[c] \in Stages
        BY DEF IInv, TypeOK
      <3> QED
        BY <2>1, <3>1 DEF BeganEarlier
    <2>3. StaleInv'
      BY <1>2, <2>2 DEF StaleInv, WInv
    <2>4. ASSUME NEW r \in Relays
          PROVE  ~(reset'[r] > now')
      <3>1. PICK k \in Nat : reset[r] = k * Duration
        BY DEF WInv, ResetTimes
      <3>2. PICK m \in Nat : now' = m * Duration
        BY <1>1, <1>4
      <3>3. reset[r] < now + Duration
        BY DEF WInv, ResetTimes
      <3>4. m * Duration = now + 1 /\ k * Duration < m * Duration + Duration
        BY <1>1, <3>1, <3>2, <3>3
      <3>5. k * Duration <= m * Duration
        BY <1>1, <3>4
      <3> QED
        BY <1>1, <1>2, <3>1, <3>2, <3>5
    <2>5. WindowInv'
      BY <1>2, <2>2, <2>4 DEF WindowInv, Final
    <2> QED
      BY <1>3, <2>3, <2>5 DEF WInv
  <1>5. CASE now' % Duration # 0
    <2>1. stale' = stale
      BY <1>5 DEF Tick
    <2>2. StaleInv'
      BY <1>2, <2>1 DEF WInv, StaleInv, BeganEarlier
    <2>3. Leftovers' \subseteq Leftovers
      <3>1. DOMAIN plans' = DOMAIN plans
        BY DEF Tick
      <3> SUFFICES ASSUME NEW id \in DOMAIN plans, ~plans'[id].lossy, Amount(id)' > plans'[id].added
                   PROVE  ~plans[id].lossy /\ Amount(id) > plans[id].added
        BY <3>1 DEF Leftovers
      <3> DEFINE lossy == \/ plans[id].lossy
                          \/ plans[id].added > 0 /\ plans[id].amountExpires = now'
      <3>2. /\ plans'[id].amount = plans[id].amount
            /\ plans'[id].amountExpires = plans[id].amountExpires
            /\ plans'[id].added = plans[id].added
            /\ plans'[id].lossy = lossy
        BY <1>5 DEF Tick, WithAmount
      <3>3. ~plans[id].lossy
        BY <3>2
      <3>4. /\ plans[id].amount \in Nat /\ plans[id].amountExpires \in Nat
            /\ plans[id].added \in Nat
        <4>1. plans[id] \in Plan
          BY DEF IInv, TypeOK
        <4> QED
          BY <4>1 DEF Plan
      <3> QED
        BY <1>1, <3>2, <3>3, <3>4 DEF Amount
    <2>4. WindowInv'
      <3>1. \A r \in Relays : reset'[r] > now' => reset[r] > now
        BY <1>1, <1>2
      <3>2. \A c \in Calls : BeganEarlier(c)' = BeganEarlier(c)
        BY <2>1 DEF BeganEarlier
      <3>3. \A r \in Relays : ResetsLate(r)' = ResetsLate(r)
        BY <1>2, <2>1 DEF ResetsLate
      <3>4. \A c \in Calls : tx[c].relay \in Relays
        BY HbarAssumption DEF IInv, TypeOK
      <3> QED
        BY <1>2, <2>3, <3>1, <3>2, <3>3, <3>4 DEF WInv, WindowInv
    <2> QED
      BY <1>3, <2>2, <2>4 DEF WInv
  <1> QED
    BY <1>4, <1>5

\* A step of a call keeps the reset times and the calls' beginnings in order.
LEMMA StepStale ==
  ASSUME IInv, WInv, NEW c \in Calls, Progress(c) \/ CommandFails(c)
  PROVE  ResetTimes' /\ StaleInv'
  <1>1. TypeOK /\ PlanInv /\ ResetTimes /\ StaleInv
    BY DEF IInv, WInv
  <1>2. ResetMoves(c) /\ PlaceMoves(c)
    BY <1>1, StepMoves
  <1>3. \A d \in Calls : d # c => pc'[d] = pc[d] /\ stage'[d] = stage[d]
    BY <1>1, OneCallMoves
  <1>4. UNCHANGED <<now, stale, tx>>
    BY DEF Progress, CommandFails, Start, ListKeys, DeleteKeys, FindPlan, CreatePlan, SavePlan,
           Execute, GetAmount, SetFirst, IncrInRedis, IncrReads, IncrWrites
  <1>5. tx[c].relay \in Relays /\ reset \in [Relays -> Nat]
    BY <1>1, HbarAssumption DEF TypeOK
  <1>6. ResetTimes'
    <2>1. CASE reset' = reset
      BY <1>1, <1>4, <2>1 DEF ResetTimes
    <2>2. CASE reset' = [reset EXCEPT ![tx[c].relay] = GetResetTimestamp(tx[c].relay)]
      <3> SUFFICES ASSUME NEW r \in Relays
                   PROVE  reset'[r] < now + Duration /\ \E k \in Nat : reset'[r] = k * Duration
        BY <1>4 DEF ResetTimes
      <3>1. CASE r = tx[c].relay
        BY <1>1, <1>5, <2>2, <3>1, ResetBoundary
      <3>2. CASE r # tx[c].relay
        BY <1>1, <1>5, <2>2, <3>2 DEF ResetTimes
      <3> QED
        BY <3>1, <3>2
    <2> QED
      BY <1>2, <2>1, <2>2 DEF ResetMoves
  <1>7. \A d \in Calls : BeganEarlier(d)' = BeganEarlier(d)
    BY <1>4 DEF BeganEarlier
  <1>8. StaleInv'
    <2> SUFFICES ASSUME NEW d \in Calls
                 PROVE  /\ BeganEarlier(d) => pc'[d] # "start"
                        /\ BeganEarlier(d) /\ stage'[d] = "reset" => <<d, "reset">> \in stale
                        /\ pc'[d] \in {"keys", "delete"} => stage'[d] = "reset"
      BY <1>4, <1>7 DEF StaleInv
    <2>1. CASE d = c
      BY <1>1, <1>2, <2>1 DEF StaleInv, PlaceMoves
    <2>2. CASE d # c
      BY <1>1, <1>3, <2>2 DEF StaleInv
    <2> QED
      BY <2>1, <2>2
  <1> QED
    BY <1>6, <1>8

\* A step of a call without a failure keeps what the reset promises.
LEMMA ProgressWindow ==
  ASSUME IInv, WInv, NEW c \in Calls, Progress(c)
  PROVE  WInv'
  <1>1. TypeOK /\ PlanInv /\ ResetTimes /\ StaleInv /\ WindowInv
    BY DEF IInv, WInv
  <1>2. ResetMoves(c) /\ PlaceMoves(c) /\ PassesReset(c) /\ Leftovers' \subseteq Leftovers
    BY <1>1, StepMoves, ProgressPasses, LeftoversShrink
  <1>3. \A d \in Calls : d # c => pc'[d] = pc[d] /\ stage'[d] = stage[d]
    BY <1>1, OneCallMoves
  <1>4. UNCHANGED <<redis, now, stale, tx, faults>>
    BY DEF Progress, Start, ListKeys, DeleteKeys, FindPlan, CreatePlan, SavePlan,
           Execute, GetAmount, SetFirst, IncrInRedis, IncrReads, IncrWrites
  <1>5. tx[c].relay \in Relays /\ reset \in [Relays -> Nat] /\ keys \in [Calls -> SUBSET DOMAIN plans]
    BY <1>1, HbarAssumption DEF TypeOK
  <1>6. /\ \A d \in Calls : BeganEarlier(d)' = BeganEarlier(d)
        /\ \A r \in Relays : ResetsLate(r)' = ResetsLate(r)
    BY <1>4 DEF BeganEarlier, ResetsLate
  <1>7. \A d \in Calls : d # c => keys'[d] = keys[d]
    BY <1>2, <1>5 DEF PassesReset, ListKeys, DeleteKeys, Delete
  <1>8. ASSUME ~redis \/ faults = 0, NEW r \in Relays, reset'[r] > now
        PROVE  Leftovers' = {} \/ ResetsLate(r)
    <2>1. CASE reset'[r] = reset[r]
      BY <1>1, <1>2, <1>8, <2>1 DEF WindowInv
    <2>2. CASE reset'[r] # reset[r]
      <3>1. r = tx[c].relay /\ stage[c] = "reset" /\ pc[c] \in {"find", "save"}
        BY <1>2, <1>5, <2>2 DEF ResetMoves
      <3>2. CASE BeganEarlier(c)
        BY <1>1, <3>1, <3>2 DEF StaleInv, ResetsLate
      <3>3. CASE ~BeganEarlier(c)
        BY <1>1, <1>2, <1>8, <3>1, <3>3 DEF WindowInv
      <3> QED
        BY <3>2, <3>3
    <2> QED
      BY <2>1, <2>2
  <1>9. ASSUME ~redis \/ faults = 0, ~BeganEarlier(c), pc'[c] = "delete"
        PROVE  Leftovers' \subseteq keys'[c]
    <2>1. keys'[c] = {id \in DOMAIN plans : Amount(id) > 0}
      BY <1>2, <1>5, <1>9 DEF PassesReset, ListKeys
    <2>2. ASSUME NEW id \in DOMAIN plans, Amount(id) > plans[id].added
          PROVE  Amount(id) > 0
      <3>1. plans[id].added \in Nat /\ Amount(id) \in Nat
        <4>1. plans[id] \in Plan
          BY <1>1 DEF TypeOK
        <4> QED
          BY <1>1, <4>1, AmountType DEF Plan
      <3> QED
        BY <2>2, <3>1
    <2>3. Leftovers \subseteq keys'[c]
      BY <2>1, <2>2 DEF Leftovers
    <2> QED
      BY <1>2, <2>3
  <1>10. ASSUME ~redis \/ faults = 0, ~BeganEarlier(c), pc'[c] \in {"find", "create", "save"},
                stage'[c] \in {"reset", "budget", "sender"}
         PROVE  Leftovers' = {} \/ ResetsLate(tx[c].relay)
    <2>1. CASE pc[c] = "start" /\ now < reset[tx[c].relay]
      <3>1. reset[tx[c].relay] > now
        BY <1>1, <1>5, <2>1 DEF TypeOK
      <3> QED
        BY <1>1, <1>2, <1>5, <1>10, <3>1 DEF WindowInv
    <2>2. CASE DeleteKeys(c)
      <3>1. pc[c] = "delete"
        BY <2>2 DEF DeleteKeys, Delete
      <3>2. Leftovers \subseteq keys[c]
        BY <1>1, <1>10, <3>1 DEF WindowInv
      <3>3. Leftovers' \subseteq Leftovers \ keys[c]
        BY <2>2, DeleteLeaves
      <3> QED
        BY <3>2, <3>3
    <2>3. CASE pc[c] \in {"find", "create", "save"} /\ stage[c] \in {"reset", "budget", "sender"}
      BY <1>1, <1>2, <1>10, <2>3 DEF WindowInv
    <2> QED
      BY <1>2, <1>10, <2>1, <2>2, <2>3 DEF PassesReset
  <1>11. WindowInv'
    <2> SUFFICES ASSUME ~redis \/ faults = 0
                 PROVE  /\ \A r \in Relays : reset'[r] > now => Leftovers' = {} \/ ResetsLate(r)
                        /\ \A d \in Calls : ~BeganEarlier(d) =>
                             /\ pc'[d] = "delete" => Leftovers' \subseteq keys'[d]
                             /\ pc'[d] \in {"find", "create", "save"}
                                /\ stage'[d] \in {"reset", "budget", "sender"} =>
                                  Leftovers' = {} \/ ResetsLate(tx[d].relay)
      <3>1. \A d \in Calls : tx[d].relay \in Relays
        BY <1>1, HbarAssumption DEF TypeOK
      <3> QED
        BY <1>4, <1>6, <3>1 DEF WindowInv
    <2>1. ASSUME NEW d \in Calls, d # c, ~BeganEarlier(d)
          PROVE  /\ pc'[d] = "delete" => Leftovers' \subseteq keys'[d]
                 /\ pc'[d] \in {"find", "create", "save"}
                    /\ stage'[d] \in {"reset", "budget", "sender"} =>
                      Leftovers' = {} \/ ResetsLate(tx[d].relay)
      BY <1>1, <1>2, <1>3, <1>7, <2>1 DEF WindowInv
    <2> QED
      BY <1>8, <1>9, <1>10, <2>1
  <1> QED
    BY <1>11, StepStale DEF WInv

\* An eviction leaves no more of an earlier window than there was.
LEMMA EvictWindow ==
  ASSUME IInv, WInv, Evict
  PROVE  WInv'
  <1>1. UNCHANGED <<redis, tx, now, reset, pc, stage, keys, stale>>
    BY DEF Evict, call
  <1>2. Leftovers' \subseteq Leftovers
    BY EvictFrame DEF Leftovers
  <1>3. /\ \A c \in Calls : BeganEarlier(c)' = BeganEarlier(c)
        /\ \A r : ResetsLate(r)' = ResetsLate(r)
    BY <1>1 DEF BeganEarlier, ResetsLate
  <1>4. ~redis
    BY DEF Evict
  <1>5. WindowInv'
    BY <1>1, <1>2, <1>3, <1>4 DEF WInv, WindowInv
  <1> QED
    BY <1>1, <1>3, <1>5 DEF WInv, ResetTimes, StaleInv

\* Every step keeps it; a failing command ends the promise about amounts.
LEMMA NextWInv ==
  IInv /\ WInv /\ [Next]_vars => WInv'
  <1> SUFFICES ASSUME IInv, WInv, [Next]_vars PROVE WInv'
    OBVIOUS
  <1>1. CASE UNCHANGED vars
    BY <1>1 DEF vars, call, WInv, ResetTimes, StaleInv, WindowInv, BeganEarlier, ResetsLate,
                Leftovers, Amount
  <1>2. ASSUME NEW c \in Calls, CommandFails(c)
        PROVE  WInv'
    <2>1. redis' /\ faults' # 0
      BY <1>2 DEF CommandFails, IInv, TypeOK
    <2>2. WindowInv'
      BY <2>1 DEF WindowInv
    <2> QED
      BY <1>2, <2>2, StepStale DEF WInv
  <1> QED
    BY <1>1, <1>2, TickWindow, EvictWindow, ProgressWindow DEF Next

\* The limiter starts in a window of its own, with no charges at all.
LEMMA InitWInv ==
  Init => WInv
  <1> SUFFICES ASSUME Init PROVE WInv
    OBVIOUS
  <1>1. IInv
    BY InitIInv
  <1>2. ResetTimes
    <2>1. Duration \in Nat /\ Duration < 1 + Duration /\ Duration = 1 * Duration
      BY HbarAssumption
    <2> QED
      BY <2>1 DEF Init, ResetTimes
  <1>3. Leftovers = {}
    <2>1. ASSUME NEW id \in DOMAIN plans
          PROVE  plans[id].added = 0 /\ Amount(id) = 0
      BY HbarAssumption DEF Init, Amount, NewPlan
    <2> QED
      BY <2>1 DEF Leftovers
  <1> QED
    BY <1>2, <1>3 DEF WInv, StaleInv, WindowInv, BeganEarlier, Init

\* A call is limited only for what was added to the plan in this window.
THEOREM LimitsAreOfThisWindow ==
  Spec => LimitedForThisWindow
  <1> DEFINE Due(c) == LET p == plans[GetSpendingPlan(c)] IN
                       \/ p.added >= Limit(c) \/ p.added + tx[c].estimate > Limit(c)
                       \/ BeganEarlier(c) \/ ResetsLate(tx[c].relay)
                       \/ p.lossy
                       \/ redis /\ faults' > 0
             Step == \A c \in Calls : pc[c] = "find" /\ pc'[c] = "limited" => Due(c)
  <1>1. IInv /\ WInv /\ [Next]_vars => Step
    <2> SUFFICES ASSUME IInv, WInv, [Next]_vars, NEW c \in Calls, pc[c] = "find", pc'[c] = "limited"
                 PROVE  Due(c)
      BY Zenon
    <2>1. TypeOK /\ PlanInv /\ WindowInv /\ faults \in Nat
      BY HbarAssumption DEF IInv, WInv, TypeOK
    <2>2. PICK d \in Calls : Progress(d) \/ CommandFails(d)
      BY DEF Next, Tick, Evict, vars, call
    <2>3. d = c
      BY <2>1, <2>2, OneCallMoves
    <2>4. CASE CommandFails(c)
      BY <2>1, <2>4 DEF CommandFails
    <2>5. CASE redis /\ faults # 0 /\ Progress(c)
      <3>1. faults' = faults
        BY <2>5 DEF Progress, Start, ListKeys, DeleteKeys, FindPlan, CreatePlan, SavePlan,
                    Execute, GetAmount, SetFirst, IncrInRedis, IncrReads, IncrWrites
      <3> QED
        BY <2>1, <2>5, <3>1
    <2>6. CASE (~redis \/ faults = 0) /\ Progress(c)
      <3> DEFINE id == GetSpendingPlan(c)
                 amount == Amount(id)
                 p == plans[id]
      <3>1. FindPlan(c)
        BY <2>6
        DEF Progress, Start, ListKeys, DeleteKeys, Delete, CreatePlan, SavePlan, Execute,
            GetAmount, SetFirst, IncrInRedis, IncrReads, IncrWrites
      <3>2. id # 0 /\ Use(c, id, amount)
        <4>1. CASE id = 0
          <5>1. pc'[c] = "create"
            BY <2>1, <3>1, <4>1 DEF FindPlan, Goto, TypeOK
          <5> QED
            BY <5>1
        <4> QED
          BY <3>1, <4>1 DEF FindPlan
      <3>3. id \in DOMAIN plans
        BY <2>1, <3>2, FoundPlan
      <3>4. p \in Plan /\ amount \in Nat
        <4>1. plans \in Seq(Plan)
          BY <2>1 DEF TypeOK
        <4>2. p \in Plan
          BY <3>3, <4>1
        <4>3. amount \in Nat
          BY <2>1, <3>3, AmountType
        <4> QED
          BY <4>2, <4>3
      <3>5. p.added \in Nat /\ p.tier \in Tier
        BY <3>4 DEF Plan
      <3>6. tx[c].estimate \in Nat /\ \A t \in Tier : TierLimit[t] \in Nat
        BY <2>1, HbarAssumption DEF TypeOK
      <3>7. /\ stage[c] \in {"budget", "sender"}
            /\ stage[c] = "budget" => ReachesLimit("OPERATOR", amount, tx[c].estimate)
            /\ stage[c] = "sender" => ReachesLimit(p.tier, amount, tx[c].estimate)
        BY <2>1, <3>2 DEF Use, Goto, TypeOK
      <3>8. \/ BeganEarlier(c) \/ ResetsLate(tx[c].relay)
            \/ p.lossy
            \/ amount <= p.added
        <4>1. CASE ~BeganEarlier(c) /\ Leftovers = {}
          BY <3>3, <3>4, <3>5, <4>1 DEF Leftovers
        <4> QED
          BY <2>1, <2>6, <3>7, <4>1 DEF WindowInv
      <3>9. CASE amount <= p.added
        <4>1. CASE stage[c] = "budget"
          <5>1. "OPERATOR" \in Tier /\ Limit(c) = TierLimit["OPERATOR"]
            BY <4>1 DEF Tier, Limit
          <5> HIDE DEF id, amount, p
          <5>2. p.added >= Limit(c) \/ p.added + tx[c].estimate > Limit(c)
            BY <3>4, <3>5, <3>6, <3>7, <3>9, <4>1, <5>1 DEF ReachesLimit
          <5> QED
            BY <5>2 DEF p, id
        <4>2. CASE stage[c] = "sender"
          <5>1. Limit(c) = TierLimit[p.tier]
            BY <4>2 DEF Limit
          <5> HIDE DEF id, amount, p
          <5>2. p.added >= Limit(c) \/ p.added + tx[c].estimate > Limit(c)
            BY <3>4, <3>5, <3>6, <3>7, <3>9, <4>2, <5>1 DEF ReachesLimit
          <5> QED
            BY <5>2 DEF p, id
        <4> QED
          BY <3>7, <4>1, <4>2
      <3> QED
        BY <3>8, <3>9
    <2> QED
      BY <2>2, <2>3, <2>4, <2>5, <2>6
  <1>2. Spec => []WInv
    BY InitWInv, NextWInv, Invariance, PTL DEF Spec
  <1>3. Spec => [][Step]_vars
    BY <1>1, <1>2, Invariance, PTL DEF Spec
  <1> QED
    BY <1>3 DEF LimitedForThisWindow
=============================================================================
