----------------------------- MODULE ServerProofs -----------------------------
(***************************************************************************)
(* The limit on the requests of an address in both of its stores, and the  *)
(* answers of single requests and batches, for any number of requests in   *)
(* flight, any addresses, items and limits; and behind them the answers    *)
(* of the methods through the cache decorator, for any calls, any failures *)
(* and any growth of the chain.                                            *)
(***************************************************************************)
EXTENDS Server, MethodCache, FiniteSetTheorems, TLAPS

(* Admissions of A to the method by the address, of the given kinds. *)
Of(A, ip, method, kinds) == {a \in A : a.ip = ip /\ a.method = method /\ a.kind \in kinds}

Counted(A, ip, method) == Of(A, ip, method, {"counted"})

(* The counted ones of the Duration before t, and all those of some kinds since t. *)
Before(A, ip, method, t) == {a \in Counted(A, ip, method) : a.time < t /\ a.time + Duration >= t}

From(A, ip, method, kinds, t) == {a \in Of(A, ip, method, kinds) : a.time >= t}

(* A window of the limit, of the requests from start on and before end, of which the store has counted some: at most the   *)
(* limit was let through in it and in the Duration before it, and the store never counts more than was let through.        *)
Window(A, t, ip, method, start, end, used) ==
    LET limit == TotalLimit(method)
    IN  /\ start \in 0 .. t /\ end \in Nat /\ used \in Nat /\ start + Duration <= end
        /\ \A a \in Counted(A, ip, method) : a.time < end
        /\ Cardinality(Before(A, ip, method, start)) <= limit
        /\ Cardinality(From(A, ip, method, {"counted"}, start)) <= limit
        /\ Cardinality(From(A, ip, method, {"counted"}, start)) <= used
        /\ \/ Cardinality(From(A, ip, method, {"counted", "open"}, start)) >= used
           \/ Cardinality(From(A, ip, method, {"counted", "open"}, start)) >= limit

(* The methods the store in memory counts. *)
Own == Methods \ Inherited

(* In memory an address has one window, of all methods it has called. *)
LruMethodOK(A, t, ip, entry, method) ==
    IF method \in DOMAIN entry.remaining
    THEN /\ entry.remaining[method] <= TotalLimit(method)
         /\ Window(A, t, ip, method, entry.reset - Duration, entry.reset + 1, TotalLimit(method) - entry.remaining[method])
    ELSE Counted(A, ip, method) = {}

LruOK(A, t, ip, entry) ==
    /\ entry = NoEntry \/ entry.reset - Duration \in 0 .. t
    /\ \A method \in Own : LruMethodOK(A, t, ip, entry, method)

(* In Redis a window belongs to an address and a method, and is over when its key expires. *)
RedisOK(A, t, ip, method, counter) ==
    IF counter.count = 0 THEN Counted(A, ip, method) = {}
    ELSE Window(A, t, ip, method, counter.expires - Duration, counter.expires, counter.count)

WindowInv ==
    /\ store = "lru" => \A ip \in Addresses : LruOK(admitted, now, ip, database[ip])
    /\ store = "redis" => \A ip \in Addresses, method \in Methods : RedisOK(admitted, now, ip, method, counters[<<ip, method>>])

(* Admissions are numbered. *)
Alike(A, a) == {b \in Of(A, a.ip, a.method, {a.kind}) : b.time = a.time}

NumberInv == IsFiniteSet(admitted) /\ \A a \in admitted : a.n <= Cardinality(Alike(admitted, a))

(* How far the item of an answer got. *)
AnswerOK(item, answer, executed) ==
    \/ answer \in Pending /\ HasValidJsonRpcId(item) /\ ~executed
    \/ executed /\ HasValidJsonRpcId(item) /\ \E code \in Outcomes : answer = JsonResp(IdOf(item), code)
    \/ /\ ~executed
       /\ \E code \in {-32600, -32007, -32605} : answer = JsonResp(IF HasValidJsonRpcId(item) THEN IdOf(item) ELSE "null", code)

RequestOK(h) ==
    /\ h.pc = "idle" => h.answers = <<>>
    /\ h.pc # "idle" =>
        /\ h.query \in Incoming /\ h.ip \in Addresses /\ DOMAIN h.answers = DOMAIN h.query.items
        /\ \A i \in DOMAIN h.answers : AnswerOK(h.query.items[i], h.answers[i], i \in h.executed)

RequestInv == \A r \in Slots : RequestOK(http[r])

IInv == TypeOK /\ NumberInv /\ WindowInv /\ RequestInv /\ RefusedHasCause

(* What the lemmas about windows know of a set of admissions at time t. *)
Admits(A, t) == t \in Nat /\ IsFiniteSet(A) /\ \A a \in A : a.time \in 0 .. t

-----------------------------------------------------------------------------
(* The limits and sets of admissions.                                      *)

(* Every method has a positive limit. *)
LEMMA LimitType ==
  ASSUME NEW method
  PROVE  TotalLimit(method) \in Nat \ {0}
  BY ServerAssumption DEF TotalLimit

(* Parts of a set of admissions are finite. *)
LEMMA Finite ==
  ASSUME NEW A, IsFiniteSet(A), NEW S \in SUBSET A
  PROVE  IsFiniteSet(S) /\ Cardinality(S) \in Nat
  BY FS_Subset, FS_CardinalityType

LEMMA FiniteSets ==
  ASSUME NEW A, NEW t, Admits(A, t), NEW ip, NEW method, NEW start
  PROVE  /\ Before(A, ip, method, start) \subseteq A
         /\ IsFiniteSet(Before(A, ip, method, start)) /\ Cardinality(Before(A, ip, method, start)) \in Nat
         /\ \A kinds : /\ From(A, ip, method, kinds, start) \subseteq A
                       /\ IsFiniteSet(From(A, ip, method, kinds, start))
                       /\ Cardinality(From(A, ip, method, kinds, start)) \in Nat
  <1>1. Before(A, ip, method, start) \in SUBSET A
    BY DEF Before, Counted, Of
  <1>2. \A kinds : From(A, ip, method, kinds, start) \in SUBSET A
    BY DEF From, Of
  <1> QED
    BY <1>1, <1>2, Finite DEF Admits

(* A new admission of the address to the method is one more since the window began, and none more before it. *)
LEMMA OneMore ==
  ASSUME NEW A, NEW t, Admits(A, t), NEW x, x \notin A, x.time = t,
         NEW kinds, NEW start \in 0 .. t, x.kind \in kinds
  PROVE  Cardinality(From(A \cup {x}, x.ip, x.method, kinds, start)) = Cardinality(From(A, x.ip, x.method, kinds, start)) + 1
  <1> DEFINE F == From(A, x.ip, x.method, kinds, start)
  <1>1. From(A \cup {x}, x.ip, x.method, kinds, start) = F \cup {x}
    BY DEF From, Of, Admits
  <1>2. x \notin F /\ IsFiniteSet(F)
    BY FiniteSets
  <1> QED
    BY <1>1, <1>2, FS_AddElement

(* An admission of another address, method or kind changes nothing. *)
LEMMA NoneMore ==
  ASSUME NEW A, NEW x, NEW ip, NEW method, NEW kinds, ~(x.ip = ip /\ x.method = method /\ x.kind \in kinds)
  PROVE  Of(A \cup {x}, ip, method, kinds) = Of(A, ip, method, kinds)
  BY DEF Of

LEMMA BeforeKept ==
  ASSUME NEW A, NEW t, Admits(A, t), NEW x, x.time = t, NEW start \in 0 .. t, NEW ip, NEW method
  PROVE  Before(A \cup {x}, ip, method, start) = Before(A, ip, method, start)
  BY DEF Before, Counted, Of, Admits

-----------------------------------------------------------------------------
(* Windows.                                                                *)

(* Time passes. *)
LEMMA WindowLasts ==
  ASSUME NEW A, NEW t \in Nat, NEW u \in Nat, t <= u, NEW ip, NEW method, NEW start, NEW end, NEW used,
         Window(A, t, ip, method, start, end, used)
  PROVE  Window(A, u, ip, method, start, end, used)
  BY DEF Window

(* The first window of a method. *)
LEMMA WindowOpens ==
  ASSUME NEW A, NEW t, Admits(A, t), NEW ip, NEW method, Counted(A, ip, method) = {},
         NEW start \in 0 .. t, NEW end \in Nat, start + Duration <= end
  PROVE  Window(A, t, ip, method, start, end, 0)
  <1>1. Before(A, ip, method, start) = {} /\ From(A, ip, method, {"counted"}, start) = {}
    BY DEF Before, From, Counted
  <1>2. Cardinality(From(A, ip, method, {"counted", "open"}, start)) \in Nat
    BY FiniteSets
  <1> QED
    BY <1>1, <1>2, FS_EmptySet, LimitType DEF Window

(* A window that follows one that is over. *)
LEMMA WindowReopens ==
  ASSUME NEW A, NEW t, Admits(A, t), NEW ip, NEW method, NEW start, NEW end, NEW used,
         Window(A, t, ip, method, start, end, used), end <= t,
         NEW till \in Nat, t + Duration <= till
  PROVE  Window(A, t, ip, method, t, till, 0)
  <1>0. t \in Nat /\ start \in Nat /\ end \in Nat /\ start + Duration <= end /\ Duration \in Nat
    BY ServerAssumption DEF Window, Admits
  <1>1. \A a \in Counted(A, ip, method) : a.time < t /\ a.time < till /\ a.time \in Nat
    BY <1>0 DEF Window, Admits, Counted, Of
  <1>2. From(A, ip, method, {"counted"}, t) = {}
    BY <1>0, <1>1 DEF From, Counted
  <1>3. Before(A, ip, method, t) \in SUBSET From(A, ip, method, {"counted"}, start)
    BY <1>0, <1>1 DEF From, Before, Counted
  <1>4. Cardinality(Before(A, ip, method, t)) <= Cardinality(From(A, ip, method, {"counted"}, start))
    BY <1>3, FiniteSets, FS_Subset
  <1>5. Cardinality(Before(A, ip, method, t)) <= TotalLimit(method)
    BY <1>4, LimitType, FiniteSets DEF Window
  <1>6. Cardinality(From(A, ip, method, {"counted", "open"}, t)) \in Nat
    BY FiniteSets
  <1>7. Cardinality(From(A, ip, method, {"counted"}, t)) = 0
    BY <1>2, FS_EmptySet
  <1>8. TotalLimit(method) \in Nat
    BY LimitType
  <1> QED
    BY <1>0, <1>1, <1>5, <1>6, <1>7, <1>8 DEF Window

(* The store counts a request and lets it through. *)
LEMMA WindowCounts ==
  ASSUME NEW A, NEW t, Admits(A, t), NEW x, x \notin A, x.time = t, x.kind = "counted",
         NEW start, NEW end, NEW used, Window(A, t, x.ip, x.method, start, end, used),
         t < end, used < TotalLimit(x.method)
  PROVE  Window(A \cup {x}, t, x.ip, x.method, start, end, used + 1)
  <1> DEFINE counted == From(A, x.ip, x.method, {"counted"}, start)
             all == From(A, x.ip, x.method, {"counted", "open"}, start)
             limit == TotalLimit(x.method)
  <1>1. start \in 0 .. t /\ used \in Nat /\ limit \in Nat
    BY LimitType DEF Window
  <1>2. Cardinality(counted) \in Nat /\ Cardinality(all) \in Nat
    BY FiniteSets
  <1>3. Cardinality(counted) <= used /\ (Cardinality(all) >= used \/ Cardinality(all) >= limit)
    BY DEF Window
  <1>4. /\ Cardinality(From(A \cup {x}, x.ip, x.method, {"counted"}, start)) = Cardinality(counted) + 1
        /\ Cardinality(From(A \cup {x}, x.ip, x.method, {"counted", "open"}, start)) = Cardinality(all) + 1
    BY <1>1, OneMore
  <1>5. Before(A \cup {x}, x.ip, x.method, start) = Before(A, x.ip, x.method, start)
    BY <1>1, BeforeKept
  <1>6. \A a \in Counted(A \cup {x}, x.ip, x.method) : a.time < end
    BY DEF Window, Counted, Of
  <1>7. start \in 0 .. t /\ end \in Nat /\ start + Duration <= end /\ Cardinality(Before(A, x.ip, x.method, start)) <= limit
    BY DEF Window
  <1> HIDE DEF counted, all, limit
  <1>8. /\ used + 1 \in Nat /\ Cardinality(counted) + 1 <= limit /\ Cardinality(counted) + 1 <= used + 1
        /\ Cardinality(all) + 1 >= used + 1 \/ Cardinality(all) + 1 >= limit
    BY <1>1, <1>2, <1>3 DEF limit
  <1> QED
    BY <1>4, <1>5, <1>6, <1>7, <1>8 DEF Window, limit

(* It counts a request that it refuses. *)
LEMMA WindowOverflows ==
  ASSUME NEW A, NEW t, Admits(A, t), NEW ip, NEW method, NEW start, NEW end, NEW used,
         Window(A, t, ip, method, start, end, used), used >= TotalLimit(method)
  PROVE  /\ Window(A, t, ip, method, start, end, used + 1)
         /\ Cardinality(From(A, ip, method, {"counted", "open"}, start)) >= TotalLimit(method)
  <1>1. used \in Nat /\ TotalLimit(method) \in Nat
    BY LimitType DEF Window
  <1>2. Cardinality(From(A, ip, method, {"counted"}, start)) \in Nat
        /\ Cardinality(From(A, ip, method, {"counted", "open"}, start)) \in Nat
    BY FiniteSets
  <1> QED
    BY <1>1, <1>2 DEF Window

(* A request is let through although the command failed, which may have counted it. *)
LEMMA WindowFails ==
  ASSUME NEW A, NEW t, Admits(A, t), NEW x, x \notin A, x.time = t, x.kind = "open",
         NEW start, NEW end, NEW used, Window(A, t, x.ip, x.method, start, end, used)
  PROVE  /\ Window(A \cup {x}, t, x.ip, x.method, start, end, used)
         /\ Window(A \cup {x}, t, x.ip, x.method, start, end, used + 1)
  <1> DEFINE counted == From(A, x.ip, x.method, {"counted"}, start)
             all == From(A, x.ip, x.method, {"counted", "open"}, start)
             limit == TotalLimit(x.method)
  <1>1. start \in 0 .. t /\ used \in Nat /\ limit \in Nat
    BY LimitType DEF Window
  <1>2. Cardinality(counted) \in Nat /\ Cardinality(all) \in Nat
    BY FiniteSets
  <1>3. /\ Cardinality(counted) <= used /\ Cardinality(counted) <= limit
        /\ Cardinality(all) >= used \/ Cardinality(all) >= limit
    BY DEF Window
  <1>4. Of(A \cup {x}, x.ip, x.method, {"counted"}) = Of(A, x.ip, x.method, {"counted"})
    BY NoneMore
  <1>5. /\ From(A \cup {x}, x.ip, x.method, {"counted"}, start) = counted
        /\ Cardinality(From(A \cup {x}, x.ip, x.method, {"counted", "open"}, start)) = Cardinality(all) + 1
    BY <1>1, <1>4, OneMore DEF From
  <1>6. Before(A \cup {x}, x.ip, x.method, start) = Before(A, x.ip, x.method, start)
    BY <1>1, BeforeKept
  <1>7. /\ \A a \in Counted(A \cup {x}, x.ip, x.method) : a.time < end
        /\ start \in 0 .. t /\ end \in Nat /\ start + Duration <= end /\ Cardinality(Before(A, x.ip, x.method, start)) <= limit
    BY <1>4 DEF Window, Counted
  <1> HIDE DEF counted, all, limit
  <1>8. /\ used + 1 \in Nat /\ Cardinality(counted) <= used + 1
        /\ Cardinality(all) + 1 >= used \/ Cardinality(all) + 1 >= limit
        /\ Cardinality(all) + 1 >= used + 1 \/ Cardinality(all) + 1 >= limit
    BY <1>1, <1>2, <1>3
  <1> QED
    BY <1>1, <1>3, <1>5, <1>6, <1>7, <1>8 DEF Window, limit

(* Requests of others leave a window as it is. *)
LEMMA WindowOfOthers ==
  ASSUME NEW A, NEW t, NEW x, NEW ip, NEW method, ~(x.ip = ip /\ x.method = method)
  PROVE  /\ Counted(A \cup {x}, ip, method) = Counted(A, ip, method)
         /\ \A start, end, used : Window(A, t, ip, method, start, end, used) => Window(A \cup {x}, t, ip, method, start, end, used)
  <1>1. \A kinds : Of(A \cup {x}, ip, method, kinds) = Of(A, ip, method, kinds)
    BY NoneMore
  <1>2. Counted(A \cup {x}, ip, method) = Counted(A, ip, method)
    BY <1>1 DEF Counted
  <1>3. \A start : /\ Before(A \cup {x}, ip, method, start) = Before(A, ip, method, start)
                   /\ \A kinds : From(A \cup {x}, ip, method, kinds, start) = From(A, ip, method, kinds, start)
    BY <1>1, <1>2 DEF Before, From
  <1> QED
    BY <1>2, <1>3 DEF Window

-----------------------------------------------------------------------------
(* The stores.                                                             *)

IsEntry(entry) == \E M \in SUBSET Methods : entry \in [reset : Int, remaining : [M -> Nat]]

(* An entry whose window has begun. *)
Begun(A, t, ip, entry) == IsEntry(entry) /\ LruOK(A, t, ip, entry) /\ entry.reset - Duration \in 0 .. t

(* precheck gives an address an entry. *)
LEMMA EntryKnown ==
  ASSUME NEW A, NEW t, Admits(A, t), NEW ip, NEW entry, IsEntry(entry), LruOK(A, t, ip, entry)
  PROVE  Begun(A, t, ip, IF entry = NoEntry THEN [reset |-> t + Duration, remaining |-> <<>>] ELSE entry)
  <1>1. CASE entry = NoEntry
    <2> DEFINE known == [reset |-> t + Duration, remaining |-> <<>>]
    <2>1. t \in Nat /\ Duration \in Nat
      BY ServerAssumption DEF Admits
    <2>2. DOMAIN known.remaining = {} /\ DOMAIN entry.remaining = {}
      BY <1>1 DEF NoEntry
    <2>3. IsEntry(known)
      <3>1. known \in [reset : Int, remaining : [{} -> Nat]]
        BY <2>1
      <3> QED
        BY <3>1 DEF IsEntry
    <2>4. known.reset - Duration \in 0 .. t
      BY <2>1
    <2>5. \A method \in Own : LruMethodOK(A, t, ip, known, method)
      BY <2>2 DEF LruOK, LruMethodOK
    <2> HIDE DEF known
    <2>6. Begun(A, t, ip, known)
      BY <2>3, <2>4, <2>5 DEF Begun, LruOK
    <2> QED
      BY <1>1, <2>6 DEF known
  <1>2. CASE entry # NoEntry
    BY <1>2 DEF Begun, LruOK
  <1> QED
    BY <1>1, <1>2

(* and a method a full allowance in the window of the address. *)
LEMMA MethodKnown ==
  ASSUME NEW A, NEW t, Admits(A, t), NEW ip, NEW entry, Begun(A, t, ip, entry),
         NEW method \in Own, method \notin DOMAIN entry.remaining
  PROVE  LET known == [entry EXCEPT !.remaining = With(@, method, TotalLimit(method))]
         IN  Begun(A, t, ip, known) /\ method \in DOMAIN known.remaining
  <1> DEFINE known == [entry EXCEPT !.remaining = With(@, method, TotalLimit(method))]
             limit == TotalLimit(method)
  <1>1. PICK M \in SUBSET Methods : entry \in [reset : Int, remaining : [M -> Nat]]
    BY DEF Begun, IsEntry
  <1>2. /\ known \in [reset : Int, remaining : [M \cup {method} -> Nat]] /\ known.reset = entry.reset
        /\ DOMAIN known.remaining = M \cup {method} /\ DOMAIN entry.remaining = M
        /\ \A x \in M : known.remaining[x] = entry.remaining[x]
        /\ known.remaining[method] = limit
    BY <1>1, LimitType DEF With
  <1>3. IsEntry(known)
    <2>1. M \cup {method} \in SUBSET Methods
      BY DEF Own
    <2> QED
      BY <1>2, <2>1 DEF IsEntry
  <1>4. Window(A, t, ip, method, entry.reset - Duration, entry.reset + 1, 0)
    <2>1. Counted(A, ip, method) = {}
      BY DEF Begun, LruOK, LruMethodOK
    <2>2. entry.reset \in Int /\ entry.reset - Duration \in 0 .. t /\ Duration \in Nat /\ t \in Nat
      BY <1>1, ServerAssumption DEF Begun, Admits
    <2>3. entry.reset + 1 \in Nat /\ (entry.reset - Duration) + Duration <= entry.reset + 1
      BY <2>2
    <2> QED
      BY <2>1, <2>2, <2>3, WindowOpens
  <1> HIDE DEF known, limit
  <1>5. \A x \in Own : LruMethodOK(A, t, ip, known, x)
    <2>1. ASSUME NEW x \in Own, x # method
          PROVE  LruMethodOK(A, t, ip, known, x)
      <3>1. LruMethodOK(A, t, ip, entry, x)
        BY DEF Begun, LruOK
      <3>2. /\ x \in DOMAIN known.remaining <=> x \in DOMAIN entry.remaining
            /\ x \in DOMAIN known.remaining => known.remaining[x] = entry.remaining[x]
        BY <1>2, <2>1
      <3> QED
        BY <1>2, <3>1, <3>2 DEF LruMethodOK
    <2>2. LruMethodOK(A, t, ip, known, method)
      <3>1. limit - limit = 0 /\ limit <= limit
        BY LimitType DEF limit
      <3> QED
        BY <1>2, <1>4, <3>1 DEF LruMethodOK, limit
    <2> QED
      BY <2>1, <2>2
  <1>6. Begun(A, t, ip, known) /\ method \in DOMAIN known.remaining
    BY <1>2, <1>3, <1>5 DEF Begun, LruOK
  <1> QED
    BY <1>6 DEF known

(* A reset begins the next window of every method of the address. *)
LEMMA EntryReset ==
  ASSUME NEW A, NEW t, Admits(A, t), NEW ip, NEW entry, Begun(A, t, ip, entry), entry.reset < t
  PROVE  Begun(A, t, ip, [reset |-> t + Duration, remaining |-> [x \in DOMAIN entry.remaining |-> TotalLimit(x)]])
  <1> DEFINE next == [reset |-> t + Duration, remaining |-> [x \in DOMAIN entry.remaining |-> TotalLimit(x)]]
  <1>1. PICK M \in SUBSET Methods : entry \in [reset : Int, remaining : [M -> Nat]]
    BY DEF Begun, IsEntry
  <1>2. t \in Nat /\ Duration \in Nat /\ entry.reset \in Int
    BY <1>1, ServerAssumption DEF Admits
  <1>3. /\ next \in [reset : Int, remaining : [M -> Nat]] /\ DOMAIN next.remaining = M /\ DOMAIN entry.remaining = M
        /\ \A x \in M : next.remaining[x] = TotalLimit(x)
        /\ next.reset = t + Duration /\ next.reset - Duration = t /\ next.reset + 1 \in Nat
    BY <1>1, <1>2, LimitType
  <1> HIDE DEF next
  <1>4. \A x \in Own : LruMethodOK(A, t, ip, next, x)
    <2> SUFFICES ASSUME NEW x \in Own
                 PROVE  LruMethodOK(A, t, ip, next, x)
      OBVIOUS
    <2>1. LruMethodOK(A, t, ip, entry, x)
      BY DEF Begun, LruOK
    <2>2. CASE x \in M
      <3>1. Window(A, t, ip, x, entry.reset - Duration, entry.reset + 1, TotalLimit(x) - entry.remaining[x])
        BY <1>3, <2>1, <2>2 DEF LruMethodOK
      <3>2. entry.reset + 1 <= t /\ t + Duration <= next.reset + 1
        BY <1>2, <1>3
      <3>3. Window(A, t, ip, x, t, next.reset + 1, 0)
        BY <1>3, <3>1, <3>2, WindowReopens
      <3>4. TotalLimit(x) - next.remaining[x] = 0 /\ next.remaining[x] <= TotalLimit(x)
        BY <1>3, <2>2, LimitType
      <3> QED
        BY <1>3, <2>2, <3>3, <3>4 DEF LruMethodOK
    <2>3. CASE x \notin M
      BY <1>3, <2>1, <2>3 DEF LruMethodOK
    <2> QED
      BY <2>2, <2>3
  <1>5. next.reset - Duration \in 0 .. t
    BY <1>2, <1>3
  <1>6. Begun(A, t, ip, next)
    BY <1>3, <1>4, <1>5 DEF Begun, LruOK, IsEntry
  <1> QED
    BY <1>6 DEF next

(* A request of another address, or one that the store did not count, leaves the entry of an address right. *)
LEMMA EntryOfOthers ==
  ASSUME NEW A, NEW t, Admits(A, t), NEW x, x \notin A, x.time = t, NEW ip, x.ip # ip \/ x.kind = "open" \/ x.method \notin Own,
         NEW entry, LruOK(A, t, ip, entry)
  PROVE  LruOK(A \cup {x}, t, ip, entry)
  <1> SUFFICES ASSUME NEW method \in Own, LruMethodOK(A, t, ip, entry, method)
               PROVE  LruMethodOK(A \cup {x}, t, ip, entry, method)
    BY DEF LruOK
  <1>1. CASE x.ip # ip \/ x.method # method
    BY <1>1, WindowOfOthers DEF LruMethodOK
  <1>2. CASE x.ip = ip /\ x.method = method
    <2>1. Counted(A \cup {x}, ip, method) = Counted(A, ip, method)
      BY <1>2, NoneMore DEF Counted
    <2> QED
      BY <1>2, <2>1, WindowFails DEF LruMethodOK
  <1> QED
    BY <1>1, <1>2

(* A request that the store counts and lets through. *)
LEMMA EntryCounts ==
  ASSUME NEW A, NEW t, Admits(A, t), NEW x, x \notin A, x.time = t, x.kind = "counted", x.method \in Own,
         NEW entry, Begun(A, t, x.ip, entry), t <= entry.reset,
         x.method \in DOMAIN entry.remaining, entry.remaining[x.method] # 0
  PROVE  Begun(A \cup {x}, t, x.ip, [entry EXCEPT !.remaining[x.method] = @ - 1])
  <1> DEFINE next == [entry EXCEPT !.remaining[x.method] = @ - 1]
             left == entry.remaining[x.method]
             limit == TotalLimit(x.method)
  <1>1. PICK M \in SUBSET Methods : entry \in [reset : Int, remaining : [M -> Nat]]
    BY DEF Begun, IsEntry
  <1>2. limit \in Nat /\ left \in Nat \ {0} /\ left <= limit /\ t \in Nat /\ entry.reset \in Int
    BY <1>1, LimitType DEF Begun, LruOK, LruMethodOK, Admits
  <1>3. /\ next \in [reset : Int, remaining : [M -> Nat]] /\ next.reset = entry.reset
        /\ DOMAIN next.remaining = M /\ DOMAIN entry.remaining = M
        /\ next.remaining[x.method] = left - 1
        /\ \A y \in M : y # x.method => next.remaining[y] = entry.remaining[y]
    BY <1>1, <1>2
  <1>4. Window(A \cup {x}, t, x.ip, x.method, entry.reset - Duration, entry.reset + 1, (limit - left) + 1)
    <2>1. Window(A, t, x.ip, x.method, entry.reset - Duration, entry.reset + 1, limit - left)
      BY DEF Begun, LruOK, LruMethodOK
    <2> HIDE DEF left
    <2>2. t < entry.reset + 1 /\ limit - left < limit
      BY <1>2
    <2> QED
      BY <2>1, <2>2, WindowCounts
  <1> HIDE DEF next, left, limit
  <1>5. \A y \in Own : LruMethodOK(A \cup {x}, t, x.ip, next, y)
    <2>1. ASSUME NEW y \in Own, y # x.method
          PROVE  LruMethodOK(A \cup {x}, t, x.ip, next, y)
      <3>1. LruMethodOK(A, t, x.ip, entry, y)
        BY DEF Begun, LruOK
      <3>2. LruMethodOK(A, t, x.ip, next, y)
        BY <1>3, <2>1, <3>1 DEF LruMethodOK
      <3> QED
        BY <2>1, <3>2, WindowOfOthers DEF LruMethodOK
    <2>2. LruMethodOK(A \cup {x}, t, x.ip, next, x.method)
      <3>1. (limit - left) + 1 = limit - (left - 1) /\ left - 1 <= limit /\ x.method \in M
        BY <1>2, <1>3
      <3> QED
        BY <1>3, <1>4, <3>1 DEF LruMethodOK, limit
    <2> QED
      BY <2>1, <2>2
  <1>6. entry.reset - Duration \in 0 .. t
    BY DEF Begun
  <1>7. Begun(A \cup {x}, t, x.ip, next)
    BY <1>3, <1>5, <1>6 DEF Begun, LruOK, IsEntry
  <1> QED
    BY <1>7 DEF next

(* incrementAndCheck of LruRateLimitStore keeps the entry right, and refuses only what is over the limit of its window. *)
LEMMA LruChecks ==
  ASSUME Admits(admitted, now), NEW x, x \notin admitted, x.time = now, x.kind = "counted", x.method \in Own,
         IsEntry(database[x.ip]), LruOK(admitted, now, x.ip, database[x.ip])
  PROVE  LET lru == LruIncrementAndCheck(x.ip, x.method)
         IN  /\ lru.limited =>
                    /\ Begun(admitted, now, x.ip, lru.entry)
                    /\ \E start \in 0 .. now :
                            /\ now <= start + Duration
                            /\ Cardinality(From(admitted, x.ip, x.method, {"counted", "open"}, start)) >= TotalLimit(x.method)
             /\ ~lru.limited => Begun(admitted \cup {x}, now, x.ip, lru.entry)
             /\ lru.members = members
  <1> DEFINE ip == x.ip
             method == x.method
             known == IF database[ip] = NoEntry THEN [reset |-> now + Duration, remaining |-> <<>>] ELSE database[ip]
             entry == Precheck(database[ip], method)
             reset == [reset |-> now + Duration, remaining |-> [y \in DOMAIN entry.remaining |-> TotalLimit(y)]]
             used == IF ShouldReset(entry) THEN reset ELSE entry
             left == used.remaining[method]
             limited == left = 0
             spent == IF left = 0 THEN 0 ELSE left - 1
             lru == LruIncrementAndCheck(ip, method)
  <1>1. Begun(admitted, now, ip, known)
    BY EntryKnown
  <1>2. Begun(admitted, now, ip, entry) /\ method \in DOMAIN entry.remaining
    <2>1. entry = IF method \in DOMAIN known.remaining THEN known
                  ELSE [known EXCEPT !.remaining = With(@, method, TotalLimit(method))]
      BY DEF Precheck, Own
    <2> HIDE DEF known, entry
    <2> QED
      BY <1>1, <2>1, MethodKnown
  <1>3. lru = [entry |-> [used EXCEPT !.remaining[method] = spent], members |-> members, limited |-> limited]
    BY DEF LruIncrementAndCheck, Own
  <1> HIDE DEF known, entry, lru
  <1>4. Begun(admitted, now, ip, used) /\ method \in DOMAIN used.remaining /\ now <= used.reset
    <2>1. now \in Nat /\ Duration \in Nat /\ entry.reset \in Int
      BY <1>2, ServerAssumption DEF Admits, Begun, IsEntry
    <2>2. CASE ShouldReset(entry)
      <3>1. used = reset /\ entry.reset < now
        BY <2>2 DEF ShouldReset
      <3>2. Begun(admitted, now, ip, reset)
        BY <1>2, <3>1, EntryReset
      <3> QED
        BY <1>2, <2>1, <3>1, <3>2
    <2>3. CASE ~ShouldReset(entry)
      BY <1>2, <2>1, <2>3 DEF ShouldReset
    <2> QED
      BY <2>2, <2>3
  <1> HIDE DEF used
  <1>5. CASE limited
    <2>1. Begun(admitted, now, ip, lru.entry)
      <3>1. \E M \in SUBSET Methods : used \in [reset : Int, remaining : [M -> Nat]]
        BY <1>4 DEF Begun, IsEntry
      <3>2. spent = left
        BY <1>5
      <3>3. lru.entry = used
        BY <1>3, <1>4, <3>1, <3>2
      <3> QED
        BY <1>4, <3>3
    <2>2. Window(admitted, now, ip, method, used.reset - Duration, used.reset + 1, TotalLimit(method) - used.remaining[method])
      BY <1>4 DEF Begun, LruOK, LruMethodOK
    <2>3. TotalLimit(method) - used.remaining[method] >= TotalLimit(method)
      BY <1>5, LimitType
    <2>4. Cardinality(From(admitted, ip, method, {"counted", "open"}, used.reset - Duration)) >= TotalLimit(method)
      BY <2>2, <2>3, WindowOverflows
    <2>5. now <= (used.reset - Duration) + Duration /\ used.reset - Duration \in 0 .. now
      <3>1. used.reset \in Int /\ Duration \in Nat /\ now \in Nat
        BY <1>4, ServerAssumption DEF Begun, IsEntry, Admits
      <3> QED
        BY <1>4, <3>1 DEF Begun
    <2>6. lru.limited
      BY <1>3, <1>5
    <2> QED
      BY <1>3, <2>1, <2>4, <2>5, <2>6 DEF lru
  <1>6. CASE ~limited
    <2>1. Begun(admitted \cup {x}, now, ip, [used EXCEPT !.remaining[method] = @ - 1])
      BY <1>4, <1>6, EntryCounts
    <2>2. ~lru.limited /\ lru.entry = [used EXCEPT !.remaining[method] = @ - 1]
      BY <1>3, <1>6
    <2> QED
      BY <1>3, <2>1, <2>2 DEF lru
  <1> QED
    BY <1>5, <1>6

(* For a name of Inherited it only renews the entry, and keeps what remains on the member of that name. *)
LEMMA InheritedChecks ==
  ASSUME Admits(admitted, now), NEW ip, NEW method \in Methods \cap Inherited, members \in [Inherited -> Nat],
         IsEntry(database[ip]), LruOK(admitted, now, ip, database[ip])
  PROVE  LET lru == LruIncrementAndCheck(ip, method)
         IN  Begun(admitted, now, ip, lru.entry) /\ lru.members \in [Inherited -> Nat]
  <1> DEFINE entry == Precheck(database[ip], method)
             reset == [reset |-> now + Duration, remaining |-> [y \in DOMAIN entry.remaining |-> TotalLimit(y)]]
             used == IF ShouldReset(entry) THEN reset ELSE entry
             left == IF ShouldReset(entry) THEN TotalLimit(method) ELSE members[method]
             spent == IF left = 0 THEN 0 ELSE left - 1
             lru == LruIncrementAndCheck(ip, method)
  <1>1. Begun(admitted, now, ip, entry)
    BY EntryKnown DEF Precheck
  <1>2. lru.entry = used /\ lru.members = [members EXCEPT ![method] = spent]
    BY DEF LruIncrementAndCheck
  <1> HIDE DEF entry, lru
  <1>3. Begun(admitted, now, ip, used)
    BY <1>1, EntryReset DEF ShouldReset
  <1>4. spent \in Nat
    BY LimitType
  <1> HIDE DEF used, spent
  <1> QED
    BY <1>2, <1>3, <1>4 DEF lru

(* LUA_SCRIPT of RedisRateLimitStore does so too, whether or not the relay learns of the result. *)
LEMMA RedisChecks ==
  ASSUME Admits(admitted, now), NEW x, x \notin admitted, x.time = now,
         counters[<<x.ip, x.method>>] \in [count : Nat, expires : Nat],
         RedisOK(admitted, now, x.ip, x.method, counters[<<x.ip, x.method>>])
  PROVE  LET redis == RedisScript(x.ip, x.method)
         IN  /\ redis.counter \in [count : Nat, expires : Nat]
             /\ redis.limited =>
                    /\ RedisOK(admitted, now, x.ip, x.method, redis.counter)
                    /\ \E start \in 0 .. now :
                            /\ now <= start + Duration
                            /\ Cardinality(From(admitted, x.ip, x.method, {"counted", "open"}, start)) >= TotalLimit(x.method)
             /\ x.kind = "counted" /\ ~redis.limited => RedisOK(admitted \cup {x}, now, x.ip, x.method, redis.counter)
             /\ x.kind = "open" => RedisOK(admitted \cup {x}, now, x.ip, x.method, redis.counter)
  <1> DEFINE ip == x.ip
             method == x.method
             counter == counters[<<ip, method>>]
             live == IF counter.expires > now THEN counter ELSE NoCount
             next == [count |-> live.count + 1, expires |-> IF live.count = 0 THEN now + Duration ELSE live.expires]
             redis == RedisScript(ip, method)
             limit == TotalLimit(method)
             start == next.expires - Duration
  <1>1. now \in Nat /\ Duration \in Nat \ {0} /\ limit \in Nat \ {0} /\ counter.count \in Nat /\ counter.expires \in Nat
    BY LimitType, ServerAssumption DEF Admits
  <1>2. redis.counter = next /\ (redis.limited <=> next.count > limit)
    BY DEF RedisScript
  <1>3. live.count \in Nat /\ live.expires \in Nat /\ (live.count # 0 => live = counter /\ now < counter.expires)
    BY <1>1 DEF NoCount
  <1> HIDE DEF counter, live, redis, limit
  <1>4. next \in [count : Nat, expires : Nat] /\ next.count = live.count + 1 /\ next.count # 0
    BY <1>1, <1>3
  <1>5. /\ Window(admitted, now, ip, method, start, next.expires, live.count)
        /\ now < next.expires /\ now <= start + Duration /\ start \in 0 .. now
    <2>1. CASE live.count = 0
      <3>1. next.expires = now + Duration /\ start = now /\ now + Duration \in Nat
        BY <1>1, <2>1
      <3>2. CASE counter.count = 0
        <4>1. Counted(admitted, ip, method) = {}
          BY <3>2 DEF RedisOK, counter
        <4>2. now \in 0 .. now
          BY <1>1
        <4>3. Window(admitted, now, ip, method, now, now + Duration, 0)
          BY <3>1, <4>1, <4>2, WindowOpens
        <4> QED
          BY <1>1, <2>1, <3>1, <4>3
      <3>3. CASE counter.count # 0
        <4>1. Window(admitted, now, ip, method, counter.expires - Duration, counter.expires, counter.count)
          BY <3>3 DEF RedisOK, counter
        <4>2. counter.expires <= now
          BY <1>1, <2>1, <3>3 DEF live
        <4>3. Window(admitted, now, ip, method, now, now + Duration, 0)
          BY <3>1, <4>1, <4>2, WindowReopens
        <4> QED
          BY <1>1, <2>1, <3>1, <4>3
      <3> QED
        BY <3>2, <3>3
    <2>2. CASE live.count # 0
      <3>1. live = counter /\ now < counter.expires /\ next.expires = counter.expires /\ counter.count # 0
        BY <1>3, <2>2
      <3>2. Window(admitted, now, ip, method, counter.expires - Duration, counter.expires, counter.count)
        BY <3>1 DEF RedisOK, counter
      <3>3. counter.expires - Duration \in 0 .. now
        BY <3>2 DEF Window
      <3> QED
        BY <1>1, <3>1, <3>2, <3>3
    <2> QED
      BY <2>1, <2>2
  <1> HIDE DEF next, start
  <1>6. redis.limited =>
            /\ RedisOK(admitted, now, ip, method, next)
            /\ Cardinality(From(admitted, ip, method, {"counted", "open"}, start)) >= TotalLimit(method)
    <2> HAVE redis.limited
    <2>1. live.count >= TotalLimit(method)
      BY <1>1, <1>2, <1>3, <1>4 DEF limit
    <2>2. /\ Window(admitted, now, ip, method, start, next.expires, next.count)
          /\ Cardinality(From(admitted, ip, method, {"counted", "open"}, start)) >= TotalLimit(method)
      BY <1>4, <1>5, <2>1, WindowOverflows
    <2> QED
      BY <1>4, <2>2 DEF RedisOK, start
  <1>7. x.kind = "counted" /\ ~redis.limited => RedisOK(admitted \cup {x}, now, ip, method, next)
    <2> HAVE x.kind = "counted" /\ ~redis.limited
    <2>1. live.count < TotalLimit(method)
      BY <1>1, <1>2, <1>3, <1>4 DEF limit
    <2>2. Window(admitted \cup {x}, now, ip, method, start, next.expires, next.count)
      BY <1>4, <1>5, <2>1, WindowCounts
    <2> QED
      BY <1>4, <2>2 DEF RedisOK, start
  <1>8. x.kind = "open" => RedisOK(admitted \cup {x}, now, ip, method, next)
    <2> HAVE x.kind = "open"
    <2>1. Window(admitted \cup {x}, now, ip, method, start, next.expires, next.count)
      BY <1>4, <1>5, WindowFails
    <2> QED
      BY <1>4, <2>1 DEF RedisOK, start
  <1> QED
    BY <1>2, <1>4, <1>5, <1>6, <1>7, <1>8 DEF redis

(* A request of another address or method, or one that the store did not count, leaves a counter right. *)
LEMMA CounterOfOthers ==
  ASSUME NEW A, NEW t, Admits(A, t), NEW x, x \notin A, x.time = t,
         NEW ip, NEW method, x.ip # ip \/ x.method # method \/ x.kind = "open",
         NEW counter, RedisOK(A, t, ip, method, counter)
  PROVE  RedisOK(A \cup {x}, t, ip, method, counter)
  <1>1. CASE x.ip # ip \/ x.method # method
    BY <1>1, WindowOfOthers DEF RedisOK
  <1>2. CASE x.ip = ip /\ x.method = method
    <2>1. Counted(A \cup {x}, ip, method) = Counted(A, ip, method)
      BY <1>2, NoneMore DEF Counted
    <2> QED
      BY <1>2, <2>1, WindowFails DEF RedisOK
  <1> QED
    BY <1>1, <1>2

-----------------------------------------------------------------------------
(* Admissions.                                                             *)

LEMMA AdmitsNow ==
  ASSUME TypeOK, NumberInv
  PROVE  Admits(admitted, now)
  BY ServerAssumption DEF TypeOK, NumberInv, Admits

(* The next admission is a new one, and keeps the numbers right. *)
LEMMA Fresh ==
  ASSUME TypeOK, NumberInv, NEW ip \in Addresses, NEW method \in Methods, NEW kind \in {"counted", "open"}
  PROVE  LET x == Admission(ip, method, kind)
         IN  /\ x \in [ip : Addresses, method : Methods, kind : {"counted", "open"}, time : 0 .. now, n : Nat]
             /\ x.ip = ip /\ x.method = method /\ x.kind = kind /\ x.time = now
             /\ x \notin admitted
             /\ IsFiniteSet(admitted \cup {x})
             /\ \A a \in admitted \cup {x} : a.n <= Cardinality(Alike(admitted \cup {x}, a))
  <1> DEFINE x == Admission(ip, method, kind)
             alike == {a \in Admissions(ip, method, {kind}) : a.time = now}
             count == Cardinality(alike)
  <1>1. /\ x.ip = ip /\ x.method = method /\ x.kind = kind /\ x.time = now /\ x.n = count + 1
        /\ x = [ip |-> ip, method |-> method, kind |-> kind, time |-> now, n |-> count + 1]
    BY DEF Admission
  <1>2. alike = Alike(admitted, x)
    BY <1>1 DEF Alike, Of, Admissions
  <1>3. IsFiniteSet(admitted) /\ now \in Nat
    BY ServerAssumption DEF NumberInv, TypeOK
  <1>4. IsFiniteSet(alike) /\ count \in Nat
    <2>1. alike \in SUBSET admitted
      BY DEF Admissions
    <2> QED
      BY <1>3, <2>1, Finite
  <1> HIDE DEF x, alike
  <1>5. x \notin admitted
    <2> SUFFICES ASSUME x \in admitted
                 PROVE  FALSE
      OBVIOUS
    <2>1. count + 1 <= count
      BY <1>1, <1>2 DEF NumberInv
    <2> QED
      BY <1>4, <2>1
  <1>6. ASSUME NEW a \in admitted
        PROVE  a.n <= Cardinality(Alike(admitted \cup {x}, a))
    <2>1. Alike(admitted, a) \in SUBSET Alike(admitted \cup {x}, a)
      BY DEF Alike, Of
    <2>2. IsFiniteSet(admitted \cup {x}) /\ Alike(admitted \cup {x}, a) \in SUBSET (admitted \cup {x})
      BY <1>3, FS_AddElement DEF Alike, Of
    <2>3. IsFiniteSet(Alike(admitted \cup {x}, a)) /\ Cardinality(Alike(admitted \cup {x}, a)) \in Nat
      BY <2>2, Finite
    <2>4. /\ Cardinality(Alike(admitted, a)) <= Cardinality(Alike(admitted \cup {x}, a))
          /\ IsFiniteSet(Alike(admitted, a))
      BY <2>1, <2>3, FS_Subset
    <2>5. Cardinality(Alike(admitted, a)) \in Nat
      BY <2>4, FS_CardinalityType
    <2>6. a.n <= Cardinality(Alike(admitted, a)) /\ a.n \in Nat
      BY DEF NumberInv, TypeOK
    <2> QED
      BY <2>3, <2>4, <2>5, <2>6
  <1>7. x.n <= Cardinality(Alike(admitted \cup {x}, x))
    <2>1. Alike(admitted \cup {x}, x) = alike \cup {x} /\ x \notin alike
      BY <1>2, <1>5 DEF Alike, Of
    <2>2. Cardinality(alike \cup {x}) = count + 1
      BY <1>4, <2>1, FS_AddElement
    <2> QED
      BY <1>1, <1>4, <2>1, <2>2
  <1>8. x \in [ip : Addresses, method : Methods, kind : {"counted", "open"}, time : 0 .. now, n : Nat]
    BY <1>1, <1>3, <1>4
  <1>9. IsFiniteSet(admitted \cup {x})
    BY <1>3, FS_AddElement
  <1> QED
    BY <1>1, <1>5, <1>6, <1>7, <1>8, <1>9 DEF x

(* What was let through since a time within the last Duration was let through recently. *)
LEMMA RecentCounts ==
  ASSUME TypeOK, NumberInv, NEW ip, NEW method, NEW kinds
  PROVE  /\ Recent(ip, method, kinds) \in Nat
         /\ \A start \in 0 .. now : now <= start + Duration =>
                Cardinality(From(admitted, ip, method, kinds, start)) <= Recent(ip, method, kinds)
  <1> DEFINE recent == {a \in Admissions(ip, method, kinds) : a.time + Duration >= now}
  <1>1. recent \in SUBSET admitted /\ IsFiniteSet(admitted)
    BY DEF Admissions, NumberInv
  <1>2. IsFiniteSet(recent) /\ Cardinality(recent) \in Nat
    BY <1>1, Finite
  <1>3. ASSUME NEW start \in 0 .. now, now <= start + Duration
        PROVE  From(admitted, ip, method, kinds, start) \in SUBSET recent
    <2>1. now \in Nat /\ Duration \in Nat /\ \A a \in admitted : a.time \in Nat
      BY ServerAssumption DEF TypeOK
    <2> QED
      BY <1>3, <2>1 DEF From, Of, Admissions
  <1> QED
    BY <1>2, <1>3, FS_Subset DEF Recent

-----------------------------------------------------------------------------
(* Requests and their answers.                                             *)

Requests ==
    [pc : {"idle", "open", "replied"}, ip : Addresses \cup {"none"}, query : Incoming \cup {NoRequest},
     answers : Seq(Answers), executed : SUBSET Nat]

(* The codes of answers. *)
Codes == Outcomes \cup {-32600, -32007, -32605}

LEMMA CodeType ==
  ASSUME NEW code \in Codes
  PROVE  code \in Int /\ (code \in {0, 3} \/ code < 0)
  <1>1. CASE code \in Outcomes
    BY <1>1, ServerAssumption
  <1>2. CASE code \in {-32600, -32007, -32605}
    BY <1>2
  <1> QED
    BY <1>1, <1>2 DEF Codes

(* An answer is rejected only for an id that cannot be answered, and is none of the marks of an item under way. *)
LEMMA JsonRespIsFinal ==
  ASSUME NEW code \in Codes, NEW id
  PROVE  /\ JsonResp(id, code) \notin Pending
         /\ JsonResp(id, code) = Rejected <=> id = "object"
         /\ id # "object" => JsonResp(id, code).id = id /\ JsonResp(id, code).code = code
  <1>1. CASE id = "object"
    BY <1>1 DEF JsonResp, Rejected, Pending, ToCheck, Running
  <1>2. CASE id # "object"
    <2>1. JsonResp(id, code) = [id |-> id, code |-> code]
      BY <1>2 DEF JsonResp
    <2>2. code \notin {1, 2, 4}
      BY CodeType
    <2> QED
      BY <1>2, <2>1, <2>2 DEF Rejected, Pending, ToCheck, Running
  <1> QED
    BY <1>1, <1>2

LEMMA AnswerTypes ==
  ASSUME NEW item \in Items, NEW code \in Codes
  PROVE  /\ JsonResp(IdOf(item), code) \in Answers /\ JsonResp("null", code) \in Answers
         /\ {ToCheck, Running} \subseteq Answers
  <1>1. code \in Int
    BY CodeType
  <1> QED
    BY <1>1 DEF JsonResp, IdOf, Answers, ToCheck, Running, Rejected

(* An item under way has an id and has not been executed. *)
LEMMA UnderWay ==
  ASSUME NEW item, NEW answer, answer \in Pending, NEW i, NEW executed, AnswerOK(item, answer, i \in executed)
  PROVE  HasValidJsonRpcId(item) /\ i \notin executed
  <1>1. \A id, code : code \in Codes => JsonResp(id, code) # answer
    BY JsonRespIsFinal
  <1>2. \A id : /\ \A code \in Outcomes : JsonResp(id, code) # answer
                /\ \A code \in {-32600, -32007, -32605} : JsonResp(id, code) # answer
    BY <1>1 DEF Codes
  <1> QED
    BY <1>2 DEF AnswerOK

(* The first look at an item. *)
LEMMA ScreenOK ==
  ASSUME NEW item \in Items, NEW batch \in BOOLEAN
  PROVE  Screen(item, batch) \in Answers /\ AnswerOK(item, Screen(item, batch), FALSE)
  <1>1. /\ JsonResp("null", -32600) \in Answers /\ JsonResp(IdOf(item), -32600) \in Answers
        /\ JsonResp(IdOf(item), -32007) \in Answers /\ ToCheck \in Answers
    BY AnswerTypes DEF Codes
  <1>2. ToCheck \in Pending
    BY DEF Pending
  <1> QED
    BY <1>1, <1>2 DEF Screen, AnswerOK

(* One request changes. *)
LEMMA OneRequest ==
  ASSUME http \in [Slots -> Requests], RequestInv, NEW r \in Slots, NEW h \in Requests, RequestOK(h),
         http' = [http EXCEPT ![r] = h]
  PROVE  http' \in [Slots -> Requests] /\ RequestInv'
  <1>1. http' \in [Slots -> Requests]
    OBVIOUS
  <1>2. \A s \in Slots : http'[s] = IF s = r THEN h ELSE http[s]
    OBVIOUS
  <1> QED
    BY <1>1, <1>2 DEF RequestInv

LEMMA IdleOK ==
  Idle \in Requests /\ RequestOK(Idle)
  <1>1. <<>> \in Seq(Answers)
    OBVIOUS
  <1> QED
    BY <1>1 DEF Idle, Requests, RequestOK

(* One answer of a request changes. *)
LEMMA OneAnswer ==
  ASSUME NEW h, RequestOK(h), h.pc # "idle", NEW i \in DOMAIN h.answers,
         NEW g, g.pc # "idle", g.query = h.query, g.ip = h.ip, DOMAIN g.answers = DOMAIN h.answers,
         \A j \in DOMAIN h.answers : j # i => g.answers[j] = h.answers[j] /\ (j \in g.executed <=> j \in h.executed),
         AnswerOK(h.query.items[i], g.answers[i], i \in g.executed)
  PROVE  RequestOK(g)
  <1>1. \A j \in DOMAIN g.answers : AnswerOK(g.query.items[j], g.answers[j], j \in g.executed)
    <2> SUFFICES ASSUME NEW j \in DOMAIN g.answers
                 PROVE  AnswerOK(g.query.items[j], g.answers[j], j \in g.executed)
      OBVIOUS
    <2>1. CASE j = i
      BY <2>1
    <2>2. CASE j # i
      <3>1. AnswerOK(h.query.items[j], h.answers[j], j \in h.executed)
        BY DEF RequestOK
      <3>2. g.answers[j] = h.answers[j] /\ (j \in g.executed <=> j \in h.executed)
        BY <2>2
      <3> QED
        BY <3>1, <3>2 DEF AnswerOK
    <2> QED
      BY <2>1, <2>2
  <1> QED
    BY <1>1 DEF RequestOK

(* What is known of an item whose request is being handled. *)
LEMMA ItemKnown ==
  ASSUME http \in [Slots -> Requests], RequestInv, NEW r \in Slots, NEW i \in DOMAIN http[r].answers
  PROVE  /\ http[r].pc # "idle" /\ http[r].query \in Incoming /\ http[r].ip \in Addresses
         /\ i \in DOMAIN http[r].query.items /\ http[r].query.items[i] \in Items
         /\ http[r].query.items[i].method \in Methods
         /\ i \in Nat /\ http[r].answers \in Seq(Answers)
         /\ AnswerOK(http[r].query.items[i], http[r].answers[i], i \in http[r].executed)
  <1>1. http[r] \in Requests /\ RequestOK(http[r])
    BY DEF RequestInv
  <1>2. http[r].answers \in Seq(Answers) /\ i \in Nat
    BY <1>1 DEF Requests
  <1>3. http[r].pc # "idle"
    <2>1. DOMAIN <<>> = {}
      OBVIOUS
    <2> QED
      BY <1>1, <2>1 DEF RequestOK
  <1>4. /\ http[r].query \in Incoming /\ http[r].ip \in Addresses /\ i \in DOMAIN http[r].query.items
        /\ AnswerOK(http[r].query.items[i], http[r].answers[i], i \in http[r].executed)
    BY <1>1, <1>3 DEF RequestOK
  <1>5. http[r].query.items \in Seq(Items)
    BY <1>4, ServerAssumption
  <1>6. http[r].query.items[i] \in Items
    BY <1>4, <1>5
  <1> QED
    BY <1>2, <1>3, <1>4, <1>6 DEF Methods

(* A request is taken on. *)
LEMMA ReceiveRequests ==
  ASSUME http \in [Slots -> Requests], RequestInv, NEW r \in Slots, NEW q \in Incoming, Receive(r, q)
  PROVE  http' \in [Slots -> Requests] /\ RequestInv'
  <1> DEFINE h == [pc |-> "open", ip |-> ClientIp(q), query |-> q, executed |-> {},
                   answers |-> [i \in DOMAIN q.items |-> Screen(q.items[i], q.body = "batch")]]
  <1>1. PICK healthy \in BOOLEAN :
            http' = [http EXCEPT ![r] = IF WholeResponse(q, healthy).status # 0 THEN Idle ELSE h]
    BY DEF Receive
  <1>2. q.items \in Seq(Items) /\ q.peer \in Addresses /\ q.xff \in Addresses \cup {"none"}
        /\ q.forwarded.ip \in Addresses \cup {"none"}
    BY ServerAssumption
  <1>3. ClientIp(q) \in Addresses
    BY <1>2 DEF ClientIp, ParseForwardedHeader
  <1>4. \A i \in DOMAIN q.items : /\ Screen(q.items[i], q.body = "batch") \in Answers
                                  /\ AnswerOK(q.items[i], Screen(q.items[i], q.body = "batch"), FALSE)
    <2> SUFFICES ASSUME NEW i \in DOMAIN q.items
                 PROVE  /\ Screen(q.items[i], q.body = "batch") \in Answers
                        /\ AnswerOK(q.items[i], Screen(q.items[i], q.body = "batch"), FALSE)
      OBVIOUS
    <2>1. q.items[i] \in Items
      BY <1>2
    <2> QED
      BY <2>1, ScreenOK
  <1>5. h.answers \in Seq(Answers) /\ DOMAIN h.answers = DOMAIN q.items
    <2>1. DOMAIN q.items = 1 .. Len(q.items) /\ Len(q.items) \in Nat
      BY <1>2
    <2>2. h.answers \in [1 .. Len(q.items) -> Answers]
      BY <1>4, <2>1
    <2> QED
      BY <2>1, <2>2
  <1>6. h \in Requests
    BY <1>3, <1>5 DEF Requests
  <1>7. RequestOK(h)
    <2>1. \A i \in DOMAIN h.answers : h.answers[i] = Screen(q.items[i], q.body = "batch") /\ i \notin h.executed
      BY <1>5
    <2>2. \A i \in DOMAIN h.answers : AnswerOK(h.query.items[i], h.answers[i], i \in h.executed)
      BY <1>4, <1>5, <2>1 DEF AnswerOK
    <2>3. h.pc = "open" /\ h.query = q /\ h.ip = ClientIp(q)
      OBVIOUS
    <2> HIDE DEF h
    <2> QED
      BY <1>3, <1>5, <2>2, <2>3 DEF RequestOK
  <1> HIDE DEF h
  <1>8. http' = [http EXCEPT ![r] = Idle] \/ http' = [http EXCEPT ![r] = h]
    BY <1>1
  <1> QED
    BY <1>6, <1>7, <1>8, IdleOK, OneRequest

(* An item is let through or refused. *)
LEMMA DecideRequests ==
  ASSUME http \in [Slots -> Requests], RequestInv, NEW r \in Slots, NEW i \in DOMAIN http[r].answers,
         http[r].answers[i] = ToCheck, NEW limited \in BOOLEAN, NEW kind, Decide(r, i, limited, kind)
  PROVE  http' \in [Slots -> Requests] /\ RequestInv'
  <1> DEFINE item == http[r].query.items[i]
             answer == IF limited THEN JsonResp(IdOf(item), -32605) ELSE Running
             g == [http[r] EXCEPT !.answers[i] = answer]
  <1>1. http[r] \in Requests /\ RequestOK(http[r])
    BY DEF RequestInv
  <1>2. item \in Items /\ http[r].pc # "idle" /\ AnswerOK(item, http[r].answers[i], i \in http[r].executed)
        /\ http[r].answers \in Seq(Answers)
    BY ItemKnown
  <1>3. HasValidJsonRpcId(item) /\ i \notin http[r].executed
    <2>1. http[r].answers[i] \in Pending
      BY DEF Pending
    <2> HIDE DEF item
    <2> QED
      BY <1>2, <2>1, UnderWay
  <1>4. answer \in Answers /\ AnswerOK(item, answer, FALSE)
    <2>1. -32605 \in Codes /\ Running \in Pending
      BY DEF Codes, Pending
    <2>2. JsonResp(IdOf(item), -32605) \in Answers /\ Running \in Answers
      BY <1>2, <2>1, AnswerTypes
    <2> HIDE DEF item
    <2> QED
      BY <1>3, <2>1, <2>2 DEF AnswerOK
  <1>5. http' = [http EXCEPT ![r] = g]
    BY DEF Decide
  <1> HIDE DEF answer, item
  <1>6. /\ g.pc = http[r].pc /\ g.query = http[r].query /\ g.ip = http[r].ip /\ g.executed = http[r].executed
        /\ g.answers = [http[r].answers EXCEPT ![i] = answer]
    BY <1>1 DEF Requests
  <1>7. /\ g.answers \in Seq(Answers) /\ DOMAIN g.answers = DOMAIN http[r].answers /\ g.answers[i] = answer
        /\ \A j \in DOMAIN http[r].answers : j # i => g.answers[j] = http[r].answers[j]
    BY <1>2, <1>4, <1>6
  <1>8. g \in Requests
    BY <1>1, <1>7 DEF Requests
  <1> HIDE DEF g
  <1>9. RequestOK(g)
    <2>1. AnswerOK(http[r].query.items[i], g.answers[i], i \in g.executed)
      BY <1>3, <1>4, <1>6, <1>7 DEF AnswerOK, item
    <2> QED
      BY <1>1, <1>2, <1>6, <1>7, <2>1, OneAnswer
  <1> QED
    BY <1>5, <1>8, <1>9, OneRequest

(* An item is executed. *)
LEMMA ExecuteRequests ==
  ASSUME http \in [Slots -> Requests], RequestInv, NEW r \in Slots, NEW i \in DOMAIN http[r].answers,
         NEW code \in Outcomes, Execute(r, i, code)
  PROVE  http' \in [Slots -> Requests] /\ RequestInv'
  <1> DEFINE item == http[r].query.items[i]
             answer == JsonResp(IdOf(item), code)
             g == [http[r] EXCEPT !.answers[i] = answer, !.executed = @ \cup {i}]
  <1>1. http[r] \in Requests /\ RequestOK(http[r]) /\ http[r].answers[i] = Running
    BY DEF RequestInv, Execute
  <1>2. item \in Items /\ http[r].pc # "idle" /\ AnswerOK(item, http[r].answers[i], i \in http[r].executed)
        /\ http[r].answers \in Seq(Answers) /\ i \in Nat
    BY ItemKnown
  <1>3. HasValidJsonRpcId(item)
    <2>1. http[r].answers[i] \in Pending
      BY <1>1 DEF Pending
    <2> HIDE DEF item
    <2> QED
      BY <1>2, <2>1, UnderWay
  <1>4. answer \in Answers /\ AnswerOK(item, answer, TRUE)
    <2>1. answer \in Answers
      BY <1>2, AnswerTypes DEF Codes
    <2> HIDE DEF item
    <2> QED
      BY <1>3, <2>1 DEF AnswerOK
  <1>5. http' = [http EXCEPT ![r] = g] \/ http' = [http EXCEPT ![r] = Idle]
    BY DEF Execute
  <1> HIDE DEF answer, item
  <1>6. /\ g.pc = http[r].pc /\ g.query = http[r].query /\ g.ip = http[r].ip /\ g.executed = http[r].executed \cup {i}
        /\ g.answers = [http[r].answers EXCEPT ![i] = answer]
    BY <1>1 DEF Requests
  <1>7. /\ g.answers \in Seq(Answers) /\ DOMAIN g.answers = DOMAIN http[r].answers /\ g.answers[i] = answer
        /\ \A j \in DOMAIN http[r].answers : j # i => g.answers[j] = http[r].answers[j]
    BY <1>2, <1>4, <1>6
  <1>8. g \in Requests
    BY <1>1, <1>2, <1>7 DEF Requests
  <1> HIDE DEF g
  <1>9. RequestOK(g)
    <2>1. AnswerOK(http[r].query.items[i], g.answers[i], i \in g.executed)
      BY <1>4, <1>6, <1>7 DEF AnswerOK, item
    <2> QED
      BY <1>1, <1>2, <1>6, <1>7, <2>1, OneAnswer
  <1> QED
    BY <1>5, <1>8, <1>9, IdleOK, OneRequest

(* A response is sent. *)
LEMMA ReplyRequests ==
  ASSUME http \in [Slots -> Requests], RequestInv, NEW r \in Slots, Reply(r)
  PROVE  http' \in [Slots -> Requests] /\ RequestInv'
  <1> DEFINE g == [http[r] EXCEPT !.pc = "replied"]
  <1>1. http[r] \in Requests /\ RequestOK(http[r]) /\ http[r].pc = "open"
    BY DEF RequestInv, Reply
  <1>2. http' = [http EXCEPT ![r] = Idle] \/ http' = [http EXCEPT ![r] = g]
    BY DEF Reply
  <1>3. g \in Requests /\ RequestOK(g)
    BY <1>1 DEF Requests, RequestOK
  <1> QED
    BY <1>2, <1>3, IdleOK, OneRequest

-----------------------------------------------------------------------------
(* The steps.                                                              *)

StoreType ==
    /\ store \in {"lru", "redis"} /\ now \in 0 .. MaxTime /\ received \in 0 .. MaxRequests
    /\ DOMAIN database = Addresses
    /\ \A a \in Addresses : IsEntry(database[a])
    /\ members \in [Inherited -> Nat]
    /\ counters \in [Addresses \X Methods -> [count : Nat, expires : Nat]]
    /\ admitted \subseteq [ip : Addresses, method : Methods, kind : {"counted", "open"}, time : 0 .. now, n : Nat]
    /\ refused \subseteq [method : Methods, recent : Nat]

LEMMA TypeParts ==
  TypeOK <=> StoreType /\ http \in [Slots -> Requests]
  BY DEF TypeOK, StoreType, Requests, IsEntry

LEMMA TypePartsNext ==
  StoreType' /\ http' \in [Slots -> Requests] => TypeOK'
  BY DEF TypeOK, StoreType, Requests, IsEntry

(* Steps that leave the stores alone. *)
LEMMA StoresKept ==
  ASSUME StoreType, NumberInv, WindowInv, RefusedHasCause, received' \in 0 .. MaxRequests,
         UNCHANGED <<store, now, database, members, counters, admitted, refused>>
  PROVE  StoreType' /\ NumberInv' /\ WindowInv' /\ RefusedHasCause'
  <1>1. StoreType'
    BY DEF StoreType
  <1>2. NumberInv' /\ RefusedHasCause'
    BY DEF NumberInv, RefusedHasCause, Overlooked
  <1>3. WindowInv'
    BY DEF WindowInv
  <1> QED
    BY <1>1, <1>2, <1>3

(* Time passes in the stores. *)
LEMMA TickStores ==
  ASSUME StoreType, NumberInv, WindowInv, RefusedHasCause, Tick
  PROVE  StoreType' /\ NumberInv' /\ WindowInv' /\ RefusedHasCause'
  <1>1. /\ now' = now + 1 /\ now' \in 0 .. MaxTime /\ now \in Nat /\ now' \in Nat /\ now <= now'
        /\ UNCHANGED <<store, database, members, counters, received, admitted, refused>>
    BY ServerAssumption DEF Tick, StoreType
  <1>2. StoreType'
    <2>1. 0 .. now \subseteq 0 .. now'
      BY <1>1
    <2>2. admitted' \subseteq [ip : Addresses, method : Methods, kind : {"counted", "open"}, time : 0 .. now', n : Nat]
      BY <1>1, <2>1 DEF StoreType
    <2> QED
      BY <1>1, <2>2 DEF StoreType
  <1>3. NumberInv' /\ RefusedHasCause'
    BY <1>1 DEF NumberInv, RefusedHasCause, Overlooked
  <1>4. \A ip, method, start, end, used :
            Window(admitted, now, ip, method, start, end, used) => Window(admitted, now', ip, method, start, end, used)
    BY <1>1, WindowLasts
  <1>5. ASSUME store = "lru", NEW ip \in Addresses
        PROVE  LruOK(admitted, now', ip, database[ip])
    <2>1. LruOK(admitted, now, ip, database[ip])
      BY <1>5 DEF WindowInv
    <2>2. \A method \in Own : LruMethodOK(admitted, now', ip, database[ip], method)
      BY <1>4, <2>1 DEF LruOK, LruMethodOK
    <2>3. database[ip] = NoEntry \/ database[ip].reset - Duration \in 0 .. now'
      BY <1>1, <2>1 DEF LruOK
    <2> QED
      BY <2>2, <2>3 DEF LruOK
  <1>6. ASSUME store = "redis", NEW ip \in Addresses, NEW method \in Methods
        PROVE  RedisOK(admitted, now', ip, method, counters[<<ip, method>>])
    BY <1>4, <1>6 DEF WindowInv, RedisOK
  <1>7. WindowInv'
    BY <1>1, <1>5, <1>6 DEF WindowInv
  <1> QED
    BY <1>2, <1>3, <1>7

(* The address was let through the limit of the method since a time within the last Duration. *)
Caused(ip, method) ==
    \E start \in 0 .. now : /\ now <= start + Duration
                            /\ Cardinality(From(admitted, ip, method, {"counted", "open"}, start)) >= TotalLimit(method)

(* A refusal has a cause, and an admission is numbered. *)
LEMMA DecideStores ==
  ASSUME TypeOK, NumberInv, RefusedHasCause, RequestInv, NEW r \in Slots, NEW i \in DOMAIN http[r].answers,
         NEW limited \in BOOLEAN, NEW kind \in {"counted", "open"}, Decide(r, i, limited, kind), UNCHANGED <<now, store>>,
         limited => \/ Caused(http[r].ip, http[r].query.items[i].method)
                    \/ Overlooked(http[r].query.items[i].method)
  PROVE  /\ admitted' \subseteq [ip : Addresses, method : Methods, kind : {"counted", "open"}, time : 0 .. now', n : Nat]
         /\ refused' \subseteq [method : Methods, recent : Nat]
         /\ NumberInv' /\ RefusedHasCause'
         /\ admitted' = IF limited THEN admitted
                        ELSE admitted \cup {Admission(http[r].ip, http[r].query.items[i].method, kind)}
  <1> DEFINE ip == http[r].ip
             method == http[r].query.items[i].method
             x == Admission(ip, method, kind)
             refusal == [method |-> method, recent |-> Recent(ip, method, {"counted", "open"})]
  <1>0. ip \in Addresses /\ method \in Methods
    BY TypeParts, ItemKnown
  <1>1. /\ admitted' = IF limited THEN admitted ELSE admitted \cup {x}
        /\ refused' = IF limited THEN refused \cup {refusal} ELSE refused
    BY DEF Decide
  <1> HIDE DEF ip, method
  <1>2. /\ x \in [ip : Addresses, method : Methods, kind : {"counted", "open"}, time : 0 .. now, n : Nat]
        /\ IsFiniteSet(admitted \cup {x})
        /\ \A a \in admitted \cup {x} : a.n <= Cardinality(Alike(admitted \cup {x}, a))
    BY <1>0, Fresh
  <1>2a. refusal \in [method : Methods, recent : Nat]
    BY <1>0, RecentCounts
  <1>3. limited => Overlooked(refusal.method) \/ refusal.recent >= TotalLimit(refusal.method)
    <2> SUFFICES ASSUME limited, ~Overlooked(method)
                 PROVE  Recent(ip, method, {"counted", "open"}) >= TotalLimit(method)
      OBVIOUS
    <2>1. PICK start \in 0 .. now : /\ now <= start + Duration
                                    /\ Cardinality(From(admitted, ip, method, {"counted", "open"}, start)) >= TotalLimit(method)
      BY DEF Caused, ip, method
    <2>2. /\ Recent(ip, method, {"counted", "open"}) \in Nat
          /\ Cardinality(From(admitted, ip, method, {"counted", "open"}, start)) <= Recent(ip, method, {"counted", "open"})
      BY <2>1, RecentCounts
    <2>3. Cardinality(From(admitted, ip, method, {"counted", "open"}, start)) \in Nat /\ TotalLimit(method) \in Nat
      BY AdmitsNow, FiniteSets, LimitType
    <2>4. Recent(ip, method, {"counted", "open"}) >= TotalLimit(method)
      BY <2>1, <2>2, <2>3
    <2> QED
      BY <2>4
  <1> HIDE DEF x, refusal
  <1>4. /\ admitted' \subseteq [ip : Addresses, method : Methods, kind : {"counted", "open"}, time : 0 .. now', n : Nat]
        /\ refused' \subseteq [method : Methods, recent : Nat]
    BY <1>1, <1>2, <1>2a DEF TypeOK
  <1>5. NumberInv'
    BY <1>1, <1>2 DEF NumberInv
  <1>6. RefusedHasCause'
    BY <1>1, <1>3 DEF RefusedHasCause, Overlooked
  <1> QED
    BY <1>1, <1>4, <1>5, <1>6 DEF ip, method, x

(* An item is checked against the limit. *)
LEMMA CheckLimitStores ==
  ASSUME TypeOK, NumberInv, WindowInv, RequestInv, RefusedHasCause, NEW r \in Slots, CheckLimit(r)
  PROVE  TypeOK' /\ NumberInv' /\ WindowInv' /\ RequestInv' /\ RefusedHasCause'
  <1>1. PICK i \in DOMAIN http[r].answers :
            LET ip == http[r].ip
                method == http[r].query.items[i].method
                lru == LruIncrementAndCheck(ip, method)
                redis == RedisScript(ip, method)
            IN  /\ http[r].answers[i] = ToCheck
                /\ \/ /\ store = "lru"
                      /\ database' = [database EXCEPT ![ip] = lru.entry] /\ members' = lru.members
                      /\ Decide(r, i, lru.limited, "counted")
                      /\ UNCHANGED counters
                   \/ /\ store = "redis"
                      /\ counters' = [counters EXCEPT ![<<ip, method>>] = redis.counter]
                      /\ \/ Decide(r, i, redis.limited, "counted")
                         \/ Decide(r, i, FALSE, "open")
                      /\ UNCHANGED <<database, members>>
                   \/ /\ Decide(r, i, FALSE, "open")
                      /\ UNCHANGED <<database, members, counters>>
                /\ UNCHANGED <<store, now, received>>
    BY DEF CheckLimit
  <1> DEFINE ip == http[r].ip
             method == http[r].query.items[i].method
             lru == LruIncrementAndCheck(ip, method)
             redis == RedisScript(ip, method)
             x(kind) == Admission(ip, method, kind)
  <1>2. StoreType /\ http \in [Slots -> Requests] /\ Admits(admitted, now)
    BY TypeParts, AdmitsNow
  <1>3. ip \in Addresses /\ method \in Methods
    BY <1>2, ItemKnown
  <1>4. ASSUME NEW kind \in {"counted", "open"}
        PROVE  x(kind).ip = ip /\ x(kind).method = method /\ x(kind).kind = kind /\ x(kind).time = now /\ x(kind) \notin admitted
    <2> HIDE DEF ip, method
    <2>1. x(kind) \notin admitted
      BY <1>3, <1>4, Fresh
    <2>2. x(kind).ip = ip /\ x(kind).method = method /\ x(kind).kind = kind /\ x(kind).time = now
      BY DEF Admission
    <2> QED
      BY <2>1, <2>2
  <1>5. UNCHANGED <<store, now, received>> /\ http[r].answers[i] = ToCheck
    BY <1>1
  <1>6. ASSUME NEW limited \in BOOLEAN, NEW kind \in {"counted", "open"}, Decide(r, i, limited, kind),
               limited => Caused(ip, method) \/ Overlooked(method), members' \in [Inherited -> Nat],
               DOMAIN database' = Addresses, \A a \in Addresses : IsEntry(database'[a]),
               counters' \in [Addresses \X Methods -> [count : Nat, expires : Nat]],
               WindowInv'
        PROVE  TypeOK' /\ NumberInv' /\ WindowInv' /\ RequestInv' /\ RefusedHasCause'
    <2>1. http' \in [Slots -> Requests] /\ RequestInv'
      BY <1>2, <1>5, <1>6, DecideRequests
    <2>2. /\ admitted' \subseteq [ip : Addresses, method : Methods, kind : {"counted", "open"}, time : 0 .. now', n : Nat]
          /\ refused' \subseteq [method : Methods, recent : Nat]
          /\ NumberInv' /\ RefusedHasCause'
      BY <1>5, <1>6, DecideStores
    <2>3. StoreType'
      BY <1>2, <1>5, <1>6, <2>2 DEF StoreType
    <2> QED
      BY <1>6, <2>1, <2>2, <2>3, TypePartsNext
  <1>7. ASSUME NEW limited \in BOOLEAN, NEW kind \in {"counted", "open"}, Decide(r, i, limited, kind)
        PROVE  admitted' = IF limited THEN admitted ELSE admitted \cup {x(kind)}
    BY <1>7 DEF Decide
  <1>8. ASSUME store = "lru", database' = [database EXCEPT ![ip] = lru.entry], members' = lru.members, UNCHANGED counters,
               Decide(r, i, lru.limited, "counted")
        PROVE  TypeOK' /\ NumberInv' /\ WindowInv' /\ RequestInv' /\ RefusedHasCause'
    <2>1. lru.limited \in BOOLEAN
      BY DEF LruIncrementAndCheck
    <2> DEFINE y == x("counted")
    <2>2. y.ip = ip /\ y.method = method /\ y.kind = "counted" /\ y.time = now /\ y \notin admitted
      BY <1>4
    <2>3. IsEntry(database[ip]) /\ LruOK(admitted, now, ip, database[ip])
      BY <1>2, <1>3, <1>8 DEF StoreType, WindowInv
    <2> HIDE DEF y
    <2>4. /\ lru.limited => Begun(admitted, now, ip, lru.entry) /\ (Caused(ip, method) \/ Overlooked(method))
          /\ ~lru.limited => Begun(admitted \cup {y}, now, ip, lru.entry)
          /\ lru.members \in [Inherited -> Nat]
      <3>1. members \in [Inherited -> Nat]
        BY <1>2 DEF StoreType
      <3>2. CASE method \in Own
        BY <1>2, <2>2, <2>3, <3>1, <3>2, LruChecks DEF Caused
      <3>3. CASE method \in Inherited
        <4>1. Begun(admitted, now, ip, lru.entry) /\ lru.members \in [Inherited -> Nat]
          BY <1>2, <1>3, <2>3, <3>1, <3>3, InheritedChecks
        <4> HIDE DEF lru
        <4>2. Begun(admitted \cup {y}, now, ip, lru.entry)
          <5>1. LruOK(admitted, now, ip, lru.entry) /\ IsEntry(lru.entry) /\ lru.entry.reset - Duration \in 0 .. now
            BY <4>1 DEF Begun
          <5>2. y.method \notin Own
            BY <2>2, <3>3 DEF Own
          <5>3. LruOK(admitted \cup {y}, now, ip, lru.entry)
            BY <1>2, <2>2, <5>1, <5>2, EntryOfOthers
          <5> QED
            BY <5>1, <5>3 DEF Begun
        <4>3. Overlooked(method)
          BY <1>8, <3>3 DEF Overlooked
        <4> QED
          BY <4>1, <4>2, <4>3
      <3> QED
        BY <1>3, <3>2, <3>3 DEF Own
    <2> HIDE DEF lru
    <2>5. IsEntry(lru.entry)
      BY <2>1, <2>4 DEF Begun
    <2>6. /\ DOMAIN database' = Addresses
          /\ \A a \in Addresses : database'[a] = IF a = ip THEN lru.entry ELSE database[a]
      BY <1>2, <1>3, <1>8 DEF StoreType
    <2>7. \A a \in Addresses : IsEntry(database'[a])
      BY <1>2, <2>5, <2>6 DEF StoreType
    <2>8. \A a \in Addresses : LruOK(admitted', now, a, database'[a])
      <3> SUFFICES ASSUME NEW a \in Addresses
                   PROVE  LruOK(admitted', now, a, database'[a])
        OBVIOUS
      <3>1. admitted' = IF lru.limited THEN admitted ELSE admitted \cup {y}
        BY <1>7, <1>8, <2>1 DEF y
      <3>2. CASE a = ip
        BY <2>1, <2>4, <2>6, <3>1, <3>2 DEF Begun
      <3>3. CASE a # ip
        <4>1. LruOK(admitted, now, a, database[a])
          BY <1>8 DEF WindowInv
        <4> QED
          BY <1>2, <2>2, <2>6, <3>1, <3>3, <4>1, EntryOfOthers
      <3> QED
        BY <3>2, <3>3
    <2>9. WindowInv'
      BY <1>5, <1>8, <2>8 DEF WindowInv
    <2>10. counters' \in [Addresses \X Methods -> [count : Nat, expires : Nat]]
      BY <1>2, <1>8 DEF StoreType
    <2> QED
      BY <1>6, <1>8, <2>1, <2>4, <2>6, <2>7, <2>9, <2>10
  <1>9. ASSUME store = "redis", counters' = [counters EXCEPT ![<<ip, method>>] = redis.counter],
               UNCHANGED <<database, members>>,
               NEW limited \in BOOLEAN, NEW kind \in {"counted", "open"}, Decide(r, i, limited, kind),
               (kind = "counted" /\ limited = redis.limited) \/ (kind = "open" /\ ~limited)
        PROVE  TypeOK' /\ NumberInv' /\ WindowInv' /\ RequestInv' /\ RefusedHasCause'
    <2> DEFINE y == x(kind)
    <2>1. y.ip = ip /\ y.method = method /\ y.kind = kind /\ y.time = now /\ y \notin admitted
      BY <1>4
    <2>2. counters[<<ip, method>>] \in [count : Nat, expires : Nat] /\ RedisOK(admitted, now, ip, method, counters[<<ip, method>>])
      BY <1>2, <1>3, <1>9 DEF StoreType, WindowInv
    <2> HIDE DEF y
    <2>3. /\ redis.counter \in [count : Nat, expires : Nat]
          /\ redis.limited => RedisOK(admitted, now, ip, method, redis.counter) /\ Caused(ip, method)
          /\ kind = "counted" /\ ~redis.limited => RedisOK(admitted \cup {y}, now, ip, method, redis.counter)
          /\ kind = "open" => RedisOK(admitted \cup {y}, now, ip, method, redis.counter)
      BY <1>2, <2>1, <2>2, RedisChecks DEF Caused
    <2> HIDE DEF redis
    <2>4. /\ counters' \in [Addresses \X Methods -> [count : Nat, expires : Nat]]
          /\ \A a \in Addresses, m \in Methods :
                counters'[<<a, m>>] = IF a = ip /\ m = method THEN redis.counter ELSE counters[<<a, m>>]
      BY <1>2, <1>3, <1>9, <2>3 DEF StoreType
    <2>5. limited => RedisOK(admitted, now, ip, method, redis.counter) /\ Caused(ip, method)
      BY <1>9, <2>3
    <2>6. ~limited => RedisOK(admitted \cup {y}, now, ip, method, redis.counter)
      BY <1>9, <2>3
    <2>7. \A a \in Addresses, m \in Methods : RedisOK(admitted', now, a, m, counters'[<<a, m>>])
      <3> SUFFICES ASSUME NEW a \in Addresses, NEW m \in Methods
                   PROVE  RedisOK(admitted', now, a, m, counters'[<<a, m>>])
        OBVIOUS
      <3>1. admitted' = IF limited THEN admitted ELSE admitted \cup {y}
        BY <1>7, <1>9 DEF y
      <3>2. CASE a = ip /\ m = method
        BY <2>4, <2>5, <2>6, <3>1, <3>2
      <3>3. CASE a # ip \/ m # method
        <4>1. RedisOK(admitted, now, a, m, counters[<<a, m>>])
          BY <1>9 DEF WindowInv
        <4> QED
          BY <1>2, <2>1, <2>4, <3>1, <3>3, <4>1, CounterOfOthers
      <3> QED
        BY <3>2, <3>3
    <2>8. WindowInv'
      BY <1>5, <1>9, <2>7 DEF WindowInv
    <2>9. DOMAIN database' = Addresses /\ (\A a \in Addresses : IsEntry(database'[a])) /\ members' \in [Inherited -> Nat]
      BY <1>2, <1>9 DEF StoreType
    <2> QED
      BY <1>6, <1>9, <2>4, <2>5, <2>8, <2>9
  <1>10. ASSUME Decide(r, i, FALSE, "open"), UNCHANGED <<database, members, counters>>
         PROVE  TypeOK' /\ NumberInv' /\ WindowInv' /\ RequestInv' /\ RefusedHasCause'
    <2> DEFINE y == x("open")
    <2>1. y.ip = ip /\ y.method = method /\ y.kind = "open" /\ y.time = now /\ y \notin admitted
      BY <1>4
    <2>2. admitted' = admitted \cup {y}
      BY <1>7, <1>10
    <2> HIDE DEF y
    <2>3. store = "lru" => \A a \in Addresses : LruOK(admitted', now, a, database[a])
      BY <1>2, <2>1, <2>2, EntryOfOthers DEF WindowInv
    <2>4. store = "redis" => \A a \in Addresses, m \in Methods : RedisOK(admitted', now, a, m, counters[<<a, m>>])
      BY <1>2, <2>1, <2>2, CounterOfOthers DEF WindowInv
    <2>5. WindowInv'
      BY <1>5, <1>10, <2>3, <2>4 DEF WindowInv
    <2>6. /\ DOMAIN database' = Addresses /\ \A a \in Addresses : IsEntry(database'[a])
          /\ members' \in [Inherited -> Nat]
          /\ counters' \in [Addresses \X Methods -> [count : Nat, expires : Nat]]
      BY <1>2, <1>10 DEF StoreType
    <2> QED
      BY <1>6, <1>10, <2>5, <2>6
  <1>11. redis.limited \in BOOLEAN
    BY DEF RedisScript
  <1> HIDE DEF lru, redis, ip, method
  <1> QED
    BY <1>1, <1>8, <1>9, <1>10, <1>11 DEF lru, redis, ip, method

(* Every step of the server. *)
LEMMA NextIInv ==
  ASSUME IInv, [Next]_vars
  PROVE  IInv'
  <1> USE DEF IInv
  <1>0. StoreType /\ http \in [Slots -> Requests]
    BY TypeParts
  <1>1. ASSUME NEW r \in Slots, NEW q \in Incoming, Receive(r, q)
        PROVE  IInv'
    <2>1. received' \in 0 .. MaxRequests /\ UNCHANGED <<store, now, database, members, counters, admitted, refused>>
      <3>1. received \in 0 .. MaxRequests /\ received < MaxRequests /\ MaxRequests \in Nat
        BY <1>1, <1>0, ServerAssumption DEF Receive, StoreType
      <3>2. received' = received \/ received' = received + 1
        BY <1>1 DEF Receive
      <3>3. UNCHANGED <<store, now, database, members, counters, admitted, refused>>
        BY <1>1 DEF Receive
      <3> QED
        BY <3>1, <3>2, <3>3
    <2>2. http' \in [Slots -> Requests] /\ RequestInv'
      BY <1>0, <1>1, ReceiveRequests
    <2>3. StoreType' /\ NumberInv' /\ WindowInv' /\ RefusedHasCause'
      BY <1>0, <2>1, StoresKept
    <2> QED
      BY <2>2, <2>3, TypePartsNext
  <1>2. ASSUME NEW r \in Slots, CheckLimit(r)
        PROVE  IInv'
    BY <1>2, CheckLimitStores
  <1>3. ASSUME NEW r \in Slots, Reply(r)
        PROVE  IInv'
    <2>1. received' \in 0 .. MaxRequests /\ UNCHANGED <<store, now, database, members, counters, admitted, refused>>
      BY <1>0, <1>3 DEF Reply, StoreType
    <2>2. http' \in [Slots -> Requests] /\ RequestInv'
      BY <1>0, <1>3, ReplyRequests
    <2>3. StoreType' /\ NumberInv' /\ WindowInv' /\ RefusedHasCause'
      BY <1>0, <2>1, StoresKept
    <2> QED
      BY <2>2, <2>3, TypePartsNext
  <1>4. ASSUME NEW r \in Slots, NEW i \in DOMAIN http[r].answers, NEW code \in Outcomes, Execute(r, i, code)
        PROVE  IInv'
    <2>1. received' \in 0 .. MaxRequests /\ UNCHANGED <<store, now, database, members, counters, admitted, refused>>
      BY <1>0, <1>4 DEF Execute, StoreType
    <2>2. http' \in [Slots -> Requests] /\ RequestInv'
      BY <1>0, <1>4, ExecuteRequests
    <2>3. StoreType' /\ NumberInv' /\ WindowInv' /\ RefusedHasCause'
      BY <1>0, <2>1, StoresKept
    <2> QED
      BY <2>2, <2>3, TypePartsNext
  <1>5. CASE Tick
    <2>1. StoreType' /\ NumberInv' /\ WindowInv' /\ RefusedHasCause'
      BY <1>0, <1>5, TickStores
    <2>2. http' \in [Slots -> Requests] /\ RequestInv'
      BY <1>0, <1>5 DEF Tick, RequestInv
    <2> QED
      BY <2>1, <2>2, TypePartsNext
  <1>6. CASE UNCHANGED vars
    <2>1. received' \in 0 .. MaxRequests /\ UNCHANGED <<store, now, database, members, counters, admitted, refused>>
      BY <1>0, <1>6 DEF vars, StoreType
    <2>2. http' \in [Slots -> Requests] /\ RequestInv'
      BY <1>0, <1>6 DEF vars, RequestInv
    <2>3. StoreType' /\ NumberInv' /\ WindowInv' /\ RefusedHasCause'
      BY <1>0, <2>1, StoresKept
    <2> QED
      BY <2>2, <2>3, TypePartsNext
  <1> QED
    BY <1>1, <1>2, <1>3, <1>4, <1>5, <1>6 DEF Next

LEMMA InitIInv ==
  Init => IInv
  <1> SUFFICES ASSUME Init
               PROVE  IInv
    OBVIOUS
  <1>1. StoreType
    <2>1. <<>> \in [{} -> Nat]
      OBVIOUS
    <2>2. IsEntry(NoEntry)
      BY <2>1 DEF IsEntry, NoEntry
    <2> QED
      BY <2>2, ServerAssumption DEF Init, StoreType, NoCount
  <1>2. http \in [Slots -> Requests] /\ RequestInv
    BY IdleOK DEF Init, RequestInv
  <1>3. NumberInv /\ RefusedHasCause
    BY FS_EmptySet DEF Init, NumberInv, RefusedHasCause
  <1>4. WindowInv
    <2>1. \A ip, method : Counted(admitted, ip, method) = {}
      BY DEF Init, Counted, Of
    <2>2. DOMAIN NoEntry.remaining = {} /\ NoCount.count = 0
      BY DEF NoEntry, NoCount
    <2>3. \A ip \in Addresses : LruOK(admitted, now, ip, NoEntry)
      BY <2>1, <2>2 DEF LruOK, LruMethodOK
    <2>4. \A ip, method : RedisOK(admitted, now, ip, method, NoCount)
      BY <2>1, <2>2 DEF RedisOK
    <2> QED
      BY <2>3, <2>4 DEF Init, WindowInv
  <1> QED
    BY <1>1, <1>2, <1>3, <1>4, TypeParts DEF IInv

LEMMA Invariance ==
  Spec => []IInv
  BY InitIInv, NextIInv, PTL DEF Spec

-----------------------------------------------------------------------------
(* The state of the server has its types: entries and counters of the stores, answers of the items (server.ts, koaJsonRpc, *)
(* rateLimiterService).                                                                                                     *)
THEOREM TypeCorrectness ==
  Spec => []TypeOK
  <1>1. IInv => TypeOK
    BY DEF IInv
  <1> QED
    BY <1>1, Invariance, PTL

(* Both stores refuse a request only when its address was let through the limit of its method in the last Duration, for    *)
(* any limits, batches and failed commands (LruRateLimitStore.incrementAndCheck, LUA_SCRIPT of RedisRateLimitStore).        *)
THEOREM RefusalsHaveCause ==
  Spec => []RefusedHasCause
  <1>1. IInv => RefusedHasCause
    BY DEF IInv
  <1> QED
    BY <1>1, Invariance, PTL

(* Within any Duration an address is let through at most two windows of the limit of a method: the window that holds the   *)
(* present, and the Duration before it (both stores).                                                                       *)
THEOREM AdmissionsWithinLimits ==
  Spec => []AdmittedWithinLimits
  <1>1. ASSUME IInv
        PROVE  AdmittedWithinLimits
    <2> SUFFICES ASSUME NEW a \in admitted, ~Overlooked(a.method)
                 PROVE  Recent(a.ip, a.method, {"counted"}) <= 2 * TotalLimit(a.method)
      BY DEF AdmittedWithinLimits
    <2> DEFINE ip == a.ip
               method == a.method
               limit == TotalLimit(method)
               recent == {b \in Admissions(ip, method, {"counted"}) : b.time + Duration >= now}
    <2>1. /\ Admits(admitted, now) /\ ip \in Addresses /\ method \in Methods /\ limit \in Nat
          /\ now \in Nat /\ Duration \in Nat /\ \A b \in admitted : b.time \in Nat
      <3>1. Admits(admitted, now)
        BY <1>1, AdmitsNow DEF IInv
      <3>2. limit \in Nat
        BY LimitType
      <3>3. ip \in Addresses /\ method \in Methods
        BY <1>1 DEF IInv, TypeOK
      <3>4. Duration \in Nat
        BY ServerAssumption
      <3>5. \A b \in admitted : b.time \in Nat
        BY <3>1 DEF Admits
      <3> QED
        BY <3>1, <3>2, <3>3, <3>4, <3>5 DEF Admits
    <2> HIDE DEF ip, method, limit
    <2>2. Counted(admitted, ip, method) = {} \/ \E start, end, used : Window(admitted, now, ip, method, start, end, used)
      <3>1. CASE store = "lru"
        <4>1. method \in Own
          BY <2>1, <3>1 DEF Overlooked, Own, method
        <4> QED
          BY <1>1, <2>1, <3>1, <4>1 DEF IInv, WindowInv, LruOK, LruMethodOK
      <3>2. CASE store = "redis"
        BY <1>1, <2>1, <3>2 DEF IInv, WindowInv, RedisOK
      <3> QED
        BY <1>1, <3>1, <3>2 DEF IInv, TypeOK
    <2>3. CASE Counted(admitted, ip, method) = {}
      <3>1. recent = {}
        BY <2>3 DEF Counted, Of, Admissions
      <3>2. Cardinality(recent) = 0
        BY <3>1, FS_EmptySet
      <3> QED
        BY <2>1, <3>2 DEF Recent, ip, method, limit
    <2>4. CASE \E start, end, used : Window(admitted, now, ip, method, start, end, used)
      <3>1. PICK start, end, used : Window(admitted, now, ip, method, start, end, used)
        BY <2>4
      <3> DEFINE before == Before(admitted, ip, method, start)
                 since == From(admitted, ip, method, {"counted"}, start)
      <3>2. Cardinality(before) <= limit /\ Cardinality(since) <= limit /\ start \in 0 .. now
        BY <3>1 DEF Window, limit
      <3>3. /\ IsFiniteSet(before) /\ IsFiniteSet(since)
            /\ Cardinality(before) \in Nat /\ Cardinality(since) \in Nat
        BY <2>1, FiniteSets
      <3>4. recent \in SUBSET (before \cup since)
        BY <2>1, <3>2 DEF Before, From, Counted, Of, Admissions
      <3> HIDE DEF before, since, recent
      <3>5. /\ IsFiniteSet(before \cup since) /\ before \cap since \in SUBSET before
            /\ Cardinality(before \cup since) = Cardinality(before) + Cardinality(since) - Cardinality(before \cap since)
        BY <3>3, FS_Union
      <3>6. Cardinality(before \cap since) \in Nat
        BY <3>3, <3>5, Finite
      <3>7. IsFiniteSet(recent) /\ Cardinality(recent) <= Cardinality(before \cup since)
        BY <3>4, <3>5, FS_Subset
      <3>8. Cardinality(recent) \in Nat
        BY <3>7, FS_CardinalityType
      <3>9. Cardinality(recent) <= 2 * limit
        BY <2>1, <3>2, <3>3, <3>5, <3>6, <3>7, <3>8
      <3> QED
        BY <3>9 DEF Recent, recent, ip, method, limit
    <2> QED
      BY <2>2, <2>3, <2>4
  <1> QED
    BY <1>1, Invariance, PTL

(* Every item of a request is answered in its place and under its id, what was executed with its outcome; only an id that  *)
(* cannot be answered takes the response of the whole batch, and only the ids 0 and '' are null in a response to a single   *)
(* request other than 200 (koaJsonRpc handleBatchRequest, getRequestResult, ensureEthereumJsonRpcCompliance).               *)
THEOREM CompleteReplies ==
  Spec => []RepliesAreComplete
  <1>1. ASSUME IInv
        PROVE  RepliesAreComplete
    <2> SUFFICES ASSUME NEW r \in Slots, http[r].pc = "open", CanReply(r)
                 PROVE  LET items == http[r].query.items
                            response == Response(r)
                            single == http[r].query.body # "batch"
                            answerable(i) ==
                                /\ HasValidJsonRpcId(items[i])
                                /\ ~(single /\ HttpStatus(http[r].answers[1].code) # 200 /\ IdOf(items[i]) \in FalsyIds)
                        IN  \/ /\ \E i \in DOMAIN items : items[i].id = "object"
                               /\ response.status = 500 /\ response.body = <<>>
                            \/ /\ DOMAIN response.body = DOMAIN items
                               /\ \A i \in DOMAIN items :
                                    /\ response.body[i].id = (IF answerable(i) THEN IdOf(items[i]) ELSE "null")
                                    /\ i \in http[r].executed => response.body[i].code \in Outcomes
                                    /\ response.body[i].code = 0 => i \in http[r].executed
                               /\ response.status # 200 => single /\ \A i \in DOMAIN items : response.body[i].code # 0
      BY DEF RepliesAreComplete
    <2> DEFINE items == http[r].query.items
               answers == http[r].answers
               response == Response(r)
               id(i) == IF HasValidJsonRpcId(items[i]) THEN IdOf(items[i]) ELSE "null"
               single == http[r].query.body # "batch"
               nulled == single /\ HttpStatus(answers[1].code) # 200
    <2>1. http \in [Slots -> Requests] /\ RequestInv
      BY <1>1, TypeParts DEF IInv
    <2>2. DOMAIN answers = DOMAIN items
      BY <2>1 DEF RequestInv, RequestOK
    <2>3. \A i \in DOMAIN items : items[i] \in Items /\ AnswerOK(items[i], answers[i], i \in http[r].executed)
      BY <2>1, <2>2, ItemKnown
    <2>5. \A i \in DOMAIN items : answers[i] \notin Pending =>
              \E code \in Codes : /\ answers[i] = JsonResp(id(i), code)
                                  /\ i \in http[r].executed => code \in Outcomes
                                  /\ code = 0 => i \in http[r].executed
      BY <2>3 DEF AnswerOK, Codes
    <2>6. \A i \in DOMAIN items : \A code \in Codes :
              /\ JsonResp(id(i), code) = Rejected <=> id(i) = "object"
              /\ id(i) # "object" => JsonResp(id(i), code).id = id(i) /\ JsonResp(id(i), code).code = code
      BY JsonRespIsFinal
    <2>7. Rejected \notin Pending
      BY DEF Rejected, Pending, ToCheck, Running
    <2> HIDE DEF items, answers
    <2>8. CASE AnyRejected(r)
      <3>1. PICK i \in DOMAIN items : answers[i] = Rejected
        BY <2>2, <2>8 DEF AnyRejected, Range, answers
      <3>2. id(i) = "object"
        BY <2>5, <2>6, <2>7, <3>1
      <3>3. items[i].id = "object"
        BY <3>2 DEF IdOf
      <3>4. response.status = 500 /\ response.body = <<>>
        BY <2>8 DEF Response
      <3> QED
        BY <3>3, <3>4 DEF items
    <2>9. CASE ~AnyRejected(r)
      <3>1. \A i \in DOMAIN items : answers[i] \notin Pending /\ answers[i] # Rejected
        BY <2>2, <2>9 DEF CanReply, Settled, AnyRejected, Range, answers
      <3>2. ASSUME NEW i \in DOMAIN items
            PROVE  /\ answers[i].id = id(i) /\ NullId(answers[i]).code = answers[i].code
                   /\ NullId(answers[i]).id = IF id(i) \in FalsyIds THEN "null" ELSE id(i)
                   /\ i \in http[r].executed => answers[i].code \in Outcomes
                   /\ answers[i].code = 0 => i \in http[r].executed
        <4>1. PICK code \in Codes : /\ answers[i] = JsonResp(id(i), code)
                                    /\ i \in http[r].executed => code \in Outcomes
                                    /\ code = 0 => i \in http[r].executed
          BY <2>5, <3>1
        <4>2. answers[i].id = id(i) /\ answers[i].code = code /\ answers[i] = [id |-> id(i), code |-> code]
          BY <2>6, <3>1, <4>1 DEF JsonResp
        <4>3. NullId(answers[i]).code = code /\ NullId(answers[i]).id = IF id(i) \in FalsyIds THEN "null" ELSE id(i)
          BY <4>2 DEF NullId
        <4> QED
          BY <4>1, <4>2, <4>3
      <3>3. response.body = IF nulled THEN [i \in DOMAIN answers |-> NullId(answers[i])] ELSE answers
        BY <2>9 DEF Response, Compliant, answers
      <3>4. response.status # 200 => single /\ answers[1].code # 0
        <4>1. ~single => response.status = 200
          BY <2>9 DEF Response
        <4>2. single => response.status = Compliant(HttpStatus(answers[1].code), answers).status
          BY <2>9 DEF Response, answers
        <4>3. HttpStatus(0) = 200
          BY DEF HttpStatus
        <4>4. Compliant(200, answers).status = 200
          BY DEF Compliant
        <4> QED
          BY <4>1, <4>2, <4>3, <4>4
      <3>5. single => DOMAIN items \subseteq {1}
        <4>1. http[r].query \in Incoming
          BY <2>1 DEF RequestInv, RequestOK
        <4>2. items \in Seq(Items) /\ (single => Len(items) <= 1)
          BY <4>1, ServerAssumption DEF items
        <4>3. DOMAIN items = 1 .. Len(items) /\ Len(items) \in Nat
          BY <4>2
        <4> QED
          BY <4>2, <4>3
      <3>6. ASSUME NEW i \in DOMAIN items
            PROVE  /\ response.body[i].id = IF HasValidJsonRpcId(items[i]) /\ ~(nulled /\ IdOf(items[i]) \in FalsyIds)
                                            THEN IdOf(items[i]) ELSE "null"
                   /\ response.body[i].code = answers[i].code
        <4>1. "null" \notin FalsyIds
          BY DEF FalsyIds
        <4>2. CASE nulled
          <5>1. response.body[i] = NullId(answers[i])
            BY <2>2, <3>3, <4>2
          <5> QED
            BY <3>2, <4>1, <4>2, <5>1
        <4>3. CASE ~nulled
          <5>1. response.body[i] = answers[i]
            BY <3>3, <4>3
          <5> QED
            BY <3>2, <4>3, <5>1
        <4> QED
          BY <4>2, <4>3
      <3>7. DOMAIN response.body = DOMAIN items
        BY <2>2, <3>3
      <3> HIDE DEF response
      <3> QED
        BY <3>2, <3>4, <3>5, <3>6, <3>7 DEF items, answers, response
    <2> QED
      BY <2>8, <2>9
  <1> QED
    BY <1>1, Invariance, PTL

-----------------------------------------------------------------------------
(* The methods behind the server: the cache decorator. *)


(* The kinds of methods, and those whose answers may be cached. *)
CachedKinds == {"block", "entry", "count", "balance", "nonce", "storage", "trace", "code", "call", "history", "logs"}

Kinds == CachedKinds \cup {"constant", "filter", "send", "pool", "unsupported", "head"}

(* The bounds of logs are the parameters whose tags keep an answer out of the cache. *)
MethodOK(r) ==
    /\ r.kind \in Kinds
    /\ r.cache.cached => /\ r.kind \in CachedKinds
                         /\ r.kind = "logs" => r.cache.named = {"fromBlock", "toBlock"}

GroupOK(g) == \A m \in DOMAIN g : MethodOK(g[m])

(* What holds of the methods of every group holds of all of them. *)
LEMMA JoinOK ==
  ASSUME NEW fs, \A f \in fs : GroupOK(f)
  PROVE  GroupOK(Join(fs))
  <1> SUFFICES ASSUME NEW m \in DOMAIN Join(fs)
               PROVE  MethodOK(Join(fs)[m])
    BY DEF GroupOK
  <1> DEFINE g == CHOOSE f \in fs : m \in DOMAIN f
  <1>1. m \in UNION {DOMAIN f : f \in fs} /\ Join(fs)[m] = g[m]
    BY DEF Join
  <1>2. \E f \in fs : m \in DOMAIN f
    BY <1>1
  <1>3. g \in fs /\ m \in DOMAIN g
    BY <1>2
  <1> QED
    BY <1>1, <1>3 DEF GroupOK

LEMMA AllOK ==
  ASSUME NEW names, NEW r, MethodOK(r)
  PROVE  GroupOK(All(names, r))
  BY DEF GroupOK, All

(* The methods that are registered, group by group (the decorators of eth.ts, debug.ts, net.ts, txpool.ts, web3.ts). *)
LEMMA RegistryOK == GroupOK(Registry)
  <1>m. ASSUME NEW kind \in Kinds, NEW rules, NEW layout
        PROVE  MethodOK(Method(kind, rules, layout, NoCache)) /\ MethodOK(Plain(kind))
    BY DEF MethodOK, Method, Plain, NoCache
  <1>c. ASSUME NEW kind \in CachedKinds \ {"logs"}, NEW rules, NEW layout, NEW i
        PROVE  MethodOK(Method(kind, rules, layout, Cache)) /\ MethodOK(Method(kind, rules, layout, SkipParam(i)))
    BY DEF MethodOK, Method, Cache, SkipParam, Kinds
  <1>l. ASSUME NEW rules, NEW layout
        PROVE  MethodOK(Method("logs", rules, layout, [cached |-> TRUE, skip |-> 0, named |-> {"fromBlock", "toBlock"}]))
    BY DEF MethodOK, Method, Kinds, CachedKinds
  <1>p. MethodOK([Method("pool", <<>>, "default", NoCache) EXCEPT !.validated = TRUE])
    BY DEF MethodOK, Method, NoCache, Kinds
  <1>k. {"constant", "filter", "send", "pool", "unsupported", "head", "history"} \subseteq Kinds
        /\ CachedKinds \ {"logs"} = {"block", "entry", "count", "balance", "nonce", "storage", "trace", "code", "call", "history"}
    BY DEF Kinds, CachedKinds
  <1> USE JoinOK, AllOK
  <1> HIDE DEF MethodOK, GroupOK
  <1>1. GroupOK(EthNetworkMethods)
    BY <1>m, <1>c, <1>k DEF EthNetworkMethods
  <1>2. GroupOK(EthFilterMethods)
    BY <1>m, <1>k DEF EthFilterMethods
  <1>3. GroupOK(EthUncleMethods)
    BY <1>m, <1>k DEF EthUncleMethods
  <1>4. GroupOK(EthUnsupportedMethods)
    BY <1>m, <1>k DEF EthUnsupportedMethods
  <1>5. GroupOK(EthStateMethods)
    BY <1>c, <1>k DEF EthStateMethods
  <1>6. GroupOK(EthBlockMethods)
    BY <1>c, <1>k DEF EthBlockMethods
  <1>7. GroupOK(EthCallMethods)
    BY <1>m, <1>c, <1>k DEF EthCallMethods
  <1>8. GroupOK(EthLogMethods)
    BY <1>c, <1>l, <1>k DEF EthLogMethods
  <1>9. GroupOK(EthReceiptMethods)
    BY <1>m, <1>c, <1>k DEF EthReceiptMethods
  <1>10. GroupOK(DebugMethods)
    BY <1>c, <1>k DEF DebugMethods
  <1>11. GroupOK(OtherMethods)
    <2> DEFINE pool == [Method("pool", <<>>, "default", NoCache) EXCEPT !.validated = TRUE]
    <2>1. MethodOK(pool)
      BY <1>p
    <2> HIDE DEF pool
    <2>2. GroupOK(All({"net_listening", "net_version", "web3_clientVersion"}, Method("constant", <<>>, "default", NoCache)))
      BY <1>m, <1>k
    <2>3. GroupOK(All({"net_peerCount"}, Method("unsupported", <<>>, "default", NoCache)))
      BY <1>m, <1>k
    <2>4. GroupOK(All({"web3_sha3"}, Method("constant", <<Required({"hex"})>>, "default", NoCache)))
      BY <1>m, <1>k
    <2>5. GroupOK(All({"txpool_content", "txpool_status"}, pool))
      BY <2>1
    <2>6. GroupOK(All({"txpool_contentFrom"}, Method("pool", <<Required({"address"})>>, "default", NoCache)))
      BY <1>m, <1>k
    <2> QED
      BY <2>2, <2>3, <2>4, <2>5, <2>6 DEF OtherMethods, pool
  <1> QED
    BY <1>1, <1>2, <1>3, <1>4, <1>5, <1>6, <1>7, <1>8, <1>9, <1>10, <1>11 DEF Registry

-----------------------------------------------------------------------------
(* The answers of the services. *)

(* What a call answered at the head then, from its queries or, when one of them failed, without it. *)
Source(m, args, value, at, failed) ==
    IF failed THEN \E e \in Failures : value \in Failed(m, e) ELSE value = Value(m, args, at, Price[at])

(* Only feeHistory returns an error when no query failed, and only for a block beyond the head. *)
LEMMA ValueStatus ==
  ASSUME NEW m \in DOMAIN Registry, NEW args, NEW h, NEW price
  PROVE  LET v == Value(m, args, h, price)
             n == NumberOf(Inner(args[BlockIndex(m)]), h)
         IN  /\ v.st \in {"ok", "null", "thrown", "error"}
             /\ Registry[m].cache.cached /\ v.st = "error" => Registry[m].kind = "history" /\ n > h
  <1> DEFINE p == args[BlockIndex(m)]
             n == NumberOf(Inner(p), h)
             kind == Registry[m].kind
             v == Value(m, args, h, price)
             Statuses == {"ok", "null", "thrown", "error"}
  <1> HIDE DEF p, n
  <1>1. MethodOK(Registry[m])
    BY RegistryOK DEF GroupOK
  <1>2. CASE kind \in {"constant", "filter", "send", "pool", "unsupported", "head"}
    <2>1. v.st \in Statuses
      BY <1>2 DEF Value, Ok
    <2>2. ~Registry[m].cache.cached
      BY <1>1, <1>2 DEF MethodOK, CachedKinds
    <2> QED
      BY <2>1, <2>2 DEF n, p
  <1>3. CASE kind \in {"block", "entry", "count"}
    <2>1. v = IF n > h THEN Null ELSE IF kind = "block" THEN Ok(<<n, args, price>>) ELSE Ok(<<n, args>>)
      BY <1>3 DEF Value, n, p
    <2> QED
      BY <2>1 DEF Null, Ok
  <1>4. CASE kind \in {"balance", "nonce"}
    <2>1. v = AccountValue(kind, args, n, h)
      BY <1>4 DEF Value, n, p
    <2> QED
      BY <2>1 DEF AccountValue, Thrown, Ok
  <1>5. CASE kind \in {"storage", "trace"}
    <2>1. v = StorageValue(n, h)
      BY <1>5 DEF Value, n, p
    <2> QED
      BY <2>1 DEF StorageValue, Thrown, Ok
  <1>6. CASE kind = "code"
    <2>1. v = CodeValue(p, n, h)
      BY <1>6 DEF Value, n, p
    <2> QED
      BY <2>1 DEF CodeValue, EmptyHex, Thrown, Ok
  <1>7. CASE kind = "call"
    <2>1. v = CallValue(p, n, h)
      BY <1>7 DEF Value, n, p
    <2> QED
      BY <2>1 DEF CallValue, EmptyHex, StorageValue, Thrown, Ok
  <1>8. CASE kind = "history"
    <2>1. v = HistoryValue(args[1].val, n, h, price)
      BY <1>8 DEF Value, n, p
    <2>2. v.st \in Statuses /\ (v.st = "error" => n > h)
      BY <2>1 DEF HistoryValue, Ok
    <2> QED
      BY <2>2, <1>8 DEF n, p
  <1>9. CASE kind = "logs"
    <2>1. v = LogsOf(args[1].val, h)
      BY <1>9 DEF Value
    <2> QED
      BY <2>1 DEF LogsOf, Thrown, Ok
  <1> QED
    BY <1>1, <1>2, <1>3, <1>4, <1>5, <1>6, <1>7, <1>8, <1>9 DEF MethodOK, Kinds, CachedKinds

(* What a failed query leaves: eth_call returns an error or 0x, and the lenient services a result. *)
LEMMA FailedStatus ==
  ASSUME NEW m, NEW e, NEW value \in Failed(m, e)
  PROVE  /\ value.st \in {"ok", "thrown", "error"}
         /\ value.st = "error" => Registry[m].kind = "call"
         /\ value.st = "ok" => Registry[m].kind \in Lenient \/ (Registry[m].kind = "call" /\ value = EmptyHex)
  BY DEF Failed, Thrown, Ok, EmptyHex, Lenient

(* What is stored once the blocks it is about were final is what the services answer at every later head, at the same price. *)
LEMMA FinalStays ==
  ASSUME NEW call, call.method \in DOMAIN Registry, Registry[call.method].cache.cached,
         call.at \in Nat, NEW h \in Nat, call.at <= h, Final(call),
         NEW price, NEW v, v = Value(call.method, call.args, call.at, price), MayStore(call.method, call.args, v)
  PROVE  Value(call.method, call.args, h, price) = v
  <1> DEFINE m == call.method
             args == call.args
             at == call.at
             kind == Registry[m].kind
             p == args[BlockIndex(m)]
             q == Inner(p)
             filter == args[1].val
  <1>1. MethodOK(Registry[m])
    BY RegistryOK DEF GroupOK
  <1>2. CASE kind = "logs"
    <2>1. /\ Value(m, args, h, price) = LogsOf(filter, h)
          /\ v = LogsOf(filter, at)
      BY <1>2 DEF Value
    <2>2. CASE "blockHash" \in DOMAIN filter
      <3>1. filter.blockHash.val \in 0 .. at
        BY <1>2, <2>2 DEF Final
      <3> DEFINE b == filter.blockHash.val
      <3>2. LogsOf(filter, h) = Ok({n \in {b} : n <= h}) /\ LogsOf(filter, at) = Ok({n \in {b} : n <= at})
        BY <2>2 DEF LogsOf
      <3>3. {n \in {b} : n <= h} = {b} /\ {n \in {b} : n <= at} = {b}
        BY <3>1
      <3> QED
        BY <2>1, <3>2, <3>3
    <2>3. CASE "blockHash" \notin DOMAIN filter
      <3>1. \A f \in {"fromBlock", "toBlock"} : f \in DOMAIN filter /\ NumberOf(filter[f], at) \in 0 .. at
        BY <1>2, <2>3 DEF Final
      <3>2. \A f \in {"fromBlock", "toBlock"} : ~IsNonCachable(filter[f])
        BY <1>1, <1>2, <3>1 DEF MayStore, ShouldSkipCachingForNamedParams, MethodOK
      <3>3. \A f \in {"fromBlock", "toBlock"} : NumberOf(filter[f], h) = NumberOf(filter[f], at)
        BY <3>2 DEF NumberOf, IsNonCachable
      <3> DEFINE from == NumberOf(filter["fromBlock"], at)
                 to == NumberOf(filter["toBlock"], at)
                 Logs(x) == IF from > x \/ to > x THEN Ok({})
                             ELSE IF from > to THEN Thrown("INVALID_BLOCK_RANGE") ELSE Ok(from .. to)
      <3>4. from \in 0 .. at /\ to \in 0 .. at
        BY <3>1
      <3>5. LogsOf(filter, at) = Logs(at) /\ LogsOf(filter, h) = Logs(h)
        BY <2>3, <3>1, <3>3 DEF LogsOf
      <3> HIDE DEF from, to
      <3>6. ~(from > at \/ to > at) /\ ~(from > h \/ to > h)
        BY <3>4
      <3> QED
        BY <2>1, <3>5, <3>6
    <2> QED
      BY <2>2, <2>3
  <1>3. CASE kind # "logs"
    <2> DEFINE n == NumberOf(q, at)
    <2>1. /\ q.cls # "tag" /\ n \in 0 .. at /\ (kind \in {"balance", "nonce"} => at - n > Tolerance(kind))
          /\ kind = "nonce" => <<args[1].val, n>> \notin Received
          /\ kind = "history" => FeeHistoryFixed \/ at > n
      BY <1>3 DEF Final
    <2>2. NumberOf(q, h) = n
      BY <2>1 DEF NumberOf
    <2> HIDE DEF n, q, p
    <2>3. n \in Nat /\ ~(n > at) /\ ~(n > h) /\ at - n <= h - n
      BY <2>1
    <2>4. CASE kind \in {"block", "entry", "count"}
      BY <2>2, <2>3, <2>4 DEF Value, n, q, p
    <2>5. CASE kind \in {"balance", "nonce"}
      <3>1. v = AccountValue(kind, args, n, at) /\ Value(m, args, h, price) = AccountValue(kind, args, n, h)
        BY <2>2, <2>5 DEF Value, n, q, p
      <3>3. Tolerance(kind) \in Nat
        BY MethodCacheAssumption DEF Tolerance
      <3>4. ~(at - n <= Tolerance(kind)) /\ ~(h - n <= Tolerance(kind))
        BY <2>1, <2>3, <2>5, <3>3
      <3> QED
        BY <2>1, <2>3, <2>5, <3>1, <3>4 DEF AccountValue
    <2>6. CASE kind \in {"storage", "trace"}
      <3>1. v = StorageValue(n, at) /\ Value(m, args, h, price) = StorageValue(n, h)
        BY <2>2, <2>6 DEF Value, n, q, p
      <3> QED
        BY <2>3, <3>1 DEF StorageValue
    <2>7. CASE kind = "code"
      <3>1. v = CodeValue(p, n, at) /\ Value(m, args, h, price) = CodeValue(p, n, h)
        BY <2>2, <2>7 DEF Value, n, q, p
      <3> QED
        BY <2>3, <3>1 DEF CodeValue
    <2>8. CASE kind = "call"
      <3>1. v = CallValue(p, n, at) /\ Value(m, args, h, price) = CallValue(p, n, h)
        BY <2>2, <2>8 DEF Value, n, q, p
      <3> QED
        BY <2>3, <3>1 DEF CallValue, StorageValue
    <2>9. CASE kind = "history"
      <3>1. /\ v = HistoryValue(args[1].val, n, at, price)
            /\ Value(m, args, h, price) = HistoryValue(args[1].val, n, h, price)
        BY <2>2, <2>9 DEF Value, n, q, p
      <3>2. FeeHistoryFixed \/ (at > n /\ h > n)
        BY <2>1, <2>3, <2>9
      <3> QED
        BY <2>3, <3>1, <3>2 DEF HistoryValue
    <2> QED
      BY <1>1, <1>3, <2>4, <2>5, <2>6, <2>7, <2>8, <2>9 DEF MethodOK, CachedKinds
  <1> QED
    BY <1>2, <1>3

-----------------------------------------------------------------------------
(* The invariant of the cache: what is stored, or about to be, was answered at a head of the past and may be stored; what  *)
(* a call answers was answered during the call, or stored.                                                                *)

CallFields == {"pc", "method", "args", "began", "at", "value", "failed", "cached"}

CacheTypes ==
    /\ cacheType \in {"lru", "redis"}
    /\ head \in Nat
    /\ DOMAIN calls = Callers
    /\ \A c \in Callers : DOMAIN calls[c] = CallFields /\ calls[c].pc \in {"idle", "lookup", "evaluate", "store", "done"}

CachedMethod(m) == m \in DOMAIN Registry /\ Registry[m].cache.cached

Storable(m, args, value, at, failed, h) ==
    /\ CachedMethod(m) /\ at \in 0 .. h /\ failed \in BOOLEAN
    /\ MayStore(m, args, value) /\ Source(m, args, value, at, failed)

EntriesOK == \A k \in DOMAIN entries : Storable(k[1], k[2], entries[k].value, entries[k].at, entries[k].failed, head)

(* An answer of the services, or of the cache. *)
AnswerStands(call, h) ==
    IF call.cached
    THEN \E v : Storable(call.method, call.args, v, call.at, call.failed, h) /\ call.value = Parsed(v)
    ELSE /\ call.at \in call.began .. h /\ call.failed \in BOOLEAN
         /\ Source(call.method, call.args, call.value, call.at, call.failed)

CallOK(call, h) ==
    /\ call.pc # "idle" => call.began \in 0 .. h
    /\ call.pc \in {"lookup", "store"} => CachedMethod(call.method)
    /\ call.pc = "evaluate" => call.method \in DOMAIN Registry
    /\ call.pc = "store" =>
        Storable(call.method, call.args, call.value, call.at, call.failed, h) /\ call.at >= call.began
    /\ call.pc = "done" /\ call.value.st \in {"ok", "object"} => AnswerStands(call, h)

CacheInv == CacheTypes /\ EntriesOK /\ \A c \in Callers : CallOK(calls[c], head)

(* The blocks that come later change nothing of what was answered. *)
LEMMA LaterHead ==
  ASSUME NEW h \in Nat, NEW g \in Nat, h <= g
  PROVE  /\ \A m, args, value, at, failed : Storable(m, args, value, at, failed, h) => Storable(m, args, value, at, failed, g)
         /\ \A call : CallOK(call, h) => CallOK(call, g)
  <1>1. \A x, y : x \in y .. h => x \in y .. g
    OBVIOUS
  <1>2. \A m, args, value, at, failed : Storable(m, args, value, at, failed, h) => Storable(m, args, value, at, failed, g)
    BY <1>1 DEF Storable
  <1> HIDE DEF Storable
  <1>3. \A call : AnswerStands(call, h) => AnswerStands(call, g)
    BY <1>1, <1>2 DEF AnswerStands
  <1>4. \A call : CallOK(call, h) => CallOK(call, g)
    BY <1>1, <1>2, <1>3 DEF CallOK
  <1> QED
    BY <1>2, <1>4

LEMMA DoneFields ==
  ASSUME NEW call, DOMAIN call = CallFields, NEW value, NEW at, NEW failed, NEW cached
  PROVE  LET d == Done(call, value, at, failed, cached)
         IN  /\ DOMAIN d = CallFields
             /\ d.pc = "done" /\ d.method = call.method /\ d.args = call.args /\ d.began = call.began
             /\ d.at = at /\ d.failed = failed /\ d.cached = cached
             /\ value.st # "thrown" => d.value = value
             /\ value.st = "thrown" => d.value.st = "error"
  BY DEF Done, CallFields

(* A step of one call that leaves the head and the cache, or adds or removes an entry. *)
LEMMA OneCall ==
  ASSUME CacheInv, NEW c \in Callers, NEW call,
         cacheType' = cacheType, head' = head, calls' = [calls EXCEPT ![c] = call],
         DOMAIN call = CallFields, call.pc \in {"idle", "lookup", "evaluate", "store", "done"}, CallOK(call, head), EntriesOK'
  PROVE  CacheInv'
  <1>1. \A x \in Callers : calls'[x] = IF x = c THEN call ELSE calls[x]
    BY DEF CacheInv, CacheTypes
  <1>2. CacheTypes'
    BY <1>1 DEF CacheInv, CacheTypes
  <1>3. \A v : Parsed(v)' = Parsed(v)
    BY DEF Parsed
  <1>4. \A x, h : CallOK(x, h)' <=> CallOK(x, h)
    BY <1>3 DEF CallOK, AnswerStands
  <1> QED
    BY <1>1, <1>2, <1>4 DEF CacheInv

LEMMA InitCacheInv == CacheInit => CacheInv
  <1> SUFFICES ASSUME CacheInit PROVE CacheInv
    OBVIOUS
  <1>1. DOMAIN entries = {}
    BY DEF CacheInit
  <1>2. DOMAIN NoCall = CallFields /\ NoCall.pc = "idle"
    BY DEF NoCall, CallFields
  <1>3. DOMAIN calls = Callers /\ \A c \in Callers : calls[c] = NoCall
    BY DEF CacheInit
  <1>4. CacheTypes
    BY <1>2, <1>3 DEF CacheTypes, CacheInit
  <1>5. CallOK(NoCall, head)
    BY <1>2 DEF CallOK
  <1> QED
    BY <1>1, <1>3, <1>4, <1>5 DEF CacheInv, EntriesOK

(* Entries the step does not touch. *)
LEMMA SameEntries ==
  ASSUME CacheInv, head' = head, UNCHANGED entries
  PROVE  EntriesOK'
  <1>1. \A m, args, value, at, failed, h : Storable(m, args, value, at, failed, h)' <=> Storable(m, args, value, at, failed, h)
    OBVIOUS
  <1> QED
    BY <1>1 DEF CacheInv, EntriesOK

LEMMA DispatchStep ==
  ASSUME CacheInv, NEW c \in Callers, NEW q \in Calls, Dispatch(c, q)
  PROVE  CacheInv'
  <1> DEFINE pc == IF Registry[q.method].cache.cached THEN "lookup" ELSE "evaluate"
             args == ArrangeRpcParams(Registry[q.method], q.params)
             call == [NoCall EXCEPT !.method = q.method, !.began = head, !.args = args, !.pc = pc]
  <1>1. calls' = [calls EXCEPT ![c] = call] /\ UNCHANGED <<cacheType, head, entries>>
    BY DEF Dispatch
  <1>2. q.method \in DOMAIN Registry
    <2>1. \A n : Unregistered(n) # "none"
      BY DEF Unregistered
    <2> QED
      BY <2>1 DEF Dispatch, Refusal
  <1>3. EntriesOK'
    BY <1>1, SameEntries
  <1> HIDE DEF args
  <1>4. DOMAIN call = CallFields /\ call.pc = pc /\ call.began = head /\ call.method = q.method
    BY DEF NoCall, CallFields
  <1> HIDE DEF call
  <1>5. CallOK(call, head)
    BY <1>2, <1>4 DEF CallOK, CachedMethod, CacheInv, CacheTypes
  <1> QED
    BY <1>1, <1>3, <1>4, <1>5, OneCall

LEMMA RefuseStep ==
  ASSUME CacheInv, NEW c \in Callers, NEW q \in Calls, Refuse(c, q)
  PROVE  CacheInv'
  <1> DEFINE start == [NoCall EXCEPT !.method = q.method]
             error == [st |-> "error", val |-> Refusal(q)]
             call == Done(start, error, head, FALSE, FALSE)
  <1>1. calls' = [calls EXCEPT ![c] = call] /\ UNCHANGED <<cacheType, head, entries>>
    BY DEF Refuse
  <1>2. EntriesOK'
    BY <1>1, SameEntries
  <1>3. DOMAIN start = CallFields /\ start.began = 0
    BY DEF NoCall, CallFields
  <1>4. error.st = "error"
    OBVIOUS
  <1> HIDE DEF start, error
  <1>5. DOMAIN call = CallFields /\ call.pc = "done" /\ call.began = 0 /\ call.value.st = "error"
    BY <1>3, <1>4 DEF Done, CallFields
  <1> HIDE DEF call
  <1>6. CallOK(call, head)
    BY <1>5 DEF CallOK, CacheInv, CacheTypes
  <1> QED
    BY <1>1, <1>2, <1>5, <1>6, OneCall

LEMMA ReturnStep ==
  ASSUME CacheInv, NEW c \in Callers, Return(c)
  PROVE  CacheInv'
  <1>1. calls' = [calls EXCEPT ![c] = NoCall] /\ UNCHANGED <<cacheType, head, entries>>
    BY DEF Return
  <1>2. EntriesOK'
    BY <1>1, SameEntries
  <1>3. DOMAIN NoCall = CallFields /\ NoCall.pc = "idle"
    BY DEF NoCall, CallFields
  <1>4. CallOK(NoCall, head)
    BY <1>3 DEF CallOK
  <1> QED
    BY <1>1, <1>2, <1>3, <1>4, OneCall

LEMMA LookUpStep ==
  ASSUME CacheInv, NEW c \in Callers, LookUp(c)
  PROVE  CacheInv'
  <1> DEFINE call == calls[c]
             key == <<call.method, call.args>>
             miss == [call EXCEPT !.pc = "evaluate"]
             hit == Done(call, Parsed(entries[key].value), entries[key].at, entries[key].failed, TRUE)
  <1>1. call.pc = "lookup" /\ UNCHANGED <<cacheType, head>>
    BY DEF LookUp
  <1>2. DOMAIN call = CallFields /\ CallOK(call, head) /\ head \in Nat
    BY DEF CacheInv, CacheTypes
  <1>3. CachedMethod(call.method) /\ call.began \in 0 .. head
    BY <1>1, <1>2 DEF CallOK
  <1>4. CASE key \in DOMAIN entries /\ calls' = [calls EXCEPT ![c] = hit] /\ UNCHANGED entries
    <2>1. EntriesOK'
      BY <1>1, <1>4, SameEntries
    <2> DEFINE v == entries[key].value
    <2>2. Storable(call.method, call.args, v, entries[key].at, entries[key].failed, head)
      BY <1>4 DEF CacheInv, EntriesOK
    <2>3. v.st # "thrown"
      BY <2>2 DEF Storable, MayStore
    <2>4. Parsed(v).st # "thrown"
      BY <2>3 DEF Parsed
    <2> HIDE DEF key, call
    <2>5. /\ DOMAIN hit = CallFields
          /\ hit.pc = "done" /\ hit.method = call.method /\ hit.args = call.args /\ hit.began = call.began
          /\ hit.at = entries[key].at /\ hit.failed = entries[key].failed /\ hit.cached = TRUE /\ hit.value = Parsed(v)
      BY <1>2, <2>4 DEF Done, CallFields
    <2> HIDE DEF hit
    <2>6. AnswerStands(hit, head)
      BY <2>2, <2>5 DEF AnswerStands
    <2>7. CallOK(hit, head)
      BY <1>3, <2>5, <2>6 DEF CallOK
    <2> QED
      BY <1>1, <1>4, <2>1, <2>5, <2>7, OneCall
  <1>5. CASE calls' = [calls EXCEPT ![c] = miss] /\ (entries' = Restrict(entries, DOMAIN entries \ {key}) \/ UNCHANGED entries)
    <2>1. \A k \in DOMAIN entries' : k \in DOMAIN entries /\ entries'[k] = entries[k]
      BY <1>5 DEF Restrict
    <2>2. EntriesOK'
      BY <1>1, <2>1 DEF CacheInv, EntriesOK
    <2> HIDE DEF call
    <2>3. DOMAIN miss = CallFields /\ miss.pc = "evaluate" /\ miss.method = call.method /\ miss.began = call.began
      BY <1>2 DEF CallFields
    <2> HIDE DEF miss
    <2>4. CallOK(miss, head)
      BY <1>3, <2>3 DEF CallOK, CachedMethod
    <2> QED
      BY <1>1, <1>5, <2>2, <2>3, <2>4, OneCall
  <1> QED
    BY <1>4, <1>5 DEF LookUp, GenerateCacheKey

(* The method answered, from the services or in spite of a failed query. *)
LEMMA EvaluatedStep ==
  ASSUME CacheInv, NEW c \in Callers, calls[c].pc = "evaluate", NEW value, NEW failed \in BOOLEAN,
         Source(calls[c].method, calls[c].args, value, head, failed), Evaluated(c, value, failed)
  PROVE  CacheInv'
  <1> DEFINE call == calls[c]
             stored == [call EXCEPT !.pc = "store", !.value = value, !.at = head, !.failed = failed]
             done == Done(call, value, head, failed, FALSE)
  <1>1. UNCHANGED <<cacheType, head, entries>>
    BY DEF Evaluated
  <1>2. EntriesOK'
    BY <1>1, SameEntries
  <1>3. DOMAIN call = CallFields /\ CallOK(call, head) /\ head \in Nat
    BY DEF CacheInv, CacheTypes
  <1>4. call.method \in DOMAIN Registry /\ call.began \in 0 .. head
    BY <1>3 DEF CallOK
  <1>5. CASE Registry[call.method].cache.cached /\ MayStore(call.method, call.args, value)
    <2>1. calls' = [calls EXCEPT ![c] = stored]
      BY <1>5 DEF Evaluated
    <2>2. Storable(call.method, call.args, value, head, failed, head)
      BY <1>3, <1>4, <1>5 DEF Storable, CachedMethod
    <2> HIDE DEF call
    <2>3. /\ DOMAIN stored = CallFields /\ stored.pc = "store" /\ stored.method = call.method /\ stored.args = call.args
          /\ stored.began = call.began /\ stored.value = value /\ stored.at = head /\ stored.failed = failed
      BY <1>3 DEF CallFields
    <2> HIDE DEF stored
    <2>4. CallOK(stored, head)
      BY <1>3, <1>4, <1>5, <2>2, <2>3 DEF CallOK, CachedMethod
    <2> QED
      BY <1>1, <1>2, <2>1, <2>3, <2>4, OneCall
  <1>6. CASE ~(Registry[call.method].cache.cached /\ MayStore(call.method, call.args, value))
    <2>1. calls' = [calls EXCEPT ![c] = done]
      BY <1>6 DEF Evaluated
    <2>2. Source(call.method, call.args, value, head, failed)
      OBVIOUS
    <2> HIDE DEF call
    <2>3. /\ DOMAIN done = CallFields /\ done.pc = "done" /\ done.method = call.method /\ done.args = call.args
          /\ done.began = call.began /\ done.at = head /\ done.failed = failed /\ done.cached = FALSE
          /\ done.value.st \in {"ok", "object"} => done.value = value
      BY <1>3 DEF Done, CallFields
    <2> HIDE DEF done
    <2>4. done.value.st \in {"ok", "object"} => AnswerStands(done, head)
      BY <1>3, <1>4, <2>2, <2>3 DEF AnswerStands
    <2>5. CallOK(done, head)
      BY <1>4, <2>3, <2>4 DEF CallOK
    <2> QED
      BY <1>1, <1>2, <2>1, <2>3, <2>5, OneCall
  <1> QED
    BY <1>5, <1>6

LEMMA EvaluateStep ==
  ASSUME CacheInv, NEW c \in Callers, Evaluate(c)
  PROVE  CacheInv'
  <1> DEFINE value == Value(calls[c].method, calls[c].args, head, Price[head])
  <1>1. calls[c].pc = "evaluate" /\ Evaluated(c, value, FALSE)
    BY DEF Evaluate
  <1>2. Source(calls[c].method, calls[c].args, value, head, FALSE)
    BY DEF Source
  <1> HIDE DEF value
  <1> QED
    BY <1>1, <1>2, EvaluatedStep

LEMMA FailStep ==
  ASSUME CacheInv, NEW c \in Callers, NEW e \in Failures, Fail(c, e)
  PROVE  CacheInv'
  <1>1. PICK value \in Failed(calls[c].method, e) : Evaluated(c, value, TRUE)
    BY DEF Fail
  <1>2. calls[c].pc = "evaluate"
    BY DEF Fail
  <1>3. Source(calls[c].method, calls[c].args, value, head, TRUE)
    BY <1>1 DEF Source
  <1> QED
    BY <1>1, <1>2, <1>3, EvaluatedStep

LEMMA StoreStep ==
  ASSUME CacheInv, NEW c \in Callers, Store(c)
  PROVE  CacheInv'
  <1> DEFINE call == calls[c]
             key == <<call.method, call.args>>
             entry == [value |-> call.value, at |-> call.at, failed |-> call.failed]
             done == Done(call, call.value, call.at, call.failed, FALSE)
  <1>1. call.pc = "store" /\ UNCHANGED <<cacheType, head>> /\ calls' = [calls EXCEPT ![c] = done]
    BY DEF Store
  <1>2. DOMAIN call = CallFields /\ CallOK(call, head) /\ head \in Nat
    BY DEF CacheInv, CacheTypes
  <1>3. /\ call.began \in 0 .. head /\ call.at >= call.began
        /\ Storable(call.method, call.args, call.value, call.at, call.failed, head)
    BY <1>1, <1>2 DEF CallOK
  <1>4. EntriesOK'
    <2>1. CASE entries' = entries
      BY <1>1, <2>1, SameEntries
    <2>2. CASE entries' = Put(key, entry)
      <3>1. \A k \in DOMAIN entries' : \/ k = key /\ entries'[k] = entry
                                       \/ k \in DOMAIN entries /\ entries'[k] = entries[k]
        BY <2>2 DEF Put
      <3>2. key[1] = call.method /\ key[2] = call.args
        OBVIOUS
      <3>3. entry.value = call.value /\ entry.at = call.at /\ entry.failed = call.failed
        OBVIOUS
      <3> HIDE DEF entry, key, call
      <3> QED
        BY <1>1, <1>3, <3>1, <3>2, <3>3 DEF CacheInv, EntriesOK
    <2> QED
      BY <2>1, <2>2 DEF Store, GenerateCacheKey
  <1>5. call.value.st # "thrown"
    BY <1>3 DEF Storable, MayStore
  <1> HIDE DEF call
  <1>6. /\ DOMAIN done = CallFields /\ done.pc = "done" /\ done.method = call.method /\ done.args = call.args
        /\ done.began = call.began /\ done.at = call.at /\ done.failed = call.failed /\ done.cached = FALSE
        /\ done.value = call.value
    BY <1>2, <1>5 DEF Done, CallFields
  <1> HIDE DEF done
  <1>7. AnswerStands(done, head)
    BY <1>2, <1>3, <1>6 DEF AnswerStands, Storable
  <1>8. CallOK(done, head)
    BY <1>3, <1>6, <1>7 DEF CallOK
  <1> QED
    BY <1>1, <1>4, <1>6, <1>8, OneCall

LEMMA NewBlockStep ==
  ASSUME CacheInv, NewBlock
  PROVE  CacheInv'
  <1>1. head \in Nat /\ head' \in Nat /\ head <= head' /\ UNCHANGED <<cacheType, entries, calls>>
    BY DEF CacheInv, CacheTypes, NewBlock
  <1>2. CacheTypes'
    BY <1>1 DEF CacheInv, CacheTypes
  <1>3. \A k \in DOMAIN entries : Storable(k[1], k[2], entries[k].value, entries[k].at, entries[k].failed, head')
    BY <1>1, LaterHead DEF CacheInv, EntriesOK
  <1>4. EntriesOK'
    BY <1>1, <1>3 DEF EntriesOK
  <1>5. \A c \in Callers : CallOK(calls[c], head')
    BY <1>1, LaterHead DEF CacheInv
  <1>6. \A v : Parsed(v)' = Parsed(v)
    BY <1>1 DEF Parsed
  <1>7. \A x, h : CallOK(x, h)' <=> CallOK(x, h)
    BY <1>6 DEF CallOK, AnswerStands
  <1>8. \A c \in Callers : CallOK(calls[c], head)'
    BY <1>1, <1>5, <1>7
  <1> QED
    BY <1>1, <1>2, <1>4, <1>8 DEF CacheInv

LEMMA NextCacheInv == CacheInv /\ [CacheNext]_cacheVars => CacheInv'
  <1> SUFFICES ASSUME CacheInv, [CacheNext]_cacheVars PROVE CacheInv'
    OBVIOUS
  <1>1. CASE UNCHANGED cacheVars
    <2>1. UNCHANGED <<cacheType, head, entries, calls>>
      BY <1>1 DEF cacheVars
    <2> QED
      BY <2>1 DEF CacheInv, CacheTypes, EntriesOK, CallOK, AnswerStands, Parsed
  <1>2. ASSUME NEW c \in Callers, LookUp(c) PROVE CacheInv'
    BY <1>2, LookUpStep
  <1>3. ASSUME NEW c \in Callers, Evaluate(c) PROVE CacheInv'
    BY <1>3, EvaluateStep
  <1>4. ASSUME NEW c \in Callers, Store(c) PROVE CacheInv'
    BY <1>4, StoreStep
  <1>5. ASSUME NEW c \in Callers, Return(c) PROVE CacheInv'
    BY <1>5, ReturnStep
  <1>6. ASSUME NEW c \in Callers, NEW q \in Calls, Dispatch(c, q) PROVE CacheInv'
    BY <1>6, DispatchStep
  <1>7. ASSUME NEW c \in Callers, NEW q \in Calls, Refuse(c, q) PROVE CacheInv'
    BY <1>7, RefuseStep
  <1>8. ASSUME NEW c \in Callers, NEW e \in Failures, Fail(c, e) PROVE CacheInv'
    BY <1>8, FailStep
  <1>9. CASE NewBlock
    BY <1>9, NewBlockStep
  <1> QED
    BY <1>1, <1>2, <1>3, <1>4, <1>5, <1>6, <1>7, <1>8, <1>9 DEF CacheNext

(* The invariant holds whatever is called, fails and is evicted, and however far the chain grows. *)
THEOREM CacheInvariance == CacheSpec => []CacheInv
  BY InitCacheInv, NextCacheInv, PTL DEF CacheSpec

(* Of what was stored only an error comes back as an object, and only through Redis. *)
LEMMA StoredAnswer ==
  ASSUME NEW m, NEW args, NEW v, NEW at, NEW failed, Storable(m, args, v, at, failed, head)
  PROVE  /\ v.st \in {"ok", "error"}
         /\ v.st = "ok" => Parsed(v) = v
         /\ Parsed(v).st = "object" => v.st = "error" /\ cacheType = "redis"
  <1>1. v.st \in {"ok", "null", "thrown", "error"}
    BY ValueStatus, FailedStatus DEF Storable, Source, CachedMethod
  <1>2. v.st \in {"ok", "error"}
    BY <1>1 DEF Storable, MayStore
  <1> QED
    BY <1>2 DEF Parsed

(* An answer of the cache about final blocks is what a fresh evaluation answers now, but for the price it quotes. *)
LEMMA CachedAnswer ==
  ASSUME CacheInv, NEW c \in Callers, Answered(c), calls[c].cached, ~calls[c].failed, Final(calls[c])
  PROVE  Current(calls[c])
  <1> DEFINE call == calls[c]
  <1>1. CallOK(call, head) /\ head \in Nat
    BY DEF CacheInv, CacheTypes
  <1>2. AnswerStands(call, head) /\ call.began \in 0 .. head
    BY <1>1 DEF CallOK, Answered
  <1>3. PICK v : Storable(call.method, call.args, v, call.at, call.failed, head) /\ call.value = Parsed(v)
    BY <1>2 DEF AnswerStands
  <1>4. /\ call.method \in DOMAIN Registry /\ Registry[call.method].cache.cached /\ call.at \in 0 .. head
        /\ MayStore(call.method, call.args, v) /\ v = Value(call.method, call.args, call.at, Price[call.at])
    BY <1>3 DEF Storable, CachedMethod, Source
  <1>5. Value(call.method, call.args, head, Price[call.at]) = v
    BY <1>1, <1>4, FinalStays
  <1>6. v.st # "error"
    <2> SUFFICES ASSUME v.st = "error" PROVE FALSE
      OBVIOUS
    <2> DEFINE n == NumberOf(Inner(call.args[BlockIndex(call.method)]), call.at)
    <2>1. Registry[call.method].kind = "history" /\ n > call.at
      BY <1>4, ValueStatus
    <2>2. n \in 0 .. call.at
      BY <2>1 DEF Final
    <2> QED
      BY <1>4, <2>1, <2>2
  <1>7. v.st = "ok" /\ call.value = v
    BY <1>3, <1>6, StoredAnswer
  <1>8. head \in call.began .. head
    BY <1>1, <1>2
  <1> QED
    BY <1>5, <1>7, <1>8 DEF Current

(* The answer of a call that did not find it in the cache is the services' during the call. *)
LEMMA FreshAnswer ==
  ASSUME CacheInv, NEW c \in Callers, Answered(c), ~calls[c].cached, ~calls[c].failed
  PROVE  Current(calls[c])
  <1> DEFINE call == calls[c]
  <1>1. CallOK(call, head)
    BY DEF CacheInv
  <1>2. AnswerStands(call, head)
    BY <1>1 DEF CallOK, Answered
  <1>3. call.at \in call.began .. head /\ call.value = Value(call.method, call.args, call.at, Price[call.at])
    BY <1>2 DEF AnswerStands, Source
  <1>4. call.value.st = "ok"
    BY <1>3, ValueStatus DEF Answered
  <1> QED
    BY <1>3, <1>4 DEF Current

(* For any calls, any number of them in flight, any growth of the chain and any prices, an answer that no failed query is  *)
(* behind is the services' at some moment of the call, unless it comes from the cache and was stored before its blocks     *)
(* were final, and but for the gas price that an answer of the cache quotes (cache.decorator.ts).                           *)
THEOREM CurrentAnswers == CacheSpec => []AnswersAreCurrent
  <1>1. CacheInv => AnswersAreCurrent
    BY CachedAnswer, FreshAnswer DEF AnswersAreCurrent
  <1> QED
    BY <1>1, CacheInvariance, PTL

(* For any calls, an error is answered as an error but for the two methods that return errors, from Redis, the services    *)
(* that go on without an answer, and the errors of the mirror node for which eth_call answers 0x.                          *)
THEOREM ErrorsShown == CacheSpec => []ErrorsStayErrors
  <1>1. ASSUME CacheInv, NEW c \in Callers, Answered(c),
               calls[c].failed \/ Value(calls[c].method, calls[c].args, calls[c].at, Price[calls[c].at]).st # "ok"
        PROVE  \/ cacheType = "redis" /\ calls[c].cached /\ Registry[calls[c].method].kind \in {"history", "call"}
               \/ calls[c].failed /\ Registry[calls[c].method].kind \in Lenient
               \/ calls[c].failed /\ Registry[calls[c].method].kind = "call" /\ calls[c].value = EmptyHex
    <2> DEFINE call == calls[c]
    <2>1. AnswerStands(call, head) /\ call.method \in DOMAIN Registry /\ call.value.st \in {"ok", "object"}
      BY <1>1 DEF CacheInv, CallOK, Answered
    <2>2. CASE ~call.cached
      <3>1. Source(call.method, call.args, call.value, call.at, call.failed)
        BY <2>1, <2>2 DEF AnswerStands
      <3>2. call.failed
        BY <1>1, <2>1, <3>1, ValueStatus DEF Source
      <3> QED
        BY <2>1, <3>1, <3>2, FailedStatus DEF Source
    <2>3. CASE call.cached
      <3>1. PICK v : Storable(call.method, call.args, v, call.at, call.failed, head) /\ call.value = Parsed(v)
        BY <2>1, <2>3 DEF AnswerStands
      <3>2. Source(call.method, call.args, v, call.at, call.failed) /\ CachedMethod(call.method)
        BY <3>1 DEF Storable
      <3>3. v.st \in {"ok", "error"} /\ (v.st = "ok" => call.value = v) /\ (call.value.st = "object" => cacheType = "redis")
        BY <3>1, StoredAnswer
      <3>4. CASE v.st = "ok"
        <4>1. call.failed
          BY <1>1, <3>2, <3>4 DEF Source
        <4> QED
          BY <3>2, <3>3, <3>4, <4>1, FailedStatus DEF Source
      <3>5. CASE v.st = "error"
        <4>1. call.value.st = "object"
          BY <2>1, <3>1, <3>5 DEF Parsed
        <4>2. call.failed => Registry[call.method].kind = "call"
          BY <3>2, <3>5, FailedStatus DEF Source
        <4>3. ~call.failed => Registry[call.method].kind = "history"
          BY <3>2, <3>5, ValueStatus DEF Source, CachedMethod
        <4> QED
          BY <2>3, <3>3, <4>1, <4>2, <4>3
      <3> QED
        BY <3>3, <3>4, <3>5
    <2> QED
      BY <2>2, <2>3
  <1>2. CacheInv => ErrorsStayErrors
    BY <1>1 DEF ErrorsStayErrors
  <1> QED
    BY <1>2, CacheInvariance, PTL
===============================================================================
