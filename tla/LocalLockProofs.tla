--------------------------- MODULE LocalLockProofs ---------------------------
(***************************************************************************)
(* LocalLock for every set of sessions and addresses and every size of the  *)
(* cache: types, one holder per mutex, and a timer for every owner that the *)
(* cache knows.                                                             *)
(***************************************************************************)
EXTENDS LocalLock, TLAPS

(* What adding to and removing from a list without repetitions does to it. *)

\* lPush of a session key that is not in the list keeps the list free of
\* repetitions and adds exactly that key.
LEMMA AppendUnique ==
  ASSUME NEW S, NEW q \in Seq(S), NoRepeats(q), NEW x \in S, x \notin Elems(q)
  PROVE  /\ Append(q, x) \in Seq(S)
         /\ NoRepeats(Append(q, x))
         /\ Elems(Append(q, x)) = Elems(q) \cup {x}
  <1>1. /\ Append(q, x) \in Seq(S)
        /\ Len(Append(q, x)) = Len(q) + 1
        /\ \A i \in 1 .. Len(q) : Append(q, x)[i] = q[i]
        /\ Append(q, x)[Len(q) + 1] = x
        /\ DOMAIN q = 1 .. Len(q)
        /\ DOMAIN Append(q, x) = 1 .. Len(q) + 1
        /\ Len(q) \in Nat
    OBVIOUS
  <1>2. NoRepeats(Append(q, x))
    BY <1>1 DEF NoRepeats, Elems
  <1>3. Elems(Append(q, x)) = Elems(q) \cup {x}
    BY <1>1 DEF Elems
  <1> QED
    BY <1>1, <1>2, <1>3

\* lRem of a session key removes exactly that key and keeps the others in
\* their order: entries i < j of the result were entries k < l before.
LEMMA WithoutUnique ==
  ASSUME NEW S, NEW q \in Seq(S), NoRepeats(q), NEW x
  PROVE  /\ Without(q, x) \in Seq(S)
         /\ NoRepeats(Without(q, x))
         /\ Elems(Without(q, x)) = Elems(q) \ {x}
         /\ \A i, j \in DOMAIN Without(q, x) : i < j =>
              \E k, l \in DOMAIN q : k < l /\ Without(q, x)[i] = q[k]
                                           /\ Without(q, x)[j] = q[l]
  <1>1. CASE x \notin Elems(q)
    BY <1>1 DEF Without
  <1>2. CASE x \in Elems(q)
    <2> DEFINE at == CHOOSE i \in DOMAIN q : q[i] = x
               n  == Len(q)
               w  == [i \in 1 .. n - 1 |-> IF i < at THEN q[i] ELSE q[i + 1]]
    <2>1. DOMAIN q = 1 .. n /\ n \in Nat
      OBVIOUS
    <2>2. at \in 1 .. n /\ q[at] = x
      BY <1>2, <2>1 DEF Elems
    <2>3. Without(q, x) = w
      BY <1>2 DEF Without
    <2> HIDE DEF at, n
    <2>4. n - 1 \in Nat /\ DOMAIN w = 1 .. n - 1
      BY <2>1, <2>2
    <2>5. \A i \in 1 .. n : q[i] \in S
      BY <2>1
    <2>6. w \in Seq(S)
      <3>1. \A i \in 1 .. n - 1 : w[i] \in S
        BY <2>1, <2>2, <2>5
      <3>2. w \in [1 .. n - 1 -> S]
        BY <3>1
      <3> QED
        BY <3>2, <2>4
    <2>7. \A i \in 1 .. n - 1 : w[i] # x
      BY <2>1, <2>2 DEF NoRepeats
    <2>8. \A i, j \in 1 .. n - 1 : i < j =>
            \E k, l \in 1 .. n : k < l /\ w[i] = q[k] /\ w[j] = q[l]
      <3> TAKE i, j \in 1 .. n - 1
      <3> HAVE i < j
      <3>1. CASE j < at
        BY <3>1, <2>1, <2>2
      <3>2. CASE i < at /\ at <= j
        BY <3>2, <2>1, <2>2
      <3>3. CASE at <= i
        BY <3>3, <2>1, <2>2
      <3> QED
        BY <3>1, <3>2, <3>3, <2>2
    <2>9. NoRepeats(w)
      <3> HIDE DEF w
      <3>1. ASSUME NEW i \in 1 .. n - 1, NEW j \in 1 .. n - 1, i < j
            PROVE  w[i] # w[j]
        <4>1. PICK k, l \in 1 .. n : k < l /\ w[i] = q[k] /\ w[j] = q[l]
          BY <2>8, <3>1
        <4> QED
          BY <4>1, <2>1 DEF NoRepeats
      <3>2. \A i, j \in 1 .. n - 1 : w[i] = w[j] => i = j
        BY <3>1, <2>1
      <3> QED
        BY <3>2, <2>4 DEF NoRepeats
    <2>10. Elems(w) = Elems(q) \ {x}
      <3>1. \A i \in 1 .. n - 1 : w[i] \in Elems(q)
        BY <2>1, <2>2 DEF Elems
      <3>2. ASSUME NEW k \in 1 .. n, q[k] # x
            PROVE  \E i \in 1 .. n - 1 : w[i] = q[k]
        <4>1. CASE k < at
          <5>1. k \in 1 .. n - 1 /\ w[k] = q[k]
            BY <4>1, <2>1, <2>2
          <5> QED
            BY <5>1
        <4>2. CASE at < k
          <5>1. k - 1 \in 1 .. n - 1 /\ w[k - 1] = q[k]
            BY <4>2, <2>1, <2>2
          <5> QED
            BY <5>1
        <4> QED
          BY <4>1, <4>2, <3>2, <2>1, <2>2
      <3> HIDE DEF w
      <3>3. Elems(w) = {w[i] : i \in 1 .. n - 1}
        BY <2>4 DEF Elems
      <3>4. Elems(q) = {q[i] : i \in 1 .. n}
        BY <2>1 DEF Elems
      <3> QED
        BY <3>1, <3>2, <3>3, <3>4, <2>7
    <2> HIDE DEF w
    <2>11. \A i, j \in DOMAIN w : i < j =>
             \E k, l \in DOMAIN q : k < l /\ w[i] = q[k] /\ w[j] = q[l]
      <3> SUFFICES ASSUME NEW i \in DOMAIN w, NEW j \in DOMAIN w, i < j
                   PROVE  \E k, l \in DOMAIN q : k < l /\ w[i] = q[k] /\ w[j] = q[l]
        OBVIOUS
      <3>1. i \in 1 .. n - 1 /\ j \in 1 .. n - 1
        BY <2>4
      <3>2. PICK k, l \in 1 .. n : k < l /\ w[i] = q[k] /\ w[j] = q[l]
        BY <3>1, <2>8
      <3> QED
        BY <3>2, <2>1
    <2> QED
      BY <2>3, <2>6, <2>9, <2>10, <2>11
  <1> QED
    BY <1>1, <1>2

\* The tail of a list without repetitions has none and adds nothing.
LEMMA TailUnique ==
  ASSUME NEW S, NEW q \in Seq(S), NoRepeats(q), q # <<>>
  PROVE  /\ Tail(q) \in Seq(S)
         /\ NoRepeats(Tail(q))
         /\ Elems(Tail(q)) \subseteq Elems(q)
  <1>1. /\ Tail(q) \in Seq(S)
        /\ Len(q) \in Nat /\ Len(q) >= 1 /\ DOMAIN q = 1 .. Len(q)
        /\ Len(Tail(q)) = Len(q) - 1 /\ DOMAIN Tail(q) = 1 .. Len(q) - 1
        /\ \A i \in 1 .. Len(q) - 1 : Tail(q)[i] = q[i + 1]
    OBVIOUS
  <1>2. \A i \in 1 .. Len(q) - 1 : i + 1 \in 1 .. Len(q)
    BY <1>1
  <1>3. NoRepeats(Tail(q))
    BY <1>1, <1>2 DEF NoRepeats
  <1>4. Elems(Tail(q)) \subseteq Elems(q)
    BY <1>1, <1>2 DEF Elems
  <1> QED
    BY <1>1, <1>3, <1>4

\* A read of a cached entry moves it to the end and keeps the others.
LEMMA TouchUnique ==
  ASSUME NEW S, NEW q \in Seq(S), NoRepeats(q), NEW x \in S, x \in Elems(q)
  PROVE  /\ Append(Without(q, x), x) \in Seq(S)
         /\ NoRepeats(Append(Without(q, x), x))
         /\ Elems(Append(Without(q, x), x)) = Elems(q)
  <1>1. /\ Without(q, x) \in Seq(S)
        /\ NoRepeats(Without(q, x))
        /\ Elems(Without(q, x)) = Elems(q) \ {x}
    BY WithoutUnique
  <1> HIDE DEF Without, Elems, NoRepeats
  <1>2. x \notin Elems(Without(q, x))
    BY <1>1
  <1>3. /\ Append(Without(q, x), x) \in Seq(S)
        /\ NoRepeats(Append(Without(q, x), x))
        /\ Elems(Append(Without(q, x), x)) = Elems(Without(q, x)) \cup {x}
    BY <1>1, <1>2, AppendUnique
  <1> QED
    BY <1>1, <1>3

\* The first entry of a list without repetitions leaves its tail behind.
LEMMA WithoutHead ==
  ASSUME NEW S, NEW q \in Seq(S), NoRepeats(q), q # <<>>
  PROVE  Without(q, Head(q)) = Tail(q)
  <1> DEFINE x  == Head(q)
             n  == Len(q)
             at == CHOOSE i \in DOMAIN q : q[i] = x
  <1>1. /\ n \in Nat /\ n >= 1 /\ DOMAIN q = 1 .. n
        /\ q[1] = x
        /\ Tail(q) \in Seq(S) /\ Len(Tail(q)) = n - 1
        /\ \A i \in 1 .. n - 1 : Tail(q)[i] = q[i + 1]
    OBVIOUS
  <1>2. x \in Elems(q)
    BY <1>1 DEF Elems
  <1>3. at \in DOMAIN q /\ q[at] = x
    BY <1>1
  <1>4. at = 1
    BY <1>1, <1>3 DEF NoRepeats
  <1>5. Without(q, x) = [i \in 1 .. n - 1 |-> IF i < at THEN q[i] ELSE q[i + 1]]
    BY <1>2 DEF Without
  <1> HIDE DEF at, x, n
  <1>6. \A i \in 1 .. n - 1 : Without(q, x)[i] = Tail(q)[i]
    BY <1>1, <1>4, <1>5
  <1>7. ASSUME NEW t \in Seq(S)
        PROVE  t = [i \in 1 .. Len(t) |-> t[i]]
    OBVIOUS
  <1>8. Tail(q) = [i \in 1 .. n - 1 |-> Tail(q)[i]]
    BY <1>1, <1>7, Zenon
  <1>9. Without(q, x) = [i \in 1 .. n - 1 |-> Without(q, x)[i]]
    BY <1>5
  <1> QED
    BY <1>6, <1>8, <1>9 DEF x

\* The tail of a longer list: what was appended is still at its end.
LEMMA TailOfAppend ==
  ASSUME NEW S, NEW q \in Seq(S), NEW x \in S, q # <<>>
  PROVE  Tail(Append(q, x)) = Append(Tail(q), x)
  <1> DEFINE n == Len(q)
             a == Tail(Append(q, x))
             b == Append(Tail(q), x)
  <1>1. n \in Nat /\ n >= 1
    OBVIOUS
  <1>2. a \in Seq(S) /\ Len(a) = n /\ a[n] = x /\ \A i \in 1 .. n - 1 : a[i] = q[i + 1]
    OBVIOUS
  <1>3. b \in Seq(S) /\ Len(b) = n /\ b[n] = x /\ \A i \in 1 .. n - 1 : b[i] = q[i + 1]
    OBVIOUS
  <1>5. ASSUME NEW t \in Seq(S)
        PROVE  t = [i \in 1 .. Len(t) |-> t[i]]
    OBVIOUS
  <1> HIDE DEF a, b, n
  <1>4. \A i \in 1 .. n : a[i] = b[i]
    BY <1>1, <1>2, <1>3
  <1>6. a = [i \in 1 .. n |-> a[i]] /\ b = [i \in 1 .. n |-> b[i]]
    BY <1>2, <1>3, <1>5, Zenon
  <1> QED
    BY <1>4, <1>6 DEF a, b

\* The cache has one lock state per address, created by a session that is
\* not idle; a session waits at the lock state of its own address.
CacheInv ==
  /\ \A k, l \in Elems(cache) : AddressOf[k] = AddressOf[l] => k = l
  /\ \A l \in Elems(cache) : pc[l] # "idle"
  /\ \A s \in Sessions : pc[s] # "idle" =>
       /\ stateOf[s] \in Sessions
       /\ AddressOf[stateOf[s]] = AddressOf[s]
       /\ pc[stateOf[s]] # "idle"

\* The session key of a lock state belongs to the head of its mutex, which
\* got past acquireLock.
KeyInv ==
  \A l, s \in Sessions : sessionKey[l] = s =>
    /\ mutex[l] # <<>> /\ Head(mutex[l]) = s
    /\ stateOf[s] = l
    /\ pc[s] \in {"holding", "released"}

\* A session is at most once in a mutex, that of its own lock state.
MutexInv ==
  \A l \in Sessions : /\ NoRepeats(mutex[l])
                      /\ \A s \in Elems(mutex[l]) : stateOf[s] = l /\ pc[s] # "idle"

\* Whoever holds a lock, and did not lose it to its timer, is its owner.
HoldInv == \A s \in Sessions : Holding(s) => sessionKey[stateOf[s]] = s

\* A timer is set when acquireLock returns.
TimerInv == \A s \in timers : pc[s] \in {"holding", "released"}

IInv == TypeOK /\ CacheInv /\ KeyInv /\ MutexInv /\ HoldInv /\ TimerInv /\ OwnerHasTimer

\* The initial state satisfies the inductive invariant.
LEMMA InitIInv == ASSUME Init PROVE IInv
  <1>1. Elems(<<>>) = {} /\ NoRepeats(<<>>)
    BY DEF Elems, NoRepeats
  <1>2. TypeOK
    BY <1>1 DEF Init, TypeOK
  <1> QED
    BY <1>1, <1>2, LocalAssumption DEF Init, IInv, CacheInv, KeyInv, MutexInv, HoldInv,
                                          Holding, TimerInv, OwnerHasTimer

\* getOrCreateState and mutex.acquire, with or without an eviction.
LEMMA AcquireStep ==
  ASSUME IInv, NEW s \in Sessions, AcquireLock(s)
  PROVE  IInv'
  <1> DEFINE a == AddressOf[s]
             l == IF Cached(a) = {} THEN s ELSE CHOOSE c \in Cached(a) : TRUE
  <1>1. /\ pc[s] = "idle"
        /\ cache' = IF Cached(a) = {} THEN Insert(s) ELSE Touch(l)
        /\ stateOf' = [stateOf EXCEPT ![s] = l]
        /\ mutex' = [mutex EXCEPT ![l] = Append(@, s)]
        /\ pc' = [pc EXCEPT ![s] = "waiting"]
        /\ UNCHANGED <<sessionKey, timers, expired>>
    BY DEF AcquireLock
  <1>2. s \notin Elems(cache)
    BY <1>1 DEF IInv, CacheInv
  <1>3. /\ Cached(a) # {} => l \in Cached(a)
        /\ Cached(a) = {} => l = s
    OBVIOUS
  <1> HIDE DEF l
  <1>4. Elems(cache) \subseteq Sessions
    BY DEF IInv, TypeOK, Elems
  <1>5. l \in Sessions /\ AddressOf[l] = AddressOf[s]
    BY <1>3, <1>4 DEF Cached
  <1>6. /\ cache' \in Seq(Sessions) /\ NoRepeats(cache')
        /\ Elems(cache') \subseteq Elems(cache) \cup {s}
        /\ Cached(a) # {} => Elems(cache') = Elems(cache)
    <2>1. CASE Cached(a) # {}
      <3>1. l \in Elems(cache)
        BY <2>1, <1>3 DEF Cached
      <3> QED
        BY <2>1, <3>1, <1>1, <1>5, TouchUnique DEF Touch, IInv, TypeOK
    <2>2. CASE Cached(a) = {} /\ Len(cache) = MaxEntries
      <3>1. cache # <<>>
        BY <2>2, LocalAssumption DEF IInv, TypeOK
      <3>2. /\ Tail(cache) \in Seq(Sessions) /\ NoRepeats(Tail(cache))
            /\ Elems(Tail(cache)) \subseteq Elems(cache)
        BY <3>1, TailUnique DEF IInv, TypeOK
      <3>3. s \notin Elems(Tail(cache))
        BY <3>2, <1>2
      <3>4. cache' = Append(Tail(cache), s)
        BY <2>2, <1>1 DEF Insert
      <3> DEFINE q == Tail(cache)
      <3> HIDE DEF q
      <3>q. q \in Seq(Sessions) /\ NoRepeats(q) /\ s \notin Elems(q) /\ cache' = Append(q, s)
        BY <3>2, <3>3, <3>4 DEF q
      <3>5. /\ cache' \in Seq(Sessions) /\ NoRepeats(cache')
            /\ Elems(cache') = Elems(Tail(cache)) \cup {s}
        BY <3>q, AppendUnique, Zenon DEF q
      <3> QED
        BY <2>2, <3>2, <3>5
    <2>3. CASE Cached(a) = {} /\ Len(cache) # MaxEntries
      <3>1. cache' = Append(cache, s)
        BY <2>3, <1>1 DEF Insert
      <3> QED
        BY <2>3, <3>1, <1>2, AppendUnique DEF IInv, TypeOK
    <2> QED
      BY <2>1, <2>2, <2>3
  <1>7. TypeOK'
    BY <1>1, <1>5, <1>6 DEF IInv, TypeOK
  <1>8. CacheInv'
    <2>1. \A k \in Elems(cache) : Cached(a) = {} => AddressOf[k] # a
      BY DEF Cached
    <2>2. \A k, m \in Elems(cache') : AddressOf[k] = AddressOf[m] => k = m
      BY <1>6, <2>1 DEF IInv, CacheInv
    <2>3. \A k \in Elems(cache') : pc'[k] # "idle"
      BY <1>1, <1>4, <1>6 DEF IInv, CacheInv, TypeOK
    <2>4. pc'[l] # "idle"
      BY <1>1, <1>3, <1>5 DEF IInv, CacheInv, TypeOK, Cached
    <2>5. \A t \in Sessions : pc'[t] # "idle" =>
            /\ stateOf'[t] \in Sessions
            /\ AddressOf[stateOf'[t]] = AddressOf[t]
            /\ pc'[stateOf'[t]] # "idle"
      BY <1>1, <1>5, <2>4 DEF IInv, CacheInv, TypeOK
    <2> QED
      BY <2>2, <2>3, <2>5 DEF CacheInv
  <1>9. KeyInv'
    <2> SUFFICES ASSUME NEW m \in Sessions, NEW t \in Sessions, sessionKey[m] = t
                 PROVE  /\ mutex'[m] # <<>> /\ Head(mutex'[m]) = t
                        /\ stateOf'[t] = m
                        /\ pc'[t] \in {"holding", "released"}
      BY <1>1 DEF KeyInv
    <2>1. /\ mutex[m] # <<>> /\ Head(mutex[m]) = t
          /\ stateOf[t] = m
          /\ pc[t] \in {"holding", "released"}
          /\ mutex[m] \in Seq(Sessions)
      BY DEF IInv, KeyInv, TypeOK
    <2>2. t # s
      BY <1>1, <2>1
    <2>3. Append(mutex[m], s) # <<>> /\ Head(Append(mutex[m], s)) = Head(mutex[m])
      BY <2>1
    <2> QED
      BY <1>1, <2>1, <2>2, <2>3 DEF IInv, TypeOK
  <1>10. HoldInv'
    BY <1>1 DEF IInv, HoldInv, Holding, TypeOK
  <1>11. OwnerHasTimer'
    <2>1. sessionKey[s] = None
      <3>1. sessionKey[s] \in Sessions => pc[s] # "idle"
        BY DEF IInv, KeyInv, CacheInv
      <3> QED
        BY <3>1, <1>1 DEF IInv, TypeOK
    <2> QED
      BY <1>1, <1>6, <2>1 DEF IInv, OwnerHasTimer
  <1>12. TimerInv'
    BY <1>1 DEF IInv, TimerInv, TypeOK
  <1>13. MutexInv'
    <2>1. s \notin Elems(mutex[l])
      BY <1>1, <1>5 DEF IInv, MutexInv
    <2>2. /\ NoRepeats(Append(mutex[l], s))
          /\ Elems(Append(mutex[l], s)) = Elems(mutex[l]) \cup {s}
      BY <2>1, <1>5, AppendUnique DEF IInv, MutexInv, TypeOK
    <2>3. \A m \in Sessions : m # l => mutex'[m] = mutex[m]
      BY <1>1 DEF IInv, TypeOK
    <2>4. mutex'[l] = Append(mutex[l], s)
      BY <1>1, <1>5 DEF IInv, TypeOK
    <2>5. \A m \in Sessions : Elems(mutex[m]) \subseteq Sessions
      BY DEF IInv, TypeOK, Elems
    <2>6. \A t \in Sessions : t # s => stateOf'[t] = stateOf[t] /\ pc'[t] = pc[t]
      BY <1>1 DEF IInv, TypeOK
    <2>7. stateOf'[s] = l /\ pc'[s] = "waiting"
      BY <1>1 DEF IInv, TypeOK
    <2>8. \A m \in Sessions : s \notin Elems(mutex[m])
      BY <1>1 DEF IInv, MutexInv
    <2>9. ASSUME NEW m \in Sessions
          PROVE  /\ NoRepeats(mutex'[m])
                 /\ \A t \in Elems(mutex'[m]) : stateOf'[t] = m /\ pc'[t] # "idle"
      <3>1. CASE m = l
        BY <3>1, <2>2, <2>4, <2>5, <2>6, <2>7, <2>8 DEF IInv, MutexInv
      <3>2. CASE m # l
        BY <3>2, <2>3, <2>5, <2>6, <2>8 DEF IInv, MutexInv
      <3> QED
        BY <3>1, <3>2
    <2> QED
      BY <2>9 DEF MutexInv
  <1> QED
    BY <1>7, <1>8, <1>9, <1>10, <1>11, <1>12, <1>13 DEF IInv

\* A step that leaves the mutexes alone and makes nobody idle.
LEMMA KeepsMutex ==
  ASSUME IInv, NEW s \in Sessions, NEW to \in {"holding", "released"},
         pc' = [pc EXCEPT ![s] = to] \/ UNCHANGED pc,
         UNCHANGED <<mutex, stateOf>>
  PROVE  MutexInv'
  <1>1. \A l \in Sessions : Elems(mutex[l]) \subseteq Sessions
    BY DEF IInv, TypeOK, Elems
  <1>2. \A t \in Sessions : pc[t] # "idle" => pc'[t] # "idle"
    BY DEF IInv, TypeOK
  <1> QED
    BY <1>1, <1>2 DEF IInv, MutexInv, Elems, NoRepeats

\* The continuation of mutex.acquire.
LEMMA GrantedStep ==
  ASSUME IInv, NEW s \in Sessions, Granted(s)
  PROVE  IInv'
  <1> DEFINE l == stateOf[s]
  <1>1. /\ pc[s] = "waiting"
        /\ mutex[l] # <<>> /\ Head(mutex[l]) = s
        /\ sessionKey' = [sessionKey EXCEPT ![l] = s]
        /\ timers' = timers \cup {s}
        /\ pc' = [pc EXCEPT ![s] = "holding"]
        /\ UNCHANGED <<cache, mutex, stateOf, expired>>
    BY DEF Granted
  <1>2. l \in Sessions
    BY <1>1 DEF IInv, CacheInv
  <1>3. sessionKey[l] = None
    BY <1>1, <1>2 DEF IInv, KeyInv, TypeOK
  <1>4. TypeOK'
    BY <1>1, <1>2 DEF IInv, TypeOK
  <1>5. CacheInv'
    BY <1>1 DEF IInv, CacheInv, TypeOK, Elems
  <1>6. KeyInv'
    BY <1>1, <1>2 DEF IInv, KeyInv, TypeOK
  <1>7. HoldInv'
    BY <1>1, <1>2, <1>3, LocalAssumption DEF IInv, HoldInv, Holding, CacheInv, TypeOK
  <1>8. OwnerHasTimer'
    BY <1>1, <1>2 DEF IInv, OwnerHasTimer, TypeOK, Elems
  <1>9. TimerInv'
    BY <1>1 DEF IInv, TimerInv, TypeOK
  <1>10. MutexInv'
    BY <1>1, KeepsMutex
  <1> QED
    BY <1>4, <1>5, <1>6, <1>7, <1>8, <1>9, <1>10 DEF IInv

\* A release, by the owner or by its timer, of the lock state the cache has
\* for the address: the owner does not hold it any more.
LEMMA OwnerStep ==
  ASSUME IInv, NEW s \in Sessions, ReleaseIfOwner(s), UNCHANGED stateOf,
         \/ pc' = [pc EXCEPT ![s] = "released"] /\ UNCHANGED expired
         \/ UNCHANGED pc /\ expired' = expired \cup {s},
         pc[s] \in {"holding", "released"}
  PROVE  IInv'
  <1>1. PICK l \in Elems(cache) : cache' = Touch(l) /\ sessionKey[l] = s /\ DoRelease(l)
    BY DEF ReleaseIfOwner, Cached
  <1>2. l \in Sessions /\ Elems(cache) \subseteq Sessions
    BY DEF IInv, TypeOK, Elems
  <1>3. cache' \in Seq(Sessions) /\ NoRepeats(cache') /\ Elems(cache') = Elems(cache)
    BY <1>1, <1>2, TouchUnique DEF IInv, TypeOK, Touch
  <1>4. /\ timers' = timers \ {s}
        /\ sessionKey' = [sessionKey EXCEPT ![l] = None]
        /\ mutex' = [mutex EXCEPT ![l] = Tail(@)]
    BY <1>1 DEF DoRelease
  <1>5. mutex[l] # <<>> /\ mutex[l] \in Seq(Sessions) /\ stateOf[s] = l
    BY <1>1, <1>2 DEF IInv, KeyInv, TypeOK
  <1>6. TypeOK'
    <2>1. Tail(mutex[l]) \in Seq(Sessions)
      BY <1>5
    <2>2. mutex' \in [Sessions -> Seq(Sessions)]
      BY <1>2, <1>4, <2>1 DEF IInv, TypeOK
    <2> QED
      BY <1>2, <1>3, <1>4, <2>2 DEF IInv, TypeOK
  <1>7. CacheInv'
    BY <1>2, <1>3 DEF IInv, CacheInv, TypeOK
  <1>8. KeyInv'
    BY <1>1, <1>2, <1>4, <1>5, LocalAssumption DEF IInv, KeyInv, TypeOK
  <1>9. HoldInv'
    BY <1>1, <1>2, <1>4, <1>5 DEF IInv, HoldInv, Holding, CacheInv, TypeOK
  <1>10. OwnerHasTimer'
    BY <1>1, <1>2, <1>3, <1>4, <1>5 DEF IInv, OwnerHasTimer, KeyInv, TypeOK
  <1>11. TimerInv'
    BY <1>4 DEF IInv, TimerInv, TypeOK
  <1>12. MutexInv'
    <2>1. /\ NoRepeats(Tail(mutex[l]))
          /\ Elems(Tail(mutex[l])) \subseteq Elems(mutex[l])
      BY <1>2, <1>5, TailUnique DEF IInv, MutexInv
    <2>2. \A m \in Sessions : NoRepeats(mutex'[m]) /\ Elems(mutex'[m]) \subseteq Elems(mutex[m])
      BY <1>2, <1>4, <2>1 DEF IInv, TypeOK, MutexInv
    <2>3. \A m \in Sessions : Elems(mutex[m]) \subseteq Sessions
      BY DEF IInv, TypeOK, Elems
    <2>4. \A t \in Sessions : pc[t] # "idle" => pc'[t] # "idle"
      BY DEF IInv, TypeOK
    <2> QED
      BY <2>2, <2>3, <2>4 DEF IInv, MutexInv
  <1> QED
    BY <1>6, <1>7, <1>8, <1>9, <1>10, <1>11, <1>12 DEF IInv

\* A release, or a timer, of a session that the cached lock state does not
\* belong to.
LEMMA OtherStep ==
  ASSUME IInv, NEW s \in Sessions, LeaveToOwner(s), UNCHANGED <<stateOf, expired>>,
         \/ pc' = [pc EXCEPT ![s] = "released"] /\ UNCHANGED timers
         \/ UNCHANGED pc /\ timers' = timers \ {s},
         pc[s] \in {"holding", "released"}
  PROVE  IInv'
  <1>1. /\ \A l \in Cached(AddressOf[s]) : sessionKey[l] # s
        /\ UNCHANGED <<mutex, sessionKey>>
    BY DEF LeaveToOwner
  <1>2. Elems(cache) \subseteq Sessions
    BY DEF IInv, TypeOK, Elems
  <1>3. cache' \in Seq(Sessions) /\ NoRepeats(cache') /\ Elems(cache') = Elems(cache)
    <2>1. CASE Cached(AddressOf[s]) = {}
      BY <2>1 DEF LeaveToOwner, IInv, TypeOK
    <2>2. CASE Cached(AddressOf[s]) # {}
      <3>1. PICK l \in Cached(AddressOf[s]) : cache' = Touch(l)
        BY <2>2 DEF LeaveToOwner
      <3>2. l \in Elems(cache)
        BY DEF Cached
      <3> QED
        BY <3>1, <3>2, <1>2, TouchUnique DEF IInv, TypeOK, Touch
    <2> QED
      BY <2>1, <2>2
  <1>4. TypeOK'
    BY <1>1, <1>3 DEF IInv, TypeOK
  <1>5. CacheInv'
    BY <1>2, <1>3 DEF IInv, CacheInv, TypeOK
  <1>6. KeyInv'
    <2>1. \A t \in Sessions : pc[t] \in {"holding", "released"} =>
            pc'[t] \in {"holding", "released"}
      BY DEF IInv, TypeOK
    <2> QED
      BY <1>1, <2>1 DEF IInv, KeyInv
  <1>7. HoldInv'
    BY <1>1 DEF IInv, HoldInv, Holding, TypeOK
  <1>8. OwnerHasTimer'
    <2>1. \A l \in Elems(cache) : sessionKey[l] # s
      BY <1>1, <1>2 DEF IInv, KeyInv, CacheInv, Cached
    <2> QED
      BY <1>1, <1>3, <2>1 DEF IInv, OwnerHasTimer
  <1>9. TimerInv'
    BY DEF IInv, TimerInv, TypeOK
  <1>10. MutexInv'
    BY <1>1, KeepsMutex
  <1> QED
    BY <1>4, <1>5, <1>6, <1>7, <1>8, <1>9, <1>10 DEF IInv

\* Every step of the relay keeps the inductive invariant.
LEMMA NextIInv == ASSUME IInv, [Next]_vars PROVE IInv'
  <1>1. CASE UNCHANGED vars
    BY <1>1 DEF vars, IInv, TypeOK, CacheInv, KeyInv, MutexInv, HoldInv, Holding,
                TimerInv, OwnerHasTimer, Elems, NoRepeats
  <1>2. ASSUME NEW s \in Sessions, AcquireLock(s) PROVE IInv'
    BY <1>2, AcquireStep
  <1>3. ASSUME NEW s \in Sessions, Granted(s) PROVE IInv'
    BY <1>3, GrantedStep
  <1>4. ASSUME NEW s \in Sessions, ReleaseLock(s) PROVE IInv'
    <2>1. CASE ReleaseIfOwner(s)
      BY <1>4, <2>1, OwnerStep DEF ReleaseLock
    <2>2. CASE LeaveToOwner(s) /\ UNCHANGED timers
      BY <1>4, <2>2, OtherStep DEF ReleaseLock
    <2> QED
      BY <1>4, <2>1, <2>2 DEF ReleaseLock
  <1>5. ASSUME NEW s \in Sessions, ForceReleaseExpiredLock(s) PROVE IInv'
    <2>1. pc[s] \in {"holding", "released"} /\ UNCHANGED <<pc, stateOf>>
      BY <1>5 DEF ForceReleaseExpiredLock, IInv, TimerInv
    <2>2. CASE ReleaseIfOwner(s) /\ expired' = expired \cup {s}
      BY <2>1, <2>2, OwnerStep
    <2>3. CASE LeaveToOwner(s) /\ timers' = timers \ {s} /\ UNCHANGED expired
      BY <2>1, <2>3, OtherStep
    <2> QED
      BY <1>5, <2>2, <2>3 DEF ForceReleaseExpiredLock
  <1> QED
    BY <1>1, <1>2, <1>3, <1>4, <1>5 DEF Next
----------------------------------------------------------------------------
\* The inductive invariant of LocalLockStrategy.
THEOREM Invariance == Spec => []IInv
  <1>1. Init => IInv
    BY InitIInv
  <1>2. IInv /\ [Next]_vars => IInv'
    BY NextIInv
  <1> QED
    BY <1>1, <1>2, PTL DEF Spec

\* Type correctness of the lock states, the cache and the sessions.
THEOREM TypeCorrectness == Spec => []TypeOK
  <1>1. IInv => TypeOK
    BY DEF IInv
  <1> QED
    BY <1>1, Invariance, PTL

\* A mutex never has two holders, whatever getOrCreateState evicts and however
\* late the timers and the second releaseLock calls come.
THEOREM OneHolderPerMutexHolds == Spec => []OneHolderPerMutex
  <1>1. IInv => OneHolderPerMutex
    BY DEF IInv, HoldInv, OneHolderPerMutex
  <1> QED
    BY <1>1, Invariance, PTL

\* Every owner that the cache still knows has the timer of its own acquireLock
\* to end its lock.
THEOREM OwnerHasTimerHolds == Spec => []OwnerHasTimer
  <1>1. IInv => OwnerHasTimer
    BY DEF IInv
  <1> QED
    BY <1>1, Invariance, PTL
----------------------------------------------------------------------------
(* The step simulation of FifoLease.                                       *)

\* A step that changes neither the watched mutex nor its session key, nor who
\* was served at it, is a stuttering step of the lease.
LEMMA LeaseStutters ==
  ASSUME UNCHANGED <<mutex[Watched], sessionKey[Watched], Served>>
  PROVE  UNCHANGED Lease!leaseVars
  BY DEF Lease!leaseVars

\* acquireLock enters the queue.
LEMMA AcquireEnters ==
  ASSUME IInv, NEW s \in Sessions, AcquireLock(s)
  PROVE  [Lease!LeaseNext]_(Lease!leaseVars)
  <1> DEFINE q == IF sessionKey[Watched] = None THEN mutex[Watched] ELSE Tail(mutex[Watched])
  <1>1. PICK l \in Sessions :
          /\ pc[s] = "idle"
          /\ stateOf' = [stateOf EXCEPT ![s] = l]
          /\ mutex' = [mutex EXCEPT ![l] = Append(@, s)]
          /\ pc' = [pc EXCEPT ![s] = "waiting"]
          /\ UNCHANGED sessionKey
    <2>1. Elems(cache) \subseteq Sessions
      BY DEF IInv, TypeOK, Elems
    <2> QED
      BY <2>1 DEF AcquireLock, Cached
  <1>2. Served' = Served
    BY <1>1 DEF Served, IInv, TypeOK
  <1>3. CASE l # Watched
    BY <1>1, <1>2, <1>3, LocalAssumption, LeaseStutters DEF IInv, TypeOK
  <1>4. CASE l = Watched
    <2>1. mutex'[Watched] = Append(mutex[Watched], s) /\ mutex[Watched] \in Seq(Sessions)
      BY <1>1, <1>4, LocalAssumption DEF IInv, TypeOK
    <2>2. sessionKey[Watched] # None => mutex[Watched] # <<>>
      BY LocalAssumption DEF IInv, KeyInv, TypeOK
    <2>3. mutex[Watched] # <<>> => Tail(Append(mutex[Watched], s)) = Append(Tail(mutex[Watched]), s)
      BY <2>1, TailOfAppend
    <2>4. q' = Append(q, s)
      BY <1>1, <2>1, <2>2, <2>3
    <2>5. s \notin Elems(mutex[Watched])
      BY <1>1, LocalAssumption DEF IInv, MutexInv
    <2>6. Elems(q) \subseteq Elems(mutex[Watched])
      BY <2>1, <2>2, TailUnique, LocalAssumption DEF IInv, MutexInv
    <2>7. s \notin Served
      BY <1>1 DEF Served
    <2>8. Lease!Enter(s)
      BY <1>1, <1>2, <2>4, <2>5, <2>6, <2>7 DEF Lease!Enter, Lease!Elems, Elems
    <2> QED
      BY <2>8 DEF Lease!LeaseNext
  <1> QED
    BY <1>3, <1>4

\* The continuation of mutex.acquire is a grant.
LEMMA GrantedGrants ==
  ASSUME IInv, NEW s \in Sessions, Granted(s)
  PROVE  [Lease!LeaseNext]_(Lease!leaseVars)
  <1> DEFINE l == stateOf[s]
             m == mutex[Watched]
  <1>1. /\ pc[s] = "waiting"
        /\ mutex[l] # <<>> /\ Head(mutex[l]) = s
        /\ sessionKey' = [sessionKey EXCEPT ![l] = s]
        /\ pc' = [pc EXCEPT ![s] = "holding"]
        /\ UNCHANGED <<mutex, stateOf>>
    BY DEF Granted
  <1>2. l \in Sessions
    BY <1>1 DEF IInv, CacheInv
  <1>3. CASE l # Watched
    <2>1. Served' = Served
      BY <1>1, <1>3 DEF Served, IInv, TypeOK
    <2> QED
      BY <1>1, <1>2, <1>3, <2>1, LocalAssumption, LeaseStutters DEF IInv, TypeOK
  <1>4. CASE l = Watched
    <2>1. sessionKey[Watched] = None
      <3>1. sessionKey[l] \in Sessions => pc[Head(mutex[l])] # "waiting"
        BY <1>2 DEF IInv, KeyInv
      <3> QED
        BY <1>1, <1>2, <1>4, <3>1 DEF IInv, TypeOK
    <2>2. Served' = Served \cup {s} /\ s \notin Served
      BY <1>1, <1>4 DEF Served, IInv, TypeOK
    <2>3. sessionKey'[Watched] = s /\ s # None
      BY <1>1, <1>2, <1>4, LocalAssumption DEF IInv, TypeOK
    <2>4. m \in Seq(Sessions) /\ NoRepeats(m) /\ m # <<>> /\ Head(m) = s
      BY <1>1, <1>2, <1>4 DEF IInv, TypeOK, MutexInv
    <2>5. Without(m, s) = Tail(m)
      BY <2>4, WithoutHead
    <2>6. Lease!Without(m, s) = Without(m, s)
      BY DEF Lease!Without, Without, Lease!Elems, Elems
    <2>7. Lease!Grant(s)
      BY <1>1, <2>1, <2>2, <2>3, <2>4, <2>5, <2>6 DEF Lease!Grant
    <2> QED
      BY <2>7 DEF Lease!LeaseNext
  <1> QED
    BY <1>3, <1>4

\* A release, or a timer, of the owner ends its lease.
LEMMA OwnerEnds ==
  ASSUME IInv, NEW s \in Sessions, ReleaseIfOwner(s), UNCHANGED stateOf,
         pc' = [pc EXCEPT ![s] = "released"] \/ UNCHANGED pc,
         pc[s] \in {"holding", "released"}
  PROVE  [Lease!LeaseNext]_(Lease!leaseVars)
  <1>1. PICK l \in Elems(cache) : sessionKey[l] = s /\ DoRelease(l)
    BY DEF ReleaseIfOwner, Cached
  <1>2. l \in Sessions
    BY DEF IInv, TypeOK, Elems
  <1>3. /\ sessionKey' = [sessionKey EXCEPT ![l] = None]
        /\ mutex' = [mutex EXCEPT ![l] = Tail(@)]
    BY <1>1 DEF DoRelease
  <1>4. Served' = Served
    BY DEF Served, IInv, TypeOK
  <1>5. CASE l # Watched
    BY <1>2, <1>3, <1>4, <1>5, LocalAssumption, LeaseStutters DEF IInv, TypeOK
  <1>6. CASE l = Watched
    <2>1. /\ sessionKey'[Watched] = None /\ sessionKey[Watched] # None
          /\ mutex'[Watched] = Tail(mutex[Watched])
      BY <1>1, <1>2, <1>3, <1>6, LocalAssumption DEF IInv, TypeOK
    <2>2. Lease!End
      BY <1>4, <2>1 DEF Lease!End
    <2> QED
      BY <2>2 DEF Lease!LeaseNext
  <1> QED
    BY <1>5, <1>6

\* A late release, or a late timer, does nothing to the lease.
LEMMA OtherStutters ==
  ASSUME IInv, NEW s \in Sessions, LeaveToOwner(s), UNCHANGED stateOf,
         pc' = [pc EXCEPT ![s] = "released"] \/ UNCHANGED pc,
         pc[s] \in {"holding", "released"}
  PROVE  [Lease!LeaseNext]_(Lease!leaseVars)
  <1>1. Served' = Served
    BY DEF Served, IInv, TypeOK
  <1> QED
    BY <1>1, LeaseStutters DEF LeaveToOwner

\* Every step is a step of the lease, or leaves it alone.
LEMMA LeaseStep ==
  ASSUME IInv, [Next]_vars
  PROVE  [Lease!LeaseNext]_(Lease!leaseVars)
  <1>1. CASE UNCHANGED vars
    BY <1>1, LeaseStutters DEF vars, Served
  <1>2. ASSUME NEW s \in Sessions, ReleaseLock(s)
        PROVE  [Lease!LeaseNext]_(Lease!leaseVars)
    BY <1>2, OwnerEnds, OtherStutters DEF ReleaseLock
  <1>3. ASSUME NEW s \in Sessions, ForceReleaseExpiredLock(s)
        PROVE  [Lease!LeaseNext]_(Lease!leaseVars)
    <2>1. pc[s] \in {"holding", "released"}
      BY <1>3 DEF ForceReleaseExpiredLock, IInv, TimerInv
    <2> QED
      BY <1>3, <2>1, OwnerEnds, OtherStutters DEF ForceReleaseExpiredLock
  <1> QED
    BY <1>1, <1>2, <1>3, AcquireEnters, GrantedGrants DEF Next

\* LocalLockStrategy implements FifoLease for the sessions that share a lock
\* state, for every number of sessions and addresses and whatever is evicted.
THEOREM RefinesFifoLease == Spec => ImplementsFifoLease
  <1>1. Init => Lease!LeaseInit
    BY LocalAssumption DEF Init, Lease!LeaseInit, Served
  <1>2. IInv /\ [Next]_vars => [Lease!LeaseNext]_(Lease!leaseVars)
    BY LeaseStep
  <1> QED
    BY <1>1, <1>2, Invariance, PTL DEF Spec, ImplementsFifoLease, Lease!LeaseSpec
=============================================================================
