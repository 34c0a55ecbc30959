--------------------------- MODULE RedisLockProofs ---------------------------
(***************************************************************************)
(* RedisLock for every set of sessions and every number of failing Redis    *)
(* commands: types, mutual exclusion, order of grants, ownership of the     *)
(* lock key, and the step simulation of FifoLease.                          *)
(***************************************************************************)
EXTENDS RedisLock, TLAPS

(* What adding to and removing from a list without repetitions does to it. *)

\* lPush of a session key that is not in the list keeps the list free of
\* repetitions and adds exactly that key.
LEMMA AppendUnique ==
  ASSUME NEW S, NEW q \in Seq(S), NoRepeats(q), NEW x \in S, x \notin Elems(q)
  PROVE  /\ Append(q, x) \in Seq(S)
         /\ NoRepeats(Append(q, x))
         /\ Elems(Append(q, x)) = Elems(q) \cup {x}
  <1>1. /\ Append(q, x) \in Seq(S)
        /\ Len(Append(q, x)) = Len(q) + 1
        /\ \A i \in 1 .. Len(q) : Append(q, x)[i] = q[i]
        /\ Append(q, x)[Len(q) + 1] = x
        /\ DOMAIN q = 1 .. Len(q)
        /\ DOMAIN Append(q, x) = 1 .. Len(q) + 1
        /\ Len(q) \in Nat
    OBVIOUS
  <1>2. NoRepeats(Append(q, x))
    BY <1>1 DEF NoRepeats, Elems
  <1>3. Elems(Append(q, x)) = Elems(q) \cup {x}
    BY <1>1 DEF Elems
  <1> QED
    BY <1>1, <1>2, <1>3

\* lRem of a session key removes exactly that key and keeps the others in
\* their order: entries i < j of the result were entries k < l before.
LEMMA WithoutUnique ==
  ASSUME NEW S, NEW q \in Seq(S), NoRepeats(q), NEW x
  PROVE  /\ Without(q, x) \in Seq(S)
         /\ NoRepeats(Without(q, x))
         /\ Elems(Without(q, x)) = Elems(q) \ {x}
         /\ \A i, j \in DOMAIN Without(q, x) : i < j =>
              \E k, l \in DOMAIN q : k < l /\ Without(q, x)[i] = q[k]
                                           /\ Without(q, x)[j] = q[l]
  <1>1. CASE x \notin Elems(q)
    BY <1>1 DEF Without
  <1>2. CASE x \in Elems(q)
    <2> DEFINE at == CHOOSE i \in DOMAIN q : q[i] = x
               n  == Len(q)
               w  == [i \in 1 .. n - 1 |-> IF i < at THEN q[i] ELSE q[i + 1]]
    <2>1. DOMAIN q = 1 .. n /\ n \in Nat
      OBVIOUS
    <2>2. at \in 1 .. n /\ q[at] = x
      BY <1>2, <2>1 DEF Elems
    <2>3. Without(q, x) = w
      BY <1>2 DEF Without
    <2> HIDE DEF at, n
    <2>4. n - 1 \in Nat /\ DOMAIN w = 1 .. n - 1
      BY <2>1, <2>2
    <2>5. \A i \in 1 .. n : q[i] \in S
      BY <2>1
    <2>6. w \in Seq(S)
      <3>1. \A i \in 1 .. n - 1 : w[i] \in S
        BY <2>1, <2>2, <2>5
      <3>2. w \in [1 .. n - 1 -> S]
        BY <3>1
      <3> QED
        BY <3>2, <2>4
    <2>7. \A i \in 1 .. n - 1 : w[i] # x
      BY <2>1, <2>2 DEF NoRepeats
    <2>8. \A i, j \in 1 .. n - 1 : i < j =>
            \E k, l \in 1 .. n : k < l /\ w[i] = q[k] /\ w[j] = q[l]
      <3> TAKE i, j \in 1 .. n - 1
      <3> HAVE i < j
      <3>1. CASE j < at
        BY <3>1, <2>1, <2>2
      <3>2. CASE i < at /\ at <= j
        BY <3>2, <2>1, <2>2
      <3>3. CASE at <= i
        BY <3>3, <2>1, <2>2
      <3> QED
        BY <3>1, <3>2, <3>3, <2>2
    <2>9. NoRepeats(w)
      <3> HIDE DEF w
      <3>1. ASSUME NEW i \in 1 .. n - 1, NEW j \in 1 .. n - 1, i < j
            PROVE  w[i] # w[j]
        <4>1. PICK k, l \in 1 .. n : k < l /\ w[i] = q[k] /\ w[j] = q[l]
          BY <2>8, <3>1
        <4> QED
          BY <4>1, <2>1 DEF NoRepeats
      <3>2. \A i, j \in 1 .. n - 1 : w[i] = w[j] => i = j
        BY <3>1, <2>1
      <3> QED
        BY <3>2, <2>4 DEF NoRepeats
    <2>10. Elems(w) = Elems(q) \ {x}
      <3>1. \A i \in 1 .. n - 1 : w[i] \in Elems(q)
        BY <2>1, <2>2 DEF Elems
      <3>2. ASSUME NEW k \in 1 .. n, q[k] # x
            PROVE  \E i \in 1 .. n - 1 : w[i] = q[k]
        <4>1. CASE k < at
          <5>1. k \in 1 .. n - 1 /\ w[k] = q[k]
            BY <4>1, <2>1, <2>2
          <5> QED
            BY <5>1
        <4>2. CASE at < k
          <5>1. k - 1 \in 1 .. n - 1 /\ w[k - 1] = q[k]
            BY <4>2, <2>1, <2>2
          <5> QED
            BY <5>1
        <4> QED
          BY <4>1, <4>2, <3>2, <2>1, <2>2
      <3> HIDE DEF w
      <3>3. Elems(w) = {w[i] : i \in 1 .. n - 1}
        BY <2>4 DEF Elems
      <3>4. Elems(q) = {q[i] : i \in 1 .. n}
        BY <2>1 DEF Elems
      <3> QED
        BY <3>1, <3>2, <3>3, <3>4, <2>7
    <2> HIDE DEF w
    <2>11. \A i, j \in DOMAIN w : i < j =>
             \E k, l \in DOMAIN q : k < l /\ w[i] = q[k] /\ w[j] = q[l]
      <3> SUFFICES ASSUME NEW i \in DOMAIN w, NEW j \in DOMAIN w, i < j
                   PROVE  \E k, l \in DOMAIN q : k < l /\ w[i] = q[k] /\ w[j] = q[l]
        OBVIOUS
      <3>1. i \in 1 .. n - 1 /\ j \in 1 .. n - 1
        BY <2>4
      <3>2. PICK k, l \in 1 .. n : k < l /\ w[i] = q[k] /\ w[j] = q[l]
        BY <3>1, <2>8
      <3> QED
        BY <3>2, <2>1
    <2> QED
      BY <2>3, <2>6, <2>9, <2>10, <2>11
  <1> QED
    BY <1>1, <1>2

\* A session joins once, and lPush numbers the sessions in order.
TicketInv ==
  \A s \in Sessions : /\ ticket[s] <= arrivals
                      /\ pc[s] = "lPush" => ticket[s] = 0
                      /\ pc[s] \in Loop \cup Holder => ticket[s] > 0

\* The queue holds joined sessions, each once, in the order of their tickets.
QueueInv ==
  /\ NoRepeats(queue)
  /\ \A i \in DOMAIN queue : ticket[queue[i]] > 0
  /\ \A i, j \in DOMAIN queue : i < j => ticket[queue[i]] < ticket[queue[j]]

\* A session about to SET NX found itself first: nobody in the queue is older.
FirstInv ==
  \A s \in Sessions : pc[s] = "setNX" =>
    \A i \in DOMAIN queue : ticket[s] <= ticket[queue[i]]

\* A waiter leaves the queue only when another one prunes it.
WaitInv ==
  \A s \in Sessions : pc[s] \in Loop => s \in Elems(queue) \cup pruned

\* The lock key names whoever is past SET NX, until its TTL runs out, and a
\* session that has not got past SET NX never had it.
OwnerInv ==
  /\ \A s \in Sessions : pc[s] \in Holder => lock = s \/ s \in expired
  /\ \A s \in Sessions : pc[s] \in Loop \cup {"lPush"} => s \notin granted

IInv == TypeOK /\ TicketInv /\ QueueInv /\ FirstInv /\ WaitInv /\ OwnerInv

Locations == {"heartbeat", "lIndex", "setNX", "exists", "lRem", "lPush", "lLen",
              "leaveHolding", "leaveOpen", "release", "open", "done", "crashed"}

\* The locations of a call of acquireLock, spelled out for the provers.
LEMMA LocationNames == Location = Locations
  BY DEF Location, Locations, Command, Loop, Final
----------------------------------------------------------------------------
(* One lemma per effect on Redis, whatever the caller does next.           *)

\* lPush, answered or not.
LEMMA LPushStep ==
  ASSUME IInv, NEW s \in Sessions, NEW to \in {"heartbeat", "open"},
         pc[s] = "lPush", LPush(s), Goto(s, to),
         UNCHANGED <<first, expired>>, errors' \in 0 .. MaxErrors
  PROVE  IInv'
  <1> USE DEF IInv, LPush, Goto
  <1>1. ticket[s] = 0 /\ ticket'[s] = arrivals + 1 /\ arrivals \in Nat
    BY DEF TypeOK, TicketInv
  <1>2. s \notin Elems(queue)
    BY <1>1 DEF QueueInv, Elems, TypeOK
  <1>3. /\ queue' \in Seq(Sessions)
        /\ NoRepeats(queue')
        /\ Elems(queue') = Elems(queue) \cup {s}
    BY <1>2, AppendUnique DEF TypeOK, QueueInv
  <1>4. TypeOK'
    BY <1>1, <1>3, LocationNames DEF TypeOK, Locations
  <1>5. TicketInv'
    BY <1>1, LocationNames DEF TypeOK, TicketInv, Locations, Loop, Holder
  <1>6. /\ DOMAIN queue = 1 .. Len(queue) /\ Len(queue) \in Nat
        /\ DOMAIN queue' = 1 .. Len(queue) + 1
        /\ queue'[Len(queue) + 1] = s
        /\ \A i \in DOMAIN queue : /\ queue'[i] = queue[i]
                                   /\ queue[i] \in Sessions
                                   /\ queue[i] # s
    BY <1>2 DEF TypeOK, Elems
  <1>7. \A t \in Sessions : t # s => ticket'[t] = ticket[t]
    BY DEF TypeOK
  <1>8. QueueInv'
    BY <1>1, <1>3, <1>6, <1>7 DEF TypeOK, QueueInv, TicketInv
  <1>9. FirstInv'
    BY <1>1, <1>6, <1>7 DEF TypeOK, FirstInv, TicketInv
  <1>10. WaitInv'
    BY <1>3 DEF TypeOK, WaitInv, Loop
  <1>11. OwnerInv'
    BY DEF TypeOK, OwnerInv, Loop, Holder
  <1> QED
    BY <1>4, <1>5, <1>8, <1>9, <1>10, <1>11

\* Steps that change no key, and the refresh of a heartbeat.
LEMMA LocalStep ==
  ASSUME IInv, NEW s \in Sessions, NEW to \in Location \ {"lPush"}, Goto(s, to),
         pc[s] # "lPush",
         to \in Loop => pc[s] \in Loop,
         to \in Holder => pc[s] \in Holder,
         to = "setNX" => queue # <<>> /\ s = Head(queue),
         UNCHANGED <<lock, queue, pruned, expired, granted, arrivals, ticket>>,
         heartbeat' \subseteq Sessions,
         first' \in [Sessions -> Sessions \cup {None}],
         errors' \in 0 .. MaxErrors
  PROVE  IInv'
  <1> USE DEF IInv, Goto
  <1>1. TypeOK'
    BY DEF TypeOK
  <1>2. TicketInv'
    BY DEF TypeOK, TicketInv
  <1>3. QueueInv'
    BY DEF QueueInv
  <1>4. FirstInv'
    <2>1. to = "setNX" => \A i \in DOMAIN queue : ticket[s] <= ticket[queue[i]]
      <3> SUFFICES ASSUME to = "setNX", NEW i \in DOMAIN queue
                   PROVE  ticket[s] <= ticket[queue[i]]
        OBVIOUS
      <3>1. 1 \in DOMAIN queue /\ queue[1] = s /\ i \in Nat /\ 1 <= i
        BY DEF TypeOK
      <3>2. queue[i] \in Sessions
        BY DEF TypeOK
      <3>3. i = 1 \/ ticket[queue[1]] < ticket[queue[i]]
        BY <3>1 DEF QueueInv
      <3> QED
        BY <3>1, <3>2, <3>3 DEF TypeOK
    <2> QED
      BY <2>1 DEF TypeOK, FirstInv
  <1>5. WaitInv'
    BY DEF TypeOK, WaitInv
  <1>6. OwnerInv'
    BY DEF TypeOK, OwnerInv
  <1> QED
    BY <1>1, <1>2, <1>3, <1>4, <1>5, <1>6

\* lRem of a session x that does not wait, or is recorded as pruned.
LEMMA LRemStep ==
  ASSUME IInv, NEW s \in Sessions, NEW x \in Sessions \cup {None},
         NEW to \in Location \ {"lPush", "setNX"}, Goto(s, to), LRem(x),
         pc[s] # "lPush",
         to \in Loop => pc[s] \in Loop,
         to \in Holder => pc[s] \in Holder,
         x \in Elems(queue) => x \in pruned' \/ (x = s /\ to \notin Loop),
         pruned \subseteq pruned', pruned' \subseteq Sessions,
         UNCHANGED <<first, expired>>, errors' \in 0 .. MaxErrors
  PROVE  IInv'
  <1> USE DEF IInv, Goto, LRem
  <1>1. /\ queue' \in Seq(Sessions)
        /\ NoRepeats(queue')
        /\ Elems(queue') = Elems(queue) \ {x}
        /\ \A i, j \in DOMAIN queue' : i < j =>
             \E k, l \in DOMAIN queue : /\ k < l
                                        /\ queue'[i] = queue[k]
                                        /\ queue'[j] = queue[l]
    BY WithoutUnique DEF TypeOK, QueueInv
  <1>2. \A i \in DOMAIN queue' : \E k \in DOMAIN queue : queue'[i] = queue[k]
    BY <1>1 DEF Elems
  <1>3. TypeOK'
    BY <1>1 DEF TypeOK
  <1>4. TicketInv'
    BY DEF TypeOK, TicketInv
  <1>5. QueueInv'
    <2>1. \A i \in DOMAIN queue' : ticket[queue'[i]] > 0
      BY <1>2 DEF QueueInv
    <2>2. \A i, j \in DOMAIN queue' : i < j => ticket[queue'[i]] < ticket[queue'[j]]
      <3> SUFFICES ASSUME NEW i \in DOMAIN queue', NEW j \in DOMAIN queue', i < j
                   PROVE  ticket[queue'[i]] < ticket[queue'[j]]
        OBVIOUS
      <3>1. PICK k, l \in DOMAIN queue : /\ k < l
                                         /\ queue'[i] = queue[k]
                                         /\ queue'[j] = queue[l]
        BY <1>1
      <3> QED
        BY <3>1 DEF QueueInv
    <2> QED
      BY <1>1, <2>1, <2>2 DEF QueueInv
  <1>6. FirstInv'
    BY <1>2 DEF TypeOK, FirstInv
  <1>7. WaitInv'
    BY <1>1 DEF TypeOK, WaitInv
  <1>8. OwnerInv'
    BY DEF TypeOK, OwnerInv
  <1> QED
    BY <1>3, <1>4, <1>5, <1>6, <1>7, <1>8

\* SET NX: the session goes on with the lock key, or without.
LEMMA SetNXStep ==
  ASSUME IInv, NEW s \in Sessions, NEW to \in {"lLen", "heartbeat", "leaveOpen"},
         Goto(s, to), SetNX(s), pc[s] = "setNX",
         to = "lLen" => lock = None,
         to = "heartbeat" => lock # None,
         UNCHANGED <<first, expired>>, errors' \in 0 .. MaxErrors
  PROVE  IInv'
  <1> USE DEF IInv, Goto, SetNX
  <1>1. TypeOK'
    BY LocationNames DEF TypeOK, Locations
  <1>2. TicketInv'
    BY DEF TypeOK, TicketInv, Loop, Holder
  <1>3. QueueInv' /\ FirstInv' /\ WaitInv'
    BY DEF TypeOK, QueueInv, FirstInv, WaitInv, Loop
  <1>4. OwnerInv'
    BY RedisAssumption DEF TypeOK, OwnerInv, Loop, Holder
  <1> QED
    BY <1>1, <1>2, <1>3, <1>4

\* releaseLock.
LEMMA ReleaseStep ==
  ASSUME IInv, NEW s \in Sessions, Goto(s, "done"), CheckAndDelete(s), pc[s] = "release",
         UNCHANGED <<first, expired>>, errors' \in 0 .. MaxErrors
  PROVE  IInv'
  <1> USE DEF IInv, Goto, CheckAndDelete
  <1>1. TypeOK'
    BY LocationNames DEF TypeOK, Locations
  <1>2. TicketInv'
    BY DEF TypeOK, TicketInv, Loop, Holder
  <1>3. QueueInv' /\ FirstInv' /\ WaitInv'
    BY DEF TypeOK, QueueInv, FirstInv, WaitInv, Loop
  <1>4. OwnerInv'
    BY DEF TypeOK, OwnerInv, Loop, Holder
  <1> QED
    BY <1>1, <1>2, <1>3, <1>4
----------------------------------------------------------------------------
\* An empty Redis and no call under way satisfy the inductive invariant.
LEMMA InitIInv == Init => IInv
  BY RedisAssumption, LocationNames
  DEF Init, IInv, TypeOK, TicketInv, QueueInv, FirstInv, WaitInv, OwnerInv,
      NoRepeats, Elems, Loop, Holder, Locations

\* Every action preserves the inductive invariant.
LEMMA NextIInv == IInv /\ [Next]_vars => IInv'
  <1> SUFFICES ASSUME IInv, [Next]_vars
               PROVE  IInv'
    OBVIOUS
  <1> USE LocationNames DEF Locations, Loop, Holder
  <1>0. errors \in 0 .. MaxErrors /\ MaxErrors \in Nat
    BY RedisAssumption DEF IInv, TypeOK
  <1>1. ASSUME NEW s \in Sessions, Join(s) PROVE IInv'
    BY <1>0, <1>1, LPushStep DEF Join
  <1>2. ASSUME NEW s \in Sessions, RefreshHeartbeat(s) PROVE IInv'
    BY <1>0, <1>2, LocalStep DEF RefreshHeartbeat, Beat, IInv, TypeOK
  <1>3. ASSUME NEW s \in Sessions, ReadFirst(s) PROVE IInv'
    <2> DEFINE head == IF queue = <<>> THEN None ELSE Head(queue)
    <2>1. head \in Sessions \cup {None}
      BY DEF IInv, TypeOK
    <2>2. head = s => queue # <<>> /\ s = Head(queue)
      BY RedisAssumption
    <2>3. /\ first' = [first EXCEPT ![s] = head]
          /\ Goto(s, CASE head = s -> "setNX"
                       [] head = None -> "heartbeat"
                       [] OTHER -> "exists")
          /\ pc[s] = "lIndex"
          /\ UNCHANGED <<lock, queue, heartbeat, pruned, granted, arrivals, ticket, expired, errors>>
      BY <1>3 DEF ReadFirst, NoEffect, redis
    <2> HIDE DEF head
    <2>4. PICK to \in {"setNX", "heartbeat", "exists"} :
             Goto(s, to) /\ (to = "setNX" => head = s)
      BY <2>3
    <2>5. first' \in [Sessions -> Sessions \cup {None}] /\ heartbeat' \subseteq Sessions
      BY <2>1, <2>3 DEF IInv, TypeOK
    <2> QED
      BY <1>0, <2>2, <2>3, <2>4, <2>5, LocalStep
  <1>4. ASSUME NEW s \in Sessions, TryAcquire(s) PROVE IInv'
    BY <1>0, <1>4, SetNXStep DEF TryAcquire
  <1>5. ASSUME NEW s \in Sessions, ReadLength(s) PROVE IInv'
    BY <1>0, <1>5, LocalStep DEF ReadLength, NoEffect, redis, IInv, TypeOK
  <1>6. ASSUME NEW s \in Sessions, CheckZombie(s) PROVE IInv'
    BY <1>0, <1>6, LocalStep DEF CheckZombie, NoEffect, redis, IInv, TypeOK
  <1>7. ASSUME NEW s \in Sessions, PruneZombie(s) PROVE IInv'
    <2>1. first[s] \in Sessions \cup {None} /\ Elems(queue) \subseteq Sessions
      BY DEF IInv, TypeOK, Elems
    <2> QED
      BY <1>0, <1>7, <2>1, LRemStep DEF PruneZombie, IInv, TypeOK
  <1>8. ASSUME NEW s \in Sessions, Leave(s) PROVE IInv'
    BY <1>0, <1>8, LRemStep DEF Leave, IInv, TypeOK
  <1>9. ASSUME NEW s \in Sessions, Release(s) PROVE IInv'
    BY <1>0, <1>9, ReleaseStep DEF Release
  <1>10. ASSUME NEW s \in Sessions, CommandFails(s) PROVE IInv'
    <2> DEFINE after == CASE pc[s] \in {"lPush", "leaveOpen"} -> "open"
                          [] pc[s] = "leaveHolding" -> "release"
                          [] pc[s] = "release" -> "done"
                          [] OTHER -> "leaveOpen"
    <2>1. /\ Goto(s, after) /\ UNCHANGED <<first, expired>>
          /\ errors' \in 0 .. MaxErrors
      BY <1>0, <1>10 DEF CommandFails
    <2>2. CASE NoEffect
      <3>1. CASE pc[s] = "lPush"
        <4>1. pc' = [pc EXCEPT ![s] = "open"]
          BY <2>1, <3>1 DEF Goto
        <4> QED
          BY <4>1, <3>1, <2>1, <2>2
          DEF NoEffect, redis, IInv, TypeOK, TicketInv, QueueInv, FirstInv, WaitInv, OwnerInv
      <3>2. CASE pc[s] # "lPush"
        BY <3>2, <2>1, <2>2, LocalStep DEF NoEffect, redis, IInv, TypeOK
      <3> QED
        BY <3>1, <3>2
    <2>3. CASE pc[s] = "lPush" /\ LPush(s)
      BY <2>1, <2>3, LPushStep
    <2>4. CASE pc[s] = "heartbeat" /\ Beat(s)
      BY <2>1, <2>4, LocalStep DEF Beat, IInv, TypeOK
    <2>5. CASE pc[s] = "setNX" /\ SetNX(s)
      BY <2>1, <2>5, SetNXStep
    <2>6. CASE /\ pc[s] = "lRem"
               /\ LRem(first[s])
               /\ pruned' = pruned \cup ({first[s]} \cap Elems(queue))
      <3>1. first[s] \in Sessions \cup {None} /\ Elems(queue) \subseteq Sessions
        BY DEF IInv, TypeOK, Elems
      <3> QED
        BY <2>1, <2>6, <3>1, LRemStep DEF IInv, TypeOK
    <2>7. CASE pc[s] \in {"leaveHolding", "leaveOpen"} /\ LRem(s) /\ UNCHANGED pruned
      BY <2>1, <2>7, LRemStep DEF IInv, TypeOK
    <2>8. CASE pc[s] = "release" /\ CheckAndDelete(s)
      BY <2>1, <2>8, ReleaseStep
    <2> QED
      BY <1>10, <2>2, <2>3, <2>4, <2>5, <2>6, <2>7, <2>8 DEF CommandFails
  <1>11. ASSUME NEW s \in Sessions, ExpireHeartbeat(s) PROVE IInv'
    BY <1>11 DEF ExpireHeartbeat, IInv, TypeOK, TicketInv, QueueInv, FirstInv, WaitInv, OwnerInv
  <1>12. ASSUME NEW s \in Sessions, Crash(s) PROVE IInv'
    BY <1>0, <1>12, LocalStep DEF Crash, NoEffect, redis, Final, IInv, TypeOK
  <1>13. CASE ExpireLock
    BY <1>13 DEF ExpireLock, IInv, TypeOK, TicketInv, QueueInv, FirstInv, WaitInv, OwnerInv
  <1>14. CASE UNCHANGED vars
    BY <1>14 DEF vars, redis, IInv, TypeOK, TicketInv, QueueInv, FirstInv, WaitInv, OwnerInv
  <1> QED
    BY <1>1, <1>2, <1>3, <1>4, <1>5, <1>6, <1>7, <1>8, <1>9, <1>10, <1>11, <1>12, <1>13, <1>14
    DEF Next, Acquire

\* Every reachable state satisfies the inductive invariant.
THEOREM Invariance == Spec => []IInv
  BY InitIInv, NextIInv, PTL DEF Spec

\* The variables keep their types, for any number of sessions and failures.
THEOREM TypeCorrectness == Spec => []TypeOK
  BY Invariance, PTL DEF IInv

\* Two sessions are past acquireLock with a key only after a TTL ran out.
THEOREM MutualExclusionHolds == Spec => []MutualExclusion
  <1>1. IInv => MutualExclusion
    BY DEF IInv, OwnerInv, MutualExclusion
  <1> QED
    BY <1>1, Invariance, PTL
----------------------------------------------------------------------------
(* Action properties.                                                      *)

\* Who writes the lock key: only SET NX of a session that found itself first.
LEMMA GrantStep ==
  ASSUME IInv, [Next]_vars, NEW s \in Sessions, lock = None, lock' = s
  PROVE  pc[s] = "setNX" /\ SetNX(s) /\ UNCHANGED <<first, expired>>
  <1> USE RedisAssumption DEF LPush, Beat, LRem, SetNX, CheckAndDelete, NoEffect, redis
  <1>1. ASSUME NEW t \in Sessions, Acquire(t)
        PROVE  pc[s] = "setNX" /\ SetNX(s) /\ UNCHANGED <<first, expired>>
    BY <1>1 DEF Acquire, Join, RefreshHeartbeat, ReadFirst, TryAcquire, ReadLength,
                CheckZombie, PruneZombie, Leave
  <1>2. ASSUME NEW t \in Sessions, Release(t) \/ ExpireHeartbeat(t) \/ Crash(t)
        PROVE  FALSE
    BY <1>2 DEF Release, ExpireHeartbeat, Crash
  <1>3. ASSUME NEW t \in Sessions, CommandFails(t)
        PROVE  pc[s] = "setNX" /\ SetNX(s) /\ UNCHANGED <<first, expired>>
    BY <1>3 DEF CommandFails
  <1> QED
    BY <1>1, <1>2, <1>3 DEF Next, ExpireLock, vars

\* acquireLock grants in the order of lPush, but for pruned waiters.
THEOREM FifoGrantsHold == Spec => FifoGrants
  <1>1. ASSUME IInv, [Next]_vars,
               NEW s \in Sessions, NEW t \in Sessions,
               lock = None, lock' = s, t \in Joined, ticket[t] < ticket[s], pc[t] \in Loop
        PROVE  t \in pruned
    <2>1. pc[s] = "setNX"
      BY <1>1, GrantStep
    <2>2. \A i \in DOMAIN queue : queue[i] # t
      BY <1>1, <2>1 DEF IInv, TypeOK, FirstInv
    <2> QED
      BY <1>1, <2>2 DEF IInv, WaitInv, Elems
  <1> DEFINE Ordered == \A s, t \in Sessions :
               /\ lock = None /\ lock' = s
               /\ t \in Joined /\ ticket[t] < ticket[s]
               /\ pc[t] \in Loop
               => t \in pruned
  <1>2. IInv /\ [Next]_vars => [Ordered]_vars
    BY <1>1
  <1>3. Spec => [][Ordered]_vars
    BY <1>2, Invariance, PTL DEF Spec
  <1> QED
    BY <1>3 DEF FifoGrants

\* The lock key of a session goes by its own release or by its TTL.
THEOREM OnlyOwnerReleasesHolds == Spec => OnlyOwnerReleases
  <1> DEFINE Rightful == lock # None /\ lock' # lock =>
               /\ lock' = None
               /\ lock \in expired' \/ (pc[lock] = "release" /\ pc'[lock] = "done")
  <1>1. IInv /\ [Next]_vars => [Rightful]_vars
    <2> SUFFICES ASSUME IInv, [Next]_vars, lock # None, lock' # lock
                 PROVE  /\ lock' = None
                        /\ lock \in expired' \/ (pc[lock] = "release" /\ pc'[lock] = "done")
      OBVIOUS
    <2> USE DEF LPush, Beat, LRem, SetNX, CheckAndDelete, NoEffect, redis
    <2>1. CASE ExpireLock
      BY <2>1 DEF ExpireLock
    <2>2. ASSUME NEW s \in Sessions, Acquire(s)
          PROVE  FALSE
      BY <2>2 DEF Acquire, Join, RefreshHeartbeat, ReadFirst, TryAcquire, ReadLength,
                  CheckZombie, PruneZombie, Leave
    <2>3. ASSUME NEW s \in Sessions, ExpireHeartbeat(s) \/ Crash(s)
          PROVE  FALSE
      BY <2>3 DEF ExpireHeartbeat, Crash
    <2>4. ASSUME NEW s \in Sessions, Release(s) \/ CommandFails(s)
          PROVE  lock = s /\ lock' = None /\ pc[s] = "release" /\ pc' = [pc EXCEPT ![s] = "done"]
      BY <2>4 DEF Release, CommandFails, Goto
    <2>5. ASSUME NEW s \in Sessions, Release(s) \/ CommandFails(s)
          PROVE  lock' = None /\ pc[lock] = "release" /\ pc'[lock] = "done"
      BY <2>4, <2>5 DEF IInv, TypeOK
    <2> QED
      BY <2>1, <2>2, <2>3, <2>5 DEF Next, vars, redis
  <1>2. Spec => [][Rightful]_vars
    BY <1>1, Invariance, PTL DEF Spec
  <1> QED
    BY <1>2 DEF OnlyOwnerReleases
----------------------------------------------------------------------------
(* RedisLock implements FifoLease.                                         *)

\* Every step of the Redis lock is a step of the lease, or changes nothing of it.
LEMMA LeaseStep == IInv /\ [Next]_vars => [Lease!LeaseNext]_(Lease!leaseVars)
  <1> SUFFICES ASSUME IInv, [Next]_vars
               PROVE  Lease!LeaseNext \/ UNCHANGED Lease!leaseVars
    OBVIOUS
  <1>0. /\ Lease!Elems(queue) = Elems(queue)
        /\ \A x : Lease!Without(queue, x) = Without(queue, x)
    BY DEF Lease!Elems, Elems, Lease!Without, Without
  <1> USE <1>0 DEF Lease!leaseVars, Joined
  <1>1. ASSUME NEW s \in Sessions, pc[s] = "lPush", LPush(s)
        PROVE  Lease!Enter(s)
    <2>1. ticket[s] = 0 /\ ticket'[s] > 0
      BY <1>1 DEF IInv, TypeOK, TicketInv, LPush
    <2>2. s \notin Elems(queue)
      BY <2>1 DEF IInv, QueueInv, Elems
    <2>3. Elems(queue') = Elems(queue) \cup {s}
      BY <1>1, <2>2, AppendUnique DEF IInv, TypeOK, QueueInv, LPush
    <2>4. Joined' = Joined \cup {s}
      BY <1>1, <2>1 DEF IInv, TypeOK, LPush
    <2> QED
      BY <1>1, <2>1, <2>2, <2>3, <2>4 DEF Lease!Enter, LPush
  <1>2. ASSUME NEW x, LRem(x)
        PROVE  (x \in Sessions /\ Lease!Drop(x)) \/ UNCHANGED Lease!leaseVars
    <2>1. Elems(queue') = Elems(queue) \ {x}
      BY <1>2, WithoutUnique DEF IInv, TypeOK, QueueInv, LRem
    <2>2. x \in Elems(queue) => x \in Joined
      BY DEF IInv, TypeOK, QueueInv, Elems
    <2>3. CASE x \in Elems(queue)
      BY <1>2, <2>1, <2>2, <2>3 DEF LRem, Lease!Drop
    <2>4. CASE x \notin Elems(queue)
      BY <1>2, <2>4 DEF LRem, Without
    <2> QED
      BY <2>3, <2>4
  <1>3. ASSUME NEW s \in Sessions, pc[s] = "setNX", SetNX(s)
        PROVE  Lease!Grant(s) \/ UNCHANGED Lease!leaseVars
    <2>1. s \notin granted /\ s \in Joined
      BY <1>3 DEF IInv, TypeOK, OwnerInv, TicketInv, Loop
    <2>2. s \in Elems(queue) => queue # <<>> /\ s = Head(queue)
      <3> SUFFICES ASSUME NEW i \in DOMAIN queue, queue[i] = s
                   PROVE  queue # <<>> /\ s = Head(queue)
        BY DEF Elems
      <3>1. i \in Nat /\ 1 <= i /\ 1 \in DOMAIN queue /\ queue # <<>> /\ Head(queue) = queue[1]
        BY DEF IInv, TypeOK
      <3>2. ticket[s] <= ticket[queue[1]]
        BY <1>3, <3>1 DEF IInv, FirstInv
      <3>3. 1 < i => ticket[queue[1]] < ticket[s]
        BY <3>1 DEF IInv, QueueInv
      <3>4. ticket[s] \in Nat /\ ticket[queue[1]] \in Nat
        BY <3>1 DEF IInv, TypeOK
      <3> QED
        BY <3>1, <3>2, <3>3, <3>4
    <2> QED
      BY <1>3, <2>1, <2>2 DEF SetNX, Lease!Grant
  <1>4. ASSUME NEW s \in Sessions, CheckAndDelete(s)
        PROVE  Lease!End \/ UNCHANGED Lease!leaseVars
    BY <1>4, RedisAssumption DEF CheckAndDelete, Lease!End
  <1>5. ASSUME NoEffect \/ \E s \in Sessions : Beat(s)
        PROVE  UNCHANGED Lease!leaseVars
    BY <1>5 DEF NoEffect, Beat, redis
  <1>6. CASE ExpireLock
    BY <1>6 DEF ExpireLock, Lease!LeaseNext, Lease!End
  <1>7. ASSUME NEW s \in Sessions, Acquire(s) \/ Release(s)
        PROVE  Lease!LeaseNext \/ UNCHANGED Lease!leaseVars
    BY <1>1, <1>2, <1>3, <1>4, <1>5, <1>7
    DEF Acquire, Join, RefreshHeartbeat, ReadFirst, TryAcquire, ReadLength,
        CheckZombie, PruneZombie, Leave, Release, Lease!LeaseNext
  <1>8. ASSUME NEW s \in Sessions, CommandFails(s)
        PROVE  Lease!LeaseNext \/ UNCHANGED Lease!leaseVars
    BY <1>1, <1>2, <1>3, <1>4, <1>5, <1>8 DEF CommandFails, Lease!LeaseNext
  <1>9. ASSUME NEW s \in Sessions, ExpireHeartbeat(s) \/ Crash(s)
        PROVE  UNCHANGED Lease!leaseVars
    BY <1>9 DEF ExpireHeartbeat, Crash, NoEffect, redis
  <1>10. CASE UNCHANGED vars
    BY <1>10 DEF vars, redis
  <1> QED
    BY <1>6, <1>7, <1>8, <1>9, <1>10 DEF Next

\* The Redis lock keeps the promise of a LockStrategy.
THEOREM RefinesFifoLease == Spec => ImplementsFifoLease
  <1>1. Init => Lease!LeaseInit
    BY DEF Init, Lease!LeaseInit, Joined
  <1> QED
    BY <1>1, LeaseStep, Invariance, PTL DEF Spec, ImplementsFifoLease, Lease!LeaseSpec
=============================================================================
