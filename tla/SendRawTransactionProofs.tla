----------------------- MODULE SendRawTransactionProofs -----------------------
(***************************************************************************)
(* SendRawTransaction for every set of calls, every workload and every      *)
(* number of faults: types, the lock and the pool after a call, what a hash *)
(* means, the order of submission, and the causes of WRONG_NONCE and of     *)
(* NONCE_TOO_LOW.                                                           *)
(***************************************************************************)
EXTENDS SendRawTransaction, UniqueList, FiniteSetTheorems, TLAPS

(* What adding to and removing from a list without repetitions does to it. *)

\* lPush of a session key that is not in the list keeps the list free of
\* repetitions and adds exactly that key.
LEMMA AppendUnique ==
  ASSUME NEW S, NEW q \in Seq(S), NoRepeats(q), NEW x \in S, x \notin Elems(q)
  PROVE  /\ Append(q, x) \in Seq(S)
         /\ NoRepeats(Append(q, x))
         /\ Elems(Append(q, x)) = Elems(q) \cup {x}
  <1>1. /\ Append(q, x) \in Seq(S)
        /\ Len(Append(q, x)) = Len(q) + 1
        /\ \A i \in 1 .. Len(q) : Append(q, x)[i] = q[i]
        /\ Append(q, x)[Len(q) + 1] = x
        /\ DOMAIN q = 1 .. Len(q)
        /\ DOMAIN Append(q, x) = 1 .. Len(q) + 1
        /\ Len(q) \in Nat
    OBVIOUS
  <1>2. NoRepeats(Append(q, x))
    BY <1>1 DEF NoRepeats, Elems
  <1>3. Elems(Append(q, x)) = Elems(q) \cup {x}
    BY <1>1 DEF Elems
  <1> QED
    BY <1>1, <1>2, <1>3

\* lRem of a session key removes exactly that key and keeps the others in
\* their order: entries i < j of the result were entries k < l before.
LEMMA WithoutUnique ==
  ASSUME NEW S, NEW q \in Seq(S), NoRepeats(q), NEW x
  PROVE  /\ Without(q, x) \in Seq(S)
         /\ NoRepeats(Without(q, x))
         /\ Elems(Without(q, x)) = Elems(q) \ {x}
         /\ \A i, j \in DOMAIN Without(q, x) : i < j =>
              \E k, l \in DOMAIN q : k < l /\ Without(q, x)[i] = q[k]
                                           /\ Without(q, x)[j] = q[l]
  <1>1. CASE x \notin Elems(q)
    BY <1>1 DEF Without
  <1>2. CASE x \in Elems(q)
    <2> DEFINE at == CHOOSE i \in DOMAIN q : q[i] = x
               n  == Len(q)
               w  == [i \in 1 .. n - 1 |-> IF i < at THEN q[i] ELSE q[i + 1]]
    <2>1. DOMAIN q = 1 .. n /\ n \in Nat
      OBVIOUS
    <2>2. at \in 1 .. n /\ q[at] = x
      BY <1>2, <2>1 DEF Elems
    <2>3. Without(q, x) = w
      BY <1>2 DEF Without
    <2> HIDE DEF at, n
    <2>4. n - 1 \in Nat /\ DOMAIN w = 1 .. n - 1
      BY <2>1, <2>2
    <2>5. \A i \in 1 .. n : q[i] \in S
      BY <2>1
    <2>6. w \in Seq(S)
      <3>1. \A i \in 1 .. n - 1 : w[i] \in S
        BY <2>1, <2>2, <2>5
      <3>2. w \in [1 .. n - 1 -> S]
        BY <3>1
      <3> QED
        BY <3>2, <2>4
    <2>7. \A i \in 1 .. n - 1 : w[i] # x
      BY <2>1, <2>2 DEF NoRepeats
    <2>8. \A i, j \in 1 .. n - 1 : i < j =>
            \E k, l \in 1 .. n : k < l /\ w[i] = q[k] /\ w[j] = q[l]
      <3> TAKE i, j \in 1 .. n - 1
      <3> HAVE i < j
      <3>1. CASE j < at
        BY <3>1, <2>1, <2>2
      <3>2. CASE i < at /\ at <= j
        BY <3>2, <2>1, <2>2
      <3>3. CASE at <= i
        BY <3>3, <2>1, <2>2
      <3> QED
        BY <3>1, <3>2, <3>3, <2>2
    <2>9. NoRepeats(w)
      <3> HIDE DEF w
      <3>1. ASSUME NEW i \in 1 .. n - 1, NEW j \in 1 .. n - 1, i < j
            PROVE  w[i] # w[j]
        <4>1. PICK k, l \in 1 .. n : k < l /\ w[i] = q[k] /\ w[j] = q[l]
          BY <2>8, <3>1
        <4> QED
          BY <4>1, <2>1 DEF NoRepeats
      <3>2. \A i, j \in 1 .. n - 1 : w[i] = w[j] => i = j
        BY <3>1, <2>1
      <3> QED
        BY <3>2, <2>4 DEF NoRepeats
    <2>10. Elems(w) = Elems(q) \ {x}
      <3>1. \A i \in 1 .. n - 1 : w[i] \in Elems(q)
        BY <2>1, <2>2 DEF Elems
      <3>2. ASSUME NEW k \in 1 .. n, q[k] # x
            PROVE  \E i \in 1 .. n - 1 : w[i] = q[k]
        <4>1. CASE k < at
          <5>1. k \in 1 .. n - 1 /\ w[k] = q[k]
            BY <4>1, <2>1, <2>2
          <5> QED
            BY <5>1
        <4>2. CASE at < k
          <5>1. k - 1 \in 1 .. n - 1 /\ w[k - 1] = q[k]
            BY <4>2, <2>1, <2>2
          <5> QED
            BY <5>1
        <4> QED
          BY <4>1, <4>2, <3>2, <2>1, <2>2
      <3> HIDE DEF w
      <3>3. Elems(w) = {w[i] : i \in 1 .. n - 1}
        BY <2>4 DEF Elems
      <3>4. Elems(q) = {q[i] : i \in 1 .. n}
        BY <2>1 DEF Elems
      <3> QED
        BY <3>1, <3>2, <3>3, <3>4, <2>7
    <2> HIDE DEF w
    <2>11. \A i, j \in DOMAIN w : i < j =>
             \E k, l \in DOMAIN q : k < l /\ w[i] = q[k] /\ w[j] = q[l]
      <3> SUFFICES ASSUME NEW i \in DOMAIN w, NEW j \in DOMAIN w, i < j
                   PROVE  \E k, l \in DOMAIN q : k < l /\ w[i] = q[k] /\ w[j] = q[l]
        OBVIOUS
      <3>1. i \in 1 .. n - 1 /\ j \in 1 .. n - 1
        BY <2>4
      <3>2. PICK k, l \in 1 .. n : k < l /\ w[i] = q[k] /\ w[j] = q[l]
        BY <3>1, <2>8
      <3> QED
        BY <3>2, <2>1
    <2> QED
      BY <2>3, <2>6, <2>9, <2>10, <2>11
  <1> QED
    BY <1>1, <1>2

\* From the return of acquireLock to the release after the submission.
Critical == {"gasPrice", "account", "nonce", "save", "submit", "release"}

\* The lock belongs to a call that asked for it and has not given it back, or to
\* one whose lock a failed command left to its TTL; a call between the two that
\* has a session key has the lock, or had it too long.
LockInv ==
  /\ \A t \in Txs : pc[t] \in {"arrive", "lock"} => t \notin key
  /\ owner # None => \/ owner \in stranded
                     \/ owner \in key /\ pc[owner] \in Critical \cup {"abort", "crashed"}
  /\ \A t \in key : pc[t] \in Critical => owner = t \/ t \in expired

\* The queue is in the order of arrival and holds everyone who waits, the
\* overlooked ones apart: whoever got the lock had no earlier call waiting.
QueueInv ==
  /\ NoRepeats(arrived) /\ NoRepeats(queue)
  /\ \A t \in Txs : t \in Elems(arrived) <=> pc[t] # "arrive"
  /\ \A i \in DOMAIN queue : queue[i] \in Elems(arrived)
  /\ \A i, j \in DOMAIN queue : i < j => Before(queue[i], queue[j])
  /\ \A t \in Txs : pc[t] = "lock" =>
       t \in overlooked \/ (t \in Elems(queue) /\ t \notin dropped)
  /\ \A t \in key, u \in Txs :
       Before(u, t) /\ pc[u] = "lock" => t \in overlooked \/ u \in overlooked

\* An entry of the pool has a call that will remove it, or is an orphan.
PoolInv ==
  \A r \in pool : r \in orphans \/ \E t \in Txs : raw[t] = r /\ pc[t] \in Pooled

\* The executed transactions have used the nonces below cnNonce, all of them;
\* the mirror node is behind, and what a precheck read from it even more so.
NonceInv ==
  /\ \A t \in executed : Nonce(t) < cnNonce
  /\ \A n \in 0 .. cnNonce - 1 : \E t \in executed : Nonce(t) = n
  /\ mnNonce <= cnNonce
  /\ \A t \in Txs : seenNonce[t] <= mnNonce

\* What the outcome of a submission says about the transaction.
OutcomeInv ==
  /\ \A t \in inNetwork : error[t] = "timeout"
  /\ \A t \in Txs : pc[t] \in Unsubmitted \cup {"arrive"} => t \notin executed /\ error[t] = "none"
  /\ \A t \in Txs : pc[t] \in {"release", "unpool", "poll"} /\ error[t] = "none" => t \in executed
  /\ \A t \in Txs : pc[t] = "wrongNonce" => error[t] = "WRONG_NONCE"

\* Nobody is answered before the save, or before the submission when the
\* processor is awaited.
AnswerInv ==
  /\ \A t \in Txs : pc[t] \in (Unsubmitted \ {"submit"}) \cup {"arrive"} => answer[t] = "none"
  /\ \A t \in Txs : ~async /\ pc[t] = "submit" => answer[t] = "none"
  /\ HashMeansOutcome

IInv == /\ TypeOK /\ LockInv /\ QueueInv /\ PoolInv /\ NonceInv /\ OutcomeInv
        /\ AnswerInv /\ WrongNonceHasCause

----------------------------------------------------------------------------
(* Steps of one call, grouped by what they do to the lock.                 *)

\* The steps of a call that leave the lease alone.
Inner(t) ==
  \/ GasPrice(t) \/ Reject(t) \/ ReadAccount(t) \/ CheckNonce(t) \/ Save(t) \/ SaveFails(t)
  \/ Submit(t) \/ RemoveFromPool(t) \/ RemoveFails(t)
  \/ PollMirrorNode(t) \/ ExplainWrongNonce(t)

\* Steps of the network and of the pool's TTL.
Outer ==
  ExpirePool \/ MirrorImport \/ \E t \in Txs : LateConsensus(t)

\* Every step is one of these.
LEMMA StepKinds ==
  ASSUME Next
  PROVE  \/ \E t \in Txs : \/ Arrive(t) \/ Lock(t) \/ FailOpen(t) \/ Inner(t) \/ Abort(t)
                           \/ ReleaseLock(t) \/ Overlook(t) \/ Crash(t) \/ Prune(t)
         \/ ExpireLease \/ Outer
  BY DEF Next, Progress, Inner, Outer

\* The operators of the lease are those of UniqueList.
LEMMA LeaseOperators ==
  /\ \A q : Lease!Elems(q) = Elems(q)
  /\ \A q, x : Lease!Without(q, x) = Without(q, x)
  BY DEF Lease!Elems, Elems, Lease!Without, Without

\* What the inner steps of a call do with its place, the lease and the order.
LEMMA InnerFrame ==
  ASSUME TypeOK, NEW t \in Txs, Inner(t)
  PROVE  /\ UNCHANGED <<lease, key, async, raw, arrived, expired, overlooked, stranded>>
         /\ \E to \in Location : pc' = [pc EXCEPT ![t] = to]
         /\ pc[t] \notin {"arrive", "lock", "abort", "answered", "crashed", "release"}
         /\ pc'[t] \notin {"arrive", "lock", "crashed"}
         /\ pc'[t] \in Critical => pc[t] \in Critical
         /\ pc[t] \in Critical => pc'[t] \in Critical \cup {"abort"}
  <1> USE DEF TypeOK, Goto, history, call, network, Location, Unsubmitted, Pooled, Critical
  <1>1. CASE GasPrice(t) \/ Reject(t) \/ ReadAccount(t)
    BY <1>1 DEF GasPrice, Reject, ReadAccount
  <1>2. CASE CheckNonce(t) \/ Save(t) \/ SaveFails(t)
    BY <1>2 DEF CheckNonce, Save, SaveFails
  <1>3. CASE Submit(t)
    BY <1>3 DEF Submit, Submitted, SubmitSucceeds, SubmitWrongNonce, SubmitTimesOut,
       SubmitFails, SubmitRefused
  <1>4. CASE RemoveFromPool(t) \/ RemoveFails(t)
    BY <1>4 DEF RemoveFromPool, RemoveFails
  <1>5. CASE PollMirrorNode(t) \/ ExplainWrongNonce(t)
    BY <1>5 DEF PollMirrorNode, ExplainWrongNonce
  <1> QED BY <1>1, <1>2, <1>3, <1>4, <1>5 DEF Inner

LEMMA OuterFrame ==
  ASSUME TypeOK, Outer
  PROVE  UNCHANGED <<lease, call, arrived, expired, overlooked, stranded>>
  BY DEF Outer, ExpirePool, MirrorImport, LateConsensus, history

(* The lock. *)
LEMMA LockStep ==
  ASSUME TypeOK, LockInv, Next
  PROVE  LockInv'
  <1> USE SendAssumption DEF TypeOK, LockInv, Goto, lease, history, Critical
  <1>1. ASSUME NEW t \in Txs, Arrive(t) PROVE LockInv'
    BY <1>1 DEF Arrive, Lease!Enter
  <1>2. ASSUME NEW t \in Txs, Lock(t) PROVE LockInv'
    BY <1>2 DEF Lock, Lease!Grant
  <1>3. ASSUME NEW t \in Txs, FailOpen(t) PROVE LockInv'
    <2>1. CASE Lease!Grant(t)
      BY <1>3, <2>1 DEF FailOpen, Lease!Grant, Lease!Drop
    <2>2. CASE Lease!Drop(t) \/ UNCHANGED lease
      BY <1>3, <2>2 DEF FailOpen, Lease!Drop, Lease!Grant
    <2> QED BY <1>3, <2>1, <2>2 DEF FailOpen
  <1>4. ASSUME NEW t \in Txs, Inner(t) PROVE LockInv'
    BY <1>4, InnerFrame
  <1>5. ASSUME NEW t \in Txs, Abort(t) PROVE LockInv'
    BY <1>5 DEF Abort, GiveBack, Lease!End
  <1>6. ASSUME NEW t \in Txs, ReleaseLock(t) PROVE LockInv'
    BY <1>6 DEF ReleaseLock, GiveBack, Lease!End
  <1>7. ASSUME NEW t \in Txs, Overlook(t) PROVE LockInv'
    BY <1>7 DEF Overlook, Lease!Drop, call
  <1>8. ASSUME NEW t \in Txs, Crash(t) PROVE LockInv'
    BY <1>8 DEF Crash
  <1>9. ASSUME NEW t \in Txs, Prune(t) PROVE LockInv'
    BY <1>9 DEF Prune, Lease!Drop, call
  <1>10. CASE ExpireLease
    BY <1>10 DEF ExpireLease, Lease!End, call
  <1>11. CASE Outer
    BY <1>11, OuterFrame DEF call
  <1> QED BY <1>1, <1>2, <1>3, <1>4, <1>5, <1>6, <1>7, <1>8, <1>9, <1>10, <1>11, StepKinds

----------------------------------------------------------------------------
(* The order of arrival.                                                   *)

\* Nobody came before itself, and of two calls only one came first.
LEMMA BeforeIsStrict ==
  ASSUME arrived \in Seq(Txs), NoRepeats(arrived), NEW t, NEW u, Before(u, t)
  PROVE  ~Before(t, u) /\ u # t /\ u \in Elems(arrived) /\ t \in Elems(arrived)
  <1>1. DOMAIN arrived = 1 .. Len(arrived) /\ Len(arrived) \in Nat
    OBVIOUS
  <1>2. PICK i, j \in DOMAIN arrived : i < j /\ arrived[i] = u /\ arrived[j] = t
    BY DEF Before
  <1>3. u # t
    BY <1>1, <1>2 DEF NoRepeats
  <1>4. ~Before(t, u)
    <2> SUFFICES ASSUME NEW k \in DOMAIN arrived, NEW l \in DOMAIN arrived,
                        k < l, arrived[k] = t, arrived[l] = u
                 PROVE  FALSE
      BY DEF Before
    <2>1. k = j /\ l = i
      BY <1>2 DEF NoRepeats
    <2> QED BY <1>1, <1>2, <2>1
  <1> QED BY <1>2, <1>3, <1>4 DEF Elems

\* A call that arrives comes after all others and changes nothing about them.
LEMMA BeforeAppend ==
  ASSUME arrived \in Seq(Txs), NoRepeats(arrived), NEW s \in Txs, s \notin Elems(arrived),
         arrived' = Append(arrived, s)
  PROVE  /\ \A t, u : Before(u, t)' => Before(u, t) \/ t = s
         /\ \A t, u : Before(u, t) => Before(u, t)'
         /\ \A u \in Elems(arrived) : Before(u, s)'
  <1>1. /\ Len(arrived) \in Nat
        /\ DOMAIN arrived = 1 .. Len(arrived)
        /\ DOMAIN arrived' = 1 .. Len(arrived) + 1
        /\ arrived'[Len(arrived) + 1] = s
        /\ \A i \in DOMAIN arrived : arrived'[i] = arrived[i]
    OBVIOUS
  <1>2. ASSUME NEW t, NEW u, Before(u, t)' PROVE Before(u, t) \/ t = s
    <2>1. PICK i, j \in DOMAIN arrived' : i < j /\ arrived'[i] = u /\ arrived'[j] = t
      BY <1>2 DEF Before
    <2>2. CASE j = Len(arrived) + 1
      BY <1>1, <2>1, <2>2
    <2>3. CASE j # Len(arrived) + 1
      <3>1. i \in DOMAIN arrived /\ j \in DOMAIN arrived
        BY <1>1, <2>1, <2>3
      <3> QED BY <1>1, <2>1, <3>1 DEF Before
    <2> QED BY <2>2, <2>3
  <1>3. ASSUME NEW t, NEW u, Before(u, t) PROVE Before(u, t)'
    <2>1. PICK i, j \in DOMAIN arrived : i < j /\ arrived[i] = u /\ arrived[j] = t
      BY <1>3 DEF Before
    <2>2. i \in DOMAIN arrived' /\ j \in DOMAIN arrived'
      BY <1>1
    <2> QED BY <1>1, <2>1, <2>2 DEF Before
  <1>4. ASSUME NEW u \in Elems(arrived) PROVE Before(u, s)'
    <2>1. PICK i \in DOMAIN arrived : arrived[i] = u
      BY DEF Elems
    <2>2. i \in DOMAIN arrived' /\ Len(arrived) + 1 \in DOMAIN arrived' /\ i < Len(arrived) + 1
      BY <1>1
    <2> QED BY <1>1, <2>1, <2>2 DEF Before
  <1> QED BY <1>2, <1>3, <1>4

\* The first of the queue came before all others of the queue.
LEMMA HeadIsFirst ==
  ASSUME TypeOK, QueueInv, queue # <<>>, NEW u \in Elems(queue)
  PROVE  /\ Head(queue) \in Txs /\ Head(queue) \in Elems(queue)
         /\ ~Before(u, Head(queue))
  <1>1. /\ queue \in Seq(Txs) /\ Len(queue) \in Nat /\ Len(queue) >= 1
        /\ DOMAIN queue = 1 .. Len(queue) /\ Head(queue) = queue[1] /\ 1 \in DOMAIN queue
    BY DEF TypeOK
  <1>2. PICK i \in DOMAIN queue : queue[i] = u
    BY DEF Elems
  <1>3. u = Head(queue) \/ Before(Head(queue), u)
    BY <1>1, <1>2 DEF QueueInv
  <1>4. ~Before(u, Head(queue))
    BY <1>3, BeforeIsStrict DEF TypeOK, QueueInv
  <1> QED BY <1>1, <1>4 DEF Elems

\* A call that leaves the queue, with the calls that wait still in it.
LEMMA DropKeepsQueue ==
  ASSUME TypeOK, QueueInv, NEW t \in Txs, queue' = Without(queue, t),
         UNCHANGED arrived
  PROVE  /\ NoRepeats(arrived') /\ NoRepeats(queue')
         /\ Elems(queue') = Elems(queue) \ {t}
         /\ \A i \in DOMAIN queue' : queue'[i] \in Elems(arrived')
         /\ \A i, j \in DOMAIN queue' : i < j => Before(queue[i], queue[j])'
  <1>1. /\ NoRepeats(queue') /\ Elems(queue') = Elems(queue) \ {t}
        /\ \A i, j \in DOMAIN queue' : i < j =>
             \E k, l \in DOMAIN queue : k < l /\ queue'[i] = queue[k] /\ queue'[j] = queue[l]
    BY WithoutUnique DEF TypeOK, QueueInv
  <1>2. \A i \in DOMAIN queue' : queue'[i] \in Elems(arrived')
    BY <1>1 DEF QueueInv, Elems
  <1>3. ASSUME NEW i \in DOMAIN queue', NEW j \in DOMAIN queue', i < j
        PROVE  Before(queue[i], queue[j])'
    <2>1. PICK k, l \in DOMAIN queue : k < l /\ queue'[i] = queue[k] /\ queue'[j] = queue[l]
      BY <1>1, <1>3
    <2>2. Before(queue[k], queue[l])
      BY <2>1 DEF QueueInv
    <2> QED BY <2>1, <2>2 DEF Before
  <1> QED BY <1>1, <1>2, <1>3 DEF QueueInv

\* A step that leaves the order of arrival and the queue alone.
LEMMA QueueUnchanged ==
  ASSUME QueueInv, UNCHANGED <<arrived, queue, dropped, overlooked, key>>,
         \A t \in Txs : /\ pc[t] = "arrive" <=> pc'[t] = "arrive"
                        /\ pc'[t] = "lock" => pc[t] = "lock"
  PROVE  QueueInv'
  BY DEF QueueInv, Before, NoRepeats, Elems

\* A call arrives: it is the last of the queue and of the order of arrival.
LEMMA ArriveQueue ==
  ASSUME TypeOK, LockInv, QueueInv, NEW s \in Txs, Arrive(s)
  PROVE  QueueInv'
  <1>1. /\ s \notin Elems(queue) \cup dropped /\ s \notin Elems(arrived) /\ s \notin key
        /\ queue' = Append(queue, s) /\ arrived' = Append(arrived, s)
        /\ pc' = [pc EXCEPT ![s] = "lock"]
        /\ UNCHANGED <<key, dropped, overlooked>>
    BY LeaseOperators DEF Arrive, Lease!Enter, Goto, QueueInv, LockInv, TypeOK
  <1>2. NoRepeats(queue') /\ Elems(queue') = Elems(queue) \cup {s}
    BY <1>1, AppendUnique DEF TypeOK, QueueInv
  <1>3. NoRepeats(arrived') /\ Elems(arrived') = Elems(arrived) \cup {s}
    BY <1>1, AppendUnique DEF TypeOK, QueueInv
  <1>4. /\ \A t, u : Before(u, t)' => Before(u, t) \/ t = s
        /\ \A t, u : Before(u, t) => Before(u, t)'
        /\ \A u \in Elems(arrived) : Before(u, s)'
    BY <1>1, BeforeAppend DEF TypeOK, QueueInv
  <1>5. \A i \in DOMAIN queue' : queue'[i] \in Elems(arrived')
    BY <1>1, <1>3 DEF TypeOK, QueueInv
  <1>6. /\ DOMAIN queue = 1 .. Len(queue) /\ Len(queue) \in Nat
        /\ DOMAIN queue' = 1 .. Len(queue) + 1
        /\ queue'[Len(queue) + 1] = s
        /\ \A i \in DOMAIN queue : queue'[i] = queue[i]
    BY <1>1 DEF TypeOK
  <1>7. ASSUME NEW i \in DOMAIN queue', NEW j \in DOMAIN queue', i < j
        PROVE  Before(queue[i], queue[j])'
    <2>1. i \in DOMAIN queue
      BY <1>6, <1>7
    <2>2. CASE j \in DOMAIN queue
      <3>1. Before(queue[i], queue[j])
        BY <1>7, <2>1, <2>2 DEF QueueInv
      <3>2. queue'[i] = queue[i] /\ queue'[j] = queue[j]
        BY <1>6, <2>1, <2>2
      <3> QED BY <1>4, <3>1, <3>2 DEF Before
    <2>3. CASE j \notin DOMAIN queue
      <3>1. queue'[j] = s /\ queue'[i] = queue[i] /\ queue[i] \in Elems(arrived)
        BY <1>6, <2>1, <2>3 DEF QueueInv
      <3>2. Before(queue[i], s)'
        BY <1>4, <3>1 DEF Before
      <3> QED BY <3>1, <3>2 DEF Before
    <2> QED BY <2>2, <2>3
  <1>8. \A t \in Txs : t \in Elems(arrived)' <=> pc'[t] # "arrive"
    BY <1>1, <1>3 DEF TypeOK, QueueInv, Elems
  <1>9. \A t \in Txs : pc'[t] = "lock" =>
          t \in overlooked' \/ (t \in Elems(queue)' /\ t \notin dropped')
    BY <1>1, <1>2 DEF TypeOK, QueueInv, Elems
  <1>10. \A t \in key', u \in Txs :
           Before(u, t)' /\ pc'[u] = "lock" => t \in overlooked' \/ u \in overlooked'
    <2> SUFFICES ASSUME NEW t \in key, NEW u \in Txs, Before(u, t)', pc'[u] = "lock"
                 PROVE  t \in overlooked \/ u \in overlooked
      BY <1>1
    <2>1. t # s /\ Before(u, t)
      BY <1>1, <1>4
    <2>2. u \in Elems(arrived)
      BY <2>1, BeforeIsStrict DEF TypeOK, QueueInv
    <2>3. pc[u] = "lock"
      BY <1>1, <2>2 DEF TypeOK
    <2> QED BY <2>1, <2>3 DEF QueueInv
  <1> QED BY <1>2, <1>3, <1>5, <1>7, <1>8, <1>9, <1>10 DEF QueueInv, Elems

\* A call gets the lock, with the session key or without: it is the first of
\* the queue, unless it was overlooked.
LEMMA LockQueue ==
  ASSUME TypeOK, LockInv, QueueInv, NEW s \in Txs, pc[s] = "lock", Lease!Grant(s),
         Goto(s, "gasPrice"), key' \subseteq key \cup {s}, UNCHANGED <<arrived, overlooked>>
  PROVE  QueueInv'
  <1>1. /\ pc[s] = "lock" /\ pc' = [pc EXCEPT ![s] = "gasPrice"]
        /\ key' \subseteq key \cup {s}
        /\ UNCHANGED <<arrived, overlooked>>
        /\ s \in dropped \/ (queue # <<>> /\ s = Head(queue))
        /\ \/ UNCHANGED <<queue, dropped>>
           \/ queue' = Without(queue, s) /\ dropped' = dropped \cup {s}
    BY LeaseOperators DEF Lease!Grant, Goto
  <1>2. /\ NoRepeats(arrived') /\ NoRepeats(queue')
        /\ Elems(queue) \ {s} \subseteq Elems(queue')
        /\ \A i \in DOMAIN queue' : queue'[i] \in Elems(arrived')
        /\ \A i, j \in DOMAIN queue' : i < j => Before(queue[i], queue[j])'
    <2>1. CASE UNCHANGED <<queue, dropped>>
      BY <1>1, <2>1 DEF QueueInv, NoRepeats, Elems, Before
    <2>2. CASE queue' = Without(queue, s)
      BY <1>1, <2>2, DropKeepsQueue
    <2> QED BY <1>1, <2>1, <2>2
  <1>3. \A t \in Txs : t \in Elems(arrived)' <=> pc'[t] # "arrive"
    BY <1>1 DEF TypeOK, QueueInv, Elems
  <1>4. \A t \in Txs : pc'[t] = "lock" =>
          t \in overlooked' \/ (t \in Elems(queue)' /\ t \notin dropped')
    BY <1>1, <1>2 DEF TypeOK, QueueInv, Elems
  <1>5. ASSUME NEW t \in key', NEW u \in Txs, Before(u, t)', pc'[u] = "lock"
        PROVE  t \in overlooked' \/ u \in overlooked'
    <2>1. Before(u, t) /\ pc[u] = "lock" /\ u # s
      BY <1>1, <1>5 DEF Before, TypeOK
    <2>2. CASE t \in key
      BY <1>1, <2>1, <2>2 DEF QueueInv
    <2>3. CASE t = s /\ s \notin overlooked /\ u \notin overlooked
      <3>1. s \notin dropped /\ u \in Elems(queue)
        BY <1>1, <2>1, <2>3 DEF QueueInv
      <3> QED BY <1>1, <2>1, <2>3, <3>1, HeadIsFirst
    <2> QED BY <1>1, <2>2, <2>3
  <1> QED BY <1>2, <1>3, <1>4, <1>5 DEF QueueInv, Elems

\* A call leaves the queue: overlooked, crashed, or without the lock.
LEMMA DropQueue ==
  ASSUME TypeOK, QueueInv, NEW s \in Txs, Lease!Drop(s), UNCHANGED <<arrived, key>>,
         overlooked \subseteq overlooked',
         pc'[s] = "lock" => s \in overlooked',
         \A t \in Txs : /\ pc[t] = "arrive" <=> pc'[t] = "arrive"
                        /\ pc'[t] = "lock" => pc[t] = "lock"
  PROVE  QueueInv'
  <1>1. queue' = Without(queue, s) /\ dropped' = dropped \cup {s}
    BY LeaseOperators DEF Lease!Drop
  <1>2. /\ NoRepeats(arrived') /\ NoRepeats(queue')
        /\ Elems(queue') = Elems(queue) \ {s}
        /\ \A i \in DOMAIN queue' : queue'[i] \in Elems(arrived')
        /\ \A i, j \in DOMAIN queue' : i < j => Before(queue[i], queue[j])'
    BY <1>1, DropKeepsQueue
  <1>3. \A t \in Txs : t \in Elems(arrived)' <=> pc'[t] # "arrive"
    BY DEF QueueInv, Elems
  <1>4. \A t \in Txs : pc'[t] = "lock" =>
          t \in overlooked' \/ (t \in Elems(queue)' /\ t \notin dropped')
    BY <1>1, <1>2 DEF QueueInv, Elems
  <1>5. \A t \in key', u \in Txs :
           Before(u, t)' /\ pc'[u] = "lock" => t \in overlooked' \/ u \in overlooked'
    BY DEF QueueInv, Before
  <1> QED BY <1>2, <1>3, <1>4, <1>5 DEF QueueInv, Elems

LEMMA QueueStep ==
  ASSUME TypeOK, LockInv, QueueInv, Next
  PROVE  QueueInv'
  <1> USE DEF TypeOK, Goto, lease, history
  <1>1. ASSUME NEW t \in Txs, Arrive(t) PROVE QueueInv'
    BY <1>1, ArriveQueue
  <1>2. ASSUME NEW t \in Txs, Lock(t) PROVE QueueInv'
    BY <1>2, LockQueue DEF Lock
  <1>3. ASSUME NEW t \in Txs, FailOpen(t) PROVE QueueInv'
    <2>1. CASE Lease!Drop(t)
      BY <1>3, <2>1, DropQueue DEF FailOpen
    <2>2. CASE UNCHANGED lease
      BY <1>3, <2>2, QueueUnchanged DEF FailOpen
    <2>3. CASE Lease!Grant(t)
      BY <1>3, <2>3, LockQueue DEF FailOpen
    <2> QED BY <1>3, <2>1, <2>2, <2>3 DEF FailOpen
  <1>4. ASSUME NEW t \in Txs, Inner(t) PROVE QueueInv'
    BY <1>4, InnerFrame, QueueUnchanged
  <1>5. ASSUME NEW t \in Txs, Abort(t) PROVE QueueInv'
    BY <1>5, QueueUnchanged DEF Abort, GiveBack, Lease!End
  <1>6. ASSUME NEW t \in Txs, ReleaseLock(t) PROVE QueueInv'
    BY <1>6, QueueUnchanged DEF ReleaseLock, GiveBack, Lease!End
  <1>7. ASSUME NEW t \in Txs, Overlook(t) PROVE QueueInv'
    BY <1>7, DropQueue DEF Overlook, call
  <1>8. ASSUME NEW t \in Txs, Crash(t) PROVE QueueInv'
    BY <1>8, QueueUnchanged DEF Crash
  <1>9. ASSUME NEW t \in Txs, Prune(t) PROVE QueueInv'
    BY <1>9, DropQueue DEF Prune, call
  <1>10. CASE ExpireLease
    BY <1>10, QueueUnchanged DEF ExpireLease, Lease!End, call
  <1>11. CASE Outer
    BY <1>11, OuterFrame, QueueUnchanged DEF call
  <1> QED BY <1>1, <1>2, <1>3, <1>4, <1>5, <1>6, <1>7, <1>8, <1>9, <1>10, <1>11, StepKinds

----------------------------------------------------------------------------
(* Types.                                                                  *)

\* The steps of the lease keep its types.
LEMMA LeaseType ==
  ASSUME TypeOK, QueueInv, Next
  PROVE  /\ queue' \in Seq(Txs) /\ owner' \in Txs \cup {None}
         /\ dropped' \subseteq Txs /\ granted' \subseteq Txs
  <1> DEFINE Type == /\ queue' \in Seq(Txs) /\ owner' \in Txs \cup {None}
                     /\ dropped' \subseteq Txs /\ granted' \subseteq Txs
  <1> USE DEF TypeOK
  <1>1. ASSUME UNCHANGED lease PROVE Type
    BY <1>1 DEF lease
  <1>2. ASSUME NEW t \in Txs, Lease!Enter(t) PROVE Type
    BY <1>2 DEF Lease!Enter
  <1>3. ASSUME NEW t \in Txs, Lease!Drop(t) PROVE Type
    BY <1>3, LeaseOperators, WithoutUnique DEF Lease!Drop, QueueInv
  <1>4. ASSUME NEW t \in Txs, Lease!Grant(t) PROVE Type
    BY <1>4, LeaseOperators, WithoutUnique DEF Lease!Grant, QueueInv
  <1>5. ASSUME Lease!End PROVE Type
    BY <1>5 DEF Lease!End
  <1> HIDE DEF Type
  <1> QED BY <1>1, <1>2, <1>3, <1>4, <1>5, StepKinds, InnerFrame, OuterFrame
          DEF Arrive, Lock, FailOpen, Abort, ReleaseLock, GiveBack, Overlook, Crash, Prune,
              ExpireLease, Type

\* Every step keeps the types of everything else.
CallType ==
  /\ async \in BOOLEAN /\ raw \in Workloads
  /\ pc \in [Txs -> Location]
  /\ key \subseteq Txs
  /\ seenNonce \in [Txs -> Nat]
  /\ error \in [Txs -> Outcome]
  /\ answer \in [Txs -> Answer]
  /\ pool \subseteq {raw[t] : t \in Txs}
  /\ orphans \subseteq {raw[t] : t \in Txs}
  /\ cnNonce \in Nat /\ mnNonce \in Nat
  /\ inNetwork \subseteq Txs /\ executed \subseteq Txs /\ recorded \subseteq executed
  /\ arrived \in Seq(Txs)
  /\ expired \subseteq Txs /\ overlooked \subseteq Txs /\ stranded \subseteq Txs
  /\ faults \in 0 .. MaxFaults

LEMMA TypeParts ==
  TypeOK <=> /\ queue \in Seq(Txs) /\ owner \in Txs \cup {None}
             /\ dropped \subseteq Txs /\ granted \subseteq Txs
             /\ CallType
  BY DEF TypeOK, CallType

LEMMA TypePartsPrimed ==
  TypeOK' <=> /\ queue' \in Seq(Txs) /\ owner' \in Txs \cup {None}
              /\ dropped' \subseteq Txs /\ granted' \subseteq Txs
              /\ CallType'
  BY DEF TypeOK, CallType

\* Moving on, and settling the promise.
LEMMA MoveType ==
  ASSUME CallType, NEW t \in Txs
  PROVE  /\ \A to \in Location : Goto(t, to) => pc' \in [Txs -> Location] /\ UNCHANGED <<async, raw>>
         /\ \A a \in Answer : Tell(t, a) => answer' \in [Txs -> Answer]
  BY DEF CallType, Goto, Tell

\* A step of a call that only moves on, or also settles the promise.
LEMMA MoveOnlyType ==
  ASSUME CallType, pc' \in [Txs -> Location], answer' \in [Txs -> Answer],
         UNCHANGED <<async, raw, key, seenNonce, error, pool, network, history, faults>>
  PROVE  CallType'
  BY DEF CallType, network, history

\* An outcome of submitTransaction.
LEMMA SubmitType ==
  ASSUME CallType, NEW t \in Txs, Submit(t)
  PROVE  CallType'
  <1>1. \E e \in Outcome : Submitted(t, e)
    BY DEF Submit, SubmitSucceeds, SubmitWrongNonce, SubmitTimesOut, SubmitFails,
       SubmitRefused, Outcome
  <1>2. /\ pc' \in [Txs -> Location] /\ UNCHANGED <<async, raw>>
        /\ error' \in [Txs -> Outcome]
        /\ UNCHANGED <<key, seenNonce, answer, pool, mnNonce, recorded, history, faults>>
    BY <1>1, MoveType DEF Submitted, CallType, Location, Pooled
  <1>3. /\ cnNonce' \in Nat /\ inNetwork' \subseteq Txs
        /\ executed' \subseteq Txs /\ executed \subseteq executed'
    BY DEF Submit, SubmitSucceeds, SubmitWrongNonce, SubmitTimesOut, SubmitFails,
       SubmitRefused, CallType
  <1> QED BY <1>2, <1>3 DEF CallType, history

LEMMA CallTypeStep ==
  ASSUME TypeOK, Next
  PROVE  CallType'
  <1>0. CallType
    BY TypeParts
  <1>a. /\ Location = {"lock", "gasPrice", "account", "nonce", "save", "submit", "release", "unpool",
                       "arrive", "poll", "wrongNonce", "abort", "answered", "crashed"}
        /\ Answer = {"none", "hash", "INTERNAL_ERROR", "NONCE_TOO_LOW", "NONCE_TOO_HIGH", "error"}
    BY DEF Location, Unsubmitted, Pooled, Answer
  <1>b. ASSUME NEW t \in Txs
        PROVE  /\ \A to \in Location : Goto(t, to) =>
                    pc' \in [Txs -> Location] /\ UNCHANGED <<async, raw>>
               /\ \A a \in Answer : Tell(t, a) => answer' \in [Txs -> Answer]
    BY <1>0, MoveType
  <1>c. answer \in [Txs -> Answer]
    BY <1>0 DEF CallType
  <1>1. ASSUME NEW t \in Txs, Arrive(t) PROVE CallType'
    <2>1. pc' \in [Txs -> Location] /\ UNCHANGED <<async, raw>>
      BY <1>a, <1>b, <1>1 DEF Arrive
    <2>2. arrived' \in Seq(Txs)
      BY <1>0, <1>1 DEF Arrive, CallType
    <2> QED BY <1>0, <1>1, <2>1, <2>2 DEF Arrive, CallType, network
  <1>2. ASSUME NEW t \in Txs, Lock(t) PROVE CallType'
    BY <1>0, <1>a, <1>b, <1>2, SendAssumption DEF Lock, CallType, network, history, Fault
  <1>3. ASSUME NEW t \in Txs, FailOpen(t) PROVE CallType'
    BY <1>0, <1>a, <1>b, <1>3, SendAssumption DEF FailOpen, CallType, network, history, Fault
  <1>4. ASSUME NEW t \in Txs, GasPrice(t) \/ Reject(t) \/ CheckNonce(t) PROVE CallType'
    BY <1>0, <1>a, <1>b, <1>c, <1>4, MoveOnlyType DEF GasPrice, Reject, CheckNonce
  <1>5. ASSUME NEW t \in Txs, ReadAccount(t) PROVE CallType'
    BY <1>0, <1>a, <1>b, <1>5 DEF ReadAccount, CallType, network, history
  <1>6. ASSUME NEW t \in Txs, Save(t) PROVE CallType'
    <2>1. pc' \in [Txs -> Location] /\ UNCHANGED <<async, raw>> /\ answer' \in [Txs -> Answer]
      BY <1>a, <1>b, <1>c, <1>6 DEF Save
    <2> QED BY <1>0, <1>6, <2>1 DEF Save, CallType, network, history
  <1>7. ASSUME NEW t \in Txs, SaveFails(t) PROVE CallType'
    BY <1>0, <1>a, <1>b, <1>7, SendAssumption DEF SaveFails, CallType, network, Fault
  <1>8. ASSUME NEW t \in Txs, Abort(t) \/ ReleaseLock(t) PROVE CallType'
    <2>1. pc' \in [Txs -> Location] /\ UNCHANGED <<async, raw>>
      BY <1>a, <1>b, <1>8 DEF Abort, ReleaseLock
    <2>2. stranded' \subseteq Txs /\ faults' \in 0 .. MaxFaults
      BY <1>0, <1>8, SendAssumption DEF Abort, ReleaseLock, GiveBack, Fault, CallType
    <2> QED BY <1>0, <1>8, <2>1, <2>2 DEF Abort, ReleaseLock, CallType, network
  <1>9. ASSUME NEW t \in Txs, Submit(t) PROVE CallType'
    BY <1>0, <1>9, SubmitType
  <1>10. ASSUME NEW t \in Txs, RemoveFromPool(t) PROVE CallType'
    <2>1. pc' \in [Txs -> Location] /\ UNCHANGED <<async, raw>> /\ answer' \in [Txs -> Answer]
      BY <1>a, <1>b, <1>c, <1>10 DEF RemoveFromPool
    <2> QED BY <1>0, <1>10, <2>1 DEF RemoveFromPool, CallType, network
  <1>11. ASSUME NEW t \in Txs, RemoveFails(t) PROVE CallType'
    BY <1>0, <1>a, <1>b, <1>11, SendAssumption DEF RemoveFails, CallType, network, Fault
  <1>12. ASSUME NEW t \in Txs, PollMirrorNode(t) PROVE CallType'
    BY <1>0, <1>a, <1>b, <1>c, <1>12, MoveOnlyType DEF PollMirrorNode
  <1>13. ASSUME NEW t \in Txs, ExplainWrongNonce(t) PROVE CallType'
    BY <1>0, <1>a, <1>b, <1>13, MoveOnlyType DEF ExplainWrongNonce
  <1>14. ASSUME NEW t \in Txs, Overlook(t) PROVE CallType'
    BY <1>0, <1>14, SendAssumption DEF Overlook, CallType, network, call, Fault
  <1>15. ASSUME NEW t \in Txs, Crash(t) PROVE CallType'
    BY <1>0, <1>a, <1>b, <1>15, SendAssumption DEF Crash, CallType, network, Fault
  <1>16. ASSUME NEW t \in Txs, Prune(t) PROVE CallType'
    BY <1>0, <1>16 DEF Prune, CallType, network, history, call
  <1>17. ASSUME NEW t \in Txs, LateConsensus(t) PROVE CallType'
    BY <1>0, <1>17 DEF LateConsensus, CallType, history, call
  <1>18. CASE ExpireLease
    BY <1>0, <1>18, TypeParts DEF ExpireLease, Lease!End, CallType, network, call
  <1>19. CASE ExpirePool
    BY <1>0, <1>19, SendAssumption DEF ExpirePool, CallType, network, call, Fault
  <1>20. CASE MirrorImport
    BY <1>0, <1>20 DEF MirrorImport, CallType, history, call
  <1> QED BY <1>1, <1>2, <1>3, <1>4, <1>5, <1>6, <1>7, <1>8, <1>9, <1>10, <1>11, <1>12,
             <1>13, <1>14, <1>15, <1>16, <1>17, <1>18, <1>19, <1>20 DEF Next, Progress

----------------------------------------------------------------------------
(* The pool, and what the network did with the transactions.               *)

\* A step that keeps the pool and whoever is going to remove something.
LEMMA PoolUnchanged ==
  ASSUME PoolInv, UNCHANGED <<pool, orphans, raw>>,
         \A t \in Txs : pc[t] \in Pooled => pc'[t] \in Pooled
  PROVE  PoolInv'
  BY DEF PoolInv

LEMMA PoolStep ==
  ASSUME TypeOK, PoolInv, Next
  PROVE  PoolInv'
  <1> USE DEF TypeOK, Goto, history, call, Pooled
  <1>1. ASSUME NEW t \in Txs, Arrive(t) \/ Lock(t) \/ FailOpen(t) PROVE PoolInv'
    BY <1>1, PoolUnchanged DEF Arrive, Lock, FailOpen
  <1>2. ASSUME NEW t \in Txs, GasPrice(t) \/ Reject(t) \/ ReadAccount(t) \/ CheckNonce(t)
        PROVE  PoolInv'
    BY <1>2, PoolUnchanged DEF GasPrice, Reject, ReadAccount, CheckNonce
  <1>3. ASSUME NEW t \in Txs, Save(t) PROVE PoolInv'
    BY <1>3 DEF Save, PoolInv
  <1>4. ASSUME NEW t \in Txs, SaveFails(t) PROVE PoolInv'
    BY <1>4 DEF SaveFails, PoolInv
  <1>5. ASSUME NEW t \in Txs, Abort(t) \/ ReleaseLock(t) PROVE PoolInv'
    BY <1>5, PoolUnchanged DEF Abort, ReleaseLock
  <1>6. ASSUME NEW t \in Txs, Submit(t) PROVE PoolInv'
    <2>1. \E e : Submitted(t, e)
      BY <1>6 DEF Submit, SubmitSucceeds, SubmitWrongNonce, SubmitTimesOut, SubmitFails,
         SubmitRefused
    <2> QED BY <2>1, PoolUnchanged DEF Submitted
  <1>7. ASSUME NEW t \in Txs, RemoveFromPool(t) PROVE PoolInv'
    <2>1. /\ pool' = pool \ {raw[t]} /\ orphans' = orphans \ {raw[t]} /\ raw' = raw
          /\ \A u \in Txs : u # t => pc'[u] = pc[u]
      BY <1>7 DEF RemoveFromPool
    <2> QED BY <2>1 DEF PoolInv
  <1>8. ASSUME NEW t \in Txs, RemoveFails(t) PROVE PoolInv'
    <2>1. /\ pool' = pool /\ orphans' = orphans \cup {raw[t]} /\ raw' = raw
          /\ \A u \in Txs : u # t => pc'[u] = pc[u]
      BY <1>8 DEF RemoveFails
    <2> QED BY <2>1 DEF PoolInv
  <1>9. ASSUME NEW t \in Txs, PollMirrorNode(t) \/ ExplainWrongNonce(t) PROVE PoolInv'
    BY <1>9, PoolUnchanged DEF PollMirrorNode, ExplainWrongNonce
  <1>10. ASSUME NEW t \in Txs, Crash(t) PROVE PoolInv'
    BY <1>10 DEF Crash, PoolInv
  <1>11. ASSUME NEW t \in Txs, Overlook(t) \/ Prune(t) \/ LateConsensus(t) PROVE PoolInv'
    BY <1>11, PoolUnchanged DEF Overlook, Prune, LateConsensus
  <1>12. CASE ExpireLease \/ MirrorImport
    BY <1>12, PoolUnchanged DEF ExpireLease, MirrorImport
  <1>13. CASE ExpirePool
    BY <1>13 DEF ExpirePool, PoolInv
  <1> QED BY <1>1, <1>2, <1>3, <1>4, <1>5, <1>6, <1>7, <1>8, <1>9, <1>10, <1>11, <1>12, <1>13
          DEF Next, Progress

\* What the steps outside submitTransaction leave alone.
Silent(t) ==
  \/ Arrive(t) \/ Lock(t) \/ FailOpen(t) \/ GasPrice(t) \/ Reject(t) \/ CheckNonce(t)
  \/ Save(t) \/ SaveFails(t) \/ Abort(t) \/ ReleaseLock(t) \/ RemoveFromPool(t)
  \/ RemoveFails(t) \/ PollMirrorNode(t) \/ ExplainWrongNonce(t)
  \/ Overlook(t) \/ Crash(t) \/ Prune(t)

LEMMA SilentFrame ==
  ASSUME TypeOK, NEW t \in Txs, Silent(t)
  PROVE  /\ UNCHANGED <<network, seenNonce, error, raw>>
         /\ \A u \in Txs \ {t} : pc'[u] = pc[u]
         /\ pc'[t] \in Unsubmitted => pc[t] \in Unsubmitted \cup {"arrive"}
         /\ pc'[t] # "arrive" \/ pc[t] = "arrive"
         /\ pc'[t] \in {"release", "unpool", "poll"} => pc[t] \in {"release", "unpool", "poll"}
         /\ pc[t] \in {"abort", "answered", "crashed"} => pc'[t] \in {"abort", "answered", "crashed"}
         /\ pc'[t] = "wrongNonce" => pc[t] = "wrongNonce" \/ error[t] = "WRONG_NONCE"
  <1> USE DEF TypeOK, Goto, call, Unsubmitted
  <1>1. CASE Arrive(t) \/ Lock(t) \/ FailOpen(t)
    BY <1>1 DEF Arrive, Lock, FailOpen
  <1>2. CASE GasPrice(t) \/ Reject(t) \/ CheckNonce(t)
    BY <1>2 DEF GasPrice, Reject, CheckNonce
  <1>3. CASE Save(t) \/ SaveFails(t) \/ Abort(t) \/ ReleaseLock(t)
    BY <1>3 DEF Save, SaveFails, Abort, ReleaseLock
  <1>4. CASE RemoveFromPool(t) \/ RemoveFails(t)
    BY <1>4 DEF RemoveFromPool, RemoveFails
  <1>5. CASE PollMirrorNode(t) \/ ExplainWrongNonce(t)
    BY <1>5 DEF PollMirrorNode, ExplainWrongNonce
  <1>6. CASE Overlook(t) \/ Crash(t) \/ Prune(t)
    BY <1>6 DEF Overlook, Crash, Prune
  <1> QED BY <1>1, <1>2, <1>3, <1>4, <1>5, <1>6 DEF Silent

\* Every step is silent or one of these.
LEMMA NetworkKinds ==
  ASSUME Next
  PROVE  \/ \E t \in Txs : Silent(t) \/ ReadAccount(t) \/ Submit(t) \/ LateConsensus(t)
         \/ ExpireLease \/ ExpirePool \/ MirrorImport
  BY DEF Next, Progress, Silent

\* An outcome of submitTransaction, and what the network did.
LEMMA SubmitFrame ==
  ASSUME TypeOK, NEW t \in Txs, Submit(t)
  PROVE  /\ pc[t] = "submit" /\ pc'[t] = "release"
         /\ UNCHANGED <<async, raw, lease, key, answer, history, recorded>>
         /\ \A u \in Txs \ {t} : pc'[u] = pc[u] /\ error'[u] = error[u]
         /\ executed' \in {executed, executed \cup {t}}
         /\ error'[t] = "none" => t \in executed'
         /\ inNetwork' = inNetwork \/ (inNetwork' = inNetwork \cup {t} /\ error'[t] = "timeout")
         /\ error'[t] = "WRONG_NONCE" => Nonce(t) # cnNonce /\ executed' = executed
  <1> USE DEF TypeOK, Submitted, Goto, Outcome
  <1>1. CASE SubmitSucceeds(t)
    BY <1>1 DEF SubmitSucceeds
  <1>2. CASE SubmitWrongNonce(t)
    BY <1>2 DEF SubmitWrongNonce
  <1>3. CASE SubmitTimesOut(t)
    BY <1>3 DEF SubmitTimesOut
  <1>4. CASE SubmitFails(t)
    BY <1>4 DEF SubmitFails
  <1>5. CASE SubmitRefused(t)
    BY <1>5 DEF SubmitRefused
  <1> QED BY <1>1, <1>2, <1>3, <1>4, <1>5 DEF Submit

LEMMA OutcomeStep ==
  ASSUME TypeOK, OutcomeInv, Next
  PROVE  OutcomeInv'
  <1> USE DEF TypeOK, OutcomeInv, Goto, call, network, Unsubmitted
  <1>1. ASSUME NEW t \in Txs, Silent(t) PROVE OutcomeInv'
    BY <1>1, SilentFrame
  <1>2. ASSUME NEW t \in Txs, ReadAccount(t) PROVE OutcomeInv'
    BY <1>2 DEF ReadAccount
  <1>3. ASSUME NEW t \in Txs, Submit(t) PROVE OutcomeInv'
    <2>1. /\ pc[t] = "submit" /\ pc'[t] = "release"
          /\ \A u \in Txs \ {t} : pc'[u] = pc[u] /\ error'[u] = error[u]
          /\ executed' \in {executed, executed \cup {t}}
          /\ error'[t] = "none" => t \in executed'
          /\ inNetwork' = inNetwork \/ (inNetwork' = inNetwork \cup {t} /\ error'[t] = "timeout")
      BY <1>3, SubmitFrame
    <2>2. t \notin inNetwork
      BY <2>1
    <2> QED BY <2>1, <2>2
  <1>4. ASSUME NEW t \in Txs, LateConsensus(t) PROVE OutcomeInv'
    BY <1>4 DEF LateConsensus
  <1>5. CASE ExpireLease \/ ExpirePool \/ MirrorImport
    BY <1>5 DEF ExpireLease, ExpirePool, MirrorImport
  <1> QED BY <1>1, <1>2, <1>3, <1>4, <1>5, NetworkKinds

\* A transaction that executes uses the next nonce.
LEMMA ExecuteNonce ==
  ASSUME TypeOK, NonceInv, NEW t \in Txs, Nonce(t) = cnNonce, cnNonce' = cnNonce + 1,
         executed' = executed \cup {t}, UNCHANGED <<raw, mnNonce, seenNonce>>
  PROVE  NonceInv'
  <1>1. \A u \in Txs : Nonce(u)' = Nonce(u) /\ Nonce(u) \in Nat
    BY SendAssumption DEF TypeOK, Nonce
  <1>2. \A n \in 0 .. cnNonce' - 1 : \E u \in executed' : Nonce(u)' = n
    <2> SUFFICES ASSUME NEW n \in 0 .. cnNonce' - 1 PROVE \E u \in executed' : Nonce(u)' = n
      OBVIOUS
    <2>1. CASE n = cnNonce
      BY <1>1, <2>1
    <2>2. CASE n # cnNonce
      <3>1. n \in 0 .. cnNonce - 1
        BY <2>2 DEF TypeOK
      <3> QED BY <1>1, <3>1 DEF NonceInv, TypeOK
    <2> QED BY <2>1, <2>2
  <1>3. \A u \in executed' : Nonce(u)' < cnNonce'
    BY <1>1 DEF NonceInv, TypeOK
  <1>4. mnNonce' <= cnNonce' /\ \A u \in Txs : seenNonce'[u] <= mnNonce'
    BY DEF NonceInv, TypeOK
  <1> QED BY <1>2, <1>3, <1>4 DEF NonceInv, Nonce

LEMMA NonceUnchanged ==
  ASSUME NonceInv, UNCHANGED <<raw, executed, cnNonce, mnNonce, seenNonce>>
  PROVE  NonceInv'
  BY DEF NonceInv, Nonce

LEMMA NonceStep ==
  ASSUME TypeOK, NonceInv, Next
  PROVE  NonceInv'
  <1>1. ASSUME NEW t \in Txs, Silent(t) PROVE NonceInv'
    BY <1>1, SilentFrame, NonceUnchanged DEF network
  <1>2. ASSUME NEW t \in Txs, ReadAccount(t) PROVE NonceInv'
    <2>1. /\ UNCHANGED <<raw, executed, cnNonce, mnNonce>>
          /\ seenNonce' = [seenNonce EXCEPT ![t] = mnNonce]
      BY <1>2 DEF ReadAccount, Goto, network
    <2>2. \A u \in Txs : seenNonce'[u] <= mnNonce'
      BY <2>1 DEF NonceInv, TypeOK
    <2> QED BY <2>1, <2>2 DEF NonceInv, Nonce
  <1>3. ASSUME NEW t \in Txs, Submit(t) PROVE NonceInv'
    BY <1>3, ExecuteNonce, NonceUnchanged
       DEF Submit, Submitted, Goto, SubmitSucceeds, SubmitWrongNonce, SubmitTimesOut,
           SubmitFails, SubmitRefused
  <1>4. ASSUME NEW t \in Txs, LateConsensus(t) PROVE NonceInv'
    BY <1>4, ExecuteNonce, NonceUnchanged DEF LateConsensus, call
  <1>5. CASE ExpireLease \/ ExpirePool
    BY <1>5, NonceUnchanged DEF ExpireLease, ExpirePool, call, network
  <1>6. CASE MirrorImport
    <2>1. PICK t \in executed : Nonce(t) = mnNonce
      BY <1>6 DEF MirrorImport
    <2>2. mnNonce < cnNonce /\ mnNonce' = mnNonce + 1
      BY <1>6, <2>1 DEF MirrorImport, NonceInv
    <2>3. mnNonce' <= cnNonce' /\ \A u \in Txs : seenNonce'[u] <= mnNonce'
      BY <1>6, <2>2 DEF MirrorImport, NonceInv, TypeOK, call
    <2> QED BY <1>6, <2>3 DEF MirrorImport, NonceInv, Nonce, call
  <1> QED BY <1>1, <1>2, <1>3, <1>4, <1>5, <1>6, NetworkKinds

----------------------------------------------------------------------------
(* The answers.                                                            *)

\* A step that tells nobody anything and changes no outcome.
LEMMA AnswerUnchanged ==
  ASSUME TypeOK, AnswerInv, UNCHANGED <<async, answer, error>>, executed \subseteq executed',
         \A t \in Txs : /\ pc'[t] = "arrive" => pc[t] = "arrive"
                        /\ pc'[t] \in Unsubmitted \ {"submit"} =>
                             pc[t] \in (Unsubmitted \ {"submit"}) \cup {"arrive"}
                        /\ pc'[t] = "submit" => pc[t] \in {"save", "submit"}
  PROVE  AnswerInv'
  BY DEF TypeOK, AnswerInv, HashMeansOutcome, Unsubmitted

\* A step that settles the promise of a call after, or instead of, its save.
LEMMA AnswerTold ==
  ASSUME TypeOK, AnswerInv, NEW t \in Txs, NEW a \in Answer, NEW to \in Location,
         Goto(t, to), Tell(t, a), UNCHANGED <<error, executed>>,
         to \notin Unsubmitted \cup {"arrive"} \/ (async /\ to = "submit"),
         ~async /\ a = "hash" => t \in executed \/ error[t] = "WRONG_NONCE"
  PROVE  AnswerInv'
  <1>1. /\ UNCHANGED async
        /\ \A u \in Txs \ {t} : pc'[u] = pc[u] /\ answer'[u] = answer[u]
        /\ pc'[t] = to /\ answer'[t] \in {answer[t], a}
    BY DEF TypeOK, Goto, Tell
  <1>2. HashMeansOutcome'
    BY <1>1 DEF AnswerInv, HashMeansOutcome, TypeOK
  <1>3. \A u \in Txs : pc'[u] \in (Unsubmitted \ {"submit"}) \cup {"arrive"} => answer'[u] = "none"
    BY <1>1 DEF AnswerInv
  <1>4. \A u \in Txs : ~async /\ pc'[u] = "submit" => answer'[u] = "none"
    BY <1>1 DEF AnswerInv, Unsubmitted
  <1> QED BY <1>1, <1>2, <1>3, <1>4 DEF AnswerInv

LEMMA AnswerStep ==
  ASSUME TypeOK, OutcomeInv, AnswerInv, Next
  PROVE  AnswerInv'
  <1>a. /\ Location = {"lock", "gasPrice", "account", "nonce", "save", "submit", "release", "unpool",
                       "arrive", "poll", "wrongNonce", "abort", "answered", "crashed"}
        /\ Unsubmitted = {"lock", "gasPrice", "account", "nonce", "save", "submit"}
        /\ Answer = {"none", "hash", "INTERNAL_ERROR", "NONCE_TOO_LOW", "NONCE_TOO_HIGH", "error"}
    BY DEF Location, Unsubmitted, Pooled, Answer
  <1>b. ASSUME NEW t \in Txs, NEW to \in Location, Goto(t, to), UNCHANGED <<answer, error, executed>>,
               \/ to \notin Unsubmitted \cup {"arrive"}
               \/ pc[t] = "save" /\ to = "submit"
               \/ pc[t] \in (Unsubmitted \ {"submit"}) \cup {"arrive"} /\ to # "submit" /\ to # "arrive"
        PROVE  AnswerInv'
    <2>1. /\ pc'[t] = to /\ UNCHANGED async
          /\ \A u \in Txs \ {t} : pc'[u] = pc[u]
      BY <1>b DEF Goto, TypeOK
    <2>2. \A u \in Txs : /\ pc'[u] = "arrive" => pc[u] = "arrive"
                         /\ pc'[u] \in Unsubmitted \ {"submit"} =>
                              pc[u] \in (Unsubmitted \ {"submit"}) \cup {"arrive"}
                         /\ pc'[u] = "submit" => pc[u] \in {"save", "submit"}
      BY <1>a, <1>b, <2>1
    <2> QED BY <1>b, <2>1, <2>2, AnswerUnchanged
  <1>1. ASSUME NEW t \in Txs, Arrive(t) \/ Lock(t) \/ FailOpen(t) PROVE AnswerInv'
    BY <1>a, <1>b, <1>1 DEF Arrive, Lock, FailOpen, network
  <1>2. ASSUME NEW t \in Txs, GasPrice(t) \/ ReadAccount(t) PROVE AnswerInv'
    BY <1>a, <1>b, <1>2 DEF GasPrice, ReadAccount, network
  <1>3. ASSUME NEW t \in Txs, Reject(t) \/ SaveFails(t) PROVE AnswerInv'
    BY <1>a, <1>3, AnswerTold DEF Reject, SaveFails, network
  <1>4. ASSUME NEW t \in Txs, CheckNonce(t) PROVE AnswerInv'
    BY <1>a, <1>b, <1>4, AnswerTold DEF CheckNonce, network
  <1>5. ASSUME NEW t \in Txs, Save(t) PROVE AnswerInv'
    BY <1>a, <1>b, <1>5, AnswerTold DEF Save, network
  <1>6. ASSUME NEW t \in Txs, Abort(t) \/ ReleaseLock(t) \/ Crash(t) PROVE AnswerInv'
    BY <1>a, <1>b, <1>6 DEF Abort, ReleaseLock, Crash, network
  <1>7. ASSUME NEW t \in Txs, Submit(t) PROVE AnswerInv'
    <2>1. /\ UNCHANGED <<async, answer>> /\ executed \subseteq executed'
          /\ \A u \in Txs \ {t} : pc'[u] = pc[u] /\ error'[u] = error[u]
          /\ pc[t] = "submit" /\ pc'[t] = "release"
      BY <1>7, SubmitFrame DEF TypeOK
    <2>2. HashMeansOutcome'
      BY <2>1 DEF AnswerInv, HashMeansOutcome
    <2> QED BY <1>a, <2>1, <2>2 DEF AnswerInv
  <1>8. ASSUME NEW t \in Txs, RemoveFromPool(t) PROVE AnswerInv'
    BY <1>a, <1>b, <1>8, AnswerTold DEF RemoveFromPool, network
  <1>9. ASSUME NEW t \in Txs, RemoveFails(t) PROVE AnswerInv'
    BY <1>a, <1>9, AnswerTold DEF RemoveFails, network
  <1>10. ASSUME NEW t \in Txs, PollMirrorNode(t) PROVE AnswerInv'
    <2>1. UNCHANGED <<error, executed>> /\ recorded \subseteq executed
      BY <1>10 DEF PollMirrorNode, network, TypeOK
    <2> QED BY <1>a, <1>b, <1>10, <2>1, AnswerTold DEF PollMirrorNode
  <1>11. ASSUME NEW t \in Txs, ExplainWrongNonce(t) PROVE AnswerInv'
    <2>1. /\ UNCHANGED <<error, executed>>
          /\ \E to \in {"answered", "abort"}, a \in Answer \ {"hash"} : Goto(t, to) /\ Tell(t, a)
      BY <1>a, <1>11 DEF ExplainWrongNonce, network
    <2> QED BY <1>a, <2>1, AnswerTold
  <1>12. ASSUME NEW t \in Txs, Overlook(t) \/ Prune(t) \/ LateConsensus(t) PROVE AnswerInv'
    BY <1>a, <1>12, AnswerUnchanged DEF Overlook, Prune, LateConsensus, call, network
  <1>13. CASE ExpireLease \/ ExpirePool \/ MirrorImport
    BY <1>a, <1>13, AnswerUnchanged DEF ExpireLease, ExpirePool, MirrorImport, call, network
  <1> QED BY <1>1, <1>2, <1>3, <1>4, <1>5, <1>6, <1>7, <1>8, <1>9, <1>10, <1>11, <1>12, <1>13
          DEF Next, Progress

----------------------------------------------------------------------------
(* The order of submission and the causes of the refusals.                 *)

\* When a call under the lock submits, no earlier call under the lock is
\* still to submit: both would have the lock, or the earlier one would wait.
LEMMA NoEarlierCall ==
  ASSUME TypeOK, LockInv, QueueInv, NEW t \in Txs, NEW u \in Txs,
         pc[t] = "submit", Before(u, t), pc[u] \in Unsubmitted
  PROVE  t \in Unlocked \/ u \in Unlocked
  <1> SUFFICES ASSUME t \notin Unlocked, u \notin Unlocked PROVE FALSE
    OBVIOUS
  <1>1. t \in key /\ t \notin expired \cup overlooked /\ u \notin expired \cup overlooked
    BY DEF Unlocked
  <1>2. owner = t
    BY <1>1 DEF LockInv, Critical
  <1>3. pc[u] # "lock"
    BY <1>1 DEF QueueInv
  <1>4. u \in key /\ pc[u] \in Critical
    BY <1>3 DEF Unlocked, Unsubmitted, Critical
  <1>5. u = t
    BY <1>1, <1>2, <1>4 DEF LockInv
  <1> QED BY <1>5, BeforeIsStrict DEF TypeOK, QueueInv

\* What a step never takes back.
LEMMA Lasting ==
  ASSUME TypeOK, LockInv, QueueInv, OutcomeInv, Next
  PROVE  /\ Unlocked \subseteq Unlocked'
         /\ executed \subseteq executed' /\ UNCHANGED raw
         /\ \A u, t \in Txs : pc[t] # "arrive" /\ Before(u, t)' => Before(u, t)
         /\ \A u \in Txs : NotExecuted(u) => NotExecuted(u)'
  <1>1. executed \subseteq executed' /\ UNCHANGED raw
    <2>1. ASSUME NEW t \in Txs, Silent(t) PROVE executed \subseteq executed' /\ UNCHANGED raw
      BY <2>1, SilentFrame DEF network
    <2>2. ASSUME NEW t \in Txs, Submit(t) PROVE executed \subseteq executed' /\ UNCHANGED raw
      BY <2>2, SubmitFrame
    <2>3. ASSUME NEW t \in Txs, ReadAccount(t) \/ LateConsensus(t)
          PROVE  executed \subseteq executed' /\ UNCHANGED raw
      BY <2>3 DEF ReadAccount, LateConsensus, Goto, network, call
    <2>4. CASE ExpireLease \/ ExpirePool \/ MirrorImport
      BY <2>4 DEF ExpireLease, ExpirePool, MirrorImport, network, call
    <2> QED BY <2>1, <2>2, <2>3, <2>4, NetworkKinds
  <1>2. ASSUME NEW u \in Txs, NotExecuted(u) PROVE NotExecuted(u)'
    <2>1. ASSUME NEW t \in Txs, Silent(t) PROVE NotExecuted(u)'
      <3>1. /\ UNCHANGED <<error, executed>>
            /\ pc[u] \in {"abort", "answered", "crashed"} =>
                 pc'[u] \in {"abort", "answered", "crashed"}
        BY <2>1, SilentFrame DEF network
      <3> QED BY <1>2, <3>1 DEF NotExecuted
    <2>2. ASSUME NEW t \in Txs, Submit(t) PROVE NotExecuted(u)'
      <3>1. /\ pc[t] = "submit"
            /\ \A v \in Txs \ {t} : pc'[v] = pc[v] /\ error'[v] = error[v]
            /\ executed' \subseteq executed \cup {t}
        BY <2>2, SubmitFrame
      <3>2. u # t
        BY <1>2, <3>1 DEF NotExecuted, OutcomeInv, Unsubmitted
      <3> QED BY <1>2, <3>1, <3>2 DEF NotExecuted
    <2>3. ASSUME NEW t \in Txs, ReadAccount(t) PROVE NotExecuted(u)'
      BY <1>2, <2>3 DEF NotExecuted, ReadAccount, Goto, network, TypeOK
    <2>4. ASSUME NEW t \in Txs, LateConsensus(t) PROVE NotExecuted(u)'
      <3>1. /\ UNCHANGED <<error, pc>> /\ executed' \subseteq executed \cup {t}
            /\ error[t] = "timeout"
        BY <2>4 DEF LateConsensus, OutcomeInv, call
      <3> QED BY <1>2, <3>1 DEF NotExecuted
    <2>5. CASE ExpireLease \/ ExpirePool \/ MirrorImport
      BY <1>2, <2>5 DEF NotExecuted, ExpireLease, ExpirePool, MirrorImport, network, call
    <2> QED BY <2>1, <2>2, <2>3, <2>4, <2>5, NetworkKinds
  <1> DEFINE Kept == /\ expired \subseteq expired' /\ overlooked \subseteq overlooked'
                     /\ \A t \in Txs : t \notin key /\ pc[t] \notin {"arrive", "lock"} =>
                                         t \notin key' /\ pc'[t] \notin {"arrive", "lock"}
  <1>3. Kept
    <2> USE DEF TypeOK, Goto, history
    <2>1. ASSUME NEW s \in Txs, Arrive(s) \/ Lock(s) \/ FailOpen(s) PROVE Kept
      BY <2>1 DEF Arrive, Lock, FailOpen
    <2>2. ASSUME NEW s \in Txs, Inner(s) PROVE Kept
      BY <2>2, InnerFrame
    <2>3. ASSUME NEW s \in Txs, Abort(s) \/ ReleaseLock(s) \/ Crash(s) PROVE Kept
      BY <2>3 DEF Abort, ReleaseLock, Crash
    <2>4. ASSUME NEW s \in Txs, Overlook(s) \/ Prune(s) PROVE Kept
      BY <2>4 DEF Overlook, Prune, call
    <2>5. CASE ExpireLease
      BY <2>5 DEF ExpireLease, call
    <2>6. CASE Outer
      BY <2>6, OuterFrame DEF call
    <2> HIDE DEF Kept
    <2> QED BY <2>1, <2>2, <2>3, <2>4, <2>5, <2>6, StepKinds
  <1>4. Unlocked \subseteq Unlocked'
    BY <1>3 DEF Unlocked
  <1>5. ASSUME NEW u \in Txs, NEW t \in Txs, pc[t] # "arrive", Before(u, t)'
        PROVE  Before(u, t)
    <2>1. ASSUME NEW s \in Txs, Arrive(s) PROVE Before(u, t)
      <3>1. arrived' = Append(arrived, s) /\ s # t /\ s \notin Elems(arrived)
        BY <1>5, <2>1 DEF Arrive, QueueInv
      <3> QED BY <1>5, <3>1, BeforeAppend DEF TypeOK, QueueInv
    <2>2. CASE UNCHANGED arrived
      BY <1>5, <2>2 DEF Before
    <2> QED BY <2>1, <2>2, StepKinds, InnerFrame, OuterFrame
            DEF Lock, FailOpen, Abort, ReleaseLock, Overlook, Crash, Prune, ExpireLease, history
  <1> QED BY <1>1, <1>2, <1>4, <1>5

\* Why the transaction of t has the wrong nonce.
Cause(t) ==
  \/ t \in Unlocked
  \/ \E u \in Txs \ {t} : u \in executed /\ Nonce(u) = Nonce(t)
  \/ \E n \in 0 .. Nonce(t) - 1 : \A u \in Txs :
       Nonce(u) = n => ~Before(u, t) \/ u \in Unlocked \/ NotExecuted(u)

\* A cause stays one.
LEMMA CauseLasts ==
  ASSUME TypeOK, LockInv, QueueInv, OutcomeInv, Next, NEW t \in Txs, pc[t] # "arrive", Cause(t)
  PROVE  Cause(t)'
  <1>1. /\ Unlocked \subseteq Unlocked'
        /\ executed \subseteq executed' /\ UNCHANGED raw
        /\ \A u \in Txs : Before(u, t)' => Before(u, t)
        /\ \A u \in Txs : NotExecuted(u) => NotExecuted(u)'
    BY Lasting
  <1>2. \A u \in Txs : Nonce(u)' = Nonce(u)
    BY <1>1 DEF Nonce
  <1>3. CASE t \in Unlocked
    BY <1>1, <1>3 DEF Cause
  <1>4. CASE \E u \in Txs \ {t} : u \in executed /\ Nonce(u) = Nonce(t)
    BY <1>1, <1>2, <1>4 DEF Cause
  <1>5. ASSUME NEW n \in 0 .. Nonce(t) - 1,
               \A u \in Txs : Nonce(u) = n => ~Before(u, t) \/ u \in Unlocked \/ NotExecuted(u)
        PROVE  Cause(t)'
    <2>1. \A u \in Txs : Nonce(u)' = n => ~Before(u, t)' \/ u \in Unlocked' \/ NotExecuted(u)'
      BY <1>1, <1>2, <1>5
    <2> QED BY <1>2, <2>1 DEF Cause
  <1> QED BY <1>3, <1>4, <1>5 DEF Cause

\* A submission that is refused for its nonce has a cause.
LEMMA WrongNonceCaused ==
  ASSUME TypeOK, LockInv, QueueInv, NonceInv, OutcomeInv, Next,
         NEW t \in Txs, Submit(t), error'[t] = "WRONG_NONCE"
  PROVE  Cause(t)
  <1>1. pc[t] = "submit" /\ Nonce(t) # cnNonce
    BY SubmitFrame
  <1>2. t \notin executed
    BY <1>1 DEF OutcomeInv, Unsubmitted
  <1>3. cnNonce \in Nat /\ \A u \in Txs : Nonce(u) \in Nat
    BY SendAssumption DEF TypeOK, Nonce
  <1>4. CASE Nonce(t) < cnNonce
    <2>1. Nonce(t) \in 0 .. cnNonce - 1
      BY <1>3, <1>4
    <2> QED BY <1>2, <2>1 DEF NonceInv, Cause, TypeOK
  <1>5. CASE Nonce(t) > cnNonce
    <2>1. cnNonce \in 0 .. Nonce(t) - 1
      BY <1>3, <1>5
    <2>2. ASSUME NEW u \in Txs, Nonce(u) = cnNonce, Before(u, t), u \notin Unlocked, t \notin Unlocked
          PROVE  NotExecuted(u)
      <3>1. u \notin executed
        BY <1>3, <2>2 DEF NonceInv
      <3>2. pc[u] \notin Unsubmitted
        BY <1>1, <2>2, NoEarlierCall
      <3>3. pc[u] # "arrive"
        BY <2>2, BeforeIsStrict DEF TypeOK, QueueInv
      <3>4. CASE pc[u] \in {"release", "unpool", "poll"}
        <4>1. error[u] # "none" /\ error[u] \in Outcome
          BY <3>1, <3>4 DEF OutcomeInv, TypeOK
        <4> QED BY <3>1, <4>1 DEF NotExecuted, Outcome
      <3>5. CASE pc[u] = "wrongNonce"
        BY <3>5 DEF OutcomeInv, NotExecuted
      <3>6. CASE pc[u] \in {"abort", "answered", "crashed"}
        BY <3>1, <3>6 DEF NotExecuted
      <3>7. pc[u] \in Location
        BY DEF TypeOK
      <3> QED BY <3>2, <3>3, <3>4, <3>5, <3>6, <3>7 DEF Location, Pooled, Unsubmitted
    <2> QED BY <2>1, <2>2 DEF Cause
  <1> QED BY <1>1, <1>3, <1>4, <1>5

LEMMA CauseStep ==
  ASSUME TypeOK, LockInv, QueueInv, NonceInv, OutcomeInv, WrongNonceHasCause, Next
  PROVE  WrongNonceHasCause'
  <1> SUFFICES ASSUME NEW t \in Txs, error'[t] = "WRONG_NONCE" PROVE Cause(t)'
    BY DEF WrongNonceHasCause, Cause
  <1>1. CASE error[t] = "WRONG_NONCE"
    <2>1. pc[t] # "arrive"
      BY <1>1 DEF OutcomeInv
    <2>2. Cause(t)
      BY <1>1 DEF WrongNonceHasCause, Cause
    <2> QED BY <2>1, <2>2, CauseLasts
  <1>2. CASE error[t] # "WRONG_NONCE"
    <2>1. Submit(t)
      <3>1. ASSUME NEW s \in Txs, Silent(s) PROVE FALSE
        BY <1>2, <3>1, SilentFrame
      <3>2. ASSUME NEW s \in Txs, ReadAccount(s) \/ LateConsensus(s) PROVE FALSE
        BY <1>2, <3>2 DEF ReadAccount, LateConsensus, call
      <3>3. CASE ExpireLease \/ ExpirePool \/ MirrorImport
        BY <1>2, <3>3 DEF ExpireLease, ExpirePool, MirrorImport, call
      <3>4. ASSUME NEW s \in Txs, Submit(s), s # t PROVE FALSE
        BY <1>2, <3>4, SubmitFrame
      <3> QED BY <3>1, <3>2, <3>3, <3>4, NetworkKinds
    <2>2. Cause(t)
      BY <2>1, WrongNonceCaused
    <2>3. pc[t] # "arrive"
      BY <2>1, SubmitFrame
    <2> QED BY <2>2, <2>3, CauseLasts
  <1> QED BY <1>1, <1>2
----------------------------------------------------------------------------
(* The theorems.                                                           *)

LEMMA InitIInv == Init => IInv
  <1> SUFFICES ASSUME Init PROVE IInv
    OBVIOUS
  <1> USE SendAssumption DEF Init, Lease!LeaseInit
  <1>1. TypeOK
    BY DEF TypeOK, Location, Outcome, Answer
  <1>2. LockInv /\ PoolInv
    BY DEF LockInv, PoolInv
  <1>3. QueueInv
    BY DEF QueueInv, NoRepeats, Elems
  <1>4. NonceInv
    BY DEF NonceInv
  <1>5. OutcomeInv /\ AnswerInv /\ WrongNonceHasCause
    BY DEF OutcomeInv, AnswerInv, HashMeansOutcome, WrongNonceHasCause
  <1> QED BY <1>1, <1>2, <1>3, <1>4, <1>5 DEF IInv

LEMMA NextIInv == IInv /\ [Next]_vars => IInv'
  <1> SUFFICES ASSUME IInv, [Next]_vars PROVE IInv'
    OBVIOUS
  <1>1. CASE Next
    <2>1. TypeOK'
      BY <1>1, LeaseType, CallTypeStep, TypePartsPrimed DEF IInv
    <2> QED BY <1>1, <2>1, LockStep, QueueStep, PoolStep, NonceStep, OutcomeStep, AnswerStep,
               CauseStep DEF IInv
  <1>2. CASE UNCHANGED vars
    <2> USE <1>2 DEF vars, lease, call, network, history
    <2>1. TypeOK'
      BY DEF IInv, TypeOK
    <2>2. LockInv' /\ PoolInv'
      BY DEF IInv, LockInv, PoolInv
    <2>3. QueueInv'
      BY DEF IInv, QueueInv, NoRepeats, Elems, Before
    <2>4. NonceInv' /\ OutcomeInv'
      BY DEF IInv, NonceInv, OutcomeInv, Nonce
    <2>5. AnswerInv'
      BY DEF IInv, AnswerInv, HashMeansOutcome
    <2>6. WrongNonceHasCause'
      BY DEF IInv, WrongNonceHasCause, Unlocked, Nonce, Before, NotExecuted
    <2> QED BY <2>1, <2>2, <2>3, <2>4, <2>5, <2>6 DEF IInv
  <1> QED BY <1>1, <1>2

(* The inductive invariant: types, the lock, the queue, the pool, nonces,   *)
(* outcomes, answers and the causes of WRONG_NONCE.                         *)
THEOREM Invariance == Spec => []IInv
  BY InitIInv, NextIInv, PTL DEF Spec

(* Whatever transactions are sent and whatever fails: the state of          *)
(* sendRawTransaction, its pool and its lock keep their types.              *)
THEOREM TypeCorrectness == Spec => []TypeOK
  <1>1. IInv => TypeOK
    BY DEF IInv
  <1> QED BY <1>1, Invariance, PTL

(* The hash a client waited for stands for an executed transaction or for   *)
(* the failed record of one with a wrong nonce.                             *)
THEOREM HashesMeanOutcomes == Spec => []HashMeansOutcome
  <1>1. IInv => HashMeansOutcome
    BY DEF IInv, AnswerInv
  <1> QED BY <1>1, Invariance, PTL

(* Every path of sendRawTransaction and of its processor gives the lock     *)
(* back, unless the command that should have done so failed, or acquireLock *)
(* failed open with the lock taken; and every entry of the pool has a call  *)
(* that will remove it unless a crash or a failed command prevents it.      *)
THEOREM CallsLeaveNothing == Spec => []EndedCallsLeaveNothing
  <1>1. IInv => EndedCallsLeaveNothing
    BY SendAssumption DEF IInv, LockInv, PoolInv, EndedCallsLeaveNothing, Critical, TypeOK
  <1> QED BY <1>1, Invariance, PTL

(* WRONG_NONCE under the lock has one of the three causes: the nonce was    *)
(* used, a smaller one is missing, or the lock was not held throughout.     *)
THEOREM WrongNoncesCaused == Spec => []WrongNonceHasCause
  <1>1. IInv => WrongNonceHasCause
    BY DEF IInv
  <1> QED BY <1>1, Invariance, PTL

(* The calls that keep their lock submit in the order in which they         *)
(* arrived, however many of them there are.                                 *)
THEOREM OrderOfSubmission == Spec => SubmittedInOrder
  <1>1. IInv => \A t, u \in Txs :
          pc[t] = "submit" /\ Before(u, t) /\ pc[u] \in Unsubmitted => t \in Unlocked \/ u \in Unlocked
    BY NoEarlierCall DEF IInv
  <1>2. IInv /\ [Next]_vars =>
          [\A t, u \in Txs :
             /\ pc[t] = "submit" /\ pc'[t] = "release"
             /\ Before(u, t)
             /\ pc[u] \in Unsubmitted
             => t \in Unlocked \/ u \in Unlocked]_vars
    BY <1>1
  <1> QED BY <1>2, Invariance, PTL DEF Spec, SubmittedInOrder

\* The precheck of a call under the lock sees a pool that is empty, or has an
\* entry that outlived its submission.
LEMMA PoolUnderLock ==
  ASSUME IInv, NEW t \in Txs, pc[t] = "nonce", t \notin Unlocked, NEW r \in pool
  PROVE  \/ r \in orphans
         \/ \E u \in Txs : raw[u] = r /\ (pc[u] = "unpool" \/ u \in Unlocked)
  <1> SUFFICES ASSUME r \notin orphans
               PROVE  \E u \in Txs : raw[u] = r /\ (pc[u] = "unpool" \/ u \in Unlocked)
    OBVIOUS
  <1>1. PICK u \in Txs : raw[u] = r /\ pc[u] \in Pooled
    BY DEF IInv, PoolInv
  <1>2. t \in key /\ t \notin expired
    BY DEF Unlocked
  <1>3. owner = t
    BY <1>2 DEF IInv, LockInv, Critical
  <1>4. CASE pc[u] # "unpool" /\ u \notin Unlocked
    <2>1. u \in key /\ u \notin expired /\ pc[u] \in Critical /\ u # t
      BY <1>1, <1>4 DEF Unlocked, Pooled, Critical
    <2> QED BY <1>3, <2>1 DEF IInv, LockInv
  <1> QED BY <1>1, <1>4

\* Between the reading of the account and the save only the precheck itself
\* answers NONCE_TOO_LOW.
LEMMA TooLowIsPrecheck ==
  ASSUME TypeOK, Next, NEW t \in Txs, pc[t] = "nonce", answer[t] = "none",
         answer'[t] = "NONCE_TOO_LOW"
  PROVE  SignerNonce(t) > Nonce(t)
  <1>1. \A u \in Txs \ {t}, a \in Answer : Tell(u, a) => answer'[t] = answer[t]
    BY DEF Tell, TypeOK
  <1>2. \A a \in Answer : Tell(t, a) => answer'[t] = a
    BY DEF Tell, TypeOK
  <1>a. Answer = {"none", "hash", "INTERNAL_ERROR", "NONCE_TOO_LOW", "NONCE_TOO_HIGH", "error"}
    BY DEF Answer
  <1>3. ASSUME NEW u \in Txs, Reject(u) \/ SaveFails(u) \/ RemoveFails(u) PROVE FALSE
    BY <1>1, <1>2, <1>a, <1>3 DEF Reject, SaveFails, RemoveFails
  <1>4. ASSUME NEW u \in Txs, Save(u) \/ RemoveFromPool(u) \/ PollMirrorNode(u) PROVE FALSE
    BY <1>1, <1>a, <1>4 DEF Save, RemoveFromPool, PollMirrorNode
  <1>5. ASSUME NEW u \in Txs, ExplainWrongNonce(u) PROVE FALSE
    <2>1. u # t /\ \E a \in Answer : Tell(u, a)
      BY <1>a, <1>5 DEF ExplainWrongNonce
    <2> QED BY <1>1, <2>1
  <1>6. ASSUME NEW u \in Txs, CheckNonce(u) PROVE SignerNonce(t) > Nonce(t)
    BY <1>1, <1>a, <1>6 DEF CheckNonce
  <1>7. ASSUME NEW u \in Txs, Submit(u) PROVE FALSE
    BY <1>7, SubmitFrame
  <1>8. ASSUME NEW u \in Txs, \/ Arrive(u) \/ Lock(u) \/ FailOpen(u) \/ GasPrice(u) \/ ReadAccount(u)
                              \/ Abort(u) \/ ReleaseLock(u) \/ Overlook(u) \/ Crash(u) \/ Prune(u)
                              \/ LateConsensus(u)
        PROVE  FALSE
    BY <1>8 DEF Arrive, Lock, FailOpen, GasPrice, ReadAccount, Abort, ReleaseLock, Overlook, Crash,
       Prune, LateConsensus, call
  <1>9. CASE ExpireLease \/ ExpirePool \/ MirrorImport
    BY <1>9 DEF ExpireLease, ExpirePool, MirrorImport, call
  <1> QED BY <1>3, <1>4, <1>5, <1>6, <1>7, <1>8, <1>9 DEF Next, Progress

\* With an empty pool the precheck refuses only what the mirror node knows.
LEMMA TooLowIsUsed ==
  ASSUME IInv, Next, NEW t \in Txs, pc[t] = "nonce", answer'[t] = "NONCE_TOO_LOW", pool = {}
  PROVE  Nonce(t) < cnNonce
  <1>1. answer[t] = "none"
    BY DEF IInv, AnswerInv, Unsubmitted
  <1>2. SignerNonce(t) > Nonce(t)
    BY <1>1, TooLowIsPrecheck DEF IInv
  <1>3. Cardinality(pool) = 0
    BY FS_EmptySet
  <1>4. /\ seenNonce[t] \in Nat /\ mnNonce \in Nat /\ cnNonce \in Nat /\ Nonce(t) \in Nat
        /\ seenNonce[t] <= mnNonce /\ mnNonce <= cnNonce
    BY SendAssumption DEF IInv, TypeOK, NonceInv, Nonce
  <1> QED BY <1>2, <1>3, <1>4 DEF SignerNonce

(* NONCE_TOO_LOW of a nonce that is still to be used comes from an entry of *)
(* the pool that outlived its submission, or from a lock that was not held. *)
THEOREM TooLowCaused == Spec => TooLowHasCause
  <1> DEFINE Caused == \A t \in Txs :
       pc[t] = "nonce" /\ answer'[t] = "NONCE_TOO_LOW" =>
         \/ Nonce(t) < cnNonce
         \/ t \in Unlocked
         \/ \E r \in pool : \/ r \in orphans
                            \/ \E u \in Txs : raw[u] = r /\ (pc[u] = "unpool" \/ u \in Unlocked)
  <1>1. ASSUME IInv, Next PROVE Caused
    <2> SUFFICES ASSUME NEW t \in Txs, pc[t] = "nonce", answer'[t] = "NONCE_TOO_LOW",
                        t \notin Unlocked, ~(Nonce(t) < cnNonce)
                 PROVE  \E r \in pool : \/ r \in orphans
                            \/ \E u \in Txs : raw[u] = r /\ (pc[u] = "unpool" \/ u \in Unlocked)
      OBVIOUS
    <2>1. PICK r \in pool : TRUE
      BY <1>1, TooLowIsUsed
    <2> QED BY <1>1, <2>1, PoolUnderLock
  <1>2. IInv /\ [Next]_vars => [Caused]_vars
    BY <1>1
  <1> QED BY <1>2, Invariance, PTL DEF Spec, TooLowHasCause
=============================================================================
