------------------------------ MODULE LocalLock ------------------------------
(***************************************************************************)
(* LocalLockStrategy: one async-mutex per sender address, kept in an LRU    *)
(* cache of LOCAL_LOCK_MAX_ENTRIES lock states, with a timer that releases  *)
(* a lock held for longer than LOCK_MAX_HOLD_MS.                            *)
(*                                                                          *)
(* A session is one call of acquireLock and the releaseLock calls that      *)
(* follow it.  The relay is one thread: the code between two awaits is one  *)
(* action.  A LockState is named after the session that created it.         *)
(***************************************************************************)
EXTENDS UniqueList, FiniteSets

CONSTANTS Sessions,     \* the calls of acquireLock
          None,         \* no session
          Addresses,    \* the senders
          AddressOf,    \* the sender of each session
          MaxEntries,   \* LOCAL_LOCK_MAX_ENTRIES
          Watched       \* the lock state that is compared with FifoLease

ASSUME LocalAssumption ==
  /\ None \notin Sessions
  /\ AddressOf \in [Sessions -> Addresses]
  /\ MaxEntries \in Nat \ {0}
  /\ Watched \in Sessions

VARIABLES cache,        \* the cached lock states, least recently used first
          mutex,        \* per lock state: who has its mutex, then who waits for it
          sessionKey,   \* per lock state: the session key of its owner, or None
          timers,       \* the sessions whose expiry timer is set
          pc,           \* "idle", "waiting", "holding", "released"
          stateOf,      \* the lock state each session got from getOrCreateState
          expired       \* history: the sessions whose lock was force released

vars == <<cache, mutex, sessionKey, timers, pc, stateOf, expired>>

Init ==
  /\ cache = <<>>
  /\ mutex = [l \in Sessions |-> <<>>]
  /\ sessionKey = [l \in Sessions |-> None]
  /\ timers = {}
  /\ pc = [s \in Sessions |-> "idle"]
  /\ stateOf = [s \in Sessions |-> None]
  /\ expired = {}

\* The lock states the cache has for an address: at most one.
Cached(a) == {l \in Elems(cache) : AddressOf[l] = a}

\* LRUCache.get: the entry becomes the most recently used one.
Touch(l) == Append(Without(cache, l), l)

\* LRUCache.set: a full cache first evicts its least recently used entry.
Insert(l) == Append(IF Len(cache) = MaxEntries THEN Tail(cache) ELSE cache, l)

\* getOrCreateState, then mutex.acquire, which queues behind earlier callers.
AcquireLock(s) ==
  LET a == AddressOf[s]
      l == IF Cached(a) = {} THEN s ELSE CHOOSE c \in Cached(a) : TRUE
  IN  /\ pc[s] = "idle"
      /\ cache' = IF Cached(a) = {} THEN Insert(s) ELSE Touch(l)
      /\ stateOf' = [stateOf EXCEPT ![s] = l]
      /\ mutex' = [mutex EXCEPT ![l] = Append(@, s)]
      /\ pc' = [pc EXCEPT ![s] = "waiting"]
      /\ UNCHANGED <<sessionKey, timers, expired>>

\* Mutant: a waiter overtakes the others.
GrantedOutOfTurn(s) ==
  LET l == stateOf[s]
  IN  /\ pc[s] = "waiting"
      /\ sessionKey[l] = None
      /\ sessionKey' = [sessionKey EXCEPT ![l] = s]
      /\ timers' = timers \cup {s}
      /\ pc' = [pc EXCEPT ![s] = "holding"]
      /\ UNCHANGED <<cache, mutex, stateOf, expired>>

\* The continuation of mutex.acquire: ownership, and the timer that ends it.
Granted(s) ==
  LET l == stateOf[s]
  IN  /\ pc[s] = "waiting"
      /\ mutex[l] # <<>> /\ Head(mutex[l]) = s
      /\ sessionKey' = [sessionKey EXCEPT ![l] = s]
      /\ timers' = timers \cup {s}
      /\ pc' = [pc EXCEPT ![s] = "holding"]
      /\ UNCHANGED <<cache, mutex, stateOf, expired>>

\* Mutant: the metadata is reset, the mutex is not released.
ResetOnly(l) ==
  /\ timers' = timers \ {sessionKey[l]}
  /\ sessionKey' = [sessionKey EXCEPT ![l] = None]
  /\ UNCHANGED mutex

DoRelease(l) ==
  /\ timers' = timers \ {sessionKey[l]}
  /\ sessionKey' = [sessionKey EXCEPT ![l] = None]
  /\ mutex' = [mutex EXCEPT ![l] = Tail(@)]

\* Mutant: the session key is not compared.
ReleaseAnyOwner(s) ==
  \E l \in Cached(AddressOf[s]) :
    /\ cache' = Touch(l)
    /\ sessionKey[l] # None
    /\ DoRelease(l)

\* Look the address of s up; if the state found is owned by s, release it.
ReleaseIfOwner(s) ==
  \E l \in Cached(AddressOf[s]) :
    /\ cache' = Touch(l)
    /\ sessionKey[l] = s
    /\ DoRelease(l)

LeaveToOwner(s) ==
  /\ \A l \in Cached(AddressOf[s]) : sessionKey[l] # s
  /\ cache' = IF Cached(AddressOf[s]) = {} THEN cache
              ELSE Touch(CHOOSE l \in Cached(AddressOf[s]) : TRUE)
  /\ UNCHANGED <<mutex, sessionKey>>

\* releaseLock.  The catch block of sendRawTransaction may call it again.
ReleaseLock(s) ==
  /\ pc[s] \in {"holding", "released"}
  /\ ReleaseIfOwner(s) \/ (LeaveToOwner(s) /\ UNCHANGED timers)
  /\ pc' = [pc EXCEPT ![s] = "released"]
  /\ UNCHANGED <<stateOf, expired>>

\* The timer of s fires.
ForceReleaseExpiredLock(s) ==
  /\ s \in timers
  /\ \/ ReleaseIfOwner(s) /\ expired' = expired \cup {s}
     \/ LeaveToOwner(s) /\ timers' = timers \ {s} /\ UNCHANGED expired
  /\ UNCHANGED <<pc, stateOf>>

Next ==
  \E s \in Sessions :
    \/ AcquireLock(s)
    \/ Granted(s)
    \/ ReleaseLock(s)
    \/ ForceReleaseExpiredLock(s)

Spec == Init /\ [][Next]_vars

\* Microtasks and timers run.  Nothing says that a holder ever releases.
FairSpec ==
  /\ Spec
  /\ \A s \in Sessions : WF_vars(Granted(s)) /\ WF_vars(ForceReleaseExpiredLock(s))
----------------------------------------------------------------------------
(* Properties                                                              *)

TypeOK ==
  /\ cache \in Seq(Sessions)
  /\ NoRepeats(cache)
  /\ mutex \in [Sessions -> Seq(Sessions)]
  /\ sessionKey \in [Sessions -> Sessions \cup {None}]
  /\ timers \subseteq Sessions
  /\ pc \in [Sessions -> {"idle", "waiting", "holding", "released"}]
  /\ stateOf \in [Sessions -> Sessions \cup {None}]
  /\ expired \subseteq Sessions

\* The sessions that have a lock and were not told, by a timer, to lose it.
Holding(s) == pc[s] = "holding" /\ s \notin expired

\* A mutex has one owner at a time, whatever the cache evicts and whichever
\* timers and late releases are still to come.
OneHolderPerMutex ==
  \A s, t \in Sessions : Holding(s) /\ Holding(t) /\ stateOf[s] = stateOf[t] => s = t

\* No lock without an end: the owner of every mutex that the cache still knows
\* has its timer set, whatever timers of earlier owners fired meanwhile.
OwnerHasTimer ==
  \A l \in Elems(cache) : sessionKey[l] # None => sessionKey[l] \in timers

\* A waiter gets the lock, even if the holders before it never release: their
\* timers do it, unless the lock state they share is evicted from the cache.
WaiterReturns ==
  \A s \in Sessions : pc[s] = "waiting" ~> (pc[s] # "waiting" \/ stateOf[s] \notin Elems(cache))

\* The mutex of a lock state, with its session key, is a FIFO lease, evicted or
\* not: the session key names the owner, the sessions behind it in the mutex are
\* the queue, and whoever got past acquireLock has been granted it.
Served == {s \in Sessions : stateOf[s] = Watched /\ pc[s] \in {"holding", "released"}}

Lease == INSTANCE FifoLease WITH
  queue    <- IF sessionKey[Watched] = None THEN mutex[Watched] ELSE Tail(mutex[Watched]),
  owner    <- sessionKey[Watched],
  dropped  <- Served,
  granted  <- Served

\* LocalLockStrategy keeps what a LockStrategy promises to the sessions that
\* share a lock state.
ImplementsFifoLease == Lease!LeaseSpec
=============================================================================
