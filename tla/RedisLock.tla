------------------------------ MODULE RedisLock ------------------------------
(***************************************************************************)
(* RedisLockStrategy: the distributed per-sender lock of the relay.         *)
(*                                                                          *)
(* The keys of different addresses are disjoint, so the module models the   *)
(* three kinds of keys of ONE (normalized) address: the lock key, the queue *)
(* of waiters, and a heartbeat key per waiter.  A session is one call of    *)
(* acquireLock; its key is a random UUID, hence used by no other call.      *)
(*                                                                          *)
(* Every `await` of a Redis command is one action, because any other        *)
(* session (of this or of another relay instance) may run between two of    *)
(* them.  A command may fail, with its effect applied (the answer was lost) *)
(* or not.  TTLs run out by actions of their own.  A process may crash at   *)
(* any point.  The list is kept oldest first: lPush appends, and            *)
(* lIndex(queue, -1) is the head.                                           *)
(***************************************************************************)
EXTENDS UniqueList

CONSTANTS Sessions,    \* one per call of acquireLock
          None,        \* no session
          MaxErrors,   \* bound on the number of failing Redis commands
          LateBeats    \* may a live waiter be too slow to refresh its heartbeat?

ASSUME RedisAssumption ==
  /\ None \notin Sessions
  /\ MaxErrors \in Nat
  /\ LateBeats \in BOOLEAN

VARIABLES lock,        \* the value of the lock key: its holder, or None
          queue,       \* the list of waiting sessions, oldest first
          heartbeat,   \* the sessions whose heartbeat key exists
          pc,          \* where each session is in acquireLock and its caller
          first,       \* the local firstInQueue of each session
          pruned,      \* history: the sessions another waiter took for dead
          expired,     \* history: the sessions whose lock key ran out
          granted,     \* history: the sessions whose SET NX set the lock key
          arrivals,    \* history: the number of lPush so far
          ticket,      \* history: its number in the order of lPush, 0 before it
          errors       \* the number of commands that failed

redis == <<lock, queue, heartbeat>>

vars == <<redis, pc, first, pruned, expired, granted, arrivals, ticket, errors>>

Loop     == {"heartbeat", "lIndex", "setNX", "exists", "lRem"}
Command  == Loop \cup {"lPush", "lLen", "leaveHolding", "leaveOpen", "release"}
Holder   == {"lLen", "leaveHolding", "release"}
Final    == {"open", "done", "crashed"}
Location == Command \cup Final

Init ==
  /\ lock = None
  /\ queue = <<>>
  /\ heartbeat = {}
  /\ pc = [s \in Sessions |-> "lPush"]
  /\ first = [s \in Sessions |-> None]
  /\ pruned = {}
  /\ expired = {}
  /\ granted = {}
  /\ arrivals = 0
  /\ ticket = [s \in Sessions |-> 0]
  /\ errors = 0

Goto(s, to) == pc' = [pc EXCEPT ![s] = to]

Joined == {s \in Sessions : ticket[s] > 0}
----------------------------------------------------------------------------
(* The effect of each command on Redis, for session s.                     *)

LPush(s) ==
  /\ queue' = Append(queue, s)
  /\ arrivals' = arrivals + 1
  /\ ticket' = [ticket EXCEPT ![s] = arrivals + 1]
  /\ UNCHANGED <<lock, heartbeat, pruned, granted>>

Beat(s) ==
  /\ heartbeat' = heartbeat \cup {s}
  /\ UNCHANGED <<lock, queue, pruned, granted, arrivals, ticket>>

\* lRem(queue, _, s): a session key is in the list at most once.
LRem(s) ==
  /\ queue' = Without(queue, s)
  /\ UNCHANGED <<lock, heartbeat, granted, arrivals, ticket>>

SetNX(s) ==
  /\ lock' = IF lock = None THEN s ELSE lock
  /\ granted' = IF lock = None THEN granted \cup {s} ELSE granted
  /\ UNCHANGED <<queue, heartbeat, pruned, arrivals, ticket>>

\* Mutant: DEL without the comparison.
DeleteUnchecked(s) ==
  /\ lock' = None
  /\ UNCHANGED <<queue, heartbeat, pruned, granted, arrivals, ticket>>

\* The Lua script of releaseLock: delete the key if it still holds s.
CheckAndDelete(s) ==
  /\ lock' = IF lock = s THEN None ELSE lock
  /\ UNCHANGED <<queue, heartbeat, pruned, granted, arrivals, ticket>>

NoEffect == UNCHANGED <<redis, pruned, granted, arrivals, ticket>>
----------------------------------------------------------------------------
(* acquireLock                                                             *)

Join(s) ==
  /\ pc[s] = "lPush"
  /\ LPush(s)
  /\ Goto(s, "heartbeat")
  /\ UNCHANGED <<first, expired, errors>>

RefreshHeartbeat(s) ==
  /\ pc[s] = "heartbeat"
  /\ Beat(s)
  /\ Goto(s, "lIndex")
  /\ UNCHANGED <<first, expired, errors>>

\* Mutants: the position in the queue is not looked at; the queue is read at
\* the end where lPush puts the newest entry.
ReadFirstUnordered(s) ==
  /\ pc[s] = "lIndex"
  /\ Goto(s, "setNX")
  /\ NoEffect
  /\ UNCHANGED <<first, expired, errors>>

ReadNewest(s) ==
  /\ pc[s] = "lIndex"
  /\ queue # <<>>
  /\ first' = [first EXCEPT ![s] = queue[Len(queue)]]
  /\ Goto(s, IF queue[Len(queue)] = s THEN "setNX" ELSE "exists")
  /\ NoEffect
  /\ UNCHANGED <<expired, errors>>

\* The three branches on firstInQueue.  The sleep of pollIntervalMs has no
\* effect, so the branch that sleeps is already back at the top of the loop.
ReadFirst(s) ==
  /\ pc[s] = "lIndex"
  /\ LET head == IF queue = <<>> THEN None ELSE Head(queue)
     IN  /\ first' = [first EXCEPT ![s] = head]
         /\ Goto(s, CASE head = s -> "setNX"
                      [] head = None -> "heartbeat"
                      [] OTHER -> "exists")
  /\ NoEffect
  /\ UNCHANGED <<expired, errors>>

\* Mutant: the answer of SET NX is not looked at.
TryAcquireUnchecked(s) ==
  /\ pc[s] = "setNX"
  /\ SetNX(s)
  /\ Goto(s, "lLen")
  /\ UNCHANGED <<first, expired, errors>>

TryAcquire(s) ==
  /\ pc[s] = "setNX"
  /\ SetNX(s)
  /\ Goto(s, IF lock = None THEN "lLen" ELSE "heartbeat")
  /\ UNCHANGED <<first, expired, errors>>

ReadLength(s) ==
  /\ pc[s] = "lLen"
  /\ Goto(s, "leaveHolding")
  /\ NoEffect
  /\ UNCHANGED <<first, expired, errors>>

\* Mutant: no janitor.
CheckZombieNever(s) ==
  /\ pc[s] = "exists"
  /\ Goto(s, "heartbeat")
  /\ NoEffect
  /\ UNCHANGED <<first, expired, errors>>

CheckZombie(s) ==
  /\ pc[s] = "exists"
  /\ Goto(s, IF first[s] \in heartbeat THEN "heartbeat" ELSE "lRem")
  /\ NoEffect
  /\ UNCHANGED <<first, expired, errors>>

PruneZombie(s) ==
  /\ pc[s] = "lRem"
  /\ LRem(first[s])
  /\ pruned' = pruned \cup ({first[s]} \cap Elems(queue))
  /\ Goto(s, "heartbeat")
  /\ UNCHANGED <<first, expired, errors>>

\* removeFromQueue in the finally block, then the return of acquireLock: with
\* the session key, or undefined after an error.
Leave(s) ==
  /\ pc[s] \in {"leaveHolding", "leaveOpen"}
  /\ LRem(s)
  /\ Goto(s, IF pc[s] = "leaveHolding" THEN "release" ELSE "open")
  /\ UNCHANGED <<first, pruned, expired, errors>>

\* The caller (TransactionService) is done and gives the lock back.
Release(s) ==
  /\ pc[s] = "release"
  /\ CheckAndDelete(s)
  /\ Goto(s, "done")
  /\ UNCHANGED <<first, expired, errors>>

\* A command fails: its effect may have been applied all the same.  Inside the
\* try block the call fails open; before joinedQueue is set it does so without
\* leaving the queue; removeFromQueue and releaseLock swallow the error.
CommandFails(s) ==
  /\ pc[s] \in Command
  /\ errors < MaxErrors
  /\ errors' = errors + 1
  /\ Goto(s, CASE pc[s] \in {"lPush", "leaveOpen"} -> "open"
               [] pc[s] = "leaveHolding" -> "release"
               [] pc[s] = "release" -> "done"
               [] OTHER -> "leaveOpen")
  /\ \/ NoEffect
     \/ pc[s] = "lPush" /\ LPush(s)
     \/ pc[s] = "heartbeat" /\ Beat(s)
     \/ pc[s] = "setNX" /\ SetNX(s)
     \/ /\ pc[s] = "lRem"
        /\ LRem(first[s])
        /\ pruned' = pruned \cup ({first[s]} \cap Elems(queue))
     \/ pc[s] \in {"leaveHolding", "leaveOpen"} /\ LRem(s) /\ UNCHANGED pruned
     \/ pc[s] = "release" /\ CheckAndDelete(s)
  /\ UNCHANGED <<first, expired>>
----------------------------------------------------------------------------
(* The environment: TTLs and crashes.                                      *)

\* The PX of the lock key, maxLockHoldMs.
ExpireLock ==
  /\ lock # None
  /\ lock' = None
  /\ expired' = expired \cup {lock}
  /\ UNCHANGED <<queue, heartbeat, pc, first, pruned, granted, arrivals, ticket, errors>>

\* The PX of a heartbeat key, heartbeatTtlMs.  A waiter refreshes its own in
\* every round, so for a live one it runs out only when a round takes too long.
ExpireHeartbeat(s) ==
  /\ s \in heartbeat
  /\ LateBeats \/ pc[s] \notin Loop
  /\ heartbeat' = heartbeat \ {s}
  /\ UNCHANGED <<lock, queue, pc, first, pruned, expired, granted, arrivals, ticket, errors>>

Crash(s) ==
  /\ pc[s] \notin Final \cup {"lPush"}
  /\ Goto(s, "crashed")
  /\ NoEffect
  /\ UNCHANGED <<first, expired, errors>>
----------------------------------------------------------------------------
Acquire(s) ==
  \/ Join(s) \/ RefreshHeartbeat(s) \/ ReadFirst(s) \/ TryAcquire(s)
  \/ ReadLength(s) \/ CheckZombie(s) \/ PruneZombie(s) \/ Leave(s)

Next ==
  \/ \E s \in Sessions :
       \/ Acquire(s) \/ Release(s) \/ CommandFails(s)
       \/ ExpireHeartbeat(s) \/ Crash(s)
  \/ ExpireLock

Spec == Init /\ [][Next]_vars

\* A session that runs goes on running: the event loop schedules it and Redis
\* answers.  Nothing makes a caller finish (there is no fairness on Release):
\* the TTLs have to do without.
Fairness ==
  /\ \A s \in Sessions : WF_vars(Acquire(s) /\ pc[s] # "lPush")
  /\ \A s \in Sessions : WF_vars(ExpireHeartbeat(s))
  /\ WF_vars(ExpireLock)

FairSpec == Spec /\ Fairness
----------------------------------------------------------------------------
(* Properties                                                              *)

TypeOK ==
  /\ queue \in Seq(Sessions)
  /\ lock \in Sessions \cup {None}
  /\ heartbeat \subseteq Sessions
  /\ pc \in [Sessions -> Location]
  /\ first \in [Sessions -> Sessions \cup {None}]
  /\ pruned \subseteq Sessions
  /\ expired \subseteq Sessions
  /\ granted \subseteq Sessions
  /\ arrivals \in Nat
  /\ ticket \in [Sessions -> Nat]
  /\ errors \in 0 .. MaxErrors

\* Two sessions are past acquireLock with a key at the same time only if the
\* lock key of one of them ran out (LOCK_MAX_HOLD_MS): no interleaving of
\* joins, prunings, failed commands, crashes and late releases lets a second
\* one in.
MutualExclusion ==
  \A s, t \in Sessions :
    s # t /\ pc[s] \in Holder /\ pc[t] \in Holder => s \in expired \/ t \in expired

\* acquireLock grants in the order of lPush: when a session's SET NX succeeds,
\* every session that joined before it and still waits has been pruned.
FifoGrants ==
  [][\A s, t \in Sessions :
       /\ lock = None /\ lock' = s
       /\ t \in Joined /\ ticket[t] < ticket[s]
       /\ pc[t] \in Loop
       => t \in pruned]_vars

\* The lock key of a session is removed by that session's own release or by
\* its TTL, never by the late release of a session that had it before, and is
\* never overwritten.
OnlyOwnerReleases ==
  [][lock # None /\ lock' # lock =>
       /\ lock' = None
       /\ lock \in expired' \/ (pc[lock] = "release" /\ pc'[lock] = "done")]_vars

\* acquireLock returns: a waiter that nobody took for dead does not wait for
\* ever, whoever else crashes, hangs while it holds the lock, or loses its
\* connection to Redis.
WaiterReturns ==
  \A s \in Sessions : pc[s] \in Loop ~> (pc[s] \notin Loop \/ s \in pruned)

\* The promise of a LockStrategy: the lock key names the owner of the lease,
\* and a session is dropped once it is in the list no more.
Lease == INSTANCE FifoLease WITH
  owner <- lock,
  dropped <- Joined \ Elems(queue)

ImplementsFifoLease == Lease!LeaseSpec
=============================================================================
