------------------------------ MODULE FifoLease ------------------------------
(***************************************************************************)
(* What a LockStrategy (packages/relay/src/lib/types/lock.ts) promises for  *)
(* one sender address: a lease that is granted to one session at a time, in *)
(* the order in which the sessions asked for it.                            *)
(*                                                                          *)
(*  - A session enters the queue once and is granted the lease at most      *)
(*    once.                                                                 *)
(*  - The lease never passes from one session straight to another: it is    *)
(*    given back, or it runs out, first.                                    *)
(*  - Only the session at the head of the queue is granted the lease, or    *)
(*    one that was dropped from the queue (a waiter that looked dead, or    *)
(*    whose connection to the lock store failed) while its grant was        *)
(*    already under way.                                                    *)
(***************************************************************************)
EXTENDS UniqueList

CONSTANTS Sessions,   \* one per call of acquireLock
          None        \* no session

VARIABLES queue,      \* the sessions that asked for the lease, oldest first
          owner,      \* the session that has the lease, or None
          dropped,    \* the sessions that are no longer in the queue
          granted     \* the sessions that were ever given the lease

leaseVars == <<queue, owner, dropped, granted>>

LeaseInit ==
  /\ queue = <<>>
  /\ owner = None
  /\ dropped = {}
  /\ granted = {}

Enter(s) ==
  /\ s \notin Elems(queue) \cup dropped
  /\ queue' = Append(queue, s)
  /\ UNCHANGED <<owner, dropped, granted>>

Drop(s) ==
  /\ s \in Elems(queue)
  /\ queue' = Without(queue, s)
  /\ dropped' = dropped \cup {s}
  /\ UNCHANGED <<owner, granted>>

\* The entry of the granted session may leave the queue in the same step.
Grant(s) ==
  /\ owner = None
  /\ s \notin granted
  /\ s \in dropped \/ (queue # <<>> /\ s = Head(queue))
  /\ owner' = s
  /\ granted' = granted \cup {s}
  /\ \/ UNCHANGED <<queue, dropped>>
     \/ queue' = Without(queue, s) /\ dropped' = dropped \cup {s}

\* A release by the owner, or the end of its lease.
End ==
  /\ owner # None
  /\ owner' = None
  /\ UNCHANGED <<queue, dropped, granted>>

LeaseNext ==
  \/ \E s \in Sessions : Enter(s) \/ Drop(s) \/ Grant(s)
  \/ End

LeaseSpec == LeaseInit /\ [][LeaseNext]_leaseVars
=============================================================================
