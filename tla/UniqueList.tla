----------------------------- MODULE UniqueList -----------------------------
(***************************************************************************)
(* Lists in which a value occurs at most once: the queue of session keys of *)
(* RedisLockStrategy (a Redis LIST) and the waiters of an async-mutex.      *)
(***************************************************************************)
EXTENDS Naturals, Sequences

Elems(q) == {q[i] : i \in DOMAIN q}

NoRepeats(q) == \A i, j \in DOMAIN q : q[i] = q[j] => i = j

\* q without its entry x; q itself when x is not in it.
Without(q, x) ==
  IF x \in Elems(q)
  THEN LET at == CHOOSE i \in DOMAIN q : q[i] = x
       IN  [i \in 1 .. Len(q) - 1 |-> IF i < at THEN q[i] ELSE q[i + 1]]
  ELSE q
=============================================================================
