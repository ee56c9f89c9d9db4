----------------------------- MODULE MCDeadlockCheck -----------------------------
(* Model-checking instances of DeadlockCheck: what the monitored program     *)
(* locks.  Mutexes are unlocked at any time.                                 *)
EXTENDS DeadlockCheck

CONSTANTS t1, t2, t3, l1, l2, l3

\* Four calls by anybody, which is enough for two threads to deadlock.  That
\* t1 and l1 come first only gives them their names.
AnyCall == Threads \X {l1, l2}
Free == <<{<<t1, l1>>}, AnyCall, AnyCall, AnyCall>>

\* t1 and t2 lock l1 and l2 in opposite orders.
Crossed == <<{<<t1, l1>>}, {<<t2, l2>>}, {<<t1, l2>>}, {<<t2, l1>>}>>

\* Meanwhile t3 may have got l3 from t1 and not yet come to lock_after, which
\* removes its edge: perhaps under the search that looks for the deadlock.
EdgeRemoved == <<{<<t1, l3>>}, {<<t3, l3>>}>> \o Crossed

\* Or t3 wants l1 as well, and lock_before adds a vertex and an edge.
EdgeAdded == Append(Crossed, {<<t3, l1>>})

MCPlans == {Free, EdgeRemoved, EdgeAdded}
FreePlans == {Free}

=============================================================================
