------------------------------ MODULE TaskService ------------------------------
(***************************************************************************)
(* What a thread pool promises to the code that submits tasks to it: a     *)
(* service that accepts tasks one after another, starts them in that order *)
(* and each of them once, lets them finish in any order, and may be closed *)
(* only when everything it accepted has been finished, after which it      *)
(* accepts nothing.                                                        *)
(***************************************************************************)
EXTENDS Naturals, Sequences, Functions

CONSTANT Tasks  \* the submissions of one execution, each a task of its own

VARIABLES
  accepted,  \* the tasks accepted so far, in order
  started,   \* those of them that have been started, in order
  done,      \* those that have been finished
  closed     \* the service is over

service == <<accepted, started, done, closed>>

Init == accepted = <<>> /\ started = <<>> /\ done = {} /\ closed = FALSE

Accept(x) ==
  /\ ~closed
  /\ x \notin Range(accepted)
  /\ accepted' = Append(accepted, x)
  /\ UNCHANGED <<started, done, closed>>

\* The oldest task that is waiting is the next to be started.
Start ==
  /\ Len(started) < Len(accepted)
  /\ started' = Append(started, accepted[Len(started) + 1])
  /\ UNCHANGED <<accepted, done, closed>>

Finish(x) ==
  /\ x \in Range(started) \ done
  /\ done' = done \union {x}
  /\ UNCHANGED <<accepted, started, closed>>

Close ==
  /\ ~closed
  /\ Range(accepted) \subseteq done
  /\ closed' = TRUE
  /\ UNCHANGED <<accepted, started, done>>

Next == Start \/ Close \/ \E x \in Tasks : Accept(x) \/ Finish(x)

Spec == Init /\ [][Next]_service

=============================================================================
