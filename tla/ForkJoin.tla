------------------------------ MODULE ForkJoin ------------------------------
(***************************************************************************)
(* What a fork followed by a join promises its caller.  Branches report    *)
(* their end, once each; the report that makes the join ready also starts  *)
(* the join, and it is started once; the instance completes only after     *)
(* that, and stays completed.  A store that is not serial promises none of *)
(* this.                                                                   *)
(***************************************************************************)
EXTENDS Naturals

VARIABLES
    serial,     \* does the store keep the reports of two branches apart?
    wanted,     \* how many reports make the join ready
    branches,   \* the branches, by the step that reports their end
    ended,      \* the branches that have reported
    started,    \* how often the join has been started
    result      \* status of the instance

vars == <<serial, wanted, branches, ended, started, result>>

Init == ended = {} /\ started = 0 /\ result = "running"

\* A branch reports; the join starts with the report it waits for, at the earliest, and
\* with the last one at the latest.
Report(b) ==
    /\ b \in branches \ ended
    /\ ended' = ended \cup {b}
    /\ \/ ended' # branches /\ started' = started
       \/ started = 1 /\ started' = started
       \/ started = 0 /\ wanted = 1 /\ started' = 1
       \/ started = 0 /\ ended' = branches /\ started' = 1
    /\ result' \in {result, "failed"} \cup (IF started = 1 THEN {"completed"} ELSE {})
    /\ result = "completed" => result' = result

\* A step that nobody waits for fails, a join fails, or what has failed is finished.
Fail ==
    /\ result # "completed"
    /\ result' = "failed"
    /\ UNCHANGED <<ended, started>>

Complete ==
    /\ started = 1 /\ result = "running"
    /\ result' = "completed"
    /\ UNCHANGED <<ended, started>>

Step == (\E b \in branches : Report(b)) \/ Fail \/ Complete

Next ==
    /\ UNCHANGED <<serial, wanted, branches>>
    /\ serial => Step

Spec == Init /\ [][Next]_vars
=============================================================================
