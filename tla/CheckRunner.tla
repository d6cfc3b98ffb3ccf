----------------------------- MODULE CheckRunner -----------------------------
(***************************************************************************)
(* The promise of run_check_process to whoever runs checks: one command is *)
(* run at most once and one report is made of it, which says no more than  *)
(* what happened before it was made.  CheckProcess implements this; the    *)
(* pool of checks (CheckPool) is built on the same reports.                *)
(***************************************************************************)
EXTENDS CheckOutcome

VARIABLES
    phase,    \* "asked", "running" or "returned"
    exit,     \* exit status of the command, NoCode while it runs
    over,     \* a stream received more than its limit
    late,     \* the deadline has passed
    outcome   \* the report, Pending until it is made

vars == <<phase, exit, over, late, outcome>>

Pending == Report("pending", NoCode, FALSE)

Init ==
    /\ phase = "asked" /\ exit = NoCode /\ over = FALSE /\ late = FALSE
    /\ outcome = Pending

Refuse ==
    /\ phase = "asked"
    /\ phase' = "returned" /\ outcome' \in Refusals
    /\ UNCHANGED <<exit, over, late>>

Start ==
    /\ phase = "asked"
    /\ phase' = "running"
    /\ UNCHANGED <<exit, over, late, outcome>>

Expire ==
    /\ phase # "returned" /\ late' = TRUE
    /\ UNCHANGED <<phase, exit, over, outcome>>

GoOver ==
    /\ phase = "running" /\ over' = TRUE
    /\ UNCHANGED <<phase, exit, late, outcome>>

\* The command may outlive the call, if its cleanup failed.
Exit ==
    /\ phase # "asked" /\ exit = NoCode
    /\ exit' \in ExitCode
    /\ UNCHANGED <<phase, over, late, outcome>>

Return ==
    /\ phase = "running"
    /\ phase' = "returned" /\ outcome' \in Outcomes(exit, over, late)
    /\ UNCHANGED <<exit, over, late>>

Next == Refuse \/ Start \/ Expire \/ GoOver \/ Exit \/ Return

Spec == Init /\ [][Next]_vars
=============================================================================
