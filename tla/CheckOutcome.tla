---------------------------- MODULE CheckOutcome ----------------------------
(***************************************************************************)
(* What run_check_process may report of a command, given what happened to  *)
(* it: its exit status so far, whether a stream went over its limit, and   *)
(* whether the deadline passed (ProcessOutput, check_process.py).   *)
(***************************************************************************)

ExitCode == {"zero", "nonzero"}
NoCode   == "no code"

Report(failure, code, timed) == [failure |-> failure, code |-> code, timed |-> timed]

\* Nothing was started.
Refusals == {Report(f, NoCode, FALSE) : f \in {"invalid_limits", "execution_failed"}}

Outcomes(exit, over, late) ==
    {Report("none", c, FALSE) : c \in ExitCode \cap {exit}}
    \cup {Report(f, NoCode, FALSE) : f \in {"execution_failed", "cleanup_failed"}}
    \cup {Report("output_limit", NoCode, FALSE) : o \in {TRUE} \cap {over}}
    \cup {Report(f, NoCode, TRUE) : f \in {g \in {"timeout", "cleanup_failed"} : late}}
=============================================================================
