------------------------------ MODULE CheckPool ------------------------------
(***************************************************************************)
(* run_checks (checks.py): the checks of a contract are run by a thread    *)
(* pool, or one after the other, and their results returned in the order   *)
(* of the contract.  A run of a command is what CheckRunner promises.      *)
(*                                                                         *)
(* A check is [id, required, tool]; tool says what the command of a        *)
(* clean-room check comes to: "control" (compound shell syntax), "wrapper" *)
(* (a shell), "missing", "inside" the worktree once resolved, or "outside".*)
(***************************************************************************)
EXTENDS Integers, Sequences, FiniteSets, CheckOutcome

VARIABLES
    checks,    \* the checks that run_checks was given
    mode,      \* [parallel, workers, untrusted]: its options
    pool,      \* "idle", "open", "closing" when an exception
               \* leaves it, then "shut" or "raised"
    stage,     \* per check, where its _run_one stands
    report,    \* per check, what run_check_process returned
    hooks,     \* checks whose temporary hooks directory exists
    running,   \* checks whose shell may still run
    result,    \* per check its CheckResult, or Raised
    collected  \* the results taken from the futures so far

poolVars == <<checks, mode, pool, stage, report, hooks, running, result, collected>>

NoExit  == "none"  \* the exit code None of a timeout
Nothing == [id |-> "nothing", exit |-> NoExit, timed |-> FALSE]
Raised  == [id |-> "raised", exit |-> NoExit, timed |-> FALSE]
NoReport == Report("pending", NoCode, FALSE)

IsListing(specs) == Len(specs) \in Nat /\ DOMAIN specs = 1..Len(specs)

Smallest(m, n) == IF m < n THEN m ELSE n
Largest(m, n)  == IF m > n THEN m ELSE n

Each == DOMAIN checks
Busy == {i \in Each : stage[i] \notin {"queued", "done"}}

\* One worker, in the calling thread, unless there is something to overlap.
Sequential == ~mode.parallel \/ Len(checks) = 1
Workers    == IF Sequential THEN 1 ELSE Largest(1, Smallest(mode.workers, Len(checks)))

PoolInit ==
    /\ pool = "idle" /\ running = {} /\ hooks = {} /\ collected = <<>>
    /\ checks = <<>> /\ mode = [parallel |-> FALSE, workers |-> 1, untrusted |-> FALSE]
    /\ stage = <<>> /\ report = <<>> /\ result = <<>>

\* The call: all checks are submitted at once.
Submit(specs, options) ==
    /\ pool = "idle"
    /\ checks' = specs /\ mode' = options
    /\ pool' = IF specs = <<>> THEN "shut" ELSE "open"
    /\ stage' = [i \in DOMAIN specs |-> "queued"]
    /\ report' = [i \in DOMAIN specs |-> NoReport]
    /\ result' = [i \in DOMAIN specs |-> Nothing]
    /\ UNCHANGED <<hooks, running, collected>>

-----------------------------------------------------------------------------
(***************************************************************************)
(* _run_one in a worker.                                                   *)
(***************************************************************************)

MayTake == Cardinality(Busy) < Workers

\* The queue is first in, first out; in sequence, an exception stops the rest.
Take(i) ==
    /\ pool \in (IF Sequential THEN {"open"} ELSE {"open", "closing"})
    /\ stage[i] = "queued" /\ MayTake
    /\ \A j \in 1..i - 1 : stage[j] # "queued"
    /\ Sequential => Len(collected) = i - 1
    /\ stage' = [stage EXCEPT ![i] = "resolve"]
    /\ UNCHANGED <<checks, mode, pool, report, hooks, running, result, collected>>

ResultOf(i, code, timed) == [id |-> checks[i].id, exit |-> code, timed |-> timed]

\* _resolve_trusted_command raises ValueError.
Blocked(i) == mode.untrusted /\ checks[i].tool # "outside"

Resolve(i) ==
    /\ stage[i] = "resolve"
    /\ IF Blocked(i)
       THEN /\ stage' = [stage EXCEPT ![i] = "done"]
            /\ result' = [result EXCEPT ![i] = ResultOf(i, "126", FALSE)]
       ELSE /\ stage' = [stage EXCEPT ![i] = IF mode.untrusted THEN "hooks" ELSE "call"]
            /\ UNCHANGED result
    /\ UNCHANGED <<checks, mode, pool, report, hooks, running, collected>>

MakeHooks(i) ==
    /\ stage[i] = "hooks"
    /\ hooks' = hooks \cup {i}
    /\ stage' = [stage EXCEPT ![i] = "call"]
    /\ UNCHANGED <<checks, mode, pool, report, running, result, collected>>

\* There is no directory for the hooks: OSError.
MakeHooksFails(i) ==
    /\ stage[i] = "hooks"
    /\ result' = [result EXCEPT ![i] = Raised]
    /\ stage' = [stage EXCEPT ![i] = "done"]
    /\ UNCHANGED <<checks, mode, pool, report, hooks, running, collected>>

\* run_check_process refuses, or starts the command ...
CallRefuses(i) ==
    /\ stage[i] = "call"
    /\ \E r \in Refusals : report' = [report EXCEPT ![i] = r]
    /\ stage' = [stage EXCEPT ![i] = "returned"]
    /\ UNCHANGED <<checks, mode, pool, hooks, running, result, collected>>

Start(i) ==
    /\ stage[i] = "call"
    /\ running' = running \cup {i}
    /\ stage' = [stage EXCEPT ![i] = "run"]
    /\ UNCHANGED <<checks, mode, pool, report, hooks, result, collected>>

\* ... and reports; only if its cleanup failed may the command live on.
Return(i) ==
    /\ stage[i] = "run"
    /\ \E exit \in ExitCode \cup {NoCode}, over, late \in BOOLEAN :
          \E r \in Outcomes(exit, over, late) :
             /\ report' = [report EXCEPT ![i] = r]
             /\ running' = IF r.failure = "cleanup_failed" THEN running ELSE running \ {i}
    /\ stage' = [stage EXCEPT ![i] = "returned"]
    /\ UNCHANGED <<checks, mode, pool, hooks, result, collected>>

\* The exit code a report comes to: the one of the command, which may well be
\* 125 or 126, or else that of a failure of the runner; timeouts have none.
CodesOf(r) ==
    IF r.failure # "none" THEN {IF r.timed THEN NoExit ELSE "125"}
    ELSE IF r.code = "zero" THEN {"0"} ELSE {"125", "126", "other"}

\* The ExitStack removes the hooks directory.
Cleanup(i) == hooks \ {i}

Finish(i) ==
    /\ stage[i] = "returned"
    /\ hooks' = Cleanup(i)
    /\ \E code \in CodesOf(report[i]) :
          result' = [result EXCEPT ![i] = ResultOf(i, code, report[i].timed)]
    /\ stage' = [stage EXCEPT ![i] = "done"]
    /\ UNCHANGED <<checks, mode, pool, report, running, collected>>

\* The directory cannot be removed: OSError instead of a result.
FinishFails(i) ==
    /\ stage[i] = "returned" /\ i \in hooks
    /\ result' = [result EXCEPT ![i] = Raised]
    /\ stage' = [stage EXCEPT ![i] = "done"]
    /\ UNCHANGED <<checks, mode, pool, report, hooks, running, collected>>

-----------------------------------------------------------------------------
(***************************************************************************)
(* The calling thread: futures[spec.id].result() in contract order.        *)
(***************************************************************************)
\* Mutant: results are taken as they complete.
TakesNext_Completed(i) ==
    \A k \in DOMAIN collected : collected[k].id # checks[i].id

TakesNext(i) == i = Len(collected) + 1

Collect(i) ==
    /\ pool = "open" /\ TakesNext(i) /\ stage[i] = "done"
    /\ result[i] # Raised
    /\ collected' = Append(collected, result[i])
    /\ pool' = IF Len(collected') = Len(checks) THEN "shut" ELSE "open"
    /\ UNCHANGED <<checks, mode, stage, report, hooks, running, result>>

CollectRaises(i) ==
    /\ pool = "open" /\ TakesNext(i) /\ stage[i] = "done"
    /\ result[i] = Raised
    /\ pool' = "closing"
    /\ UNCHANGED <<checks, mode, stage, report, hooks, running, result, collected>>

\* Mutant: shutdown does not wait.
Drained_No == TRUE

\* Leaving the pool waits for all that was submitted.
Drained == Sequential \/ \A i \in Each : stage[i] = "done"

Leave ==
    /\ pool = "closing" /\ Drained
    /\ pool' = "raised"
    /\ UNCHANGED <<checks, mode, stage, report, hooks, running, result, collected>>

Worker(i) == \/ Take(i) \/ Resolve(i) \/ MakeHooks(i) \/ MakeHooksFails(i)
             \/ CallRefuses(i) \/ Start(i) \/ Return(i) \/ Finish(i) \/ FinishFails(i)

Caller == (\E i \in Each : Collect(i) \/ CollectRaises(i)) \/ Leave

PoolNext == (\E i \in Each : Worker(i)) \/ Caller

-----------------------------------------------------------------------------
(***************************************************************************)
(* The n-th result is that of the n-th check, whichever finished first; a  *)
(* clean-room check was not run, and has exit code 126, exactly if its     *)
(* tool lies in the worktree; only a command that itself exited zero       *)
(* within its bounds has exit code 0, and only a timeout has none          *)
(* (checks.py:53-57, 90-98).                                               *)
(***************************************************************************)
ResultsAreTheirs ==
    LET Passing(i) == report[i] = Report("none", "zero", FALSE)
        Refused(i) == mode.untrusted /\ checks[i].tool # "outside"
    IN
    pool = "shut" =>
        /\ Len(collected) = Len(checks)
        /\ \A i \in Each :
              /\ collected[i].id = checks[i].id
              /\ Passing(i) <=> collected[i].exit = "0"
              /\ Refused(i) <=> report[i] = NoReport
              /\ Refused(i) => collected[i].exit = "126"
              /\ collected[i].timed <=> collected[i].exit = NoExit

(***************************************************************************)
(* Never more commands at once than workers, and none is running any more, *)
(* nor a hooks directory left, once run_checks has returned or raised: the *)
(* clean room is removed right after.  Excepted are a cleanup that failed  *)
(* and a directory that could not be removed, which are reported.          *)
(***************************************************************************)
NothingRunsOn ==
    /\ Cardinality({i \in Each : stage[i] = "run"}) 
          <= IF mode.parallel THEN Largest(1, mode.workers) ELSE 1
    /\ pool \in {"shut", "raised"} =>
          /\ \A i \in running : report[i].failure = "cleanup_failed"
          /\ \A i \in hooks : result[i] = Raised
=============================================================================
