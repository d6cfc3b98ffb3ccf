---------------------------- MODULE CheckProcess ----------------------------
(***************************************************************************)
(* One run of run_check_process (check_process.py): a shell is started     *)
(* with a pipe for stdout and one for stderr, both pipes are drained under *)
(* a deadline and a retention limit, and a boundary failure is followed by *)
(* a bounded cleanup of the process group.                                 *)
(*                                                                         *)
(* The processes of the check run concurrently with the parent: they       *)
(* write, close their ends, fork, leave the process group and exit in any  *)
(* order.  Bytes are counted, not named: a pipe is FIFO and has a single   *)
(* reader, so what was captured is the prefix of the given length.         *)
(***************************************************************************)
EXTENDS Integers

CONSTANTS
    Proc,            \* the processes the check may consist of
    Shell,           \* the direct child, started with shell=True
    Platform,        \* the platforms considered, of "posix" and "win32"
    MaxStreamBytes,  \* MAX_STREAM_BYTES
    ReadBytes,       \* _READ_BYTES
    PipeCap,         \* capacity of an operating-system pipe
    Requested,       \* stream limits a caller may ask for
    MaxWritten       \* bound of the model: bytes a stream receives at most

ASSUME ShellAssumption == Shell \in Proc /\ Platform \subseteq {"posix", "win32"}
ASSUME SizeAssumption ==
    /\ MaxStreamBytes \in Nat \ {0}
    /\ ReadBytes \in Nat \ {0}
    /\ PipeCap \in Nat \ {0}
    /\ MaxWritten \in Nat
    /\ Requested \subseteq Int

VARIABLES
    pc,        \* where run_check_process stands
    request,   \* its stream limit, whether its timeout is legal, the platform
    next,      \* the pipe _capture reads next in this pass over the active ones
    active,    \* _capture's `active`: pipes whose end of file was not seen
    buf,       \* bytes retained of each pipe (`buffers`)
    code,      \* process.returncode, NoCode until the shell is reaped
    failure,   \* the local `failure`; "none" once the capture is complete
    timedOut,  \* the local `timed_out`
    directOk,  \* _stop's `direct_ok`
    groupOk,   \* _stop's `group_ok`
    expired,   \* time.monotonic() >= deadline
    ownEnds,   \* write ends still open in the parent
    proc,      \* life cycle of each process
    grouped,   \* processes in the shell's process group
    holds,     \* write ends each process has open
    status,    \* exit status of the shell, NoCode while it lives
    pipe,      \* bytes waiting in each pipe
    written    \* bytes ever written to each pipe

reading == <<next, active, buf>>
verdict == <<failure, timedOut>>
flags   == <<directOk, groupOk>>
bytes   == <<pipe, written>>
parentVars == <<pc, request, reading, code, verdict, flags>>
procVars   == <<proc, grouped, holds, status>>
vars == <<parentVars, expired, ownEnds, procVars, bytes>>

Stream   == {0, 1}           \* stdout, stderr
ExitCode == {"zero", "nonzero"}
NoCode   == "no code"

Limit == request.limit
Posix == request.platform = "posix"
Least(m, n) == IF m <= n THEN m ELSE n

(***************************************************************************)
(* The write end of pipe s is open somewhere: a read of the empty pipe     *)
(* then finds no data instead of the end of file.                          *)
(***************************************************************************)
Held(s) == s \in ownEnds \/ \E p \in Proc : s \in holds[p]

Members == {p \in grouped : proc[p] \notin {"unborn", "reaped"}}
Capturing == pc \in {"loop", "read", "poll"}

-----------------------------------------------------------------------------
Init ==
    /\ pc = "validate"
    /\ request \in [limit : Requested, timeoutOk : BOOLEAN, platform : Platform]
    /\ next = 0
    /\ active = Stream
    /\ buf = [s \in Stream |-> 0]
    /\ code = NoCode
    /\ failure = "execution_failed"
    /\ timedOut = FALSE
    /\ directOk = TRUE
    /\ groupOk = TRUE
    /\ expired = FALSE
    /\ ownEnds = {}
    /\ proc = [p \in Proc |-> "unborn"]
    /\ grouped = {}
    /\ holds = [p \in Proc |-> {}]
    /\ status = NoCode
    /\ pipe = [s \in Stream |-> 0]
    /\ written = [s \in Stream |-> 0]

(***************************************************************************)
(* The parent: argument checks, pipes, start of the shell.  Finish leaves  *)
(* the two ExitStacks, which close every descriptor that is still open.    *)
(***************************************************************************)
Finish(f) ==
    /\ pc' = "done"
    /\ failure' = f
    /\ ownEnds' = {}

ValidLimits == request.timeoutOk /\ 1 <= Limit /\ Limit <= MaxStreamBytes

Validate ==
    /\ pc = "validate"
    /\ IF ValidLimits
         THEN pc' = "pipes" /\ UNCHANGED <<failure, ownEnds>>
         ELSE Finish("invalid_limits")
    /\ UNCHANGED <<request, reading, code, timedOut, flags, expired, procVars,
                   bytes>>

OpenPipe ==
    /\ pc = "pipes"
    /\ \E s \in Stream \ ownEnds : ownEnds' = ownEnds \cup {s}
    /\ pc' = IF ownEnds' = Stream THEN "spawn" ELSE "pipes"
    /\ UNCHANGED <<request, reading, code, verdict, flags, expired, procVars,
                   bytes>>

\* os.pipe, os.set_blocking or Popen raises OSError; there is no process yet.
StartFails ==
    /\ pc \in {"pipes", "spawn"}
    /\ Finish("execution_failed")
    /\ UNCHANGED <<request, reading, code, timedOut, flags, expired, procVars,
                   bytes>>

Spawn ==
    /\ pc = "spawn"
    /\ pc' = "close"
    /\ proc' = [proc EXCEPT ![Shell] = "live"]
    /\ grouped' = {Shell}
    /\ holds' = [holds EXCEPT ![Shell] = Stream]
    /\ UNCHANGED <<request, reading, code, verdict, flags, expired, ownEnds,
                   status, bytes>>

\* Mutant: the parent keeps its own write ends.
CloseWriters_Kept ==
    /\ pc = "close"
    /\ pc' = "loop"
    /\ UNCHANGED <<request, reading, code, verdict, flags, expired, ownEnds,
                   procVars, bytes>>

CloseWriters ==
    /\ pc = "close"
    /\ pc' = "loop"
    /\ ownEnds' = {}
    /\ UNCHANGED <<request, reading, code, verdict, flags, expired, procVars,
                   bytes>>

(***************************************************************************)
(* _capture: a pass checks the deadline, reads each active pipe once in    *)
(* index order and polls the shell.                                        *)
(***************************************************************************)
\* Mutant: the deadline bounds the shell but not the pipes it leaves behind.
PastDeadline_ShellOnly == expired /\ code = NoCode

PastDeadline == expired

CheckDeadline ==
    /\ pc = "loop"
    /\ IF PastDeadline
         THEN /\ pc' = "stop_group"
              /\ failure' = "timeout"
              /\ timedOut' = TRUE
              /\ next' = next
         ELSE /\ pc' = "read"
              /\ next' = 0
              /\ UNCHANGED verdict
    /\ UNCHANGED <<request, active, buf, code, flags, expired, ownEnds,
                   procVars, bytes>>

\* Mutant: without the probe byte, a full buffer reads as the end of file.
ReadCount_NoProbe(s) == Least(ReadBytes, Limit - buf[s])

\* How many bytes _capture asks of pipe s.
ReadCount(s) == Least(ReadBytes, Limit - buf[s] + 1)

\* Mutant: output of exactly the limit is refused.
Overflows_AtLimit(s, chunk) == chunk >= Limit - buf[s] /\ chunk > 0

\* Mutant: the limit is applied to each chunk instead of the whole stream.
Overflows_PerChunk(s, chunk) == chunk > Limit

\* `len(chunk) > remaining`
Overflows(s, chunk) == chunk > Limit - buf[s]

\* _read_available finds no data yet in pipe s: None.
NoData(s) == pipe[s] = 0 /\ Held(s)

\* The turn of pipe s: skipped, no data, the end of file (b""), or a chunk.
Read(s) ==
    LET chunk == Least(ReadCount(s), pipe[s])
    IN  /\ pc = "read"
        /\ next = s
        /\ \/ /\ s \notin active \/ NoData(s)
              /\ UNCHANGED <<active, buf, failure, pipe>>
           \/ /\ s \in active /\ ~NoData(s) /\ chunk = 0
              /\ active' = active \ {s}
              /\ UNCHANGED <<buf, failure, pipe>>
           \/ /\ s \in active /\ chunk > 0
              /\ pipe' = [pipe EXCEPT ![s] = @ - chunk]
              /\ IF Overflows(s, chunk)
                   THEN failure' = "output_limit" /\ UNCHANGED buf
                   ELSE buf' = [buf EXCEPT ![s] = @ + chunk] /\ UNCHANGED failure
              /\ UNCHANGED active
        /\ pc' = IF failure' = "output_limit" THEN "stop_group"
                 ELSE IF s = 0 THEN "read" ELSE "poll"
        /\ next' = s + 1
        /\ UNCHANGED <<request, code, timedOut, flags, expired, ownEnds,
                       procVars, written>>

\* A pipe read raises OSError.
ReadFails ==
    /\ pc = "read"
    /\ next \in active
    /\ pc' = "stop_group"
    /\ failure' = "execution_failed"
    /\ UNCHANGED <<request, reading, code, timedOut, flags, expired, ownEnds,
                   procVars, bytes>>

\* process.poll() reaps an exited shell and learns its status.
Reap ==
    IF proc[Shell] = "zombie"
      THEN proc' = [proc EXCEPT ![Shell] = "reaped"] /\ code' = status
      ELSE UNCHANGED <<proc, code>>

\* `code is not None and not active`
Complete == code' # NoCode /\ active = {}

Poll ==
    /\ pc = "poll"
    /\ Reap
    /\ IF Complete
         THEN Finish("none")
         ELSE pc' = "loop" /\ UNCHANGED <<failure, ownEnds>>
    /\ UNCHANGED <<request, reading, timedOut, flags, expired, grouped, holds,
                   status, bytes>>

(***************************************************************************)
(* _stop.  SIGKILL reaches a whole group or is refused; a process that got *)
(* it runs no further step but may take its time to disappear.             *)
(***************************************************************************)
Killed(ps) ==
    [p \in Proc |-> IF p \in ps /\ proc[p] = "live" THEN "dying" ELSE proc[p]]

\* Mutant: only the shell is signalled.
Targets_ShellOnly == {Shell}

\* The processes the group signal reaches.
Targets == grouped

\* _kill_group.  A group without members (ProcessLookupError) is no failure;
\* any other OSError is, and a zombie member is enough for one.
KillGroup ==
    \/ proc' = Killed(Targets) /\ groupOk' = TRUE
    \/ Members # {} /\ groupOk' = FALSE /\ UNCHANGED proc

\* The group signal of POSIX, after the poll that reaps an exited shell.
StopReap ==
    /\ pc = "stop_group"
    /\ Posix
    /\ Reap
    /\ pc' = "stop_kill"
    /\ UNCHANGED <<request, reading, verdict, flags, expired, ownEnds, grouped,
                   holds, status, bytes>>

StopGroup ==
    /\ pc = "stop_kill"
    /\ KillGroup
    /\ pc' = "stop_direct"
    /\ UNCHANGED <<request, reading, code, verdict, directOk, expired, ownEnds,
                   grouped, holds, status, bytes>>

\* taskkill /T on Windows, only while the shell lives, and best effort.
StopTree ==
    /\ pc = "stop_group"
    /\ ~Posix
    /\ Reap
    /\ pc' = IF code' = NoCode THEN "stop_tree" ELSE "stop_direct"
    /\ UNCHANGED <<request, reading, verdict, flags, expired, ownEnds, grouped,
                   holds, status, bytes>>

Taskkill ==
    /\ pc = "stop_tree"
    /\ pc' = "stop_direct"
    /\ \E ps \in SUBSET Proc : proc' = Killed(ps)
    /\ UNCHANGED <<request, reading, code, verdict, flags, expired, ownEnds,
                   grouped, holds, status, bytes>>

\* poll and, unless the shell was reaped, kill, which may be refused.
StopDirect ==
    /\ pc = "stop_direct"
    /\ pc' = "stop_wait"
    /\ IF proc[Shell] = "live"
         THEN /\ code' = code
              /\ \/ proc' = Killed({Shell}) /\ directOk' = TRUE
                 \/ proc' = proc /\ directOk' = FALSE
         ELSE Reap /\ UNCHANGED directOk
    /\ UNCHANGED <<request, reading, verdict, groupOk, expired, ownEnds,
                   grouped, holds, status, bytes>>

\* What _stop returned decides whether the boundary failure keeps its name.
Stopped(ok) == Finish(IF ok THEN failure ELSE "cleanup_failed")

\* process.wait(timeout=_CLEANUP_SECONDS) reaps the shell ...
StopWait ==
    /\ pc = "stop_wait"
    /\ proc[Shell] \in {"zombie", "reaped"}
    /\ Reap
    /\ IF Posix /\ ~groupOk
         THEN pc' = "stop_retry" /\ UNCHANGED <<failure, ownEnds>>
         ELSE Stopped(directOk /\ groupOk)
    /\ UNCHANGED <<request, reading, timedOut, flags, expired, grouped, holds,
                   status, bytes>>

\* ... or its own timeout passes, or it raises OSError.
StopWaitFails ==
    /\ pc = "stop_wait"
    /\ proc[Shell] \in {"live", "dying"}
    /\ Stopped(FALSE)
    /\ UNCHANGED <<request, reading, code, timedOut, flags, expired, procVars,
                   bytes>>

\* The single retry of a group signal that was refused.
StopRetry ==
    /\ pc = "stop_retry"
    /\ KillGroup
    /\ Stopped(directOk /\ groupOk')
    /\ UNCHANGED <<request, reading, code, timedOut, directOk, expired,
                   grouped, holds, status, bytes>>

-----------------------------------------------------------------------------
(***************************************************************************)
(* The environment: the clock and the processes of the check.              *)
(***************************************************************************)
DeadlinePasses ==
    /\ pc \in {"spawn", "close"} \/ Capturing
    /\ ~expired
    /\ expired' = TRUE
    /\ UNCHANGED <<parentVars, ownEnds, procVars, bytes>>

\* A write to a pipe the parent still reads; MaxWritten bounds the model.
Write(p, s) ==
    /\ proc[p] = "live" /\ s \in holds[p]
    /\ pc # "done"
    /\ pipe[s] < PipeCap
    /\ written[s] < MaxWritten
    /\ pipe' = [pipe EXCEPT ![s] = @ + 1]
    /\ written' = [written EXCEPT ![s] = @ + 1]
    /\ UNCHANGED <<parentVars, expired, ownEnds, procVars>>

CloseEnd(p, s) ==
    /\ proc[p] = "live" /\ s \in holds[p]
    /\ holds' = [holds EXCEPT ![p] = @ \ {s}]
    /\ UNCHANGED <<parentVars, expired, ownEnds, proc, grouped, status, bytes>>

\* A child inherits the open write ends and the process group.
Fork(p, q) ==
    /\ proc[p] = "live" /\ proc[q] = "unborn"
    /\ q # Shell
    /\ proc' = [proc EXCEPT ![q] = "live"]
    /\ holds' = [holds EXCEPT ![q] = holds[p]]
    /\ grouped' = IF p \in grouped THEN grouped \cup {q} ELSE grouped
    /\ UNCHANGED <<parentVars, expired, ownEnds, status, bytes>>

\* setsid; the shell leads its session already.
Detach(p) ==
    /\ proc[p] = "live" /\ p \in grouped
    /\ p # Shell
    /\ grouped' = grouped \ {p}
    /\ UNCHANGED <<parentVars, expired, ownEnds, proc, holds, status, bytes>>

\* A process exits, or one that was killed is gone: its descriptors close.
Exit(p) ==
    /\ proc[p] \in {"live", "dying"}
    /\ holds' = [holds EXCEPT ![p] = {}]
    /\ proc' = [proc EXCEPT ![p] = IF p = Shell THEN "zombie" ELSE "dead"]
    /\ IF p # Shell
         THEN UNCHANGED status
         ELSE status' \in (IF proc[p] = "live" THEN ExitCode ELSE {"nonzero"})
    /\ UNCHANGED <<parentVars, expired, ownEnds, grouped, bytes>>

\* The call has returned; nothing else of it can happen.
Returned == pc = "done" /\ UNCHANGED vars

-----------------------------------------------------------------------------
Parent ==
    \/ Validate \/ OpenPipe \/ StartFails \/ Spawn \/ CloseWriters
    \/ CheckDeadline \/ Read(0) \/ Read(1) \/ ReadFails \/ Poll
    \/ StopReap \/ StopGroup \/ StopTree \/ Taskkill \/ StopDirect
    \/ StopWait \/ StopWaitFails \/ StopRetry

Check(p) ==
    \/ \E s \in Stream : Write(p, s) \/ CloseEnd(p, s)
    \/ \E q \in Proc : Fork(p, q)
    \/ Detach(p)
    \/ Exit(p)

Next ==
    \/ Parent
    \/ DeadlinePasses
    \/ \E p \in Proc : Check(p)
    \/ Returned

\* Only the parent is scheduled fairly: a check may hang for ever.
Spec == Init /\ [][Next]_vars /\ WF_vars(Parent)

-----------------------------------------------------------------------------
PcValue == {"validate", "pipes", "spawn", "close", "loop", "read", "poll",
            "stop_group", "stop_kill", "stop_tree", "stop_direct", "stop_wait",
            "stop_retry", "done"}
Failure == {"none", "invalid_limits", "execution_failed", "timeout",
            "output_limit", "cleanup_failed"}
Life    == {"unborn", "live", "dying", "dead", "zombie", "reaped"}

ParentTypeOK ==
    /\ pc \in PcValue
    /\ request \in [limit : Requested, timeoutOk : BOOLEAN, platform : Platform]
    /\ next \in 0..2
    /\ active \subseteq Stream
    /\ code \in ExitCode \cup {NoCode}
    /\ failure \in Failure
    /\ ownEnds \subseteq Stream

FlagTypeOK ==
    /\ timedOut \in BOOLEAN
    /\ directOk \in BOOLEAN
    /\ groupOk \in BOOLEAN
    /\ expired \in BOOLEAN

CheckTypeOK ==
    /\ proc \in [Proc -> Life]
    /\ grouped \subseteq Proc
    /\ holds \in [Proc -> SUBSET Stream]
    /\ status \in ExitCode \cup {NoCode}

StreamTypeOK ==
    /\ buf \in [Stream -> 0..MaxStreamBytes]
    /\ pipe \in [Stream -> Nat]
    /\ written \in [Stream -> Nat]

(***************************************************************************)
(* Types.  What is retained of a stream never exceeds MAX_STREAM_BYTES     *)
(* (check_process.py:3-4).                                                 *)
(***************************************************************************)
TypeOK == ParentTypeOK /\ FlagTypeOK /\ CheckTypeOK /\ StreamTypeOK

Succeeded == pc = "done" /\ failure = "none"

(***************************************************************************)
(* A result without a failure is a complete capture: every byte the check  *)
(* wrote to either pipe is in it, within the limit, no process is left     *)
(* that could still write, and the exit code is the shell's own.  A prefix *)
(* is never returned as though it were the whole output, whatever the      *)
(* processes of the check do before or after the return.                   *)
(***************************************************************************)
CompleteCapture ==
    Succeeded =>
        /\ proc[Shell] = "reaped" /\ code = status
        /\ \A s \in Stream :
              buf[s] = written[s] /\ buf[s] <= Limit /\ ~Held(s)

(***************************************************************************)
(* A check is not failed for nothing: the overflow diagnosis means that a  *)
(* stream got more than the limit (exactly the limit is accepted), and the *)
(* timeout flag, which a failed cleanup does not erase, that the deadline  *)
(* passed.                                                                 *)
(***************************************************************************)
FailureIsEarned ==
    pc = "done" =>
        /\ failure = "output_limit" => \E s \in Stream : written[s] > Limit
        /\ timedOut => expired /\ failure \in {"timeout", "cleanup_failed"}
        /\ failure = "timeout" => timedOut

(***************************************************************************)
(* A boundary failure other than cleanup_failed is a promise about the     *)
(* processes: the shell was reaped and, on POSIX, no process that stayed   *)
(* in its group runs on, though the shell exited first or the first group  *)
(* signal was refused.                                                     *)
(***************************************************************************)
NoSurvivor ==
    pc = "done" /\ failure \notin {"none", "cleanup_failed"} =>
        /\ proc[Shell] \in {"unborn", "reaped"}
        /\ Posix => \A p \in grouped : proc[p] # "live"

(***************************************************************************)
(* The call returns although the check may never exit, never close a pipe  *)
(* and ignore everything but SIGKILL: it is enough that the deadline comes.*)
(***************************************************************************)
Termination == WF_vars(DeadlinePasses) => <>(pc = "done")

Quiet == proc[Shell] # "unborn" /\ \A p \in Proc : proc[p] \notin {"live", "dying"}

(***************************************************************************)
(* Once all processes of the check are gone the call returns without the   *)
(* help of the deadline: no descriptor of the parent keeps the pipes open. *)
(***************************************************************************)
QuietCheckReturns == Quiet ~> pc = "done"

-----------------------------------------------------------------------------
(***************************************************************************)
(* The abstract runner: what a caller may know of the run.                 *)
(***************************************************************************)
RunPhase == IF pc = "done" THEN "returned"
            ELSE IF pc \in {"validate", "pipes", "spawn"} THEN "asked" ELSE "running"

OverLimit == ValidLimits /\ \E s \in Stream : written[s] > Limit

Reported ==
    [failure |-> IF pc = "done" THEN failure ELSE "pending",
     code    |-> IF Succeeded THEN code ELSE NoCode,
     timed   |-> pc = "done" /\ timedOut]

Runner == INSTANCE CheckRunner WITH
    phase <- RunPhase, exit <- status, over <- OverLimit, late <- expired,
    outcome <- Reported

(***************************************************************************)
(* run_check_process makes exactly one report of at most one run of the    *)
(* command: an exit code only if it is the command's own and the output    *)
(* complete, a timeout only after the deadline, an overflow only of a      *)
(* stream that was over its limit by then; and the report, once made,      *)
(* stands.                                                                 *)
(***************************************************************************)
RunnerSpec == Runner!Spec
=============================================================================
