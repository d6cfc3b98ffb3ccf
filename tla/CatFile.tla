------------------------------- MODULE CatFile -------------------------------
(***************************************************************************)
(* External: `git cat-file --batch` between its two pipes.                 *)
(*                                                                         *)
(* It reads one request at a time and writes the reply before it reads the *)
(* next: a header, the body of the object whatever its kind, and a line    *)
(* end; or a single line for an object that is missing or a submodule.     *)
(* A request is a line, a reply a sequence of units; either pipe is        *)
(* bounded.  Git may die, and may stall for ever.                          *)
(***************************************************************************)
EXTENDS Integers, Sequences

CONSTANTS InCap, OutCap   \* capacities of the pipes, in requests and in units

ASSUME PipeAssumption == InCap \in Nat \ {0} /\ OutCap \in Nat \ {0}

VARIABLES
    objects,   \* what the requests are for: [kind, size]
    git,       \* "none", "live", "stalled", "zero" or "nonzero" when it exited
    reaped,    \* nobody has yet to wait for it
    stdin,     \* requests in the pipe to Git
    asking,    \* the write end of that pipe is open
    stdout,    \* units in the pipe from Git
    reading,   \* the read end of that pipe is open
    reply,     \* units Git has yet to write
    trouble    \* history: something outside the code went wrong

gitVars == <<git, reaped, stdin, asking, stdout, reading, reply, trouble>>

Unit(what, of) == [what |-> what, of |-> of]

Reply(i) ==
    IF objects[i].kind \in {"missing", "submodule"} THEN <<Unit(objects[i].kind, i)>>
    ELSE LET last == objects[i].size + 2 IN
         [n \in 1..last |-> Unit(CASE n = 1 -> "header" [] n = last -> "end"
                                   [] OTHER -> "body", i)]

NoGit ==
    /\ git = "none" /\ reaped = TRUE /\ stdin = <<>> /\ asking = FALSE
    /\ stdout = <<>> /\ reading = FALSE /\ reply = <<>> /\ trouble = FALSE

SpawnGit ==
    /\ git' = "live" /\ reaped' = FALSE /\ stdin' = <<>> /\ asking' = TRUE
    /\ stdout' = <<>> /\ reading' = TRUE /\ reply' = <<>>
    /\ UNCHANGED trouble

Gone == git \in {"zero", "nonzero"}

\* End of file for whoever reads the replies.
AtEnd == stdout = <<>> /\ Gone

Kill == git' = IF git \in {"live", "stalled"} THEN "nonzero" ELSE git

-----------------------------------------------------------------------------
GitReads ==
    /\ git = "live" /\ reply = <<>> /\ stdin # <<>>
    /\ reply' = Reply(Head(stdin)) /\ stdin' = Tail(stdin)
    /\ UNCHANGED <<objects, git, reaped, asking, stdout, reading, trouble>>

GitWrites ==
    /\ git = "live" /\ reply # <<>> /\ reading /\ Len(stdout) < OutCap
    /\ stdout' = Append(stdout, Head(reply)) /\ reply' = Tail(reply)
    /\ UNCHANGED <<objects, git, reaped, stdin, asking, reading, trouble>>

GitEnds ==
    /\ git = "live" /\ reply = <<>> /\ stdin = <<>> /\ ~asking
    /\ git' = "zero"
    /\ UNCHANGED <<objects, reaped, stdin, asking, stdout, reading, reply, trouble>>

\* Git stops answering, for good or for ever.
GitFails ==
    /\ git = "live" /\ git' \in {"nonzero", "stalled"}
    /\ trouble' = TRUE
    /\ UNCHANGED <<objects, reaped, stdin, asking, stdout, reading, reply>>

\* What Git does when it does what it should.
GitWorks == GitReads \/ GitWrites \/ GitEnds
=============================================================================
