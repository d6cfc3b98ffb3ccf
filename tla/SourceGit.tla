------------------------------ MODULE SourceGit ------------------------------
(***************************************************************************)
(* materialize_sources (safe_delivery_sources.py) once its inventories are *)
(* made: for each pin one Git process is fed by one thread and drained by  *)
(* another under a byte budget, while the caller waits under a deadline;   *)
(* then the files of the pin are cut out of the data and written to a      *)
(* fresh directory, which is removed if anything fails.                    *)
(***************************************************************************)
EXTENDS CatFile

CONSTANT Slack   \* units of header and line end the budget grants a file

\* 128 bytes hold the header and the line end of any object.
ASSUME SlackAssumption == Slack \in Nat /\ Slack >= 2

VARIABLES
    step,      \* of the caller
    pins,      \* the requests of each pin
    pin,       \* the current one
    claimed,   \* the size of each object by the inventory
    writer,    \* "write" or "done"
    sent,      \* requests it has written
    reader,    \* "read" or "done"
    data,      \* units it has kept
    failed,    \* `failures` is not empty
    cut,       \* files cut out of the data of this pin
    files,     \* files in the stage
    staged     \* the stage exists

sourceVars == <<step, pins, pin, claimed, writer, sent, reader, data, failed, cut,
                files, staged>>
threads == <<writer, sent, reader, data, failed>>

SourceIdle ==
    /\ step = "idle" /\ pins = <<>> /\ pin = 1 /\ claimed = <<>> /\ writer = "done"
    /\ sent = 0 /\ reader = "done" /\ data = <<>> /\ failed = FALSE /\ cut = 0
    /\ files = {} /\ staged = FALSE

\* The object store may disagree with what it said when it was listed.
SourceInit(division) ==
    /\ step = "spawn" /\ pins = division /\ pin = 1
    /\ claimed \in [DOMAIN objects -> {objects[i].size : i \in DOMAIN objects}]
    /\ writer = "done" /\ sent = 0 /\ reader = "done" /\ data = <<>>
    /\ failed = FALSE /\ cut = 0 /\ files = {} /\ staged = TRUE

Wanted == pins[pin]

\* What the first k numbers of f add up to, for every k.
Totals(f) ==
    LET total[k \in 0..Len(f)] == IF k = 0 THEN 0 ELSE total[k - 1] + f[k] IN total

Claims == Totals([k \in DOMAIN Wanted |-> claimed[Wanted[k]]])

\* Where the first k replies end, by the sizes of the inventory.
End(k) == Claims[k] + 2 * k

SourceSpawns ==
    /\ step = "spawn" /\ SpawnGit
    /\ writer' = "write" /\ sent' = 0 /\ reader' = "read" /\ data' = <<>>
    /\ failed' = FALSE /\ cut' = 0
    /\ step' = "wait"
    /\ UNCHANGED <<objects, pins, pin, claimed, files, staged>>

-----------------------------------------------------------------------------
\* write_input
WriteRequest ==
    /\ writer = "write" /\ sent < Len(Wanted) /\ ~Gone /\ Len(stdin) < InCap
    /\ stdin' = Append(stdin, Wanted[sent + 1])
    /\ sent' = sent + 1
    /\ UNCHANGED <<objects, git, reaped, asking, stdout, reading, reply, trouble,
                   step, pins, pin, claimed, writer, reader, data, failed, cut,
                   files, staged>>

WriteEnds ==
    /\ writer = "write" /\ sent = Len(Wanted) /\ ~Gone
    /\ asking' = FALSE /\ writer' = "done"
    /\ UNCHANGED <<objects, git, reaped, stdin, stdout, reading, reply, trouble,
                   step, pins, pin, claimed, sent, reader, data, failed, cut,
                   files, staged>>

WriteFails ==
    /\ writer = "write" /\ Gone
    /\ writer' = "done" /\ failed' = TRUE
    /\ UNCHANGED <<objects, gitVars, step, pins, pin, claimed, sent, reader, data, cut,
                   files, staged>>

MayRead == TRUE

Budget == Claims[Len(Wanted)] + Slack * Len(Wanted)

\* read_pipe: a unit over the budget kills Git and is not kept.
ReadUnit ==
    /\ reader = "read" /\ MayRead /\ stdout # <<>>
    /\ stdout' = Tail(stdout)
    /\ IF Len(data) < Budget
       THEN data' = Append(data, Head(stdout)) /\ UNCHANGED <<git, reading, reader, failed>>
       ELSE Kill /\ reading' = FALSE /\ reader' = "done" /\ failed' = TRUE /\ UNCHANGED data
    /\ UNCHANGED <<objects, reaped, stdin, asking, reply, trouble, step, pins, pin,
                   claimed, writer, sent, cut, files, staged>>

ReadEnds ==
    /\ reader = "read" /\ AtEnd
    /\ reader' = "done" /\ reading' = FALSE
    /\ UNCHANGED <<objects, git, reaped, stdin, asking, stdout, reply, trouble, step,
                   pins, pin, claimed, writer, sent, data, failed, cut, files, staged>>

-----------------------------------------------------------------------------
\* process.wait in the caller.
Exited ==
    /\ step = "wait" /\ Gone
    /\ reaped' = TRUE /\ step' = "join"
    /\ UNCHANGED <<objects, git, stdin, asking, stdout, reading, reply, trouble, pins,
                   pin, claimed, threads, cut, files, staged>>

Deadline ==
    /\ step = "wait" /\ ~Gone
    /\ Kill /\ reaped' = TRUE /\ failed' = TRUE /\ step' = "join" /\ trouble' = TRUE
    /\ UNCHANGED <<objects, stdin, asking, stdout, reading, reply, pins, pin, claimed,
                   writer, sent, reader, data, cut, files, staged>>

Joined == writer = "done" /\ reader = "done"

Join ==
    /\ step = "join" /\ Joined
    /\ step' = IF failed \/ git # "zero" THEN "discard" ELSE "cut"
    /\ UNCHANGED <<objects, gitVars, pins, pin, claimed, threads, cut, files, staged>>

\* A thread is still alive when its join times out.
JoinTimesOut ==
    /\ step = "join" /\ ~Joined
    /\ step' = "discard" /\ trouble' = TRUE
    /\ UNCHANGED <<objects, git, reaped, stdin, asking, stdout, reading, reply, pins,
                   pin, claimed, threads, cut, files, staged>>

Offset == End(cut)

\* Header, length, line end and object identity.
Genuine(i) ==
    /\ Offset + claimed[i] + 2 <= Len(data)
    /\ objects[i].kind = "blob" /\ objects[i].size = claimed[i]
    /\ SubSeq(data, Offset + 1, Offset + claimed[i] + 2) = Reply(i)

CutFile ==
    /\ step = "cut" /\ cut < Len(Wanted) /\ Genuine(Wanted[cut + 1])
    /\ files' = files \cup {Wanted[cut + 1]}
    /\ cut' = cut + 1
    /\ UNCHANGED <<objects, gitVars, step, pins, pin, claimed, threads, staged>>

CutFails ==
    /\ step = "cut"
    /\ \/ cut < Len(Wanted) /\ ~Genuine(Wanted[cut + 1])
       \/ cut = Len(Wanted) /\ Offset # Len(data)
    /\ step' = "discard"
    /\ UNCHANGED <<objects, gitVars, pins, pin, claimed, threads, cut, files, staged>>

\* The disk refuses the file.
WriteFileFails ==
    /\ step = "cut" /\ cut < Len(Wanted) /\ Genuine(Wanted[cut + 1])
    /\ step' = "discard" /\ trouble' = TRUE
    /\ UNCHANGED <<objects, git, reaped, stdin, asking, stdout, reading, reply, pins,
                   pin, claimed, threads, cut, files, staged>>

PinDone ==
    /\ step = "cut" /\ cut = Len(Wanted) /\ Offset = Len(data)
    /\ IF pin < Len(pins) THEN pin' = pin + 1 /\ step' = "spawn"
       ELSE step' = "returned" /\ UNCHANGED pin
    /\ UNCHANGED <<objects, gitVars, pins, claimed, threads, cut, files, staged>>

\* Mutant: only the files of the failing pin are removed.
Removed_Pin == {Wanted[k] : k \in DOMAIN Wanted}

Removed == files

\* rmtree of the stage, then the error goes on.
Discard ==
    /\ step = "discard"
    /\ files' = files \ Removed /\ staged' = (files' # {})
    /\ step' = "raised"
    /\ UNCHANGED <<objects, gitVars, pins, pin, claimed, threads, cut>>

Thread == WriteRequest \/ WriteEnds \/ WriteFails \/ ReadUnit \/ ReadEnds
SourceStep == \/ SourceSpawns \/ Thread \/ Exited \/ Join \/ CutFile \/ CutFails
              \/ PinDone \/ Discard
SourceNext == SourceStep \/ Deadline \/ JoinTimesOut \/ WriteFileFails
=============================================================================
