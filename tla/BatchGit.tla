------------------------------- MODULE BatchGit -------------------------------
(***************************************************************************)
(* _batch_git_blob_sha256 (git.py): the hashes of the blobs of a list of   *)
(* paths, over one Git process, one request and one reply at a time.  A    *)
(* hash is the sequence of the units that were hashed.                     *)
(***************************************************************************)
EXTENDS CatFile, FiniteSets

CONSTANT MaxBroken   \* bound of the model: paths that hold a line break

VARIABLES
    pc,
    broken,     \* the paths that hold a line break
    index,      \* the next path
    awaited,    \* paths asked for and not answered; the code has one at most
    remaining,  \* units yet to be read of a body
    body,       \* the reply being read: its kind and the units hashed so far
    output,     \* per path its hash, or Unset, or NoBlob for None
    raising     \* GitError is on its way

batchVars == <<pc, broken, index, awaited, remaining, body, output, raising>>

Unset  == [hash |-> <<>>, set |-> FALSE, blob |-> FALSE]
NoBlob == [hash |-> <<>>, set |-> TRUE, blob |-> FALSE]
Hash(units) == [hash |-> units, set |-> TRUE, blob |-> TRUE]

NoBody == [blob |-> FALSE, units |-> <<>>]

BatchIdle ==
    /\ pc = "idle" /\ broken = {} /\ index = 1 /\ awaited = <<>> /\ remaining = 0
    /\ body = NoBody /\ output = <<>> /\ raising = FALSE

BatchInit ==
    /\ pc = "spawn" /\ broken \in {b \in SUBSET DOMAIN objects : Cardinality(b) <= MaxBroken}
    /\ index = 1 /\ awaited = <<>> /\ remaining = 0
    /\ body = NoBody /\ output = [i \in DOMAIN objects |-> Unset] /\ raising = FALSE

Raise == raising' = TRUE /\ pc' = "cleanup"

-----------------------------------------------------------------------------
BatchSpawns ==
    /\ pc = "spawn" /\ SpawnGit
    /\ pc' = "ask"
    /\ UNCHANGED <<objects, broken, index, awaited, remaining, body, output, raising>>

More == index <= Len(objects)

\* rev-parse resolves a path that cannot be a line, or does not: None.
Unresolved ==
    /\ pc = "ask" /\ More /\ index \in broken
    /\ objects[index].kind = "missing"
    /\ output' = [output EXCEPT ![index] = NoBlob]
    /\ index' = index + 1
    /\ UNCHANGED <<objects, gitVars, pc, broken, awaited, remaining, body, raising>>

\* Mutant: all requests are written before the first reply is read.
AfterAsk_AllFirst == IF index < Len(objects) THEN "ask" ELSE "header"

AfterAsk == "header"

Ask ==
    /\ pc = "ask" /\ More /\ ~(index \in broken /\ objects[index].kind = "missing")
    /\ ~Gone /\ Len(stdin) < InCap
    /\ stdin' = Append(stdin, index)
    /\ awaited' = Append(awaited, index)
    /\ index' = index + 1
    /\ pc' = AfterAsk
    /\ UNCHANGED <<objects, git, reaped, asking, stdout, reading, reply, trouble,
                   broken, remaining, body, output, raising>>

\* Writing to a Git that is gone: OSError.
AskFails ==
    /\ pc = "ask" /\ More /\ Gone
    /\ Raise
    /\ UNCHANGED <<objects, gitVars, broken, index, awaited, remaining, body, output>>

Takes(unit) == stdout # <<>> /\ Head(stdout) = unit /\ stdout' = Tail(stdout)
GitRest == UNCHANGED <<objects, git, reaped, stdin, asking, reading, reply, trouble>>

Answered(value) ==
    /\ output' = [output EXCEPT ![Head(awaited)] = value]
    /\ awaited' = Tail(awaited)
    /\ pc' = IF Len(awaited) > 1 THEN "header" ELSE "ask"

NoObject ==
    /\ pc = "header"
    /\ \E kind \in {"missing", "submodule"}, i \in DOMAIN objects : Takes(Unit(kind, i))
    /\ Answered(NoBlob)
    /\ GitRest /\ UNCHANGED <<broken, index, remaining, body, raising>>

\* Mutant: only the body of a blob is read.
Consumed_Blobs(i) == IF objects[i].kind = "blob" THEN objects[i].size ELSE 0

\* How much of the body is read: all, whatever its kind.
Consumed(i) == objects[i].size

ReadHeader ==
    /\ pc = "header"
    /\ \E i \in DOMAIN objects :
          /\ Takes(Unit("header", i))
          /\ remaining' = Consumed(i)
          /\ body' = [blob |-> objects[i].kind = "blob", units |-> <<>>]
    /\ pc' = "body"
    /\ GitRest /\ UNCHANGED <<broken, index, awaited, output, raising>>

ReadBody ==
    /\ pc = "body" /\ remaining > 0 /\ stdout # <<>>
    /\ remaining' = remaining - 1
    /\ body' = IF body.blob THEN [body EXCEPT !.units = Append(@, Head(stdout))] ELSE body
    /\ stdout' = Tail(stdout)
    /\ GitRest /\ UNCHANGED <<pc, broken, index, awaited, output, raising>>

Terminated == stdout # <<>> /\ Head(stdout).what = "end" /\ stdout' = Tail(stdout)

ReadEnd ==
    /\ pc = "body" /\ remaining = 0 /\ Terminated
    /\ Answered(IF body.blob THEN Hash(body.units) ELSE NoBlob)
    /\ GitRest /\ UNCHANGED <<broken, index, remaining, body, raising>>

\* A malformed header, another terminator, or the end of file instead.
ReadFails ==
    /\ \/ pc \in {"header", "body"} /\ AtEnd
       \/ pc = "header" /\ stdout # <<>> /\ Head(stdout).what \in {"body", "end"}
       \/ pc = "body" /\ remaining = 0 /\ stdout # <<>> /\ Head(stdout).what # "end"
    /\ Raise
    /\ UNCHANGED <<objects, gitVars, broken, index, awaited, remaining, body, output>>

CloseInput ==
    /\ pc = "ask" /\ ~More
    /\ asking' = FALSE /\ pc' = "wait"
    /\ UNCHANGED <<objects, git, reaped, stdin, stdout, reading, reply, trouble, broken,
                   index, awaited, remaining, body, output, raising>>

\* process.wait(timeout=30): the exit status, or the timeout.
WaitGit ==
    /\ pc = "wait" /\ Gone
    /\ pc' = "cleanup" /\ reaped' = TRUE
    /\ raising' = (git = "nonzero")
    /\ UNCHANGED <<objects, git, stdin, asking, stdout, reading, reply, trouble, broken,
                   index, awaited, remaining, body, output>>

WaitTimesOut ==
    /\ pc = "wait" /\ ~Gone
    /\ Raise /\ trouble' = TRUE
    /\ UNCHANGED <<objects, git, reaped, stdin, asking, stdout, reading, reply, broken,
                   index, awaited, remaining, body, output>>

Stop == Kill

\* finally: close both pipes, kill Git if it lives, wait for it.
CleanUp ==
    /\ pc = "cleanup"
    /\ asking' = FALSE /\ reading' = FALSE
    /\ Stop /\ reaped' = TRUE
    /\ pc' = IF raising THEN "raised" ELSE "returned"
    /\ UNCHANGED <<objects, stdin, stdout, reply, trouble, broken, index, awaited,
                   remaining, body, output, raising>>

BatchStep == \/ BatchSpawns \/ Unresolved \/ Ask \/ AskFails \/ NoObject \/ ReadHeader
             \/ ReadBody \/ ReadEnd \/ ReadFails \/ CloseInput \/ WaitGit \/ CleanUp

BatchNext == BatchStep \/ WaitTimesOut
=============================================================================
