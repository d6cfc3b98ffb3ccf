# PatchWitness in TLA+

PatchWitness records what a change to a Git repository is, runs the checks of a
contract on it, and issues an evidence file with a verdict; from such evidence,
and that of other producers, it composes reports and passports. Its value rests on
hard promises: a PASS speaks about the bytes the checks ran on, a check that was
cut short never looks like a complete one, nothing a check starts is left running,
a file is never half written, and no combination of partial evidence becomes a
PASS. This directory models the parts of the program that make those promises,
checks them with TLC on small instances, and proves many of them with TLAPS for
all instances. Paths below are relative to the repository root; the package is
`src/patchwitness/`.

## 1. The system

| Component | State | Operations | Interacts with |
| --- | --- | --- | --- |
| check process runner (`check_process.py`) | pipes, retained bytes, process group, deadline | `run_check_process`, `_capture`, `_stop` | the operating system; called by the check pool |
| check pool (`checks.py`) | futures by check | `run_checks`, `_run_one` | runner, clean room or checkout |
| git observation (`git.py`) | none; reads index, files, HEAD | `collect_changes`, `verification_conflicts` | Git, one command at a time |
| cat-file clients (`git.py`, `safe_delivery_sources.py`) | one Git process and its two pipes | `_batch_git_blob_sha256`, `materialize_sources` | Git |
| clean room (`cleanroom.py`) | a disposable worktree | `clean_room`, `_copy_untracked`, `_require_unmasked_index` | Git; hosts the checks |
| evidence capture (`evidence.py`) | opening and closing change set, findings | `capture_evidence`, `_drifted_paths` | all of the above, policy, impact, plugins |
| files (`evidence.py`, `passport.py`, `file_input.py`) | one output file, temporary files | `write_evidence`, `write_passport`, `read_regular_file` | file system, other writers and readers |
| policy (`policy.py`) | none | `evaluate_policy`, glob matching | capture |
| command line (`cli.py`, `sdk.py`) | none | `scan`, `capture`, `gate` | pool, policy, capture |
| impact (`impact.py`) | a cache file | `analyze_impact` | capture, concurrent captures |
| safe delivery (`safe_delivery.py`) | none | compose, verify, SARIF | every producer of evidence |
| hosted evidence (`hosted_evidence.py`) | dictionaries of a loop | `normalize_ci`, `normalize_review` | safe delivery |
| TaskToPR (`tasktopr.py`, `tasktopr_policy.py`) | none | validation of a handoff, its policy | passport |
| passport (`passport.py`) | one candidate commit | derive, build, write | Git, TaskToPR, safe delivery, files |
| MCP server (`mcp.py`) | an input stream, the answers | `_read_message_line`, `serve`, `handle` | its client; capture, verification |

Configuration, secret scanning and redaction, reporters, detection, plugins,
benchmark, demo, scripts and hooks have no model: they parse, format or match text
and keep no state.

What is hard here is not the data but time. The capture observes the repository
with a dozen Git commands and per-file reads while the checks, the developer and
other tools write to it. The runner talks to processes that may fork, keep pipes
open after the shell is gone, leave the group and exit at any moment. Captures
share a cache and an output file; Git and its clients share bounded pipes. And
where the code is pure, its inputs come in any order, repeated or partial. What
makes each component correct:

- runner: a result without failure is complete, every failure is earned, cleanup
  leaves no group member, and the call returns;
- pool: the n-th result is that of the n-th check, and none runs on afterwards;
- capture: what checks read is what is recorded; what is recorded of a staged path
  is what a commit would hold; the recorded HEAD is the one checks ran at; drift is
  reported only when there was some;
- clean room: it holds the candidate and is removed on every exit;
- cat-file clients: every object gets its own bytes, nobody waits on each other, and
  neither a process nor a file is left behind;
- files: readers see one whole content, and a crash or an error leaves no part;
- composition: no combination of partial evidence upgrades a decision;
- MCP server: one answer for each request, none for another, and no check unasked.

## 2. Modules

| Module | Models | Role |
| --- | --- | --- |
| `CheckOutcome` | `ProcessOutput` | what may be reported of a command, given what happened to it |
| `CheckRunner` | what `run_check_process` promises | abstract specification |
| `CheckProcess` | `check_process.py` | the parent's steps and, beside them, the processes of the check; implements `CheckRunner` |
| `CheckPool` | `checks.py` | caller and workers of the thread pool, over the reports of `CheckOutcome` |
| `Policy` | `policy.py` | `evaluate_policy` and glob matching, as operators |
| `Gate` | `cli.py` and the order of `evidence.py` | `scan`, `capture` and `gate`, composing pool and policy up to the exit code |
| `Repository` | Git and its other writers | base, index, working tree, index flags, HEAD; what Git commands report of them |
| `Capture` | `evidence.py`, `git.py`, `cleanroom.py` | `capture_evidence` step by step on a `Repository` |
| `CatFile` | external: `git cat-file --batch` | one Git process between two bounded pipes |
| `BatchGit` | `git.py` 369-438 | hashes of many blobs, one request and one reply at a time |
| `SourceGit` | `safe_delivery_sources.py` | sources of several pins, one thread writing and one reading |
| `GitReaders` | | the two clients of `CatFile`, one in each behaviour |
| `OutputFile` | `evidence.py`, `passport.py`, `file_input.py` | any number of writers, a reader, other processes and crashes on one file |
| `Impact` | `impact.py` | concurrent `analyze_impact` over one cache, and its search |
| `Files` | | `OutputFile` or `Impact` |
| `SafeDelivery` | `safe_delivery.py` | composition, verification and SARIF, as operators |
| `HostedEvidence` | `hosted_evidence.py` | the loops of both normalisers over any listing |
| `Delivery` | producers and consumers of reports | composes the two: normalise, supply, compose, save, edit, verify |
| `TaskToPR` | `tasktopr.py`, `tasktopr_policy.py` | a handoff becomes evidence or is refused, as operators |
| `Passport` | `passport.py` | composing a passport for a repository that moves |
| `McpServer` | `mcp.py` | the server beside its client |
| `MC...` | | values of the constants and bounds for TLC |
| `...Proofs` | | TLAPS, see section 4 |

`PROJECT.json` lists, for every definition, the lines it stands for.

### CheckProcess and CheckRunner

`pc` follows `run_check_process`: `validate`, `pipes`, `spawn`, `close`, then the
loop of `_capture` (`loop` for the deadline, `read` for the two pipes in index
order, `poll`), then `_stop` (`stop_group` ... `stop_retry`), then `done`. `buf`,
`active`, `code`, `failure`, `timedOut`, `directOk` and `groupOk` are the locals of
those names. Each system call is a step of its own, so processes of the check
act between any two: `Write`, `CloseEnd`, `Fork` (the child inherits pipes and
group), `Detach` (setsid) and `Exit`. A process killed by a signal is `dying`
until it disappears. A pipe is a byte count: it is FIFO with one reader, so counts
determine contents. `KillGroup` may be refused whenever the group has a member,
as an operating system may. Signals reach a whole group or are refused; process
identifiers are not reused; Python's `poll`, `wait` and `close` do what they
document; `Taskkill` may kill any set of processes, or none.

`CheckRunner` has five variables: one command is run at most once and one report is
made of it, which says no more than what happened before. `CheckProcess` maps to it
with `RunPhase`, the shell's status, `OverLimit`, the deadline and `Reported`.

### CheckPool, Policy and Gate

The pool has a queue of futures, up to `workers` running ones, the caller that
collects results in the order of the contract, and the shutdown of the executor
when a worker raised. A worker takes a check, decides whether a clean-room command
may run, and then the command ends in any way `CheckOutcome` allows. A command's own
exit code is kept as it is (`CodesOf`): it may be 125 or 126, which `run_checks` also
reports for a failure of the runner and for a refused tool. The shell
syntax and path rules of `_run_one` are abstracted to the field `tool` of a check.

In `Policy` a path is a sequence of segments and a pattern a sequence of tokens; a
token is a literal segment, `*` or `**`. What `fnmatch` does inside a segment, and
letter case, are left out; `Ends` are the rows of `_glob_match`, kept all instead of
the last two. A change set is a sequence of changes. `Gate` follows the commands: contract, preview, base,
checks, findings, evidence, exit code. The change set and the findings that are not
policy are inputs there; `Capture` is about them.

### Repository and Capture

An object is opaque: equal objects are equal bytes. `Irregular` objects are
symbolic links, which the index stores as blobs and `_file_sha256` refuses to hash.
`Absent` is both "no object" and the missing hash `None`. `Repository` defines what
`git diff --cached`, `git diff <base>`, `git diff`, `ls-files --others` and
`ls-files --cached` report of base, index, working tree and flags. In particular a
masked entry (assume-unchanged or skip-worktree) stands for its file unseen.

`Capture` reads that repository one command or one file at a time:

| pc | Code |
| --- | --- |
| `refs` | `evidence.py` 48-51, the opening HEAD and branch |
| `cached`, `worktree`, `untracked`, `hash`, `flags`, `masked` | `collect_changes`, in its order; the pool hashes files in any order |
| `staged`, `unstaged`, `replaced`, `masks` | `verification_conflicts`, with its early return |
| `room`, `patch`, `list`, `copy` | `clean_room` until it yields |
| `checks` | `run_checks`: checks read the checkout or the clean room, and write to it |
| second round | conflicts and change set again (`round = 2`), then `_drifted_paths` |
| `refs again` | HEAD and branch again, verdict |

Policy violations, failed checks and secrets can only add errors: `Decide` may
always choose FAIL. `GitFails` lets any Git command raise. Line counts, impact and
analyzers do not influence the verdict's truth and are left out. Renames appear
as a deletion and an addition. Ignored files and `.patchwitness/evidence/`, which
both the collector and the copy skip, do not exist in the model. `before_sha256` is
a function of path and status once the base is fixed, so it is no part of the
modelled fingerprint.

Between any two steps, `Others` may write a file, an index entry, a flag or HEAD,
the checks included; HEAD may go to a new place or back to one where it was. All
checks of a clean capture share one disposable worktree, which each may rewrite for
the next (`CheckWrites`). Some history variables serve the properties alone: `past`
and `restored` (a path to which an earlier state came back), `pastHead` and
`headBack` (HEAD came back), `torn` (a path changed while it was being observed) and
`made` (what checks have put into the disposable worktree).

### CatFile, BatchGit, SourceGit

`CatFile` reads a request, writes a header, a body and a line end into a bounded
pipe, and only then reads the next; it may die, or stall for ever. `BatchGit` asks
for one object and consumes its whole reply, whatever its kind, before the next
request, and ends the process in its `finally`. `SourceGit` has a thread that
writes all requests, a thread that reads under a byte budget, a caller waiting
under a deadline, then the cutting of the data into files and the removal of all
files when anything failed. The inventories it starts from are inputs.

### OutputFile and Impact

The output path names a file; a file is a number of blocks, of which some are
durable. A writer makes its temporary file, writes it block by block, makes it
durable, renames it, and unlinks it on an error. After `Crash` a file has lost any
of its blocks that were not durable, and the output may name any earlier file. The
reader follows `read_regular_file` call by call: `lstat`, `open`, `fstat`, reads,
`fstat`, `lstat`. It compares identity, size and times: a rewrite by others may give
the file a size and times it had before, as the clock has ticks and Windows compares
no change time; the history variable `unseen` records when it gives it those that the
first `lstat` told of. An inode number is not reused for another file during a read,
removing a temporary file succeeds (`evidence.py:293` swallows the error), and no
symbolic link points nowhere.

A call of `Impact` stats the sources one by one, uses the cached graph of that
fingerprint or reads the sources one by one, writes the cache through the one
shared temporary name, and searches the reversed graph. Parsing of imports and
their resolution are left out: a version of a source is its set of imports, none for
one of more than 2 MB. The fingerprint is made of stamps, size and modification time,
and a new version may have a stamp the source had before (`alike`); where `stat`
fails, nothing is in the fingerprint, which is a stamp too. A source that cannot be
read gets an empty list, and that graph is cached like any other (`blank`, `failed`).

### SafeDelivery, HostedEvidence, Delivery

Identities (subjects, producer pins) are opaque, a digest is an injective function.
`Compose` returns a report or `Refused`; `Verified` composes the report again from
its own sections. `HostedEvidence` takes the records of a snapshot one by one in
any order with the dictionaries of the code. Its review state `COMMENTED` is also
`PENDING`, and an unfinished check run is also one completed without a conclusion:
the code treats them alike. `Delivery` chains normaliser, other producers (which
may be absent, malformed, repeated, unpinned, about another subject), composition,
a saved report that may be edited in one place and resealed, and verification.

### TaskToPR and Passport

A handoff is a record of what its validation tells apart. `Passport` asks the
repository its questions one Git command at a time: clean tree, HEAD, ancestry,
objects, clean again, HEAD again, with a developer who commits, checks out, edits
and undoes between them. Writing the passport is in `OutputFile`.

### McpServer

The client writes frames unit by unit, may stop in the middle of one, close its end,
or cease to read. A frame cut in the middle is no message. The server reads bounded lines, discards the rest of an oversized
one, decodes, dispatches and answers. Only binary input is modelled; the recount for
text streams (`mcp.py` 39-43) is left out.

## 3. What is checked

| Run | States | Shows |
| --- | --- | --- |
| `check_process` | 960 thousand | `TypeOK`, `CompleteCapture`, `FailureIsEarned`, `NoSurvivor`, refinement `RunnerSpec` |
| `check_process_live` | 260 thousand | `Termination`, `QuietCheckReturns` |
| `capture` | 3.4 million | `TypeOK`, `TestedIsRecorded`, `StagedIsRecorded`, `HeadStable`, `DriftIsReal` |
| `gate` | 196 thousand | `ResultsAreTheirs`, `NothingRunsOn`, `ExitIsDeserved` |
| `git_readers` | 909 thousand | `AnswersAreTheirs`, `NothingLeftBehind`, `CallEnds` |
| `files` | 2.4 million | `TargetIsWhole`, `NoLitter`, `ReadIsSnapshot`, `ExistingIsKept`, `GraphIsCurrent`, `ImpactIsExact` |
| `delivery` | 1.6 million | `TypeOK`, `HostedPassIsDeserved`, `HostedFailIsDeserved`, `PassIsWarranted`, `ReviewIsAllThatIsLeft`, `UntouchedIsAccepted`, `EditsDoNotDecide`, `SarifAgrees` |
| `passport` | 1.3 million | `TypeOK`, `CleanCandidate`, `NeverAuthorizes`, `ApprovalIsHuman`, `GenuineIsComposed` |
| `mcp` | 52 thousand | `OneAnswerEach`, `ChecksAreAskedFor`, `EveryFrameIsTaken` |
| `capture_room_race`, `capture_masked`, `passport_overwrite` | violation | see the findings |

**CompleteCapture.** Without a failure, all bytes ever written to both pipes were
retained, within the limit, no writer is left, and the exit code is the shell's.
**FailureIsEarned.** `output_limit` only when a stream got more than the limit,
`timeout` only after the deadline, and the timeout flag, which a failed cleanup
keeps, only with one of the two. **NoSurvivor.** On POSIX, a boundary failure
other than `cleanup_failed` leaves no process of the group able to run.
**RunnerSpec.** Every behaviour is one of `CheckRunner`.
**Termination.** The call returns if the deadline passes. **QuietCheckReturns.**
It returns without the deadline once all processes of the check are gone.

**ResultsAreTheirs.** Whichever check finishes first, the n-th result is that of the
n-th check, a clean-room check was not run, and has exit code 126, exactly if its
tool lies in the worktree, and exit code 0 means a command that exited
zero within its bounds. That the code is 126 does not tell a refusal: a command may
itself exit with it. **NothingRunsOn.** Never more commands than workers, and
none once `run_checks` returned or raised, except where cleanup itself failed and is
reported. **ExitIsDeserved.** The exit code and the evidence say PASS exactly if
every rule holds by a definition of its own: paths against patterns by expansion of
`**` instead of the matcher's rows, budgets, required checks.

**TestedIsRecorded.** When a PASS rests on checks, they read at every path what
the evidence records there, whatever was written while they ran or while the
clean room was made, or what a check itself has put into the clean room before
("writes confined to the disposable verifier retain their existing behavior",
`docs/check-execution.md:45`; `test_scope_drift.py:150` expects a PASS there).
Excepted, as the documents disclaim them: paths to which an
earlier state came back (`docs/check-execution.md`, "transient changes restored
before observation"), paths touched within one observation ("Observations are not
an atomic snapshot"), new files that stay untracked ("not certified"), and paths
whose object has no hash. Each exception is needed: without it TLC finds a PASS
over different bytes. Two of these traces are instructive. A staged deletion that
`git reset` undoes between the change set and the conflict comparison, followed by
a real deletion while checks run, compares equal although the checks saw the file.
And an unstaged deletion whose file comes back while checks run compares equal if
the path leaves the index between the second conflict comparison and the closing
change set.
**StagedIsRecorded.** A PASS, with or without checks, over a path nobody touched
that is staged: file and index agree and the evidence records that object.
**HeadStable.** Checks ran at the HEAD and branch the evidence names, unless HEAD
went back to a place where it had been: the code compares values
(`evidence.py:103-106`), and a switch away and back while checks run passes, which the
documents disclaim with other restored changes.
**DriftIsReal.** PW032 names only paths that were touched during the capture and
were recorded, in the base, or in the index; build outputs are no drift.

**AnswersAreTheirs.** Every path gets the hash of its own blob, every materialised
file is the one listed, and an error means that something outside the code went
wrong. **NothingLeftBehind.** Git is gone and was waited for; sources that could not
all be materialised leave no file. **CallEnds.** The call ends although both pipes
may fill; the one wait without a deadline, of the hashes for a Git that stalls, is
`Hangs`.

**TargetIsWhole.** Nobody ever finds a part of a payload, after a crash either.
**NoLitter.** A writer that is through leaves no temporary file. **ReadIsSnapshot.**
Accepted bytes were the content of the file at one moment of the read, unless a
rewrite left it the identity, size and times that the first `lstat` had told of:
"best-effort race checks, not atomic snapshots" (`docs/tasktopr-passport-cli.md:70`).
Without that exception TLC finds a read of two versions.
**ExistingIsKept.** Without `--force` there was a moment without an output: the most
that the code's early test gives. **GraphIsCurrent.** What the graph says of a source
is from a version that source had during this very call, or nothing because that
very version could not be read once, whoever wrote the cache; except for a source of
which a stamp came back with other contents. A list left empty by a failed read is
served from the cache after the source has become readable again, as long as size and
time are the same. TLC finds each of the two exceptions to be needed.
**ImpactIsExact.** The search finds exactly what is within `max_depth` imports.

**HostedPassIsDeserved**, **HostedFailIsDeserved.** The verdict of a listing in any
order against a definition by the set of its records. **PassIsWarranted.** PASS needs
exactly one complete, passing, pinned piece of evidence about the subject for every
component, the hosted one earned. **ReviewIsAllThatIsLeft.** A report that only asks
for review leaves nothing else open. **UntouchedIsAccepted**, **EditsDoNotDecide.**
Verification accepts what was composed, and no single edit of the kinds in
`EditedPayloads` (decision, stage, findings, pins, a component's decision), resealed
or not, changes what an accepted report decides. **SarifAgrees.** What a code scanner sees says the
same as the decision.

**CleanCandidate.** Unless HEAD came back to a commit it had left, the candidate was
checked out clean at one moment of the command, although each question is answered
at another. **NeverAuthorizes.** Execution evidence alone gives neither PASS nor a
mere request for review. **ApprovalIsHuman.** A required approval is a person's
decision on this plan. **GenuineIsComposed.** A consistent handoff, about this
candidate and from the pinned producer, is not refused.

**OneAnswerEach.** Between two lines every frame has the answers it is owed, in
order and under its own id, whatever oversized or broken line precedes it.
**ChecksAreAskedFor.** Checks run only for a whole legal request with an id and a
boolean that asks for them. **EveryFrameIsTaken.** A frame written to its end is
dealt with while the client reads.

### Bounds, and why they suffice

`CheckProcess`: a shell and one descendant, since group, pipe inheritance and
orphaning need two processes; a maximum of 2 bytes and requested limits 0, 2 and 3
(refused, the maximum, refused), chunks of up to 2 bytes, so that the limit is
reached in one read, in two, or exceeded by one; pipes of 2 bytes, so that writers
block; at most 3 bytes written per stream. The live run uses limit 1.

`Capture`: either one path and two writes by others or by checks (one to create a
difference, one to hide it; or HEAD away and back), with three contents (the base, the recorded one, another), one link,
every initial relation of base, index, file and flag and every mode; or two paths
and one write, in a clean room, with regular files of two contents, a second path
that is neither masked nor written, and HEAD at rest. The second case covers early returns and loops
over paths, which the code otherwise treats independently; the two paths are
interchangeable, so writing one of them is enough. Contents are interchangeable
too: TLC uses their symmetry.

`Gate`: every pattern of up to three tokens against every path of up to three
segments in the roles of scope, denial and protection, with and without a rename;
budgets at, below and above their limit; up to three checks and one or two workers.

`GitReaders`: an input pipe of one request and an output pipe of two units, so that
both fill; up to three objects of every kind with bodies of up to two units; one
path with a line break (`MaxBroken`); a budget slack of 2; one pin or two.

`Files`: two writers (`Writer`, interchangeable), two acts of others (`MaxOthers`: create and
remove, or two rewrites during one read), a reader limit of `MaxBlocks`, payloads of
two blocks; the times that come back are the first ones, and there are two rewrites
only while no writer is at work (`Bounded` of `MCFiles`): to the reader one earlier
time is as good as another, and a second rewrite matters to a read of the plain file,
which a rename by a writer takes away as a removal by others does; two calls of `Impact` share the cache over two sources (`NCached`), each
edited once (`MaxEdits`: to a new stamp or to the old one), any read of which may fail; one call searches every graph of four sources without the cache, where
a chain of imports may be one longer than `MaxDepth` 2.

`Delivery`: two required checks and one other, listings of up to three runs or two
reviews with identifiers that repeat, three people of whom one is the author in
another spelling; three components. `Passport`: three moves of the developer
(`MaxMoves`: away, back, and one more), four commits, a genuine handoff with every
approval and one that departs in each single field.

`McpServer`: two frames (`MaxFrames`) of 2 to 5 units at a limit of 2 (`MaxUnits`, with
the line end), the rest of an oversized one discarded unit by unit (`Chunk`): at the
limit, one above and far above it, each followed by another frame.

Deadlock is not checked in `Files`, `PassportOverwrite` and `McpServer`: writers
are through, and a server ends with its input.

### Fairness

`CheckProcess` assumes weak fairness of the parent's next step only: it is a
running thread that never waits without a timeout. `_stop` waits at most two
seconds, which appears as the step `StopWaitFails` being possible whenever the
shell has not exited. That the deadline passes is an assumption of `Termination`,
stated there; nothing is assumed of the check. `McpServer` assumes weak fairness of
the server and nothing of its client; that a tool call returns is part of the former, and an assumption
about Git and the checks rather than about the framing. `GitReaders` assumes it of the steps of both
clients, of Git while it works, and of the deadlines once Git stalls, which the
code sets itself. The other modules state no liveness: they are straight lines
whose waits are those of the modules above.

### Findings

- `capture_room_race`: `clean_room` takes the patch and lists untracked files at two
  moments. A recorded untracked file that is `git add`ed in between is in neither,
  so the clean room lacks it; its status and hash are the same before and after, so
  PW032 does not fire and the capture passes without having tested the file.
- `capture_masked`: a masked entry whose file was replaced by a symbolic link has no
  hash and is skipped, against the comment above that loop (`git.py` 160-162).
- `passport_overwrite`: `docs/tasktopr-passport-cli.md:74` says that existing output
  is refused unless `--force` is explicit. Existence is asked once, before the report
  is written and made durable; a file created in between is replaced.

## 4. What is proved

Every safety property that a run checks is also a theorem, for every value of the
constants that satisfies the named assumptions of the modules; so is the refinement
`RunnerSpec`. The assumptions say what the code or its environment fixes: that
names of different kinds differ (`ObjectAssumption`, `OutputAssumption`,
`ShellAssumption`), that sizes, limits and capacities are numbers, where it matters
positive (`SizeAssumption`, `PipeAssumption`, `RequestAssumption`, `McpAssumption`,
`ImpactAssumption`, `HostedAssumption`), that the modes are those of the code
(`ModeAssumption`), that a read budget exceeds the claimed size by two units a file
or more (`SlackAssumption`; the code grants 128 bytes for a header and a line end),
that there are components beside execution, CI and review, finitely many
(`ComponentAssumption`), that a policy, an
edit flag and the base are what their validation lets through
(`PassportAssumption`), and that contracts and changes are of the types of
`models.py`, with the unique check identifiers `config.py` 133-139 insists on
(`TaskAssumption`). TLC evaluates all of them.

None of the properties is inductive. Each proof module defines the invariant that
is, proves that the initial states satisfy it and that every action keeps it, one
lemma per action, and concludes. `PROJECT.json` lists the theorems.

**`CheckProcessProofs`**: `TypeOK`, `CompleteCapture`, `FailureIsEarned`,
`NoSurvivor`. `IInv` adds to the types what connects the properties to the steps:
`StartInv` (before the shell is started there are no processes and no bytes),
`Conserved` (bytes written are bytes retained plus bytes in the pipe, until a chunk
is refused), `EndOfFile` (a pipe no longer active is empty, has no writer and cannot
get one, because a fork copies only descriptors that are held), `ExitKnown`,
`Diagnosis` (overflow and timeout with the fact that earned them) and `Cleanup`
(what `_stop` has established at each step: a group once signalled has no live
member, since only members fork into it). `ImplementsRunner`: `CheckProcess`
refines `CheckRunner`. Initial states map to initial states and every step to a
step or a stutter, using `IInv` and `StatusInv`, which ties the shell's status to
the mapped phase.

**`CaptureProofs`**: `TypeOK`, `TestedIsRecorded`, `StagedIsRecorded`, `HeadStable`,
`DriftIsReal`, for any number of paths, objects and writes. The argument goes path by
path (`PathInv`). As long as a path is not torn, what has been observed of it is what
it is now: `Reading` says so of each loop of `collect_changes`, `Finding` of each
command of `verification_conflicts`, `Keeping` of the finished record. So the
comparison finds a conflict of the path if there is one, and without a conflict the
file has the object the evidence claims when the checks begin, and so has the clean
room (`Provided`). A check that then reads something else means that the file, or the
path's place in the room, was written; as no earlier state comes back, the file never
gets the claimed object again (`Testing`), and the closing observation says drift
unless it has it (`Settled`). In the clean room a check may read, besides, what
`made` records of the checks' own writes. The paths the property excepts are those
where one of these steps fails. `HeadStable`: until HEAD goes back to a place where it
was, every place is new, so a HEAD that has left the recorded one stays away
(`Left`); when it is the recorded one at the verdict, it was so at all checks.

**`GateProofs`**: `ResultsAreTheirs` and `NothingRunsOn` for any list of checks and
number of workers. `PoolInv` says of each check what its future, its command and its
report may be (`CheckInv`), what the caller holds (`CallerInv`), that the sequential
run takes them in order (`SequenceInv`), and that running commands are counted
(`CountInv`). `ExitIsDeserved` for any contract, change set and checks: `FlowInv`
says what the command knows at each place (the contract in force, where the checks
are, the findings, the evidence), and three lemmas that the findings are empty for
the right reason. `MatchesIsCovers`: the rows of `_glob_match` and the fast paths of
`_matches` come to what its docstring says, for paths and patterns of any length.
`LinesAreCounted`: the budget compares the number of changed lines. `RunVerdict` and
`SkippedVerdict`: a required check without finding was seen to pass.

**`FilesProofs`**: `TargetIsWhole`, `NoLitter`, `ReadIsSnapshot`, `ExistingIsKept` for
any number of writers. `WholeInv` says what is whole and durable at each step of a
writer, whence a crash cannot expose less; `FreshInv`, `LitterInv` and `KeptInv`
follow names and the early test; `ToldInv` says that a file whose status is the one the
reader saw has not been written since, unless such a write was `unseen`, and `GotInv`
that what was read is then one content. `GraphIsCurrent` for any number of captures and sources: a cache entry
is sound if none of its graph's versions is older than the one its fingerprint names;
`FileInv` keeps every file at the shared name sound or unusable, `PrintInv` and
`GraphInv` place fingerprint and graph within the call, all for the sources of which a
stamp still names one version (`StampInv`), and `BlankInv` says that an empty list, from the cache or not, goes back to a failed read. `ImpactIsExact` for any graph, any
changed sources and any order in which their sets are iterated: `SearchInvariant`
says that the queue is sorted by depth, that no source is nearer than its depth in
the queue, and that whatever was found has its dependents found or waits in the
queue; so when an entry of the last depth comes up, all within it are found.

**`DeliveryProofs`**: `HostedPassIsDeserved` and `HostedFailIsDeserved` for snapshots
of any length. `LoopInv`: `seen` are the identifiers taken, and as many as records
unless one was repeated (`SeenInv`); each reason has its cause (`ReasonsInv`);
`newest` holds for each key a record that counts and is not older than any other
(`NewestInv`). Then `PassIsWarranted` and `ReviewIsAllThatIsLeft` from `SupplyInv` and
`ReportInv` (the report is the composition of what was supplied) with `DecisionRests`,
what a decision about one component rests on; `EditsDoNotDecide` from
`SavedRecordsOf` (a report's sections give back its records) and `EditParts`;
`SarifAgrees` from `ShownAsDecided`, which holds of any composed report;
`UntouchedIsAccepted` by counting: each component has at most three findings, which is
what the verifier admits; and `TypeOK`.

**`PassportProofs`**: `TypeOK`, `CleanCandidate`, `NeverAuthorizes`,
`ApprovalIsHuman`, `GenuineIsComposed`. `RepoInv`: HEAD may leave a commit between two
questions but not without a trace, so a second look at the tree is a look at the
resolved commit. `ReportInv`: the report says FAIL or UNKNOWN, because some component
other than CI, review and execution is without evidence. `ApprovalInv`: the section of
the execution holds the very evidence the handoff became, which has the metrics of an
approval only if the handoff has one.

**`McpServerProofs`**: `OneAnswerEach` and `ChecksAreAskedFor` for any frames, sizes
and limits, wherever the client stops. `PlaceInv`: the server is never ahead of its
client. `WorkInv`: what it has at hand is about the last frame it took anything of,
and it leaves a frame half taken only while it discards or when the input is over.
`ToldInv`: of the frames it is through with, exactly those that are owed an answer
have one. What is owed depends on how much of a frame was written, so a client that
goes on writing could change it; `OwedKept` says it cannot once the server is through.

**`GitReadersProofs`**: `AnswersAreTheirs` and `NothingLeftBehind` for any objects,
requests, pipe capacities and budgets. For the hashes, one request is on its way at
most and the rest of its reply lies in the pipe and in Git, in order (`Pending`,
`HeaderInv`, `BodyInv`). For the sources, what was read, what is in the pipe and what
Git has yet to write are together the replies to the requests Git has read, complete
and in order, each ending where the sizes of the inventory say (`StreamInv`, `End`):
so the budget suffices and the data can be cut, unless something outside the code
goes wrong. `FilesInv` and `StageInv`, which the cleanup rests on, hold whatever goes
wrong.

The library's induction theorems take an operator as a parameter, which no installed
backend can instantiate. Where a proof needs what a recursive function computes (rows
of the matcher, sums of lines and sizes, distances in the import graph), it takes the
least number for which the claim fails (`Least`, from the well-foundedness of the
naturals) and refutes it.

Only model-checked is liveness: `Termination`, `QuietCheckReturns`, `CallEnds` and
`EveryFrameIsTaken` need fairness and so ENABLED, which the prover does not handle.

## 5. Not modelled, and the plan

Next, in this order:

1. For liveness, the safety half of it: that some step of the parent, the server or a
   reader is possible wherever a call has not ended, and a quantity its steps bring
   down, stated as invariant and action property and proved.
2. `CheckPool` over `CheckProcess` itself: that the reports the pool's model lets a
   command make are all among those `CheckRunner` allows.
3. The two windows below that `Gate` and `Capture` leave to each other.

Partly modelled: git observation (`git.py`: change set, conflicts and hashing are
modelled; parsing of Git's output, base resolution and repository discovery are
not), source materialisation (not the inventories and archives it starts from),
command line and SDK (scan, capture and gate; the other commands only parse and
print), impact analysis (not the parsing of imports).

Windows the models do not cover: `scan` asks whether the tree is dirty before it
resolves HEAD (`cli.py` 530); paths written between the second conflict comparison
and the closing snapshot (`evidence.py` 76) are excepted in `TestedIsRecorded`; a
process identifier may be reused before the second signal (`check_process.py` 142);
captures within one second share an evidence name (`cli.py` 559), where the last
writer wins by design.

Left out for good: text work (reporters, detection, redaction, secret patterns,
configuration and schema parsing), plugins, benchmark, demo, scripts, integration
hooks and CI. Windows job semantics beyond `taskkill`, and Git's own correctness,
are assumptions.
