------------------------------- MODULE Capture -------------------------------
(***************************************************************************)
(* capture_evidence (evidence.py): record the change set of a repository,  *)
(* run the checks on it, live or in a disposable worktree (cleanroom.py),  *)
(* observe the repository again, and decide PASS or FAIL.                  *)
(*                                                                         *)
(* The capture reads the repository one Git command or one file at a time  *)
(* while others, the checks among them, write to it.  What is asked here   *)
(* is whether a PASS says the truth: that the bytes the checks ran on are  *)
(* the bytes the evidence records.                                         *)
(*                                                                         *)
(* Line counts, secret scanning, impact and analyzers only add findings:   *)
(* they appear as the verdict's freedom to be FAIL.                        *)
(***************************************************************************)
EXTENDS Repository

CONSTANT Mode  \* subset of {"live", "clean", "none"}: how checks are executed

ASSUME ModeAssumption == Mode \subseteq {"live", "clean", "none"}

NoRoom == <<>>   \* the empty tree of no worktree

VARIABLES
    mode, pc, round,
    sourceHead,  \* source_head and source_branch
    cached,      \* cached_statuses, "-" for no entry
    worktree,    \* worktree_statuses
    changes,     \* per path its status and after_sha256, as collected so far
    recorded,    \* changes: the change set the evidence records
    staged,      \* staged of verification_conflicts
    conflicts,
    todo,        \* paths the current loop has yet to visit
    room,        \* the tree of the disposable worktree
    ran,         \* run_checks was called
    seen,        \* per path, the objects the checks have read there
    made,        \* per path, the objects checks have put in the worktree
    heads,       \* the values HEAD had while checks ran
    drifted, verdict,
    torn         \* paths of which one observation may be no snapshot

observation == <<cached, worktree, changes, todo>>
progress == <<mode, round, sourceHead, recorded, staged, conflicts, room, ran,
              seen, made, heads, drifted, verdict>>
captureVars == <<pc, observation, progress>>
world == <<repoVars, torn>>
vars == <<world, captureVars>>

-----------------------------------------------------------------------------
\* What the steps compute.

Letter == {"-", "A", "D", "M"}

Nothing == [p \in Path |-> [status |-> "-", after |-> Absent]]

\* _file_sha256: only regular files have a hash.
FileHash(o) == IF o \in Content THEN o ELSE Absent

Listed == {p \in Path : changes[p].status # "-"}

\* statuses = {**cached_statuses, **worktree_statuses}
Merged(p) == IF worktree[p] # "-" THEN worktree[p] ELSE cached[p]

\* The commit records the index blob of a staged path.
Indexed == {p \in Path : cached[p] \notin {"-", "D"}}

Executes == mode # "none"

\* Mutant: drift is a changed status, contents are not compared.
Moved_StatusOnly == {p \in Path : /\ recorded[p].status # "-"
                                 /\ changes[p].status # recorded[p].status}

\* _drifted_paths: a recorded path whose fingerprint is another now.
Moved == {p \in Path : recorded[p].status # "-" /\ changes[p] # recorded[p]}

\* Mutant: untracked build outputs count as drift.
Joined_AnyNew(tracked) == {p \in Listed : recorded[p].status = "-"}

\* A new path, unless it is an addition the index does not know.
Joined(tracked) ==
    {p \in Listed : /\ recorded[p].status = "-"
                    /\ changes[p].status # "A" \/ p \in tracked}

Drift(tracked) == Moved \cup Joined(tracked)

Finished == pc \in {"done", "raised"}

Init ==
    /\ RepositoryInit
    /\ mode \in Mode
    /\ pc = "refs" /\ round = 1 /\ sourceHead = 0
    /\ cached = [p \in Path |-> "-"] /\ worktree = [p \in Path |-> "-"]
    /\ changes = Nothing /\ recorded = Nothing
    /\ staged = [p \in Path |-> "-"] /\ conflicts = {} /\ todo = {}
    /\ room = NoRoom /\ ran = FALSE
    /\ seen = [p \in Path |-> {}] /\ made = [p \in Path |-> {}] /\ heads = {}
    /\ drifted = {} /\ verdict = "none" /\ torn = {}

-----------------------------------------------------------------------------
\* collect_changes

ReadRefs ==
    /\ pc = "refs"
    /\ sourceHead' = head
    /\ pc' = "cached"
    /\ UNCHANGED <<world, observation, mode, round, recorded, staged,
                   conflicts, room, ran, seen, made, heads, drifted, verdict>>

ReadCached ==
    /\ pc = "cached"
    /\ cached' = [p \in Path |-> CachedStatus(p)]
    /\ pc' = "worktree"
    /\ UNCHANGED <<world, progress, worktree, changes, todo>>

ReadWorktree ==
    /\ pc = "worktree"
    /\ worktree' = [p \in Path |-> WorktreeStatus(p)]
    /\ pc' = "untracked"
    /\ UNCHANGED <<world, progress, cached, changes, todo>>

\* An untracked file that replaces a staged deletion stays a deletion.
ReadUntracked ==
    /\ pc = "untracked"
    /\ LET added == {p \in Untracked : Merged(p) = "-"}
       IN  /\ changes' = [p \in Path |->
                 [status |-> IF p \in added THEN "A" ELSE Merged(p),
                  after |-> Absent]]
           /\ todo' = added \cup {p \in Path : worktree[p] \notin {"-", "D"}}
    /\ pc' = "hash"
    /\ UNCHANGED <<world, progress, cached, worktree>>

\* _parallel_file_sha256, for the diff's paths and then for untracked ones.
HashFile(p) ==
    /\ pc = "hash" /\ p \in todo
    /\ worktree[p] # "-" \/ \A q \in todo : worktree[q] = "-"
    /\ changes' = [changes EXCEPT ![p].after = FileHash(work[p])]
    /\ todo' = todo \ {p}
    /\ UNCHANGED <<world, progress, pc, cached, worktree>>

ReadBlobs ==
    /\ pc = "hash" /\ todo = {}
    /\ changes' = [p \in Path |-> IF p \in Indexed
                                  THEN [changes[p] EXCEPT !.after = index[p]]
                                  ELSE changes[p]]
    /\ pc' = "flags"
    /\ UNCHANGED <<world, progress, cached, worktree, todo>>

\* Masked entries are invisible to both diffs; their files are hashed here.
ReadFlags ==
    /\ pc = "flags"
    /\ todo' = mask \ Listed
    /\ pc' = "masked"
    /\ UNCHANGED <<world, progress, cached, worktree, changes>>

\* git ls-files -v runs with check=False: if it fails, no entry is masked.
FlagsUnread ==
    /\ pc = "flags"
    /\ todo' = {}
    /\ pc' = "masked"
    /\ torn' = torn \cup (mask \ Listed)
    /\ UNCHANGED <<repoVars, progress, cached, worktree, changes>>

HashMasked(p) ==
    /\ pc = "masked" /\ p \in todo
    /\ changes' = IF FileHash(work[p]) \in {Absent, base[p]} THEN changes
                  ELSE [changes EXCEPT ![p] = [status |-> "M", after |-> work[p]]]
    /\ todo' = todo \ {p}
    /\ UNCHANGED <<world, progress, pc, cached, worktree>>

Record ==
    /\ pc = "masked" /\ todo = {} /\ round = 1
    /\ recorded' = changes
    /\ pc' = "staged"
    /\ UNCHANGED <<world, observation, mode, round, sourceHead, staged,
                   conflicts, room, ran, seen, made, heads, drifted, verdict>>

-----------------------------------------------------------------------------
\* verification_conflicts, before the checks and after them.

\* Where capture_evidence goes with these conflicts.
AfterConflicts(found) ==
    IF round = 2 THEN "cached"
    ELSE IF ~Executes THEN "refs again"
    ELSE IF found # {} THEN "skip"
    ELSE IF mode = "clean" THEN "room" ELSE "checks"

Conflicting(found) ==
    /\ conflicts' = conflicts \cup found
    /\ UNCHANGED <<world, observation, mode, round, sourceHead, recorded,
                   room, seen, made, heads, drifted, verdict>>

StartsChecks(to) == ran' = (ran \/ to = "checks")

\* Mutant: one unstaged path ends the comparison.
ReadStaged_Any ==
    /\ pc = "staged"
    /\ staged' = [p \in Path |-> CachedStatus(p)]
    /\ pc' = IF \E p \in Path : staged'[p] = "-" THEN AfterConflicts(conflicts)
             ELSE "unstaged"
    /\ StartsChecks(pc')
    /\ Conflicting({})
ReadStaged ==
    /\ pc = "staged"
    /\ staged' = [p \in Path |-> CachedStatus(p)]
    /\ pc' = IF \A p \in Path : staged'[p] = "-" THEN AfterConflicts(conflicts)
             ELSE "unstaged"
    /\ StartsChecks(pc')
    /\ Conflicting({})

ReadUnstaged ==
    /\ pc = "unstaged"
    /\ pc' = "replaced"
    /\ UNCHANGED <<staged, ran>>
    /\ Conflicting({p \in Unstaged : staged[p] # "-"})

\* os.path.lexists of the staged deletions
ReadReplacements ==
    /\ pc = "replaced"
    /\ pc' = "masks"
    /\ UNCHANGED <<staged, ran>>
    /\ Conflicting({p \in Path : staged[p] = "D" /\ work[p] # Absent})

ReadMasks ==
    /\ pc = "masks"
    /\ Conflicting({p \in mask : staged[p] # "-"})
    /\ pc' = AfterConflicts(conflicts')
    /\ StartsChecks(pc')
    /\ UNCHANGED staged

\* Conflicts were found: nothing is executed, but both re-observations are.
SkipChecks ==
    /\ pc = "skip"
    /\ round' = 2 /\ pc' = "staged"
    /\ UNCHANGED <<world, observation, mode, sourceHead, recorded, staged,
                   conflicts, room, ran, seen, made, heads, drifted, verdict>>

-----------------------------------------------------------------------------
\* clean_room

RoomOnly == UNCHANGED <<world, cached, worktree, changes, mode, round,
                        sourceHead, recorded, staged, conflicts, seen, made, heads,
                        drifted, verdict>>

\* The finally of clean_room removes the worktree whatever happened in it.
\* Mutant: an exception leaves the worktree behind.
Raise_KeepsRoom == pc' = "raised" /\ UNCHANGED <<room, todo, ran>>
Raise == pc' = "raised" /\ room' = NoRoom /\ UNCHANGED <<todo, ran>>

RequireUnmasked ==
    /\ pc = "room"
    /\ IF mask # {} THEN Raise
       ELSE pc' = "patch" /\ room' = base /\ UNCHANGED <<todo, ran>>
    /\ RoomOnly

\* git diff <base>, applied to the worktree of base
ApplyPatch ==
    /\ pc = "patch"
    /\ room' = [p \in Path |-> WorktreeView(p)]
    /\ pc' = "list"
    /\ UNCHANGED <<todo, ran>>
    /\ RoomOnly

ListUntracked ==
    /\ pc = "list"
    /\ todo' = Untracked
    /\ pc' = "copy"
    /\ UNCHANGED <<room, ran>>
    /\ RoomOnly

CopyUntracked(p) ==
    /\ pc = "copy" /\ p \in todo
    /\ IF work[p] \notin Content \/ room[p] \in Irregular THEN Raise
       ELSE /\ room' = [room EXCEPT ![p] = work[p]]
            /\ todo' = todo \ {p}
            /\ UNCHANGED <<pc, ran>>
    /\ RoomOnly

RequireStillUnmasked ==
    /\ pc = "copy" /\ todo = {}
    /\ IF mask # {} THEN Raise
       ELSE pc' = "checks" /\ ran' = TRUE /\ UNCHANGED <<room, todo>>
    /\ RoomOnly

-----------------------------------------------------------------------------
\* run_checks: the checks read the tree they are run in.

CheckReads(p) ==
    /\ pc = "checks"
    /\ seen' = [seen EXCEPT ![p] = @ \cup
                    {IF mode = "clean" THEN room[p] ELSE work[p]}]
    /\ heads' = heads \cup {head}
    /\ UNCHANGED <<world, observation, pc, mode, round, sourceHead, recorded,
                   staged, conflicts, room, ran, made, drifted, verdict>>

\* All checks of a clean capture share one worktree that they may write to.
CheckWrites(p, o) ==
    /\ pc = "checks" /\ mode = "clean"
    /\ edits < MaxEdits /\ edits' = edits + 1
    /\ room' = [room EXCEPT ![p] = o]
    /\ made' = [made EXCEPT ![p] = @ \cup {o}]
    /\ UNCHANGED <<treeVars, headVars, torn, observation, pc, mode, round, sourceHead,
                   recorded, staged, conflicts, ran, seen, heads, drifted, verdict>>

ChecksEnd ==
    /\ pc = "checks"
    /\ room' = NoRoom
    /\ round' = 2 /\ pc' = "staged"
    /\ UNCHANGED <<world, observation, mode, sourceHead, recorded, staged,
                   conflicts, ran, seen, made, heads, drifted, verdict>>

-----------------------------------------------------------------------------
\* The second observation and the verdict.

\* _tracked_paths and _drifted_paths
CompareChanges ==
    /\ pc = "masked" /\ todo = {} /\ round = 2
    /\ drifted' = Drift(Tracked)
    /\ pc' = "refs again"
    /\ UNCHANGED <<world, observation, mode, round, sourceHead, recorded,
                   staged, conflicts, room, ran, seen, made, heads, verdict>>

\* Mutant: HEAD is not read again.
Errors_AnyHead == conflicts # {} \/ drifted # {}
Errors == conflicts # {} \/ drifted # {} \/ head # sourceHead

\* A policy rule, a failed check or a secret can fail any capture.
Decide ==
    /\ pc = "refs again"
    /\ verdict' \in IF Errors THEN {"FAIL"} ELSE {"PASS", "FAIL"}
    /\ pc' = "done"
    /\ UNCHANGED <<world, observation, mode, round, sourceHead, recorded,
                   staged, conflicts, room, ran, seen, made, heads, drifted>>

\* A Git command fails: GitError or CleanRoomError leaves capture_evidence.
GitFails ==
    /\ ~Finished /\ pc \notin {"checks", "skip"}
    /\ Raise
    /\ RoomOnly

\* An observation is not atomic, and the evidence claims nothing of a path that
\* others change while it is being read: in collect_changes and the comparison
\* next to it, or, for being in the index, while the clean room is made.
Materializing == pc \in {"room", "patch", "list", "copy"}
Observing == round = 2 \/ ~(Materializing \/ pc \in {"refs", "cached", "checks"})
Touched(p) == \/ index'[p] # index[p] \/ work'[p] # work[p]
              \/ (p \in mask') # (p \in mask)
Retracked(p) == (index'[p] = Absent) # (index[p] = Absent)

Others ==
    /\ ~Finished
    /\ Edit
    /\ torn' = torn \cup {p \in Path : \/ Observing /\ Touched(p)
                                       \/ Materializing /\ Retracked(p)}
    /\ UNCHANGED captureVars

Delivered == Finished /\ UNCHANGED vars

Collect ==
    \/ ReadRefs \/ ReadCached \/ ReadWorktree \/ ReadUntracked \/ ReadBlobs
    \/ ReadFlags \/ FlagsUnread \/ Record
    \/ \E p \in Path : HashFile(p) \/ HashMasked(p)
Conflicts ==
    ReadStaged \/ ReadUnstaged \/ ReadReplacements \/ ReadMasks \/ SkipChecks
Materialize ==
    \/ RequireUnmasked \/ ApplyPatch \/ ListUntracked \/ RequireStillUnmasked
    \/ \E p \in Path : CopyUntracked(p)
Checks ==
    \/ ChecksEnd
    \/ \E p \in Path : CheckReads(p) \/ \E o \in Object : CheckWrites(p, o)
Conclude == CompareChanges \/ Decide \/ GitFails

Next ==
    \/ Collect \/ Conflicts \/ Materialize \/ Checks \/ Conclude
    \/ Others \/ Delivered

Spec == Init /\ [][Next]_vars

-----------------------------------------------------------------------------
(***************************************************************************)
(* Properties.                                                             *)
(***************************************************************************)

\* Types, and where the disposable worktree exists: from git worktree add to
\* the finally of clean_room, whichever way that is reached.
TypeOK ==
    /\ RepositoryTypeOK
    /\ mode \in Mode /\ round \in 1..2 /\ sourceHead \in 0..MaxEdits
    /\ cached \in [Path -> Letter] /\ worktree \in [Path -> Letter]
    /\ staged \in [Path -> Letter]
    /\ changes \in [Path -> [status : Letter, after : Object]]
    /\ recorded \in [Path -> [status : Letter, after : Object]]
    /\ conflicts \subseteq Path /\ todo \subseteq Path /\ drifted \subseteq Path
    /\ torn \subseteq Path
    /\ ran \in BOOLEAN /\ verdict \in {"none", "PASS", "FAIL"}
    /\ seen \in [Path -> SUBSET Object] /\ made \in [Path -> SUBSET Object]
    /\ heads \subseteq 0..MaxEdits
    /\ room = NoRoom \/ room \in [Path -> Object]
    /\ (room # NoRoom) <=> /\ mode = "clean"
                           /\ pc \in {"patch", "list", "copy", "checks"}

Certified == verdict = "PASS" /\ ran

\* What the evidence says the candidate has at p.
Claim(p) == IF recorded[p].status = "-" THEN base[p]
            ELSE IF recorded[p].status = "D" THEN Absent ELSE recorded[p].after

\* Paths whose object the evidence does not identify: an unhashed object; a
\* masked entry whose file has been no regular file; a new untracked file.
Unidentified(p) ==
    \/ recorded[p].status \in {"A", "M"} /\ recorded[p].after = Absent
    \/ "masked" \in past[p].mask /\ ~(past[p].work \subseteq Content)
    \/ recorded[p].status = "-" /\ base[p] = Absent /\ index[p] = Absent

\* Checks that back a PASS read, at every path, what the evidence records
\* there, whatever was written while they ran or the clean room was made;
\* except what a check put there itself in the disposable worktree ("writes
\* confined to the disposable verifier retain their existing behavior",
\* docs/check-execution.md:45-46), and where an earlier state came back or an
\* observation was torn ("not an atomic snapshot", lines 46-48).
TestedIsRecorded ==
    Certified => \A p \in Path : \/ p \in restored \cup torn \/ Unidentified(p)
                                \/ seen[p] \subseteq {Claim(p)} \cup made[p]

\* A PASS, with or without checks, never covers a staged object that is not
\* the one the working tree shows, and records exactly that object.
StagedIsRecorded ==
    verdict = "PASS" =>
        \A p \in Path : past[p].index = {index[p]} /\ past[p].work = {work[p]}
                        /\ past[p].mask = {Flag(p)} /\ index[p] # base[p]
            => index[p] = work[p] /\ Claim(p) = index[p]

\* Every check ran at the HEAD and branch the evidence names, unless HEAD went
\* back to where it had been ("transient changes restored before observation",
\* docs/check-execution.md:46-47).
HeadStable == verdict = "PASS" => heads \subseteq {sourceHead} \/ headBack

\* PW032 is no false alarm: a drifted path was touched during the capture, and
\* it was recorded, in the base or at some time in the index.  In particular a
\* check may leave new untracked files behind.
DriftIsReal ==
    \A p \in drifted :
        /\ \/ past[p].index # {index[p]}
           \/ past[p].work # {work[p]}
           \/ past[p].mask # {Flag(p)}
           \/ p \in torn
        /\ recorded[p].status # "-" \/ {base[p]} \cup past[p].index # {Absent}

\* cleanroom docs: a passing check is useful only when the disposable worktree
\* contains the candidate.  A recorded file nobody wrote is what checks read.
RoomHoldsCandidate ==
    Certified => \A p \in Path :
        recorded[p].status # "-" /\ past[p].work = {Claim(p)}
            => seen[p] \subseteq {Claim(p)} \cup made[p]

\* git.py on masked entries: surface edits to them instead of letting the gate
\* pass over them silently.  A masked path that is not as in the base is listed.
MaskedEditsSurface ==
    verdict = "PASS" => \A p \in Path :
        past[p].mask = {"masked"} /\ past[p].work = {work[p]} /\ work[p] # Absent
            /\ past[p].index = {base[p]} /\ p \notin torn
            => work[p] = base[p] \/ recorded[p].status # "-"
=============================================================================
