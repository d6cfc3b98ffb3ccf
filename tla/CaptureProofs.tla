---------------------------- MODULE CaptureProofs ----------------------------
(***************************************************************************)
(* What holds of Capture for any number of paths, objects and writes.      *)
(***************************************************************************)
EXTENDS Capture, TLAPS

\* What an observation of p that nobody disturbs comes to.

\* The status the merged diffs give p, and the one after the untracked files.
Diffed(p) == IF WorktreeStatus(p) # "-" THEN WorktreeStatus(p) ELSE CachedStatus(p)
New(p) == p \in Untracked /\ Diffed(p) = "-"
StatusNow(p) == IF New(p) THEN "A" ELSE Diffed(p)

\* The hash of its file, if that is asked for, and the staged blob over it.
Hashable(p) == New(p) \/ WorktreeStatus(p) \notin {"-", "D"}
HashNow(p) == IF Hashable(p) THEN FileHash(work[p]) ELSE Absent
Collected(p) ==
    [status |-> StatusNow(p),
     after |-> IF CachedStatus(p) \notin {"-", "D"} THEN index[p] ELSE HashNow(p)]

\* The edit of a masked entry, if there is one.
Surfaced(p) == /\ p \in mask /\ StatusNow(p) = "-"
               /\ FileHash(work[p]) \notin {Absent, base[p]}
Observed(p) == IF Surfaced(p) THEN [status |-> "M", after |-> work[p]]
               ELSE Collected(p)

\* A staged path is in the working tree as it is staged.
Agreed(p) == index[p] # base[p] => index[p] = work[p] /\ p \notin mask

\* Nobody has written to p.
Still(p) == past[p] = [index |-> {index[p]}, work |-> {work[p]}, mask |-> {Flag(p)}]

-----------------------------------------------------------------------------
\* Where the capture is.

Collecting == {"worktree", "untracked", "hash", "flags", "masked"}
Comparing == {"staged", "unstaged", "replaced", "masks"}
InRoom == {"room", "patch", "list", "copy"}
Deciding == {"refs again", "done"}

Steps == {"refs", "cached", "checks", "skip", "raised"} \cup Collecting
         \cup Comparing \cup InRoom \cup Deciding

Placed ==
    /\ pc \in Steps
    /\ pc \in InRoom \cup {"refs", "checks", "skip"} => round = 1
    /\ pc \in InRoom => mode = "clean"
    /\ pc \in InRoom \cup {"checks"} => conflicts = {}
Running ==
    /\ ran => pc \in {"checks", "raised"} \/ round = 2
    /\ pc = "checks" => ran
    /\ ~ran => \A p \in Path : seen[p] = {}
Judging ==
    /\ round = 1 => drifted = {}
    /\ verdict # "none" => pc = "done"
    /\ verdict = "PASS" => conflicts = {} /\ drifted = {}
Flow == Placed /\ Running /\ Judging

\* The record is made.
Recorded == round = 2 \/ pc \in Comparing \cup InRoom \cup Deciding \cup {"skip", "checks"}

\* The conflicts of the present observation are known.
Compared == pc \in Deciding \/ (round = 2 /\ pc \in Collecting \cup {"cached"})

-----------------------------------------------------------------------------
\* The inductive invariant, path by path.

Remembers(p) == /\ index[p] \in past[p].index /\ work[p] \in past[p].work
                /\ Flag(p) \in past[p].mask

\* So far the observation of an untorn path is that of its present state.
Reading(p) ==
    /\ pc \in Collecting => cached[p] = CachedStatus(p)
    /\ pc \in Collecting \ {"worktree"} => worktree[p] = WorktreeStatus(p)
    /\ pc = "hash" =>
         /\ p \in todo => Hashable(p)
         /\ changes[p] = [status |-> StatusNow(p),
                          after |-> IF p \in todo THEN Absent ELSE HashNow(p)]
    /\ pc = "flags" => changes[p] = Collected(p)
    /\ pc = "masked" =>
         /\ p \in todo => p \in mask /\ StatusNow(p) = "-"
         /\ changes[p] = IF p \in todo THEN Collected(p) ELSE Observed(p)

\* The record of an untorn path is that of its present state, until the checks
\* or, if nobody writes to it, for good.
Keeping(p) ==
    Recorded /\ (Still(p) \/ (round = 1 /\ pc \in Comparing)) => recorded[p] = Observed(p)

\* So far the comparison has found the conflict of an untorn path, if it has one.
Finding(p) ==
    /\ pc \in Comparing \ {"staged"} => staged[p] = CachedStatus(p)
    /\ pc \in {"replaced", "masks"} /\ index[p] # base[p] /\ p \notin conflicts =>
         WorktreeView(p) = index[p]
    /\ pc = "masks" /\ index[p] = Absent /\ base[p] # Absent /\ p \notin conflicts =>
         work[p] = Absent
    /\ Compared /\ p \notin conflicts => Agreed(p)

\* Never written and torn: a masked entry that could not be listed.
Tearing(p) == p \in torn /\ Still(p) => index[p] = base[p]

\* A path neither the base nor the index ever had is at most a new file.
Foreign(p) ==
    {base[p]} \cup past[p].index = {Absent} =>
        /\ cached[p] = "-" /\ worktree[p] = "-" /\ changes[p].status \in {"-", "A"}
        /\ pc = "masked" => p \notin todo

\* Two conditions under which the evidence does not identify the object of p,
\* neither of which ever ceases to hold.
Identified(p) ==
    /\ recorded[p].status \in {"A", "M"} => recorded[p].after # Absent
    /\ "masked" \in past[p].mask => past[p].work \subseteq Content

Tested == ran \/ pc \in InRoom

\* The worktree has the claimed object, or it still has to be copied, or a mask
\* that was set meanwhile is about to be noticed; then it has what checks make.
Provided(p) ==
    /\ pc \in InRoom \ {"room"} => "plain" \in past[p].mask
    /\ pc = "list" /\ p \notin mask => room[p] = Claim(p) \/ p \in Untracked
    /\ pc = "copy" /\ p \notin mask => room[p] = Claim(p) \/ p \in todo
    /\ pc = "checks" /\ mode = "clean" => room[p] \in {Claim(p)} \cup made[p]

\* As long as the file has the claimed object, checks have read nothing else but
\* what they made;
\* once it has another one, it never gets the claimed one back.
Testing(p) ==
    Tested /\ Identified(p) =>
        /\ Claim(p) \in past[p].work
        /\ work[p] = Claim(p) => seen[p] \subseteq {Claim(p)} \cup made[p] /\ Provided(p)

\* Without conflict and drift the file has the claimed object in the end.
Settled(p) ==
    ran /\ pc \in Deciding /\ p \notin conflicts \cup drifted /\ ~Unidentified(p) =>
        work[p] = Claim(p)

PathInv(p) ==
    /\ Remembers(p) /\ Tearing(p) /\ Foreign(p)
    /\ p \notin torn => Reading(p) /\ Keeping(p) /\ Finding(p) /\ Settled(p)
    /\ p \notin torn \cup restored => Testing(p)
\* A tree of objects is not the empty tree that stands for no worktree.
LEMMA RoomIsThere == ASSUME NEW f \in [Path -> Object] PROVE f # NoRoom
BY ObjectAssumption, SMT DEF NoRoom

\* A status is a letter.
LEMMA StatusIsLetter == ASSUME NEW o, NEW n PROVE Status(o, n) \in Letter
BY DEF Status, Letter

\* The initial values have their types.
LEMMA TypeInit == Init => TypeOK
<1> SUFFICES ASSUME Init PROVE TypeOK
  OBVIOUS
<1>1. RepositoryTypeOK
  <2>1. /\ head \in 0..MaxEdits /\ edits \in 0..MaxEdits
        /\ pastHead \subseteq 0..MaxEdits /\ headBack \in BOOLEAN
    <3>1. head = 0 /\ edits = 0 /\ pastHead = {0} /\ headBack = FALSE
      BY DEF Init, RepositoryInit
    <3>2. 0 \in 0..MaxEdits
      BY ObjectAssumption
    <3> QED
      BY <3>1, <3>2
  <2>2. /\ base \in [Path -> Object] /\ index \in [Path -> Object]
        /\ work \in [Path -> Object]
        /\ mask \subseteq {p \in Path : index[p] # Absent}
        /\ restored \subseteq Path
    BY DEF Init, RepositoryInit
  <2>3. past \in [Path -> [index : SUBSET Object, work : SUBSET Object,
                          mask : SUBSET {"masked", "plain"}]]
    BY <2>2 DEF Init, RepositoryInit, Flag
  <2> QED
    BY <2>1, <2>2, <2>3 DEF RepositoryTypeOK
<1>2. Nothing \in [Path -> [status : Letter, after : Object]]
  BY DEF Nothing, Letter, Object
<1>3. mode \in Mode /\ round \in 1..2 /\ sourceHead \in 0..MaxEdits
  BY ObjectAssumption, SMT DEF Init
<1> QED
  BY <1>1, <1>2, <1>3 DEF Init, TypeOK, Letter, NoRoom

\* A file, an entry or a flag of one path is written: what is remembered of it.
LEMMA RememberType ==
    ASSUME RepositoryTypeOK, NEW p \in Path, NEW i \in Object, NEW w \in Object,
           NEW m \in {"masked", "plain"}, Remember(p, i, w, m)
    PROVE  /\ past' \in [Path -> [index : SUBSET Object, work : SUBSET Object,
                                  mask : SUBSET {"masked", "plain"}]]
           /\ restored' \subseteq Path
<1>1. past[p] \in [index : SUBSET Object, work : SUBSET Object,
                   mask : SUBSET {"masked", "plain"}]
  BY DEF RepositoryTypeOK
<1>2. [index |-> past[p].index \cup {i}, work |-> past[p].work \cup {w},
       mask |-> past[p].mask \cup {m}]
        \in [index : SUBSET Object, work : SUBSET Object, mask : SUBSET {"masked", "plain"}]
  BY <1>1
<1> QED
  BY <1>2 DEF Remember, RepositoryTypeOK

\* The values HEAD has had are numbers of writes.
Counted == head \in pastHead /\ pastHead \subseteq 0..edits

\* Writes by others keep the repository's types.
LEMMA EditType ==
    ASSUME RepositoryTypeOK, Counted, Edit
    PROVE  RepositoryTypeOK' /\ Counted'
<1>0. edits' \in 0..MaxEdits /\ edits' = edits + 1 /\ edits \in Nat
  BY ObjectAssumption, SMT DEF Edit, RepositoryTypeOK
<1>1. /\ edits' \in 0..MaxEdits /\ head' \in 0..MaxEdits
      /\ pastHead' \subseteq 0..MaxEdits /\ headBack' \in BOOLEAN /\ Counted'
  <2>1. CASE UNCHANGED headVars
    BY <1>0, <2>1 DEF headVars, Counted, RepositoryTypeOK
  <2>2. CASE MoveHead
    <3>1. head' \in 0..edits' /\ pastHead' = pastHead \cup {head'}
      BY <1>0, <2>2 DEF MoveHead, Counted
    <3>2. pastHead' \subseteq 0..edits' BY <1>0, <3>1 DEF Counted
    <3>3. 0..edits' \subseteq 0..MaxEdits BY <1>0, ObjectAssumption
    <3>4. headBack' \in BOOLEAN BY <2>2 DEF MoveHead
    <3> QED BY <1>0, <3>1, <3>2, <3>3, <3>4 DEF Counted
  <2> QED
    BY <2>1, <2>2 DEF Edit, WriteFile, WriteIndex, FlipMask
<1>2. ASSUME NEW p \in Path, NEW o \in Object, WriteFile(p, o) PROVE RepositoryTypeOK'
  <2>1. index[p] \in Object /\ Flag(p) \in {"masked", "plain"}
    BY DEF RepositoryTypeOK, Flag
  <2>2. Remember(p, index[p], o, Flag(p))
    BY <1>2 DEF WriteFile
  <2>3. past' \in [Path -> [index : SUBSET Object, work : SUBSET Object,
                            mask : SUBSET {"masked", "plain"}]]
        /\ restored' \subseteq Path
    BY <2>1, <2>2, RememberType
  <2>4. work' \in [Path -> Object]
    BY <1>2 DEF WriteFile, RepositoryTypeOK
  <2> QED
    BY <1>1, <1>2, <2>3, <2>4 DEF WriteFile, RepositoryTypeOK
<1>3. ASSUME NEW p \in Path, NEW o \in Object, WriteIndex(p, o) PROVE RepositoryTypeOK'
  <2>1. work[p] \in Object /\ Flag(p)' \in {"masked", "plain"}
    BY DEF RepositoryTypeOK, Flag
  <2>2. Remember(p, o, work[p], Flag(p)')
    BY <1>3 DEF WriteIndex
  <2>3. past' \in [Path -> [index : SUBSET Object, work : SUBSET Object,
                            mask : SUBSET {"masked", "plain"}]]
        /\ restored' \subseteq Path
    BY <2>1, <2>2, RememberType
  <2>4. index' \in [Path -> Object] /\ mask' \subseteq {q \in Path : index'[q] # Absent}
    BY <1>3 DEF WriteIndex, RepositoryTypeOK
  <2> QED
    BY <1>1, <1>3, <2>3, <2>4 DEF WriteIndex, RepositoryTypeOK
<1>4. ASSUME NEW p \in Path, FlipMask(p) PROVE RepositoryTypeOK'
  <2>1. index[p] \in Object /\ work[p] \in Object /\ Flag(p)' \in {"masked", "plain"}
    BY DEF RepositoryTypeOK, Flag
  <2>2. Remember(p, index[p], work[p], Flag(p)')
    BY <1>4 DEF FlipMask
  <2>3. past' \in [Path -> [index : SUBSET Object, work : SUBSET Object,
                            mask : SUBSET {"masked", "plain"}]]
        /\ restored' \subseteq Path
    BY <2>1, <2>2, RememberType
  <2>4. mask' \subseteq {q \in Path : index'[q] # Absent}
    BY <1>4 DEF FlipMask, RepositoryTypeOK
  <2> QED
    BY <1>1, <1>4, <2>3, <2>4 DEF FlipMask, RepositoryTypeOK
<1>5. CASE MoveHead
  BY <1>1, <1>5 DEF MoveHead, RepositoryTypeOK, treeVars
<1> QED
  BY <1>1, <1>2, <1>3, <1>4, <1>5 DEF Edit

RecordType == [Path -> [status : Letter, after : Object]]

\* The conjuncts of TypeOK that are not about the repository.
CaptureTypeOK ==
    /\ mode \in Mode /\ round \in 1..2 /\ sourceHead \in 0..MaxEdits
    /\ cached \in [Path -> Letter] /\ worktree \in [Path -> Letter]
    /\ staged \in [Path -> Letter]
    /\ changes \in RecordType /\ recorded \in RecordType
    /\ conflicts \subseteq Path /\ todo \subseteq Path /\ drifted \subseteq Path
    /\ torn \subseteq Path
    /\ ran \in BOOLEAN /\ verdict \in {"none", "PASS", "FAIL"}
    /\ seen \in [Path -> SUBSET Object] /\ made \in [Path -> SUBSET Object]
    /\ heads \subseteq 0..MaxEdits
RoomType ==
    /\ room = NoRoom \/ room \in [Path -> Object]
    /\ (room # NoRoom) <=> /\ mode = "clean"
                           /\ pc \in {"patch", "list", "copy", "checks"}

Sound == RepositoryTypeOK /\ Counted /\ CaptureTypeOK /\ RoomType /\ Flow

\* A hash is an object, or missing.
LEMMA FileHashType == ASSUME NEW o PROVE FileHash(o) \in Object
BY DEF FileHash, Object

\* Both diffs report letters.
LEMMA StatusTypes ==
    ASSUME NEW p PROVE CachedStatus(p) \in Letter /\ WorktreeStatus(p) \in Letter
BY StatusIsLetter DEF CachedStatus, WorktreeStatus

\* Others keep the types and never touch the capture's own state.
LEMMA SoundOthers == ASSUME Sound, Others PROVE Sound'
<1>1. RepositoryTypeOK' /\ Counted'
  BY EditType DEF Sound, Others
<1>2. CaptureTypeOK'
  BY DEF Sound, CaptureTypeOK, Others, captureVars, observation, progress
<1>3. RoomType' /\ Flow'
  BY DEF Sound, RoomType, Flow, Placed, Running, Judging, Others, captureVars,
     observation, progress
<1> QED
  BY <1>1, <1>2, <1>3 DEF Sound

\* The repository's types, when nobody writes.
LEMMA RepositoryFrame ==
    ASSUME Sound, UNCHANGED repoVars PROVE RepositoryTypeOK' /\ Counted'
BY DEF Sound, RepositoryTypeOK, Counted, repoVars, treeVars, headVars

\* collect_changes keeps the types and the flow of control.
LEMMA SoundCollect == ASSUME Sound, Collect PROVE Sound'
<1> USE DEF Collecting, Comparing, InRoom, Deciding, Steps
<1>0. RepositoryTypeOK' /\ Counted'
  BY RepositoryFrame DEF Collect, ReadRefs, ReadCached, ReadWorktree,
     ReadUntracked,
     ReadBlobs, ReadFlags, FlagsUnread, Record, HashFile, HashMasked, world
<1>1. CASE ReadRefs
  <2>1. CaptureTypeOK'
    BY <1>1 DEF ReadRefs, Sound, CaptureTypeOK, world, observation,
       RepositoryTypeOK
  <2>2. RoomType' /\ Flow'
    BY <1>1 DEF ReadRefs, Sound, RoomType, Flow, Placed, Running, Judging, world,
       observation
  <2> QED
    BY <1>0, <2>1, <2>2 DEF Sound
<1>2. CASE ReadCached
  <2>1. CaptureTypeOK'
    BY <1>2, StatusTypes DEF ReadCached, Sound, CaptureTypeOK, world, progress
  <2>2. RoomType' /\ Flow'
    BY <1>2 DEF ReadCached, Sound, RoomType, Flow, Placed, Running, Judging,
       world, progress
  <2> QED
    BY <1>0, <2>1, <2>2 DEF Sound
<1>3. CASE ReadWorktree
  <2>1. CaptureTypeOK'
    BY <1>3, StatusTypes DEF ReadWorktree, Sound, CaptureTypeOK, world, progress
  <2>2. RoomType' /\ Flow'
    BY <1>3 DEF ReadWorktree, Sound, RoomType, Flow, Placed, Running, Judging,
       world, progress
  <2> QED
    BY <1>0, <2>1, <2>2 DEF Sound
<1>4. CASE ReadUntracked
  <2>0. changes' \in RecordType
    BY <1>4 DEF ReadUntracked, Sound, CaptureTypeOK, RecordType, Letter, Object,
       Merged
  <2>1. CaptureTypeOK'
    BY <1>4, <2>0 DEF ReadUntracked, Sound, CaptureTypeOK, world, progress,
       Untracked
  <2>2. RoomType' /\ Flow'
    BY <1>4 DEF ReadUntracked, Sound, RoomType, Flow, Placed, Running, Judging,
       world, progress
  <2> QED
    BY <1>0, <2>1, <2>2 DEF Sound
<1>5. ASSUME NEW p \in Path, HashFile(p) PROVE Sound'
  <2>0. changes' \in RecordType
    BY <1>5, FileHashType DEF HashFile, Sound, CaptureTypeOK, RecordType
  <2>1. CaptureTypeOK'
    BY <1>5, <2>0 DEF HashFile, Sound, CaptureTypeOK, world, progress
  <2>2. RoomType' /\ Flow'
    BY <1>5, SMTT(60) DEF HashFile, Sound, RoomType, Flow, Placed, Running,
       Judging, world,
       progress
  <2> QED
    BY <1>0, <2>1, <2>2 DEF Sound
<1>6. CASE ReadBlobs
  <2>0. changes' \in RecordType
    <3>1. changes \in RecordType /\ index \in [Path -> Object]
      BY DEF Sound, CaptureTypeOK, RepositoryTypeOK
    <3>2. changes' = [p \in Path |-> IF p \in Indexed
                          THEN [changes[p] EXCEPT !.after = index[p]] ELSE changes[p]]
      BY <1>6 DEF ReadBlobs
    <3> QED
      BY <3>1, <3>2 DEF RecordType
  <2>1. CaptureTypeOK'
    BY <1>6, <2>0 DEF ReadBlobs, Sound, CaptureTypeOK, world, progress
  <2>2. RoomType' /\ Flow'
    BY <1>6 DEF ReadBlobs, Sound, RoomType, Flow, Placed, Running, Judging, world,
       progress
  <2> QED
    BY <1>0, <2>1, <2>2 DEF Sound
<1>7. CASE ReadFlags
  <2>1. CaptureTypeOK'
    BY <1>7 DEF ReadFlags, Sound, CaptureTypeOK, world, progress, RepositoryTypeOK
  <2>2. RoomType' /\ Flow'
    BY <1>7 DEF ReadFlags, Sound, RoomType, Flow, Placed, Running, Judging, world,
       progress
  <2> QED
    BY <1>0, <2>1, <2>2 DEF Sound
<1>8. CASE FlagsUnread
  <2>1. CaptureTypeOK'
    BY <1>8 DEF FlagsUnread, Sound, CaptureTypeOK, progress, RepositoryTypeOK
  <2>2. RoomType' /\ Flow'
    BY <1>8 DEF FlagsUnread, Sound, RoomType, Flow, Placed, Running, Judging,
       progress
  <2> QED
    BY <1>0, <2>1, <2>2 DEF Sound
<1>9. ASSUME NEW p \in Path, HashMasked(p) PROVE Sound'
  <2>0. changes' \in RecordType
    BY <1>9 DEF HashMasked, Sound, CaptureTypeOK, RecordType, RepositoryTypeOK,
       Letter
  <2>1. CaptureTypeOK'
    BY <1>9, <2>0 DEF HashMasked, Sound, CaptureTypeOK, world, progress
  <2>2. RoomType' /\ Flow'
    BY <1>9 DEF HashMasked, Sound, RoomType, Flow, Placed, Running, Judging,
       world, progress
  <2> QED
    BY <1>0, <2>1, <2>2 DEF Sound
<1>10. CASE Record
  <2>1. CaptureTypeOK'
    BY <1>10 DEF Record, Sound, CaptureTypeOK, world, observation
  <2>2. RoomType' /\ Flow'
    BY <1>10 DEF Record, Sound, RoomType, Flow, Placed, Running, Judging, world,
       observation
  <2> QED
    BY <1>0, <2>1, <2>2 DEF Sound
<1> QED
  BY <1>1, <1>2, <1>3, <1>4, <1>5, <1>6, <1>7, <1>8, <1>9, <1>10 DEF Collect

\* verification_conflicts leads on to one of these.
LEMMA AfterConflictsLeads ==
    ASSUME Sound, NEW found
    PROVE  /\ round = 2 => AfterConflicts(found) = "cached"
           /\ round = 1 => AfterConflicts(found) \in {"refs again", "skip", "room", "checks"}
           /\ AfterConflicts(found) \in {"room", "checks"} =>
                found = {} /\ mode # "none" /\ round = 1
           /\ AfterConflicts(found) = "checks" => mode # "clean"
           /\ AfterConflicts(found) = "room" <=> mode = "clean" /\ round = 1 /\ found = {}
           /\ AfterConflicts(found) = "skip" => found # {}
BY DEF AfterConflicts, Executes, Sound, CaptureTypeOK

\* verification_conflicts does.
LEMMA SoundConflicts == ASSUME Sound, Conflicts PROVE Sound'
<1> USE DEF Collecting, Comparing, InRoom, Deciding, Steps
<1>0. RepositoryTypeOK' /\ Counted'
  BY RepositoryFrame DEF Conflicts, ReadStaged, ReadUnstaged, ReadReplacements,
     ReadMasks,
     SkipChecks, Conflicting, world
<1>1. CASE ReadStaged
  <2>1. CaptureTypeOK'
    BY <1>1, StatusTypes DEF ReadStaged, StartsChecks, Conflicting, Sound,
       CaptureTypeOK, world, observation
  <2>2. pc' = "unstaged" \/ pc' = AfterConflicts(conflicts)
    BY <1>1 DEF ReadStaged
  <2>3. RoomType' /\ Flow'
    <3>1. CASE round = 1
      <4>1. /\ pc' \in {"unstaged", "refs again", "skip", "room", "checks"}
            /\ pc' \in {"room", "checks"} => conflicts' = {}
            /\ pc' = "room" => mode = "clean"
            /\ pc' = "checks" => mode # "clean"
        BY <1>1, <2>2, <3>1, AfterConflictsLeads DEF ReadStaged, Conflicting
      <4>2. RoomType'
        BY <1>1, <4>1 DEF ReadStaged, Conflicting, Sound, RoomType
      <4>3. Placed'
        BY <1>1, <3>1, <4>1 DEF ReadStaged, Conflicting, Placed
      <4>4. Running'
        BY <1>1, <3>1, <4>1 DEF ReadStaged, StartsChecks, Conflicting, Sound,
           Flow, Running
      <4>5. Judging'
        BY <1>1, <3>1, <4>1 DEF ReadStaged, Conflicting, Sound, Flow, Judging
      <4> QED
        BY <4>2, <4>3, <4>4, <4>5 DEF Flow
    <3>2. CASE round = 2
      <4>1. pc' \in {"unstaged", "cached"}
        BY <1>1, <2>2, <3>2, AfterConflictsLeads DEF ReadStaged, Conflicting
      <4>2. RoomType'
        BY <1>1, <4>1 DEF ReadStaged, Conflicting, Sound, RoomType
      <4>3. Placed'
        BY <1>1, <4>1 DEF ReadStaged, Conflicting, Placed
      <4>4. Running'
        BY <1>1, <3>2, <4>1 DEF ReadStaged, StartsChecks, Conflicting, Sound,
           Flow, Running
      <4>5. Judging'
        BY <1>1, <3>2, <4>1 DEF ReadStaged, Conflicting, Sound, Flow, Judging
      <4> QED
        BY <4>2, <4>3, <4>4, <4>5 DEF Flow
    <3> QED
      BY <3>1, <3>2 DEF Sound, CaptureTypeOK
  <2> QED
    BY <1>0, <2>1, <2>3 DEF Sound
<1>2. CASE ReadUnstaged
  <2>1. CaptureTypeOK'
    BY <1>2 DEF ReadUnstaged, Conflicting, Sound, CaptureTypeOK, world,
       observation, Unstaged
  <2>2. RoomType' /\ Flow'
    BY <1>2 DEF ReadUnstaged, Conflicting, Sound, RoomType, Flow, Placed, Running,
       Judging
  <2> QED
    BY <1>0, <2>1, <2>2 DEF Sound
<1>3. CASE ReadReplacements
  <2>1. CaptureTypeOK'
    BY <1>3 DEF ReadReplacements, Conflicting, Sound, CaptureTypeOK, world,
       observation
  <2>2. RoomType' /\ Flow'
    BY <1>3 DEF ReadReplacements, Conflicting, Sound, RoomType, Flow, Placed,
       Running, Judging
  <2> QED
    BY <1>0, <2>1, <2>2 DEF Sound
<1>4. CASE ReadMasks
  <2>1. CaptureTypeOK'
    BY <1>4 DEF ReadMasks, StartsChecks, Conflicting, Sound, CaptureTypeOK, world,
       observation,
                RepositoryTypeOK
  <2>2. pc' = AfterConflicts(conflicts')
    BY <1>4 DEF ReadMasks
  <2>3. RoomType' /\ Flow'
    <3>1. CASE round = 1
      <4>1. /\ pc' \in {"refs again", "skip", "room", "checks"}
            /\ pc' \in {"room", "checks"} => conflicts' = {}
            /\ pc' = "room" => mode = "clean"
            /\ pc' = "checks" => mode # "clean"
        BY <1>4, <2>2, <3>1, AfterConflictsLeads DEF ReadMasks, Conflicting
      <4>2. RoomType'
        BY <1>4, <4>1 DEF ReadMasks, Conflicting, Sound, RoomType
      <4>3. Placed'
        BY <1>4, <3>1, <4>1 DEF ReadMasks, Conflicting, Placed
      <4>4. Running'
        BY <1>4, <3>1, <4>1 DEF ReadMasks, StartsChecks, Conflicting, Sound, Flow,
           Running
      <4>5. Judging'
        BY <1>4, <3>1, <4>1 DEF ReadMasks, Conflicting, Sound, Flow, Judging
      <4> QED
        BY <4>2, <4>3, <4>4, <4>5 DEF Flow
    <3>2. CASE round = 2
      <4>1. pc' \in {"cached"}
        BY <1>4, <2>2, <3>2, AfterConflictsLeads DEF ReadMasks, Conflicting
      <4>2. RoomType'
        BY <1>4, <4>1 DEF ReadMasks, Conflicting, Sound, RoomType
      <4>3. Placed'
        BY <1>4, <4>1 DEF ReadMasks, Conflicting, Placed
      <4>4. Running'
        BY <1>4, <3>2, <4>1 DEF ReadMasks, StartsChecks, Conflicting, Sound, Flow,
           Running
      <4>5. Judging'
        BY <1>4, <3>2, <4>1 DEF ReadMasks, Conflicting, Sound, Flow, Judging
      <4> QED
        BY <4>2, <4>3, <4>4, <4>5 DEF Flow
    <3> QED
      BY <3>1, <3>2 DEF Sound, CaptureTypeOK
  <2> QED
    BY <1>0, <2>1, <2>3 DEF Sound
<1>5. CASE SkipChecks
  <2>1. CaptureTypeOK'
    BY <1>5 DEF SkipChecks, Sound, CaptureTypeOK, world, observation
  <2>2. RoomType' /\ Flow'
    BY <1>5 DEF SkipChecks, Sound, RoomType, Flow, Placed, Running, Judging
  <2> QED
    BY <1>0, <2>1, <2>2 DEF Sound
<1> QED
  BY <1>1, <1>2, <1>3, <1>4, <1>5 DEF Conflicts

\* clean_room does: its worktree exists from git worktree add to its finally.
LEMMA SoundMaterialize == ASSUME Sound, Materialize PROVE Sound'
<1> USE DEF Collecting, Comparing, InRoom, Deciding, Steps, RoomOnly, Raise
<1>0. RepositoryTypeOK' /\ Counted'
  BY RepositoryFrame DEF Materialize, RequireUnmasked, ApplyPatch, ListUntracked,
     CopyUntracked,
     RequireStillUnmasked, world
<1>1. CASE RequireUnmasked
  <2>1. CaptureTypeOK'
    BY <1>1 DEF RequireUnmasked, Sound, CaptureTypeOK, world
  <2>2. RoomType' /\ Flow'
    BY <1>1, RoomIsThere DEF RequireUnmasked, Sound, RoomType, Flow, Placed,
       Running, Judging, RepositoryTypeOK
  <2> QED
    BY <1>0, <2>1, <2>2 DEF Sound
<1>2. CASE ApplyPatch
  <2>1. CaptureTypeOK'
    BY <1>2 DEF ApplyPatch, Sound, CaptureTypeOK, world
  <2>2. room' \in [Path -> Object]
    BY <1>2 DEF ApplyPatch, Sound, WorktreeView, RepositoryTypeOK
  <2>3. RoomType' /\ Flow'
    BY <1>2, <2>2, RoomIsThere DEF ApplyPatch, Sound, RoomType, Flow, Placed,
       Running, Judging
  <2> QED
    BY <1>0, <2>1, <2>3 DEF Sound
<1>3. CASE ListUntracked
  <2>1. CaptureTypeOK'
    BY <1>3 DEF ListUntracked, Sound, CaptureTypeOK, world, Untracked
  <2>2. RoomType' /\ Flow'
    BY <1>3 DEF ListUntracked, Sound, RoomType, Flow, Placed, Running, Judging
  <2> QED
    BY <1>0, <2>1, <2>2 DEF Sound
<1>4. CASE RequireStillUnmasked
  <2>1. CaptureTypeOK'
    BY <1>4 DEF RequireStillUnmasked, Sound, CaptureTypeOK, world
  <2>2. RoomType' /\ Flow'
    BY <1>4 DEF RequireStillUnmasked, Sound, RoomType, Flow, Placed, Running,
       Judging
  <2> QED
    BY <1>0, <2>1, <2>2 DEF Sound
<1>5. ASSUME NEW p \in Path, CopyUntracked(p) PROVE Sound'
  <2>1. CaptureTypeOK'
    BY <1>5 DEF CopyUntracked, Sound, CaptureTypeOK, world
  <2>2. CASE room' = NoRoom /\ pc' = "raised"
    BY <1>0, <1>5, <2>1, <2>2 DEF CopyUntracked, Sound, RoomType, Flow, Placed,
       Running, Judging
  <2>3. CASE work[p] \in Content /\ room' = [room EXCEPT ![p] = work[p]] /\ pc' = pc
    <3>1. room \in [Path -> Object]
      BY <1>5 DEF CopyUntracked, Sound, RoomType, Flow, Placed, Running, Judging
    <3>2. room' \in [Path -> Object]
      BY <2>3, <3>1 DEF Object
    <3>3. RoomType' /\ Flow'
      BY <1>5, <2>3, <3>2, RoomIsThere DEF CopyUntracked, Sound, RoomType, Flow,
         Placed, Running, Judging
    <3> QED
      BY <1>0, <2>1, <3>3 DEF Sound
  <2> QED
    BY <1>5, <2>2, <2>3 DEF CopyUntracked
<1> QED
  BY <1>1, <1>2, <1>3, <1>4, <1>5 DEF Materialize

\* run_checks does.
LEMMA SoundChecks == ASSUME Sound, Checks PROVE Sound'
<1> USE DEF Collecting, Comparing, InRoom, Deciding, Steps
<1>0. ChecksEnd \/ (\E p \in Path : CheckReads(p)) => RepositoryTypeOK' /\ Counted'
  BY RepositoryFrame DEF ChecksEnd, CheckReads, world
<1>1. CASE ChecksEnd
  <2>1. CaptureTypeOK'
    BY <1>1 DEF ChecksEnd, Sound, CaptureTypeOK, world, observation
  <2>2. RoomType' /\ Flow'
    BY <1>1 DEF ChecksEnd, Sound, RoomType, Flow, Placed, Running, Judging
  <2> QED
    BY <1>0, <1>1, <2>1, <2>2 DEF Sound
<1>2. ASSUME NEW p \in Path, CheckReads(p) PROVE Sound'
  <2>1. (IF mode = "clean" THEN room[p] ELSE work[p]) \in Object
    BY <1>2 DEF CheckReads, Sound, RepositoryTypeOK, RoomType
  <2>2. seen' \in [Path -> SUBSET Object]
    BY <1>2, <2>1 DEF CheckReads, Sound, CaptureTypeOK
  <2>3. CaptureTypeOK'
    BY <1>2, <2>2 DEF CheckReads, Sound, CaptureTypeOK, world, observation,
       RepositoryTypeOK
  <2>4. RoomType' /\ Flow'
    BY <1>2 DEF CheckReads, Sound, RoomType, Flow, Placed, Running, Judging
  <2> QED
    BY <1>0, <1>2, <2>3, <2>4 DEF Sound
<1>3. ASSUME NEW p \in Path, NEW o \in Object, CheckWrites(p, o) PROVE Sound'
  <2>1. /\ edits \in Nat /\ edits' = edits + 1 /\ edits' \in 0..MaxEdits
        /\ UNCHANGED <<base, index, work, mask, past, restored, head, pastHead, headBack>>
    BY <1>3, ObjectAssumption DEF CheckWrites, Sound, RepositoryTypeOK, treeVars,
       headVars
  <2>2. RepositoryTypeOK' /\ Counted'
    BY <2>1 DEF Sound, RepositoryTypeOK, Counted
  <2>3. room \in [Path -> Object]
    BY <1>3 DEF CheckWrites, Sound, RoomType
  <2>4. room' \in [Path -> Object] /\ room' # NoRoom
    BY <1>3, <2>3, RoomIsThere DEF CheckWrites
  <2>5. made' \in [Path -> SUBSET Object]
    BY <1>3 DEF CheckWrites, Sound, CaptureTypeOK
  <2>6. CaptureTypeOK'
    BY <1>3, <2>5 DEF CheckWrites, Sound, CaptureTypeOK, observation
  <2>7. RoomType' /\ Flow'
    BY <1>3, <2>4 DEF CheckWrites, Sound, RoomType, Flow, Placed, Running, Judging
  <2> QED
    BY <2>2, <2>6, <2>7 DEF Sound
<1> QED
  BY <1>1, <1>2, <1>3 DEF Checks

\* The comparison, the verdict and every failing Git command do.
LEMMA SoundConclude == ASSUME Sound, Conclude PROVE Sound'
<1> USE DEF Collecting, Comparing, InRoom, Deciding, Steps
<1>0. RepositoryTypeOK' /\ Counted'
  BY RepositoryFrame DEF Conclude, CompareChanges, Decide, GitFails, RoomOnly,
     world
<1>1. CASE CompareChanges
  <2>1. CaptureTypeOK'
    BY <1>1 DEF CompareChanges, Sound, CaptureTypeOK, world, observation, Drift,
       Moved, Joined, Listed
  <2>2. RoomType'
    BY <1>1 DEF CompareChanges, Sound, RoomType
  <2>3. Placed' /\ Running'
    BY <1>1 DEF CompareChanges, Sound, Flow, Placed, Running
  <2>4. round' = 2 /\ verdict' = "none"
    BY <1>1 DEF CompareChanges, Sound, Flow, Judging
  <2>5. Judging'
    BY <2>4, SMT DEF Judging
  <2> QED
    BY <1>0, <2>1, <2>2, <2>3, <2>5 DEF Sound, Flow
<1>2. CASE Decide
  <2>1. CaptureTypeOK'
    BY <1>2 DEF Decide, Sound, CaptureTypeOK, world, observation
  <2>2. RoomType' /\ Flow'
    BY <1>2 DEF Decide, Sound, RoomType, Flow, Placed, Running, Judging, Errors
  <2> QED
    BY <1>0, <2>1, <2>2 DEF Sound
<1>3. CASE GitFails
  <2>1. CaptureTypeOK'
    BY <1>3 DEF GitFails, Raise, RoomOnly, Sound, CaptureTypeOK, world
  <2>2. RoomType' /\ Flow'
    BY <1>3 DEF GitFails, Raise, RoomOnly, Finished, Sound, RoomType, Flow,
       Placed, Running, Judging
  <2> QED
    BY <1>0, <2>1, <2>2 DEF Sound
<1> QED
  BY <1>1, <1>2, <1>3 DEF Conclude

\* The types with the flow of control are inductive.
LEMMA SoundStep == Sound /\ [Next]_vars => Sound'
<1> SUFFICES ASSUME Sound, [Next]_vars PROVE Sound'
  OBVIOUS
<1>1. CASE UNCHANGED vars
  BY <1>1 DEF vars, world, repoVars, treeVars, headVars, captureVars, observation,
     progress, Sound, Counted, RepositoryTypeOK, CaptureTypeOK, RoomType, Flow, Placed, Running, Judging
<1> QED
  BY <1>1, SoundCollect, SoundConflicts, SoundMaterialize, SoundChecks,
     SoundConclude,
     SoundOthers DEF Next, Delivered

\* They hold initially.
LEMMA SoundInit == Init => Sound
<1> SUFFICES ASSUME Init PROVE Sound
  OBVIOUS
<1>1. TypeOK
  BY TypeInit
<1>2. CaptureTypeOK /\ RoomType /\ RepositoryTypeOK
  BY <1>1 DEF TypeOK, CaptureTypeOK, RoomType, RecordType
<1>3. Counted
  BY DEF Init, RepositoryInit, Counted
<1>4. Flow
  BY DEF Init, Flow, Placed, Running, Judging, Steps, Collecting, Comparing,
     InRoom, Deciding
<1> QED
  BY <1>2, <1>3, <1>4 DEF Sound

\* Every variable keeps its type, and the disposable worktree exists exactly
\* while a clean-room capture is between git worktree add and the end of the
\* checks, however clean_room is left.
THEOREM CaptureTypes == Spec => []TypeOK
<1>1. Sound => TypeOK
  BY DEF Sound, TypeOK, CaptureTypeOK, RoomType, RecordType
<1> QED
  BY SoundInit, SoundStep, <1>1, PTL DEF Spec

-----------------------------------------------------------------------------
\* What happens to one path.

\* Nothing.
Same(p) == /\ index'[p] = index[p] /\ work'[p] = work[p]
           /\ (p \in mask') <=> (p \in mask)

\* Its memory grows.
Grows(p) == /\ past[p].index \subseteq past'[p].index
            /\ past[p].work \subseteq past'[p].work
            /\ past[p].mask \subseteq past'[p].mask

\* A state that comes back to it is noticed.
Notices(p) ==
    p \notin restored' =>
        /\ work'[p] # work[p] => work'[p] \notin past[p].work
        /\ p \in mask /\ p \notin mask' => "plain" \notin past[p].mask

\* The memory of a path is a record.
LEMMA PastShape ==
    ASSUME RepositoryTypeOK, NEW p \in Path
    PROVE  past[p] = [index |-> past[p].index, work |-> past[p].work, mask |-> past[p].mask]
BY DEF RepositoryTypeOK

\* What Remember does to past and restored, at the path written and elsewhere.
LEMMA Remembered ==
    ASSUME RepositoryTypeOK, NEW q \in Path, NEW i, NEW w, NEW m, Remember(q, i, w, m),
           NEW p \in Path
    PROVE  /\ p = q => past'[p] = [index |-> past[p].index \cup {i},
                                   work |-> past[p].work \cup {w},
                                   mask |-> past[p].mask \cup {m}]
           /\ p # q => past'[p] = past[p]
           /\ restored \subseteq restored'
           /\ Returns(q, i, w, m) => q \in restored'
BY DEF Remember, RepositoryTypeOK

\* A write to another path.
LEMMA WrittenElsewhere ==
    ASSUME NEW p, past'[p] = past[p], Same(p), Remembers(p)
    PROVE  Remembers(p)' /\ Grows(p) /\ Notices(p)
<1>1. (Flag(p) \in past[p].mask)'
  BY DEF Same, Remembers, Flag
<1> QED
  BY <1>1 DEF Remembers, Grows, Notices, Same

\* A write to this path, whatever it changes.
LEMMA WrittenHere ==
    ASSUME RepositoryTypeOK, NEW p \in Path, NEW i, NEW w, NEW m, Remember(p, i, w, m),
           index'[p] = i, work'[p] = w, Flag(p)' = m, Remembers(p)
    PROVE  Remembers(p)' /\ Grows(p) /\ Notices(p) /\ restored \subseteq restored'
<1>1. past'[p] = [index |-> past[p].index \cup {i}, work |-> past[p].work \cup {w},
                  mask |-> past[p].mask \cup {m}]
      /\ restored \subseteq restored' /\ (Returns(p, i, w, m) => p \in restored')
  BY Remembered
<1>2. Remembers(p)'
  BY <1>1 DEF Remembers
<1>3. Grows(p)
  BY <1>1 DEF Grows
<1>4. work'[p] # work[p] /\ work'[p] \in past[p].work => p \in restored'
  BY <1>1 DEF Returns
<1>5. p \in mask /\ p \notin mask' /\ "plain" \in past[p].mask => p \in restored'
  BY <1>1 DEF Returns, Flag
<1> QED
  BY <1>1, <1>2, <1>3, <1>4, <1>5 DEF Notices

\* What one write by others does to a path.
LEMMA EditAt ==
    ASSUME RepositoryTypeOK, Edit, NEW p \in Path, Remembers(p)
    PROVE  /\ base' = base /\ Remembers(p)' /\ Grows(p) /\ Notices(p)
           /\ restored \subseteq restored'
<1>1. ASSUME NEW q \in Path, NEW o \in Object, WriteFile(q, o)
      PROVE  /\ base' = base /\ Remembers(p)' /\ Grows(p) /\ Notices(p)
             /\ restored \subseteq restored'
  <2>0. Remember(q, index[q], o, Flag(q))
    BY <1>1 DEF WriteFile
  <2>1. CASE p = q
    <3>1. Remember(p, index[p], o, Flag(p))
      BY <2>0, <2>1
    <3>2. index'[p] = index[p] /\ work'[p] = o /\ Flag(p)' = Flag(p) /\ base' = base
      BY <1>1, <2>1 DEF WriteFile, RepositoryTypeOK, Flag
    <3> QED
      BY <3>1, <3>2, WrittenHere
  <2>2. CASE p # q
    <3>1. past'[p] = past[p] /\ restored \subseteq restored'
      BY <2>0, <2>2, Remembered
    <3>2. Same(p) /\ base' = base
      BY <1>1, <2>2 DEF WriteFile, RepositoryTypeOK, Same
    <3> QED
      BY <3>1, <3>2, WrittenElsewhere
  <2> QED
    BY <2>1, <2>2
<1>2. ASSUME NEW q \in Path, NEW o \in Object, WriteIndex(q, o)
      PROVE  /\ base' = base /\ Remembers(p)' /\ Grows(p) /\ Notices(p)
             /\ restored \subseteq restored'
  <2>0. Remember(q, o, work[q], Flag(q)')
    BY <1>2 DEF WriteIndex
  <2>1. CASE p = q
    <3>1. Remember(p, o, work[p], Flag(p)')
      BY <2>0, <2>1
    <3>2. index'[p] = o /\ work'[p] = work[p] /\ base' = base
      BY <1>2, <2>1 DEF WriteIndex, RepositoryTypeOK
    <3> QED
      BY <3>1, <3>2, WrittenHere
  <2>2. CASE p # q
    <3>1. past'[p] = past[p] /\ restored \subseteq restored'
      BY <2>0, <2>2, Remembered
    <3>2. Same(p) /\ base' = base
      BY <1>2, <2>2 DEF WriteIndex, RepositoryTypeOK, Same
    <3> QED
      BY <3>1, <3>2, WrittenElsewhere
  <2> QED
    BY <2>1, <2>2
<1>3. ASSUME NEW q \in Path, FlipMask(q)
      PROVE  /\ base' = base /\ Remembers(p)' /\ Grows(p) /\ Notices(p)
             /\ restored \subseteq restored'
  <2>0. Remember(q, index[q], work[q], Flag(q)')
    BY <1>3 DEF FlipMask
  <2>1. CASE p = q
    <3>1. Remember(p, index[p], work[p], Flag(p)')
      BY <2>0, <2>1
    <3>2. index'[p] = index[p] /\ work'[p] = work[p] /\ base' = base
      BY <1>3, <2>1 DEF FlipMask, RepositoryTypeOK
    <3> QED
      BY <3>1, <3>2, WrittenHere
  <2>2. CASE p # q
    <3>1. past'[p] = past[p] /\ restored \subseteq restored'
      BY <2>0, <2>2, Remembered
    <3>2. Same(p) /\ base' = base
      BY <1>3, <2>2 DEF FlipMask, RepositoryTypeOK, Same
    <3> QED
      BY <3>1, <3>2, WrittenElsewhere
  <2> QED
    BY <2>1, <2>2
<1>4. CASE MoveHead
  <2>1. past' = past /\ Same(p) /\ base' = base /\ restored' = restored
    BY <1>4 DEF MoveHead, Same, treeVars
  <2> QED
    BY <2>1, WrittenElsewhere
<1> QED
  BY <1>1, <1>2, <1>3, <1>4 DEF Edit

\* If nobody has written to p, nobody had, and nothing has happened to it.
LEMMA StillBefore ==
    ASSUME RepositoryTypeOK, NEW p \in Path, Remembers(p), Remembers(p)', Grows(p), Still(p)'
    PROVE  Still(p) /\ Same(p)
<1>1. past'[p].index = {index'[p]} /\ past'[p].work = {work'[p]} /\ past'[p].mask = {Flag(p)'}
  BY DEF Still
<1>2. past[p].index = {index'[p]} /\ index[p] = index'[p]
  BY <1>1 DEF Remembers, Grows
<1>3. past[p].work = {work'[p]} /\ work[p] = work'[p]
  BY <1>1 DEF Remembers, Grows
<1>4. past[p].mask = {Flag(p)'} /\ Flag(p) = Flag(p)'
  BY <1>1 DEF Remembers, Grows
<1>5. Same(p)
  BY <1>2, <1>3, <1>4 DEF Same, Flag
<1>6. past[p] = [index |-> {index[p]}, work |-> {work[p]}, mask |-> {Flag(p)}]
  BY <1>2, <1>3, <1>4, PastShape
<1> QED
  BY <1>5, <1>6 DEF Still

\* The same, with what the model calls torn: an observed path that is not torn
\* is not written to, one whose clean room is made keeps its place in the index.
LEMMA OthersAt ==
    ASSUME Sound, Others, NEW p \in Path, Remembers(p)
    PROVE  /\ base' = base /\ Remembers(p)' /\ Grows(p) /\ Notices(p)
           /\ restored \subseteq restored' /\ torn \subseteq torn'
           /\ UNCHANGED captureVars
           /\ Observing /\ p \notin torn' => Same(p)
           /\ Materializing /\ p \notin torn' => (index'[p] = Absent <=> index[p] = Absent)
           /\ Still(p)' => Still(p) /\ Same(p)
<1>1. base' = base /\ Remembers(p)' /\ Grows(p) /\ Notices(p) /\ restored \subseteq restored'
  BY EditAt DEF Others, Sound
<1>2. Still(p)' => Still(p) /\ Same(p)
  BY <1>1, StillBefore DEF Sound
<1>3. torn \subseteq torn' /\ UNCHANGED captureVars
  BY DEF Others
<1>4. Observing /\ p \notin torn' => ~Touched(p)
  BY DEF Others
<1>5. ~Touched(p) => Same(p)
  BY DEF Touched, Same
<1>6. Materializing /\ p \notin torn' => ~Retracked(p)
  BY DEF Others
<1>7. ~Retracked(p) => (index'[p] = Absent <=> index[p] = Absent)
  BY DEF Retracked
<1> QED
  BY <1>1, <1>2, <1>3, <1>4, <1>5, <1>6, <1>7

-----------------------------------------------------------------------------
\* What Git reports of a path to which nothing happens is the same.
LEMMA SameStatus ==
    ASSUME NEW p \in Path, base' = base, Same(p)
    PROVE  /\ CachedStatus(p)' = CachedStatus(p) /\ WorktreeView(p)' = WorktreeView(p)
           /\ WorktreeStatus(p)' = WorktreeStatus(p)
           /\ (p \in Untracked)' <=> p \in Untracked
           /\ Agreed(p)' <=> Agreed(p)
<1>1. CachedStatus(p)' = CachedStatus(p)
  BY DEF CachedStatus, Same
<1>2. WorktreeView(p)' = WorktreeView(p)
  BY DEF WorktreeView, Same
<1>3. WorktreeStatus(p)' = WorktreeStatus(p)
  BY <1>2 DEF WorktreeStatus
<1>4. (p \in Untracked)' <=> p \in Untracked
  BY DEF Untracked, Same
<1>5. Agreed(p)' <=> Agreed(p)
  BY DEF Agreed, Same
<1> QED
  BY <1>1, <1>2, <1>3, <1>4, <1>5

\* An observation of a path to which nothing happens would be the same.
LEMMA SameObservation ==
    ASSUME NEW p \in Path, base' = base, Same(p)
    PROVE  /\ StatusNow(p)' = StatusNow(p) /\ HashNow(p)' = HashNow(p)
           /\ Hashable(p)' <=> Hashable(p)
           /\ Collected(p)' = Collected(p) /\ Observed(p)' = Observed(p)
<1>0. CachedStatus(p)' = CachedStatus(p) /\ WorktreeStatus(p)' = WorktreeStatus(p)
      /\ ((p \in Untracked)' <=> p \in Untracked)
  BY SameStatus
<1>1. Diffed(p)' = Diffed(p)
  BY <1>0 DEF Diffed
<1>2. New(p)' <=> New(p)
  BY <1>0, <1>1 DEF New
<1>3. StatusNow(p)' = StatusNow(p)
  BY <1>1, <1>2 DEF StatusNow
<1>4. Hashable(p)' <=> Hashable(p)
  BY <1>0, <1>2 DEF Hashable
<1>5. HashNow(p)' = HashNow(p)
  BY <1>4 DEF HashNow, FileHash, Same
<1>6. Collected(p)' = Collected(p)
  BY <1>0, <1>3, <1>5 DEF Collected, Same
<1>7. Surfaced(p)' <=> Surfaced(p)
  BY <1>3 DEF Surfaced, FileHash, Same
<1>8. Observed(p)' = Observed(p)
  BY <1>6, <1>7 DEF Observed, Same
<1> QED
  BY <1>3, <1>4, <1>5, <1>6, <1>8

\* Nobody writes.
LEMMA RepositoryStays ==
    ASSUME UNCHANGED treeVars, NEW p
    PROVE  base' = base /\ Same(p) /\ past' = past
BY DEF treeVars, Same

\* Every step but those of others leaves the repository as it is.
LEMMA OwnSteps ==
    ASSUME Collect \/ Conflicts \/ Materialize \/ Checks \/ Conclude
    PROVE  UNCHANGED treeVars /\ torn \subseteq torn'
<1>1. CASE Collect
  BY <1>1 DEF Collect, ReadRefs, ReadCached, ReadWorktree, ReadUntracked,
     ReadBlobs, ReadFlags, FlagsUnread, Record, HashFile, HashMasked, world, repoVars
<1>2. CASE Conflicts
  BY <1>2 DEF Conflicts, ReadStaged, ReadUnstaged, ReadReplacements, ReadMasks,
     SkipChecks, Conflicting, world, repoVars
<1>3. CASE Materialize
  BY <1>3 DEF Materialize, RequireUnmasked, ApplyPatch, ListUntracked,
     CopyUntracked,
     RequireStillUnmasked, RoomOnly, world, repoVars
<1>4. CASE Checks
  BY <1>4 DEF Checks, ChecksEnd, CheckReads, CheckWrites, world, repoVars
<1>5. CASE Conclude
  BY <1>5 DEF Conclude, CompareChanges, Decide, GitFails, RoomOnly, world,
     repoVars
<1> QED
  BY <1>1, <1>2, <1>3, <1>4, <1>5

-----------------------------------------------------------------------------
\* Reading

\* What has been read of an untorn path stays what is there.
LEMMA ReadingOthers ==
    ASSUME Sound, Others, NEW p \in Path, Remembers(p), Reading(p), p \notin torn'
    PROVE  Reading(p)'
<1>1. UNCHANGED <<pc, cached, worktree, changes, todo>>
  BY DEF Others, captureVars, observation
<1>2. CASE pc \notin Collecting
  BY <1>1, <1>2 DEF Reading, Collecting
<1>3. CASE pc \in Collecting
  <2>1. Observing
    BY <1>3 DEF Observing, Materializing, Collecting
  <2>2. base' = base /\ Same(p)
    BY <2>1, OthersAt
  <2>3. /\ StatusNow(p)' = StatusNow(p) /\ HashNow(p)' = HashNow(p)
        /\ Hashable(p)' <=> Hashable(p)
        /\ Collected(p)' = Collected(p) /\ Observed(p)' = Observed(p)
        /\ CachedStatus(p)' = CachedStatus(p) /\ WorktreeStatus(p)' = WorktreeStatus(p)
    BY <2>2, SameStatus, SameObservation
  <2>4. p \in mask' <=> p \in mask
    BY <2>2 DEF Same
  <2> QED
    BY <1>1, <2>3, <2>4 DEF Reading
<1> QED
  BY <1>2, <1>3

\* A path is listed if its status is a letter.
LEMMA ListedNow ==
    ASSUME NEW p \in Path PROVE p \in Listed <=> changes[p].status # "-"
BY DEF Listed

\* A masked entry that is not asked for its file, and one that is.
LEMMA ObservedIs ==
    ASSUME NEW p \in Path
    PROVE  /\ ~(p \in mask /\ StatusNow(p) = "-") => Observed(p) = Collected(p)
           /\ FileHash(work[p]) \in {Absent, base[p]} => Observed(p) = Collected(p)
           /\ p \in mask /\ StatusNow(p) = "-" /\ FileHash(work[p]) \notin {Absent, base[p]}
                => Observed(p) = [status |-> "M", after |-> work[p]]
BY DEF Observed, Surfaced

\* Every step of collect_changes reads what is there.
LEMMA ReadingCollect ==
    ASSUME Sound, Collect, NEW p \in Path, Reading(p), p \notin torn'
    PROVE  Reading(p)'
<1> USE DEF Collecting
<1>0. base' = base /\ Same(p)
  BY OwnSteps, RepositoryStays
<1>v. /\ StatusNow(p)' = StatusNow(p) /\ HashNow(p)' = HashNow(p)
      /\ Hashable(p)' <=> Hashable(p)
      /\ Collected(p)' = Collected(p) /\ Observed(p)' = Observed(p)
      /\ CachedStatus(p)' = CachedStatus(p) /\ WorktreeStatus(p)' = WorktreeStatus(p)
      /\ p \in mask' <=> p \in mask
  BY <1>0, SameStatus, SameObservation DEF Same
<1>1. CASE ReadRefs
  BY <1>1 DEF ReadRefs, Reading
<1>2. CASE ReadCached
  BY <1>v, <1>2 DEF ReadCached, Reading
<1>3. CASE ReadWorktree
  BY <1>v, <1>3 DEF ReadWorktree, Reading
<1>4. CASE ReadUntracked
  <2>1. cached[p] = CachedStatus(p) /\ worktree[p] = WorktreeStatus(p) /\ pc' = "hash"
        /\ UNCHANGED <<cached, worktree>>
    BY <1>4 DEF ReadUntracked, Reading
  <2>2. Merged(p) = Diffed(p)
    BY <2>1 DEF Merged, Diffed
  <2>3. p \in todo' <=> Hashable(p)
    BY <1>4, <2>1, <2>2 DEF ReadUntracked, Hashable, New
  <2>4. changes'[p] = [status |-> StatusNow(p), after |-> Absent]
    BY <1>4, <2>2 DEF ReadUntracked, StatusNow, New
  <2>5. changes'[p] = [status |-> StatusNow(p),
                       after |-> IF p \in todo' THEN Absent ELSE HashNow(p)]
    BY <2>3, <2>4 DEF HashNow
  <2> QED
    BY <1>v, <2>1, <2>3, <2>5 DEF Reading
<1>5. ASSUME NEW q \in Path, HashFile(q) PROVE Reading(p)'
  <2>1. pc = "hash" /\ pc' = "hash" /\ UNCHANGED <<cached, worktree>> /\ todo' = todo \ {q}
        /\ changes' = [changes EXCEPT ![q].after = FileHash(work[q])] /\ q \in todo
    BY <1>5 DEF HashFile, progress
  <2>2. changes[p] = [status |-> StatusNow(p),
                      after |-> IF p \in todo THEN Absent ELSE HashNow(p)]
        /\ (p \in todo => Hashable(p))
    BY <2>1 DEF Reading
  <2>3. CASE p = q
    <3>1. changes'[p] = [status |-> StatusNow(p), after |-> HashNow(p)]
      BY <2>1, <2>2, <2>3 DEF HashNow, Sound, CaptureTypeOK, RecordType
    <3> QED
      BY <1>v, <2>1, <2>3, <3>1 DEF Reading
  <2>4. CASE p # q
    <3>1. changes'[p] = changes[p] /\ (p \in todo' <=> p \in todo)
      BY <2>1, <2>4 DEF Sound, CaptureTypeOK, RecordType
    <3> QED
      BY <1>v, <2>1, <2>2, <3>1 DEF Reading
  <2> QED
    BY <2>3, <2>4
<1>6. CASE ReadBlobs
  <2>1. pc = "hash" /\ pc' = "flags" /\ UNCHANGED <<cached, worktree>> /\ todo = {}
    BY <1>6 DEF ReadBlobs
  <2>2. changes[p] = [status |-> StatusNow(p), after |-> HashNow(p)]
        /\ cached[p] = CachedStatus(p)
    BY <2>1 DEF Reading
  <2>3. changes'[p] = IF CachedStatus(p) \notin {"-", "D"}
                      THEN [changes[p] EXCEPT !.after = index[p]] ELSE changes[p]
    BY <1>6, <2>2 DEF ReadBlobs, Indexed
  <2>4. changes'[p] = Collected(p)
    BY <2>2, <2>3 DEF Collected
  <2> QED
    BY <1>v, <2>1, <2>4 DEF Reading
<1>7. CASE ReadFlags
  <2>1. pc = "flags" /\ pc' = "masked" /\ todo' = mask \ Listed
        /\ UNCHANGED <<cached, worktree, changes>>
    BY <1>7 DEF ReadFlags
  <2>2. changes[p] = Collected(p) /\ Collected(p).status = StatusNow(p)
    BY <2>1 DEF Reading, Collected
  <2>3. p \in todo' <=> p \in mask /\ StatusNow(p) = "-"
    BY <2>1, <2>2, ListedNow
  <2>4. changes'[p] = IF p \in todo' THEN Collected(p) ELSE Observed(p)
    BY <2>1, <2>2, <2>3, ObservedIs
  <2> QED
    BY <1>v, <2>1, <2>3, <2>4 DEF Reading
<1>8. CASE FlagsUnread
  <2>1. pc = "flags" /\ pc' = "masked" /\ todo' = {}
        /\ UNCHANGED <<cached, worktree, changes>> /\ torn' = torn \cup (mask \ Listed)
    BY <1>8 DEF FlagsUnread
  <2>2. changes[p] = Collected(p) /\ Collected(p).status = StatusNow(p)
    BY <2>1 DEF Reading, Collected
  <2>3. ~(p \in mask /\ StatusNow(p) = "-")
    BY <2>1, <2>2, ListedNow
  <2>4. changes'[p] = Observed(p)
    BY <2>1, <2>2, <2>3, ObservedIs
  <2> QED
    BY <1>v, <2>1, <2>4 DEF Reading
<1>9. ASSUME NEW q \in Path, HashMasked(q) PROVE Reading(p)'
  <2>1. pc = "masked" /\ pc' = "masked" /\ UNCHANGED <<cached, worktree>> /\ todo' = todo \ {q}
        /\ q \in todo
    BY <1>9 DEF HashMasked, progress
  <2>2. changes[p] = (IF p \in todo THEN Collected(p) ELSE Observed(p))
        /\ (p \in todo => p \in mask /\ StatusNow(p) = "-")
    BY <2>1 DEF Reading
  <2>3. CASE p = q
    <3>1. changes'[p] = Observed(p)
      <4>1. CASE FileHash(work[p]) \in {Absent, base[p]}
        BY <1>9, <2>1, <2>2, <2>3, <4>1, ObservedIs DEF HashMasked
      <4>2. CASE FileHash(work[p]) \notin {Absent, base[p]}
        BY <1>9, <2>1, <2>2, <2>3, <4>2, ObservedIs DEF HashMasked, Sound,
           CaptureTypeOK, RecordType
      <4> QED
        BY <4>1, <4>2
    <3> QED
      BY <1>v, <2>1, <2>3, <3>1 DEF Reading
  <2>4. CASE p # q
    <3>1. changes'[p] = changes[p] /\ (p \in todo' <=> p \in todo)
      BY <1>9, <2>1, <2>4 DEF HashMasked, Sound, CaptureTypeOK, RecordType
    <3> QED
      BY <1>v, <2>1, <2>2, <3>1 DEF Reading
  <2> QED
    BY <2>3, <2>4
<1>10. CASE Record
  BY <1>10 DEF Record, Reading
<1> QED
  BY <1>1, <1>2, <1>3, <1>4, <1>5, <1>6, <1>7, <1>8, <1>9, <1>10 DEF Collect

\* No other step leads into collect_changes.
LEMMA NotCollecting ==
    ASSUME Sound, Conflicts \/ Materialize \/ Checks \/ Conclude
    PROVE  pc' \notin Collecting
<1> USE DEF Collecting
<1>1. CASE Conflicts
  <2>1. ASSUME NEW found PROVE AfterConflicts(found) \notin Collecting
    BY DEF AfterConflicts
  <2> QED
    BY <1>1, <2>1 DEF Conflicts, ReadStaged, ReadUnstaged, ReadReplacements,
       ReadMasks, SkipChecks
<1>2. CASE Materialize
  BY <1>2 DEF Materialize, RequireUnmasked, ApplyPatch, ListUntracked,
     CopyUntracked,
     RequireStillUnmasked, Raise
<1>3. CASE Checks
  BY <1>3 DEF Checks, ChecksEnd, CheckReads, CheckWrites
<1>4. CASE Conclude
  BY <1>4 DEF Conclude, CompareChanges, Decide, GitFails, Raise
<1> QED
  BY <1>1, <1>2, <1>3, <1>4

\* Outside collect_changes nothing is claimed of what has been read.
LEMMA ReadingElse ==
    ASSUME Sound, Conflicts \/ Materialize \/ Checks \/ Conclude, NEW p
    PROVE  Reading(p)'
BY NotCollecting DEF Reading, Collecting

-----------------------------------------------------------------------------
\* Finding

\* Others do not write to an untorn path while conflicts are looked for.
LEMMA FindingOthers ==
    ASSUME Sound, Others, NEW p \in Path, Remembers(p), Finding(p), p \notin torn'
    PROVE  Finding(p)'
<1>1. UNCHANGED <<pc, round, staged, conflicts>> /\ pc # "done"
  BY DEF Others, Finished, captureVars, progress
<1>2. CASE pc \notin Comparing /\ ~Compared
  BY <1>1, <1>2 DEF Finding, Comparing, Compared
<1>3. CASE pc \in Comparing \/ Compared
  <2>1. Observing
    BY <1>1, <1>3 DEF Observing, Materializing, Comparing, Compared, Deciding
  <2>2. base' = base /\ Same(p)
    BY <2>1, OthersAt
  <2>3. /\ CachedStatus(p)' = CachedStatus(p) /\ WorktreeView(p)' = WorktreeView(p)
        /\ Agreed(p)' <=> Agreed(p)
        /\ index'[p] = index[p] /\ work'[p] = work[p]
    BY <2>2, SameStatus DEF Same
  <2>4. Compared' <=> Compared
    BY <1>1 DEF Compared
  <2> QED
    BY <1>1, <2>2, <2>3, <2>4 DEF Finding
<1> QED
  BY <1>2, <1>3

\* A step that leaves the repository and the conflicts alone, when what has
\* been found of them stays as it is or is not claimed any more.
LEMMA FindingFrame ==
    ASSUME NEW p \in Path, Finding(p), UNCHANGED <<treeVars, conflicts>>,
           pc' \notin Comparing \ {"staged"}, Compared' => Compared
    PROVE  Finding(p)'
<1>1. Agreed(p)' <=> Agreed(p)
  BY RepositoryStays, SameStatus
<1> QED
  BY <1>1 DEF Finding, Comparing

\* The three things verification_conflicts looks for are all there are.
LEMMA StagedAgrees ==
    ASSUME NEW p \in Path, p \notin mask, WorktreeView(p) = index[p],
           index[p] = Absent => work[p] = Absent
    PROVE  Agreed(p)
BY DEF Agreed, WorktreeView

\* What the cached diff says of the index.
LEMMA StatusOf ==
    ASSUME NEW p \in Path
    PROVE  /\ CachedStatus(p) = "-" <=> index[p] = base[p]
           /\ CachedStatus(p) = "D" <=> index[p] = Absent /\ base[p] # Absent
BY DEF CachedStatus, Status

\* Once verification_conflicts has returned, a staged path it does not name is
\* in the working tree as it is staged.
LEMMA ComparedAgree ==
    ASSUME Sound, ReadStaged \/ ReadMasks, NEW p \in Path, Finding(p),
           pc' \notin Comparing, p \notin conflicts'
    PROVE  Agreed(p)
<1>1. CASE ReadStaged
  <2>1. staged'[p] = "-"
    BY <1>1 DEF ReadStaged, Comparing
  <2>2. CachedStatus(p) = "-"
    BY <1>1, <2>1 DEF ReadStaged
  <2> QED
    BY <2>2, StatusOf DEF Agreed
<1>2. CASE ReadMasks
  <2>1. pc = "masks" /\ conflicts' = conflicts \cup {q \in mask : staged[q] # "-"}
    BY <1>2 DEF ReadMasks, Conflicting
  <2>2. staged[p] = CachedStatus(p)
        /\ (index[p] # base[p] /\ p \notin conflicts => WorktreeView(p) = index[p])
        /\ (index[p] = Absent /\ base[p] # Absent /\ p \notin conflicts => work[p] = Absent)
    BY <2>1 DEF Finding, Comparing
  <2>3. ASSUME index[p] # base[p] PROVE Agreed(p)
    <3>1. p \notin mask /\ p \notin conflicts
      BY <2>1, <2>2, <2>3, StatusOf
    <3> QED
      BY <2>2, <2>3, <3>1, StagedAgrees
  <2> QED
    BY <2>3 DEF Agreed
<1> QED
  BY <1>1, <1>2

\* Every step of verification_conflicts finds its part of the conflicts.
LEMMA FindingConflicts ==
    ASSUME Sound, Conflicts, NEW p \in Path, Finding(p)
    PROVE  Finding(p)'
<1> USE DEF Comparing
<1>0. UNCHANGED treeVars /\ base' = base /\ Same(p)
  BY OwnSteps, RepositoryStays
<1>v. /\ CachedStatus(p)' = CachedStatus(p) /\ WorktreeView(p)' = WorktreeView(p)
      /\ Agreed(p)' <=> Agreed(p)
      /\ index'[p] = index[p] /\ work'[p] = work[p]
  BY <1>0, SameStatus DEF Same
<1>a. ASSUME NEW found PROVE AfterConflicts(found) \notin Comparing
  BY DEF AfterConflicts
<1>1. CASE ReadStaged
  <2>1. CASE pc' = "unstaged"
    <3>1. ~Compared'
      BY <2>1 DEF Compared, Deciding, Collecting
    <3>2. staged'[p] = CachedStatus(p)
      BY <1>1 DEF ReadStaged
    <3> QED
      BY <1>v, <2>1, <3>1, <3>2 DEF Finding
  <2>2. CASE pc' # "unstaged"
    <3>1. pc' \notin Comparing
      BY <1>1, <1>a, <2>2 DEF ReadStaged
    <3> QED
      BY <1>1, <1>v, <3>1, ComparedAgree DEF Finding
  <2> QED
    BY <2>1, <2>2
<1>2. CASE ReadUnstaged
  <2>1. pc = "unstaged" /\ pc' = "replaced" /\ staged' = staged
        /\ conflicts' = conflicts \cup {q \in Unstaged : staged[q] # "-"}
    BY <1>2 DEF ReadUnstaged, Conflicting
  <2>2. ~Compared'
    BY <2>1 DEF Compared, Deciding, Collecting
  <2>3. staged[p] = CachedStatus(p)
    BY <2>1 DEF Finding
  <2>4. index[p] # base[p] /\ p \notin conflicts' => WorktreeView(p) = index[p]
    BY <2>1, <2>3, StatusOf DEF Unstaged
  <2> QED
    BY <1>0, <1>v, <2>1, <2>2, <2>3, <2>4 DEF Finding
<1>3. CASE ReadReplacements
  <2>1. pc = "replaced" /\ pc' = "masks" /\ staged' = staged
        /\ conflicts' = conflicts \cup {q \in Path : staged[q] = "D" /\ work[q] # Absent}
    BY <1>3 DEF ReadReplacements, Conflicting
  <2>2. ~Compared'
    BY <2>1 DEF Compared, Deciding, Collecting
  <2>3. staged[p] = CachedStatus(p)
    BY <2>1 DEF Finding
  <2>4. index[p] = Absent /\ base[p] # Absent /\ p \notin conflicts' => work[p] = Absent
    BY <2>1, <2>3, StatusOf
  <2>5. index[p] # base[p] /\ p \notin conflicts' => WorktreeView(p) = index[p]
    BY <2>1 DEF Finding
  <2> QED
    BY <1>0, <1>v, <2>1, <2>2, <2>3, <2>4, <2>5 DEF Finding
<1>4. CASE ReadMasks
  <2>1. pc' \notin Comparing
    BY <1>4, <1>a DEF ReadMasks
  <2> QED
    BY <1>4, <1>v, <2>1, ComparedAgree DEF Finding
<1>5. CASE SkipChecks
  <2>1. pc' = "staged" /\ UNCHANGED conflicts
    BY <1>5 DEF SkipChecks
  <2>2. ~Compared'
    BY <2>1 DEF Compared, Deciding, Collecting
  <2> QED
    BY <2>1, <2>2 DEF Finding
<1> QED
  BY <1>1, <1>2, <1>3, <1>4, <1>5 DEF Conflicts

\* The other steps leave what has been found alone.
LEMMA FindingElse ==
    ASSUME Sound, Collect \/ Materialize \/ Checks \/ Conclude, NEW p \in Path, Finding(p)
    PROVE  Finding(p)'
<1>0. UNCHANGED treeVars
  BY OwnSteps
<1>1. CASE Collect
  <2>1. UNCHANGED conflicts
    BY <1>1 DEF Collect, ReadRefs, ReadCached, ReadWorktree, ReadUntracked,
       ReadBlobs, ReadFlags, FlagsUnread, Record, HashFile, HashMasked, progress
  <2>2. CASE ReadRefs \/ Record
    <3>1. pc' \in {"cached", "staged"} /\ round' = 1
      BY <2>2 DEF ReadRefs, Record, Sound, Flow, Placed
    <3> QED
      <4>1. round' # 2
        BY <3>1, SMT
      <4> QED
        BY <1>0, <2>1, <3>1, <4>1, FindingFrame DEF Compared, Deciding, Comparing,
           Collecting
  <2>3. CASE ~(ReadRefs \/ Record)
    <3>1. pc \in Collecting \cup {"cached"} /\ pc' \in Collecting /\ round' = round
      BY <1>1, <2>3 DEF Collect, ReadCached, ReadWorktree, ReadUntracked,
         Collecting,
         ReadBlobs, ReadFlags, FlagsUnread, HashFile, HashMasked, progress
    <3> QED
      BY <1>0, <2>1, <3>1, FindingFrame DEF Compared, Deciding, Comparing,
         Collecting
  <2> QED
    BY <2>2, <2>3
<1>2. CASE Materialize
  <2>1. UNCHANGED conflicts /\ pc' \in InRoom \cup {"raised", "checks"}
    BY <1>2 DEF Materialize, RequireUnmasked, ApplyPatch, ListUntracked,
       CopyUntracked,
       RequireStillUnmasked, Raise, RoomOnly, InRoom
  <2> QED
    BY <1>0, <2>1, FindingFrame DEF Compared, Deciding, Comparing, Collecting,
       InRoom
<1>3. CASE Checks
  <2>1. UNCHANGED conflicts /\ pc' \in {"staged", "checks"}
    BY <1>3 DEF Checks, ChecksEnd, CheckReads, CheckWrites
  <2> QED
    BY <1>0, <2>1, FindingFrame DEF Compared, Deciding, Comparing, Collecting
<1>4. CASE CompareChanges
  <2>1. UNCHANGED conflicts /\ pc' = "refs again" /\ pc = "masked" /\ round = 2
    BY <1>4 DEF CompareChanges
  <2> QED
    BY <1>0, <2>1, FindingFrame DEF Compared, Deciding, Comparing, Collecting
<1>5. CASE Decide
  <2>1. UNCHANGED conflicts /\ pc' = "done" /\ pc = "refs again"
    BY <1>5 DEF Decide
  <2> QED
    BY <1>0, <2>1, FindingFrame DEF Compared, Deciding, Comparing, Collecting
<1>6. CASE GitFails
  <2>1. UNCHANGED conflicts /\ pc' = "raised"
    BY <1>6 DEF GitFails, Raise, RoomOnly
  <2> QED
    BY <1>0, <2>1, FindingFrame DEF Compared, Deciding, Comparing, Collecting
<1> QED
  BY <1>1, <1>2, <1>3, <1>4, <1>5, <1>6 DEF Conclude

-----------------------------------------------------------------------------
\* Keeping

\* A record stays right until its path is written to.
LEMMA KeepingOthers ==
    ASSUME Sound, Others, NEW p \in Path, Remembers(p), Keeping(p), p \notin torn'
    PROVE  Keeping(p)'
<1>1. UNCHANGED <<pc, round, recorded>>
  BY DEF Others, captureVars, progress
<1>2. Recorded' <=> Recorded
  BY <1>1 DEF Recorded
<1>3. round = 1 /\ pc \in Comparing => Same(p)
  <2>1. pc \in Comparing => Observing
    BY DEF Observing, Materializing, Comparing
  <2> QED
    BY <2>1, OthersAt
<1>4. Still(p)' => Still(p) /\ Same(p)
  BY OthersAt
<1>5. Same(p) => Observed(p)' = Observed(p)
  BY OthersAt, SameObservation
<1> QED
  BY <1>1, <1>2, <1>3, <1>4, <1>5 DEF Keeping

\* A step at which nothing is recorded.
LEMMA KeepingFrame ==
    ASSUME NEW p \in Path, Keeping(p), UNCHANGED <<treeVars, recorded>>,
           Recorded' => Recorded,
           round' = 1 /\ pc' \in Comparing => round = 1 /\ pc \in Comparing
    PROVE  Keeping(p)'
<1>1. Observed(p)' = Observed(p) /\ (Still(p)' <=> Still(p))
  BY RepositoryStays, SameObservation DEF Still, treeVars, Flag
<1> QED
  BY <1>1 DEF Keeping

\* The record is made of what is there and is never made again.
LEMMA KeepingOwn ==
    ASSUME Sound, Collect \/ Conflicts \/ Materialize \/ Checks \/ Conclude,
           NEW p \in Path, Keeping(p), Reading(p)
    PROVE  Keeping(p)'
<1> USE DEF InRoom, Deciding, Comparing
<1>0. UNCHANGED treeVars
  BY OwnSteps
<1>1. CASE Record
  <2>1. changes[p] = Observed(p) /\ recorded' = changes
    BY <1>1 DEF Record, Reading, Collecting
  <2>2. Observed(p)' = Observed(p)
    BY <1>0, RepositoryStays, SameObservation
  <2> QED
    BY <2>1, <2>2 DEF Keeping
<1>2. CASE Collect /\ ~Record
  <2>1. /\ UNCHANGED <<recorded, round>>
        /\ pc' \in Collecting \cup {"cached"}
    BY <1>2 DEF Collect, ReadRefs, ReadCached, ReadWorktree, ReadUntracked,
       Collecting,
       ReadBlobs, ReadFlags, FlagsUnread, HashFile, HashMasked, progress
  <2> QED
    BY <1>0, <2>1, KeepingFrame DEF Recorded, Collecting
<1>3. CASE Conflicts
  <2>1. UNCHANGED recorded 
        /\ \/ pc \in Comparing /\ round' = round
           \/ pc = "skip" /\ round' = 2
    BY <1>3 DEF Conflicts, ReadStaged, ReadUnstaged, ReadReplacements, ReadMasks,
       SkipChecks, Conflicting
  <2>2. Recorded
    BY <2>1 DEF Recorded
  <2>3. round' = 1 => pc \in Comparing /\ round = 1
    BY <2>1, SMT
  <2> QED
    BY <1>0, <2>1, <2>2, <2>3, KeepingFrame
<1>4. CASE Materialize
  <2>1. UNCHANGED recorded /\ pc \in InRoom /\ pc' \in InRoom \cup {"raised", "checks"}
    BY <1>4 DEF Materialize, RequireUnmasked, ApplyPatch, ListUntracked,
       CopyUntracked,
       RequireStillUnmasked, Raise, RoomOnly
  <2> QED
    BY <1>0, <2>1, KeepingFrame DEF Recorded
<1>5. CASE Checks
  <2>1. UNCHANGED recorded /\ pc = "checks" /\ (pc' = "checks" \/ round' = 2)
    BY <1>5 DEF Checks, ChecksEnd, CheckReads, CheckWrites
  <2> QED
    BY <1>0, <2>1, KeepingFrame, SMT DEF Recorded
<1>6. CASE Conclude
  <2>1. /\ UNCHANGED <<recorded, round>>
        /\ \/ pc = "masked" /\ round = 2 /\ pc' = "refs again"
           \/ pc = "refs again" /\ pc' = "done"
           \/ pc' = "raised"
    BY <1>6 DEF Conclude, CompareChanges, Decide, GitFails, Raise, RoomOnly
  <2> QED
    BY <1>0, <2>1, KeepingFrame DEF Recorded
<1> QED
  BY <1>1, <1>2, <1>3, <1>4, <1>5, <1>6

-----------------------------------------------------------------------------
\* Tearing

\* A path without a status is in neither diff.
LEMMA NothingListed ==
    ASSUME NEW p \in Path, StatusNow(p) = "-"
    PROVE  CachedStatus(p) = "-" /\ WorktreeStatus(p) = "-" /\ ~New(p)
BY DEF StatusNow, Diffed

\* A path others tear is one they write to.
LEMMA TearingOthers ==
    ASSUME Sound, Others, NEW p \in Path, Remembers(p), Tearing(p)
    PROVE  Tearing(p)'
<1> SUFFICES ASSUME p \in torn', Still(p)' PROVE (index[p] = base[p])'
  BY DEF Tearing
<1>1. Still(p) /\ Same(p) /\ base' = base
  BY OthersAt
<1>2. p \in torn
  BY <1>1 DEF Others, Touched, Retracked, Same
<1> QED
  BY <1>1, <1>2 DEF Tearing, Same

\* A masked entry that cannot be listed is in no diff.
LEMMA TearingOwn ==
    ASSUME Sound, Collect \/ Conflicts \/ Materialize \/ Checks \/ Conclude,
           NEW p \in Path, Tearing(p), p \notin torn => Reading(p)
    PROVE  Tearing(p)'
<1>0. UNCHANGED treeVars
  BY OwnSteps
<1>1. CASE torn' = torn
  BY <1>0, <1>1 DEF Tearing, Still, treeVars, Flag
<1>2. CASE FlagsUnread
  <2> SUFFICES ASSUME p \notin torn, p \in torn' PROVE index[p] = base[p]
    BY <1>0 DEF Tearing, Still, treeVars, Flag
  <2>1. pc = "flags" /\ p \in mask \ Listed
    BY <1>2 DEF FlagsUnread
  <2>2. changes[p] = Collected(p) /\ changes[p].status = "-"
    BY <2>1, ListedNow DEF Reading
  <2>3. StatusNow(p) = "-"
    BY <2>2 DEF Collected
  <2> QED
    BY <2>3, NothingListed, StatusOf
<1>3. torn' = torn \/ FlagsUnread
  <2>1. CASE Collect
    BY <2>1 DEF Collect, ReadRefs, ReadCached, ReadWorktree, ReadUntracked,
       ReadBlobs, ReadFlags, Record, HashFile, HashMasked, world, repoVars
  <2>2. CASE Conflicts
    BY <2>2 DEF Conflicts, ReadStaged, ReadUnstaged, ReadReplacements, ReadMasks,
       SkipChecks, Conflicting, world, repoVars
  <2>3. CASE Materialize
    BY <2>3 DEF Materialize, RequireUnmasked, ApplyPatch, ListUntracked,
       CopyUntracked,
       RequireStillUnmasked, RoomOnly, world, repoVars
  <2>4. CASE Checks
    BY <2>4 DEF Checks, ChecksEnd, CheckReads, CheckWrites, world, repoVars
  <2>5. CASE Conclude
    BY <2>5 DEF Conclude, CompareChanges, Decide, GitFails, RoomOnly, world,
       repoVars
  <2> QED
    BY <2>1, <2>2, <2>3, <2>4, <2>5
<1> QED
  BY <1>1, <1>2, <1>3

-----------------------------------------------------------------------------
\* Foreign

Unknown(p) == {base[p]} \cup past[p].index = {Absent}

\* A path that is nowhere known is in no diff and not masked.
LEMMA UnknownNow ==
    ASSUME Sound, NEW p \in Path, Remembers(p), Unknown(p)
    PROVE  /\ base[p] = Absent /\ index[p] = Absent /\ p \notin mask /\ p \notin Tracked
           /\ CachedStatus(p) = "-" /\ WorktreeStatus(p) = "-"
<1>1. base[p] = Absent /\ index[p] = Absent
  BY DEF Unknown, Remembers
<1>2. p \notin mask /\ p \notin Tracked
  BY <1>1 DEF Sound, RepositoryTypeOK, Tracked
<1> QED
  BY <1>1, <1>2 DEF CachedStatus, WorktreeStatus, WorktreeView, Status

\* Others make a path known, never unknown.
LEMMA ForeignOthers ==
    ASSUME Sound, Others, NEW p \in Path, Remembers(p), Foreign(p)
    PROVE  Foreign(p)'
<1>1. base' = base /\ Grows(p) /\ UNCHANGED <<pc, cached, worktree, changes, todo>>
  BY OthersAt DEF captureVars, observation
<1>2. Unknown(p)' => Unknown(p)
  BY <1>1 DEF Unknown, Grows, Remembers
<1> QED
  BY <1>1, <1>2 DEF Foreign, Unknown

\* A step that changes no observation.
LEMMA ForeignFrame ==
    ASSUME NEW p \in Path, Foreign(p), UNCHANGED <<treeVars, cached, worktree, changes>>,
           pc' # "masked"
    PROVE  Foreign(p)'
BY DEF Foreign, treeVars

\* collect_changes lists an unknown path as a new file or not at all.
LEMMA ForeignCollect ==
    ASSUME Sound, Collect, NEW p \in Path, Remembers(p), Foreign(p)
    PROVE  Foreign(p)'
<1>0. UNCHANGED treeVars
  BY OwnSteps
<1> SUFFICES ASSUME Unknown(p)
             PROVE  (/\ cached[p] = "-" /\ worktree[p] = "-" /\ changes[p].status \in {"-", "A"}
                     /\ pc = "masked" => p \notin todo)'
  BY <1>0 DEF Foreign, Unknown, treeVars
<1>a. /\ base[p] = Absent /\ index[p] = Absent /\ p \notin mask
      /\ CachedStatus(p) = "-" /\ WorktreeStatus(p) = "-"
  BY UnknownNow
<1>b. /\ cached[p] = "-" /\ worktree[p] = "-" /\ changes[p].status \in {"-", "A"}
      /\ pc = "masked" => p \notin todo
  BY DEF Foreign, Unknown
<1>1. CASE ReadRefs
  BY <1>b, <1>1 DEF ReadRefs, observation
<1>2. CASE ReadCached
  BY <1>a, <1>b, <1>2 DEF ReadCached
<1>3. CASE ReadWorktree
  BY <1>a, <1>b, <1>3 DEF ReadWorktree
<1>4. CASE ReadUntracked
  BY <1>a, <1>b, <1>4 DEF ReadUntracked, Merged
<1>5. ASSUME NEW q \in Path, HashFile(q) PROVE (changes[p].status)' = changes[p].status
  BY <1>5 DEF HashFile, Sound, CaptureTypeOK, RecordType
<1>6. CASE ReadBlobs
  <2>1. p \notin Indexed
    BY <1>b DEF Indexed
  <2> QED
    BY <1>b, <1>6, <2>1 DEF ReadBlobs
<1>7. CASE ReadFlags
  BY <1>a, <1>b, <1>7 DEF ReadFlags
<1>8. CASE FlagsUnread
  BY <1>a, <1>b, <1>8 DEF FlagsUnread
<1>9. ASSUME NEW q \in Path, HashMasked(q)
      PROVE  changes'[p] = changes[p] /\ p \notin todo'
  <2>1. q # p
    BY <1>b, <1>9 DEF HashMasked
  <2>2. p \notin todo
    BY <1>b, <1>9 DEF HashMasked
  <2> QED
    BY <1>9, <2>1, <2>2 DEF HashMasked, Sound, CaptureTypeOK, RecordType
<1>10. CASE Record
  BY <1>b, <1>10 DEF Record, observation
<1>11. ASSUME NEW q \in Path, HashFile(q) \/ HashMasked(q)
       PROVE  (/\ cached[p] = "-" /\ worktree[p] = "-" /\ changes[p].status \in {"-", "A"}
               /\ pc = "masked" => p \notin todo)'
  <2>1. UNCHANGED <<cached, worktree, pc>>
    BY <1>11 DEF HashFile, HashMasked
  <2>2. CASE HashFile(q)
    BY <1>5, <1>b, <2>1, <2>2 DEF HashFile
  <2>3. CASE HashMasked(q)
    BY <1>9, <1>b, <2>1, <2>3
  <2> QED
    BY <1>11, <2>2, <2>3
<1> QED
  BY <1>1, <1>2, <1>3, <1>4, <1>6, <1>7, <1>8, <1>10, <1>11 DEF Collect

\* The other steps change no observation.
LEMMA ForeignElse ==
    ASSUME Sound, Conflicts \/ Materialize \/ Checks \/ Conclude, NEW p \in Path, Foreign(p)
    PROVE  Foreign(p)'
<1>1. pc' # "masked"
  BY NotCollecting DEF Collecting
<1>2. UNCHANGED treeVars
  BY OwnSteps
<1>3. UNCHANGED <<cached, worktree, changes>>
  <2>2. CASE Conflicts
    BY <2>2 DEF Conflicts, ReadStaged, ReadUnstaged, ReadReplacements, ReadMasks,
       SkipChecks, Conflicting, observation
  <2>3. CASE Materialize
    BY <2>3 DEF Materialize, RequireUnmasked, ApplyPatch, ListUntracked,
       CopyUntracked,
       RequireStillUnmasked, RoomOnly
  <2>4. CASE Checks
    BY <2>4 DEF Checks, ChecksEnd, CheckReads, CheckWrites, observation
  <2>5. CASE Conclude
    BY <2>5 DEF Conclude, CompareChanges, Decide, GitFails, RoomOnly, observation
  <2> QED
    BY <2>2, <2>3, <2>4, <2>5
<1> QED
  BY <1>1, <1>2, <1>3, ForeignFrame

-----------------------------------------------------------------------------
\* The invariant of all paths, as far as the checks are not concerned.

Watched(p) ==
    /\ Remembers(p) /\ Tearing(p) /\ Foreign(p)
    /\ p \notin torn => Reading(p) /\ Finding(p) /\ Keeping(p)

\* All of it holds initially.
LEMMA WatchedInit == ASSUME Init, NEW p \in Path PROVE Watched(p)
<1> USE DEF Init, RepositoryInit
<1>1. Remembers(p)
  <2>1. past[p] = [index |-> {index[p]}, work |-> {work[p]}, mask |-> {Flag(p)}]
    OBVIOUS
  <2> QED
    BY <2>1 DEF Remembers
<1>2. Tearing(p)
  BY DEF Tearing
<1>3. Foreign(p)
  BY DEF Foreign, Nothing
<1>4. Reading(p) /\ Finding(p)
  BY DEF Reading, Finding, Collecting, Comparing, Compared, Deciding
<1>5. Keeping(p)
  BY DEF Keeping, Recorded, Comparing, InRoom, Deciding
<1> QED
  BY <1>1, <1>2, <1>3, <1>4, <1>5 DEF Watched

\* It depends on nothing else.
LEMMA WatchedFrame ==
    ASSUME NEW p \in Path, Watched(p), UNCHANGED <<treeVars, pc, observation, progress, torn>>
    PROVE  Watched(p)'
<1>0. base' = base /\ Same(p) /\ UNCHANGED <<past, index, work, mask>>
  BY RepositoryStays DEF treeVars
<1>1. /\ StatusNow(p)' = StatusNow(p) /\ HashNow(p)' = HashNow(p)
      /\ Hashable(p)' <=> Hashable(p)
      /\ Collected(p)' = Collected(p) /\ Observed(p)' = Observed(p)
  BY <1>0, SameObservation
<1>2. /\ CachedStatus(p)' = CachedStatus(p) /\ WorktreeView(p)' = WorktreeView(p)
      /\ WorktreeStatus(p)' = WorktreeStatus(p) /\ (Agreed(p)' <=> Agreed(p))
  BY <1>0, SameStatus
<1>3. UNCHANGED <<cached, worktree, changes, todo, recorded, staged, conflicts, round>>
  BY DEF observation, progress
<1>4. Remembers(p)'
  <2>1. (Flag(p) \in past[p].mask)'
    BY <1>0 DEF Watched, Remembers, Flag
  <2> QED
    BY <1>0, <2>1 DEF Watched, Remembers
<1>5. Tearing(p)' /\ Foreign(p)'
  BY <1>0, <1>3 DEF Watched, Tearing, Foreign, Still, Flag
<1>6. Reading(p) => Reading(p)'
  BY <1>0, <1>1, <1>2, <1>3 DEF Reading
<1>7. Finding(p) => Finding(p)'
  BY <1>0, <1>2, <1>3 DEF Finding, Compared
<1>8. Keeping(p) => Keeping(p)'
  BY <1>0, <1>1, <1>3 DEF Keeping, Recorded, Still, Flag
<1> QED
  BY <1>4, <1>5, <1>6, <1>7, <1>8 DEF Watched

\* It is inductive, given the types and the flow of control.
LEMMA WatchedStep ==
    ASSUME Sound, Next, NEW p \in Path, Watched(p)
    PROVE  Watched(p)'
<1>1. CASE Others
  <2>1. torn \subseteq torn' /\ Remembers(p)'
    BY <1>1, OthersAt DEF Watched
  <2>2. Tearing(p)' /\ Foreign(p)'
    BY <1>1, TearingOthers, ForeignOthers DEF Watched
  <2>3. p \notin torn' => Reading(p)' /\ Finding(p)' /\ Keeping(p)'
    BY <1>1, <2>1, ReadingOthers, FindingOthers, KeepingOthers DEF Watched
  <2> QED
    BY <2>1, <2>2, <2>3 DEF Watched
<1>2. CASE Collect \/ Conflicts \/ Materialize \/ Checks \/ Conclude
  <2>1. UNCHANGED treeVars /\ torn \subseteq torn'
    BY <1>2, OwnSteps
  <2>2. Remembers(p)'
    <3>1. (Flag(p) \in past[p].mask)'
      BY <2>1 DEF Watched, Remembers, treeVars, Flag
    <3> QED
      BY <2>1, <3>1 DEF Watched, Remembers, treeVars
  <2>3. Tearing(p)'
    BY <1>2, TearingOwn DEF Watched
  <2>4. Foreign(p)'
    BY <1>2, ForeignCollect, ForeignElse DEF Watched
  <2>5. ASSUME p \notin torn' PROVE Reading(p)' /\ Finding(p)' /\ Keeping(p)'
    <3>1. p \notin torn /\ Reading(p) /\ Finding(p) /\ Keeping(p)
      BY <2>1, <2>5 DEF Watched
    <3>2. Reading(p)'
      BY <1>2, <2>5, <3>1, ReadingCollect, ReadingElse
    <3>3. Finding(p)'
      BY <1>2, <3>1, FindingConflicts, FindingElse
    <3>4. Keeping(p)'
      BY <1>2, <3>1, KeepingOwn
    <3> QED
      BY <3>2, <3>3, <3>4
  <2> QED
    BY <2>2, <2>3, <2>4, <2>5 DEF Watched
<1>3. CASE Delivered
  <2>1. UNCHANGED treeVars /\ UNCHANGED <<pc, observation, progress, torn>>
    BY <1>3 DEF Delivered, vars, world, repoVars, captureVars
  <2> QED
    BY <2>1, WatchedFrame
<1> QED
  BY <1>1, <1>2, <1>3 DEF Next

-----------------------------------------------------------------------------
\* What a record says of a path, and when that is the file that is there.

Says(p, r) == IF r.status = "-" THEN base[p]
              ELSE IF r.status = "D" THEN Absent ELSE r.after

\* The record of a staged path that agrees with the working tree.
LEMMA StagedSays ==
    ASSUME Sound, NEW p \in Path, Agreed(p), index[p] # base[p]
    PROVE  Says(p, Observed(p)) = work[p]
<1>1. index[p] = work[p] /\ p \notin mask
  BY DEF Agreed
<1>2. WorktreeView(p) = index[p]
  BY <1>1 DEF WorktreeView
<1>3. CachedStatus(p) = Status(base[p], index[p]) /\ WorktreeStatus(p) = Status(base[p], index[p])
  BY <1>2 DEF CachedStatus, WorktreeStatus
<1>4. /\ index[p] = Absent => Status(base[p], index[p]) = "D"
      /\ index[p] # Absent => Status(base[p], index[p]) \in {"A", "M"}
  BY DEF Status
<1>5. StatusNow(p) = Status(base[p], index[p]) /\ Observed(p) = Collected(p)
  BY <1>3, <1>4 DEF StatusNow, New, Diffed, Observed, Surfaced
<1> QED
  BY <1>1, <1>3, <1>4, <1>5 DEF Says, Collected

\* A file that has a hash is the file.
LEMMA HashOfFile == ASSUME NEW o, FileHash(o) # Absent PROVE FileHash(o) = o
BY DEF FileHash

\* The record of a path the index has as the base has it.
LEMMA UnstagedSays ==
    ASSUME Sound, NEW p \in Path, index[p] = base[p],
           Observed(p).status \in {"A", "M"} => Observed(p).after # Absent,
           p \in mask => work[p] \in Content
    PROVE  Says(p, Observed(p)) = work[p]
<1>1. CachedStatus(p) = "-"
  BY StatusOf
<1>2. CASE index[p] = Absent
  <2>1. p \notin mask /\ WorktreeView(p) = Absent
    BY <1>2 DEF Sound, RepositoryTypeOK, WorktreeView
  <2>2. WorktreeStatus(p) = "-"
    BY <1>2, <2>1 DEF WorktreeStatus, Status
  <2>3. Diffed(p) = "-" /\ (New(p) <=> work[p] # Absent)
    BY <1>1, <1>2, <2>2 DEF Diffed, New, Untracked
  <2>4. Observed(p) = [status |-> StatusNow(p), after |-> HashNow(p)]
    BY <1>1, <2>1, ObservedIs DEF Collected
  <2>5. CASE work[p] = Absent
    <3>1. StatusNow(p) = "-"
      BY <2>3, <2>5 DEF StatusNow
    <3> QED
      BY <1>2, <2>4, <2>5, <3>1 DEF Says
  <2>6. CASE work[p] # Absent
    <3>1. StatusNow(p) = "A" /\ HashNow(p) = FileHash(work[p])
      BY <2>3, <2>6 DEF StatusNow, HashNow, Hashable
    <3> QED
      BY <2>4, <3>1, HashOfFile DEF Says
  <2> QED
    BY <2>5, <2>6
<1>3. CASE index[p] # Absent /\ p \notin mask
  <2>1. WorktreeView(p) = work[p] /\ ~New(p)
    BY <1>3 DEF WorktreeView, New, Untracked
  <2>2. WorktreeStatus(p) = Status(base[p], work[p])
    BY <2>1 DEF WorktreeStatus
  <2>3. StatusNow(p) = Status(base[p], work[p])
    BY <1>1, <2>1, <2>2 DEF StatusNow, Diffed
  <2>4. Observed(p) = [status |-> StatusNow(p), after |-> HashNow(p)]
    BY <1>1, <1>3, ObservedIs DEF Collected
  <2>5. Status(base[p], work[p]) \in {"-", "D", "M"}
        /\ (Status(base[p], work[p]) = "-" => base[p] = work[p])
        /\ (Status(base[p], work[p]) = "D" => work[p] = Absent)
    BY <1>3 DEF Status
  <2>6. Status(base[p], work[p]) = "M" => HashNow(p) = FileHash(work[p])
    BY <2>2 DEF HashNow, Hashable
  <2> QED
    BY <2>3, <2>4, <2>5, <2>6, HashOfFile DEF Says
<1>4. CASE index[p] # Absent /\ p \in mask
  <2>1. WorktreeView(p) = index[p] /\ ~New(p)
    BY <1>4 DEF WorktreeView, New, Untracked
  <2>2. StatusNow(p) = "-"
    BY <1>1, <2>1 DEF WorktreeStatus, Status, StatusNow, Diffed
  <2>3. FileHash(work[p]) = work[p] /\ work[p] # Absent
    BY <1>4, ObjectAssumption DEF FileHash
  <2>4. work[p] # base[p] => Observed(p) = [status |-> "M", after |-> work[p]]
    BY <1>4, <2>2, <2>3, ObservedIs
  <2>5. work[p] = base[p] => Observed(p).status = "-"
    BY <2>2, <2>3, ObservedIs DEF Collected
  <2> QED
    BY <2>4, <2>5 DEF Says
<1> QED
  BY <1>2, <1>3, <1>4

\* The first of the reasons for which an object is not identified, and what a
\* masked entry's file is if the second one does not apply.
LEMMA AgreedSays ==
    ASSUME Sound, NEW p \in Path, Remembers(p), Agreed(p),
           Observed(p).status \in {"A", "M"} => Observed(p).after # Absent,
           "masked" \in past[p].mask => past[p].work \subseteq Content
    PROVE  Says(p, Observed(p)) = work[p]
<1>1. p \in mask => work[p] \in Content
  BY DEF Remembers, Flag
<1> QED
  BY <1>1, StagedSays, UnstagedSays

\* The claim is what the evidence's record says.
LEMMA ClaimSays == ASSUME NEW p PROVE Claim(p) = Says(p, recorded[p])
BY DEF Claim, Says

-----------------------------------------------------------------------------
\* StagedIsRecorded and DriftIsReal

\* A path nobody has written to, field by field.
LEMMA StillIs ==
    ASSUME RepositoryTypeOK, NEW p \in Path
    PROVE  Still(p) <=> /\ past[p].index = {index[p]} /\ past[p].work = {work[p]}
                        /\ past[p].mask = {Flag(p)}
<1>1. Still(p) => /\ past[p].index = {index[p]} /\ past[p].work = {work[p]}
                  /\ past[p].mask = {Flag(p)}
  BY DEF Still
<1>2. past[p].index = {index[p]} /\ past[p].work = {work[p]} /\ past[p].mask = {Flag(p)}
      => Still(p)
  BY PastShape DEF Still
<1> QED
  BY <1>1, <1>2

Guarded == Sound /\ \A p \in Path : Watched(p)

\* Of a path nobody has written to, a PASS means agreement and a right record.
LEMMA GuardedStaged == Guarded => StagedIsRecorded
<1> SUFFICES ASSUME Guarded, verdict = "PASS", NEW p \in Path, Still(p), index[p] # base[p]
             PROVE  index[p] = work[p] /\ Claim(p) = index[p]
  BY StillIs DEF StagedIsRecorded, Guarded, Sound
<1>1. pc = "done" /\ conflicts = {} /\ Watched(p) /\ Sound
  BY DEF Guarded, Sound, Flow, Judging
<1>2. p \notin torn
  BY <1>1 DEF Watched, Tearing
<1>3. Agreed(p) /\ recorded[p] = Observed(p)
  BY <1>1, <1>2 DEF Watched, Finding, Keeping, Compared, Recorded, Deciding
<1> QED
  BY <1>1, <1>3, StagedSays, ClaimSays DEF Agreed

DriftReal(p) == (~Still(p) \/ p \in torn) /\ (recorded[p].status # "-" \/ ~Unknown(p))

\* DriftIsReal, path by path.
LEMMA DriftRealIs ==
    ASSUME Sound
    PROVE  DriftIsReal <=> \A p \in drifted : DriftReal(p)
<1>1. RepositoryTypeOK /\ drifted \subseteq Path
  BY DEF Sound, CaptureTypeOK
<1>2. ASSUME NEW p \in drifted
      PROVE  DriftReal(p) <=>
                /\ \/ past[p].index # {index[p]}
                   \/ past[p].work # {work[p]}
                   \/ past[p].mask # {Flag(p)}
                   \/ p \in torn
                /\ recorded[p].status # "-" \/ {base[p]} \cup past[p].index # {Absent}
  BY <1>1, StillIs DEF DriftReal, Unknown
<1> QED
  BY <1>2 DEF DriftIsReal

\* _drifted_paths names no path without a reason.
LEMMA DriftCompare ==
    ASSUME Guarded, CompareChanges, NEW p \in Path, p \in drifted'
    PROVE  DriftReal(p)
<1>1. pc = "masked" /\ todo = {} /\ round = 2 /\ p \in Drift(Tracked)
  BY DEF CompareChanges
<1>2. Watched(p) /\ Sound
  BY DEF Guarded
<1>3. p \in Moved \/ p \in Joined(Tracked)
  BY <1>1 DEF Drift
<1>4. ASSUME Still(p), p \notin torn PROVE FALSE
  <2>1. recorded[p] = Observed(p) /\ changes[p] = Observed(p)
    BY <1>1, <1>2, <1>4 DEF Watched, Keeping, Recorded, Reading
  <2> QED
    BY <1>3, <2>1 DEF Moved, Joined, Listed
<1>5. ASSUME recorded[p].status = "-", Unknown(p) PROVE FALSE
  <2>1. p \in Joined(Tracked)
    BY <1>3, <1>5 DEF Moved
  <2>2. p \notin Tracked
    BY <1>2, <1>5, UnknownNow DEF Watched
  <2>3. changes[p].status \in {"-", "A"}
    BY <1>2, <1>5 DEF Watched, Foreign, Unknown
  <2> QED
    BY <2>1, <2>2, <2>3 DEF Joined, Listed
<1> QED
  BY <1>4, <1>5 DEF DriftReal

\* Of the capture's own steps only the comparison finds drift; what is recorded
\* stays recorded once there is drift.
LEMMA DriftOnlyCompared ==
    ASSUME Sound, Collect \/ Conflicts \/ Materialize \/ Checks \/ Conclude, ~CompareChanges
    PROVE  drifted' = drifted /\ (recorded' = recorded \/ drifted = {})
<1>1. CASE Record
  BY <1>1 DEF Record, Sound, Flow, Judging
<1>2. CASE Collect /\ ~Record
  BY <1>2 DEF Collect, ReadRefs, ReadCached, ReadWorktree, ReadUntracked,
     ReadBlobs, ReadFlags, FlagsUnread, HashFile, HashMasked, progress
<1>3. CASE Conflicts
  BY <1>3 DEF Conflicts, ReadStaged, ReadUnstaged, ReadReplacements, ReadMasks,
     SkipChecks, Conflicting
<1>4. CASE Materialize
  BY <1>4 DEF Materialize, RequireUnmasked, ApplyPatch, ListUntracked,
     CopyUntracked,
     RequireStillUnmasked, RoomOnly
<1>5. CASE Checks
  BY <1>5 DEF Checks, ChecksEnd, CheckReads, CheckWrites
<1>6. CASE Conclude
  BY <1>6 DEF Conclude, Decide, GitFails, RoomOnly
<1> QED
  BY <1>1, <1>2, <1>3, <1>4, <1>5, <1>6

Drifting == \A p \in drifted : DriftReal(p)

\* Once there is a reason there is one.
LEMMA DriftStep == ASSUME Guarded, Next, Drifting PROVE Drifting'
<1>0. Sound /\ drifted \subseteq Path /\ \A p \in Path : Watched(p)
  BY DEF Guarded, Sound, CaptureTypeOK
<1>1. CASE Others
  <2>1. UNCHANGED <<drifted, recorded>>
    BY <1>1 DEF Others, captureVars, progress
  <2> SUFFICES ASSUME NEW p \in drifted PROVE DriftReal(p)'
    BY <2>1 DEF Drifting
  <2>2. /\ base' = base /\ Grows(p) /\ torn \subseteq torn' /\ (Still(p)' => Still(p))
    BY <1>0, <1>1, OthersAt DEF Watched
  <2>3. Unknown(p)' => Unknown(p)
    BY <1>0, <2>2 DEF Unknown, Grows, Watched, Remembers
  <2>4. DriftReal(p)
    BY DEF Drifting
  <2> QED
    BY <2>1, <2>2, <2>3, <2>4 DEF DriftReal
<1>2. CASE Collect \/ Conflicts \/ Materialize \/ Checks \/ Conclude
  <2>1. UNCHANGED treeVars /\ torn \subseteq torn'
    BY <1>2, OwnSteps
  <2>2. CASE CompareChanges
    <3>1. recorded' = recorded /\ drifted' \subseteq Path
      BY <1>0, <2>2 DEF CompareChanges, Drift, Moved, Joined, Listed
    <3>2. ASSUME NEW p \in drifted' PROVE DriftReal(p)'
      <4>1. DriftReal(p)
        BY <2>2, <3>1, DriftCompare
      <4> QED
        BY <2>1, <3>1, <4>1 DEF DriftReal, Still, Flag, Unknown, treeVars
    <3> QED
      BY <3>2 DEF Drifting
  <2>3. CASE ~CompareChanges
    <3>1. drifted' = drifted /\ (recorded' = recorded \/ drifted = {})
      BY <1>0, <1>2, <2>3, DriftOnlyCompared
    <3>2. ASSUME NEW p \in drifted' PROVE DriftReal(p)'
      <4>1. DriftReal(p) /\ recorded' = recorded
        BY <3>1, <3>2 DEF Drifting
      <4> QED
        BY <2>1, <4>1 DEF DriftReal, Still, Flag, Unknown, treeVars
    <3> QED
      BY <3>2 DEF Drifting
  <2> QED
    BY <2>2, <2>3
<1>3. CASE Delivered
  <2>1. UNCHANGED <<treeVars, torn, drifted, recorded>>
    BY <1>3 DEF Delivered, vars, world, repoVars, captureVars, progress
  <2> QED
    BY <2>1 DEF Drifting, DriftReal, Still, Flag, Unknown, treeVars
<1> QED
  BY <1>1, <1>2, <1>3 DEF Next

\* The invariant holds initially.
LEMMA GuardedInit == Init => Guarded /\ Drifting
<1>1. Init => Sound
  BY SoundInit
<1>2. Init => \A p \in Path : Watched(p)
  BY WatchedInit
<1>3. Init => Drifting
  BY DEF Init, Drifting
<1> QED
  BY <1>1, <1>2, <1>3 DEF Guarded

\* The invariant is inductive.
LEMMA GuardedStep == Guarded /\ Drifting /\ [Next]_vars => Guarded' /\ Drifting'
<1> SUFFICES ASSUME Guarded, Drifting, [Next]_vars PROVE Guarded' /\ Drifting'
  OBVIOUS
<1>0. Sound /\ \A p \in Path : Watched(p)
  BY DEF Guarded
<1>2. Sound'
  BY <1>0, SoundStep
<1>3. CASE Next
  <2>1. \A p \in Path : Watched(p)'
    BY <1>0, <1>3, WatchedStep
  <2> QED
    BY <1>2, <1>3, <2>1, DriftStep DEF Guarded
<1>4. CASE UNCHANGED vars
  <2>1. UNCHANGED <<treeVars, pc, observation, progress, torn, drifted, recorded>>
    BY <1>4 DEF vars, world, repoVars, captureVars, progress
  <2>2. \A p \in Path : Watched(p)'
    BY <1>0, <2>1, WatchedFrame
  <2>3. Drifting'
    BY <2>1 DEF Drifting, DriftReal, Still, Flag, Unknown, treeVars
  <2> QED
    BY <1>2, <2>2, <2>3 DEF Guarded
<1> QED
  BY <1>3, <1>4

\* _drifted_paths raises no false alarm: a drifted path was written to during the
\* capture, and it was recorded, in the base, or at some time in the index.
THEOREM DriftIsNoFalseAlarm == Spec => []DriftIsReal
<1>1. Guarded /\ Drifting => DriftIsReal
  BY DriftRealIs DEF Drifting, Guarded
<1> QED
  BY GuardedInit, GuardedStep, <1>1, PTL DEF Spec

\* verification_conflicts and the record: a PASS never covers a staged object other
\* than the one the working tree shows, and records exactly that object.
THEOREM StagedIsWhatIsRecorded == Spec => []StagedIsRecorded
BY GuardedInit, GuardedStep, GuardedStaged, PTL DEF Spec

-----------------------------------------------------------------------------
\* Testing

\* An object identified now has been all along.
LEMMA IdentifiedBefore ==
    ASSUME NEW p, Grows(p), recorded' = recorded, Identified(p)'
    PROVE  Identified(p)
BY DEF Identified, Grows

\* The claim depends on the base and the record only.
LEMMA ClaimStays ==
    ASSUME NEW p, base' = base, recorded' = recorded PROVE Claim(p)' = Claim(p)
BY DEF Claim

\* What others do to the file, its entry or its flag takes nothing away that
\* the claim still needs.
LEMMA ProvidedOthers ==
    ASSUME Sound, Others, NEW p \in Path, Remembers(p), p \notin torn', p \notin restored',
           work'[p] = work[p], work[p] = Claim(p), Claim(p)' = Claim(p), Provided(p)
    PROVE  Provided(p)'
<1> USE DEF InRoom
<1>1. /\ Grows(p) /\ Notices(p)
      /\ Materializing => (index'[p] = Absent <=> index[p] = Absent)
      /\ UNCHANGED <<pc, mode, room, made, todo>>
  BY OthersAt DEF captureVars, observation, progress
<1>2. ("plain" \in past[p].mask => "plain" \in past'[p].mask)
      /\ ("plain" \in past[p].mask /\ p \notin mask' => p \notin mask)
  BY <1>1 DEF Grows, Notices
<1>3. pc \in InRoom \ {"room"} => "plain" \in past[p].mask
  BY DEF Provided
<1>4. ASSUME pc = "list", p \notin mask' PROVE room[p] = Claim(p) \/ (p \in Untracked)'
  <2>1. p \notin mask
    BY <1>2, <1>3, <1>4
  <2>2. room[p] = Claim(p) \/ p \in Untracked
    BY <1>4, <2>1 DEF Provided
  <2>3. Materializing
    BY <1>4 DEF Materializing
  <2> QED
    BY <1>1, <2>2, <2>3 DEF Untracked
<1>5. ASSUME pc = "copy", p \notin mask' PROVE room[p] = Claim(p) \/ p \in todo
  <2>1. p \notin mask
    BY <1>2, <1>3, <1>5
  <2> QED
    BY <1>5, <2>1 DEF Provided
<1>6. pc = "checks" /\ mode = "clean" => room[p] \in {Claim(p)} \cup made[p]
  BY DEF Provided
<1> QED
  BY <1>1, <1>2, <1>3, <1>4, <1>5, <1>6 DEF Provided

\* Others may take the claimed object away, but cannot bring it back unnoticed.
LEMMA TestingOthers ==
    ASSUME Sound, Others, NEW p \in Path, Remembers(p), Testing(p),
           p \notin torn', p \notin restored'
    PROVE  Testing(p)'
<1>1. /\ base' = base /\ Grows(p) /\ Notices(p)
      /\ UNCHANGED <<pc, recorded, ran, seen, made>>
  BY OthersAt DEF captureVars, progress
<1>2. Claim(p)' = Claim(p)
  BY <1>1, ClaimStays
<1>3. Tested' <=> Tested
  BY <1>1 DEF Tested
<1> SUFFICES ASSUME Tested, Identified(p)'
             PROVE  (/\ Claim(p) \in past[p].work
                     /\ work[p] = Claim(p) => seen[p] \subseteq {Claim(p)} \cup made[p] /\ Provided(p))'
  BY <1>3 DEF Testing
<1>4. Identified(p)
  BY <1>1, IdentifiedBefore
<1>5. Claim(p) \in past[p].work /\ (work[p] = Claim(p) => seen[p] \subseteq {Claim(p)} \cup made[p] /\ Provided(p))
  BY <1>4 DEF Testing
<1>6. (Claim(p) \in past[p].work)'
  BY <1>1, <1>2, <1>5 DEF Grows
<1>7. ASSUME work'[p] = Claim(p) PROVE seen[p] \subseteq {Claim(p)} \cup made[p] /\ Provided(p)'
  <2>1. work'[p] = work[p]
    BY <1>1, <1>5, <1>7 DEF Notices
  <2>2. Provided(p) /\ seen[p] \subseteq {Claim(p)} \cup made[p] /\ work[p] = Claim(p)
    BY <1>5, <1>7, <2>1
  <2> QED
    BY <1>2, <2>1, <2>2, ProvidedOthers
<1> QED
  BY <1>1, <1>2, <1>6, <1>7

\* A step after which no disposable worktree is being made or read.
LEMMA TestingFrame ==
    ASSUME NEW p \in Path, Testing(p), UNCHANGED <<treeVars, recorded, ran, seen, made>>,
           pc' \notin InRoom \cup {"checks"}
    PROVE  Testing(p)'
<1>1. Claim(p)' = Claim(p) /\ (Identified(p)' <=> Identified(p))
  BY DEF Claim, Identified, treeVars
<1>2. Tested' => Tested
  BY DEF Tested
<1>3. Provided(p)'
  BY DEF Provided, InRoom
<1> QED
  BY <1>1, <1>2, <1>3 DEF Testing, treeVars

\* The first checks are about to be run, or the disposable worktree to be made.
LEMMA TestingBegins ==
    ASSUME Sound, ReadStaged \/ ReadMasks, NEW p \in Path, Remembers(p), Finding(p), Keeping(p),
           pc' \in {"room", "checks"}
    PROVE  Testing(p)'
<1> USE DEF Comparing, InRoom
<1>0. UNCHANGED treeVars /\ UNCHANGED <<mode, recorded, seen, round, room>>
  BY DEF ReadStaged, ReadMasks, Conflicting, world, repoVars
<1>1. conflicts' = {} /\ round = 1 /\ pc \in Comparing /\ (pc' = "checks" => mode # "clean")
  <2>1. \/ pc' = AfterConflicts(conflicts') /\ pc \in Comparing
        \/ pc' = AfterConflicts(conflicts) /\ conflicts' = conflicts /\ pc \in Comparing
    BY DEF ReadStaged, ReadMasks, Conflicting
  <2> QED
    BY <2>1, AfterConflictsLeads
<1>2. Agreed(p) /\ recorded[p] = Observed(p)
  BY <1>1, ComparedAgree DEF Keeping, Recorded
<1>3. ~ran
  BY <1>1, SMT DEF Sound, Flow, Running
<1>4. seen[p] = {}
  BY <1>3 DEF Sound, Flow, Running
<1>5. Identified(p) => Claim(p) = work[p]
  BY <1>2, AgreedSays, ClaimSays DEF Identified
<1>6. Claim(p)' = Claim(p) /\ (Identified(p)' <=> Identified(p))
  BY <1>0 DEF Claim, Identified, treeVars
<1>7. Provided(p)'
  BY <1>0, <1>1 DEF Provided
<1>8. work[p] \in past[p].work
  BY DEF Remembers
<1> QED
  BY <1>0, <1>4, <1>5, <1>6, <1>7, <1>8 DEF Testing, treeVars

\* verification_conflicts may begin the checks and does not touch them.
LEMMA TestingConflicts ==
    ASSUME Sound, Conflicts, NEW p \in Path, Remembers(p), Finding(p), Keeping(p), Testing(p)
    PROVE  Testing(p)'
<1> USE DEF InRoom
<1>0. UNCHANGED <<treeVars, recorded, seen, made>>
  BY OwnSteps DEF Conflicts, ReadStaged, ReadUnstaged, ReadReplacements,
     ReadMasks,
       SkipChecks, Conflicting
<1>1. CASE ReadStaged \/ ReadMasks
  <2>1. CASE pc' \in {"room", "checks"}
    BY <1>1, <2>1, TestingBegins
  <2>2. CASE pc' \notin {"room", "checks"}
    <3>1. ASSUME NEW found PROVE AfterConflicts(found) \notin InRoom \ {"room"}
      BY DEF AfterConflicts
    <3>2. pc' \notin InRoom \cup {"checks"}
      BY <1>1, <2>2, <3>1 DEF ReadStaged, ReadMasks
    <3>3. ran' = ran
      <4>1. ran' = (ran \/ pc' = "checks")
        BY <1>1 DEF ReadStaged, ReadMasks, StartsChecks
      <4> QED
        BY <2>2, <4>1 DEF Sound, CaptureTypeOK
    <3> QED
      BY <1>0, <3>2, <3>3, TestingFrame
  <2> QED
    BY <2>1, <2>2
<1>2. CASE ReadUnstaged \/ ReadReplacements \/ SkipChecks
  <2>1. UNCHANGED ran /\ pc' \in {"replaced", "masks", "staged"}
    BY <1>2 DEF ReadUnstaged, ReadReplacements, SkipChecks
  <2> QED
    BY <1>0, <2>1, TestingFrame
<1> QED
  BY <1>1, <1>2 DEF Conflicts

\* In the disposable worktree: what remains to be shown of each step.
LEMMA TestingRoom ==
    ASSUME NEW p \in Path, Testing(p), UNCHANGED <<treeVars, recorded, seen, made>>, pc \in InRoom,
           Claim(p) \in past[p].work /\ work[p] = Claim(p) /\ Provided(p) => Provided(p)'
    PROVE  Testing(p)'
<1>1. Claim(p)' = Claim(p) /\ (Identified(p)' <=> Identified(p))
  BY DEF Claim, Identified, treeVars
<1>2. Tested
  BY DEF Tested
<1> QED
  BY <1>1, <1>2 DEF Testing, treeVars

\* Every step of clean_room, up to the second look at the index flags, leaves
\* the claimed object in the worktree or still to be put there.
LEMMA TestingMaterialize ==
    ASSUME Sound, Materialize, NEW p \in Path, Remembers(p), Testing(p)
    PROVE  Testing(p)'
<1> USE DEF InRoom
<1>0. UNCHANGED <<treeVars, recorded, seen, made, mode>> /\ pc \in InRoom
  BY OwnSteps DEF Materialize, RequireUnmasked, ApplyPatch, ListUntracked,
     CopyUntracked,
     RequireStillUnmasked, RoomOnly
<1>c. Claim(p)' = Claim(p) /\ UNCHANGED <<base, index, work, mask, past>>
  BY <1>0, ClaimStays DEF treeVars
<1>a. CASE pc' = "raised"
  <2>1. Provided(p)'
    BY <1>a DEF Provided
  <2> QED
    BY <1>0, <2>1, TestingRoom
<1>1. CASE RequireUnmasked /\ pc' # "raised"
  <2>1. pc' = "patch" /\ p \notin mask
    BY <1>1 DEF RequireUnmasked, Raise
  <2>2. "plain" \in past[p].mask
    BY <2>1 DEF Remembers, Flag
  <2>3. Provided(p)'
    BY <1>c, <2>1, <2>2 DEF Provided
  <2> QED
    BY <1>0, <2>3, TestingRoom
<1>2. CASE ApplyPatch
  <2>1. pc = "patch" /\ pc' = "list" /\ room'[p] = WorktreeView(p)
    BY <1>2 DEF ApplyPatch
  <2> SUFFICES ASSUME work[p] = Claim(p), Provided(p) PROVE Provided(p)'
    BY <1>0, TestingRoom
  <2>2. "plain" \in past[p].mask
    BY <2>1 DEF Provided
  <2>3. p \notin mask => room'[p] = Claim(p) \/ p \in Untracked
    BY <2>1 DEF WorktreeView, Untracked
  <2>4. (p \in Untracked)' <=> p \in Untracked
    BY <1>c DEF Untracked
  <2> QED
    BY <1>c, <2>1, <2>2, <2>3, <2>4 DEF Provided
<1>3. CASE ListUntracked
  <2>1. pc = "list" /\ pc' = "copy" /\ todo' = Untracked /\ room' = room
    BY <1>3 DEF ListUntracked
  <2> SUFFICES ASSUME work[p] = Claim(p), Provided(p) PROVE Provided(p)'
    BY <1>0, TestingRoom
  <2> QED
    BY <1>c, <2>1 DEF Provided
<1>4. ASSUME NEW q \in Path, CopyUntracked(q), pc' # "raised" PROVE Testing(p)'
  <2>1. pc = "copy" /\ pc' = "copy" /\ todo' = todo \ {q} /\ room' = [room EXCEPT ![q] = work[q]]
    BY <1>4 DEF CopyUntracked, Raise
  <2> SUFFICES ASSUME work[p] = Claim(p), Provided(p) PROVE Provided(p)'
    BY <1>0, TestingRoom
  <2>2. room \in [Path -> Object]
    BY <2>1 DEF Sound, RoomType, Flow, Placed
  <2>3. CASE p = q
    <3>1. room'[p] = Claim(p)
      BY <2>1, <2>2, <2>3
    <3> QED
      BY <1>c, <2>1, <3>1 DEF Provided
  <2>4. CASE p # q
    <3>1. room'[p] = room[p] /\ (p \in todo' <=> p \in todo)
      BY <2>1, <2>2, <2>4
    <3> QED
      BY <1>c, <2>1, <3>1 DEF Provided
  <2> QED
    BY <2>3, <2>4
<1>5. CASE RequireStillUnmasked /\ pc' # "raised"
  <2>1. pc = "copy" /\ pc' = "checks" /\ todo = {} /\ p \notin mask /\ room' = room
    BY <1>5 DEF RequireStillUnmasked, Raise
  <2> SUFFICES ASSUME work[p] = Claim(p), Provided(p) PROVE Provided(p)'
    BY <1>0, TestingRoom
  <2> QED
    BY <1>c, <2>1 DEF Provided
<1> QED
  BY <1>a, <1>1, <1>2, <1>3, <1>4, <1>5 DEF Materialize

\* A check reads the claimed object, or what a check made, as long as the file, or
\* the worktree made of it, has the claimed object.
LEMMA TestingChecks ==
    ASSUME Sound, Checks, NEW p \in Path, Testing(p)
    PROVE  Testing(p)'
<1>0. UNCHANGED <<treeVars, recorded, ran>>
  BY OwnSteps DEF Checks, ChecksEnd, CheckReads, CheckWrites
<1>1. CASE ChecksEnd
  <2>1. pc' = "staged" /\ seen' = seen /\ made' = made
    BY <1>1 DEF ChecksEnd
  <2> QED
    BY <1>0, <2>1, TestingFrame DEF InRoom
<1>2. ASSUME CheckReads(p) \/ (\E o \in Object : CheckWrites(p, o)) \/
             (\E q \in Path \ {p} : CheckReads(q) \/ \E o \in Object : CheckWrites(q, o))
      PROVE  Testing(p)'
  <2>0. UNCHANGED <<pc, mode, todo>> /\ pc = "checks"
    BY <1>2 DEF CheckReads, CheckWrites, observation
  <2>c. Claim(p)' = Claim(p) /\ UNCHANGED <<base, index, work, mask, past>>
        /\ (Identified(p)' <=> Identified(p))
    BY <1>0, ClaimStays DEF Identified, treeVars
  <2>t. Tested
    BY <2>0 DEF Tested, Sound, Flow, Running
  <2> SUFFICES ASSUME Claim(p) \in past[p].work, Identified(p), work[p] = Claim(p),
                      seen[p] \subseteq {Claim(p)} \cup made[p], Provided(p)
               PROVE  seen'[p] \subseteq {Claim(p)} \cup made'[p] /\ Provided(p)'
    BY <2>c, <2>t DEF Testing
  <2>s. seen \in [Path -> SUBSET Object] /\ made \in [Path -> SUBSET Object]
    BY DEF Sound, CaptureTypeOK
  <2>r. mode = "clean" => room \in [Path -> Object]
    BY <2>0 DEF Sound, RoomType
  <2>p. mode = "clean" => room[p] \in {Claim(p)} \cup made[p]
    BY <2>0 DEF Provided
  <2>1. CASE CheckReads(p)
    <3>1. seen'[p] = seen[p] \cup {IF mode = "clean" THEN room[p] ELSE work[p]}
          /\ made' = made /\ room' = room
      BY <2>1, <2>s DEF CheckReads
    <3> QED
      BY <2>0, <2>c, <2>p, <3>1 DEF Provided, InRoom
  <2>2. ASSUME NEW o \in Object, CheckWrites(p, o)
        PROVE  seen'[p] \subseteq {Claim(p)} \cup made'[p] /\ Provided(p)'
    <3>1. seen' = seen /\ made'[p] = made[p] \cup {o} /\ room'[p] = o
      BY <2>2, <2>s, <2>r DEF CheckWrites
    <3> QED
      BY <2>0, <2>c, <3>1 DEF Provided, InRoom
  <2>3. ASSUME NEW q \in Path \ {p}, CheckReads(q) \/ \E o \in Object : CheckWrites(q, o)
        PROVE  seen'[p] \subseteq {Claim(p)} \cup made'[p] /\ Provided(p)'
    <3>1. seen'[p] = seen[p] /\ made'[p] = made[p] /\ (mode = "clean" => room'[p] = room[p])
      BY <2>3, <2>s, <2>r DEF CheckReads, CheckWrites
    <3> QED
      BY <2>0, <2>c, <2>p, <3>1 DEF Provided, InRoom
  <2> QED
    BY <1>2, <2>1, <2>2, <2>3
<1> QED
  BY <1>1, <1>2 DEF Checks

\* The other steps are no part of the checks.
LEMMA TestingElse ==
    ASSUME Sound, Collect \/ Conclude, NEW p \in Path, Testing(p)
    PROVE  Testing(p)'
<1> USE DEF InRoom
<1>0. UNCHANGED treeVars
  BY OwnSteps
<1>1. CASE Record
  <2>1. ~ran /\ ran' = ran /\ pc' = "staged"
    <3>1. round = 1 /\ pc = "masked" /\ ran' = ran /\ pc' = "staged"
      BY <1>1 DEF Record
    <3> QED
      BY <3>1, SMT DEF Sound, Flow, Running
  <2> QED
    BY <2>1 DEF Testing, Tested
<1>2. CASE Collect /\ ~Record
  <2>1. UNCHANGED <<recorded, ran, seen, made>> /\ pc' \in Collecting \cup {"cached"}
    BY <1>2 DEF Collect, ReadRefs, ReadCached, ReadWorktree, ReadUntracked,
       Collecting,
       ReadBlobs, ReadFlags, FlagsUnread, HashFile, HashMasked, progress
  <2> QED
    BY <1>0, <2>1, TestingFrame DEF Collecting
<1>3. CASE Conclude
  <2>1. UNCHANGED <<recorded, seen, made>> /\ pc' \in {"refs again", "done", "raised"} /\ ran' = ran
    BY <1>3 DEF Conclude, CompareChanges, Decide, GitFails, Raise, RoomOnly
  <2> QED
    BY <1>0, <2>1, TestingFrame
<1> QED
  BY <1>1, <1>2, <1>3

-----------------------------------------------------------------------------
\* Settled

\* What Unidentified leaves to be said of an identified path.
LEMMA UnidentifiedIs ==
    ASSUME NEW p, ~Unidentified(p)
    PROVE  Identified(p) /\ ~(recorded[p].status = "-" /\ base[p] = Absent /\ index[p] = Absent)
<1>1. recorded[p].status \in {"A", "M"} => recorded[p].after # Absent
  BY DEF Unidentified
<1>2. "masked" \in past[p].mask => past[p].work \subseteq Content
  BY DEF Unidentified
<1>3. ~(recorded[p].status = "-" /\ base[p] = Absent /\ index[p] = Absent)
  BY DEF Unidentified
<1> QED
  BY <1>1, <1>2, <1>3 DEF Identified

\* The comparison finds no drift at p.
LEMMA SettledCompare ==
    ASSUME Sound, CompareChanges, NEW p \in Path, Remembers(p), Reading(p), Finding(p),
           p \notin conflicts, p \notin drifted', ~Unidentified(p)
    PROVE  work[p] = Claim(p)
<1>1. pc = "masked" /\ todo = {} /\ round = 2 /\ drifted' = Drift(Tracked)
  BY DEF CompareChanges
<1>2. changes[p] = Observed(p)
  BY <1>1 DEF Reading, Collecting
<1>3. Agreed(p)
  BY <1>1 DEF Finding, Compared, Collecting
<1>4. p \notin Moved /\ p \notin Joined(Tracked)
  BY <1>1 DEF Drift
<1>5. Identified(p) /\ ~(recorded[p].status = "-" /\ base[p] = Absent /\ index[p] = Absent)
  BY UnidentifiedIs
<1>6. CASE changes[p] = recorded[p]
  BY <1>2, <1>3, <1>5, <1>6, AgreedSays, ClaimSays DEF Identified
<1>7. CASE recorded[p].status = "-" /\ changes[p].status = "-"
  BY <1>2, <1>3, <1>5, <1>7, AgreedSays, ClaimSays DEF Identified, Says
<1>8. CASE recorded[p].status = "-" /\ changes[p].status = "A" /\ p \notin Tracked
  <2>1. index[p] = Absent
    BY <1>8 DEF Tracked
  <2>2. WorktreeView(p) = Absent /\ p \notin mask
    BY <2>1 DEF WorktreeView, Sound, RepositoryTypeOK
  <2>3. base[p] # Absent => CachedStatus(p) = "D" /\ WorktreeStatus(p) = "D"
    BY <2>1, <2>2 DEF CachedStatus, WorktreeStatus, Status
  <2>4. base[p] # Absent => StatusNow(p) = "D"
    BY <2>3 DEF StatusNow, New, Diffed
  <2>5. Observed(p).status = StatusNow(p)
    BY <2>2, ObservedIs DEF Collected
  <2> QED
    BY <1>2, <1>5, <1>8, <2>1, <2>4, <2>5
<1> QED
  BY <1>4, <1>6, <1>7, <1>8 DEF Moved, Joined, Listed

\* Others do not write to an untorn path between comparison and verdict.
LEMMA SettledOthers ==
    ASSUME Sound, Others, NEW p \in Path, Remembers(p), Settled(p), p \notin torn'
    PROVE  Settled(p)'
<1>1. /\ base' = base /\ Grows(p) /\ UNCHANGED <<pc, recorded, ran, conflicts, drifted>>
      /\ Observing => Same(p)
  BY OthersAt DEF captureVars, progress
<1> SUFFICES ASSUME ran, pc \in Deciding, p \notin conflicts \cup drifted, ~Unidentified(p)'
             PROVE  (work[p] = Claim(p))'
  BY <1>1 DEF Settled
<1>2. Same(p)
  BY <1>1 DEF Observing, Materializing, Deciding, Others, Finished
<1>3. ~Unidentified(p)
  BY <1>1, <1>2 DEF Unidentified, Grows, Same
<1>4. work[p] = Claim(p)
  BY <1>3 DEF Settled
<1> QED
  BY <1>1, <1>2, <1>4, ClaimStays DEF Same

\* The verdict is reached by the comparison, or without checks.
LEMMA SettledOwn ==
    ASSUME Sound, Collect \/ Conflicts \/ Materialize \/ Checks \/ Conclude,
           NEW p \in Path, Remembers(p), Reading(p), Finding(p), Settled(p)
    PROVE  Settled(p)'
<1>0. UNCHANGED treeVars
  BY OwnSteps
<1>1. CASE CompareChanges
  <2>1. UNCHANGED <<recorded, conflicts>>
    BY <1>1 DEF CompareChanges
  <2>2. Claim(p)' = Claim(p) /\ (Unidentified(p)' <=> Unidentified(p)) /\ work' = work
    BY <1>0, <2>1 DEF Claim, Unidentified, treeVars
  <2> QED
    BY <1>1, <2>1, <2>2, SettledCompare DEF Settled
<1>2. CASE Decide
  <2>1. UNCHANGED <<recorded, conflicts, drifted, ran>> /\ pc = "refs again"
    BY <1>2 DEF Decide
  <2>2. Claim(p)' = Claim(p) /\ (Unidentified(p)' <=> Unidentified(p)) /\ work' = work
    BY <1>0, <2>1 DEF Claim, Unidentified, treeVars
  <2> QED
    BY <2>1, <2>2 DEF Settled, Deciding
<1>3. CASE ReadStaged \/ ReadMasks
  <2>1. CASE pc' \in Deciding
    <3>1. round = 1 /\ pc \in {"staged", "masks"}
      <4>1. /\ pc \in {"staged", "masks"}
            /\ \/ pc' = AfterConflicts(conflicts') \/ pc' = AfterConflicts(conflicts)
               \/ pc' = "unstaged"
        BY <1>3 DEF ReadStaged, ReadMasks
      <4>2. round # 2
        BY <2>1, <4>1, AfterConflictsLeads DEF Deciding
      <4> QED
        BY <4>1, <4>2, SMT DEF Sound, CaptureTypeOK
    <3>2. ~ran
      BY <3>1, SMT DEF Sound, Flow, Running
    <3>3. ~ran'
      <4>1. ran' = (ran \/ pc' = "checks")
        BY <1>3 DEF ReadStaged, ReadMasks, StartsChecks
      <4> QED
        BY <2>1, <3>2, <4>1 DEF Deciding
    <3> QED
      BY <3>3 DEF Settled
  <2> QED
    BY <2>1 DEF Settled
<1>4. pc' \in Deciding => CompareChanges \/ Decide \/ ReadStaged \/ ReadMasks
  BY DEF Collect, ReadRefs, ReadCached, ReadWorktree, ReadUntracked,
     ReadBlobs, ReadFlags, FlagsUnread, Record, HashFile, HashMasked, progress,
     Conflicts, ReadUnstaged, ReadReplacements, SkipChecks,
     Materialize, RequireUnmasked, ApplyPatch, ListUntracked, CopyUntracked,
     RequireStillUnmasked, Raise, Checks, ChecksEnd, CheckReads, CheckWrites, Conclude, GitFails, Deciding
<1> QED
  BY <1>1, <1>2, <1>3, <1>4 DEF Settled

-----------------------------------------------------------------------------
Tried(p) ==
    /\ p \notin torn => Settled(p)
    /\ p \notin torn \cup restored => Testing(p)

Trying == \A p \in Path : Tried(p)

\* The invariant holds initially.
LEMMA TryingInit == Init => Trying
BY DEF Init, RepositoryInit, Trying, Tried, Settled, Testing, Tested, InRoom

\* The invariant is inductive.
LEMMA TryingStep == Guarded /\ Trying /\ [Next]_vars => Trying'
<1> SUFFICES ASSUME Guarded, Trying, [Next]_vars, NEW p \in Path PROVE Tried(p)'
  BY DEF Trying
<1>0. Sound /\ Watched(p) /\ Tried(p)
  BY DEF Guarded, Trying
<1>1. CASE Others
  <2>1. torn \subseteq torn' /\ restored \subseteq restored'
    BY <1>0, <1>1, OthersAt DEF Watched
  <2>2. p \notin torn' => Settled(p)'
    BY <1>0, <1>1, <2>1, SettledOthers DEF Watched, Tried
  <2>3. p \notin torn' \cup restored' => Testing(p)'
    BY <1>0, <1>1, <2>1, TestingOthers DEF Watched, Tried
  <2> QED
    BY <2>2, <2>3 DEF Tried
<1>2. CASE Collect \/ Conflicts \/ Materialize \/ Checks \/ Conclude
  <2>1. torn \subseteq torn' /\ restored' = restored
    BY <1>2, OwnSteps DEF treeVars
  <2>2. ASSUME p \notin torn' PROVE Settled(p)'
    <3>1. Reading(p) /\ Finding(p) /\ Settled(p)
      BY <1>0, <2>1, <2>2 DEF Watched, Tried
    <3> QED
      BY <1>0, <1>2, <3>1, SettledOwn DEF Watched
  <2>3. ASSUME p \notin torn' \cup restored' PROVE Testing(p)'
    <3>1. Remembers(p) /\ Finding(p) /\ Keeping(p) /\ Testing(p)
      BY <1>0, <2>1, <2>3 DEF Watched, Tried
    <3> QED
      BY <1>0, <1>2, <3>1, TestingConflicts, TestingMaterialize, TestingChecks,
         TestingElse
  <2> QED
    BY <2>2, <2>3 DEF Tried
<1>3. CASE UNCHANGED vars
  <2>1. UNCHANGED <<base, index, work, mask, past, restored, torn>>
    BY <1>3 DEF vars, world, repoVars, treeVars
  <2>2. UNCHANGED <<pc, mode, recorded, conflicts, drifted, ran, seen, made, room, todo>>
    BY <1>3 DEF vars, captureVars, observation, progress
  <2>3. Claim(p)' = Claim(p)
    BY <2>1, <2>2, ClaimStays
  <2>4. (Unidentified(p)' <=> Unidentified(p)) /\ (Identified(p)' <=> Identified(p))
    BY <2>1, <2>2 DEF Unidentified, Identified
  <2>5. Settled(p)' <=> Settled(p)
    BY <2>1, <2>2, <2>3, <2>4 DEF Settled
  <2>6. (Tested' <=> Tested) /\ (Provided(p)' <=> Provided(p))
    BY <2>1, <2>2, <2>3 DEF Tested, Provided, Untracked
  <2>7. Testing(p)' <=> Testing(p)
    BY <2>1, <2>2, <2>3, <2>4, <2>6 DEF Testing
  <2> QED
    BY <1>0, <2>1, <2>5, <2>7 DEF Tried
<1> QED
  BY <1>1, <1>2, <1>3 DEF Next, Delivered

\* At a PASS the file has the claimed object, so checks have read nothing else.
LEMMA TryingTested == Guarded /\ Trying => TestedIsRecorded
<1> SUFFICES ASSUME Guarded, Trying, verdict = "PASS", ran, NEW p \in Path,
                    p \notin restored \cup torn, ~Unidentified(p)
             PROVE  seen[p] \subseteq {Claim(p)} \cup made[p]
  BY DEF TestedIsRecorded, Certified
<1>1. pc = "done" /\ conflicts = {} /\ drifted = {}
  BY DEF Guarded, Sound, Flow, Judging
<1>2. Settled(p) /\ Testing(p)
  BY DEF Trying, Tried
<1>3. work[p] = Claim(p)
  BY <1>1, <1>2 DEF Settled, Deciding
<1>4. Identified(p)
  BY UnidentifiedIs
<1> QED
  BY <1>2, <1>3, <1>4 DEF Testing, Tested

\* The promise of the evidence: whatever others write between any two reads of the
\* repository, the checks that back a PASS read, at every path, the object the
\* evidence records there, or one that a check itself put into the disposable
\* worktree all checks share; except at a path where an earlier state came back,
\* which was written to while it was being read, or whose object is not identified.
THEOREM TestedIsWhatIsRecorded == Spec => []TestedIsRecorded
<1>1. Init => Guarded /\ Drifting /\ Trying
  BY GuardedInit, TryingInit
<1>2. Guarded /\ Drifting /\ Trying /\ [Next]_vars => (Guarded /\ Drifting /\ Trying)'
  BY GuardedStep, TryingStep
<1>3. Guarded /\ Drifting /\ Trying => TestedIsRecorded
  BY TryingTested
<1> QED
  BY <1>1, <1>2, <1>3, PTL DEF Spec

-----------------------------------------------------------------------------
(***************************************************************************)
(* HEAD takes a new value with each move, until it goes back to an earlier *)
(* one.  Until then, once it has left the recorded value it is another for *)
(* good: when it is the recorded one at the verdict, it was at all checks. *)
(***************************************************************************)
Numbered ==
    /\ head \in pastHead /\ sourceHead \in pastHead
    /\ pastHead \subseteq 0..edits /\ edits \in Nat
Left == headBack \/ head # sourceHead \/ heads \subseteq {sourceHead}
NoneBefore == pc = "refs" => heads = {}
Passed == verdict = "PASS" => pc = "done" /\ (heads \subseteq {sourceHead} \/ headBack)

HInv == Numbered /\ Left /\ NoneBefore /\ Passed

\* The initial values satisfy the invariant.
LEMMA HeadInit == Init => HInv
BY SMT DEF Init, RepositoryInit, HInv, Numbered, Left, NoneBefore, Passed

\* A step of the capture that leaves HEAD, its records and the verdict alone.
LEMMA HeadFrame ==
    ASSUME HInv, pc # "done", pc' # "refs",
           UNCHANGED <<headVars, sourceHead, heads, verdict>>, edits' \in {edits, edits + 1}
    PROVE  HInv'
<1>1. UNCHANGED <<head, pastHead, headBack>> BY DEF headVars
<1>2. Numbered' BY <1>1 DEF HInv, Numbered
<1> QED BY <1>1, <1>2 DEF HInv, Left, NoneBefore, Passed

\* collect_changes
LEMMA CollectHead == ASSUME HInv, Collect PROVE HInv'
<1>1. CASE ReadRefs
  BY <1>1 DEF ReadRefs, world, repoVars, headVars, HInv, Numbered, Left,
     NoneBefore,
     Passed
<1>2. CASE ReadCached
  BY <1>2, HeadFrame DEF ReadCached, world, repoVars, progress
<1>3. CASE ReadWorktree
  BY <1>3, HeadFrame DEF ReadWorktree, world, repoVars, progress
<1>4. CASE ReadUntracked
  BY <1>4, HeadFrame DEF ReadUntracked, world, repoVars, progress
<1>5. CASE ReadBlobs
  BY <1>5, HeadFrame DEF ReadBlobs, world, repoVars, progress
<1>6. CASE ReadFlags
  BY <1>6, HeadFrame DEF ReadFlags, world, repoVars, progress
<1>7. CASE Record
  BY <1>7, HeadFrame DEF Record, world, repoVars
<1>8. ASSUME NEW p \in Path, HashFile(p) PROVE HInv'
  BY <1>8, HeadFrame DEF HashFile, world, repoVars, progress
<1>9. ASSUME NEW p \in Path, HashMasked(p) PROVE HInv'
  BY <1>9, HeadFrame DEF HashMasked, world, repoVars, progress
<1>10. CASE FlagsUnread
  BY <1>10, HeadFrame DEF FlagsUnread, world, repoVars, progress
<1> QED
  BY <1>1, <1>2, <1>3, <1>4, <1>5, <1>6, <1>7, <1>8, <1>9, <1>10 DEF Collect

\* verification_conflicts
LEMMA ConflictsHead == ASSUME HInv, Conflicts PROVE HInv'
<1> USE DEF world, repoVars, Conflicting
<1>1. ASSUME NEW found PROVE AfterConflicts(found) # "refs"
  BY DEF AfterConflicts
<1>2. CASE ReadStaged
  BY <1>1, <1>2, HeadFrame DEF ReadStaged
<1>3. CASE ReadUnstaged
  BY <1>3, HeadFrame DEF ReadUnstaged
<1>4. CASE ReadReplacements
  BY <1>4, HeadFrame DEF ReadReplacements
<1>5. CASE ReadMasks
  BY <1>1, <1>5, HeadFrame DEF ReadMasks
<1>6. CASE SkipChecks
  BY <1>6, HeadFrame DEF SkipChecks
<1> QED
  BY <1>2, <1>3, <1>4, <1>5, <1>6 DEF Conflicts

\* clean_room
LEMMA MaterializeHead == ASSUME HInv, Materialize PROVE HInv'
<1> USE DEF world, repoVars, RoomOnly, Raise
<1>1. CASE RequireUnmasked
  BY <1>1, HeadFrame DEF RequireUnmasked
<1>2. CASE ApplyPatch
  BY <1>2, HeadFrame DEF ApplyPatch
<1>3. CASE ListUntracked
  BY <1>3, HeadFrame DEF ListUntracked
<1>4. CASE RequireStillUnmasked
  BY <1>4, HeadFrame DEF RequireStillUnmasked
<1>5. ASSUME NEW p \in Path, CopyUntracked(p) PROVE HInv'
  BY <1>5, HeadFrame DEF CopyUntracked
<1> QED
  BY <1>1, <1>2, <1>3, <1>4, <1>5 DEF Materialize

\* run_checks: a check runs at the current HEAD.
LEMMA ChecksHead == ASSUME HInv, Checks PROVE HInv'
<1>1. CASE ChecksEnd
  BY <1>1, HeadFrame DEF ChecksEnd, world, repoVars
<1>2. ASSUME NEW p \in Path, CheckReads(p) PROVE HInv'
  BY <1>2 DEF CheckReads, world, repoVars, headVars, HInv, Numbered, Left,
     NoneBefore,
     Passed
<1>3. ASSUME NEW p \in Path, NEW o \in Object, CheckWrites(p, o) PROVE HInv'
  BY <1>3, HeadFrame DEF CheckWrites
<1> QED
  BY <1>1, <1>2, <1>3 DEF Checks

\* The verdict: PASS only at the recorded HEAD.
LEMMA ConcludeHead == ASSUME HInv, Conclude PROVE HInv'
<1>1. CASE CompareChanges
  BY <1>1, HeadFrame DEF CompareChanges, world, repoVars
<1>2. CASE Decide
  <2>1. verdict' = "PASS" => head = sourceHead
    BY <1>2 DEF Decide, Errors
  <2>2. head = sourceHead => heads \subseteq {sourceHead} \/ headBack
    BY DEF HInv, Left
  <2> QED
    BY <1>2, <2>1, <2>2 DEF Decide, world, repoVars, headVars, HInv, Numbered,
       Left,
       NoneBefore, Passed
<1>3. CASE GitFails
  BY <1>3, HeadFrame DEF GitFails, Finished, Raise, RoomOnly, world, repoVars
<1> QED
  BY <1>1, <1>2, <1>3 DEF Conclude

\* Others move HEAD to a new value, or it goes back.
LEMMA OthersHead == ASSUME HInv, Others PROVE HInv'
<1>1. UNCHANGED <<sourceHead, heads, verdict, pc>> /\ pc # "done"
  BY DEF Others, captureVars, progress, Finished
<1>2. edits' = edits + 1
  BY DEF Others, Edit
<1>3. CASE UNCHANGED headVars
  <2>1. NoneBefore' /\ Passed' BY <1>1, <1>3 DEF HInv, NoneBefore, Passed, headVars
  <2>2. Numbered' /\ Left' BY <1>1, <1>2, <1>3 DEF HInv, Numbered, Left, headVars
  <2> QED BY <2>1, <2>2 DEF HInv
<1>4. CASE MoveHead
  <2>1. /\ head' = edits + 1 \/ (head' \in pastHead /\ headBack')
        /\ pastHead' = pastHead \cup {head'} /\ (headBack => headBack')
    BY <1>4 DEF MoveHead
  <2>2. Numbered'
    <3>1. edits \in Nat /\ pastHead \subseteq 0..edits /\ sourceHead \in pastHead
      BY DEF HInv, Numbered
    <3>2. 0..edits \subseteq 0..edits' /\ edits' \in Nat /\ edits + 1 \in 0..edits'
      BY <1>2, <3>1
    <3>3. head' \in 0..edits'
      BY <2>1, <3>1, <3>2
    <3> QED
      BY <1>1, <2>1, <3>1, <3>2, <3>3 DEF Numbered
  <2>3. sourceHead # edits + 1 BY DEF HInv, Numbered
  <2>4. Left' BY <1>1, <2>1, <2>3 DEF HInv, Left
  <2>5. NoneBefore' /\ Passed' BY <1>1, <2>1 DEF HInv, NoneBefore, Passed
  <2> QED BY <2>2, <2>4, <2>5 DEF HInv
<1> QED
  BY <1>3, <1>4 DEF Others, Edit, WriteFile, WriteIndex, FlipMask

\* The invariant is inductive.
LEMMA HeadStep == HInv /\ [Next]_vars => HInv'
<1> SUFFICES ASSUME HInv, [Next]_vars PROVE HInv'
  OBVIOUS
<1>1. CASE UNCHANGED vars
  BY <1>1 DEF vars, world, repoVars, headVars, captureVars, progress, HInv,
     Numbered,
              Left, NoneBefore, Passed
<1> QED
  BY <1>1, CollectHead, ConflictsHead, MaterializeHead, ChecksHead, ConcludeHead,
     OthersHead DEF Next, Delivered

\* capture_evidence compares HEAD and branch once more before the verdict: a
\* PASS names the HEAD at which every check ran, unless HEAD, whose values are all
\* that is compared, went back to one it had had.
THEOREM HeadIsStable == Spec => []HeadStable
<1>1. HInv => HeadStable
  BY DEF HInv, Passed, HeadStable
<1> QED
  BY HeadInit, HeadStep, <1>1, PTL DEF Spec
=============================================================================
