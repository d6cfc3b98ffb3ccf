----------------------------- MODULE Repository -----------------------------
(***************************************************************************)
(* The Git repository PatchWitness observes, and everyone else who writes  *)
(* to it: the developer, the agent, and the checks themselves.             *)
(*                                                                         *)
(* A path has an object in the base revision, in the index and in the      *)
(* working tree.  Objects are opaque: equal objects are equal bytes.       *)
(* Renames are seen as a deletion and an addition; ignored files do not    *)
(* exist here.  Git itself is external: the operators below are what the   *)
(* commands of git.py and cleanroom.py report of these three trees.        *)
(***************************************************************************)
EXTENDS Naturals

CONSTANTS
    Path,       \* repository-relative paths
    Content,    \* contents of regular files
    Irregular,  \* symbolic links and other objects that are no regular file
    Absent,     \* no object, and the missing hash None
    MaxEdits    \* bound of the model: writes by others and by checks in a capture

ASSUME ObjectAssumption ==
    /\ Path # {}
    /\ Content \cap Irregular = {}
    /\ Absent \notin Content \cup Irregular
    /\ MaxEdits \in Nat

Object == Content \cup Irregular \cup {Absent}

VARIABLES
    base,      \* the tree of the base revision
    index,     \* the index
    work,      \* the working tree
    mask,      \* index entries marked assume-unchanged or skip-worktree
    head,      \* HEAD revision and branch: a number for each there has been
    edits,     \* writes so far
    past,      \* per path, what its index entry, file and mask have been
    restored,  \* paths on which one of them returned to an earlier value
    pastHead,  \* the values HEAD has had
    headBack   \* HEAD returned to one of them

treeVars == <<base, index, work, mask, past, restored>>
headVars == <<head, pastHead, headBack>>
repoVars == <<treeVars, headVars, edits>>

\* git ls-files -v shows whether an entry is masked.
Flag(p) == IF p \in mask THEN "masked" ELSE "plain"

RepositoryInit ==
    /\ base \in [Path -> Object]
    /\ index \in [Path -> Object]
    /\ work \in [Path -> Object]
    /\ mask \in SUBSET {p \in Path : index[p] # Absent}
    /\ head = 0
    /\ edits = 0
    /\ past = [p \in Path |-> [index |-> {index[p]}, work |-> {work[p]},
                               mask |-> {Flag(p)}]]
    /\ restored = {}
    /\ pastHead = {0} /\ headBack = FALSE

RepositoryTypeOK ==
    /\ base \in [Path -> Object] /\ index \in [Path -> Object]
    /\ work \in [Path -> Object]
    /\ mask \subseteq {p \in Path : index[p] # Absent}
    /\ head \in 0..MaxEdits /\ edits \in 0..MaxEdits
    /\ past \in [Path -> [index : SUBSET Object, work : SUBSET Object,
                          mask : SUBSET {"masked", "plain"}]]
    /\ restored \subseteq Path
    /\ pastHead \subseteq 0..MaxEdits /\ headBack \in BOOLEAN

-----------------------------------------------------------------------------
\* What Git and the file system report.

\* The name-status letter of one path between two trees, "-" for no change.
Status(old, new) ==
    IF old = new THEN "-"
    ELSE IF old = Absent THEN "A" ELSE IF new = Absent THEN "D" ELSE "M"

\* git diff --cached <base>
CachedStatus(p) == Status(base[p], index[p])

\* The tree git diff <base> compares: files of index entries, where a masked
\* entry stands for its file unseen and a path without an entry does not exist.
WorktreeView(p) ==
    IF index[p] = Absent \/ p \in mask THEN index[p] ELSE work[p]

\* git diff <base>
WorktreeStatus(p) == Status(base[p], WorktreeView(p))

\* git diff: files that differ from their visible index entry
Unstaged == {p \in Path : WorktreeView(p) # index[p]}

\* git ls-files --others --exclude-standard
Untracked == {p \in Path : index[p] = Absent /\ work[p] # Absent}

\* git ls-files --cached
Tracked == {p \in Path : index[p] # Absent}

-----------------------------------------------------------------------------
\* Writes by others.

\* An earlier state comes back to a path: a content, being in the index, or a
\* flag.  Copying between a file and its entry (git add, git checkout) is new.
Returns(p, i, w, m) ==
    \/ i # index[p] /\ \/ i \in past[p].index
                       \/ i \in past[p].work \ {Absent, w}
                       \/ index[p] = Absent /\ past[p].index # {Absent}
    \/ w # work[p] /\ (w \in past[p].work \/ w \in past[p].index \ {Absent, i})
    \/ m # Flag(p) /\ m \in past[p].mask

Remember(p, i, w, m) ==
    /\ past' = [past EXCEPT ![p] = [index |-> @.index \cup {i},
                                    work |-> @.work \cup {w},
                                    mask |-> @.mask \cup {m}]]
    /\ restored' = IF Returns(p, i, w, m) THEN restored \cup {p} ELSE restored

WriteFile(p, o) ==
    /\ o # work[p]
    /\ work' = [work EXCEPT ![p] = o]
    /\ Remember(p, index[p], o, Flag(p))
    /\ UNCHANGED <<base, index, mask, headVars>>

\* git add, git rm --cached, git reset: a removed entry loses its flags.
WriteIndex(p, o) ==
    /\ o # index[p]
    /\ index' = [index EXCEPT ![p] = o]
    /\ mask' = IF o = Absent THEN mask \ {p} ELSE mask
    /\ Remember(p, o, work[p], Flag(p)')
    /\ UNCHANGED <<base, work, headVars>>

\* git update-index --[no-]assume-unchanged, --[no-]skip-worktree
FlipMask(p) ==
    /\ index[p] # Absent
    /\ mask' = IF p \in mask THEN mask \ {p} ELSE mask \cup {p}
    /\ Remember(p, index[p], work[p], Flag(p)')
    /\ UNCHANGED <<base, index, work, headVars>>

\* git commit, checkout, switch ... as far as HEAD goes: to a new commit or
\* branch, or to one where it has been.
MoveHead ==
    /\ head' \in {edits + 1} \cup (pastHead \ {head})
    /\ pastHead' = pastHead \cup {head'}
    /\ headBack' = (headBack \/ head' \in pastHead)
    /\ UNCHANGED treeVars

Edit ==
    /\ edits < MaxEdits
    /\ edits' = edits + 1
    /\ \/ \E p \in Path, o \in Object : WriteFile(p, o) \/ WriteIndex(p, o)
       \/ \E p \in Path : FlipMask(p)
       \/ MoveHead
=============================================================================
