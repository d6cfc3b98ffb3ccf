----------------------------- MODULE OutputFile -----------------------------
(***************************************************************************)
(* Several processes write one output file and one reads it.               *)
(* write_evidence (evidence.py) and write_passport (passport.py) write a   *)
(* temporary file, make it durable and rename it; read_regular_file        *)
(* (file_input.py) reads the file and rejects it when it changed meanwhile. *)
(* Others create, remove and rewrite the file, and the machine may crash.  *)
(*                                                                         *)
(* A writer's temporary file has a name of its own (mkstemp), so the file  *)
(* it makes is named after the writer.  A payload is Whole blocks long.    *)
(***************************************************************************)
EXTENDS Integers, FiniteSets, Sequences

CONSTANTS
    Writer,      \* processes that write the output
    MaxBlocks,   \* max_bytes of the reader
    MaxOthers    \* bound of the model: what others do

Whole == 2

ASSUME OutputAssumption ==
    /\ MaxBlocks \in Nat /\ MaxBlocks >= Whole /\ MaxOthers \in Nat
    /\ Writer \cap {"plain", "symlink", "directory", "none"} = {}

File  == Writer \cup {"plain", "symlink", "directory"}
NoFile == "none"

VARIABLES
    target,    \* the file the output path names
    was,       \* the files it has named
    temp,      \* writers whose temporary name exists
    body,      \* per file [size, durable, version, stamp]: blocks, blocks on disk,
               \* writes, and its times, named after the first version with them
    pc, protocol, force,      \* of each writer
    reader,    \* where the reader is
    fd,        \* the file it opened
    before,    \* what lstat said at first
    got,       \* blocks read, as <<file, version>>
    during,    \* contents the output had since the reader began
    told,      \* the version lstat told of
    unseen,    \* a write since then left the state lstat told of
    others, crashed

disk   == <<target, was, temp, body>>
writer == <<pc, protocol, force>>
observed == <<during, told, unseen>>
reading == <<reader, fd, before, got, observed>>
outputVars == <<disk, writer, reading, others, crashed>>

Regular(f) == f \in Writer \cup {"plain"}
Content(f, b) == IF f = NoFile THEN <<>>
                 ELSE [k \in 1..b[f].size |-> <<f, b[f].version>>]

Blank ==
    /\ was = {target} /\ temp = {}
    /\ body = [f \in File |-> LET size == IF f \in Writer THEN 0 ELSE Whole IN
                               [size |-> size, durable |-> size, version |-> 0, stamp |-> 0]]
    /\ fd = NoFile /\ before = <<>> /\ got = <<>> /\ during = {}
    /\ told = 0 /\ unseen = FALSE

OutputInit ==
    /\ target \in {NoFile, "plain", "symlink", "directory"}
    /\ Blank
    /\ protocol \in [Writer -> {"evidence", "passport"}]
    /\ force \in [Writer -> BOOLEAN]
    /\ \A w \in Writer : protocol[w] = "evidence" => force[w]
    /\ pc = [w \in Writer |-> IF protocol[w] = "evidence" THEN "make" ELSE "symlink"]
    /\ reader = "lstat" /\ others = 0 /\ crashed = FALSE

\* Nobody writes or reads the output.
OutputIdle ==
    /\ target = NoFile
    /\ Blank
    /\ protocol = <<>> /\ force = <<>> /\ pc = [w \in Writer |-> "idle"]
    /\ reader = "rejected" /\ others = MaxOthers /\ crashed = TRUE

\* _file_state, of a file by its name or its descriptor.
FileState(f) == [file |-> f, size |-> body[f].size, stamp |-> body[f].stamp]

\* Whatever the output names after a step was its content during the read; a
\* write that gives the file the very state lstat told of is not noticed.
Observe ==
    IF reader \in {"lstat", "ok", "rejected"} THEN UNCHANGED observed
    ELSE /\ during' = during \cup {Content(target', body')}
         /\ unseen' = (unseen \/ (body'[before.file].version # body[before.file].version
                                 /\ before = FileState(before.file)'))
         /\ UNCHANGED told

Point(f) == target' = f /\ was' = was \cup {f}
Fill(f, size, mark) ==
    body' = [body EXCEPT ![f].size = size, ![f].version = @ + 1, ![f].stamp = mark]

-----------------------------------------------------------------------------
\* A step of writer w that only moves on.
GoTo(w, there) == pc' = [pc EXCEPT ![w] = there]

Keep(w) == UNCHANGED <<protocol, force, reader, fd, before, got, others, crashed>>
               /\ Observe

(***************************************************************************)
(* What write_passport asks before it makes a file: is_symlink, exists     *)
(* with force, is_file.                                                    *)
(***************************************************************************)
\* Mutant: exists is not asked.
MayReplace_Always(w) == TRUE

MayReplace(w) == target = NoFile \/ force[w]

AskSymlink(w) ==
    /\ pc[w] = "symlink"
    /\ GoTo(w, IF target = "symlink" THEN "raised" ELSE "exists")
    /\ UNCHANGED disk /\ Keep(w)

AskExists(w) ==
    /\ pc[w] = "exists"
    /\ GoTo(w, IF ~MayReplace(w) THEN "raised"
               ELSE IF target = NoFile THEN "make" ELSE "isfile")
    /\ UNCHANGED disk /\ Keep(w)

AskFile(w) ==
    /\ pc[w] = "isfile"
    /\ GoTo(w, IF target \in {NoFile, "directory"} THEN "raised" ELSE "make")
    /\ UNCHANGED disk /\ Keep(w)

MakeTemporary(w) ==
    /\ pc[w] = "make"
    /\ GoTo(w, "write")
    /\ temp' = temp \cup {w}
    /\ UNCHANGED <<target, was, body>> /\ Keep(w)

\* mkstemp, or the directory before it, cannot be made.
MakeFails(w) ==
    /\ pc[w] = "make"
    /\ GoTo(w, "raised")
    /\ UNCHANGED disk /\ Keep(w)

Write(w) ==
    /\ pc[w] = "write" /\ body[w].size < Whole
    /\ Fill(w, body[w].size + 1, body[w].version + 1)
    /\ UNCHANGED <<target, was, temp, pc>> /\ Keep(w)

\* Mutant: flush without fsync.
Synced_No(w) == body[w].durable

Synced(w) == body[w].size

Fsync(w) ==
    /\ pc[w] = "write" /\ body[w].size = Whole
    /\ body' = [body EXCEPT ![w].durable = Synced(w)]
    /\ GoTo(w, IF protocol[w] = "passport" THEN "resymlink" ELSE "replace")
    /\ UNCHANGED <<target, was, temp>> /\ Keep(w)

AskSymlinkAgain(w) ==
    /\ pc[w] = "resymlink"
    /\ GoTo(w, IF target = "symlink" THEN "unlink" ELSE "replace")
    /\ UNCHANGED disk /\ Keep(w)

Replace(w) ==
    /\ pc[w] = "replace" /\ target # "directory"
    /\ Point(w)
    /\ temp' = temp \ {w}
    /\ GoTo(w, "done")
    /\ UNCHANGED body /\ Keep(w)

\* Mutant: the temporary file stays when writing fails.
Cleanup_None == "raised"

Cleanup == "unlink"

\* An error or an interrupt while the file is written, or a rename refused.
WriteFails(w) ==
    /\ pc[w] \in {"write", "resymlink", "replace"}
    /\ GoTo(w, Cleanup)
    /\ UNCHANGED disk /\ Keep(w)

Unlink(w) ==
    /\ pc[w] = "unlink"
    /\ temp' = temp \ {w}
    /\ GoTo(w, "raised")
    /\ UNCHANGED <<target, was, body>> /\ Keep(w)

WriterStep(w) ==
    \/ AskSymlink(w) \/ AskExists(w) \/ AskFile(w) \/ MakeTemporary(w)
    \/ MakeFails(w) \/ Write(w) \/ Fsync(w) \/ AskSymlinkAgain(w)
    \/ Replace(w) \/ WriteFails(w) \/ Unlink(w)

-----------------------------------------------------------------------------
\* Mutant: times are not compared.
SameState_Size(a, b) == a.file = b.file /\ a.size = b.size

SameState(a, b) == a = b

ReaderKeeps == UNCHANGED <<disk, writer, others, crashed>>
Reject ==
    /\ reader' = "rejected" /\ fd' = NoFile
    /\ before' = <<>> /\ got' = <<>> /\ during' = {} /\ told' = 0 /\ unseen' = FALSE

Lstat ==
    /\ reader = "lstat"
    /\ IF target = NoFile \/ ~Regular(target) \/ body[target].size > MaxBlocks
       THEN Reject
       ELSE /\ reader' = "open"
            /\ before' = FileState(target)
            /\ during' = {Content(target, body)} /\ told' = body[target].version
            /\ UNCHANGED <<fd, got, unseen>>
    /\ ReaderKeeps

Open ==
    /\ reader = "open"
    /\ IF target \in {NoFile, "symlink"} THEN Reject
       ELSE reader' = "fstat" /\ fd' = target /\ UNCHANGED <<before, got, observed>>
    /\ ReaderKeeps

Fstat ==
    /\ reader = "fstat"
    /\ IF ~Regular(fd) \/ ~SameState(before, FileState(fd)) THEN Reject
       ELSE reader' = "read" /\ UNCHANGED <<fd, before, got, observed>>
    /\ ReaderKeeps

\* One os.read: at least a block if there is one, at most one block too many.
Read ==
    /\ reader = "read"
    /\ LET rest == body[fd].size - Len(got)
           room == MaxBlocks + 1 - Len(got)
       IN IF rest <= 0
          THEN reader' = "refstat" /\ UNCHANGED <<fd, before, got, observed>>
          ELSE \E n \in 1..(IF rest < room THEN rest ELSE room) :
                 IF Len(got) + n > MaxBlocks THEN Reject
                 ELSE /\ got' = got \o [k \in 1..n |-> <<fd, body[fd].version>>]
                      /\ UNCHANGED <<reader, fd, before, observed>>
    /\ ReaderKeeps

FstatAgain ==
    /\ reader = "refstat"
    /\ IF SameState(before, FileState(fd))
       THEN reader' = "relstat" /\ UNCHANGED <<fd, before, got, observed>>
       ELSE Reject
    /\ ReaderKeeps

LstatAgain ==
    /\ reader = "relstat"
    /\ IF /\ target # NoFile /\ SameState(before, FileState(target))
          /\ Len(got) = before.size
       THEN reader' = "ok" /\ UNCHANGED <<fd, before, got, observed>>
       ELSE Reject
    /\ ReaderKeeps

ReaderStep == Lstat \/ Open \/ Fstat \/ Read \/ FstatAgain \/ LstatAgain

-----------------------------------------------------------------------------
(***************************************************************************)
(* External: other processes put a file, a link or a directory there,      *)
(* remove what is there, or rewrite the plain file in place.  A write      *)
(* gives the file a new time, or one it had: the clock has ticks, and      *)
(* Windows compares no change time (file_input.py:15-16).                  *)
(***************************************************************************)
Others ==
    /\ others < MaxOthers /\ others' = others + 1
    /\ \/ /\ target = NoFile /\ UNCHANGED <<temp, body>>
          /\ \E f \in {"plain", "symlink", "directory"} : Point(f)
       \/ /\ target \notin {NoFile, "directory"} /\ UNCHANGED <<temp, body>>
          /\ \E f \in {NoFile, "symlink"} : Point(f)
       \/ /\ UNCHANGED <<target, was, temp>>
          /\ \E size \in {0, Whole - 1, Whole, MaxBlocks + 1},
                mark \in 0..(body["plain"].version + 1) : Fill("plain", size, mark)
    /\ UNCHANGED <<writer, reader, fd, before, got, crashed>> /\ Observe

(***************************************************************************)
(* External: the machine stops.  What was not made durable survives up to  *)
(* any block, and the directory names any of the files it has named.       *)
(***************************************************************************)
Crash ==
    /\ ~crashed /\ crashed' = TRUE
    /\ \E f \in was : target' = f
    /\ \E lost \in [Writer -> 0..Whole] :
          /\ \A w \in Writer : lost[w] \in body[w].durable..body[w].size
          /\ body' = [f \in File |-> IF f \in Writer
                                     THEN [body[f] EXCEPT !.size = lost[f]]
                                     ELSE body[f]]
    /\ pc' = [w \in Writer |-> "crashed"]
    /\ Reject
    /\ UNCHANGED <<was, temp, protocol, force, others>>

OutputNext ==
    \/ \E w \in Writer : WriterStep(w)
    \/ ReaderStep \/ Others \/ Crash

-----------------------------------------------------------------------------
(***************************************************************************)
(* Whoever looks at the output, at any time and after a crash, never finds *)
(* a part of what one of the writers wrote (evidence.py:285-291,           *)
(* passport.py:298-307).                                                   *)
(***************************************************************************)
TargetIsWhole == target \in Writer => body[target].size = Whole

\* A writer that is through, with or without an error, leaves no temporary
\* file behind (evidence.py:292-295, passport.py:308-309).
NoLitter == \A w \in Writer : pc[w] \in {"done", "raised"} => w \notin temp

(***************************************************************************)
(* Bytes the reader accepts were the content of the output, all at once,   *)
(* at some moment of the read, however it is replaced or rewritten         *)
(* meanwhile (file_input.py:22-50); unless a rewrite left it the identity, *)
(* size and times lstat had told of ("best-effort race checks, not atomic  *)
(* snapshots", docs/tasktopr-passport-cli.md:70).                          *)
(***************************************************************************)
ReadIsSnapshot == reader = "ok" => got \in during \/ unseen

(***************************************************************************)
(* Without --force a passport never takes the place of a file unless there *)
(* was a moment without one (passport.py:293-295).                         *)
(***************************************************************************)
ExistingIsKept ==
    \A w \in Writer : pc[w] = "done" => force[w] \/ NoFile \in was

(***************************************************************************)
(* "Existing output is refused unless --force is explicit"                 *)
(* (docs/tasktopr-passport-cli.md:74): the rename of a writer without      *)
(* force takes the place of nothing.                                       *)
(***************************************************************************)
ExistingIsRefused ==
    [][\A w \in Writer : pc[w] = "replace" /\ pc'[w] = "done" /\ ~force[w]
          => target = NoFile]_outputVars
=============================================================================
