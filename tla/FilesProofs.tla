----------------------------- MODULE FilesProofs -----------------------------
(***************************************************************************)
(* What holds of the files processes share, for any number of processes:   *)
(* of the output file, for any number of writers, any budget of the reader *)
(* and whatever others do, a crash included; of the impact cache, for any  *)
(* number of calls, sources and edits; and of the search of the import     *)
(* graph, for any graph.                                                   *)
(***************************************************************************)
EXTENDS Files, FiniteSetTheorems, WellFoundedInduction, TLAPS

-----------------------------------------------------------------------------
(***************************************************************************)
(* The output file.                                                        *)
(***************************************************************************)
Place == {"idle", "symlink", "exists", "isfile", "make", "write", "resymlink",
          "replace", "unlink", "done", "raised", "crashed"}

Bodies == [size : Nat, durable : Nat, version : Nat, stamp : Nat]

DiskType ==
    /\ target \in File \cup {NoFile} /\ was \subseteq File \cup {NoFile}
    /\ target \in was
    /\ temp \subseteq Writer
    /\ body \in [File -> Bodies]
    /\ pc \in [Writer -> Place]

\* A file that the output named, or that is about to be, is whole on the disk.
Solid(w) == body[w].size = Whole /\ body[w].durable = Whole
WholeInv == \A w \in Writer :
    w \in was \/ pc[w] \in {"resymlink", "replace", "done"} => Solid(w)

\* A writer that has not finished its file has not given it the name.
FreshInv == \A w \in Writer :
    pc[w] \in {"idle", "symlink", "exists", "isfile", "make", "write"} => w \notin was

LitterInv == \A w \in Writer :
    pc[w] \in {"idle", "symlink", "exists", "isfile", "make", "done", "raised"}
        => w \notin temp

\* Whoever got past the question has force, or nothing was there.
KeptInv == \A w \in Writer :
    pc[w] \in {"isfile", "make", "write", "resymlink", "replace", "done"}
        => force[w] \/ NoFile \in was

DiskInv == DiskType /\ WholeInv /\ FreshInv /\ LitterInv /\ KeptInv

\* The content lstat told of, as a sequence of blocks.
Told == [k \in 1..before.size |-> <<before.file, told>>]
Active == reader \in {"open", "fstat", "read", "refstat", "relstat", "ok"}

ReaderType ==
    /\ reader \in {"lstat", "open", "fstat", "read", "refstat", "relstat", "ok",
                   "rejected"}
    /\ got \in Seq(File \X Nat)
    /\ told \in Nat /\ unseen \in BOOLEAN
    /\ Active => before \in [file : File, size : Nat, stamp : Nat]
    /\ reader = "fstat" => fd \in File

\* The content told of was there, the version of its file only grows, and as
\* long as its state is the one told of, so is its version.
ToldInv ==
    /\ Active => Told \in during
    /\ Active => told <= body[before.file].version
    /\ Active /\ reader # "ok" /\ ~unseen /\ before = FileState(before.file) =>
          body[before.file].version = told

\* Blocks read so far are of the file told of, and of versions since.
GotInv ==
    /\ reader \in {"lstat", "open", "fstat"} => got = <<>>
    /\ reader \in {"read", "refstat", "relstat"} => fd = before.file
    /\ reader \in {"read", "refstat"} =>
          \A k \in DOMAIN got : /\ got[k][1] = before.file
                                /\ told <= got[k][2]
                                /\ got[k][2] <= body[before.file].version
    /\ reader = "relstat" /\ ~unseen =>
          \A k \in DOMAIN got : got[k] = <<before.file, told>>

ReaderInv == ReaderType /\ ToldInv /\ GotInv /\ ReadIsSnapshot

IInv == DiskInv /\ ReaderInv

-----------------------------------------------------------------------------
\* The initial states satisfy the invariant, with or without the protocol.
LEMMA OutputStart == ASSUME OutputInit \/ OutputIdle PROVE IInv
<1>1. NoFile \notin File /\ target \in {NoFile, "plain", "symlink", "directory"}
  BY OutputAssumption DEF OutputInit, OutputIdle, NoFile, File
<1>2. Blank BY DEF OutputInit, OutputIdle
<1>3. target \notin Writer BY <1>1, OutputAssumption DEF NoFile
<1>4. DiskType
  BY <1>1, <1>2, <1>3 DEF Blank, DiskType, OutputInit, OutputIdle, File, NoFile,
     Place, Whole, Bodies
<1>5. WholeInv /\ FreshInv /\ LitterInv
  BY <1>2, <1>3 DEF Blank, WholeInv, FreshInv, LitterInv, OutputInit, OutputIdle
<1>6. KeptInv
  BY DEF KeptInv, OutputInit, OutputIdle
<1>7. got = <<>> /\ reader \in {"lstat", "rejected"} /\ told = 0 /\ unseen = FALSE
  BY DEF OutputInit, OutputIdle, Blank
<1>8. got \in Seq(File \X Nat) BY <1>7
<1> QED BY <1>4, <1>5, <1>6, <1>7, <1>8
        DEF IInv, DiskInv, ReaderInv, ReaderType, ToldInv, GotInv, ReadIsSnapshot, Active

\* Versions only grow, and a file that keeps its version keeps its state.
Grows ==
    \A f \in File :
        /\ body[f].version \in Nat /\ body'[f].version \in Nat
        /\ body[f].version <= body'[f].version
        /\ body'[f].version = body[f].version =>
              body'[f].size = body[f].size /\ body'[f].stamp = body[f].stamp

(***************************************************************************)
(* What writers and others do moves the reader's invariant only by adding  *)
(* contents and versions.                                                  *)
(***************************************************************************)
LEMMA ReaderFrame ==
    ASSUME IInv, UNCHANGED <<reader, fd, before, got>>,
           Observe \/ UNCHANGED <<observed, body>>,
           Grows
    PROVE  ReaderInv'
<1> USE DEF IInv, ReaderInv, Grows
<1>1. /\ during \subseteq during' /\ told' = told /\ unseen' \in BOOLEAN
      /\ unseen => unseen'
  BY DEF Observe, observed, ReaderType
<1>2. ReaderType' BY <1>1 DEF ReaderType, Active
<1>3. Told' = Told BY <1>1 DEF Told
<1>4. Active => before.file \in File BY DEF ReaderType
<1>5. told \in Nat BY DEF ReaderType
<1>6. ASSUME Active', reader' # "ok", ~unseen', before' = FileState(before.file)'
      PROVE  body'[before.file].version = told
  <2>1. before.file \in File /\ ~unseen /\ Active /\ reader # "ok"
    BY <1>1, <1>4, <1>6 DEF Active, ReaderType
  <2>2. body'[before.file].version = body[before.file].version
    BY <1>6, <2>1 DEF Observe, observed, Active
  <2>3. before = FileState(before.file) BY <1>6, <2>1, <2>2 DEF FileState
  <2> QED BY <2>1, <2>2, <2>3 DEF ToldInv
<1>7. ToldInv'
  <2>1. Active' => Told' \in during' BY <1>1, <1>3 DEF ToldInv, Active
  <2>2. Active' => told' <= body'[before.file].version
    BY <1>1, <1>4, <1>5 DEF ToldInv, Active
  <2> QED BY <1>1, <1>6, <2>1, <2>2 DEF ToldInv
<1>8. \A k \in DOMAIN got : got[k] \in File \X Nat BY DEF ReaderType
<1>9. GotInv'
  BY <1>1, <1>4, <1>5, <1>8 DEF GotInv, Active
<1>10. ReadIsSnapshot' BY <1>1 DEF ReadIsSnapshot
<1> QED BY <1>2, <1>7, <1>9, <1>10

\* Of what stands on the disk the reader disturbs nothing.
LEMMA DiskFrame ==
    ASSUME DiskInv, UNCHANGED <<disk, writer>> PROVE DiskInv'
BY DEF DiskInv, DiskType, WholeInv, FreshInv, LitterInv, KeptInv, Solid, disk,
   writer

-----------------------------------------------------------------------------
(***************************************************************************)
(* A step of a writer that leaves all files as they are, and goes on.      *)
(***************************************************************************)
LEMMA Moves ==
    ASSUME IInv, NEW w \in Writer, NEW there \in Place, GoTo(w, there), Keep(w),
           UNCHANGED <<target, was, body>>, temp' \subseteq temp \cup {w},
           there \in {"resymlink", "replace", "done"} =>
               pc[w] \in {"resymlink", "replace"} ,
           there \in {"symlink", "exists", "isfile", "make", "write", "idle"} =>
               pc[w] \in {"symlink", "exists", "isfile", "make", "write"},
           there \in {"idle", "symlink", "exists", "isfile", "make", "done", "raised"}
               => w \notin temp',
           there \in {"isfile", "make", "write", "resymlink", "replace", "done"} =>
               \/ pc[w] \in {"isfile", "make", "write", "resymlink", "replace"}
               \/ force[w] \/ target = NoFile
    PROVE  IInv'
<1> USE DEF IInv, DiskInv
<1>1. pc' = [pc EXCEPT ![w] = there] BY DEF GoTo
<1>2. /\ pc'[w] = there /\ \A v \in Writer \ {w} : pc'[v] = pc[v]
  BY <1>1 DEF DiskType
<1>3. DiskType' BY <1>1 DEF DiskType
<1>4. WholeInv'
  BY <1>2 DEF WholeInv, Solid
<1>5. FreshInv'
  BY <1>2 DEF FreshInv
<1>6. LitterInv'
  BY <1>2 DEF LitterInv
<1>7. KeptInv'
  <2>1. force' = force BY DEF Keep
  <2> QED BY <1>2, <2>1 DEF KeptInv, DiskType
<1>8. ReaderInv'
  <2>1. Grows BY DEF DiskType, Grows, Bodies
  <2> QED BY <2>1, ReaderFrame DEF Keep
<1> QED BY <1>3, <1>4, <1>5, <1>6, <1>7, <1>8

\* Writing a block.
LEMMA WriteInv == ASSUME IInv, NEW w \in Writer, Write(w) PROVE IInv'
<1> USE DEF IInv, DiskInv
<1>1. w \in File /\ pc[w] = "write" /\ w \notin was
  BY DEF Write, File, FreshInv
<1>2. body' = [body EXCEPT ![w].size = body[w].size + 1, ![w].version = @ + 1,
                         ![w].stamp = body[w].version + 1]
  BY DEF Write, Fill
<1>3. body[w] \in Bodies BY <1>1 DEF DiskType
<1>4. /\ body'[w] = [size |-> body[w].size + 1, durable |-> body[w].durable,
                     version |-> body[w].version + 1, stamp |-> body[w].version + 1]
      /\ \A f \in File \ {w} : body'[f] = body[f]
  BY <1>1, <1>2, <1>3 DEF DiskType, Bodies
<1>5. body' \in [File -> Bodies]
  <2>1. body'[w] \in Bodies BY <1>3, <1>4 DEF Bodies
  <2>2. DOMAIN body' = File BY <1>2 DEF DiskType
  <2> QED BY <1>2, <1>3, <2>1, <2>2 DEF DiskType
<1>6. DiskType' BY <1>5 DEF DiskType, Write
<1>7. WholeInv'
  BY <1>1, <1>4 DEF WholeInv, Solid, Write, File
<1>8. FreshInv' /\ LitterInv' /\ KeptInv'
  BY DEF FreshInv, LitterInv, KeptInv, Write, Keep
<1>9. Grows BY <1>3, <1>4, <1>5 DEF DiskType, Grows, Bodies
<1>10. ReaderInv' BY <1>9, ReaderFrame DEF Write, Keep
<1> QED BY <1>6, <1>7, <1>8, <1>10

\* Making the file durable: it is complete, and whole from now on.
LEMMA FsyncInv == ASSUME IInv, NEW w \in Writer, Fsync(w) PROVE IInv'
<1> USE DEF IInv, DiskInv
<1>1. w \in File /\ pc[w] = "write" /\ w \notin was /\ body[w].size = Whole
  BY DEF Fsync, File, FreshInv
<1>2. body' = [body EXCEPT ![w].durable = body[w].size] BY DEF Fsync, Synced
<1>3. body[w] \in Bodies BY <1>1 DEF DiskType
<1>4. /\ body'[w] = [size |-> body[w].size, durable |-> body[w].size,
                     version |-> body[w].version, stamp |-> body[w].stamp]
      /\ \A f \in File \ {w} : body'[f] = body[f]
  BY <1>1, <1>2, <1>3 DEF DiskType, Bodies
<1>5. body' \in [File -> Bodies]
  <2>1. body'[w] \in Bodies BY <1>3, <1>4 DEF Bodies
  <2> QED BY <1>2, <1>3, <2>1 DEF DiskType
<1>6. PICK there \in {"resymlink", "replace"} : pc' = [pc EXCEPT ![w] = there]
  BY DEF Fsync, GoTo
<1>7. pc'[w] = there /\ \A v \in Writer \ {w} : pc'[v] = pc[v]
  BY <1>6 DEF DiskType
<1>8. DiskType' BY <1>5, <1>6 DEF DiskType, Fsync, Place
<1>9. WholeInv'
  BY <1>1, <1>4, <1>7 DEF WholeInv, Solid, Fsync, File
<1>10. FreshInv' /\ LitterInv'
  BY <1>7 DEF FreshInv, LitterInv, Fsync
<1>11. KeptInv'
  BY <1>1, <1>7 DEF KeptInv, Fsync, Keep
<1>12. Grows BY <1>3, <1>4, <1>5 DEF DiskType, Grows, Bodies
<1>13. ReaderInv' BY <1>12, ReaderFrame DEF Fsync, Keep
<1> QED BY <1>8, <1>9, <1>10, <1>11, <1>13

\* The rename: the output names the file of the writer.
LEMMA ReplaceInv == ASSUME IInv, NEW w \in Writer, Replace(w) PROVE IInv'
<1> USE DEF IInv, DiskInv
<1>1. pc[w] = "replace" /\ w \in File /\ Solid(w)
  BY DEF Replace, File, WholeInv
<1>2. /\ target' = w /\ was' = was \cup {w} /\ temp' = temp \ {w} /\ body' = body
      /\ pc' = [pc EXCEPT ![w] = "done"] /\ force' = force
  BY DEF Replace, Point, GoTo, Keep
<1>3. pc'[w] = "done" /\ \A v \in Writer \ {w} : pc'[v] = pc[v]
  BY <1>2 DEF DiskType
<1>4. DiskType' BY <1>1, <1>2 DEF DiskType, Place
<1>5. WholeInv' BY <1>1, <1>2, <1>3 DEF WholeInv, Solid
<1>6. FreshInv' /\ LitterInv' BY <1>2, <1>3 DEF FreshInv, LitterInv
<1>7. KeptInv' BY <1>1, <1>2, <1>3 DEF KeptInv
<1>8. Grows BY <1>2 DEF DiskType, Grows, Bodies
<1>9. ReaderInv' BY <1>8, ReaderFrame DEF Replace, Keep
<1> QED BY <1>4, <1>5, <1>6, <1>7, <1>9

LEMMA WriterInv == ASSUME IInv, NEW w \in Writer, WriterStep(w) PROVE IInv'
<1> USE DEF Place
<1>1. CASE AskSymlink(w)
  BY <1>1, Moves DEF AskSymlink, disk, IInv, DiskInv, LitterInv
<1>2. CASE AskExists(w)
  BY <1>2, Moves DEF AskExists, disk, IInv, DiskInv, LitterInv, MayReplace
<1>3. CASE AskFile(w)
  BY <1>3, Moves DEF AskFile, disk, IInv, DiskInv, LitterInv
<1>4. CASE MakeTemporary(w)
  BY <1>4, Moves DEF MakeTemporary
<1>5. CASE MakeFails(w)
  BY <1>5, Moves DEF MakeFails, disk, IInv, DiskInv, LitterInv
<1>6. CASE AskSymlinkAgain(w)
  BY <1>6, Moves DEF AskSymlinkAgain, disk
<1>7. CASE WriteFails(w)
  BY <1>7, Moves DEF WriteFails, Cleanup, disk
<1>8. CASE Unlink(w)
  BY <1>8, Moves DEF Unlink
<1> QED BY <1>1, <1>2, <1>3, <1>4, <1>5, <1>6, <1>7, <1>8, WriteInv, FsyncInv, ReplaceInv
        DEF WriterStep

-----------------------------------------------------------------------------
\* The reader.
LEMMA Rejects == ASSUME IInv, Reject PROVE ReaderInv'
<1>1. reader' = "rejected" /\ got' = <<>> /\ told' = 0 /\ unseen' = FALSE
  BY DEF Reject
<1>2. got' \in Seq(File \X Nat) BY <1>1
<1> QED BY <1>1, <1>2 DEF ReaderInv, ReaderType, ToldInv, GotInv, ReadIsSnapshot, Active

LEMMA LstatInv == ASSUME IInv, Lstat PROVE ReaderInv'
<1>1. CASE Reject BY <1>1, Rejects
<1>2. CASE ~Reject
  <2> USE DEF IInv, DiskInv, ReaderInv
  <2>1. /\ reader' = "open" /\ before' = FileState(target) /\ target # NoFile
        /\ during' = {Content(target, body)} /\ told' = body[target].version
        /\ UNCHANGED <<fd, got, unseen, body>>
        /\ reader = "lstat"
    BY <1>2 DEF Lstat, ReaderKeeps, disk
  <2>2. target \in File BY <2>1 DEF DiskType
  <2>3. body[target] \in Bodies BY <2>2 DEF DiskType
  <2>4. before' = [file |-> target, size |-> body[target].size,
                   stamp |-> body[target].stamp]
    BY <2>1 DEF FileState
  <2>5. ReaderType' BY <2>1, <2>2, <2>3, <2>4 DEF ReaderType, Bodies
  <2>6. Told' = Content(target, body) BY <2>1, <2>4 DEF Told, Content
  <2>7. ToldInv' BY <2>1, <2>3, <2>4, <2>6 DEF ToldInv, Bodies
  <2>8. GotInv' /\ ReadIsSnapshot' BY <2>1 DEF GotInv, ReadIsSnapshot, observed
  <2> QED BY <2>5, <2>7, <2>8
<1> QED BY <1>1, <1>2

\* The reader goes on, and nothing else changes but the file it has open.
LEMMA OpenInv == ASSUME IInv, Open PROVE ReaderInv'
<1>1. CASE Reject BY <1>1, Rejects
<1>2. CASE ~Reject
  <2> USE DEF IInv, DiskInv, ReaderInv
  <2>1. /\ reader = "open" /\ reader' = "fstat" /\ fd' = target /\ target # NoFile
        /\ UNCHANGED <<before, got, observed, body>>
    BY <1>2 DEF Open, ReaderKeeps, disk
  <2>2. ReaderType' BY <2>1 DEF ReaderType, Active, DiskType, observed
  <2>3. ToldInv' BY <2>1 DEF ToldInv, Active, Told, FileState, observed
  <2>4. GotInv' /\ ReadIsSnapshot' BY <2>1 DEF GotInv, ReadIsSnapshot, observed
  <2> QED BY <2>2, <2>3, <2>4
<1> QED BY <1>1, <1>2

LEMMA FstatInv == ASSUME IInv, Fstat PROVE ReaderInv'
<1>1. CASE Reject BY <1>1, Rejects
<1>2. CASE ~Reject
  <2> USE DEF IInv, DiskInv, ReaderInv
  <2>1. /\ reader = "fstat" /\ reader' = "read" /\ before = FileState(fd)
        /\ UNCHANGED <<fd, before, got, observed, body>>
    BY <1>2 DEF Fstat, SameState, ReaderKeeps, disk
  <2>2. fd = before.file BY <2>1 DEF FileState
  <2>3. ReaderType' BY <2>1 DEF ReaderType, Active, observed
  <2>4. ToldInv' BY <2>1 DEF ToldInv, Active, Told, FileState, observed
  <2>5. GotInv' /\ ReadIsSnapshot' BY <2>1, <2>2 DEF GotInv, ReadIsSnapshot, observed
  <2> QED BY <2>3, <2>4, <2>5
<1> QED BY <1>1, <1>2

\* What is read has the version the file has now.
LEMMA ReadInv == ASSUME IInv, Read PROVE ReaderInv'
<1>1. CASE Reject BY <1>1, Rejects
<1>2. CASE ~Reject
  <2> USE DEF IInv, DiskInv, ReaderInv
  <2>1. /\ reader = "read" /\ UNCHANGED <<fd, before, observed, body>>
        /\ reader' \in {"read", "refstat"}
    BY <1>2 DEF Read, ReaderKeeps, disk
  <2>2. /\ fd = before.file /\ before.file \in File /\ told \in Nat
        /\ told <= body[fd].version /\ body[fd].version \in Nat
    BY <2>1 DEF GotInv, ReaderType, ToldInv, Active, DiskType, Bodies
  <2>3. \/ got' = got
        \/ \E n \in Nat : got' = got \o [k \in 1..n |-> <<fd, body[fd].version>>]
    <3>1. got \in Seq(File \X Nat) /\ Len(got) \in Nat /\ body[fd].size \in Nat
      BY <2>2 DEF ReaderType, DiskType, Bodies
    <3> DEFINE rest == body[fd].size - Len(got)
               room == MaxBlocks + 1 - Len(got)
               most == IF rest < room THEN rest ELSE room
    <3>2. most \in Int BY <3>1, OutputAssumption
    <3>3. CASE rest <= 0 BY <1>2, <3>3 DEF Read
    <3>4. CASE ~(rest <= 0)
      <4>1. PICK n \in 1..most : got' = got \o [k \in 1..n |-> <<fd, body[fd].version>>]
        BY <1>2, <3>4 DEF Read
      <4>2. n \in Nat BY <3>2
      <4> QED BY <4>1, <4>2
    <3> QED BY <3>3, <3>4
  <2>4. CASE got' = got
    <3>1. ReaderType' BY <2>1, <2>4 DEF ReaderType, Active, observed
    <3>2. ToldInv' BY <2>1, <2>4 DEF ToldInv, Active, Told, FileState, observed
    <3>3. GotInv' /\ ReadIsSnapshot' BY <2>1, <2>4 DEF GotInv, ReadIsSnapshot, observed
    <3> QED BY <3>1, <3>2, <3>3
  <2>5. ASSUME NEW n \in Nat, got' = got \o [k \in 1..n |-> <<fd, body[fd].version>>]
        PROVE  ReaderInv'
    <3> DEFINE more == [k \in 1..n |-> <<fd, body[fd].version>>]
    <3>1. more \in Seq(File \X Nat) /\ Len(more) = n /\ DOMAIN more = 1..n
          /\ \A k \in 1..n : more[k] = <<fd, body[fd].version>>
      BY <2>2
    <3>2. got \in Seq(File \X Nat) BY DEF ReaderType
    <3> HIDE DEF more
    <3>3. got' = got \o more BY <2>5 DEF more
    <3>4. got' \in Seq(File \X Nat) BY <3>1, <3>2, <3>3
    <3>5. \A k \in DOMAIN got' : \/ k \in DOMAIN got /\ got'[k] = got[k]
                                 \/ got'[k] = <<fd, body[fd].version>>
      <4> TAKE k \in DOMAIN got'
      <4>1. k \in 1..(Len(got) + n) BY <3>1, <3>2, <3>3
      <4>2. CASE k \in 1..Len(got) BY <3>1, <3>2, <3>3, <4>2
      <4>3. CASE k \notin 1..Len(got)
        <5>1. Len(got) \in Nat /\ k - Len(got) \in 1..n BY <3>2, <4>1, <4>3
        <5>2. got'[k] = more[k - Len(got)] BY <3>1, <3>2, <3>3, <4>1, <4>3, <5>1
        <5> QED BY <3>1, <5>1, <5>2
      <4> QED BY <4>2, <4>3
    <3>6. ReaderType' BY <2>1, <3>4 DEF ReaderType, Active, observed
    <3>7. ToldInv' BY <2>1 DEF ToldInv, Active, Told, FileState, observed
    <3>8. GotInv'
      <4>1. \A k \in DOMAIN got' : /\ got'[k][1] = before.file
                                   /\ told <= got'[k][2]
                                   /\ got'[k][2] <= body[before.file].version
        BY <2>1, <2>2, <3>5 DEF GotInv
      <4> QED BY <2>1, <2>2, <4>1 DEF GotInv, observed
    <3> QED BY <2>1, <3>6, <3>7, <3>8 DEF ReadIsSnapshot
  <2> QED BY <2>3, <2>4, <2>5
<1> QED BY <1>1, <1>2

\* The state is the one told of: unless a write left it so, the version is too,
\* and that of every block read before.
LEMMA FstatAgainInv == ASSUME IInv, FstatAgain PROVE ReaderInv'
<1>1. CASE Reject BY <1>1, Rejects
<1>2. CASE ~Reject
  <2> USE DEF IInv, DiskInv, ReaderInv
  <2>1. /\ reader = "refstat" /\ reader' = "relstat" /\ before = FileState(fd)
        /\ UNCHANGED <<fd, before, got, observed, body>>
    BY <1>2 DEF FstatAgain, SameState, ReaderKeeps, disk
  <2>2. fd = before.file /\ told \in Nat BY <2>1 DEF GotInv, ReaderType
  <2>3. ASSUME ~unseen PROVE \A k \in DOMAIN got : got[k] = <<before.file, told>>
    <3> TAKE k \in DOMAIN got
    <3>1. got[k] \in File \X Nat BY DEF ReaderType
    <3>2. body[before.file].version = told BY <2>1, <2>2, <2>3 DEF ToldInv, Active
    <3>3. got[k][1] = before.file /\ told <= got[k][2] /\ got[k][2] <= told
      BY <2>1, <3>2 DEF GotInv
    <3> QED BY <2>2, <3>1, <3>3
  <2>4. ReaderType' BY <2>1 DEF ReaderType, Active, observed
  <2>5. ToldInv' BY <2>1 DEF ToldInv, Active, Told, FileState, observed
  <2>6. GotInv' /\ ReadIsSnapshot' BY <2>1, <2>2, <2>3 DEF GotInv, ReadIsSnapshot, observed
  <2> QED BY <2>4, <2>5, <2>6
<1> QED BY <1>1, <1>2

\* As many blocks as told of, all of the version told of: what was told.
LEMMA LstatAgainInv == ASSUME IInv, LstatAgain PROVE ReaderInv'
<1>1. CASE Reject BY <1>1, Rejects
<1>2. CASE ~Reject
  <2> USE DEF IInv, DiskInv, ReaderInv
  <2>1. /\ reader = "relstat" /\ reader' = "ok" /\ Len(got) = before.size
        /\ UNCHANGED <<fd, before, got, observed, body>>
    BY <1>2 DEF LstatAgain, ReaderKeeps, disk
  <2>2. got \in Seq(File \X Nat) /\ before.size \in Nat
    BY <2>1 DEF ReaderType, Active
  <2>3. ASSUME ~unseen PROVE got = Told
    <3>1. DOMAIN got = 1..before.size BY <2>1, <2>2
    <3>2. \A k \in 1..before.size : got[k] = <<before.file, told>>
      BY <2>1, <2>3, <3>1 DEF GotInv
    <3>3. got = [k \in DOMAIN got |-> got[k]] BY <2>2
    <3> QED BY <3>1, <3>2, <3>3 DEF Told
  <2>4. ReadIsSnapshot' BY <2>1, <2>3 DEF ReadIsSnapshot, ToldInv, Active, observed
  <2>5. ReaderType' BY <2>1 DEF ReaderType, Active, observed
  <2>6. ToldInv' BY <2>1 DEF ToldInv, Active, Told, FileState, observed
  <2>7. GotInv' BY <2>1 DEF GotInv, observed
  <2> QED BY <2>4, <2>5, <2>6, <2>7
<1> QED BY <1>1, <1>2

LEMMA ReaderStepInv == ASSUME IInv, ReaderStep PROVE IInv'
<1>1. ReaderInv'
  BY LstatInv, OpenInv, FstatInv, ReadInv, FstatAgainInv, LstatAgainInv DEF
     ReaderStep
<1>2. UNCHANGED <<disk, writer>>
  BY DEF ReaderStep, Lstat, Open, Fstat, Read, FstatAgain, LstatAgain, ReaderKeeps
<1> QED BY <1>1, <1>2, DiskFrame DEF IInv

-----------------------------------------------------------------------------
\* Others put something in the place of the output, but no file of a writer.
LEMMA OthersInv == ASSUME IInv, Others PROVE IInv'
<1> USE DEF IInv, DiskInv
<1>1. UNCHANGED <<temp, pc, force, reader, fd, before, got>> /\ Observe
  BY DEF Others, writer
<1>2. /\ "plain" \in File /\ "plain" \notin Writer /\ NoFile \notin Writer
      /\ "symlink" \in File \ Writer /\ "directory" \in File \ Writer
  BY OutputAssumption DEF File, NoFile
<1>3. CASE /\ UNCHANGED body
           /\ \E f \in {NoFile, "plain", "symlink", "directory"} : Point(f)
  <2>1. PICK f \in {NoFile, "plain", "symlink", "directory"} :
            target' = f /\ was' = was \cup {f}
    BY <1>3 DEF Point
  <2>2. DiskType' BY <1>1, <1>2, <1>3, <2>1 DEF DiskType
  <2>3. WholeInv' /\ FreshInv' /\ LitterInv'
    BY <1>1, <1>2, <1>3, <2>1 DEF WholeInv, FreshInv, LitterInv, Solid
  <2>4. KeptInv' BY <1>1, <2>1 DEF KeptInv
  <2>5. Grows BY <1>3 DEF DiskType, Grows, Bodies
  <2> QED BY <1>1, <2>2, <2>3, <2>4, <2>5, ReaderFrame
<1>4. CASE /\ UNCHANGED <<target, was>>
           /\ \E size \in {0, Whole - 1, Whole, MaxBlocks + 1},
                 mark \in 0..(body["plain"].version + 1) : Fill("plain", size, mark)
  <2>1. body["plain"] \in Bodies BY <1>2 DEF DiskType
  <2>2. PICK size \in Nat, mark \in Nat : Fill("plain", size, mark)
    <3>1. PICK block \in {0, Whole - 1, Whole, MaxBlocks + 1},
               tick \in 0..(body["plain"].version + 1) : Fill("plain", block, tick)
      BY <1>4
    <3>2. block \in Nat BY OutputAssumption DEF Whole
    <3>3. tick \in Nat BY <2>1 DEF Bodies
    <3> QED BY <3>1, <3>2, <3>3, Zenon
  <2>3. /\ body'["plain"] = [size |-> size, durable |-> body["plain"].durable,
                             version |-> body["plain"].version + 1, stamp |-> mark]
        /\ \A f \in File \ {"plain"} : body'[f] = body[f]
    BY <1>2, <2>1, <2>2 DEF Fill, DiskType, Bodies
  <2>4. body' \in [File -> Bodies]
    <3>1. body'["plain"] \in Bodies BY <2>1, <2>3 DEF Bodies
    <3> QED BY <2>1, <2>2, <3>1 DEF Fill, DiskType
  <2>5. DiskType' BY <1>1, <1>4, <2>4 DEF DiskType
  <2>6. WholeInv' BY <1>1, <1>2, <1>4, <2>3 DEF WholeInv, Solid, File
  <2>7. FreshInv' /\ LitterInv' /\ KeptInv'
    BY <1>1, <1>4 DEF FreshInv, LitterInv, KeptInv
  <2>8. Grows BY <2>1, <2>3, <2>4 DEF DiskType, Grows, Bodies
  <2> QED BY <1>1, <2>5, <2>6, <2>7, <2>8, ReaderFrame
<1> QED BY <1>3, <1>4 DEF Others

\* After a crash the output names a file it has named: what it held is durable.
LEMMA CrashInv == ASSUME IInv, Crash PROVE IInv'
<1> USE DEF IInv, DiskInv
<1>1. PICK lost \in [Writer -> 0..Whole] :
        /\ \A w \in Writer : lost[w] \in body[w].durable..body[w].size
        /\ body' = [f \in File |-> IF f \in Writer
                                   THEN [body[f] EXCEPT !.size = lost[f]]
                                   ELSE body[f]]
  BY DEF Crash
<1>2. /\ target' \in was /\ UNCHANGED <<was, temp>>
      /\ pc' = [w \in Writer |-> "crashed"]
  BY DEF Crash
<1>3. \A w \in Writer :
        body'[w] = [size |-> lost[w], durable |-> body[w].durable,
                    version |-> body[w].version, stamp |-> body[w].stamp]
  BY <1>1, SMTT(60) DEF DiskType, File, Bodies
<1>4. body' \in [File -> Bodies]
  <2>1. \A w \in Writer : lost[w] \in Nat BY <1>1 DEF Whole
  <2>2. \A f \in File : body'[f] \in Bodies
    BY <1>1, <1>3, <2>1, SMTT(60) DEF DiskType, File, Bodies
  <2> QED BY <1>1, <2>2
<1>5. DiskType' BY <1>2, <1>4 DEF DiskType, Place
<1>6. WholeInv'
  <2>1. \A w \in was \cap Writer : lost[w] = Whole
    BY <1>1 DEF WholeInv, Solid, Whole
  <2>2. \A w \in was \cap Writer : body[w].durable = Whole BY DEF WholeInv, Solid
  <2>3. ASSUME NEW w \in Writer, w \in was
        PROVE  body'[w].size = Whole /\ body'[w].durable = Whole
    <3>1. body'[w] = [size |-> Whole, durable |-> Whole, version |-> body[w].version,
                      stamp |-> body[w].stamp]
      BY <1>3, <2>1, <2>2, <2>3
    <3> QED BY <3>1
  <2> QED BY <1>2, <2>3 DEF WholeInv, Solid
<1>7. FreshInv' /\ LitterInv' /\ KeptInv' BY <1>2 DEF FreshInv, LitterInv, KeptInv
<1>8. ReaderInv' BY Rejects DEF Crash
<1> QED BY <1>5, <1>6, <1>7, <1>8

-----------------------------------------------------------------------------
\* The invariant is inductive, and it says what the properties say.
LEMMA OutputInductive == ASSUME IInv, [Next]_vars PROVE IInv'
<1>1. ASSUME NEW w \in Writer, WriterStep(w) PROVE IInv' BY <1>1, WriterInv
<1>2. CASE UNCHANGED outputVars
  <2>1. UNCHANGED <<disk, writer, reading>> BY <1>2 DEF outputVars
  <2>2. DiskInv' BY <2>1, DiskFrame DEF IInv
  <2>3. Grows BY <2>1 DEF disk, IInv, DiskInv, DiskType, Grows, Bodies
  <2> QED BY <2>1, <2>2, <2>3, ReaderFrame DEF reading, disk, IInv
<1> QED BY <1>1, <1>2, ReaderStepInv, OthersInv, CrashInv DEF Next, OutputNext, vars

LEMMA OutputInvariance == Spec => []IInv
<1>1. Init => IInv BY OutputStart DEF Init
<1> QED BY <1>1, OutputInductive, PTL DEF Spec

(***************************************************************************)
(* For any number of writers, however they, the reader, others and a crash *)
(* interleave (write_evidence, write_passport), the output is never a part *)
(* of a payload.                                                           *)
(***************************************************************************)
THEOREM OutputIsWhole == Spec => []TargetIsWhole
<1>1. IInv => TargetIsWhole
  BY DEF IInv, DiskInv, DiskType, WholeInv, Solid, TargetIsWhole
<1> QED BY <1>1, OutputInvariance, PTL

\* No writer of whichever protocol leaves its temporary file behind, however
\* it ends (the except clauses of write_evidence and write_passport).
THEOREM NothingLitters == Spec => []NoLitter
<1>1. IInv => NoLitter BY DEF IInv, DiskInv, LitterInv, NoLitter
<1> QED BY <1>1, OutputInvariance, PTL

(***************************************************************************)
(* Bytes read_regular_file accepts are one content the output had during   *)
(* the read, for any number of writers and rewrites in place, those that   *)
(* come back to an earlier size and time included; excepted is a write     *)
(* that leaves the very state lstat told of, which no stat can tell.       *)
(***************************************************************************)
THEOREM ReadsAreSnapshots == Spec => []ReadIsSnapshot
<1>1. IInv => ReadIsSnapshot BY DEF IInv, ReaderInv
<1> QED BY <1>1, OutputInvariance, PTL

\* write_passport without --force: there was a moment without an output.
THEOREM ExistingStays == Spec => []ExistingIsKept
<1>1. IInv => ExistingIsKept BY DEF IInv, DiskInv, KeptInv, ExistingIsKept
<1> QED BY <1>1, OutputInvariance, PTL

-----------------------------------------------------------------------------
(***************************************************************************)
(* The impact cache.                                                       *)
(***************************************************************************)
Versions == [1..LastSource -> Nat]
Steps == {"fingerprint", "lookup", "build", "create", "write", "rename", "seed",
          "visit", "done"}
Below(a, b) == \A s \in 1..LastSource : a[s] <= b[s]

CacheType ==
    /\ LastSource \in Nat \ {0}
    /\ version \in Versions /\ began \in [Call -> Versions]
    /\ prints \in [Call -> Seq(Nat)] /\ graph \in [Call -> Seq(Nat)]
    /\ step \in [Call -> Steps]
    /\ tmp \in Call \cup {"none"} /\ cache \in Call \cup {"none"}
    /\ handle \in [Call -> Call \cup {"none"}]
    /\ \A c \in Call : step[c] = "write" => handle[c] \in Call
    /\ file = [f \in Call |-> file[f]]
    /\ \A c \in Call : Below(began[c], version)

\* The stamp of a source tells its version, unless one came back.
StampInv ==
    /\ stamp \in Versions
    /\ \A s \in 1..LastSource : s \notin alike => stamp[s] = version[s]

\* A fingerprint tells of versions since the call began.
PrintInv == \A c \in Call :
    /\ step[c] = "fingerprint" => Len(prints[c]) < LastSource
    /\ step[c] \notin {"fingerprint", "done"} => Len(prints[c]) = LastSource
    /\ \A s \in 1..Len(prints[c]) :
          /\ s \in 1..LastSource
          /\ s \notin alike => began[c][s] <= prints[c][s] /\ prints[c][s] <= version[s]

\* A graph tells of versions no older than the fingerprint.
GraphInv == \A c \in Call :
    /\ step[c] \in {"fingerprint", "lookup"} => graph[c] = <<>>
    /\ step[c] = "build" => Len(graph[c]) < LastSource
    /\ step[c] \in {"create", "write", "rename", "seed", "visit"} =>
          Len(graph[c]) = LastSource
    /\ step[c] = "done" => graph[c] = <<>> \/ Len(graph[c]) = LastSource
    /\ \A s \in 1..Len(graph[c]) :
          /\ s \in 1..LastSource
          /\ graph[c][s] <= version[s]
          /\ s \notin alike => began[c][s] <= graph[c][s]
          /\ s \notin alike /\ step[c] # "done" => prints[c][s] <= graph[c][s]

\* An empty list is of a version that could not be read once.
BlankInv ==
    /\ blank = [c \in Call |-> blank[c]]
    /\ \A c \in Call : \A s \in blank[c] :
          s \in 1..Len(graph[c]) /\ <<s, graph[c][s]>> \in failed

\* Whatever a file of the cache holds, its graph is no older than its
\* fingerprint, whoever wrote it, and its empty lists are of failed reads.
Sound(entry) ==
    \/ entry \in {Empty, Garbled}
    \/ \E p, g \in Versions, b \in SUBSET (1..LastSource) :
          /\ entry = <<p, g, b>>
          /\ \A s \in 1..LastSource : s \notin alike => p[s] <= g[s]
          /\ Below(g, version)
          /\ \A s \in b : <<s, g[s]>> \in failed
FileInv == \A f \in Call : Sound(file[f])

CInv == CacheType /\ StampInv /\ PrintInv /\ GraphInv /\ BlankInv /\ FileInv

-----------------------------------------------------------------------------
\* Nothing has been read or written at first.
LEMMA CacheStart == ASSUME ImpactInit PROVE CInv
<1>1. LastSource \in Nat \ {0} BY ImpactAssumption DEF LastSource
<1>2. /\ version = [s \in 1..LastSource |-> 0] /\ began = [c \in Call |-> version]
      /\ prints = [c \in Call |-> <<>>] /\ graph = [c \in Call |-> <<>>]
      /\ tmp = "none" /\ cache = "none" /\ file = [c \in Call |-> Empty]
      /\ handle = [c \in Call |-> "none"]
      /\ step \in [Call -> {"fingerprint", "done"}]
  BY DEF ImpactInit
<1>3. CacheType
  <2>1. \A c \in Call : step[c] # "write" BY <1>2
  <2>2. step \in [Call -> Steps] BY <1>2 DEF Steps
  <2>3. version \in Versions /\ began \in [Call -> Versions] BY <1>2 DEF Versions
  <2>4. prints \in [Call -> Seq(Nat)] /\ graph \in [Call -> Seq(Nat)] BY <1>2
  <2>5. \A c \in Call : Below(began[c], version) BY <1>2 DEF Below
  <2> QED BY <1>1, <1>2, <2>1, <2>2, <2>3, <2>4, <2>5 DEF CacheType
<1>4. PrintInv BY <1>1, <1>2 DEF PrintInv
<1>5. GraphInv BY <1>1, <1>2 DEF GraphInv
<1>6. FileInv BY <1>2 DEF FileInv, Sound
<1>7. StampInv BY <1>2 DEF ImpactInit, StampInv, Versions
<1>8. BlankInv BY DEF ImpactInit, BlankInv
<1> QED BY <1>3, <1>4, <1>5, <1>6, <1>7, <1>8 DEF CInv

\* A step that edits nothing and reads nothing, and one that changes no file.
LEMMA ReadFrame ==
    ASSUME CInv, UNCHANGED <<edited, read, mode>> PROVE StampInv' /\ BlankInv'
BY DEF CInv, StampInv, BlankInv, Versions, LastSource, edited, read

LEMMA FilesFrame ==
    ASSUME CInv, UNCHANGED <<edited, file, mode>>, failed \subseteq failed'
    PROVE  FileInv'
<1>1. LastSource' = LastSource /\ Versions' = Versions /\ UNCHANGED <<version, alike>>
  BY DEF LastSource, Versions, edited
<1> SUFFICES ASSUME NEW f \in Call PROVE Sound(file[f])' BY DEF FileInv
<1>2. CASE file[f] \in {Empty, Garbled} BY <1>2 DEF Sound
<1>3. CASE file[f] \notin {Empty, Garbled}
  <2>1. PICK p, g \in Versions, b \in SUBSET (1..LastSource) :
            /\ file[f] = <<p, g, b>>
            /\ \A s \in 1..LastSource : s \notin alike => p[s] <= g[s]
            /\ Below(g, version)
            /\ \A s \in b : <<s, g[s]>> \in failed
    BY <1>3 DEF CInv, FileInv, Sound
  <2>2. \A s \in b : <<s, g[s]>> \in failed' BY <2>1
  <2>3. Below(g, version)' BY <1>1, <2>1 DEF Below
  <2> QED BY <1>1, <2>1, <2>2, <2>3 DEF Sound
<1> QED BY <1>2, <1>3

\* A step of one call that touches no data, and goes on.
LEMMA StepOnly ==
    ASSUME CInv, NEW c \in Call, NEW there \in Steps \ {"write"},
           step' = [step EXCEPT ![c] = there], UNCHANGED <<cacheVars, mode>>,
           \/ there = "done" /\ step[c] \notin {"fingerprint", "build"}
           \/ step[c] = "seed" /\ there = "visit"
    PROVE  CInv'
<1> USE DEF CInv
<1>1. UNCHANGED <<edited, read, version, alike, began, prints, graph, failed, tmp,
                  cache, file, handle>>
  BY DEF cacheVars, edited, read
<1>2. LastSource' = LastSource BY DEF LastSource
<1>3. step'[c] = there /\ \A d \in Call \ {c} : step'[d] = step[d] BY DEF CacheType
<1>4. CacheType' BY <1>1, <1>2, <1>3 DEF CacheType, Versions, Below
<1>5. PrintInv' BY <1>1, <1>2, <1>3 DEF PrintInv
<1>6. GraphInv' BY <1>1, <1>2, <1>3 DEF GraphInv, CacheType, Steps
<1>7. FileInv' /\ StampInv' /\ BlankInv' BY <1>1, FilesFrame, ReadFrame
<1> QED BY <1>4, <1>5, <1>6, <1>7

\* Versions only grow.
LEMMA EditInv == ASSUME CInv, NEW s \in 1..LastSource, Edit(s) PROVE CInv'
<1> USE DEF CInv
<1>1. /\ version' = [version EXCEPT ![s] = version[s] + 1]
      /\ alike \subseteq alike'
      /\ UNCHANGED <<began, step, prints, graph, blank, failed, tmp, cache, file,
                     handle, mode>>
  BY DEF Edit, given, read
<1>2. LastSource' = LastSource BY <1>1 DEF LastSource
<1>3. /\ version' \in Versions
      /\ \A t \in 1..LastSource : version[t] <= version'[t] /\ version[t] \in Nat
                                  /\ version'[t] \in Nat
  BY <1>1 DEF CacheType, Versions
<1>4. CacheType'
  <2>1. \A c \in Call : Below(began[c], version')
    <3> SUFFICES ASSUME NEW c \in Call, NEW t \in 1..LastSource
                 PROVE  began[c][t] <= version'[t]
      BY DEF Below
    <3>1. began[c][t] \in Nat /\ began[c][t] <= version[t]
      BY DEF CacheType, Versions, Below
    <3> QED BY <1>3, <3>1
  <2> QED BY <1>1, <1>2, <1>3, <2>1 DEF CacheType, Versions, Below
<1>5. PrintInv'
  <2>1. \A c \in Call : \A t \in 1..Len(prints[c]) : prints[c][t] \in Nat
    BY DEF CacheType
  <2> QED BY <1>1, <1>2, <1>3, <2>1 DEF PrintInv
<1>6. GraphInv'
  <2>1. \A c \in Call : \A t \in 1..Len(graph[c]) : graph[c][t] \in Nat
    BY DEF CacheType
  <2> QED BY <1>1, <1>2, <1>3, <2>1 DEF GraphInv
<1>7. FileInv'
  <2> SUFFICES ASSUME NEW f \in Call PROVE Sound(file[f])'
    BY DEF FileInv
  <2>1. CASE file[f] \in {Empty, Garbled} BY <1>1, <2>1 DEF Sound
  <2>2. CASE file[f] \notin {Empty, Garbled}
    <3>1. PICK p, g \in Versions, b \in SUBSET (1..LastSource) :
              /\ file[f] = <<p, g, b>>
              /\ \A t \in 1..LastSource : t \notin alike => p[t] <= g[t]
              /\ Below(g, version)
              /\ \A t \in b : <<t, g[t]>> \in failed
      BY <2>2 DEF FileInv, Sound
    <3>2. Versions' = Versions BY <1>2 DEF Versions
    <3>3. \A t \in 1..LastSource : g[t] <= version'[t]
      BY <1>3, <3>1 DEF Below, Versions
    <3>4. \A t \in 1..LastSource : t \notin alike' => p[t] <= g[t] BY <1>1, <3>1
    <3> QED BY <1>1, <1>2, <3>1, <3>2, <3>3, <3>4 DEF Sound, Below
  <2> QED BY <2>1, <2>2
<1>8. StampInv'
  <2>1. PICK mark \in 0..version'[s] :
            /\ stamp' = [stamp EXCEPT ![s] = mark]
            /\ alike' = IF mark = version'[s] THEN alike ELSE alike \cup {s}
    BY DEF Edit
  <2>2. stamp' \in Versions BY <2>1, <1>3 DEF StampInv, Versions
  <2>3. \A t \in 1..LastSource : t \notin alike' => stamp'[t] = version'[t]
    BY <1>1, <2>1 DEF StampInv, Versions, CacheType
  <2> QED BY <1>2, <2>2, <2>3 DEF StampInv, Versions
<1>9. BlankInv' BY <1>1 DEF BlankInv
<1> QED BY <1>4, <1>5, <1>6, <1>7, <1>8, <1>9

\* The next source is looked at: its version is current.
LEMMA FingerprintInv == ASSUME CInv, NEW c \in Call, Fingerprint(c) PROVE CInv'
<1> USE DEF CInv
<1> DEFINE s == Len(prints[c]) + 1
<1>1. /\ step[c] = "fingerprint" /\ prints' = [prints EXCEPT ![c] = Append(@, stamp[s])]
      /\ began' = IF s = 1 THEN [began EXCEPT ![c] = version] ELSE began
      /\ UNCHANGED <<edited, read, version, alike, graph, failed, tmp, cache, file,
                     handle, mode>>
  BY DEF Fingerprint, given, edited, read
<1>2. LastSource' = LastSource BY <1>1 DEF LastSource
<1>3. /\ prints[c] \in Seq(Nat) /\ s \in 1..LastSource /\ version \in Versions
      /\ version[s] \in Nat /\ stamp[s] \in Nat /\ graph[c] = <<>>
      /\ s \notin alike => stamp[s] = version[s]
  BY <1>1 DEF PrintInv, GraphInv, CacheType, StampInv, Versions
<1>4. PICK there \in {"fingerprint", "lookup", "build"} :
        /\ step' = [step EXCEPT ![c] = there]
        /\ there = "fingerprint" => s < LastSource
        /\ there # "fingerprint" => s = LastSource
  <2>1. step' = [step EXCEPT ![c] = IF s < LastSource THEN step[c] ELSE
                                    IF mode = "cache" THEN "lookup" ELSE "build"]
    BY DEF Fingerprint
  <2>2. CASE s < LastSource BY <1>1, <2>1, <2>2
  <2>3. CASE ~(s < LastSource)
    <3>1. s = LastSource BY <1>3, <2>3 DEF CacheType
    <3> QED BY <2>1, <2>3, <3>1
  <2> QED BY <2>2, <2>3
<1>5. step'[c] = there /\ \A d \in Call \ {c} : step'[d] = step[d]
  BY <1>4 DEF CacheType
<1>6. /\ prints'[c] = Append(prints[c], stamp[s]) /\ prints'[c] \in Seq(Nat)
      /\ Len(prints'[c]) = s /\ prints'[c][s] = stamp[s]
      /\ \A t \in 1..Len(prints[c]) : prints'[c][t] = prints[c][t]
      /\ \A d \in Call \ {c} : prints'[d] = prints[d]
  BY <1>1, <1>3 DEF CacheType
<1>7. /\ began' \in [Call -> Versions] /\ \A d \in Call \ {c} : began'[d] = began[d]
      /\ s = 1 => began'[c] = version
      /\ s # 1 => began'[c] = began[c]
  BY <1>1 DEF CacheType
<1>8. CacheType'
  <2>1. Below(version, version) BY DEF CacheType, Versions, Below
  <2>2. \A d \in Call : Below(began'[d], version) BY <1>7, <2>1 DEF CacheType
  <2>3. (\A d \in Call : Below(began[d], version))' BY <1>1, <1>2, <2>2 DEF Below
  <2>4. step' \in [Call -> Steps] /\ \A d \in Call : step'[d] = "write" => step[d] = "write"
    BY <1>1, <1>4, <1>5 DEF CacheType, Steps
  <2>5. prints' \in [Call -> Seq(Nat)] BY <1>1, <1>6 DEF CacheType
  <2> QED BY <1>1, <1>2, <1>7, <2>3, <2>4, <2>5 DEF CacheType, Versions
<1>9. PrintInv'
  <2>1. ASSUME NEW t \in 1..s
        PROVE  /\ t \in 1..LastSource
               /\ t \notin alike => /\ began'[c][t] <= prints'[c][t]
                                   /\ prints'[c][t] <= version[t]
    <3>1. CASE t = s
      <4>1. CASE s = 1 BY <1>3, <1>6, <1>7, <3>1, <4>1
      <4>2. CASE s # 1
        <5>1. began[c][s] <= version[s] BY <1>3 DEF CacheType, Below
        <5> QED BY <1>3, <1>6, <1>7, <3>1, <4>2, <5>1
      <4> QED BY <4>1, <4>2
    <3>2. CASE t # s
      <4>1. t \in 1..Len(prints[c]) /\ s # 1 BY <1>3, <3>2
      <4> QED BY <1>6, <1>7, <4>1 DEF PrintInv
    <3> QED BY <3>1, <3>2
  <2>2. ASSUME NEW d \in Call, d # c
        PROVE  /\ prints'[d] = prints[d] /\ began'[d] = began[d] /\ step'[d] = step[d]
    BY <1>5, <1>6, <1>7, <2>2
  <2> QED BY <1>1, <1>2, <1>3, <1>4, <1>5, <1>6, <2>1, <2>2 DEF PrintInv
<1>10. GraphInv'
  <2>1. graph'[c] = <<>> BY <1>1, <1>3
  <2>2. \A d \in Call \ {c} : /\ prints'[d] = prints[d] /\ began'[d] = began[d]
                              /\ step'[d] = step[d] /\ graph'[d] = graph[d]
    BY <1>1, <1>5, <1>6, <1>7
  <2>3. LastSource \in Nat \ {0} BY DEF CacheType
  <2> QED BY <1>1, <1>2, <1>4, <1>5, <2>1, <2>2, <2>3 DEF GraphInv
<1>11. FileInv' /\ StampInv' /\ BlankInv' BY <1>1, FilesFrame, ReadFrame
<1> QED BY <1>8, <1>9, <1>10, <1>11

\* A fingerprint that is complete, or a graph, as a function of the sources.
LEMMA AsVersions ==
    ASSUME CInv, NEW t \in Seq(Nat), Len(t) = LastSource PROVE t \in Versions
BY DEF Versions

\* A call that knows another graph, or none, and nothing else changes.
LEMMA GraphFrame ==
    ASSUME CInv, NEW c \in Call, NEW there \in Steps \ {"fingerprint", "write"},
           step[c] # "fingerprint",
           step' = [step EXCEPT ![c] = there],
           UNCHANGED <<edited, began, prints, tmp, cache, file, handle, mode>>,
           FileInv', BlankInv',
           graph' \in [Call -> Seq(Nat)],
           \A d \in Call \ {c} : graph'[d] = graph[d],
           there # "done" => Len(prints[c]) = LastSource,
           there = "lookup" => graph'[c] = <<>>,
           there = "build" => Len(graph'[c]) < LastSource,
           there \in {"create", "rename", "seed", "visit"} => Len(graph'[c]) = LastSource,
           there = "done" => graph'[c] = <<>> \/ Len(graph'[c]) = LastSource,
           \A s \in 1..Len(graph'[c]) :
              /\ s \in 1..LastSource
              /\ graph'[c][s] <= version[s]
              /\ s \notin alike => began[c][s] <= graph'[c][s]
              /\ s \notin alike /\ there # "done" => prints[c][s] <= graph'[c][s]
    PROVE  CInv'
<1> USE DEF CInv
<1>1. LastSource' = LastSource /\ UNCHANGED <<version, stamp, alike>>
  BY DEF LastSource, edited
<1>2. step'[c] = there /\ \A d \in Call \ {c} : step'[d] = step[d] BY DEF CacheType
<1>3. step' \in [Call -> Steps] /\ \A d \in Call : step'[d] = "write" => step[d] = "write"
  BY <1>2 DEF CacheType
<1>4. (\A d \in Call : Below(began[d], version))' BY <1>1 DEF CacheType, Below
<1>5. CacheType' BY <1>1, <1>3, <1>4 DEF CacheType, Versions
<1>6. PrintInv' BY <1>1, <1>2 DEF PrintInv
<1>7. GraphInv'
  <2>1. ASSUME NEW d \in Call, d # c
        PROVE  graph'[d] = graph[d] /\ step'[d] = step[d]
    BY <1>2, <2>1
  <2> QED BY <1>1, <1>2, <2>1 DEF GraphInv, Steps
<1>8. StampInv' BY <1>1 DEF StampInv, Versions
<1> QED BY <1>5, <1>6, <1>7, <1>8

(***************************************************************************)
(* A hit: the entry's graph is no older than its fingerprint, which is the *)
(* fingerprint of this call, which is no older than the call.              *)
(***************************************************************************)
LEMMA LookUpInv == ASSUME CInv, NEW c \in Call, LookUp(c) PROVE CInv'
<1>1. /\ step[c] = "lookup" /\ prints[c] \in Seq(Nat) /\ Len(prints[c]) = LastSource
      /\ UNCHANGED <<edited, failed, began, prints, tmp, cache, file, handle, mode>>
      /\ graph[c] = <<>>
  BY DEF LookUp, given, CInv, CacheType, PrintInv, GraphInv
<1>0. FileInv' BY <1>1, FilesFrame
<1>2. CASE cache # "none" /\ Hit(file[cache], prints[c])
  <2>1. /\ graph' = [graph EXCEPT ![c] = file[cache][2]]
        /\ blank' = [blank EXCEPT ![c] = file[cache][3]]
        /\ step' = [step EXCEPT ![c] = "done"]
    BY <1>2 DEF LookUp
  <2>2. PICK p, g \in Versions, b \in SUBSET (1..LastSource) :
            /\ file[cache] = <<p, g, b>>
            /\ \A s \in 1..LastSource : s \notin alike => p[s] <= g[s]
            /\ Below(g, version)
            /\ \A s \in b : <<s, g[s]>> \in failed
    BY <1>2 DEF Hit, CInv, FileInv, Sound, CacheType
  <2>3. p = prints[c] /\ graph'[c] = g
    BY <1>2, <2>1, <2>2 DEF Hit, CInv, CacheType
  <2>4. LastSource \in Nat \ {0} BY DEF CInv, CacheType
  <2>5. g \in Seq(Nat) /\ Len(g) = LastSource BY <2>4 DEF Versions
  <2>6. \A s \in 1..LastSource : /\ g[s] <= version[s]
                                 /\ s \notin alike => began[c][s] <= g[s]
    <3> TAKE s \in 1..LastSource
    <3>1. s \notin alike => began[c][s] <= p[s] BY <1>1, <2>3, <2>4 DEF CInv, PrintInv
    <3>2. g[s] <= version[s] /\ (s \notin alike => p[s] <= g[s]) BY <2>2 DEF Below
    <3>3. began[c][s] \in Nat /\ p[s] \in Nat /\ g[s] \in Nat
      BY DEF CInv, CacheType, Versions
    <3> QED BY <3>1, <3>2, <3>3
  <2>7. graph' \in [Call -> Seq(Nat)] /\ \A d \in Call \ {c} : graph'[d] = graph[d]
    <3>1. graph' = [graph EXCEPT ![c] = g] BY <2>1, <2>2
    <3> QED BY <2>5, <3>1 DEF CInv, CacheType
  <2>8. BlankInv'
    <3>1. blank' = [blank EXCEPT ![c] = b] BY <2>1, <2>2
    <3>2. /\ blank'[c] = b /\ \A d \in Call \ {c} : blank'[d] = blank[d]
          /\ blank' = [d \in Call |-> blank'[d]]
      BY <3>1 DEF CInv, BlankInv
    <3> QED BY <1>1, <2>2, <2>3, <2>5, <2>7, <3>2 DEF CInv, BlankInv
  <2> QED BY <1>0, <1>1, <2>1, <2>3, <2>5, <2>6, <2>7, <2>8, GraphFrame DEF Steps
<1>3. CASE ~(cache # "none" /\ Hit(file[cache], prints[c]))
  <2>1. graph' = graph /\ blank' = blank /\ step' = [step EXCEPT ![c] = "build"]
    BY <1>3 DEF LookUp
  <2>2. LastSource \in Nat \ {0} /\ graph \in [Call -> Seq(Nat)] BY DEF CInv, CacheType
  <2>3. graph'[c] = <<>> /\ Len(graph'[c]) = 0 BY <1>1, <2>1
  <2>4. 0 < LastSource /\ \A s \in 1..Len(graph'[c]) : FALSE BY <2>2, <2>3
  <2>5. "build" \in Steps \ {"fingerprint", "write"} BY DEF Steps
  <2>6. BlankInv' BY <1>1, <2>1 DEF CInv, BlankInv
  <2> QED BY <1>0, <1>1, <2>1, <2>2, <2>3, <2>4, <2>5, <2>6, GraphFrame
<1> QED BY <1>2, <1>3

\* The next source is read: its version is current, and no older than what
\* the fingerprint told of it.
LEMMA BuildInv == ASSUME CInv, NEW c \in Call, Build(c) PROVE CInv'
<1> DEFINE s == Len(graph[c]) + 1
<1>1. /\ step[c] = "build" /\ Len(prints[c]) = LastSource
      /\ UNCHANGED <<edited, began, prints, tmp, cache, file, handle, mode>>
      /\ graph' = [graph EXCEPT ![c] = Append(@, version[s])]
      /\ \/ UNCHANGED <<blank, failed>>
         \/ /\ blank' = [blank EXCEPT ![c] = @ \cup {s}]
            /\ failed' = failed \cup {<<s, version[s]>>}
  BY DEF Build, given, CInv, PrintInv
<1>2. /\ graph[c] \in Seq(Nat) /\ s \in 1..LastSource /\ version[s] \in Nat
      /\ LastSource \in Nat
  BY <1>1 DEF CInv, GraphInv, CacheType, Versions
<1>3. PICK there \in {"build", "create", "seed"} :
        /\ step' = [step EXCEPT ![c] = there]
        /\ there = "build" => s < LastSource
        /\ there # "build" => s = LastSource
  <2>1. step' = [step EXCEPT ![c] = IF s < LastSource THEN step[c] ELSE
                                    IF mode = "cache" THEN "create" ELSE "seed"]
    BY DEF Build
  <2>2. CASE s < LastSource BY <1>1, <2>1, <2>2
  <2>3. CASE ~(s < LastSource)
    <3>1. s = LastSource BY <1>2, <2>3
    <3> QED BY <2>1, <2>3, <3>1
  <2> QED BY <2>2, <2>3
<1>4. /\ graph'[c] = Append(graph[c], version[s]) /\ graph'[c] \in Seq(Nat)
      /\ Len(graph'[c]) = s /\ graph'[c][s] = version[s]
      /\ \A t \in 1..Len(graph[c]) : graph'[c][t] = graph[c][t]
      /\ \A d \in Call \ {c} : graph'[d] = graph[d]
  BY <1>1, <1>2 DEF CInv, CacheType
<1>5. graph' \in [Call -> Seq(Nat)] BY <1>1, <1>4 DEF CInv, CacheType
<1>6. ASSUME NEW t \in 1..s
      PROVE  /\ t \in 1..LastSource
             /\ graph'[c][t] <= version[t]
             /\ t \notin alike => /\ began[c][t] <= graph'[c][t]
                                 /\ prints[c][t] <= graph'[c][t]
  <2>1. CASE t = s
    <3>1. began[c][s] <= version[s] BY <1>2 DEF CInv, CacheType, Below
    <3>2. s \notin alike => prints[c][s] <= version[s] BY <1>1, <1>2 DEF CInv, PrintInv
    <3> QED BY <1>2, <1>4, <2>1, <3>1, <3>2
  <2>2. CASE t # s
    <3>1. t \in 1..Len(graph[c]) BY <1>2, <2>2
    <3> QED BY <1>1, <1>4, <3>1 DEF CInv, GraphInv
  <2> QED BY <2>1, <2>2
<1>7. FileInv' BY <1>1, FilesFrame
<1>8. BlankInv'
  <2>1. /\ \A d \in Call \ {c} : blank'[d] = blank[d]
        /\ blank' = [d \in Call |-> blank'[d]] /\ failed \subseteq failed'
        /\ blank'[c] \subseteq blank[c] \cup {s}
        /\ s \in blank'[c] \ blank[c] => <<s, version[s]>> \in failed'
    BY <1>1 DEF CInv, BlankInv
  <2>2. ASSUME NEW t \in blank'[c]
        PROVE  t \in 1..Len(graph'[c]) /\ <<t, graph'[c][t]>> \in failed'
    <3>1. CASE t \in blank[c]
      <4>1. t \in 1..Len(graph[c]) /\ <<t, graph[c][t]>> \in failed
        BY <3>1 DEF CInv, BlankInv
      <4>2. t \in 1..Len(graph'[c]) BY <1>2, <1>4, <4>1
      <4> QED BY <1>4, <2>1, <4>1, <4>2
    <3>2. CASE t \notin blank[c]
      <4>1. t = s /\ <<s, version[s]>> \in failed' BY <2>1, <2>2, <3>2
      <4>2. s \in Nat \ {0} BY <1>2
      <4> HIDE DEF s
      <4> QED BY <1>4, <4>1, <4>2
    <3> QED BY <3>1, <3>2
  <2>3. ASSUME NEW d \in Call \ {c}, NEW t \in blank'[d]
        PROVE  t \in 1..Len(graph'[d]) /\ <<t, graph'[d][t]>> \in failed'
    BY <1>4, <2>1, <2>3 DEF CInv, BlankInv
  <2> QED BY <2>1, <2>2, <2>3 DEF BlankInv
<1> QED BY <1>1, <1>2, <1>3, <1>4, <1>5, <1>6, <1>7, <1>8, GraphFrame DEF Steps

\* The shared name is opened: what was there is emptied.
LEMMA OpenSharedInv == ASSUME CInv, NEW c \in Call, OpenShared(c) PROVE CInv'
<1> USE DEF CInv
<1>1. PICK f \in Call :
        /\ step[c] = "create" /\ tmp' = f
        /\ handle' = [handle EXCEPT ![c] = f] /\ file' = [file EXCEPT ![f] = Empty]
        /\ step' = [step EXCEPT ![c] = "write"]
        /\ UNCHANGED <<edited, read, version, alike, failed, began, prints, graph,
                       cache, mode>>
  BY DEF OpenShared, given, edited, read, CacheType
<1>2. LastSource' = LastSource BY <1>1 DEF LastSource
<1>3. step'[c] = "write" /\ \A d \in Call \ {c} : step'[d] = step[d]
  BY <1>1 DEF CacheType
<1>4. (\A d \in Call : Below(began[d], version))' BY <1>1, <1>2 DEF CacheType, Below
<1>5. /\ handle' \in [Call -> Call \cup {"none"}]
      /\ \A d \in Call : step'[d] = "write" => handle'[d] \in Call
  BY <1>1, <1>3 DEF CacheType
<1>6. file' = [g \in Call |-> file'[g]] BY <1>1 DEF CacheType
<1>7. CacheType' BY <1>1, <1>2, <1>4, <1>5, <1>6 DEF CacheType, Versions, Steps
<1>8. PrintInv' BY <1>1, <1>2, <1>3 DEF PrintInv
<1>9. GraphInv' BY <1>1, <1>2, <1>3 DEF GraphInv
<1>11. StampInv' /\ BlankInv' BY <1>1, ReadFrame
<1>10. FileInv'
  <2>1. \A g \in Call : file'[g] = Empty \/ file'[g] = file[g] BY <1>1 DEF CacheType
  <2> QED BY <1>1, <1>2, <2>1 DEF FileInv, Sound, Versions, Below
<1> QED BY <1>7, <1>8, <1>9, <1>10, <1>11

\* A whole entry is sound, and a garbled one is no entry.
LEMMA WriteSharedInv == ASSUME CInv, NEW c \in Call, WriteShared(c) PROVE CInv'
<1>1. PICK text \in {<<prints[c], graph[c], blank[c]>>, Garbled} :
        /\ step[c] = "write" /\ file' = [file EXCEPT ![handle[c]] = text]
        /\ step' = [step EXCEPT ![c] = "rename"]
        /\ UNCHANGED <<edited, read, version, alike, failed, began, prints, graph,
                       tmp, cache, handle, mode>>
  BY DEF WriteShared, given, edited, read
<1>2. Sound(text)
  <2>1. CASE text = Garbled BY <2>1 DEF Sound
  <2>2. CASE text = <<prints[c], graph[c], blank[c]>>
    <3>1. /\ prints[c] \in Seq(Nat) /\ Len(prints[c]) = LastSource
          /\ graph[c] \in Seq(Nat) /\ Len(graph[c]) = LastSource
      BY <1>1 DEF CInv, CacheType, PrintInv, GraphInv
    <3>2. prints[c] \in Versions /\ graph[c] \in Versions BY <3>1, AsVersions
    <3>3. /\ \A s \in 1..LastSource : s \notin alike => prints[c][s] <= graph[c][s]
          /\ Below(graph[c], version)
      BY <1>1, <3>1 DEF CInv, GraphInv, Below
    <3>4. blank[c] \in SUBSET (1..LastSource) /\ \A s \in blank[c] : <<s, graph[c][s]>> \in failed
      BY <3>1 DEF CInv, BlankInv
    <3> QED BY <2>2, <3>2, <3>3, <3>4 DEF Sound
  <2> QED BY <2>1, <2>2
<1> USE DEF CInv
<1>3. LastSource' = LastSource BY <1>1 DEF LastSource
<1>4. step'[c] = "rename" /\ \A d \in Call \ {c} : step'[d] = step[d]
  BY <1>1 DEF CacheType
<1>5. (\A d \in Call : Below(began[d], version))' BY <1>1, <1>3 DEF CacheType, Below
<1>6. file' = [g \in Call |-> file'[g]] BY <1>1 DEF CacheType
<1>7. CacheType' BY <1>1, <1>3, <1>4, <1>5, <1>6 DEF CacheType, Versions, Steps
<1>8. PrintInv' BY <1>1, <1>3, <1>4 DEF PrintInv
<1>9. GraphInv' BY <1>1, <1>3, <1>4 DEF GraphInv
<1>11. StampInv' /\ BlankInv' BY <1>1, ReadFrame
<1>10. FileInv'
  <2>1. \A g \in Call : Sound(file'[g])
    <3>1. \A g \in Call : file'[g] = text \/ file'[g] = file[g] BY <1>1 DEF CacheType
    <3> QED BY <1>2, <3>1 DEF FileInv
  <2> QED BY <1>1, <1>3, <2>1 DEF FileInv, Sound, Versions, Below
<1> QED BY <1>7, <1>8, <1>9, <1>10, <1>11

LEMMA RenameSharedInv == ASSUME CInv, NEW c \in Call, RenameShared(c) PROVE CInv'
<1> USE DEF CInv
<1>1. /\ step[c] = "rename" /\ tmp' = "none" /\ cache' \in Call \cup {"none"}
      /\ step' = [step EXCEPT ![c] = "done"]
      /\ UNCHANGED <<edited, read, version, alike, failed, began, prints, graph,
                     file, handle, mode>>
  BY DEF RenameShared, given, edited, read, CacheType
<1>2. LastSource' = LastSource BY <1>1 DEF LastSource
<1>3. step'[c] = "done" /\ \A d \in Call \ {c} : step'[d] = step[d]
  BY <1>1 DEF CacheType
<1>4. (\A d \in Call : Below(began[d], version))' BY <1>1, <1>2 DEF CacheType, Below
<1>5. CacheType' BY <1>1, <1>2, <1>3, <1>4 DEF CacheType, Versions, Steps
<1>6. PrintInv' BY <1>1, <1>2, <1>3 DEF PrintInv
<1>7. GraphInv' BY <1>1, <1>2, <1>3 DEF GraphInv
<1>8. FileInv' /\ StampInv' /\ BlankInv' BY <1>1, FilesFrame, ReadFrame
<1> QED BY <1>5, <1>6, <1>7, <1>8

\* The search looks at the graph and changes none of this.
LEMMA SearchInv ==
    ASSUME CInv, NEW c \in Call, Seed(c) \/ Visit(c) \/ Found(c) \/ CacheFails(c)
    PROVE  CInv'
<1> USE DEF given, Steps
<1>1. CASE step' = step /\ UNCHANGED <<cacheVars, mode>>
  <2>1. UNCHANGED <<edited, read, version, alike, failed, began, prints, graph, tmp,
                    cache, file, handle>>
        /\ LastSource' = LastSource
    BY <1>1 DEF cacheVars, edited, read, LastSource
  <2>2. FileInv' /\ StampInv' /\ BlankInv' BY <1>1, <2>1, FilesFrame, ReadFrame
  <2> QED BY <1>1, <2>1, <2>2 DEF CInv, CacheType, PrintInv, GraphInv, Versions, Below
<1>2. CASE CacheFails(c) BY <1>2, StepOnly DEF CacheFails
<1>3. CASE Found(c) BY <1>3, StepOnly DEF Found
<1>4. CASE Seed(c) BY <1>1, <1>4, StepOnly DEF Seed
<1>5. CASE Visit(c) BY <1>1, <1>5 DEF Visit
<1> QED BY <1>2, <1>3, <1>4, <1>5

LEMMA CacheInductive == ASSUME CInv, [Next]_vars PROVE CInv'
<1>1. CASE UNCHANGED impactVars
  <2>1. UNCHANGED <<edited, read, version, alike, failed, began, prints, graph, tmp,
                    cache, file, handle, step, mode>>
        /\ LastSource' = LastSource
    BY <1>1 DEF impactVars, cacheVars, edited, read, given, LastSource
  <2>2. FileInv' /\ StampInv' /\ BlankInv' BY <2>1, FilesFrame, ReadFrame
  <2> QED BY <2>1, <2>2 DEF CInv, CacheType, PrintInv, GraphInv, Versions, Below
<1>2. CASE ImpactNext
  BY <1>2, EditInv, FingerprintInv, LookUpInv, BuildInv, OpenSharedInv,
     WriteSharedInv,
     RenameSharedInv, SearchInv DEF ImpactNext
<1> QED BY <1>1, <1>2 DEF Next, vars

(***************************************************************************)
(* For any number of captures of one checkout, of sources and of edits:    *)
(* the graph analyze_impact works with was current during the call, though *)
(* all share one cache and one temporary name, but for sources that came   *)
(* back to a size and time with other contents; and a list is empty only   *)
(* if reading that very version failed once (impact.py:149-155).           *)
(***************************************************************************)
THEOREM GraphsAreCurrent == Spec => []GraphIsCurrent
<1>1. Init => CInv BY CacheStart DEF Init
<1>2. CInv => GraphIsCurrent
  <2> SUFFICES ASSUME CInv, NEW c \in Call, step[c] = "done", graph[c] # <<>>,
                      NEW s \in 1..LastSource
               PROVE  /\ s \in alike \/ graph[c][s] \in began[c][s]..version[s]
                      /\ s \in blank[c] => <<s, graph[c][s]>> \in failed
    BY DEF GraphIsCurrent
  <2>1. graph[c][s] <= version[s] /\ (s \notin alike => began[c][s] <= graph[c][s])
    BY DEF CInv, GraphInv, CacheType
  <2>2. s \in DOMAIN graph[c] /\ graph[c] \in Seq(Nat)
    BY DEF CInv, GraphInv, CacheType
  <2>3. graph[c][s] \in Nat /\ began[c][s] \in Nat /\ version[s] \in Nat
    BY <2>2, SMTT(60) DEF CInv, CacheType, Versions
  <2>4. s \in blank[c] => <<s, graph[c][s]>> \in failed BY DEF CInv, BlankInv
  <2> QED BY <2>1, <2>3, <2>4
<1> QED BY <1>1, <1>2, CacheInductive, PTL DEF Spec
-----------------------------------------------------------------------------
(***************************************************************************)
(* The search of the import graph.  While the changed sources are looked   *)
(* at, their dependents are found and queued.  While the queue is visited, *)
(* it is sorted by depth, no source of it is nearer than its depth says    *)
(* unless its dependents are found already, and whatever is found has its  *)
(* dependents found or is queued: so when the first entry is of depth      *)
(* D + 1, everything within D has its dependents found.                    *)
(***************************************************************************)
Entry == Source \X (1..MaxDepth)

Begins == todo = changed /\ queue = <<>> /\ direct = {} /\ transitive = {} /\ visited = changed

Queued(s) == \E k \in 1..Len(queue) : queue[k][1] = s
Closed(s) == Dependents(s) \subseteq visited

\* The dependents of the changed sources looked at so far are queued.
Seeds ==
    /\ todo \subseteq changed /\ transitive = {} /\ queue \in Seq(Entry)
    /\ direct = UNION {Dependents(s) : s \in changed \ todo}
    /\ visited = changed \cup direct
    /\ \A k \in 1..Len(queue) : queue[k][1] \in direct /\ queue[k][2] = 1
    /\ \A s \in direct : Queued(s)

Finds ==
    /\ direct = UNION {Dependents(s) : s \in changed}
    /\ visited = changed \cup direct \cup transitive /\ direct \cap transitive = {}
    /\ visited \subseteq Within[MaxDepth]

\* The queue holds sources as near as it says, the nearest first, no two more
\* than a level apart, and all of the level of the first are found.  A source
\* whose dependents are not all found yet is queued, at the level it has.
Visits ==
    /\ queue \in Seq(Entry)
    /\ \A k \in 1..Len(queue) :
          /\ queue[k][1] \in Within[queue[k][2]]
          /\ queue[k][1] \in visited
          /\ queue[k][2] <= queue[1][2] + 1
          /\ \A j \in 1..k : queue[j][2] <= queue[k][2]
          /\ queue[k][1] \in Within[queue[k][2] - 1] => Closed(queue[k][1])
    /\ queue # <<>> => Within[queue[1][2]] \subseteq visited
    /\ \/ Within[MaxDepth] \subseteq visited
       \/ \A s \in visited : Closed(s) \/ Queued(s)

SearchInvariant ==
    mode = "search" =>
        /\ changed \subseteq Source /\ DOMAIN step = Call
        /\ \A c \in Call \ {Searching} : step[c] = "done"
        /\ step[Searching] \in {"fingerprint", "build", "seed", "visit", "done"}
        /\ step[Searching] \in {"fingerprint", "build"} => Begins
        /\ step[Searching] = "seed" => Seeds
        /\ step[Searching] = "visit" => Finds /\ Visits
        /\ step[Searching] = "done" => Finds /\ Within[MaxDepth] \subseteq visited

LEMMA OrderFacts ==
    ASSUME NEW S, IsFiniteSet(S), NEW o \in Orders(S)
    PROVE  /\ o \in Seq(S) /\ Len(o) \in Nat /\ DOMAIN o = 1..Len(o)
           /\ \A k \in 1..Len(o) : o[k] \in S
           /\ \A x \in S : \E k \in 1..Len(o) : o[k] = x
<1>1. Cardinality(S) \in Nat
  BY FS_CardinalityType
<1>2. /\ o \in [1..Cardinality(S) -> S]
      /\ \A x \in S : \E k \in 1..Cardinality(S) : o[k] = x
  BY DEF Orders
<1>3. o \in Seq(S) /\ Len(o) = Cardinality(S)
  BY <1>1, <1>2
<1> QED BY <1>1, <1>2, <1>3

LEMMA ConcatFacts ==
    ASSUME NEW X, NEW s \in Seq(X), NEW t \in Seq(X)
    PROVE  /\ s \o t \in Seq(X) /\ Len(s \o t) = Len(s) + Len(t)
           /\ Len(s) \in Nat /\ Len(t) \in Nat
           /\ \A k \in 1..Len(s) : (s \o t)[k] = s[k]
           /\ \A k \in 1..Len(t) : (s \o t)[Len(s) + k] = t[k]
  OBVIOUS

LEMMA Least ==
    ASSUME NEW T \in SUBSET Nat, T # {}
    PROVE  \E x \in T : \A y \in T : x <= y
<1>1. PICK x \in T : \A y \in T : ~(<<y, x>> \in OpToRel(<, Nat))
  BY NatLessThanWellFounded, WFMin
<1>2. \A y \in T : ~(y < x)
  BY <1>1 DEF OpToRel
<1> QED BY <1>2

LEMMA SourcesAreFinite ==
    /\ N \in Nat /\ Source \subseteq Nat /\ MaxDepth \in Nat /\ MaxDepth >= 1
    /\ \A S \in SUBSET Source : IsFiniteSet(S)
    /\ \A s : Dependents(s) \subseteq Source
<1>1. N \in Nat /\ MaxDepth \in Nat /\ MaxDepth >= 1
  BY ImpactAssumption
<1>2. IsFiniteSet(Source)
  BY <1>1, FS_Interval DEF Source
<1>3. \A S \in SUBSET Source : IsFiniteSet(S)
  BY <1>2, FS_Subset
<1>4. Source \subseteq Nat
  BY <1>1 DEF Source
<1> QED BY <1>1, <1>3, <1>4 DEF Dependents

\* r is the queue q with an entry of depth d for every source of S at its end.
Enqueued(q, S, d, r) ==
    /\ r \in Seq(Entry) /\ Len(r) \in Nat /\ Len(q) \in Nat /\ Len(q) <= Len(r)
    /\ \A k \in 1..Len(q) : r[k] = q[k]
    /\ \A k \in 1..Len(r) : k \in 1..Len(q) \/ (r[k][1] \in S /\ r[k][2] = d)
    /\ \A s \in S : \E k \in 1..Len(r) : r[k][1] = s

LEMMA EnqueueFacts ==
    ASSUME NEW q \in Seq(Entry), NEW S \in SUBSET Source, NEW o \in Orders(S),
           NEW d \in 1..MaxDepth, NEW r, r = q \o AtDepth(o, d)
    PROVE  Enqueued(q, S, d, r)
<1>1. IsFiniteSet(S)
  BY SourcesAreFinite
<1>2. /\ Len(o) \in Nat /\ DOMAIN o = 1..Len(o)
      /\ \A k \in 1..Len(o) : o[k] \in S
      /\ \A x \in S : \E k \in 1..Len(o) : o[k] = x
  BY <1>1, OrderFacts
<1> DEFINE t == AtDepth(o, d)
<1>3. t \in Seq(Entry) /\ Len(t) = Len(o) /\ \A k \in 1..Len(o) : t[k] = <<o[k], d>>
  <2>1. t = [k \in 1..Len(o) |-> <<o[k], d>>]
    BY <1>2 DEF AtDepth
  <2>2. \A k \in 1..Len(o) : <<o[k], d>> \in Entry
    BY <1>2 DEF Entry
  <2> HIDE DEF t
  <2> QED BY <1>2, <2>1, <2>2
<1> HIDE DEF t
<1>4. r = q \o t
  BY DEF t
<1>5. /\ r \in Seq(Entry) /\ Len(r) = Len(q) + Len(o) /\ Len(q) \in Nat
      /\ \A k \in 1..Len(q) : r[k] = q[k]
      /\ \A k \in 1..Len(o) : r[Len(q) + k] = <<o[k], d>>
  <2>1. \A X, u, v : u \in Seq(X) /\ v \in Seq(X) =>
           /\ u \o v \in Seq(X) /\ Len(u \o v) = Len(u) + Len(v) /\ Len(u) \in Nat
           /\ \A k \in 1..Len(u) : (u \o v)[k] = u[k]
           /\ \A k \in 1..Len(v) : (u \o v)[Len(u) + k] = v[k]
    BY ONLY ConcatFacts
  <2> QED BY ONLY q \in Seq(Entry), <1>3, <1>4, <2>1
<1>6. ASSUME NEW k \in 1..Len(r), k \notin 1..Len(q)
      PROVE  r[k][1] \in S /\ r[k][2] = d
  <2>1. k - Len(q) \in 1..Len(o) /\ Len(q) + (k - Len(q)) = k
    BY <1>2, <1>5, <1>6
  <2>2. r[k] = <<o[k - Len(q)], d>>
    BY <1>5, <2>1
  <2> QED BY <1>2, <2>1, <2>2
<1>7. ASSUME NEW s \in S PROVE \E k \in 1..Len(r) : r[k][1] = s
  <2>1. PICK j \in 1..Len(o) : o[j] = s
    BY <1>2
  <2>2. Len(q) + j \in 1..Len(r) /\ r[Len(q) + j] = <<s, d>>
    BY <1>2, <1>5, <2>1
  <2>3. r[Len(q) + j][1] = s
    BY <2>2
  <2> QED BY <2>2, <2>3
<1>9. Len(r) \in Nat /\ Len(q) <= Len(r)
  BY ONLY <1>2, <1>5
<1> QED BY <1>5, <1>6, <1>7, <1>9 DEF Enqueued

-----------------------------------------------------------------------------
Reached(f, n) ==
    /\ DOMAIN f = 0..n /\ f[0] = changed
    /\ \A k \in 1..n : f[k] = f[k - 1] \cup UNION {Dependents(s) : s \in f[k - 1]}

LEMMA ReachedExists == ASSUME NEW n \in Nat PROVE \E f : Reached(f, n)
<1> DEFINE T == {k \in Nat : ~ \E f : Reached(f, k)}
<1> SUFFICES ASSUME T # {} PROVE FALSE
  OBVIOUS
<1>1. PICK x \in T : \A y \in T : x <= y
  <2>1. T \in SUBSET Nat
    OBVIOUS
  <2> HIDE DEF T
  <2> QED BY <2>1, Least
<1>2. x \in Nat /\ ~ \E f : Reached(f, x)
  BY <1>1
<1>3. CASE x = 0
  <2>1. Reached([k \in 0..0 |-> changed], 0)
    BY DEF Reached
  <2> QED BY <1>2, <1>3, <2>1
<1>4. CASE x # 0
  <2>1. x - 1 \in Nat /\ x - 1 \notin T
    <3>1. x - 1 \in Nat /\ ~(x <= x - 1)
      BY <1>2, <1>4
    <3> HIDE DEF T
    <3> QED BY <1>1, <3>1
  <2>2. PICK f : Reached(f, x - 1)
    BY <2>1
  <2> DEFINE Next1 == f[x - 1] \cup UNION {Dependents(s) : s \in f[x - 1]}
             g == [k \in 0..x |-> IF k = x THEN Next1 ELSE f[k]]
  <2>3. DOMAIN g = 0..x /\ g[0] = changed
    BY <1>2, <1>4, <2>2 DEF Reached
  <2>4. ASSUME NEW k \in 1..x
        PROVE  g[k] = g[k - 1] \cup UNION {Dependents(s) : s \in g[k - 1]}
    <3>0. k \in 0..x /\ k - 1 \in 0..x /\ k - 1 # x
      BY <1>2
    <3>1. g[k - 1] = f[k - 1]
      BY <3>0
    <3>2. CASE k = x
      <4>1. g[k] = Next1
        BY <3>0, <3>2
      <4> QED BY <3>1, <3>2, <4>1
    <3>3. CASE k # x
      <4>1. k \in 1..(x - 1) /\ g[k] = f[k]
        BY <1>2, <3>0, <3>3
      <4>2. f[k] = f[k - 1] \cup UNION {Dependents(s) : s \in f[k - 1]}
        BY <2>2, <4>1 DEF Reached
      <4> QED BY <3>1, <4>1, <4>2
    <3> QED BY <3>2, <3>3
  <2>5. Reached(g, x)
    <3> HIDE DEF g
    <3> QED BY <2>3, <2>4 DEF Reached
  <2> QED BY <1>2, <2>5
<1> QED BY <1>3, <1>4

LEMMA WithinFacts ==
    /\ Within[0] = changed
    /\ \A k \in 1..MaxDepth :
          Within[k] = Within[k - 1] \cup UNION {Dependents(s) : s \in Within[k - 1]}
<1>0. MaxDepth \in Nat
  BY SourcesAreFinite
<1>1. PICK f : Reached(f, MaxDepth)
  BY <1>0, ReachedExists
<1> DEFINE g == [k \in 0..MaxDepth |-> f[k]]
<1>2. g = [k \in 0..MaxDepth |->
             IF k = 0 THEN changed
             ELSE g[k - 1] \cup UNION {Dependents(s) : s \in g[k - 1]}]
  <2>1. ASSUME NEW k \in 0..MaxDepth
        PROVE  g[k] = IF k = 0 THEN changed
                      ELSE g[k - 1] \cup UNION {Dependents(s) : s \in g[k - 1]}
    <3>1. CASE k = 0
      BY <1>1, <3>1 DEF Reached
    <3>2. CASE k # 0
      <4>1. k \in 1..MaxDepth /\ k - 1 \in 0..MaxDepth
        BY <1>0, <3>2
      <4>2. g[k] = f[k] /\ g[k - 1] = f[k - 1]
        BY <4>1
      <4> QED BY <1>1, <3>2, <4>1, <4>2 DEF Reached
    <3> QED BY <3>1, <3>2
  <2>2. g = [k \in 0..MaxDepth |-> g[k]]
    OBVIOUS
  <2> HIDE DEF g
  <2> QED BY <2>1, <2>2
<1> HIDE DEF g
<1>3. Within = [k \in 0..MaxDepth |->
                  IF k = 0 THEN changed
                  ELSE Within[k - 1] \cup UNION {Dependents(s) : s \in Within[k - 1]}]
  BY <1>2 DEF Within
<1>4. 0 \in 0..MaxDepth /\ \A k \in 1..MaxDepth : k \in 0..MaxDepth /\ k # 0
  BY <1>0
<1> QED BY <1>3, <1>4

LEMMA WithinGrows ==
    ASSUME NEW m \in 0..MaxDepth, NEW k \in 0..m
    PROVE  Within[k] \subseteq Within[m]
<1> DEFINE T == {i \in k..m : ~(Within[k] \subseteq Within[i])}
<1> SUFFICES ASSUME T # {} PROVE FALSE
  <2>1. m \in k..m
    BY SourcesAreFinite
  <2> QED BY <2>1
<1>1. PICK x \in T : \A y \in T : x <= y
  <2>1. T \in SUBSET Nat
    BY SourcesAreFinite
  <2> HIDE DEF T
  <2> QED BY <2>1, Least
<1>2. x \in k..m /\ ~(Within[k] \subseteq Within[x]) /\ x # k
  BY <1>1
<1>3. x \in 1..MaxDepth /\ x - 1 \in k..m /\ ~(x <= x - 1)
  BY <1>2, SourcesAreFinite
<1>4. x - 1 \notin T
  <2> HIDE DEF T
  <2> QED BY <1>1, <1>3
<1>5. Within[k] \subseteq Within[x - 1]
  BY <1>3, <1>4
<1>6. Within[x - 1] \subseteq Within[x]
  BY <1>3, WithinFacts
<1> QED BY <1>2, <1>5, <1>6

LEMMA SameWithin ==
    ASSUME UNCHANGED <<imports, changed>>
    PROVE  Within' = Within /\ \A s : Dependents(s)' = Dependents(s)
  BY DEF Within, Dependents

LEMMA SearchingCalls == Searching \in Call
<1>1. \E c \in Call : TRUE
  BY ImpactAssumption
<1> QED BY <1>1 DEF Searching

\* Calls with the cache and the actions on it are not of a search.
LEMMA SearchSteps ==
    ASSUME SearchInvariant, mode = "search", [Next]_vars
    PROVE  \/ UNCHANGED impactVars
           \/ Fingerprint(Searching)
           \/ Build(Searching)
           \/ Seed(Searching)
           \/ Visit(Searching)
           \/ Found(Searching)
<1>1. /\ \A c \in Call \ {Searching} : step[c] = "done"
      /\ step[Searching] \in {"fingerprint", "build", "seed", "visit", "done"}
  BY DEF SearchInvariant
<1>2. CASE ImpactNext
  <2>1. ASSUME NEW s \in 1..LastSource, Edit(s) PROVE FALSE
    BY <2>1 DEF Edit
  <2>2. ASSUME NEW c \in Call,
               \/ LookUp(c)
               \/ OpenShared(c)
               \/ WriteShared(c)
               \/ RenameShared(c)
               \/ CacheFails(c)
        PROVE  FALSE
    <3>1. step[c] \in {"lookup", "create", "write", "rename"}
      BY <2>2 DEF LookUp, OpenShared, WriteShared, RenameShared, CacheFails
    <3> QED BY <1>1, <3>1
  <2>3. ASSUME NEW c \in Call,
               \/ Fingerprint(c)
               \/ Build(c)
               \/ Seed(c)
               \/ Visit(c)
               \/ Found(c)
        PROVE  c = Searching
    <3>1. step[c] \in {"fingerprint", "build", "seed", "visit"}
      BY <2>3 DEF Fingerprint, Build, Seed, Visit, Found
    <3> QED BY <1>1, <3>1
  <2> QED BY <1>2, <2>1, <2>2, <2>3 DEF ImpactNext
<1>3. CASE UNCHANGED vars
  BY <1>3 DEF vars
<1> QED BY <1>2, <1>3 DEF Next

LEMMA SameSearch ==
    ASSUME UNCHANGED <<given, searchVars>>
    PROVE  /\ mode' = mode /\ changed' = changed
           /\ (Begins <=> Begins') /\ (Seeds <=> Seeds')
           /\ (Finds /\ Visits <=> (Finds /\ Visits)')
           /\ (Finds /\ Within[MaxDepth] \subseteq visited
                  <=> (Finds /\ Within[MaxDepth] \subseteq visited)')
<1>1. Within' = Within /\ \A s : Dependents(s)' = Dependents(s)
  BY SameWithin DEF given
<1>2. /\ changed' = changed /\ todo' = todo /\ queue' = queue /\ direct' = direct
      /\ transitive' = transitive /\ visited' = visited /\ mode' = mode
  BY DEF given, searchVars
<1>3. Begins <=> Begins'
  BY <1>2 DEF Begins
<1>4. /\ \A s : Queued(s) <=> Queued(s)'
      /\ \A s : Closed(s) <=> Closed(s)'
  BY <1>1, <1>2 DEF Queued, Closed
<1>5. Seeds <=> Seeds'
  BY <1>1, <1>2, <1>4 DEF Seeds, Entry, Source
<1>6. Finds <=> Finds'
  BY <1>1, <1>2 DEF Finds
<1>7. Visits <=> Visits'
  BY <1>1, <1>2, <1>4 DEF Visits, Entry, Source
<1> QED BY <1>1, <1>2, <1>3, <1>5, <1>6, <1>7

\* The searching call goes on from one place to another.
LEMMA Goes ==
    ASSUME SearchInvariant, mode = "search", NEW p,
           step' = [step EXCEPT ![Searching] = p]
    PROVE  /\ DOMAIN step' = Call /\ step'[Searching] = p
           /\ \A c \in Call \ {Searching} : step'[c] = "done"
<1>1. DOMAIN step = Call /\ \A c \in Call \ {Searching} : step[c] = "done"
  BY DEF SearchInvariant
<1> QED BY <1>1, SearchingCalls

LEMMA ReadSearch ==
    ASSUME SearchInvariant, mode = "search", Fingerprint(Searching) \/ Build(Searching)
    PROVE  SearchInvariant'
<1>1. UNCHANGED <<given, searchVars>>
  BY DEF Fingerprint, Build
<1>2. step[Searching] \in {"fingerprint", "build"} /\ Begins
  BY DEF SearchInvariant, Fingerprint, Build
<1>3. PICK p \in {"fingerprint", "build", "seed"} :
         step' = [step EXCEPT ![Searching] = p]
  <2>1. CASE Fingerprint(Searching)
    <3>1. step' = [step EXCEPT ![Searching] =
                     IF Len(prints[Searching]) + 1 < LastSource
                     THEN step[Searching] ELSE "build"]
      BY <2>1 DEF Fingerprint
    <3> QED BY <1>2, <3>1
  <2>2. CASE Build(Searching)
    <3>1. step' = [step EXCEPT ![Searching] =
                     IF Len(graph[Searching]) + 1 < LastSource
                     THEN step[Searching] ELSE "seed"]
      BY <2>2 DEF Build
    <3> QED BY <1>2, <3>1
  <2> QED BY <2>1, <2>2
<1>4. /\ DOMAIN step' = Call /\ step'[Searching] = p
      /\ \A c \in Call \ {Searching} : step'[c] = "done"
  BY <1>3, Goes
<1>5. mode' = mode /\ changed' = changed /\ Begins'
  BY <1>1, <1>2, SameSearch
<1>6. Begins => Seeds
  <2>1. ASSUME Begins PROVE Seeds
    <3>1. queue \in Seq(Entry) /\ Len(queue) = 0
      BY <2>1 DEF Begins
    <3> QED BY <2>1, <3>1 DEF Begins, Seeds
  <2> QED BY <2>1
<1>7. Seeds'
  BY <1>1, <1>2, <1>6, SameSearch
<1>8. changed \subseteq Source
  BY DEF SearchInvariant
<1>9. changed' \subseteq Source
  BY <1>5, <1>8
<1> QED BY <1>3, <1>4, <1>5, <1>7, <1>9 DEF SearchInvariant, Source

LEMMA SeedsVisits == ASSUME Seeds, todo = {} PROVE Finds /\ Visits
<1>1. /\ direct = UNION {Dependents(s) : s \in changed} /\ transitive = {}
      /\ visited = changed \cup direct /\ queue \in Seq(Entry)
      /\ \A k \in 1..Len(queue) : queue[k][1] \in direct /\ queue[k][2] = 1
      /\ \A s \in direct : Queued(s)
  BY DEF Seeds
<1>2. MaxDepth \in Nat /\ 1 \in 1..MaxDepth /\ 1 \in 0..MaxDepth /\ MaxDepth \in 0..MaxDepth
      /\ 1 \in 0..MaxDepth /\ 1 - 1 = 0
  BY SourcesAreFinite
<1>3. Within[1] = visited /\ Within[0] = changed
  BY <1>1, <1>2, WithinFacts
<1>4. Within[1] \subseteq Within[MaxDepth]
  BY <1>2, WithinGrows
<1>5. Finds
  BY <1>1, <1>3, <1>4 DEF Finds
<1>6. \A s \in changed : Closed(s)
  BY <1>1 DEF Closed
<1>7. Len(queue) \in Nat /\ (queue # <<>> => 1 \in 1..Len(queue))
  BY <1>1
<1>8. ASSUME NEW k \in 1..Len(queue)
      PROVE  /\ queue[k][1] \in Within[queue[k][2]]
             /\ queue[k][1] \in visited
             /\ queue[k][2] <= queue[1][2] + 1
             /\ \A j \in 1..k : queue[j][2] <= queue[k][2]
             /\ queue[k][1] \in Within[queue[k][2] - 1] => Closed(queue[k][1])
  <2>1. queue[k][2] = 1 /\ queue[1][2] = 1 /\ \A j \in 1..k : queue[j][2] = 1
    <3>1. 1 \in 1..Len(queue) /\ \A j \in 1..k : j \in 1..Len(queue)
      BY <1>7
    <3> QED BY <1>1, <3>1
  <2>2. queue[k][1] \in direct
    BY <1>1
  <2> QED BY <1>1, <1>2, <1>3, <1>6, <2>1, <2>2
<1>9. queue # <<>> => Within[queue[1][2]] \subseteq visited
  BY <1>1, <1>3, <1>7
<1> QED BY <1>1, <1>5, <1>6, <1>8, <1>9 DEF Visits

LEMMA SeedSearch ==
    ASSUME SearchInvariant, mode = "search", Seed(Searching)
    PROVE  SearchInvariant'
<1>1. /\ Seeds /\ changed \subseteq Source /\ DOMAIN step = Call
      /\ step[Searching] = "seed" /\ \A c \in Call \ {Searching} : step[c] = "done"
  BY DEF SearchInvariant, Seed
<1>2. mode' = mode /\ changed' = changed /\ imports' = imports
  BY DEF Seed, given
<1>3. CASE todo = {}
  <2>1. step' = [step EXCEPT ![Searching] = "visit"] /\ UNCHANGED <<given, searchVars>>
    BY <1>3 DEF Seed
  <2>2. Finds /\ Visits
    BY <1>1, <1>3, SeedsVisits
  <2>3. (Finds /\ Visits)'
    BY <2>1, <2>2, SameSearch
  <2>4. /\ DOMAIN step' = Call /\ step'[Searching] = "visit"
        /\ \A c \in Call \ {Searching} : step'[c] = "done"
    BY <2>1, Goes
  <2> QED BY <1>1, <1>2, <2>3, <2>4 DEF SearchInvariant, Source
<1>4. CASE todo # {}
  <2>1. PICK s : s = CHOOSE t \in todo : \A r \in todo : t <= r
    OBVIOUS
  <2>2. s \in todo
    <3>1. todo \in SUBSET Nat
      BY <1>1, SourcesAreFinite DEF Seeds
    <3>2. \E t \in todo : \A r \in todo : t <= r
      BY <1>4, <3>1, Least
    <3> QED BY <2>1, <3>2
  <2>3. PICK o \in Orders(Dependents(s)) :
           /\ todo' = todo \ {s}
           /\ direct' = direct \cup Dependents(s)
           /\ visited' = visited \cup Dependents(s)
           /\ queue' = queue \o AtDepth(o, 1)
           /\ step' = step /\ transitive' = transitive
    BY <1>4, <2>1 DEF Seed
  <2>4. /\ todo \subseteq changed /\ transitive = {} /\ queue \in Seq(Entry)
        /\ direct = UNION {Dependents(r) : r \in changed \ todo}
        /\ visited = changed \cup direct
        /\ \A k \in 1..Len(queue) : queue[k][1] \in direct /\ queue[k][2] = 1
        /\ \A r \in direct : \E k \in 1..Len(queue) : queue[k][1] = r
    BY <1>1 DEF Seeds, Queued
  <2>5. PICK q, S, r : q = queue /\ S = Dependents(s) /\ r = queue'
    OBVIOUS
  <2>6. /\ r \in Seq(Entry) /\ Len(r) \in Nat /\ Len(q) \in Nat /\ Len(q) <= Len(r)
        /\ \A k \in 1..Len(q) : r[k] = q[k]
        /\ \A k \in 1..Len(r) : k \in 1..Len(q) \/ (r[k][1] \in S /\ r[k][2] = 1)
        /\ \A x \in S : \E k \in 1..Len(r) : r[k][1] = x
    <3>1. S \in SUBSET Source /\ 1 \in 1..MaxDepth
      BY <2>5, SourcesAreFinite
    <3>2. o \in Orders(S) /\ q \in Seq(Entry)
          /\ r = q \o AtDepth(o, 1)
      BY <2>3, <2>4, <2>5
    <3>3. PICK d \in 1..MaxDepth : d = 1
      BY <3>1
    <3>4. r = q \o AtDepth(o, d)
      BY <3>2, <3>3
    <3>5. Enqueued(q, S, d, r)
      BY <3>1, <3>2, <3>4, EnqueueFacts
    <3> QED BY ONLY <3>3, <3>5 DEF Enqueued
  <2>7. ASSUME NEW k \in 1..Len(r) PROVE r[k][1] \in direct' /\ r[k][2] = 1
    <3>1. \A j \in 1..Len(q) : q[j][1] \in direct /\ q[j][2] = 1
      BY ONLY <2>4, <2>5
    <3>2. CASE k \in 1..Len(q)
      <4>1. r[k] = q[k]
        BY ONLY <2>6, <3>2
      <4>2. q[k][1] \in direct /\ q[k][2] = 1
        BY ONLY <3>1, <3>2
      <4> QED BY <2>3, <4>1, <4>2
    <3>3. CASE r[k][1] \in S /\ r[k][2] = 1
      BY <2>3, <2>5, <3>3
    <3> QED BY <2>6, <3>2, <3>3
  <2>8. ASSUME NEW x \in direct' PROVE \E k \in 1..Len(r) : r[k][1] = x
    <3>1. CASE x \in S
      BY <2>6, <3>1
    <3>2. CASE x \in direct
      <4>1. PICK k \in 1..Len(q) : q[k][1] = x
        BY <2>4, <2>5, <3>2
      <4>2. k \in 1..Len(r) /\ r[k] = q[k]
        BY <2>6
      <4>3. r[k][1] = x
        BY <4>1, <4>2
      <4> QED BY <4>2, <4>3
    <3> QED BY <2>3, <2>5, <3>1, <3>2
  <2>9. direct' = UNION {Dependents(x) : x \in changed \ (todo \ {s})}
    <3>1. changed \ (todo \ {s}) = (changed \ todo) \cup {s}
      BY <2>2, <2>4
    <3> QED BY <2>3, <2>4, <3>1
  <2>10. \A x : Dependents(x)' = Dependents(x)
    BY <1>2, SameWithin
  <2>11. direct' = UNION {Dependents(x)' : x \in changed' \ todo'}
    BY <1>2, <2>3, <2>9, <2>10
  <2>12. Seeds'
    <3>1. todo' \subseteq changed' /\ transitive' = {} /\ visited' = changed' \cup direct'
      BY <1>2, <2>3, <2>4
    <3>2. /\ queue' \in Seq(Entry)
          /\ \A k \in 1..Len(queue') : queue'[k][1] \in direct' /\ queue'[k][2] = 1
          /\ \A x \in direct' : \E k \in 1..Len(queue') : queue'[k][1] = x
      BY <2>5, <2>6, <2>7, <2>8
    <3> QED BY <2>11, <3>1, <3>2 DEF Seeds, Queued, Entry, Source
  <2> QED BY <1>1, <1>2, <2>3, <2>12 DEF SearchInvariant, Source
<1> QED BY <1>3, <1>4

\* q is the queue without its first entry <<s, D>>, r the queue after the visit
\* of s, at whose end are the sources of F.
Visited(q, s, D, F, r) ==
    /\ queue # <<>> /\ queue[1] = <<s, D>> /\ D \in 1..MaxDepth
    /\ F = IF D < MaxDepth THEN Dependents(s) \ visited ELSE {}
    /\ q \in Seq(Entry) /\ Len(q) \in Nat /\ Len(queue) = Len(q) + 1
    /\ \A k \in 1..Len(q) : k + 1 \in 1..Len(queue) /\ q[k] = queue[k + 1]
    /\ Enqueued(q, F, D + 1, r)

LEMMA VisitFacts ==
    ASSUME Visits, Visit(Searching)
    PROVE  \E q, s, D, F :
              /\ Visited(q, s, D, F, queue')
              /\ visited' = visited \cup F /\ transitive' = transitive \cup F
              /\ direct' = direct
<1>1. PICK F, q, s, D : /\ D = queue[1][2] /\ s = queue[1][1] /\ q = Tail(queue)
                        /\ F = IF Expands(D) THEN Dependents(s) \ visited ELSE {}
  OBVIOUS
<1>2. PICK o \in Orders(F) :
         /\ visited' = visited \cup F /\ transitive' = transitive \cup F
         /\ queue' = q \o AtDepth(o, D + 1) /\ direct' = direct
  BY <1>1 DEF Visit
<1>3. queue \in Seq(Entry) /\ queue # <<>>
  BY DEF Visits, Visit
<1>4. /\ q \in Seq(Entry) /\ Len(q) \in Nat /\ Len(queue) = Len(q) + 1
      /\ \A k \in 1..Len(q) : k + 1 \in 1..Len(queue) /\ q[k] = queue[k + 1]
  <2>1. q \in Seq(Entry) /\ Len(queue) \in Nat /\ Len(queue) # 0
    BY <1>1, <1>3
  <2>2. Len(q) = Len(queue) - 1
    BY <1>1, <1>3
  <2>3. \A k \in 1..Len(q) : q[k] = queue[k + 1]
    BY <1>1, <1>3, <2>1, <2>2
  <2> QED BY <2>1, <2>2, <2>3
<1>5. queue[1] \in Entry
  BY <1>3, <1>4
<1>6. queue[1] = <<s, D>> /\ D \in 1..MaxDepth
  BY <1>1, <1>5 DEF Entry
<1>7. MaxDepth \in Nat
  BY SourcesAreFinite
<1>8. F = IF D < MaxDepth THEN Dependents(s) \ visited ELSE {}
  BY <1>1 DEF Expands
<1>9. Enqueued(q, F, D + 1, queue')
  <2>1. CASE D < MaxDepth
    <3>1. F \in SUBSET Source
      BY <1>8, <2>1, SourcesAreFinite
    <3>2. PICK d \in 1..MaxDepth : d = D + 1
      BY <1>6, <1>7, <2>1
    <3>3. queue' = q \o AtDepth(o, d)
      BY <1>2, <3>2
    <3>4. Enqueued(q, F, d, queue')
      BY <1>4, <3>1, <3>3, EnqueueFacts
    <3> QED BY <3>2, <3>4
  <2>2. CASE ~(D < MaxDepth)
    <3>1. F = {} /\ IsFiniteSet(F)
      BY <1>8, <2>2, FS_EmptySet
    <3>2. /\ o \in Seq(F) /\ Len(o) \in Nat /\ DOMAIN o = 1..Len(o)
          /\ \A k \in 1..Len(o) : o[k] \in F
      BY <3>1, OrderFacts
    <3>3. Len(o) = 0
      BY <3>1, <3>2
    <3>4. DOMAIN o = {}
      BY <3>2, <3>3
    <3>5. AtDepth(o, D + 1) = <<>>
      BY <3>4 DEF AtDepth
    <3>6. queue' = q
      BY <1>2, <1>4, <3>5
    <3> QED BY <1>4, <3>1, <3>6 DEF Enqueued
  <2> QED BY <2>1, <2>2
<1> QED BY <1>2, <1>3, <1>4, <1>6, <1>8, <1>9 DEF Visited

\* What the invariant says of the queue, for the entries before and after.
LEMMA VisitEntries ==
    ASSUME Finds, Visits, NEW q, NEW s, NEW D, NEW F, NEW r, Visited(q, s, D, F, r)
    PROVE  /\ MaxDepth \in Nat /\ Len(r) \in Nat /\ r \in Seq(Entry)
           /\ \A k \in 1..Len(queue) : queue[k][2] \in {D, D + 1}
           /\ \A k \in 1..Len(r) :
                 \/ k <= Len(q) /\ k + 1 \in 1..Len(queue) /\ r[k] = queue[k + 1]
                 \/ k > Len(q) /\ r[k][1] \in F /\ r[k][2] = D + 1
           /\ \A k \in 1..Len(r) : r[k][2] \in {D, D + 1}
<1> USE DEF Visited, Enqueued
<1>1. /\ \A k \in 1..Len(queue) : queue[k][2] <= queue[1][2] + 1
      /\ \A k \in 1..Len(queue) : \A j \in 1..k : queue[j][2] <= queue[k][2]
      /\ queue \in Seq(Entry)
  BY DEF Visits
<1>2. queue[1][2] = D /\ D \in Nat /\ MaxDepth \in Nat /\ Len(queue) \in Nat
  BY SourcesAreFinite
<1>3. ASSUME NEW k \in 1..Len(queue) PROVE queue[k][2] \in {D, D + 1}
  <2>1. 1 \in 1..k
    OBVIOUS
  <2>2. queue[k][2] \in 1..MaxDepth
    BY <1>1 DEF Entry
  <2>3. D <= queue[k][2] /\ queue[k][2] <= D + 1
    BY <1>1, <1>2, <2>1
  <2> QED BY ONLY <1>2, <2>2, <2>3
<1>4. ASSUME NEW k \in 1..Len(r)
      PROVE  \/ k <= Len(q) /\ k + 1 \in 1..Len(queue) /\ r[k] = queue[k + 1]
             \/ k > Len(q) /\ r[k][1] \in F /\ r[k][2] = D + 1
  <2>1. CASE k \in 1..Len(q)
    BY <2>1
  <2>2. CASE k \notin 1..Len(q)
    <3>1. k > Len(q)
      BY <2>2
    <3> QED BY <2>2, <3>1
  <2> QED BY <2>1, <2>2
<1>5. ASSUME NEW k \in 1..Len(r) PROVE r[k][2] \in {D, D + 1}
  <2>1. CASE k + 1 \in 1..Len(queue) /\ r[k] = queue[k + 1]
    BY <1>3, <2>1
  <2>2. CASE r[k][2] = D + 1
    BY <2>2
  <2> QED BY <1>4, <2>1, <2>2
<1>6. MaxDepth \in Nat /\ Len(r) \in Nat /\ r \in Seq(Entry)
  BY <1>2
<1> QED BY <1>3, <1>4, <1>5, <1>6

\* The sources found have the depth they get, and were not nearer.
LEMMA FoundDepth ==
    ASSUME Finds, Visits, NEW q, NEW s, NEW D, NEW F, NEW r, Visited(q, s, D, F, r)
    PROVE  /\ F # {} => D < MaxDepth /\ D + 1 \in 1..MaxDepth
           /\ F \cap visited = {} /\ Within[D] \subseteq visited
           /\ F # {} => F \subseteq Within[D + 1] /\ Within[D + 1] \subseteq Within[MaxDepth]
           /\ D < MaxDepth => Dependents(s) \subseteq visited \cup F
<1> USE DEF Visited
<1>1. MaxDepth \in Nat /\ D \in Nat /\ queue[1][2] = D /\ queue[1][1] = s
  BY SourcesAreFinite
<1>2. F # {} => D < MaxDepth /\ D + 1 \in 1..MaxDepth
  BY <1>1
<1>3. F \cap visited = {} /\ (D < MaxDepth => Dependents(s) \subseteq visited \cup F)
  OBVIOUS
<1>4. Within[D] \subseteq visited
  BY <1>1 DEF Visits
<1>5. ASSUME F # {} PROVE F \subseteq Within[D + 1] /\ Within[D + 1] \subseteq Within[MaxDepth]
  <2>1. 1 \in 1..Len(queue)
    OBVIOUS
  <2>2. s \in Within[D]
    BY <1>1, <2>1 DEF Visits
  <2>3. (D + 1) - 1 = D /\ D + 1 \in 1..MaxDepth /\ D + 1 \in 0..MaxDepth
        /\ MaxDepth \in 0..MaxDepth
    BY <1>1, <1>2, <1>5
  <2>4. Within[D + 1] = Within[D] \cup UNION {Dependents(x) : x \in Within[D]}
    BY <2>3, WithinFacts
  <2>5. F \subseteq Dependents(s)
    OBVIOUS
  <2>6. Within[D + 1] \subseteq Within[MaxDepth]
    BY <2>3, WithinGrows
  <2> QED BY <2>2, <2>4, <2>5, <2>6
<1> QED BY <1>2, <1>3, <1>4, <1>5

LEMMA VisitQueue ==
    ASSUME Finds, Visits, NEW q, NEW s, NEW D, NEW F, NEW r, Visited(q, s, D, F, r),
           NEW W, W = visited \cup F, NEW k \in 1..Len(r)
    PROVE  /\ r[k][1] \in Within[r[k][2]]
           /\ r[k][1] \in W
           /\ r[k][2] <= r[1][2] + 1
           /\ \A j \in 1..k : r[j][2] <= r[k][2]
           /\ r[k][1] \in Within[r[k][2] - 1] => Dependents(r[k][1]) \subseteq W
<1>1. /\ MaxDepth \in Nat /\ Len(r) \in Nat
      /\ \A i \in 1..Len(queue) : queue[i][2] \in {D, D + 1}
      /\ \A i \in 1..Len(r) :
            \/ i <= Len(q) /\ i + 1 \in 1..Len(queue) /\ r[i] = queue[i + 1]
            \/ i > Len(q) /\ r[i][1] \in F /\ r[i][2] = D + 1
      /\ \A i \in 1..Len(r) : r[i][2] \in {D, D + 1}
  BY VisitEntries
<1>2. /\ F # {} => D < MaxDepth /\ D + 1 \in 1..MaxDepth
      /\ F \cap visited = {} /\ Within[D] \subseteq visited
      /\ F # {} => F \subseteq Within[D + 1]
  BY FoundDepth
<1>3. \A i \in 1..Len(queue) :
         /\ queue[i][1] \in Within[queue[i][2]]
         /\ queue[i][1] \in visited
         /\ \A j \in 1..i : queue[j][2] <= queue[i][2]
         /\ queue[i][1] \in Within[queue[i][2] - 1] => Dependents(queue[i][1]) \subseteq visited
  BY DEF Visits, Closed
<1>4. D \in Nat /\ Len(q) \in Nat
  BY DEF Visited
<1>5. r[k][1] \in Within[r[k][2]] /\ r[k][1] \in W
  <2>1. CASE k + 1 \in 1..Len(queue) /\ r[k] = queue[k + 1]
    BY <1>3, <2>1
  <2>2. CASE r[k][1] \in F /\ r[k][2] = D + 1
    BY <1>2, <2>2
  <2> QED BY <1>1, <2>1, <2>2
<1>6. r[k][2] <= r[1][2] + 1
  <2>1. 1 \in 1..Len(r)
    BY <1>1
  <2>2. r[k][2] \in {D, D + 1} /\ r[1][2] \in {D, D + 1}
    BY <1>1, <2>1
  <2> QED BY ONLY <1>4, <2>2
<1>7. ASSUME NEW j \in 1..k PROVE r[j][2] <= r[k][2]
  <2>1. j \in 1..Len(r) /\ j <= k /\ j \in Nat /\ k \in Nat
    BY <1>1
  <2>2. r[j][2] \in {D, D + 1}
    BY <1>1, <2>1
  <2>3. CASE r[k][2] = D + 1
    BY ONLY <1>4, <2>2, <2>3
  <2>4. CASE k <= Len(q) /\ k + 1 \in 1..Len(queue) /\ r[k] = queue[k + 1]
    <3>1. ~(j > Len(q))
      BY ONLY <1>4, <2>1, <2>4
    <3>2. j + 1 \in 1..Len(queue) /\ r[j] = queue[j + 1]
      BY <1>1, <2>1, <3>1
    <3>3. j + 1 \in 1..(k + 1)
      BY ONLY <2>1, <3>2
    <3>4. queue[j + 1][2] <= queue[k + 1][2]
      BY <1>3, <2>4, <3>3
    <3> QED BY <2>4, <3>2, <3>4
  <2> QED BY <1>1, <2>3, <2>4
<1>8. ASSUME r[k][1] \in Within[r[k][2] - 1] PROVE Dependents(r[k][1]) \subseteq W
  <2>1. CASE k + 1 \in 1..Len(queue) /\ r[k] = queue[k + 1]
    BY <1>3, <1>8, <2>1
  <2>2. CASE r[k][1] \in F /\ r[k][2] = D + 1
    <3>1. r[k][2] - 1 = D
      BY ONLY <1>4, <2>2
    <3> QED BY <1>2, <1>8, <2>2, <3>1
  <2> QED BY <1>1, <2>1, <2>2
<1> QED BY <1>5, <1>6, <1>7, <1>8

\* Once the first of the queue is a level further, all of that level is found.
LEMMA VisitLevel ==
    ASSUME Finds, Visits, NEW q, NEW s, NEW D, NEW F, NEW r, Visited(q, s, D, F, r),
           NEW W, W = visited \cup F, r # <<>>
    PROVE  Within[r[1][2]] \subseteq W
<1>1. /\ MaxDepth \in Nat /\ Len(r) \in Nat /\ r \in Seq(Entry)
      /\ \A i \in 1..Len(queue) : queue[i][2] \in {D, D + 1}
      /\ \A i \in 1..Len(r) :
            \/ i <= Len(q) /\ i + 1 \in 1..Len(queue) /\ r[i] = queue[i + 1]
            \/ i > Len(q) /\ r[i][1] \in F /\ r[i][2] = D + 1
      /\ \A i \in 1..Len(r) : r[i][2] \in {D, D + 1}
  BY VisitEntries
<1>2. /\ Within[D] \subseteq visited
      /\ D < MaxDepth => Dependents(s) \subseteq visited \cup F
  BY FoundDepth
<1>3. D \in Nat /\ Len(q) \in Nat /\ queue[1] = <<s, D>> /\ Len(queue) = Len(q) + 1
      /\ Len(q) <= Len(r)
  BY DEF Visited, Enqueued
<1>4. 1 \in 1..Len(r) /\ r[1][2] \in {D, D + 1}
  <2>1. 1 \in 1..Len(r)
    BY <1>1
  <2> QED BY <1>1, <2>1
<1>5. CASE r[1][2] = D
  BY <1>2, <1>5
<1>6. CASE r[1][2] = D + 1
  <2>1. D + 1 \in 1..MaxDepth /\ D < MaxDepth /\ (D + 1) - 1 = D
    <3>1. r[1] \in Entry
      BY <1>1, <1>4
    <3>2. r[1][2] \in 1..MaxDepth
      BY <3>1 DEF Entry
    <3> QED BY ONLY <1>1, <1>3, <1>6, <3>2
  <2>2. ASSUME NEW u \in Within[D] PROVE Dependents(u) \subseteq W
    <3>1. CASE Within[MaxDepth] \subseteq visited
      <4>1. D + 1 \in 0..MaxDepth /\ MaxDepth \in 0..MaxDepth
        BY ONLY <1>1, <2>1
      <4>2. Within[D + 1] \subseteq Within[MaxDepth]
        BY <4>1, WithinGrows
      <4>3. Within[D + 1] = Within[D] \cup UNION {Dependents(x) : x \in Within[D]}
        BY <2>1, WithinFacts
      <4> QED BY <3>1, <4>2, <4>3
    <3>2. CASE Closed(u)
      BY <3>2 DEF Closed
    <3>3. CASE Queued(u)
      <4>1. PICK k \in 1..Len(queue) : queue[k][1] = u
        BY <3>3 DEF Queued
      <4>2. CASE k = 1
        BY <1>2, <1>3, <2>1, <4>1, <4>2
      <4>3. CASE k # 1
        <5>1. 2 \in 1..k /\ 2 \in 1..Len(queue) /\ ~(1 > Len(q))
          BY ONLY <1>3, <4>1, <4>3
        <5>2. r[1] = queue[1 + 1]
          BY <1>1, <1>4, <5>1
        <5>3. queue[2][2] = D + 1
          BY ONLY <1>6, <5>2
        <5>4. queue[2][2] <= queue[k][2] /\ queue[k][2] \in {D, D + 1}
          BY <1>1, <5>1 DEF Visits
        <5>5. queue[k][2] = D + 1
          BY ONLY <1>3, <5>3, <5>4
        <5>6. Closed(u)
          BY <2>1, <4>1, <5>5 DEF Visits
        <5> QED BY <5>6 DEF Closed
      <4> QED BY <4>2, <4>3
    <3> QED BY <1>2, <3>1, <3>2, <3>3 DEF Visits
  <2>3. Within[D + 1] = Within[D] \cup UNION {Dependents(x) : x \in Within[D]}
    BY <2>1, WithinFacts
  <2> QED BY <1>2, <1>6, <2>2, <2>3
<1> QED BY <1>4, <1>5, <1>6

LEMMA VisitCloses ==
    ASSUME Finds, Visits, NEW q, NEW s, NEW D, NEW F, NEW r, Visited(q, s, D, F, r),
           NEW W, W = visited \cup F
    PROVE  \/ Within[MaxDepth] \subseteq W
           \/ \A x \in W : Dependents(x) \subseteq W \/ \E k \in 1..Len(r) : r[k][1] = x
<1>1. /\ Within[D] \subseteq visited
      /\ D < MaxDepth => Dependents(s) \subseteq visited \cup F
  BY FoundDepth
<1>2. /\ D \in 1..MaxDepth /\ Len(q) \in Nat /\ queue[1] = <<s, D>>
      /\ Len(queue) = Len(q) + 1 /\ Len(q) <= Len(r) /\ Len(r) \in Nat
      /\ \A k \in 1..Len(q) : r[k] = q[k] /\ q[k] = queue[k + 1]
      /\ \A x \in F : \E k \in 1..Len(r) : r[k][1] = x
  BY DEF Visited, Enqueued
<1>3. MaxDepth \in Nat
  BY SourcesAreFinite
<1>4. CASE Within[MaxDepth] \subseteq visited
  BY <1>4
<1>5. CASE D = MaxDepth
  BY <1>1, <1>5
<1>6. CASE D < MaxDepth /\ \A x \in visited : Closed(x) \/ Queued(x)
  <2>1. ASSUME NEW x \in W
        PROVE  Dependents(x) \subseteq W \/ \E k \in 1..Len(r) : r[k][1] = x
    <3>1. CASE x \in F
      BY <1>2, <3>1
    <3>2. CASE Closed(x)
      BY <3>2 DEF Closed
    <3>3. CASE Queued(x)
      <4>1. PICK k \in 1..Len(queue) : queue[k][1] = x
        BY <3>3 DEF Queued
      <4>2. CASE k = 1
        BY <1>1, <1>2, <1>6, <4>1, <4>2
      <4>3. CASE k # 1
        <5>1. PICK j \in 1..Len(q) : j + 1 = k
          <6>1. k - 1 \in 1..Len(q) /\ (k - 1) + 1 = k
            BY ONLY <1>2, <4>1, <4>3
          <6> QED BY ONLY <6>1
        <5>2. j \in 1..Len(r)
          BY ONLY <1>2, <5>1
        <5>3. r[j] = queue[k]
          BY <1>2, <5>1
        <5> QED BY <4>1, <5>2, <5>3
      <4> QED BY <4>2, <4>3
    <3> QED BY <1>6, <3>1, <3>2, <3>3
  <2> QED BY <2>1
<1> QED BY <1>2, <1>3, <1>4, <1>5, <1>6 DEF Visits

LEMMA VisitSearch ==
    ASSUME SearchInvariant, mode = "search", Visit(Searching)
    PROVE  SearchInvariant'
<1>1. /\ Finds /\ Visits /\ changed \subseteq Source /\ DOMAIN step = Call
      /\ step[Searching] = "visit" /\ \A c \in Call \ {Searching} : step[c] = "done"
  BY DEF SearchInvariant, Visit
<1>2. mode' = mode /\ changed' = changed /\ imports' = imports /\ step' = step
  BY DEF Visit, given
<1>3. PICK q, s, D, F :
         /\ Visited(q, s, D, F, queue')
         /\ visited' = visited \cup F /\ transitive' = transitive \cup F
         /\ direct' = direct
  BY <1>1, VisitFacts
<1>4. PICK r, W : r = queue' /\ W = visited'
  OBVIOUS
<1>5. Visited(q, s, D, F, r) /\ W = visited \cup F
  BY <1>3, <1>4
<1>6. Within' = Within /\ \A x : Dependents(x)' = Dependents(x)
  BY <1>2, SameWithin
<1>7. MaxDepth \in Nat /\ Len(r) \in Nat /\ r \in Seq(Entry)
  BY <1>1, <1>5, VisitEntries
<1>8. /\ F \cap visited = {}
      /\ F \subseteq Within[MaxDepth]
  BY <1>1, <1>5, FoundDepth
<1>9. Finds'
  <2>1. /\ direct = UNION {Dependents(x) : x \in changed}
        /\ visited = changed \cup direct \cup transitive /\ direct \cap transitive = {}
        /\ visited \subseteq Within[MaxDepth]
    BY <1>1 DEF Finds
  <2>2. direct' = UNION {Dependents(x)' : x \in changed'}
    BY <1>2, <1>3, <1>6, <2>1
  <2>3. visited' = changed' \cup direct' \cup transitive' /\ direct' \cap transitive' = {}
    BY <1>2, <1>3, <1>8, <2>1
  <2>4. visited' \subseteq Within'[MaxDepth]
    BY <1>3, <1>6, <1>8, <2>1
  <2> QED BY <2>2, <2>3, <2>4 DEF Finds
<1>10. Visits'
  <2>1. ASSUME NEW k \in 1..Len(r)
        PROVE  /\ r[k][1] \in Within[r[k][2]]
               /\ r[k][1] \in W
               /\ r[k][2] <= r[1][2] + 1
               /\ \A j \in 1..k : r[j][2] <= r[k][2]
               /\ r[k][1] \in Within[r[k][2] - 1] => Dependents(r[k][1]) \subseteq W
    BY <1>1, <1>5, VisitQueue, ZenonT(60)
  <2>2. r # <<>> => Within[r[1][2]] \subseteq W
    BY <1>1, <1>5, VisitLevel, SMTT(60)
  <2>3. \/ Within[MaxDepth] \subseteq W
        \/ \A x \in W : Dependents(x) \subseteq W \/ \E k \in 1..Len(r) : r[k][1] = x
    BY <1>1, <1>5, VisitCloses, SMTT(60)
  <2> QED BY <1>4, <1>6, <1>7, <2>1, <2>2, <2>3 DEF Visits, Queued, Closed, Entry, Source
<1> QED BY <1>1, <1>2, <1>9, <1>10 DEF SearchInvariant, Source

LEMMA FoundSearch ==
    ASSUME SearchInvariant, mode = "search", Found(Searching)
    PROVE  SearchInvariant'
<1>1. /\ Finds /\ Visits /\ changed \subseteq Source
  BY DEF SearchInvariant, Found
<1>2. UNCHANGED <<given, searchVars>> /\ step' = [step EXCEPT ![Searching] = "done"]
      /\ queue = <<>>
  BY DEF Found
<1>3. Within[MaxDepth] \subseteq visited
  <2>1. SUFFICES ASSUME ~(Within[MaxDepth] \subseteq visited) PROVE FALSE
    OBVIOUS
  <2>2. \A x \in visited : Closed(x)
    <3>1. \A x : ~Queued(x)
      BY <1>2 DEF Queued
    <3> QED BY <1>1, <2>1, <3>1 DEF Visits
  <2> DEFINE T == {k \in 0..MaxDepth : ~(Within[k] \subseteq visited)}
  <2>3. MaxDepth \in Nat /\ MaxDepth \in 0..MaxDepth
    BY SourcesAreFinite
  <2>4. T \in SUBSET Nat /\ T # {}
    BY <2>1, <2>3
  <2>5. PICK k \in T : \A j \in T : k <= j
    <3> HIDE DEF T
    <3> QED BY <2>4, Least
  <2>6. k \in 0..MaxDepth /\ ~(Within[k] \subseteq visited)
    OBVIOUS
  <2>7. Within[0] \subseteq visited
    BY <1>1, WithinFacts DEF Finds
  <2>8. k \in 1..MaxDepth /\ k - 1 \in 0..MaxDepth /\ ~(k <= k - 1)
    BY <2>3, <2>6, <2>7
  <2>9. Within[k - 1] \subseteq visited
    <3>1. k - 1 \notin T
      <4> HIDE DEF T
      <4> QED BY <2>5, <2>8
    <3> QED BY <2>8, <3>1
  <2>10. Within[k] = Within[k - 1] \cup UNION {Dependents(x) : x \in Within[k - 1]}
    BY <2>8, WithinFacts
  <2> HIDE DEF T
  <2> QED BY <2>2, <2>6, <2>9, <2>10 DEF Closed
<1>4. (Finds /\ Within[MaxDepth] \subseteq visited)' /\ mode' = mode /\ changed' = changed
  BY <1>1, <1>2, <1>3, SameSearch
<1>5. /\ DOMAIN step' = Call /\ step'[Searching] = "done"
      /\ \A c \in Call \ {Searching} : step'[c] = "done"
  BY <1>2, Goes
<1> QED BY <1>1, <1>4, <1>5 DEF SearchInvariant, Source

LEMMA SearchStart == ASSUME Init PROVE SearchInvariant
<1>1. CASE mode # "search"
  BY <1>1 DEF SearchInvariant
<1>2. CASE mode = "search"
  <2>1. /\ changed \in Changes
        /\ step = [c \in Call |-> IF mode = "cache" \/ (mode = "search" /\ c = Searching)
                                  THEN "fingerprint" ELSE "done"]
        /\ Begins
    BY <1>2 DEF Init, ImpactInit, Begins
  <2>2. changed \subseteq Source
    BY <2>1, ImpactAssumption DEF Source
  <2>3. /\ DOMAIN step = Call /\ step[Searching] = "fingerprint"
        /\ \A c \in Call \ {Searching} : step[c] = "done"
    BY <1>2, <2>1, SearchingCalls
  <2> QED BY <2>1, <2>2, <2>3 DEF SearchInvariant
<1> QED BY <1>1, <1>2

LEMMA SearchInductive == ASSUME SearchInvariant, [Next]_vars PROVE SearchInvariant'
<1>1. mode' = mode
  BY DEF Next, vars, ImpactNext, impactVars, given, Edit, Fingerprint, LookUp,
     Build,
         OpenShared, WriteShared, RenameShared, CacheFails, Seed, Visit, Found
<1>2. CASE mode # "search"
  BY <1>1, <1>2 DEF SearchInvariant
<1>3. CASE mode = "search"
  <2>1. CASE UNCHANGED impactVars
    <3>1. UNCHANGED <<given, searchVars>> /\ step' = step
      BY <2>1 DEF impactVars
    <3> QED BY <1>3, <3>1, SameSearch DEF SearchInvariant, Source
  <2>2. CASE Fingerprint(Searching) \/ Build(Searching)
    BY <1>3, <2>2, ReadSearch
  <2>3. CASE Seed(Searching)
    BY <1>3, <2>3, SeedSearch
  <2>4. CASE Visit(Searching)
    BY <1>3, <2>4, VisitSearch
  <2>5. CASE Found(Searching)
    BY <1>3, <2>5, FoundSearch
  <2> QED BY <1>3, <2>1, <2>2, <2>3, <2>4, <2>5, SearchSteps
<1> QED BY <1>2, <1>3

(***************************************************************************)
(* For any import graph and any changed sources: the search finds exactly  *)
(* the sources within max_depth imports of a changed one, in whatever      *)
(* order sets are iterated.                                                *)
(***************************************************************************)
THEOREM SearchIsExact == Spec => []ImpactIsExact
<1>1. Init => SearchInvariant
  BY SearchStart
<1>2. SearchInvariant /\ [Next]_vars => SearchInvariant'
  BY SearchInductive
<1>3. SearchInvariant => ImpactIsExact
  BY DEF SearchInvariant, Finds, ImpactIsExact
<1> QED BY <1>1, <1>2, <1>3, PTL DEF Spec
==============================================================================
