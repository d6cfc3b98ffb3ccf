-------------------------- MODULE GitReadersProofs --------------------------
(***************************************************************************)
(* The two clients of `git cat-file --batch`, for all objects, requests,   *)
(* pipes, divisions into pins and budgets of at least two units a file:    *)
(* the answers are those of the objects they are for, an error means       *)
(* trouble outside the code, and nothing is left behind.                   *)
(*                                                                         *)
(* The hashes have one request on its way at most.  HeaderInv and BodyInv  *)
(* say where it and its reply are: Pending, the units of the reply from    *)
(* some place on lie in the pipe and in Git, in order.                     *)
(*                                                                         *)
(* The sources have many, and two threads.  StreamInv says that what was   *)
(* read, what is in the pipe and what Git has yet to write are together    *)
(* the replies to the requests that Git has read, complete and in order,   *)
(* each ending where the sizes of the inventory say (End).  That the bytes *)
(* stay within the budget, that the data can be cut into files, and that a *)
(* process that exits with zero has answered everything all follow from    *)
(* it, as long as nothing outside the code goes wrong (Honest).  FilesInv  *)
(* and StageInv hold whatever goes wrong.                                  *)
(***************************************************************************)
EXTENDS GitReaders, WellFoundedInduction, TLAPS

-----------------------------------------------------------------------------
(***************************************************************************)
(* What the invariant is made of.                                          *)
(***************************************************************************)
GitType ==
    /\ git \in {"none", "live", "stalled", "zero", "nonzero"}
    /\ reaped \in BOOLEAN /\ asking \in BOOLEAN /\ reading \in BOOLEAN
    /\ trouble \in BOOLEAN

AnyUnit == [what : {"header", "body", "end", "missing", "submodule"}, of : DOMAIN objects]

ObjectsInv ==
    /\ \A i \in DOMAIN objects : i \in Nat /\ objects[i] \in Object
    /\ stdin \in Seq(DOMAIN objects) /\ stdout \in Seq(AnyUnit) /\ reply \in Seq(AnyUnit)

HasBody(i) == objects[i].kind \notin {"missing", "submodule"}
Quiet      == stdin = <<>> /\ stdout = <<>> /\ reply = <<>>

\* Git may only be asked while it runs, and what it does wrong is trouble.
Working ==
    /\ git \in {"live", "stalled", "nonzero"} /\ (git # "live" => trouble)
    /\ asking = TRUE

-----------------------------------------------------------------------------
(***************************************************************************)
(* The hashes.                                                             *)
(***************************************************************************)
\* Of the reply to request i all but the first c units are on their way.
Pending(i, c) ==
    /\ c + Len(stdout) + Len(reply) = Len(Reply(i))
    /\ \A n \in 1..Len(stdout) : stdout[n] = Reply(i)[c + n]
    /\ \A n \in 1..Len(reply) : reply[n] = Reply(i)[c + Len(stdout) + n]

Asked == index - 1   \* the request that was made last

Right(i) == IF objects[i].kind = "blob" THEN Hash(Bodies(i)) ELSE NoBlob

BatchType ==
    /\ objects \in Seq(Object) /\ index \in 1..(Len(objects) + 1)
    /\ output = [i \in DOMAIN objects |-> output[i]]
    /\ pc \in {"spawn", "ask", "header", "body", "wait", "cleanup", "returned", "raised"}
    /\ raising \in BOOLEAN

AskInv == pc = "ask" => Working /\ ~raising /\ awaited = <<>> /\ Quiet

HeaderInv ==
    pc = "header" =>
        /\ Working /\ ~raising /\ Asked \in DOMAIN objects /\ awaited = <<Asked>>
        /\ \/ stdin = <<Asked>> /\ stdout = <<>> /\ reply = <<>>
           \/ stdin = <<>> /\ Pending(Asked, 0)

BodyInv ==
    pc = "body" =>
        /\ Working /\ ~raising /\ Asked \in DOMAIN objects /\ awaited = <<Asked>>
        /\ stdin = <<>> /\ HasBody(Asked) /\ remaining \in 0..objects[Asked].size
        /\ Pending(Asked, 1 + objects[Asked].size - remaining)
        /\ body.blob = (objects[Asked].kind = "blob")
        /\ body = [blob |-> body.blob, units |-> body.units]
        /\ body.blob => body.units = [n \in 1..(objects[Asked].size - remaining)
                                        |-> Unit("body", Asked)]

EndInv ==
    /\ pc = "spawn" => index = 1 /\ awaited = <<>> /\ ~raising
    /\ pc = "wait" => /\ index = Len(objects) + 1 /\ ~raising /\ Quiet /\ asking = FALSE
                      /\ git # "none" /\ (git \in {"stalled", "nonzero"} => trouble)
    /\ pc = "cleanup" => /\ git # "none" /\ (raising => trouble)
                         /\ ~raising => index = Len(objects) + 1
    /\ pc = "returned" => index = Len(objects) + 1 /\ ~raising /\ Gone /\ reaped = TRUE
    /\ pc = "raised" => trouble /\ raising /\ Gone /\ reaped = TRUE

HashInv ==
    /\ pc \in {"header", "body"} => \A i \in 1..(index - 2) : output[i] = Right(i)
    /\ pc \notin {"header", "body"} /\ ~raising
          => \A i \in 1..(index - 1) : output[i] = Right(i)

BatchInv ==
    client = "batch" =>
        SourceIdle /\ BatchType /\ AskInv /\ HeaderInv /\ BodyInv /\ EndInv /\ HashInv

-----------------------------------------------------------------------------
(***************************************************************************)
(* The sources.                                                            *)
(***************************************************************************)
RequestsOf(p) == {pins[p][k] : k \in DOMAIN pins[p]}

SourceType ==
    /\ pins \in Seq(Seq(Nat)) /\ pin \in DOMAIN pins
    /\ DOMAIN objects = UNION {RequestsOf(p) : p \in DOMAIN pins}
    /\ claimed \in [DOMAIN objects -> Nat]
    /\ step \in {"spawn", "wait", "join", "cut", "discard", "returned", "raised"}
    /\ writer \in {"write", "done"} /\ reader \in {"read", "done"}
    /\ sent \in Nat /\ cut \in Nat /\ data \in Seq(AnyUnit)
    /\ failed \in BOOLEAN /\ staged \in BOOLEAN

Listed(i) == objects[i] = [kind |-> "blob", size |-> claimed[i]]

\* The files of the pins that are done with, and of the current one those cut.
FilesInv ==
    /\ \A i \in files : i \in DOMAIN objects /\ Listed(i)
    /\ step \in {"spawn", "wait", "join", "cut"} =>
          /\ \A p \in 1..(pin - 1) : RequestsOf(p) \subseteq files
          /\ step \in {"wait", "join"} => cut = 0
          /\ step = "cut" => cut <= Len(Wanted) /\ \A k \in 1..cut : Wanted[k] \in files
    /\ step = "returned" => files = DOMAIN objects

StageInv ==
    /\ step = "wait" => git # "none"
    /\ step \in {"join", "cut", "discard", "returned", "raised"} => Gone /\ reaped = TRUE
    /\ step = "cut" => reader = "done"
    /\ step = "raised" => staged = FALSE /\ files = {}

\* Nothing outside the code goes wrong.
Honest == (\A i \in DOMAIN objects : Listed(i)) /\ ~trouble

\* The n-th unit of all that Git has begun to reply.
Stream(n) ==
    IF n <= Len(data) THEN data[n]
    ELSE IF n <= Len(data) + Len(stdout) THEN stdout[n - Len(data)]
    ELSE reply[n - Len(data) - Len(stdout)]

Begun == sent - Len(stdin)   \* the requests Git has read

\* The replies to the requests read so far are complete and in order.
StreamInv ==
    /\ sent <= Len(Wanted) /\ Len(stdin) <= sent
    /\ \A k \in 1..Len(stdin) : stdin[k] = Wanted[Begun + k]
    /\ Len(data) + Len(stdout) + Len(reply) = End(Begun)
    /\ \A k \in 1..Begun : \A j \in 1..(claimed[Wanted[k]] + 2) :
          Stream(End(k - 1) + j) = Reply(Wanted[k])[j]

\* Nothing has failed.
ThreadInv ==
    /\ ~failed /\ git \in {"live", "zero"}
    /\ asking = (writer = "write")
    /\ writer = "done" => sent = Len(Wanted)
    /\ git = "zero" => stdin = <<>> /\ reply = <<>> /\ writer = "done"
    /\ reader = "done" => git = "zero" /\ stdout = <<>>

DataInv ==
    Honest =>
        /\ step \in {"wait", "join"} => StreamInv /\ ThreadInv
        /\ step = "cut" =>
              /\ cut <= Len(Wanted) /\ Len(data) = End(Len(Wanted))
              /\ \A k \in 1..Len(Wanted) : \A j \in 1..(claimed[Wanted[k]] + 2) :
                    data[End(k - 1) + j] = Reply(Wanted[k])[j]
        /\ step \notin {"discard", "raised"}

SourceInv ==
    client = "sources" =>
        BatchIdle /\ SourceType /\ FilesInv /\ StageInv /\ DataInv

ReadersInv ==
    GitType /\ ObjectsInv /\ client \in {"batch", "sources"} /\ BatchInv /\ SourceInv

-----------------------------------------------------------------------------
(***************************************************************************)
(* Sequences and replies.                                                  *)
(***************************************************************************)
LEMMA TailFacts ==
    ASSUME NEW S, NEW s \in Seq(S), s # <<>>
    PROVE  /\ Len(s) \in Nat /\ Len(s) >= 1 /\ Head(s) = s[1] /\ Head(s) \in S
           /\ Tail(s) \in Seq(S) /\ Len(Tail(s)) = Len(s) - 1
           /\ \A n \in 1..(Len(s) - 1) : Tail(s)[n] = s[n + 1]
  OBVIOUS

LEMMA AppendFacts ==
    ASSUME NEW S, NEW s \in Seq(S), NEW e \in S
    PROVE  /\ Append(s, e) \in Seq(S) /\ Len(Append(s, e)) = Len(s) + 1
           /\ Append(s, e)[Len(s) + 1] = e
           /\ \A n \in 1..Len(s) : Append(s, e)[n] = s[n]
  OBVIOUS

LEMMA ObjectFacts ==
    ASSUME ObjectsInv, NEW i \in DOMAIN objects
    PROVE  /\ objects[i].size \in Nat /\ i \in Nat
           /\ objects[i].kind \in {"blob", "tree", "missing", "submodule"}
           /\ objects[i] = [kind |-> objects[i].kind, size |-> objects[i].size]
  BY RequestAssumption DEF ObjectsInv

LEMMA ReplyFacts ==
    ASSUME ObjectsInv, NEW i \in DOMAIN objects
    PROVE  /\ Reply(i) \in Seq(AnyUnit)
           /\ ~HasBody(i) => Len(Reply(i)) = 1 /\ Reply(i)[1] = Unit(objects[i].kind, i)
           /\ HasBody(i) =>
                 /\ Len(Reply(i)) = objects[i].size + 2
                 /\ Reply(i)[1] = Unit("header", i)
                 /\ \A n \in 1..objects[i].size : Reply(i)[n + 1] = Unit("body", i)
                 /\ Reply(i)[objects[i].size + 2] = Unit("end", i)
<1>0. /\ objects[i].size \in Nat
      /\ objects[i].kind \in {"blob", "tree", "missing", "submodule"}
  BY ObjectFacts
<1>1. \A what \in {"header", "body", "end", "missing", "submodule"} :
         Unit(what, i) \in AnyUnit
  BY DEF Unit, AnyUnit
<1>2. CASE ~HasBody(i)
  <2>1. Reply(i) = <<Unit(objects[i].kind, i)>> /\ Unit(objects[i].kind, i) \in AnyUnit
    BY <1>0, <1>1, <1>2 DEF Reply, HasBody
  <2> QED BY <1>2, <2>1
<1>3. CASE HasBody(i)
  <2> DEFINE last == objects[i].size + 2
             what(n) == CASE n = 1 -> "header" [] n = last -> "end" [] OTHER -> "body"
  <2>1. Reply(i) = [n \in 1..last |-> Unit(what(n), i)]
    BY <1>3 DEF Reply, HasBody
  <2>2. /\ last \in Nat /\ last >= 2 /\ what(1) = "header" /\ what(last) = "end"
        /\ \A n \in 1..objects[i].size : what(n + 1) = "body" /\ n + 1 \in 1..last
        /\ \A n \in 1..last : what(n) \in {"header", "body", "end"}
    BY <1>0
  <2> HIDE DEF what
  <2>3. \A n \in 1..last : Unit(what(n), i) \in AnyUnit
    BY <1>1, <2>2
  <2>4. Reply(i) \in Seq(AnyUnit) /\ Len(Reply(i)) = last
    BY <2>1, <2>2, <2>3
  <2>5. \A n \in 1..last : Reply(i)[n] = Unit(what(n), i)
    BY <2>1
  <2> QED BY <1>3, <2>2, <2>4, <2>5
<1> QED BY <1>2, <1>3

LEMMA SameReplies ==
    ASSUME UNCHANGED objects
    PROVE  /\ \A i : Reply(i)' = Reply(i) /\ (HasBody(i)' <=> HasBody(i))
                     /\ Right(i)' = Right(i)
           /\ AnyUnit' = AnyUnit
  BY DEF Reply, Unit, HasBody, Right, Hash, Bodies, NoBlob, AnyUnit

\* What is on its way moves on within the pipe, or is taken from it.
LEMMA PendingWrites ==
    ASSUME ObjectsInv, NEW i \in DOMAIN objects, NEW c \in Nat, Pending(i, c), GitWrites
    PROVE  Pending(i, c)'
<1>1. /\ stdout \in Seq(AnyUnit) /\ reply \in Seq(AnyUnit) /\ reply # <<>>
      /\ stdout' = Append(stdout, Head(reply)) /\ reply' = Tail(reply)
      /\ UNCHANGED objects
  BY DEF GitWrites, ObjectsInv
<1>2. /\ Len(reply) \in Nat /\ Len(reply) >= 1 /\ Head(reply) = reply[1] /\ Head(reply) \in AnyUnit
      /\ Len(Tail(reply)) = Len(reply) - 1
      /\ \A n \in 1..(Len(reply) - 1) : Tail(reply)[n] = reply[n + 1]
  BY <1>1, TailFacts
<1>3. /\ Len(stdout') = Len(stdout) + 1 /\ stdout'[Len(stdout) + 1] = reply[1]
      /\ \A n \in 1..Len(stdout) : stdout'[n] = stdout[n]
      /\ Len(stdout) \in Nat
  BY <1>1, <1>2, AppendFacts
<1> DEFINE r == Reply(i)
<1>4. Reply(i)' = r
  BY <1>1, SameReplies
<1>5. /\ c + Len(stdout) + Len(reply) = Len(r)
      /\ \A n \in 1..Len(stdout) : stdout[n] = r[c + n]
      /\ \A n \in 1..Len(reply) : reply[n] = r[c + Len(stdout) + n]
  BY DEF Pending
<1> HIDE DEF r
<1>6. c + Len(stdout') + Len(reply') = Len(r)
  BY <1>1, <1>2, <1>3, <1>5
<1>7. ASSUME NEW n \in 1..Len(stdout') PROVE stdout'[n] = r[c + n]
  <2>1. CASE n \in 1..Len(stdout)
    BY <1>3, <1>5, <2>1
  <2>2. CASE n = Len(stdout) + 1
    BY <1>2, <1>3, <1>5, <2>2
  <2> QED BY <1>3, <2>1, <2>2
<1>8. ASSUME NEW n \in 1..Len(reply') PROVE reply'[n] = r[c + Len(stdout') + n]
  <2>1. n \in 1..(Len(reply) - 1) /\ n + 1 \in 1..Len(reply)
    BY <1>1, <1>2
  <2>2. reply'[n] = r[c + Len(stdout) + (n + 1)]
    BY <1>1, <1>2, <1>5, <2>1
  <2>3. c + Len(stdout) + (n + 1) = c + Len(stdout') + n
    BY <1>3, <2>1
  <2> QED BY <2>2, <2>3
<1> QED BY <1>4, <1>6, <1>7, <1>8 DEF Pending

LEMMA PendingTaken ==
    ASSUME ObjectsInv, NEW i \in DOMAIN objects, NEW c \in Nat, Pending(i, c),
           stdout # <<>>, stdout' = Tail(stdout), UNCHANGED <<objects, reply>>
    PROVE  /\ c + 1 <= Len(Reply(i)) /\ Head(stdout) = Reply(i)[c + 1]
           /\ Pending(i, c + 1)'
           /\ c + 1 = Len(Reply(i)) => stdout' = <<>> /\ reply' = <<>>
<1>1. stdout \in Seq(AnyUnit) /\ reply \in Seq(AnyUnit) /\ Len(reply) \in Nat
  BY DEF ObjectsInv
<1>2. /\ Len(stdout) \in Nat /\ Len(stdout) >= 1 /\ Head(stdout) = stdout[1]
      /\ Len(stdout') = Len(stdout) - 1 /\ stdout' \in Seq(AnyUnit)
      /\ \A n \in 1..(Len(stdout) - 1) : stdout'[n] = stdout[n + 1]
  BY <1>1, TailFacts
<1> DEFINE r == Reply(i)
<1>3. Reply(i)' = r
  BY SameReplies
<1>4. /\ c + Len(stdout) + Len(reply) = Len(r)
      /\ \A n \in 1..Len(stdout) : stdout[n] = r[c + n]
      /\ \A n \in 1..Len(reply) : reply[n] = r[c + Len(stdout) + n]
  BY DEF Pending
<1> HIDE DEF r
<1>5. c + 1 <= Len(r) /\ Head(stdout) = r[c + 1]
  BY <1>1, <1>2, <1>4
<1>6. (c + 1) + Len(stdout') + Len(reply') = Len(r)
  BY <1>1, <1>2, <1>4
<1>7. ASSUME NEW n \in 1..Len(stdout') PROVE stdout'[n] = r[(c + 1) + n]
  <2>1. n \in 1..(Len(stdout) - 1) /\ n + 1 \in 1..Len(stdout)
    BY <1>2
  <2>2. stdout'[n] = r[c + (n + 1)]
    BY <1>2, <1>4, <2>1
  <2>3. c + (n + 1) = (c + 1) + n
    BY <2>1
  <2> QED BY <2>2, <2>3
<1>8. ASSUME NEW n \in 1..Len(reply') PROVE reply'[n] = r[(c + 1) + Len(stdout') + n]
  <2>1. n \in 1..Len(reply) /\ reply'[n] = r[c + Len(stdout) + n]
    BY <1>4
  <2>2. c + Len(stdout) + n = (c + 1) + Len(stdout') + n
    BY <1>2, <2>1
  <2> QED BY <2>1, <2>2
<1>9. c + 1 = Len(r) => Len(stdout') = 0 /\ Len(reply') = 0
  BY <1>1, <1>2, <1>6
<1>10. c + 1 = Len(r) => stdout' = <<>> /\ reply' = <<>>
  BY <1>1, <1>2, <1>9
<1> QED BY <1>3, <1>5, <1>6, <1>7, <1>8, <1>10 DEF Pending, r

-----------------------------------------------------------------------------
(***************************************************************************)
(* Steps of the hashes.                                                    *)
(***************************************************************************)
LEMMA BatchFacts ==
    ASSUME ReadersInv, client = "batch"
    PROVE  /\ GitType /\ ObjectsInv /\ SourceIdle /\ BatchType
           /\ AskInv /\ HeaderInv /\ BodyInv /\ EndInv /\ HashInv
           /\ Len(objects) \in Nat /\ DOMAIN objects = 1..Len(objects)
           /\ index \in Nat /\ index >= 1 /\ index <= Len(objects) + 1
           /\ output = [i \in DOMAIN objects |-> output[i]]
  BY DEF ReadersInv, BatchInv, BatchType

LEMMA BatchHolds ==
    ASSUME client' = "batch", SourceIdle, UNCHANGED sourceVars,
           GitType', ObjectsInv', BatchType', AskInv', HeaderInv', BodyInv', EndInv', HashInv'
    PROVE  ReadersInv'
<1>1. SourceIdle'
  BY DEF SourceIdle, sourceVars
<1> QED BY <1>1 DEF ReadersInv, BatchInv, SourceInv

LEMMA SameObjects ==
    ASSUME ObjectsInv, UNCHANGED <<objects, stdin, stdout, reply>>
    PROVE  ObjectsInv'
  BY SameReplies DEF ObjectsInv

LEMMA SameHashes ==
    ASSUME HashInv, pc \notin {"header", "body"}, ~raising, UNCHANGED <<objects, index, output>>
    PROVE  \A i \in 1..(index' - 1) : output'[i] = Right(i)'
  BY SameReplies DEF HashInv

LEMMA SpawnStep ==
    ASSUME ReadersInv, client = "batch", BatchSpawns, UNCHANGED <<client, sourceVars>>
    PROVE  ReadersInv'
<1>0. /\ GitType /\ ObjectsInv /\ SourceIdle /\ BatchType /\ EndInv /\ HashInv
  BY BatchFacts
<1>1. /\ pc = "spawn" /\ pc' = "ask" /\ UNCHANGED <<objects, index, awaited, output, raising>>
      /\ git' = "live" /\ reaped' = FALSE /\ stdin' = <<>> /\ asking' = TRUE
      /\ stdout' = <<>> /\ reading' = TRUE /\ reply' = <<>> /\ trouble' = trouble
  BY DEF BatchSpawns, SpawnGit
<1>2. GitType'
  BY <1>0, <1>1 DEF GitType
<1>3. ObjectsInv'
  BY <1>0, <1>1, SameReplies DEF ObjectsInv
<1>4. BatchType'
  BY <1>0, <1>1 DEF BatchType
<1>5. HashInv'
  BY <1>0, <1>1, SameHashes DEF HashInv, EndInv
<1>6. awaited = <<>> /\ ~raising
  BY <1>0, <1>1 DEF EndInv
<1>7. AskInv'
  BY <1>1, <1>6 DEF AskInv, Working, Quiet
<1>8. HeaderInv' /\ BodyInv' /\ EndInv'
  BY <1>1 DEF HeaderInv, BodyInv, EndInv
<1> QED BY <1>0, <1>2, <1>3, <1>4, <1>5, <1>7, <1>8, BatchHolds

LEMMA UnresolvedStep ==
    ASSUME ReadersInv, client = "batch", Unresolved, UNCHANGED <<client, sourceVars>>
    PROVE  ReadersInv'
<1>0. /\ GitType /\ ObjectsInv /\ SourceIdle /\ BatchType /\ AskInv /\ HashInv
      /\ Len(objects) \in Nat /\ DOMAIN objects = 1..Len(objects)
      /\ index \in Nat /\ index >= 1
      /\ output = [i \in DOMAIN objects |-> output[i]]
  BY BatchFacts
<1>1. /\ pc = "ask" /\ pc' = "ask" /\ index <= Len(objects) /\ index' = index + 1
      /\ objects[index].kind = "missing" /\ output' = [output EXCEPT ![index] = NoBlob]
      /\ UNCHANGED <<objects, awaited, raising, git, reaped, stdin, asking, stdout, reading,
                     reply, trouble>>
  BY DEF Unresolved, More, gitVars
<1>2. GitType' /\ ObjectsInv'
  BY <1>0, <1>1, SameObjects DEF GitType
<1>3. index \in DOMAIN objects /\ Right(index) = NoBlob
  BY <1>0, <1>1 DEF Right
<1>4. /\ output' = [i \in DOMAIN objects' |-> output'[i]]
      /\ output'[index] = NoBlob
      /\ \A i \in DOMAIN objects : i # index => output'[i] = output[i]
  BY <1>0, <1>1, <1>3
<1>5. BatchType'
  BY <1>0, <1>1, <1>4 DEF BatchType
<1>6. \A i \in 1..(index - 1) : output[i] = Right(i)
  BY <1>0, <1>1 DEF HashInv, AskInv
<1>7. HashInv'
  <2> SUFFICES ASSUME NEW i \in 1..index PROVE output'[i] = Right(i)'
    BY <1>0, <1>1 DEF HashInv
  <2>1. Right(i)' = Right(i)
    BY <1>1, SameReplies
  <2>2. i = index \/ (i \in 1..(index - 1) /\ i \in DOMAIN objects)
    BY <1>0, <1>1
  <2> QED BY <1>3, <1>4, <1>6, <2>1, <2>2
<1>8. AskInv'
  BY <1>0, <1>1 DEF AskInv, Working, Quiet
<1>9. HeaderInv' /\ BodyInv' /\ EndInv'
  BY <1>1 DEF HeaderInv, BodyInv, EndInv
<1> QED BY <1>0, <1>2, <1>5, <1>7, <1>8, <1>9, BatchHolds

LEMMA AskStep ==
    ASSUME ReadersInv, client = "batch", Ask, UNCHANGED <<client, sourceVars>>
    PROVE  ReadersInv'
<1>0. /\ GitType /\ ObjectsInv /\ SourceIdle /\ BatchType /\ AskInv /\ HashInv
      /\ Len(objects) \in Nat /\ DOMAIN objects = 1..Len(objects)
      /\ index \in Nat /\ index >= 1
  BY BatchFacts
<1>1. /\ pc = "ask" /\ pc' = "header" /\ index <= Len(objects) /\ index' = index + 1
      /\ stdin' = Append(stdin, index) /\ awaited' = Append(awaited, index)
      /\ UNCHANGED <<objects, output, raising, git, reaped, asking, stdout, reading,
                     reply, trouble>>
  BY DEF Ask, More, AfterAsk
<1>2. Working /\ ~raising /\ awaited = <<>> /\ stdin = <<>> /\ stdout = <<>> /\ reply = <<>>
  BY <1>0, <1>1 DEF AskInv, Quiet
<1>3. stdin' = <<index>> /\ awaited' = <<index>> /\ index \in DOMAIN objects
  BY <1>0, <1>1, <1>2
<1>4. GitType'
  BY <1>0, <1>1 DEF GitType
<1>5. ObjectsInv'
  BY <1>0, <1>1, <1>3, SameReplies DEF ObjectsInv
<1>6. BatchType'
  BY <1>0, <1>1 DEF BatchType
<1>7. HashInv'
  <2>1. \A i \in 1..(index - 1) : output[i] = Right(i)
    BY <1>0, <1>1, <1>2 DEF HashInv
  <2>2. index' - 2 = index - 1
    BY <1>0, <1>1
  <2> QED BY <1>1, <2>1, <2>2, SameReplies DEF HashInv
<1>8. HeaderInv'
  <2>1. Asked' = index
    BY <1>0, <1>1 DEF Asked
  <2> QED BY <1>1, <1>2, <1>3, <2>1 DEF HeaderInv, Working
<1>9. AskInv' /\ BodyInv' /\ EndInv'
  BY <1>1 DEF AskInv, BodyInv, EndInv
<1> QED BY <1>0, <1>4, <1>5, <1>6, <1>7, <1>8, <1>9, BatchHolds

\* Giving up: there is trouble, and Git was spawned.
LEMMA GiveUp ==
    ASSUME ReadersInv, client = "batch", trouble', git # "none", Raise,
           UNCHANGED <<client, sourceVars, objects, git, reaped, stdin, asking, stdout,
                       reading, reply, index, output>>,
           trouble' \in BOOLEAN
    PROVE  ReadersInv'
<1>0. /\ GitType /\ ObjectsInv /\ SourceIdle /\ BatchType
  BY BatchFacts
<1>1. raising' = TRUE /\ pc' = "cleanup"
  BY DEF Raise
<1>2. GitType' /\ ObjectsInv' /\ BatchType'
  BY <1>0, <1>1, SameObjects DEF GitType, BatchType
<1>3. AskInv' /\ HeaderInv' /\ BodyInv' /\ EndInv' /\ HashInv'
  BY <1>1 DEF AskInv, HeaderInv, BodyInv, EndInv, HashInv
<1> QED BY <1>0, <1>2, <1>3, BatchHolds

LEMMA AskFailsStep ==
    ASSUME ReadersInv, client = "batch", AskFails, UNCHANGED <<client, sourceVars>>
    PROVE  ReadersInv'
<1>1. AskInv /\ GitType
  BY BatchFacts
<1>2. git # "none" /\ trouble
  BY <1>1 DEF AskFails, AskInv, Working, Gone
<1> QED BY <1>1, <1>2, GiveUp DEF AskFails, gitVars, GitType

\* The reply that is read is the one to the request made last.
LEMMA AskedFacts ==
    ASSUME ReadersInv, client = "batch", pc \in {"header", "body"}
    PROVE  /\ Asked \in DOMAIN objects /\ Asked \in Nat /\ Asked = index - 1
           /\ awaited = <<Asked>> /\ Head(awaited) = Asked /\ Len(awaited) = 1
           /\ Tail(awaited) = <<>> /\ Working /\ ~raising
           /\ objects[Asked].size \in Nat /\ Reply(Asked) \in Seq(AnyUnit)
           /\ \A i \in 1..(index - 2) : output[i] = Right(i)
<1>1. ObjectsInv /\ HeaderInv /\ BodyInv /\ HashInv
  BY BatchFacts
<1>2. Asked \in DOMAIN objects /\ awaited = <<Asked>> /\ Working /\ ~raising
  BY <1>1 DEF HeaderInv, BodyInv
<1> QED BY <1>1, <1>2, ObjectFacts, ReplyFacts DEF HashInv, Asked

\* Its hash is recorded, and the next request is due.
LEMMA AnsweredStep ==
    ASSUME ReadersInv, client = "batch", pc \in {"header", "body"}, Answered(Right(Asked)),
           stdin = <<>>, stdout' = <<>>, reply = <<>>, GitRest,
           UNCHANGED <<client, sourceVars, index, raising>>
    PROVE  ReadersInv'
<1>0. /\ GitType /\ ObjectsInv /\ SourceIdle /\ BatchType
      /\ Len(objects) \in Nat /\ DOMAIN objects = 1..Len(objects)
      /\ index \in Nat /\ index >= 1
      /\ output = [i \in DOMAIN objects |-> output[i]]
  BY BatchFacts
<1>1. /\ Asked \in DOMAIN objects /\ Asked \in Nat /\ Asked = index - 1
      /\ Head(awaited) = Asked /\ Len(awaited) = 1
      /\ Tail(awaited) = <<>> /\ Working /\ ~raising
      /\ \A i \in 1..(index - 2) : output[i] = Right(i)
  BY AskedFacts
<1>2. /\ output' = [output EXCEPT ![Asked] = Right(Asked)] /\ awaited' = <<>> /\ pc' = "ask"
      /\ UNCHANGED <<objects, git, reaped, stdin, asking, reading, reply, trouble>>
  <2>1. /\ output' = [output EXCEPT ![Head(awaited)] = Right(Asked)]
        /\ awaited' = Tail(awaited)
        /\ pc' = IF Len(awaited) > 1 THEN "header" ELSE "ask"
    BY DEF Answered
  <2>2. UNCHANGED <<objects, git, reaped, stdin, asking, reading, reply, trouble>>
    BY DEF GitRest
  <2>3. Head(awaited) = Asked /\ Len(awaited) = 1 /\ Tail(awaited) = <<>>
    BY <1>1
  <2>4. pc' = "ask"
    BY ONLY <2>1, <2>3
  <2>5. output' = [output EXCEPT ![Asked] = Right(Asked)] /\ awaited' = <<>>
    BY <2>1, <2>3
  <2> QED BY <2>2, <2>4, <2>5
<1>3. GitType'
  BY <1>0, <1>2 DEF GitType
<1>4. ObjectsInv'
  BY <1>0, <1>2, SameReplies DEF ObjectsInv
<1>5. /\ output' = [i \in DOMAIN objects' |-> output'[i]]
      /\ output'[Asked] = Right(Asked)
      /\ \A i \in DOMAIN objects : i # Asked => output'[i] = output[i]
  BY <1>0, <1>1, <1>2
<1>6. BatchType'
  BY <1>0, <1>2, <1>5 DEF BatchType
<1>7. HashInv'
  <2> SUFFICES ASSUME NEW i \in 1..(index - 1) PROVE output'[i] = Right(i)'
    BY <1>0, <1>2 DEF HashInv
  <2>1. Right(i)' = Right(i)
    BY <1>2, SameReplies
  <2>2. i = Asked \/ (i \in 1..(index - 2) /\ i \in DOMAIN objects /\ i # Asked)
    BY <1>0, <1>1
  <2> QED BY <1>1, <1>5, <2>1, <2>2
<1>8. AskInv'
  BY <1>1, <1>2 DEF AskInv, Working, Quiet
<1>9. HeaderInv' /\ BodyInv' /\ EndInv'
  BY <1>2 DEF HeaderInv, BodyInv, EndInv
<1> QED BY <1>0, <1>3, <1>4, <1>6, <1>7, <1>8, <1>9, BatchHolds

LEMMA UnitFacts ==
    ASSUME NEW a, NEW i, NEW b, NEW j
    PROVE  /\ Unit(a, i).what = a /\ Unit(a, i).of = i
           /\ Unit(a, i) = Unit(b, j) <=> a = b /\ i = j
<1>1. /\ Unit(a, i).what = a /\ Unit(a, i).of = i /\ Unit(b, j).what = b /\ Unit(b, j).of = j
  BY DEF Unit
<1> QED BY <1>1

\* The first unit of a reply is there to be read only after the request was.
LEMMA HeaderFacts ==
    ASSUME ReadersInv, client = "batch", pc = "header", stdout # <<>>
    PROVE  /\ stdin = <<>> /\ Pending(Asked, 0) /\ Head(stdout) = Reply(Asked)[1]
           /\ ~HasBody(Asked) => Head(stdout) = Unit(objects[Asked].kind, Asked)
           /\ HasBody(Asked) => Head(stdout) = Unit("header", Asked)
<1>1. HeaderInv /\ ObjectsInv /\ Asked \in DOMAIN objects
  BY BatchFacts, AskedFacts
<1>2. stdin = <<>> /\ Pending(Asked, 0)
  BY <1>1 DEF HeaderInv
<1>3. stdout \in Seq(AnyUnit) /\ Len(stdout) >= 1 /\ Len(stdout) \in Nat
      /\ Head(stdout) = stdout[1]
  BY <1>1, TailFacts DEF ObjectsInv
<1>4. stdout[1] = Reply(Asked)[0 + 1]
  BY <1>2, <1>3 DEF Pending
<1> QED BY <1>1, <1>2, <1>3, <1>4, ReplyFacts

LEMMA NoObjectStep ==
    ASSUME ReadersInv, client = "batch", NoObject, UNCHANGED <<client, sourceVars>>
    PROVE  ReadersInv'
<1>1. /\ pc = "header" /\ Answered(NoBlob) /\ GitRest /\ UNCHANGED <<index, raising>>
  BY DEF NoObject
<1>2. PICK kind \in {"missing", "submodule"}, i \in DOMAIN objects : Takes(Unit(kind, i))
  BY DEF NoObject
<1>3. stdout # <<>> /\ Head(stdout) = Unit(kind, i) /\ stdout' = Tail(stdout)
  BY <1>2 DEF Takes
<1>4. ObjectsInv /\ Asked \in DOMAIN objects
  BY <1>1, BatchFacts, AskedFacts
<1>5. stdin = <<>> /\ Pending(Asked, 0)
      /\ (HasBody(Asked) => Head(stdout) = Unit("header", Asked))
  BY <1>1, <1>3, HeaderFacts
<1>6. ~HasBody(Asked)
  BY <1>3, <1>5, UnitFacts
<1>7. Len(Reply(Asked)) = 0 + 1
  BY <1>4, <1>6, ReplyFacts
<1>8. UNCHANGED <<objects, reply>>
  BY <1>1 DEF GitRest
<1>9. 0 \in Nat /\ stdout' = <<>> /\ reply' = <<>>
  BY <1>3, <1>4, <1>5, <1>7, <1>8, PendingTaken
<1>10. Right(Asked) = NoBlob
  BY <1>6 DEF Right, HasBody
<1> QED BY <1>1, <1>5, <1>8, <1>9, <1>10, AnsweredStep

LEMMA ReadHeaderStep ==
    ASSUME ReadersInv, client = "batch", ReadHeader, UNCHANGED <<client, sourceVars>>
    PROVE  ReadersInv'
<1>0. /\ GitType /\ ObjectsInv /\ SourceIdle /\ BatchType /\ HashInv
  BY BatchFacts
<1>1. /\ pc = "header" /\ pc' = "body"
      /\ UNCHANGED <<objects, git, reaped, stdin, asking, reading, reply, trouble,
                     index, awaited, output, raising>>
  BY DEF ReadHeader, GitRest
<1>2. PICK i \in DOMAIN objects :
          /\ Takes(Unit("header", i)) /\ remaining' = Consumed(i)
          /\ body' = [blob |-> objects[i].kind = "blob", units |-> <<>>]
  BY DEF ReadHeader
<1>3. stdout # <<>> /\ Head(stdout) = Unit("header", i) /\ stdout' = Tail(stdout)
  BY <1>2 DEF Takes
<1>4. /\ Asked \in DOMAIN objects /\ awaited = <<Asked>> /\ Working /\ ~raising
      /\ objects[Asked].size \in Nat
  BY <1>1, AskedFacts
<1>5. /\ stdin = <<>> /\ Pending(Asked, 0)
      /\ ~HasBody(Asked) => Head(stdout) = Unit(objects[Asked].kind, Asked)
      /\ HasBody(Asked) => Head(stdout) = Unit("header", Asked)
  BY <1>1, <1>3, HeaderFacts
<1>6. HasBody(Asked) /\ i = Asked
  BY <1>3, <1>5, UnitFacts DEF HasBody
<1>7. PICK a : a = Asked
  OBVIOUS
<1>taken. Pending(a, 0 + 1)'
  <2>1. a \in DOMAIN objects /\ 0 \in Nat /\ Pending(a, 0)
    BY <1>4, <1>5, <1>7
  <2>2. UNCHANGED <<objects, reply>>
    BY <1>1
  <2> QED BY <1>0, <1>3, <2>1, <2>2, PendingTaken
<1>8. Asked' = Asked /\ remaining' = objects[Asked].size
  BY <1>1, <1>2, <1>6 DEF Asked, Consumed
<1>9. GitType'
  BY <1>0, <1>1 DEF GitType
<1>10. ObjectsInv'
  BY <1>0, <1>1, <1>3, TailFacts, SameReplies DEF ObjectsInv
<1>11. BatchType'
  BY <1>0, <1>1 DEF BatchType
<1>12. HashInv'
  BY <1>0, <1>1, SameReplies DEF HashInv
<1>13. BodyInv'
  <2>1. 1 + objects[Asked].size - remaining' = 0 + 1 /\ remaining' \in 0..objects[Asked].size
    BY <1>4, <1>8
  <2>2. Pending(Asked, 1 + objects[Asked].size - remaining)'
    <3>1. Asked' = a /\ (1 + objects[Asked].size - remaining)' = 0 + 1
      BY <1>1, <1>7, <1>8, <2>1
    <3> QED BY <1>taken, <3>1 DEF Pending
  <2>3. /\ body'.blob = (objects[Asked].kind = "blob")
        /\ body' = [blob |-> body'.blob, units |-> body'.units]
        /\ body'.units = <<>>
    BY <1>2, <1>6
  <2>4. [n \in 1..(objects[Asked].size - remaining') |-> Unit("body", Asked)] = <<>>
    BY <1>4, <1>8
  <2>5. Working' /\ HasBody(Asked)'
    BY <1>1, <1>4, <1>6, <1>8 DEF Working, HasBody
  <2> QED BY <1>1, <1>4, <1>5, <1>8, <2>1, <2>2, <2>3, <2>4, <2>5 DEF BodyInv, Unit
<1>14. AskInv' /\ HeaderInv' /\ EndInv'
  BY <1>1 DEF AskInv, HeaderInv, EndInv
<1> QED BY <1>0, <1>9, <1>10, <1>11, <1>12, <1>13, <1>14, BatchHolds

\* What is to be read of a body is where the invariant says.
LEMMA BodyFacts ==
    ASSUME ReadersInv, client = "batch", pc = "body"
    PROVE  /\ ObjectsInv /\ Asked \in DOMAIN objects /\ HasBody(Asked) /\ stdin = <<>>
           /\ objects[Asked].size \in Nat /\ remaining \in Nat
           /\ remaining <= objects[Asked].size
           /\ Pending(Asked, 1 + objects[Asked].size - remaining)
           /\ stdout # <<>> => Head(stdout) = Reply(Asked)[(1 + objects[Asked].size - remaining) + 1]
           /\ body.blob = (objects[Asked].kind = "blob")
           /\ body = [blob |-> body.blob, units |-> body.units]
           /\ body.blob => body.units = [n \in 1..(objects[Asked].size - remaining)
                                           |-> Unit("body", Asked)]
<1>1. BodyInv /\ ObjectsInv /\ objects[Asked].size \in Nat
  BY BatchFacts, AskedFacts
<1>2. /\ Asked \in DOMAIN objects /\ HasBody(Asked) /\ stdin = <<>>
      /\ remaining \in Nat /\ remaining <= objects[Asked].size
      /\ Pending(Asked, 1 + objects[Asked].size - remaining)
  BY <1>1 DEF BodyInv
<1>3. ASSUME stdout # <<>>
      PROVE  Head(stdout) = Reply(Asked)[(1 + objects[Asked].size - remaining) + 1]
  <2>1. stdout \in Seq(AnyUnit) /\ Len(stdout) >= 1 /\ Len(stdout) \in Nat
        /\ Head(stdout) = stdout[1]
    BY <1>1, <1>3, TailFacts DEF ObjectsInv
  <2> QED BY <1>2, <2>1 DEF Pending
<1> QED BY <1>1, <1>2, <1>3 DEF BodyInv

LEMMA OneMore ==
    ASSUME NEW m \in Nat, NEW u, NEW s, s = [n \in 1..m |-> u]
    PROVE  Append(s, u) = [n \in 1..(m + 1) |-> u]
<1>1. s \in Seq({u}) /\ Len(s) = m
  OBVIOUS
<1>2. /\ Append(s, u) \in Seq({u}) /\ Len(Append(s, u)) = m + 1
  BY <1>1
<1>3. \A n \in 1..(m + 1) : Append(s, u)[n] = u
  BY <1>2
<1> QED BY <1>2, <1>3

LEMMA ReadBodyStep ==
    ASSUME ReadersInv, client = "batch", ReadBody, UNCHANGED <<client, sourceVars>>
    PROVE  ReadersInv'
<1>0. /\ GitType /\ ObjectsInv /\ SourceIdle /\ BatchType /\ HashInv
  BY BatchFacts
<1>1. /\ pc = "body" /\ remaining > 0 /\ stdout # <<>> /\ remaining' = remaining - 1
      /\ body' = IF body.blob THEN [body EXCEPT !.units = Append(@, Head(stdout))] ELSE body
      /\ stdout' = Tail(stdout)
      /\ UNCHANGED <<objects, git, reaped, stdin, asking, reading, reply, trouble,
                     pc, broken, index, awaited, output, raising>>
  BY DEF ReadBody, GitRest
<1>2. awaited = <<Asked>> /\ Working /\ ~raising
  BY <1>1, AskedFacts
<1> DEFINE z == objects[Asked].size
           c == 1 + z - remaining
<1>3. /\ Asked \in DOMAIN objects /\ HasBody(Asked) /\ stdin = <<>>
      /\ z \in Nat /\ remaining \in Nat /\ remaining <= z
      /\ Pending(Asked, c) /\ Head(stdout) = Reply(Asked)[c + 1]
      /\ body.blob = (objects[Asked].kind = "blob")
      /\ body = [blob |-> body.blob, units |-> body.units]
      /\ body.blob => body.units = [n \in 1..(z - remaining) |-> Unit("body", Asked)]
  BY <1>1, BodyFacts
<1>4. c \in Nat /\ c \in 1..z /\ z - remaining \in Nat /\ z - remaining + 1 = z - remaining'
  BY <1>1, <1>3
<1>5. Head(stdout) = Unit("body", Asked)
  BY <1>0, <1>3, <1>4, ReplyFacts
<1>6. PICK a, d : a = Asked /\ d = c
  OBVIOUS
<1>7. Pending(a, d + 1)'
  <2>1. a \in DOMAIN objects /\ d \in Nat /\ Pending(a, d)
    BY <1>3, <1>4, <1>6
  <2>2. UNCHANGED <<objects, reply>> /\ stdout' = Tail(stdout)
    BY <1>1
  <2> QED BY <1>0, <1>1, <2>1, <2>2, PendingTaken
<1>8. Asked' = a /\ Asked' = Asked
  BY <1>1, <1>6 DEF Asked
<1>9. Pending(Asked, 1 + objects[Asked].size - remaining)'
  <2>1. (1 + objects[Asked].size - remaining)' = d + 1
    BY <1>1, <1>3, <1>4, <1>6, <1>8
  <2> QED BY <1>7, <1>8, <2>1 DEF Pending
<1>10. GitType'
  BY <1>0, <1>1 DEF GitType
<1>11. ObjectsInv'
  BY <1>0, <1>1, TailFacts, SameReplies DEF ObjectsInv
<1>12. BatchType' /\ HashInv'
  BY <1>0, <1>1, SameReplies DEF HashInv, BatchType
<1>13. /\ body'.blob = (objects[Asked].kind = "blob")
       /\ body' = [blob |-> body'.blob, units |-> body'.units]
       /\ body'.blob => body'.units = [n \in 1..(z - remaining') |-> Unit("body", Asked)]
  <2>1. CASE ~body.blob
    BY <1>1, <1>3, <2>1
  <2>2. CASE body.blob
    <3>1. body' = [blob |-> body.blob, units |-> Append(body.units, Unit("body", Asked))]
      BY <1>1, <1>3, <1>5, <2>2
    <3>2. Append(body.units, Unit("body", Asked))
             = [n \in 1..(z - remaining + 1) |-> Unit("body", Asked)]
      <4>1. PICK m, u, s : m = z - remaining /\ u = Unit("body", Asked) /\ s = body.units
        OBVIOUS
      <4>2. m \in Nat /\ s = [n \in 1..m |-> u]
        BY <1>3, <1>4, <2>2, <4>1
      <4>3. Append(s, u) = [n \in 1..(m + 1) |-> u]
        BY <4>2, OneMore
      <4> QED BY <4>1, <4>3
    <3>3. body'.blob = body.blob
          /\ body'.units = [n \in 1..(z - remaining') |-> Unit("body", Asked)]
      BY <1>4, <3>1, <3>2
    <3> QED BY <1>3, <3>1, <3>3
  <2> QED BY <2>1, <2>2
<1>14. BodyInv'
  <2>1. remaining' \in 0..z
    BY <1>1, <1>3
  <2>2. Working' /\ HasBody(Asked)' /\ ~raising'
    BY <1>1, <1>2, <1>3, <1>8 DEF Working, HasBody
  <2> QED BY <1>1, <1>2, <1>3, <1>8, <1>9, <1>13, <2>1, <2>2 DEF BodyInv, Unit
<1>15. AskInv' /\ HeaderInv' /\ EndInv'
  BY <1>1 DEF AskInv, HeaderInv, EndInv
<1> QED BY <1>0, <1>10, <1>11, <1>12, <1>14, <1>15, BatchHolds

LEMMA ReadEndStep ==
    ASSUME ReadersInv, client = "batch", ReadEnd, UNCHANGED <<client, sourceVars>>
    PROVE  ReadersInv'
<1>1. /\ pc = "body" /\ remaining = 0 /\ stdout # <<>> /\ stdout' = Tail(stdout)
      /\ Answered(IF body.blob THEN Hash(body.units) ELSE NoBlob)
      /\ GitRest /\ UNCHANGED <<index, raising, objects, reply>>
  BY DEF ReadEnd, Terminated, GitRest
<1> DEFINE z == objects[Asked].size
<1>2. /\ ObjectsInv /\ Asked \in DOMAIN objects /\ HasBody(Asked) /\ stdin = <<>>
      /\ z \in Nat /\ Pending(Asked, 1 + z - remaining)
      /\ body.blob = (objects[Asked].kind = "blob")
      /\ body.blob => body.units = [n \in 1..(z - remaining) |-> Unit("body", Asked)]
  BY <1>1, BodyFacts
<1>3. 1 + z - remaining = 1 + z /\ z - remaining = z /\ 1 + z \in Nat
  BY <1>1, <1>2
<1>4. Pending(Asked, 1 + z) /\ Len(Reply(Asked)) = (1 + z) + 1
  BY <1>2, <1>3, ReplyFacts
<1>5. stdout' = <<>> /\ reply' = <<>>
  BY <1>1, <1>2, <1>3, <1>4, PendingTaken
<1>6. (IF body.blob THEN Hash(body.units) ELSE NoBlob) = Right(Asked)
  <2>1. Bodies(Asked) = [n \in 1..z |-> Unit("body", Asked)]
    BY DEF Bodies
  <2> QED BY <1>2, <1>3, <2>1 DEF Right
<1> QED BY <1>1, <1>2, <1>5, <1>6, AnsweredStep

LEMMA ReadFailsStep ==
    ASSUME ReadersInv, client = "batch", ReadFails, UNCHANGED <<client, sourceVars>>
    PROVE  ReadersInv'
<1>1. /\ pc \in {"header", "body"} /\ Raise
      /\ UNCHANGED <<objects, git, reaped, stdin, asking, stdout, reading, reply, trouble,
                     index, output>>
  BY DEF ReadFails, gitVars
<1>2. /\ GitType /\ ObjectsInv /\ Working /\ Asked \in DOMAIN objects
  BY <1>1, BatchFacts, AskedFacts
<1>3. CASE AtEnd
  BY <1>1, <1>2, <1>3, GiveUp DEF AtEnd, Gone, Working, GitType
<1>4. CASE pc = "header" /\ stdout # <<>> /\ Head(stdout).what \in {"body", "end"}
  <2>1. /\ ~HasBody(Asked) => Head(stdout) = Unit(objects[Asked].kind, Asked)
        /\ HasBody(Asked) => Head(stdout) = Unit("header", Asked)
    BY <1>4, HeaderFacts
  <2> QED BY <1>4, <2>1, UnitFacts DEF HasBody
<1>5. CASE pc = "body" /\ remaining = 0 /\ stdout # <<>> /\ Head(stdout).what # "end"
  <2> DEFINE z == objects[Asked].size
  <2>1. /\ HasBody(Asked) /\ z \in Nat /\ Head(stdout) = Reply(Asked)[(1 + z - remaining) + 1]
    BY <1>5, BodyFacts
  <2>2. (1 + z - remaining) + 1 = z + 2
    BY <1>5, <2>1
  <2>3. Head(stdout) = Unit("end", Asked)
    BY <1>2, <2>1, <2>2, ReplyFacts
  <2> QED BY <1>5, <2>3, UnitFacts
<1> QED BY <1>1, <1>3, <1>4, <1>5 DEF ReadFails

LEMMA CloseInputStep ==
    ASSUME ReadersInv, client = "batch", CloseInput, UNCHANGED <<client, sourceVars>>
    PROVE  ReadersInv'
<1>0. /\ GitType /\ ObjectsInv /\ SourceIdle /\ BatchType /\ AskInv /\ HashInv
      /\ Len(objects) \in Nat /\ index \in Nat /\ index <= Len(objects) + 1
  BY BatchFacts
<1>1. /\ pc = "ask" /\ ~(index <= Len(objects)) /\ asking' = FALSE /\ pc' = "wait"
      /\ UNCHANGED <<objects, git, reaped, stdin, stdout, reading, reply, trouble,
                     index, output, raising>>
  BY DEF CloseInput, More
<1>2. Working /\ ~raising /\ Quiet
  BY <1>0, <1>1 DEF AskInv
<1>3. index = Len(objects) + 1
  BY <1>0, <1>1
<1>4. GitType' /\ ObjectsInv' /\ BatchType'
  BY <1>0, <1>1, SameObjects DEF GitType, BatchType
<1>5. HashInv'
  BY <1>0, <1>1, <1>2, SameHashes DEF HashInv
<1>6. EndInv'
  BY <1>1, <1>2, <1>3 DEF EndInv, Quiet, Working
<1>7. AskInv' /\ HeaderInv' /\ BodyInv'
  BY <1>1 DEF AskInv, HeaderInv, BodyInv
<1> QED BY <1>0, <1>4, <1>5, <1>6, <1>7, BatchHolds

LEMMA WaitGitStep ==
    ASSUME ReadersInv, client = "batch", WaitGit, UNCHANGED <<client, sourceVars>>
    PROVE  ReadersInv'
<1>0. /\ GitType /\ ObjectsInv /\ SourceIdle /\ BatchType /\ EndInv /\ HashInv
  BY BatchFacts
<1>1. /\ pc = "wait" /\ Gone /\ pc' = "cleanup" /\ reaped' = TRUE
      /\ raising' = (git = "nonzero")
      /\ UNCHANGED <<objects, git, stdin, asking, stdout, reading, reply, trouble,
                     index, output>>
  BY DEF WaitGit
<1>2. ~raising /\ index = Len(objects) + 1 /\ git # "none" /\ (git = "nonzero" => trouble)
  BY <1>0, <1>1 DEF EndInv
<1>3. GitType' /\ ObjectsInv' /\ BatchType'
  BY <1>0, <1>1, SameObjects DEF GitType, BatchType
<1>4. HashInv'
  BY <1>0, <1>1, <1>2, SameHashes DEF HashInv
<1>5. EndInv'
  BY <1>1, <1>2 DEF EndInv
<1>6. AskInv' /\ HeaderInv' /\ BodyInv'
  BY <1>1 DEF AskInv, HeaderInv, BodyInv
<1> QED BY <1>0, <1>3, <1>4, <1>5, <1>6, BatchHolds

LEMMA WaitTimesOutStep ==
    ASSUME ReadersInv, client = "batch", WaitTimesOut, UNCHANGED <<client, sourceVars>>
    PROVE  ReadersInv'
<1>1. EndInv
  BY BatchFacts
<1> QED BY <1>1, GiveUp DEF WaitTimesOut, EndInv

LEMMA CleanUpStep ==
    ASSUME ReadersInv, client = "batch", CleanUp, UNCHANGED <<client, sourceVars>>
    PROVE  ReadersInv'
<1>0. /\ GitType /\ ObjectsInv /\ SourceIdle /\ BatchType /\ EndInv /\ HashInv
  BY BatchFacts
<1>1. /\ pc = "cleanup" /\ asking' = FALSE /\ reading' = FALSE /\ reaped' = TRUE
      /\ git' = (IF git \in {"live", "stalled"} THEN "nonzero" ELSE git)
      /\ pc' = IF raising THEN "raised" ELSE "returned"
      /\ UNCHANGED <<objects, stdin, stdout, reply, trouble, index, output, raising>>
  BY DEF CleanUp, Stop, Kill
<1>2. git # "none" /\ (raising => trouble) /\ (~raising => index = Len(objects) + 1)
  BY <1>0, <1>1 DEF EndInv
<1>3. GitType' /\ Gone'
  BY <1>0, <1>1, <1>2 DEF GitType, Gone
<1>4. ObjectsInv' /\ BatchType'
  BY <1>0, <1>1, SameObjects DEF BatchType
<1>5. HashInv'
  <2>1. CASE raising
    BY <1>1, <2>1 DEF HashInv
  <2>2. CASE ~raising
    BY <1>0, <1>1, <2>2, SameHashes DEF HashInv
  <2> QED BY <2>1, <2>2
<1>6. EndInv'
  BY <1>1, <1>2, <1>3 DEF EndInv
<1>7. AskInv' /\ HeaderInv' /\ BodyInv'
  BY <1>1 DEF AskInv, HeaderInv, BodyInv
<1> QED BY <1>0, <1>3, <1>4, <1>5, <1>6, <1>7, BatchHolds

LEMMA BatchStepInv ==
    ASSUME ReadersInv, client = "batch", BatchNext, UNCHANGED <<client, sourceVars>>
    PROVE  ReadersInv'
  BY SpawnStep, UnresolvedStep, AskStep, AskFailsStep, NoObjectStep,
     ReadHeaderStep,
     ReadBodyStep, ReadEndStep, ReadFailsStep, CloseInputStep, WaitGitStep,
     WaitTimesOutStep, CleanUpStep
  DEF BatchNext, BatchStep

-----------------------------------------------------------------------------
(***************************************************************************)
(* Git, as far as the hashes are concerned.                                *)
(***************************************************************************)
\* A head that was read leaves numbers and units what they are.
LEMMA GitKeepsTypes ==
    ASSUME GitType, ObjectsInv, GitWorks \/ GitFails
    PROVE  GitType' /\ ObjectsInv' /\ UNCHANGED objects
<1>1. UNCHANGED <<objects, asking, reading, reaped>>
  BY DEF GitWorks, GitReads, GitWrites, GitEnds, GitFails
<1>2. /\ stdin \in Seq(DOMAIN objects) /\ stdout \in Seq(AnyUnit) /\ reply \in Seq(AnyUnit)
  BY DEF ObjectsInv
<1>3. CASE GitReads
  <2>1. /\ stdin # <<>> /\ reply' = Reply(Head(stdin)) /\ stdin' = Tail(stdin)
        /\ UNCHANGED <<git, stdout, trouble>>
    BY <1>3 DEF GitReads
  <2>2. Head(stdin) \in DOMAIN objects /\ stdin' \in Seq(DOMAIN objects)
    BY <1>2, <2>1, TailFacts
  <2>3. reply' \in Seq(AnyUnit)
    BY <2>1, <2>2, ReplyFacts
  <2> QED BY <1>1, <1>2, <2>1, <2>2, <2>3, SameReplies DEF GitType, ObjectsInv
<1>4. CASE GitWrites
  <2>1. /\ reply # <<>> /\ stdout' = Append(stdout, Head(reply)) /\ reply' = Tail(reply)
        /\ UNCHANGED <<git, stdin, trouble>>
    BY <1>4 DEF GitWrites
  <2>2. Head(reply) \in AnyUnit /\ reply' \in Seq(AnyUnit)
    BY <1>2, <2>1, TailFacts
  <2>3. stdout' \in Seq(AnyUnit)
    BY <1>2, <2>1, <2>2, AppendFacts
  <2> QED BY <1>1, <1>2, <2>1, <2>2, <2>3, SameReplies DEF GitType, ObjectsInv
<1>5. CASE GitEnds \/ GitFails
  <2>1. UNCHANGED <<stdin, stdout, reply>> /\ git' \in {"zero", "nonzero", "stalled"}
        /\ trouble' \in BOOLEAN
    BY <1>5 DEF GitEnds, GitFails, GitType
  <2>2. ObjectsInv'
    BY <1>1, <2>1, SameObjects
  <2> QED BY <1>1, <2>1, <2>2 DEF GitType
<1> QED BY <1>3, <1>4, <1>5 DEF GitWorks

LEMMA BatchGitInv ==
    ASSUME ReadersInv, client = "batch", GitWorks \/ GitFails,
           UNCHANGED <<client, batchVars, sourceVars>>
    PROVE  ReadersInv'
<1>0. /\ GitType /\ ObjectsInv /\ SourceIdle /\ BatchType
      /\ AskInv /\ HeaderInv /\ BodyInv /\ EndInv /\ HashInv
  BY BatchFacts
<1>1. UNCHANGED <<objects, reaped, asking, reading, pc, index, awaited, remaining, body,
                  output, raising>> /\ git = "live"
  BY DEF GitWorks, GitReads, GitWrites, GitEnds, GitFails, batchVars
<1>2. GitType' /\ ObjectsInv'
  BY <1>0, GitKeepsTypes
<1>3. BatchType' /\ HashInv'
  BY <1>0, <1>1, SameReplies DEF BatchType, HashInv
<1>4. Asked' = Asked
  BY <1>1 DEF Asked
<1>5. asking = TRUE => (Working => Working')
  BY <1>0, <1>1 DEF Working, GitWorks, GitReads, GitWrites, GitEnds, GitFails
<1>6. trouble => trouble'
  BY DEF GitWorks, GitReads, GitWrites, GitEnds, GitFails
<1>7. AskInv'
  <2> SUFFICES ASSUME pc = "ask" PROVE AskInv'
    BY <1>1 DEF AskInv
  <2>1. Working /\ ~raising /\ awaited = <<>> /\ Quiet
    BY <1>0 DEF AskInv
  <2>2. Working'
    BY <1>5, <2>1 DEF Working
  <2>3. Quiet'
    BY <2>1 DEF Quiet, GitWorks, GitReads, GitWrites, GitEnds, GitFails
  <2> QED BY <1>1, <2>1, <2>2, <2>3 DEF AskInv
<1>8. HeaderInv'
  <2> SUFFICES ASSUME pc = "header" PROVE HeaderInv'
    BY <1>1 DEF HeaderInv
  <2>1. /\ Working /\ ~raising /\ Asked \in DOMAIN objects /\ awaited = <<Asked>>
        /\ \/ stdin = <<Asked>> /\ stdout = <<>> /\ reply = <<>>
           \/ stdin = <<>> /\ Pending(Asked, 0)
    BY <1>0 DEF HeaderInv
  <2>2. Working'
    BY <1>5, <2>1 DEF Working
  <2>3. PICK a : a = Asked
    OBVIOUS
  <2>4. \/ stdin' = <<a>> /\ stdout' = <<>> /\ reply' = <<>>
        \/ stdin' = <<>> /\ Pending(a, 0)'
    <3>1. CASE GitReads
      <4>1. stdin # <<>> /\ stdin = <<a>> /\ stdout = <<>>
        BY <2>1, <2>3, <3>1 DEF GitReads
      <4>2. stdin' = <<>> /\ stdout' = <<>> /\ reply' = Reply(a)
        BY <3>1, <4>1 DEF GitReads
      <4>3. Reply(a)' = Reply(a) /\ Len(Reply(a)) \in Nat
        BY <1>0, <1>1, <2>1, <2>3, SameReplies, ReplyFacts
      <4>4. Pending(a, 0)'
        BY <4>2, <4>3 DEF Pending
      <4> QED BY <4>2, <4>4
    <3>2. CASE GitWrites
      <4>1. reply # <<>> /\ stdin' = stdin
        BY <3>2 DEF GitWrites
      <4>2. stdin = <<>> /\ Pending(a, 0) /\ a \in DOMAIN objects /\ 0 \in Nat
        BY <2>1, <2>3, <4>1
      <4>3. Pending(a, 0)'
        BY <1>0, <3>2, <4>2, PendingWrites
      <4> QED BY <4>1, <4>2, <4>3
    <3>3. CASE GitEnds \/ GitFails
      <4>1. UNCHANGED <<stdin, stdout, reply>>
        BY <3>3 DEF GitEnds, GitFails
      <4>2. Pending(a, 0) => Pending(a, 0)'
        BY <1>1, <4>1, SameReplies DEF Pending
      <4> QED BY <2>1, <2>3, <4>1, <4>2
    <3> QED BY <3>1, <3>2, <3>3 DEF GitWorks
  <2>5. Asked' = a
    BY <1>4, <2>3
  <2>6. \/ stdin' = <<Asked'>> /\ stdout' = <<>> /\ reply' = <<>>
        \/ stdin' = <<>> /\ Pending(Asked, 0)'
    BY <2>4, <2>5 DEF Pending
  <2> QED BY <1>1, <1>4, <2>1, <2>2, <2>6 DEF HeaderInv
<1>9. BodyInv'
  <2> SUFFICES ASSUME pc = "body" PROVE BodyInv'
    BY <1>1 DEF BodyInv
  <2>1. /\ Working /\ ~raising /\ Asked \in DOMAIN objects /\ awaited = <<Asked>>
        /\ stdin = <<>> /\ HasBody(Asked) /\ remaining \in 0..objects[Asked].size
        /\ Pending(Asked, 1 + objects[Asked].size - remaining)
        /\ body.blob = (objects[Asked].kind = "blob")
        /\ body = [blob |-> body.blob, units |-> body.units]
        /\ body.blob => body.units = [n \in 1..(objects[Asked].size - remaining)
                                        |-> Unit("body", Asked)]
    BY <1>0 DEF BodyInv
  <2>2. Working'
    BY <1>5, <2>1 DEF Working
  <2>3. PICK a, c : a = Asked /\ c = 1 + objects[Asked].size - remaining
    OBVIOUS
  <2>4. a \in DOMAIN objects /\ c \in Nat /\ Pending(a, c)
    BY <1>0, <2>1, <2>3, ObjectFacts
  <2>5. Pending(a, c)' /\ stdin' = <<>>
    <3>1. CASE GitReads
      BY <2>1, <3>1 DEF GitReads
    <3>2. CASE GitWrites
      BY <1>0, <2>1, <2>4, <3>2, PendingWrites DEF GitWrites
    <3>3. CASE GitEnds \/ GitFails
      BY <1>1, <2>1, <2>4, <3>3, SameReplies DEF Pending, GitEnds, GitFails
    <3> QED BY <3>1, <3>2, <3>3 DEF GitWorks
  <2>6. Pending(Asked, 1 + objects[Asked].size - remaining)'
    <3>1. Asked' = a /\ (1 + objects[Asked].size - remaining)' = c
      BY <1>1, <1>4, <2>3
    <3> QED BY <2>5, <3>1 DEF Pending
  <2> QED BY <1>1, <1>4, <2>1, <2>2, <2>5, <2>6, SameReplies DEF BodyInv, Unit
<1>10. EndInv'
  <2>1. pc # "returned" /\ pc # "raised"
    BY <1>0, <1>1 DEF EndInv, Gone
  <2>2. pc = "wait" => Quiet' /\ (git' \in {"stalled", "nonzero"} => trouble') /\ git' # "none"
    BY <1>0, <1>1 DEF EndInv, Quiet, GitWorks, GitReads, GitWrites, GitEnds,
       GitFails
  <2>3. git' # "none"
    BY <1>1 DEF GitWorks, GitReads, GitWrites, GitEnds, GitFails
  <2> QED BY <1>0, <1>1, <1>6, <2>1, <2>2, <2>3 DEF EndInv
<1> QED BY <1>0, <1>2, <1>3, <1>7, <1>8, <1>9, <1>10, BatchHolds

-----------------------------------------------------------------------------
(***************************************************************************)
(* Totals.  What a recursive function computes is shown by way of the       *)
(* least number for which it does not.                                     *)
(***************************************************************************)
LEMMA Least ==
    ASSUME NEW T \in SUBSET Nat, T # {}
    PROVE  \E x \in T : \A y \in T : x <= y
<1>1. PICK x \in T : \A y \in T : ~(<<y, x>> \in OpToRel(<, Nat))
  BY NatLessThanWellFounded, WFMin
<1>2. \A y \in T : ~(y < x)
  BY <1>1 DEF OpToRel
<1> QED BY <1>2

AddsUp(s, f, n) ==
    /\ s \in [0..n -> Nat] /\ s[0] = 0
    /\ \A k \in 1..n : s[k] = s[k - 1] + f[k]

LEMMA TotalsExist ==
    ASSUME NEW f \in Seq(Nat), NEW n \in 0..Len(f)
    PROVE  \E s : AddsUp(s, f, n)
<1> DEFINE T == {k \in 0..Len(f) : ~ \E s : AddsUp(s, f, k)}
<1> SUFFICES ASSUME T # {} PROVE FALSE
  OBVIOUS
<1>0. Len(f) \in Nat /\ T \in SUBSET Nat
  OBVIOUS
<1>1. PICK x \in T : \A y \in T : x <= y
  <2> HIDE DEF T
  <2> QED BY <1>0, Least
<1>2. x \in 0..Len(f) /\ ~ \E s : AddsUp(s, f, x)
  BY <1>1
<1>3. CASE x = 0
  <2>1. AddsUp([k \in 0..0 |-> 0], f, 0)
    BY DEF AddsUp
  <2> QED BY <1>2, <1>3, <2>1
<1>4. CASE x # 0
  <2>1. x - 1 \in 0..Len(f) /\ x - 1 \notin T
    <3>1. x - 1 \in 0..Len(f) /\ ~(x <= x - 1)
      BY <1>0, <1>2, <1>4
    <3> HIDE DEF T
    <3> QED BY <1>1, <3>1
  <2>2. PICK s : AddsUp(s, f, x - 1)
    BY <2>1
  <2> DEFINE t == [k \in 0..x |-> IF k = x THEN s[x - 1] + f[x] ELSE s[k]]
  <2>3. f[x] \in Nat /\ s[x - 1] \in Nat
    BY <1>0, <1>2, <1>4, <2>2 DEF AddsUp
  <2>4. t \in [0..x -> Nat] /\ t[0] = 0
    BY <1>2, <1>4, <2>2, <2>3 DEF AddsUp
  <2>5. ASSUME NEW k \in 1..x PROVE t[k] = t[k - 1] + f[k]
    <3>1. CASE k = x
      BY <1>2, <1>4, <2>2, <3>1 DEF AddsUp
    <3>2. CASE k # x
      <4>1. k \in 1..(x - 1) /\ k - 1 \in 0..x /\ k - 1 # x /\ k \in 0..x
        BY <1>2, <3>2
      <4>2. s[k] = s[k - 1] + f[k]
        BY <2>2, <4>1 DEF AddsUp
      <4> QED BY <3>2, <4>1, <4>2
    <3> QED BY <3>1, <3>2
  <2>6. AddsUp(t, f, x)
    <3> HIDE DEF t
    <3> QED BY <2>4, <2>5 DEF AddsUp
  <2> QED BY <1>2, <2>6
<1> QED BY <1>3, <1>4

LEMMA TotalsAddUp ==
    ASSUME NEW f \in Seq(Nat) PROVE AddsUp(Totals(f), f, Len(f))
<1>0. Len(f) \in Nat
  OBVIOUS
<1>1. PICK s : AddsUp(s, f, Len(f))
  BY <1>0, TotalsExist
<1>2. s = [k \in 0..Len(f) |-> IF k = 0 THEN 0 ELSE s[k - 1] + f[k]]
  BY <1>0, <1>1 DEF AddsUp
<1> DEFINE t == Totals(f)
<1>3. t = [k \in 0..Len(f) |-> IF k = 0 THEN 0 ELSE t[k - 1] + f[k]]
  BY <1>2 DEF Totals
<1> HIDE DEF t
<1>4. \A k \in 0..Len(f) : t[k] = s[k]
  <2> DEFINE T == {k \in 0..Len(f) : t[k] # s[k]}
  <2> SUFFICES ASSUME T # {} PROVE FALSE
    OBVIOUS
  <2>0. T \in SUBSET Nat
    BY <1>0
  <2>1. PICK x \in T : \A y \in T : x <= y
    <3> HIDE DEF T
    <3> QED BY <2>0, Least
  <2>2. x \in 0..Len(f) /\ t[x] # s[x]
    BY <2>1
  <2>3. CASE x = 0
    BY <1>0, <1>1, <1>3, <2>2, <2>3 DEF AddsUp
  <2>4. CASE x # 0
    <3>1. x - 1 \in 0..Len(f) /\ ~(x <= x - 1) /\ x \in 1..Len(f)
      BY <1>0, <2>2, <2>4
    <3>2. x - 1 \notin T
      <4> HIDE DEF T
      <4> QED BY <2>1, <3>1
    <3>3. t[x - 1] = s[x - 1]
      BY <3>1, <3>2
    <3>4. t[x] = t[x - 1] + f[x]
      BY <1>3, <2>2, <2>4
    <3>5. s[x] = s[x - 1] + f[x]
      BY <1>1, <3>1 DEF AddsUp
    <3> QED BY <2>2, <3>3, <3>4, <3>5
  <2> QED BY <2>3, <2>4
<1>5. t = s
  BY <1>1, <1>3, <1>4 DEF AddsUp
<1> QED BY <1>1, <1>5 DEF t

\* Totals only grow.
LEMMA TotalsGrow ==
    ASSUME NEW n \in Nat, NEW f, \A k \in 1..n : f[k] \in Nat, NEW s, AddsUp(s, f, n),
           NEW k \in 0..n, NEW m \in k..n
    PROVE  s[k] <= s[m]
<1> DEFINE T == {i \in k..n : ~(s[k] <= s[i])}
<1> SUFFICES ASSUME T # {} PROVE FALSE
  OBVIOUS
<1>0. T \in SUBSET Nat
  OBVIOUS
<1>1. PICK x \in T : \A y \in T : x <= y
  <2> HIDE DEF T
  <2> QED BY <1>0, Least
<1>2. x \in k..n /\ ~(s[k] <= s[x]) /\ \A i \in 0..n : s[i] \in Nat
  BY <1>1 DEF AddsUp
<1>3. x # k
  BY <1>2
<1>4. x - 1 \in k..n /\ x \in 1..n /\ ~(x <= x - 1)
  BY <1>2, <1>3
<1>5. x - 1 \notin T
  <2> HIDE DEF T
  <2> QED BY <1>1, <1>4
<1>6. s[k] <= s[x - 1]
  BY <1>4, <1>5
<1>7. s[x] = s[x - 1] + f[x]
  BY <1>4 DEF AddsUp
<1> QED BY <1>2, <1>4, <1>6, <1>7

-----------------------------------------------------------------------------
(***************************************************************************)
(* What is known throughout a materialisation.                             *)
(***************************************************************************)
LEMMA SourceFacts ==
    ASSUME ReadersInv, client = "sources"
    PROVE  /\ GitType /\ ObjectsInv /\ BatchIdle /\ SourceType /\ FilesInv /\ StageInv
           /\ DataInv
  BY DEF ReadersInv, SourceInv

LEMMA WantedFacts ==
    ASSUME ObjectsInv, SourceType
    PROVE  /\ Wanted \in Seq(Nat) /\ Len(Wanted) \in Nat /\ DOMAIN Wanted = 1..Len(Wanted)
           /\ \A k \in 1..Len(Wanted) :
                 Wanted[k] \in DOMAIN objects /\ claimed[Wanted[k]] \in Nat
           /\ \A k \in 1..Len(Wanted) : Wanted[k] \in RequestsOf(pin)
           /\ RequestsOf(pin) = {Wanted[k] : k \in DOMAIN Wanted}
<1>1. pins[pin] \in Seq(Nat) /\ pin \in DOMAIN pins
  BY DEF SourceType
<1>2. RequestsOf(pin) = {Wanted[k] : k \in DOMAIN Wanted} /\ Wanted \in Seq(Nat)
  BY <1>1 DEF RequestsOf, Wanted
<1>3. RequestsOf(pin) \subseteq DOMAIN objects
  BY <1>1 DEF SourceType
<1>4. Len(Wanted) \in Nat /\ DOMAIN Wanted = 1..Len(Wanted)
  BY <1>2
<1>5. \A k \in 1..Len(Wanted) : Wanted[k] \in RequestsOf(pin)
  BY <1>2, <1>4
<1> QED BY <1>2, <1>3, <1>4, <1>5 DEF SourceType

LEMMA EndFacts ==
    ASSUME ObjectsInv, SourceType
    PROVE  /\ End(0) = 0
           /\ \A k \in 0..Len(Wanted) : End(k) \in Nat
           /\ \A k \in 1..Len(Wanted) : End(k) = End(k - 1) + claimed[Wanted[k]] + 2
           /\ \A m \in 0..Len(Wanted) : \A k \in 0..m : End(k) <= End(m)
           /\ Budget \in Nat /\ End(Len(Wanted)) <= Budget
<1> DEFINE f == [k \in DOMAIN Wanted |-> claimed[Wanted[k]]]
<1>1. /\ Len(Wanted) \in Nat /\ DOMAIN Wanted = 1..Len(Wanted)
      /\ \A k \in 1..Len(Wanted) : claimed[Wanted[k]] \in Nat
  BY WantedFacts
<1>2. f \in Seq(Nat) /\ Len(f) = Len(Wanted)
      /\ \A k \in 1..Len(Wanted) : f[k] = claimed[Wanted[k]]
  BY <1>1
<1>3. AddsUp(Claims, f, Len(Wanted))
  <2>1. AddsUp(Totals(f), f, Len(f))
    BY <1>2, TotalsAddUp
  <2> QED BY <1>2, <2>1 DEF Claims
<1>4. \A m \in 0..Len(Wanted) : \A k \in 0..m : Claims[k] <= Claims[m]
  <2> TAKE m \in 0..Len(Wanted)
  <2> TAKE k \in 0..m
  <2>1. k \in 0..Len(Wanted) /\ m \in k..Len(Wanted)
    BY <1>1
  <2>2. PICK g, s, n : g = f /\ s = Claims /\ n = Len(Wanted)
    OBVIOUS
  <2>3. /\ n \in Nat /\ AddsUp(s, g, n) /\ k \in 0..n /\ m \in k..n
        /\ \A i \in 1..n : g[i] \in Nat
    BY <1>1, <1>2, <1>3, <2>1, <2>2
  <2>4. s[k] <= s[m]
    BY ONLY <2>3, TotalsGrow
  <2> QED BY <2>2, <2>4
<1> HIDE DEF f
<1>5. /\ \A k \in 0..Len(Wanted) : Claims[k] \in Nat
      /\ Claims[0] = 0
      /\ \A k \in 1..Len(Wanted) : Claims[k] = Claims[k - 1] + claimed[Wanted[k]]
  BY <1>2, <1>3 DEF AddsUp
<1>6. End(0) = 0 /\ \A k \in 0..Len(Wanted) : End(k) \in Nat
  BY <1>5 DEF End
<1>7. ASSUME NEW k \in 1..Len(Wanted)
      PROVE  End(k) = End(k - 1) + claimed[Wanted[k]] + 2
  <2>1. Claims[k] = Claims[k - 1] + claimed[Wanted[k]] /\ claimed[Wanted[k]] \in Nat
        /\ Claims[k - 1] \in Nat
    BY <1>1, <1>5
  <2> QED BY <2>1 DEF End
<1>8. ASSUME NEW m \in 0..Len(Wanted), NEW k \in 0..m PROVE End(k) <= End(m)
  <2>1. Claims[k] <= Claims[m] /\ Claims[k] \in Nat /\ Claims[m] \in Nat
    BY <1>1, <1>4, <1>5
  <2> QED BY <1>1, <2>1 DEF End
<1>9. Budget \in Nat /\ End(Len(Wanted)) <= Budget
  <2>1. Claims[Len(Wanted)] \in Nat
    BY <1>1, <1>5
  <2>2. Slack * Len(Wanted) \in Nat /\ 2 * Len(Wanted) <= Slack * Len(Wanted)
    <3>1. PICK n, z : n = Len(Wanted) /\ z = Slack
      OBVIOUS
    <3>2. n \in Nat /\ z \in Nat /\ z >= 2
      BY <1>1, <3>1, SlackAssumption
    <3>3. z * n \in Nat /\ 2 * n <= z * n
      BY ONLY <3>2
    <3> QED BY <3>1, <3>3
  <2> QED BY <1>1, <2>1, <2>2 DEF Budget, End
<1> QED BY <1>6, <1>7, <1>8, <1>9

LEMMA SameEnds ==
    ASSUME UNCHANGED <<pins, pin, claimed>>
    PROVE  /\ Wanted' = Wanted /\ Claims' = Claims /\ \A k : End(k)' = End(k)
           /\ \A p : RequestsOf(p)' = RequestsOf(p)
  BY DEF Wanted, Claims, End, RequestsOf

LEMMA SourceHolds ==
    ASSUME client' = "sources", BatchIdle, UNCHANGED batchVars,
           GitType', ObjectsInv', SourceType', FilesInv', StageInv', DataInv'
    PROVE  ReadersInv'
<1>1. BatchIdle'
  BY DEF BatchIdle, batchVars
<1> QED BY <1>1 DEF ReadersInv, BatchInv, SourceInv

\* What a step leaves alone.
LEMMA SameSource ==
    ASSUME SourceType,
           UNCHANGED <<objects, pins, pin, claimed>>,
           step' \in {"spawn", "wait", "join", "cut", "discard", "returned", "raised"},
           writer' \in {"write", "done"}, reader' \in {"read", "done"},
           sent' \in Nat, cut' \in Nat, data' \in Seq(AnyUnit),
           failed' \in BOOLEAN, staged' \in BOOLEAN
    PROVE  SourceType'
  BY SameReplies, SameEnds DEF SourceType

LEMMA SameListed ==
    ASSUME UNCHANGED <<objects, claimed>>
    PROVE  \A i : Listed(i)' <=> Listed(i)
  BY DEF Listed

LEMMA SameFiles ==
    ASSUME FilesInv, UNCHANGED <<objects, pins, pin, claimed, files, cut, step>>
    PROVE  FilesInv'
  BY SameEnds, SameListed DEF FilesInv

\* With files left alone, a step to a later stage of the same pin.
LEMMA LaterFiles ==
    ASSUME FilesInv, UNCHANGED <<objects, pins, pin, claimed, files, cut>>,
           \/ step = "wait" /\ step' = "join"
           \/ step = "join" /\ step' = "cut" /\ Len(Wanted) \in Nat
           \/ step' \in {"discard", "raised"}
    PROVE  FilesInv'
<1>1. /\ Wanted' = Wanted /\ (\A p : RequestsOf(p)' = RequestsOf(p))
      /\ \A i : Listed(i)' <=> Listed(i)
  BY SameEnds, SameListed
<1>2. /\ \A i \in files' : i \in DOMAIN objects' /\ Listed(i)'
  BY <1>1 DEF FilesInv
<1>3. CASE step = "wait" /\ step' = "join"
  BY <1>1, <1>2, <1>3 DEF FilesInv
<1>4. CASE step = "join" /\ step' = "cut" /\ Len(Wanted) \in Nat
  <2>1. cut = 0 /\ \A p \in 1..(pin - 1) : RequestsOf(p) \subseteq files
    BY <1>4 DEF FilesInv
  <2>2. cut' <= Len(Wanted)' /\ \A k \in 1..cut' : Wanted'[k] \in files'
    BY <1>1, <1>4, <2>1
  <2> QED BY <1>1, <1>2, <1>4, <2>1, <2>2 DEF FilesInv
<1>5. CASE step' \in {"discard", "raised"}
  BY <1>2, <1>5 DEF FilesInv
<1> QED BY <1>3, <1>4, <1>5

LEMMA SameHonest ==
    ASSUME UNCHANGED <<objects, claimed>>, trouble => trouble'
    PROVE  Honest' => Honest
  BY SameListed DEF Honest

\* Trouble excuses everything.
LEMMA TroubleData == ASSUME trouble' PROVE DataInv'
  BY DEF DataInv, Honest

\* At the stages after the threads the data stay as they are.
LEMMA SameData ==
    ASSUME DataInv, UNCHANGED <<objects, pins, pin, claimed, data>>, trouble => trouble',
           step \notin {"wait", "join"},
           \/ step' = step /\ cut' = cut
           \/ step' \in {"spawn", "returned"} /\ step \notin {"discard", "raised"}
    PROVE  DataInv'
<1> SUFFICES ASSUME Honest' PROVE DataInv'
  BY DEF DataInv
<1>1. Honest
  BY SameHonest
<1>2. /\ Wanted' = Wanted /\ (\A k : End(k)' = End(k)) /\ \A i : Reply(i)' = Reply(i)
  BY SameEnds, SameReplies
<1>3. CASE step' = step /\ cut' = cut
  BY <1>1, <1>2, <1>3 DEF DataInv
<1>4. CASE step' \in {"spawn", "returned"} /\ step \notin {"discard", "raised"}
  BY <1>4 DEF DataInv
<1> QED BY <1>3, <1>4

LEMMA SourceSpawnsStep ==
    ASSUME ReadersInv, client = "sources", SourceSpawns, UNCHANGED <<client, batchVars>>
    PROVE  ReadersInv'
<1>0. /\ GitType /\ ObjectsInv /\ BatchIdle /\ SourceType /\ FilesInv /\ StageInv /\ DataInv
  BY SourceFacts
<1>1. /\ step = "spawn" /\ step' = "wait"
      /\ git' = "live" /\ reaped' = FALSE /\ stdin' = <<>> /\ asking' = TRUE
      /\ stdout' = <<>> /\ reading' = TRUE /\ reply' = <<>> /\ trouble' = trouble
      /\ writer' = "write" /\ sent' = 0 /\ reader' = "read" /\ data' = <<>>
      /\ failed' = FALSE /\ cut' = 0
      /\ UNCHANGED <<objects, pins, pin, claimed, files, staged>>
  BY DEF SourceSpawns, SpawnGit
<1>2. GitType' /\ ObjectsInv'
  <2>1. GitType'
    BY <1>0, <1>1 DEF GitType
  <2>2. ObjectsInv'
    BY <1>0, <1>1, SameReplies DEF ObjectsInv
  <2> QED BY <2>1, <2>2
<1>3. SourceType'
  <2>1. staged' \in BOOLEAN /\ data' \in Seq(AnyUnit)
    BY <1>0, <1>1 DEF SourceType
  <2> QED BY <1>0, <1>1, <2>1, SameSource
<1>4. FilesInv'
  BY <1>0, <1>1, SameEnds, SameListed DEF FilesInv
<1>5. StageInv'
  BY <1>1 DEF StageInv
<1>6. DataInv'
  <2>0. Len(Wanted) \in Nat /\ End(0) = 0
    BY <1>0, WantedFacts, EndFacts
  <2>1. Wanted' = Wanted /\ \A k : End(k)' = End(k)
    BY <1>1, SameEnds
  <2>2. Len(stdin') = 0 /\ Len(stdout') = 0 /\ Len(reply') = 0 /\ Len(data') = 0
    BY <1>1
  <2>3. Begun' = 0
    <3>1. sent' = 0
      BY <1>1
    <3> QED BY <2>2, <3>1 DEF Begun
  <2>4. StreamInv'
    BY <1>1, <2>0, <2>1, <2>2, <2>3 DEF StreamInv
  <2>5. ThreadInv'
    BY <1>1 DEF ThreadInv
  <2> QED BY <1>1, <2>4, <2>5 DEF DataInv
<1> QED BY <1>0, <1>2, <1>3, <1>4, <1>5, <1>6, SourceHolds

-----------------------------------------------------------------------------
(***************************************************************************)
(* The threads.                                                            *)
(***************************************************************************)
\* What all steps of the threads have in common.
LEMMA ThreadHolds ==
    ASSUME ReadersInv, client = "sources",
           UNCHANGED <<client, batchVars, objects, pins, pin, claimed, step, cut, files,
                       staged, reaped, trouble>>,
           git' \in {"none", "live", "stalled", "zero", "nonzero"},
           Gone => Gone', git # "none" => git' # "none",
           asking' \in BOOLEAN, reading' \in BOOLEAN, failed' \in BOOLEAN,
           writer' \in {"write", "done"}, reader' \in {"read", "done"}, sent' \in Nat,
           stdin' \in Seq(DOMAIN objects), stdout' \in Seq(AnyUnit),
           reply' \in Seq(AnyUnit), data' \in Seq(AnyUnit),
           step = "cut" => reader' = "done" /\ data' = data,
           Honest /\ step \in {"wait", "join"} => StreamInv' /\ ThreadInv'
    PROVE  ReadersInv'
<1>0. /\ GitType /\ ObjectsInv /\ BatchIdle /\ SourceType /\ FilesInv /\ StageInv /\ DataInv
  BY SourceFacts
<1>1. GitType' /\ ObjectsInv'
  BY <1>0, SameReplies DEF GitType, ObjectsInv
<1>2. SourceType'
  <2>1. step' \in {"spawn", "wait", "join", "cut", "discard", "returned", "raised"}
        /\ cut' \in Nat /\ staged' \in BOOLEAN
    BY <1>0 DEF SourceType
  <2> QED BY <1>0, <2>1, SameSource
<1>3. FilesInv'
  BY <1>0, SameFiles
<1>4. StageInv'
  BY <1>0 DEF StageInv
<1>5. DataInv'
  <2>1. CASE step \in {"wait", "join"}
    <3>1. Honest' => Honest
      BY SameHonest
    <3> QED BY <2>1, <3>1 DEF DataInv
  <2>2. CASE step = "cut"
    BY <1>0, <2>2, SameData
  <2>3. CASE step \notin {"wait", "join", "cut"}
    <3>1. Honest' => Honest
      BY SameHonest
    <3> QED BY <1>0, <2>3, <3>1 DEF DataInv
  <2> QED BY <2>1, <2>2, <2>3
<1> QED BY <1>0, <1>1, <1>2, <1>3, <1>4, <1>5, SourceHolds

LEMMA ThreadFacts ==
    ASSUME ReadersInv, client = "sources"
    PROVE  /\ git \in {"none", "live", "stalled", "zero", "nonzero"}
           /\ asking \in BOOLEAN /\ reading \in BOOLEAN /\ failed \in BOOLEAN
           /\ writer \in {"write", "done"} /\ reader \in {"read", "done"} /\ sent \in Nat
           /\ stdin \in Seq(DOMAIN objects) /\ stdout \in Seq(AnyUnit)
           /\ reply \in Seq(AnyUnit) /\ data \in Seq(AnyUnit)
           /\ Len(stdin) \in Nat /\ Len(stdout) \in Nat /\ Len(reply) \in Nat
           /\ Len(data) \in Nat
           /\ step = "cut" => reader = "done"
           /\ Honest /\ step \in {"wait", "join"} => StreamInv /\ ThreadInv
  BY SourceFacts DEF GitType, ObjectsInv, SourceType, StageInv, DataInv

LEMMA WriteRequestStep ==
    ASSUME ReadersInv, client = "sources", WriteRequest, UNCHANGED <<client, batchVars>>
    PROVE  ReadersInv'
<1>0. ObjectsInv /\ SourceType
  BY SourceFacts
<1>1. /\ writer = "write" /\ sent < Len(Wanted) /\ ~Gone
      /\ stdin' = Append(stdin, Wanted[sent + 1]) /\ sent' = sent + 1
      /\ UNCHANGED <<objects, git, reaped, asking, stdout, reading, reply, trouble,
                     step, pins, pin, claimed, writer, reader, data, failed, cut,
                     files, staged>>
  BY DEF WriteRequest
<1>2. /\ sent \in Nat /\ stdin \in Seq(DOMAIN objects) /\ Len(stdin) \in Nat
      /\ Len(Wanted) \in Nat /\ Wanted[sent + 1] \in DOMAIN objects
  BY <1>0, <1>1, WantedFacts, ThreadFacts
<1>3. /\ stdin' \in Seq(DOMAIN objects) /\ Len(stdin') = Len(stdin) + 1
      /\ stdin'[Len(stdin) + 1] = Wanted[sent + 1]
      /\ \A n \in 1..Len(stdin) : stdin'[n] = stdin[n]
  BY <1>1, <1>2, AppendFacts
<1>4. /\ Wanted' = Wanted /\ (\A k : End(k)' = End(k)) /\ (\A i : Reply(i)' = Reply(i))
      /\ (\A n : Stream(n)' = Stream(n)) /\ Begun' = Begun /\ Begun = sent - Len(stdin)
  BY <1>1, <1>2, <1>3, SameEnds, SameReplies DEF Stream, Begun
<1>5. ASSUME Honest, step \in {"wait", "join"} PROVE StreamInv' /\ ThreadInv'
  <2>1. StreamInv /\ ThreadInv
    BY <1>5, ThreadFacts
  <2>2. /\ sent <= Len(Wanted) /\ Len(stdin) <= sent
        /\ \A k \in 1..Len(stdin) : stdin[k] = Wanted[Begun + k]
        /\ Len(data) + Len(stdout) + Len(reply) = End(Begun)
        /\ \A k \in 1..Begun : \A j \in 1..(claimed[Wanted[k]] + 2) :
              Stream(End(k - 1) + j) = Reply(Wanted[k])[j]
    BY <2>1 DEF StreamInv
  <2>3. ASSUME NEW k \in 1..Len(stdin') PROVE stdin'[k] = Wanted[Begun + k]
    <3>1. CASE k \in 1..Len(stdin)
      BY <1>3, <2>2, <3>1
    <3>2. CASE k = Len(stdin) + 1
      <4>1. Begun + k = sent + 1
        BY <1>2, <1>4, <3>2
      <4> QED BY <1>3, <3>2, <4>1
    <3> QED BY <1>2, <1>3, <3>1, <3>2
  <2>4. sent' <= Len(Wanted) /\ Len(stdin') <= sent'
    BY <1>1, <1>2, <1>3, <2>2
  <2>5. StreamInv'
    BY <1>1, <1>4, <2>2, <2>3, <2>4 DEF StreamInv
  <2>6. ThreadInv'
    BY <1>1, <2>1 DEF ThreadInv, Gone
  <2> QED BY <2>5, <2>6
<1>6. sent' \in Nat
  BY <1>1, <1>2
<1> QED BY <1>1, <1>3, <1>5, <1>6, ThreadFacts, ThreadHolds DEF Gone

LEMMA WriteEndsStep ==
    ASSUME ReadersInv, client = "sources", WriteEnds, UNCHANGED <<client, batchVars>>
    PROVE  ReadersInv'
<1>1. /\ writer = "write" /\ sent = Len(Wanted) /\ ~Gone
      /\ asking' = FALSE /\ writer' = "done"
      /\ UNCHANGED <<objects, git, reaped, stdin, stdout, reading, reply, trouble,
                     step, pins, pin, claimed, sent, reader, data, failed, cut,
                     files, staged>>
  BY DEF WriteEnds
<1>2. /\ Wanted' = Wanted /\ (\A k : End(k)' = End(k)) /\ (\A i : Reply(i)' = Reply(i))
      /\ (\A n : Stream(n)' = Stream(n)) /\ Begun' = Begun
  BY <1>1, SameEnds, SameReplies DEF Stream, Begun
<1>3. ASSUME Honest, step \in {"wait", "join"} PROVE StreamInv' /\ ThreadInv'
  <2>1. StreamInv /\ ThreadInv
    BY <1>3, ThreadFacts
  <2>2. StreamInv'
    BY <1>1, <1>2, <2>1 DEF StreamInv
  <2>3. ThreadInv'
    BY <1>1, <1>2, <2>1 DEF ThreadInv, Gone
  <2> QED BY <2>2, <2>3
<1> QED BY <1>1, <1>3, ThreadFacts, ThreadHolds DEF Gone

LEMMA WriteFailsStep ==
    ASSUME ReadersInv, client = "sources", WriteFails, UNCHANGED <<client, batchVars>>
    PROVE  ReadersInv'
<1>1. /\ writer = "write" /\ Gone /\ writer' = "done" /\ failed' = TRUE
      /\ UNCHANGED <<objects, git, reaped, stdin, asking, stdout, reading, reply, trouble,
                     step, pins, pin, claimed, sent, reader, data, cut, files, staged>>
  BY DEF WriteFails, gitVars
<1>2. ASSUME Honest, step \in {"wait", "join"} PROVE FALSE
  <2>1. ThreadInv
    BY <1>2, ThreadFacts
  <2> QED BY <1>1, <2>1 DEF ThreadInv, Gone
<1> QED BY <1>1, <1>2, ThreadFacts, ThreadHolds DEF Gone

\* Units move along the stream; what they are does not change.
LEMMA StreamMoves ==
    ASSUME ObjectsInv, SourceType, StreamInv, UNCHANGED <<objects, pins, pin, claimed>>,
           UNCHANGED <<sent, stdin>>,
           Len(data') + Len(stdout') + Len(reply') = Len(data) + Len(stdout) + Len(reply),
           \A n \in 1..(Len(data) + Len(stdout) + Len(reply)) : Stream(n)' = Stream(n)
    PROVE  StreamInv'
<1>1. /\ sent <= Len(Wanted) /\ Len(stdin) <= sent
      /\ \A k \in 1..Len(stdin) : stdin[k] = Wanted[Begun + k]
      /\ Len(data) + Len(stdout) + Len(reply) = End(Begun)
      /\ \A k \in 1..Begun : \A j \in 1..(claimed[Wanted[k]] + 2) :
            Stream(End(k - 1) + j) = Reply(Wanted[k])[j]
  BY DEF StreamInv
<1>2. /\ Wanted' = Wanted /\ (\A k : End(k)' = End(k)) /\ (\A i : Reply(i)' = Reply(i))
      /\ Begun' = Begun
  BY SameEnds, SameReplies DEF Begun
<1>3. Begun \in 0..Len(Wanted) /\ Len(Wanted) \in Nat
  <2>1. sent \in Nat /\ Len(stdin) \in Nat /\ Len(Wanted) \in Nat
    BY WantedFacts DEF SourceType, ObjectsInv
  <2> QED BY <1>1, <2>1 DEF Begun
<1>4. ASSUME NEW k \in 1..Begun, NEW j \in 1..(claimed[Wanted[k]] + 2)
      PROVE  Stream(End(k - 1) + j)' = Reply(Wanted[k])[j]
  <2>1. k \in 1..Len(Wanted) /\ k - 1 \in 0..Len(Wanted) /\ k \in 0..Begun
        /\ k \in 0..Len(Wanted)
    BY <1>3
  <2>2. /\ claimed[Wanted[k]] \in Nat /\ End(k - 1) \in Nat /\ End(k) \in Nat
        /\ End(Begun) \in Nat
        /\ End(k) = End(k - 1) + claimed[Wanted[k]] + 2 /\ End(k) <= End(Begun)
    <3>1. claimed[Wanted[k]] \in Nat
      BY <2>1, WantedFacts
    <3>2. End(k - 1) \in Nat /\ End(k) \in Nat /\ End(Begun) \in Nat
      BY <1>3, <2>1, EndFacts
    <3>3. End(k) = End(k - 1) + claimed[Wanted[k]] + 2
      BY <2>1, EndFacts
    <3>4. End(k) <= End(Begun)
      BY <1>3, <2>1, EndFacts
    <3> QED BY <3>1, <3>2, <3>3, <3>4
  <2>3. PICK n : n = End(k - 1) + j
    OBVIOUS
  <2>4. n \in 1..(Len(data) + Len(stdout) + Len(reply))
    <3>1. PICK c, e, f, b : /\ c = claimed[Wanted[k]] /\ e = End(k - 1) /\ f = End(k)
                            /\ b = End(Begun)
      OBVIOUS
    <3>2. /\ c \in Nat /\ e \in Nat /\ f \in Nat /\ b \in Nat /\ j \in 1..(c + 2)
          /\ f = e + c + 2 /\ f <= b /\ n = e + j
      BY <2>2, <2>3, <3>1
    <3>3. n \in 1..b
      BY ONLY <3>2
    <3> QED BY <1>1, <3>1, <3>3
  <2>5. Stream(n)' = Stream(n)
    BY <2>4
  <2>6. (End(k - 1) + j)' = n
    BY <1>2, <2>3
  <2>7. Stream(End(k - 1) + j)' = Stream(n)'
    BY <2>6 DEF Stream
  <2> QED BY <1>1, <2>3, <2>5, <2>7
<1> QED BY <1>1, <1>2, <1>4 DEF StreamInv

LEMMA ReadUnitStep ==
    ASSUME ReadersInv, client = "sources", ReadUnit, UNCHANGED <<client, batchVars>>
    PROVE  ReadersInv'
<1>0. ObjectsInv /\ SourceType
  BY SourceFacts
<1>1. /\ reader = "read" /\ stdout # <<>> /\ stdout' = Tail(stdout)
      /\ UNCHANGED <<objects, reaped, stdin, asking, reply, trouble, step, pins, pin,
                     claimed, writer, sent, cut, files, staged>>
  BY DEF ReadUnit
<1>2. /\ Len(stdout) \in Nat /\ Len(stdout) >= 1 /\ Head(stdout) = stdout[1]
      /\ Head(stdout) \in AnyUnit
      /\ stdout' \in Seq(AnyUnit) /\ Len(stdout') = Len(stdout) - 1
      /\ \A n \in 1..(Len(stdout) - 1) : stdout'[n] = stdout[n + 1]
  BY <1>1, ThreadFacts, TailFacts
<1>3. step # "cut"
  BY <1>1, ThreadFacts
<1>4. CASE Len(data) < Budget
  <2>1. data' = Append(data, Head(stdout)) /\ UNCHANGED <<git, reading, reader, failed>>
    BY <1>4 DEF ReadUnit
  <2>2. data \in Seq(AnyUnit) /\ Len(data) \in Nat /\ Len(reply) \in Nat
    BY ThreadFacts
  <2>3. /\ data' \in Seq(AnyUnit) /\ Len(data') = Len(data) + 1
        /\ data'[Len(data) + 1] = stdout[1]
        /\ \A n \in 1..Len(data) : data'[n] = data[n]
    BY <1>2, <2>1, <2>2, AppendFacts
  <2>4. ASSUME NEW n \in 1..(Len(data) + Len(stdout) + Len(reply))
        PROVE  Stream(n)' = Stream(n)
    <3>1. CASE n <= Len(data)
      BY <2>2, <2>3, <3>1 DEF Stream
    <3>2. CASE n = Len(data) + 1
      <4>1. n - Len(data) = 1 /\ ~(n <= Len(data)) /\ n <= Len(data) + Len(stdout)
        BY <1>2, <2>2, <3>2
      <4>2. Stream(n) = stdout[1]
        BY <4>1 DEF Stream
      <4>3. Stream(n)' = data'[n]
        BY <2>2, <2>3, <3>2 DEF Stream
      <4> QED BY <2>3, <3>2, <4>2, <4>3
    <3>3. CASE n > Len(data) + 1 /\ n <= Len(data) + Len(stdout)
      <4>1. /\ ~(n <= Len(data)) /\ ~(n <= Len(data')) /\ n <= Len(data') + Len(stdout')
            /\ n - Len(data') \in 1..(Len(stdout) - 1)
            /\ (n - Len(data')) + 1 = n - Len(data)
        BY <1>2, <2>2, <2>3, <3>3
      <4>2. Stream(n) = stdout[n - Len(data)]
        BY <3>3, <4>1 DEF Stream
      <4>3. Stream(n)' = stdout'[n - Len(data')]
        BY <4>1 DEF Stream
      <4> QED BY <1>2, <4>1, <4>2, <4>3
    <3>4. CASE n > Len(data) + Len(stdout)
      <4>1. /\ ~(n <= Len(data)) /\ ~(n <= Len(data')) /\ ~(n <= Len(data') + Len(stdout'))
            /\ n - Len(data') - Len(stdout') = n - Len(data) - Len(stdout)
            /\ ~(n <= Len(data) + Len(stdout))
        BY <1>2, <2>2, <2>3, <3>4
      <4>2. Stream(n) = reply[n - Len(data) - Len(stdout)]
        BY <4>1 DEF Stream
      <4>3. Stream(n)' = reply'[n - Len(data') - Len(stdout')]
        BY <4>1 DEF Stream
      <4> QED BY <1>1, <4>1, <4>2, <4>3
    <3> QED BY <1>2, <2>2, <3>1, <3>2, <3>3, <3>4
  <2>5. ASSUME Honest, step \in {"wait", "join"} PROVE StreamInv' /\ ThreadInv'
    <3>1. StreamInv /\ ThreadInv
      BY <2>5, ThreadFacts
    <3>2. Len(data') + Len(stdout') + Len(reply') = Len(data) + Len(stdout) + Len(reply)
      BY <1>1, <1>2, <2>2, <2>3
    <3>3. StreamInv'
      BY <1>0, <1>1, <2>4, <3>1, <3>2, StreamMoves
    <3>4. ThreadInv'
      BY <1>1, <2>1, <3>1, SameEnds DEF ThreadInv
    <3> QED BY <3>3, <3>4
  <2> QED BY <1>1, <1>2, <1>3, <2>1, <2>3, <2>5, ThreadFacts, ThreadHolds DEF Gone
<1>5. CASE ~(Len(data) < Budget)
  <2>1. /\ git' = (IF git \in {"live", "stalled"} THEN "nonzero" ELSE git)
        /\ reading' = FALSE /\ reader' = "done" /\ failed' = TRUE /\ data' = data
    BY <1>5 DEF ReadUnit, Kill
  <2>2. ASSUME Honest, step \in {"wait", "join"} PROVE FALSE
    <3>1. StreamInv
      BY <2>2, ThreadFacts
    <3>2. /\ Len(data) \in Nat /\ Len(reply) \in Nat /\ sent \in Nat /\ Len(stdin) \in Nat
          /\ Len(Wanted) \in Nat
      BY <1>0, ThreadFacts, WantedFacts
    <3>3. /\ Len(data) + Len(stdout) + Len(reply) = End(Begun) /\ Begun \in 0..Len(Wanted)
      BY <3>1, <3>2 DEF StreamInv, Begun
    <3>4. /\ End(Begun) \in Nat /\ End(Begun) <= End(Len(Wanted))
          /\ End(Len(Wanted)) \in Nat /\ End(Len(Wanted)) <= Budget /\ Budget \in Nat
      BY <1>0, <3>2, <3>3, EndFacts
    <3> QED BY <1>2, <1>5, <3>2, <3>3, <3>4
  <2> QED BY <1>1, <1>2, <1>3, <2>1, <2>2, ThreadFacts, ThreadHolds DEF Gone
<1> QED BY <1>4, <1>5

LEMMA ReadEndsStep ==
    ASSUME ReadersInv, client = "sources", ReadEnds, UNCHANGED <<client, batchVars>>
    PROVE  ReadersInv'
<1>1. /\ reader = "read" /\ stdout = <<>> /\ Gone /\ reader' = "done" /\ reading' = FALSE
      /\ UNCHANGED <<objects, git, reaped, stdin, asking, stdout, reply, trouble, step,
                     pins, pin, claimed, writer, sent, data, failed, cut, files, staged>>
  BY DEF ReadEnds, AtEnd
<1>2. /\ Wanted' = Wanted /\ (\A k : End(k)' = End(k)) /\ (\A i : Reply(i)' = Reply(i))
      /\ (\A n : Stream(n)' = Stream(n)) /\ Begun' = Begun
  BY <1>1, SameEnds, SameReplies DEF Stream, Begun
<1>3. ASSUME Honest, step \in {"wait", "join"} PROVE StreamInv' /\ ThreadInv'
  <2>1. StreamInv /\ ThreadInv
    BY <1>3, ThreadFacts
  <2>2. StreamInv'
    BY <1>1, <1>2, <2>1 DEF StreamInv
  <2>3. ThreadInv'
    BY <1>1, <1>2, <2>1 DEF ThreadInv, Gone
  <2> QED BY <2>2, <2>3
<1> QED BY <1>1, <1>3, ThreadFacts, ThreadHolds DEF Gone

-----------------------------------------------------------------------------
(***************************************************************************)
(* The caller.                                                             *)
(***************************************************************************)
\* What all its steps after the spawn have in common.
LEMMA CallerHolds ==
    ASSUME ReadersInv, client = "sources",
           UNCHANGED <<client, batchVars, objects, pins, claimed, stdin, asking, stdout,
                       reading, reply, writer, sent, reader, data>>,
           git' \in {"none", "live", "stalled", "zero", "nonzero"},
           reaped' \in BOOLEAN, trouble' \in BOOLEAN, failed' \in BOOLEAN,
           staged' \in BOOLEAN, cut' \in Nat, pin' \in DOMAIN pins,
           step' \in {"spawn", "wait", "join", "cut", "discard", "returned", "raised"},
           FilesInv', StageInv', DataInv'
    PROVE  ReadersInv'
<1>0. GitType /\ ObjectsInv /\ BatchIdle /\ SourceType
  BY SourceFacts
<1>1. GitType' /\ ObjectsInv'
  <2>1. GitType'
    BY <1>0 DEF GitType
  <2>2. ObjectsInv'
    BY <1>0, SameReplies DEF ObjectsInv
  <2> QED BY <2>1, <2>2
<1>2. SourceType'
  <2>1. \A p : RequestsOf(p)' = RequestsOf(p)
    BY DEF RequestsOf
  <2> QED BY <1>0, <2>1, SameReplies DEF SourceType
<1> QED BY <1>0, <1>1, <1>2, SourceHolds

LEMMA CallerFacts ==
    ASSUME ReadersInv, client = "sources"
    PROVE  /\ git \in {"none", "live", "stalled", "zero", "nonzero"}
           /\ reaped \in BOOLEAN /\ trouble \in BOOLEAN /\ failed \in BOOLEAN
           /\ staged \in BOOLEAN /\ cut \in Nat /\ pin \in DOMAIN pins
           /\ pin \in 1..Len(pins) /\ Len(pins) \in Nat
           /\ Len(Wanted) \in Nat /\ Len(data) \in Nat
<1>1. GitType /\ ObjectsInv /\ SourceType
  BY SourceFacts
<1>2. pins \in Seq(Seq(Nat)) /\ pin \in DOMAIN pins
  BY <1>1 DEF SourceType
<1> QED BY <1>1, <1>2, WantedFacts DEF GitType, SourceType

LEMMA ExitedStep ==
    ASSUME ReadersInv, client = "sources", Exited, UNCHANGED <<client, batchVars>>
    PROVE  ReadersInv'
<1>0. FilesInv /\ StageInv /\ DataInv /\ SourceType
  BY SourceFacts
<1>1. /\ step = "wait" /\ Gone /\ reaped' = TRUE /\ step' = "join"
      /\ UNCHANGED <<objects, git, stdin, asking, stdout, reading, reply, trouble, pins,
                     pin, claimed, writer, sent, reader, data, failed, cut, files, staged>>
  BY DEF Exited, threads
<1>2. FilesInv'
  BY <1>0, <1>1, LaterFiles
<1>3. StageInv'
  BY <1>0, <1>1 DEF StageInv, Gone
<1>4. DataInv'
  <2> SUFFICES ASSUME Honest' PROVE DataInv'
    BY DEF DataInv
  <2>1. Honest
    BY <1>1, SameHonest
  <2>2. StreamInv /\ ThreadInv
    BY <1>0, <1>1, <2>1 DEF DataInv
  <2>3. /\ Wanted' = Wanted /\ (\A k : End(k)' = End(k)) /\ (\A i : Reply(i)' = Reply(i))
        /\ (\A n : Stream(n)' = Stream(n)) /\ Begun' = Begun
    BY <1>1, SameEnds, SameReplies DEF Stream, Begun
  <2>4. StreamInv'
    BY <1>1, <2>2, <2>3 DEF StreamInv
  <2>5. ThreadInv'
    BY <1>1, <2>2, <2>3 DEF ThreadInv
  <2> QED BY <1>1, <2>4, <2>5 DEF DataInv
<1> QED BY <1>1, <1>2, <1>3, <1>4, CallerHolds, CallerFacts

LEMMA DeadlineStep ==
    ASSUME ReadersInv, client = "sources", Deadline, UNCHANGED <<client, batchVars>>
    PROVE  ReadersInv'
<1>0. FilesInv /\ StageInv
  BY SourceFacts
<1>1. /\ step = "wait" /\ ~Gone
      /\ git' = (IF git \in {"live", "stalled"} THEN "nonzero" ELSE git)
      /\ reaped' = TRUE /\ failed' = TRUE /\ step' = "join" /\ trouble' = TRUE
      /\ UNCHANGED <<objects, stdin, asking, stdout, reading, reply, pins, pin, claimed,
                     writer, sent, reader, data, cut, files, staged>>
  BY DEF Deadline, Kill
<1>2. git' = "nonzero"
  <2>1. git # "none" /\ git \in {"none", "live", "stalled", "zero", "nonzero"}
    BY <1>0, <1>1, CallerFacts DEF StageInv
  <2> QED BY <1>1, <2>1 DEF Gone
<1>3. FilesInv'
  BY <1>0, <1>1, LaterFiles
<1>4. StageInv'
  BY <1>1, <1>2 DEF StageInv, Gone
<1>5. DataInv'
  BY <1>1, TroubleData
<1> QED BY <1>1, <1>2, <1>3, <1>4, <1>5, CallerHolds, CallerFacts

LEMMA JoinStep ==
    ASSUME ReadersInv, client = "sources", Join, UNCHANGED <<client, batchVars>>
    PROVE  ReadersInv'
<1>0. FilesInv /\ StageInv /\ DataInv /\ ObjectsInv /\ SourceType
  BY SourceFacts
<1>1. /\ step = "join" /\ writer = "done" /\ reader = "done"
      /\ step' = (IF failed \/ git # "zero" THEN "discard" ELSE "cut")
      /\ UNCHANGED <<objects, git, reaped, stdin, asking, stdout, reading, reply, trouble,
                     pins, pin, claimed, writer, sent, reader, data, failed, cut, files,
                     staged>>
  BY DEF Join, Joined, threads, gitVars
<1>2. FilesInv'
  BY <1>0, <1>1, CallerFacts, LaterFiles
<1>3. StageInv'
  BY <1>0, <1>1 DEF StageInv, Gone
<1>4. DataInv'
  <2> SUFFICES ASSUME Honest' PROVE DataInv'
    BY DEF DataInv
  <2>1. Honest
    BY <1>1, SameHonest
  <2>2. StreamInv /\ ThreadInv
    BY <1>0, <1>1, <2>1 DEF DataInv
  <2>3. /\ ~failed /\ git = "zero" /\ stdout = <<>> /\ stdin = <<>> /\ reply = <<>>
        /\ sent = Len(Wanted)
    BY <1>1, <2>2 DEF ThreadInv
  <2>4. step' = "cut"
    BY <1>1, <2>3
  <2>5. Len(Wanted) \in Nat /\ Len(data) \in Nat /\ Begun = Len(Wanted)
    BY <2>3, CallerFacts DEF Begun
  <2>6. Len(data) = End(Len(Wanted))
    <3>1. Len(data) + Len(stdout) + Len(reply) = End(Begun)
      BY <2>2 DEF StreamInv
    <3>2. Len(stdout) = 0 /\ Len(reply) = 0
      BY <2>3
    <3> QED BY <2>5, <3>1, <3>2
  <2>7. ASSUME NEW k \in 1..Len(Wanted), NEW j \in 1..(claimed[Wanted[k]] + 2)
        PROVE  data[End(k - 1) + j] = Reply(Wanted[k])[j]
    <3>1. Stream(End(k - 1) + j) = Reply(Wanted[k])[j]
      BY <2>2, <2>5 DEF StreamInv
    <3>2. End(k - 1) + j <= Len(data)
      <4>0. k - 1 \in 0..Len(Wanted) /\ k \in 0..Len(Wanted)
            /\ Len(Wanted) \in 0..Len(Wanted)
        BY <2>5
      <4>1. PICK c, e, f, b : /\ c = claimed[Wanted[k]] /\ e = End(k - 1) /\ f = End(k)
                              /\ b = End(Len(Wanted))
        OBVIOUS
      <4>2. c \in Nat
        BY <1>0, <4>1, WantedFacts
      <4>3. e \in Nat /\ f \in Nat /\ b \in Nat
        BY <1>0, <4>0, <4>1, EndFacts
      <4>4. f = e + c + 2
        BY <1>0, <4>1, EndFacts
      <4>5. f <= b
        BY <1>0, <4>0, <4>1, EndFacts
      <4>6. j \in 1..(c + 2)
        BY <4>1
      <4>7. e + j <= b
        BY ONLY <4>2, <4>3, <4>4, <4>5, <4>6
      <4> QED BY <2>6, <4>1, <4>7
    <3> QED BY <3>1, <3>2 DEF Stream
  <2>8. /\ Wanted' = Wanted /\ (\A k : End(k)' = End(k)) /\ (\A i : Reply(i)' = Reply(i))
    BY <1>1, SameEnds, SameReplies
  <2>9. cut <= Len(Wanted)
    BY <1>0, <1>1, <2>5 DEF FilesInv
  <2> QED BY <1>1, <2>4, <2>6, <2>7, <2>8, <2>9 DEF DataInv
<1> QED BY <1>1, <1>2, <1>3, <1>4, CallerHolds, CallerFacts

LEMMA JoinTimesOutStep ==
    ASSUME ReadersInv, client = "sources", JoinTimesOut, UNCHANGED <<client, batchVars>>
    PROVE  ReadersInv'
<1>0. FilesInv /\ StageInv
  BY SourceFacts
<1>1. /\ step = "join" /\ step' = "discard" /\ trouble' = TRUE
      /\ UNCHANGED <<objects, git, reaped, stdin, asking, stdout, reading, reply,
                     pins, pin, claimed, writer, sent, reader, data, failed, cut, files,
                     staged>>
  BY DEF JoinTimesOut, threads
<1>2. FilesInv'
  BY <1>0, <1>1, LaterFiles
<1>3. StageInv'
  BY <1>0, <1>1 DEF StageInv, Gone
<1>4. DataInv'
  BY <1>1, TroubleData
<1> QED BY <1>1, <1>2, <1>3, <1>4, CallerHolds, CallerFacts

LEMMA WriteFileFailsStep ==
    ASSUME ReadersInv, client = "sources", WriteFileFails, UNCHANGED <<client, batchVars>>
    PROVE  ReadersInv'
<1>0. FilesInv /\ StageInv
  BY SourceFacts
<1>1. /\ step = "cut" /\ step' = "discard" /\ trouble' = TRUE
      /\ UNCHANGED <<objects, git, reaped, stdin, asking, stdout, reading, reply,
                     pins, pin, claimed, writer, sent, reader, data, failed, cut, files,
                     staged>>
  BY DEF WriteFileFails, threads
<1>2. FilesInv'
  BY <1>0, <1>1, LaterFiles
<1>3. StageInv'
  BY <1>0, <1>1 DEF StageInv, Gone
<1>4. DataInv'
  BY <1>1, TroubleData
<1> QED BY <1>1, <1>2, <1>3, <1>4, CallerHolds, CallerFacts

LEMMA DiscardStep ==
    ASSUME ReadersInv, client = "sources", Discard, UNCHANGED <<client, batchVars>>
    PROVE  ReadersInv'
<1>0. FilesInv /\ StageInv /\ DataInv
  BY SourceFacts
<1>1. /\ step = "discard" /\ files' = {} /\ staged' = FALSE /\ step' = "raised"
      /\ UNCHANGED <<objects, git, reaped, stdin, asking, stdout, reading, reply, trouble,
                     pins, pin, claimed, writer, sent, reader, data, failed, cut>>
  BY DEF Discard, Removed, threads, gitVars
<1>2. FilesInv'
  BY <1>1 DEF FilesInv
<1>3. StageInv'
  BY <1>0, <1>1 DEF StageInv, Gone
<1>4. DataInv'
  <2>1. ~Honest
    BY <1>0, <1>1 DEF DataInv
  <2>2. Honest' => Honest
    BY <1>1, SameHonest
  <2> QED BY <2>1, <2>2 DEF DataInv
<1> QED BY <1>1, <1>2, <1>3, <1>4, CallerHolds, CallerFacts

\* Of an object that is not listed nothing is taken.
LEMMA CutFileStep ==
    ASSUME ReadersInv, client = "sources", CutFile, UNCHANGED <<client, batchVars>>
    PROVE  ReadersInv'
<1>0. FilesInv /\ StageInv /\ DataInv /\ ObjectsInv /\ SourceType
  BY SourceFacts
<1>1. /\ step = "cut" /\ cut < Len(Wanted) /\ Genuine(Wanted[cut + 1])
      /\ files' = files \cup {Wanted[cut + 1]} /\ cut' = cut + 1
      /\ UNCHANGED <<objects, git, reaped, stdin, asking, stdout, reading, reply, trouble,
                     step, pins, pin, claimed, writer, sent, reader, data, failed, staged>>
  BY DEF CutFile, threads, gitVars
<1>2. cut \in Nat /\ Len(Wanted) \in Nat /\ cut + 1 \in 1..Len(Wanted)
  BY <1>1, CallerFacts
<1>3. Wanted[cut + 1] \in DOMAIN objects /\ Listed(Wanted[cut + 1])
  <2>1. PICK i : i = Wanted[cut + 1]
    OBVIOUS
  <2>2. i \in DOMAIN objects
    BY <1>0, <1>2, <2>1, WantedFacts
  <2>3. objects[i].kind = "blob" /\ objects[i].size = claimed[i]
    BY <1>1, <2>1 DEF Genuine
  <2>4. objects[i] = [kind |-> objects[i].kind, size |-> objects[i].size]
    BY <1>0, <2>2, ObjectFacts
  <2> QED BY <2>1, <2>2, <2>3, <2>4 DEF Listed
<1>4. /\ Wanted' = Wanted /\ (\A k : End(k)' = End(k)) /\ (\A i : Reply(i)' = Reply(i))
      /\ (\A p : RequestsOf(p)' = RequestsOf(p)) /\ \A i : Listed(i)' <=> Listed(i)
  BY <1>1, SameEnds, SameReplies, SameListed
<1>5. FilesInv'
  <2>1. \A i \in files' : i \in DOMAIN objects' /\ Listed(i)'
    BY <1>0, <1>1, <1>3, <1>4 DEF FilesInv
  <2>2. \A p \in 1..(pin' - 1) : RequestsOf(p)' \subseteq files'
    BY <1>0, <1>1, <1>4 DEF FilesInv
  <2>3. cut' <= Len(Wanted')
    BY <1>1, <1>2, <1>4
  <2>4. \A k \in 1..cut' : Wanted'[k] \in files'
    <3>1. \A k \in 1..cut : Wanted[k] \in files
      BY <1>0, <1>1 DEF FilesInv
    <3>2. \A k \in 1..(cut + 1) : k \in 1..cut \/ k = cut + 1
      BY <1>2
    <3> QED BY <1>1, <1>4, <3>1, <3>2
  <2> QED BY <1>1, <2>1, <2>2, <2>3, <2>4 DEF FilesInv
<1>6. StageInv'
  BY <1>0, <1>1 DEF StageInv, Gone
<1>7. DataInv'
  <2> SUFFICES ASSUME Honest' PROVE DataInv'
    BY DEF DataInv
  <2>1. Honest
    BY <1>1, SameHonest
  <2>2. cut' <= Len(Wanted)
    BY <1>1, <1>2
  <2> QED BY <1>0, <1>1, <1>4, <2>1, <2>2 DEF DataInv
<1>8. cut' \in Nat
  BY <1>1, <1>2
<1> QED BY <1>1, <1>5, <1>6, <1>7, <1>8, CallerHolds, CallerFacts

\* When everyone is honest, the data are the replies one after another.
LEMMA CutsAreGenuine ==
    ASSUME ObjectsInv, SourceType, Honest, data \in Seq(AnyUnit),
           Len(data) = End(Len(Wanted)),
           \A k \in 1..Len(Wanted) : \A j \in 1..(claimed[Wanted[k]] + 2) :
              data[End(k - 1) + j] = Reply(Wanted[k])[j],
           cut \in Nat, cut < Len(Wanted)
    PROVE  Genuine(Wanted[cut + 1])
<1>0. Len(Wanted) \in Nat /\ cut + 1 \in 1..Len(Wanted) /\ cut \in 0..Len(Wanted)
      /\ cut + 1 \in 0..Len(Wanted) /\ Len(Wanted) \in 0..Len(Wanted)
      /\ (cut + 1) - 1 = cut
  BY WantedFacts
<1>1. PICK i, c, e : i = Wanted[cut + 1] /\ c = claimed[i] /\ e = End(cut)
  OBVIOUS
<1>2. i \in DOMAIN objects /\ c \in Nat
  BY <1>0, <1>1, WantedFacts
<1>3. objects[i].kind = "blob" /\ objects[i].size = c
  BY <1>1, <1>2 DEF Honest, Listed
<1>4. Reply(i) \in Seq(AnyUnit) /\ Len(Reply(i)) = c + 2
  BY <1>2, <1>3, ReplyFacts DEF HasBody
<1>5. e \in Nat /\ e + c + 2 <= Len(data) /\ Len(data) \in Nat
  <2>1. PICK f, b : f = End(cut + 1) /\ b = End(Len(Wanted))
    OBVIOUS
  <2>2. e \in Nat /\ f \in Nat /\ b \in Nat
    BY <1>0, <1>1, <2>1, EndFacts
  <2>3. f = e + c + 2
    BY <1>0, <1>1, <2>1, EndFacts
  <2>4. f <= b
    BY <1>0, <2>1, EndFacts
  <2> QED BY <1>2, <2>1, <2>2, <2>3, <2>4
<1>6. \A j \in 1..(c + 2) : data[e + j] = Reply(i)[j]
  BY <1>0, <1>1
<1>7. SubSeq(data, e + 1, e + c + 2) = Reply(i)
  <2>1. PICK d, r : d = data /\ r = Reply(i)
    OBVIOUS
  <2>2. /\ d \in Seq(AnyUnit) /\ r \in Seq(AnyUnit) /\ Len(r) = c + 2 /\ c \in Nat
        /\ e \in Nat /\ e + c + 2 <= Len(d) /\ Len(d) \in Nat
        /\ \A j \in 1..(c + 2) : d[e + j] = r[j]
    BY <1>2, <1>4, <1>5, <1>6, <2>1
  <2> DEFINE q == SubSeq(d, e + 1, e + c + 2)
  <2>3. q \in Seq(AnyUnit)
    <3>1. \A n \in (e + 1)..(e + c + 2) : d[n] \in AnyUnit
      BY <2>2
    <3> QED BY ONLY <2>2, <3>1
  <2>4. Len(q) = c + 2 /\ \A j \in 1..(c + 2) : q[j] = d[e + j]
    BY ONLY <2>2
  <2>5. q = r
    <3> HIDE DEF q
    <3> QED BY ONLY <2>2, <2>3, <2>4
  <2> QED BY <2>1, <2>5
<1> QED BY <1>1, <1>3, <1>5, <1>7 DEF Genuine, Offset

LEMMA CutFailsStep ==
    ASSUME ReadersInv, client = "sources", CutFails, UNCHANGED <<client, batchVars>>
    PROVE  ReadersInv'
<1>0. FilesInv /\ StageInv /\ DataInv /\ ObjectsInv /\ SourceType
  BY SourceFacts
<1>1. /\ step = "cut" /\ step' = "discard"
      /\ \/ cut < Len(Wanted) /\ ~Genuine(Wanted[cut + 1])
         \/ cut = Len(Wanted) /\ Offset # Len(data)
      /\ UNCHANGED <<objects, git, reaped, stdin, asking, stdout, reading, reply, trouble,
                     pins, pin, claimed, writer, sent, reader, data, failed, cut, files,
                     staged>>
  BY DEF CutFails, threads, gitVars
<1>2. FilesInv'
  BY <1>0, <1>1, LaterFiles
<1>3. StageInv'
  BY <1>0, <1>1 DEF StageInv, Gone
<1>4. DataInv'
  <2> SUFFICES ASSUME Honest' PROVE FALSE
    BY DEF DataInv
  <2>1. Honest
    BY <1>1, SameHonest
  <2>2. /\ Len(data) = End(Len(Wanted))
        /\ \A k \in 1..Len(Wanted) : \A j \in 1..(claimed[Wanted[k]] + 2) :
              data[End(k - 1) + j] = Reply(Wanted[k])[j]
    BY <1>0, <1>1, <2>1 DEF DataInv
  <2>3. CASE cut < Len(Wanted) /\ ~Genuine(Wanted[cut + 1])
    <3>1. data \in Seq(AnyUnit) /\ cut \in Nat
      BY <1>0 DEF SourceType
    <3> QED BY <1>0, <2>1, <2>2, <2>3, <3>1, CutsAreGenuine
  <2>4. CASE cut = Len(Wanted) /\ Offset # Len(data)
    BY <2>2, <2>4 DEF Offset
  <2> QED BY <1>1, <2>3, <2>4
<1> QED BY <1>1, <1>2, <1>3, <1>4, CallerHolds, CallerFacts

LEMMA PinDoneStep ==
    ASSUME ReadersInv, client = "sources", PinDone, UNCHANGED <<client, batchVars>>
    PROVE  ReadersInv'
<1>0. FilesInv /\ StageInv /\ DataInv /\ ObjectsInv /\ SourceType
  BY SourceFacts
<1>1. /\ step = "cut" /\ cut = Len(Wanted)
      /\ UNCHANGED <<objects, git, reaped, stdin, asking, stdout, reading, reply, trouble,
                     pins, claimed, writer, sent, reader, data, failed, cut, files,
                     staged>>
  BY DEF PinDone, threads, gitVars
<1>2. pin \in 1..Len(pins) /\ Len(pins) \in Nat /\ pins \in Seq(Seq(Nat))
      /\ DOMAIN pins = 1..Len(pins)
  BY <1>0, CallerFacts DEF SourceType
<1>3. RequestsOf(pin) \subseteq files
  <2>1. RequestsOf(pin) = {Wanted[k] : k \in DOMAIN Wanted} /\ DOMAIN Wanted = 1..Len(Wanted)
    BY <1>0, WantedFacts
  <2>2. \A k \in 1..cut : Wanted[k] \in files
    BY <1>0, <1>1 DEF FilesInv
  <2> QED BY <1>1, <2>1, <2>2
<1>4. \A p \in 1..pin : RequestsOf(p) \subseteq files
  <2>1. \A p \in 1..(pin - 1) : RequestsOf(p) \subseteq files
    BY <1>0, <1>1 DEF FilesInv
  <2>2. \A p \in 1..pin : p \in 1..(pin - 1) \/ p = pin
    BY <1>2
  <2> QED BY <1>3, <2>1, <2>2
<1>5. (\A p : RequestsOf(p)' = RequestsOf(p)) /\ \A i : Listed(i)' <=> Listed(i)
  BY <1>1, SameListed DEF RequestsOf
<1>6. \A i \in files' : i \in DOMAIN objects' /\ Listed(i)'
  BY <1>0, <1>1, <1>5 DEF FilesInv
<1>7. CASE pin < Len(pins)
  <2>1. pin' = pin + 1 /\ step' = "spawn"
    BY <1>7 DEF PinDone
  <2>2. pin' \in DOMAIN pins /\ pin' - 1 = pin
    BY <1>2, <1>7, <2>1
  <2>3. FilesInv'
    BY <1>4, <1>5, <1>6, <1>1, <2>1, <2>2 DEF FilesInv
  <2>4. StageInv'
    BY <2>1 DEF StageInv
  <2>5. DataInv'
    BY <2>1 DEF DataInv
  <2> QED BY <1>1, <2>1, <2>2, <2>3, <2>4, <2>5, CallerHolds, CallerFacts
<1>8. CASE ~(pin < Len(pins))
  <2>1. pin' = pin /\ step' = "returned"
    BY <1>8 DEF PinDone
  <2>2. pin = Len(pins)
    <3>1. pin \in 1..Len(pins) /\ Len(pins) \in Nat
      BY CallerFacts
    <3> QED BY ONLY <1>8, <3>1
  <2>3. DOMAIN objects \subseteq files
    <3>1. DOMAIN objects = UNION {RequestsOf(p) : p \in DOMAIN pins}
      BY <1>0 DEF SourceType
    <3> QED BY <1>2, <1>4, <2>2, <3>1
  <2>4. files \subseteq DOMAIN objects
    BY <1>0 DEF FilesInv
  <2>5. FilesInv'
    BY <1>1, <1>6, <2>1, <2>3, <2>4 DEF FilesInv
  <2>6. StageInv'
    BY <1>0, <1>1, <2>1 DEF StageInv, Gone
  <2>7. DataInv'
    BY <2>1 DEF DataInv
  <2> QED BY <1>1, <1>2, <2>1, <2>5, <2>6, <2>7, CallerHolds, CallerFacts
<1> QED BY <1>7, <1>8

LEMMA SourceStepInv ==
    ASSUME ReadersInv, client = "sources", SourceNext, UNCHANGED <<client, batchVars>>
    PROVE  ReadersInv'
<1>1. CASE SourceSpawns BY <1>1, SourceSpawnsStep
<1>2. CASE WriteRequest BY <1>2, WriteRequestStep
<1>3. CASE WriteEnds BY <1>3, WriteEndsStep
<1>4. CASE WriteFails BY <1>4, WriteFailsStep
<1>5. CASE ReadUnit BY <1>5, ReadUnitStep
<1>6. CASE ReadEnds BY <1>6, ReadEndsStep
<1>7. CASE Exited BY <1>7, ExitedStep
<1>8. CASE Join BY <1>8, JoinStep
<1>9. CASE CutFile BY <1>9, CutFileStep
<1>10. CASE CutFails BY <1>10, CutFailsStep
<1>11. CASE PinDone BY <1>11, PinDoneStep
<1>12. CASE Discard BY <1>12, DiscardStep
<1>13. CASE Deadline BY <1>13, DeadlineStep
<1>14. CASE JoinTimesOut BY <1>14, JoinTimesOutStep
<1>15. CASE WriteFileFails BY <1>15, WriteFileFailsStep
<1> QED BY <1>1, <1>2, <1>3, <1>4, <1>5, <1>6, <1>7, <1>8, <1>9, <1>10, <1>11, <1>12,
           <1>13, <1>14, <1>15 DEF SourceNext, SourceStep, Thread

-----------------------------------------------------------------------------
\* Git reads a request: its reply is what the stream goes on with.
LEMMA StreamGoesOn ==
    ASSUME ObjectsInv, SourceType, StreamInv, GitReads,
           UNCHANGED <<pins, pin, claimed, sent, data>>, Honest
    PROVE  StreamInv'
<1>1. /\ reply = <<>> /\ stdin # <<>> /\ reply' = Reply(Head(stdin)) /\ stdin' = Tail(stdin)
      /\ UNCHANGED <<objects, stdout>>
  BY DEF GitReads
<1>2. /\ sent <= Len(Wanted) /\ Len(stdin) <= sent
      /\ \A k \in 1..Len(stdin) : stdin[k] = Wanted[Begun + k]
      /\ Len(data) + Len(stdout) + Len(reply) = End(Begun)
      /\ \A k \in 1..Begun : \A j \in 1..(claimed[Wanted[k]] + 2) :
            Stream(End(k - 1) + j) = Reply(Wanted[k])[j]
  BY DEF StreamInv
<1>3. /\ sent \in Nat /\ Len(Wanted) \in Nat /\ Len(data) \in Nat /\ Len(stdout) \in Nat
      /\ stdin \in Seq(DOMAIN objects) /\ Len(reply) = 0
  BY <1>1, WantedFacts DEF SourceType, ObjectsInv
<1>4. /\ Len(stdin) \in Nat /\ Len(stdin) >= 1 /\ Head(stdin) = stdin[1]
      /\ Head(stdin) \in DOMAIN objects /\ Len(stdin') = Len(stdin) - 1
      /\ \A n \in 1..(Len(stdin) - 1) : stdin'[n] = stdin[n + 1]
  BY <1>1, <1>3, TailFacts
<1>5. PICK b, i, c : b = Begun /\ i = Head(stdin) /\ c = claimed[i]
  OBVIOUS
<1>6. /\ b \in Nat /\ b + 1 \in 1..Len(Wanted) /\ b = sent - Len(stdin)
      /\ b \in 0..Len(Wanted) /\ (b + 1) - 1 = b
  BY <1>2, <1>3, <1>4, <1>5 DEF Begun
<1>7. i = Wanted[b + 1] /\ i \in DOMAIN objects
  <2>1. 1 \in 1..Len(stdin)
    BY <1>4
  <2> QED BY <1>2, <1>4, <1>5, <2>1
<1>8. /\ c \in Nat /\ Reply(i) \in Seq(AnyUnit) /\ Len(Reply(i)) = c + 2
  <2>1. objects[i] = [kind |-> "blob", size |-> c]
    BY <1>5, <1>7 DEF Honest, Listed
  <2>2. c \in Nat
    BY <1>5, <1>7 DEF SourceType
  <2> QED BY <1>7, <2>1, <2>2, ReplyFacts DEF HasBody
<1>9. /\ Wanted' = Wanted /\ (\A k : End(k)' = End(k)) /\ (\A n : Reply(n)' = Reply(n))
  BY <1>1, SameEnds, SameReplies
<1>10. Begun' = b + 1
  <2>1. sent' - Len(stdin') = b + 1
    BY <1>3, <1>4, <1>6
  <2> QED BY <2>1 DEF Begun
<1>11. sent' <= Len(Wanted) /\ Len(stdin') <= sent'
  BY <1>2, <1>3, <1>4
<1>12. ASSUME NEW k \in 1..Len(stdin') PROVE stdin'[k] = Wanted[(b + 1) + k]
  <2>1. /\ k \in 1..(Len(stdin) - 1) /\ k + 1 \in 1..Len(stdin)
        /\ b + (k + 1) = (b + 1) + k
    BY <1>4, <1>6
  <2>2. stdin'[k] = stdin[k + 1] /\ stdin[k + 1] = Wanted[b + (k + 1)]
    BY <1>2, <1>4, <1>5, <2>1
  <2> QED BY <2>1, <2>2
<1>13. PICK e, f : e = End(b) /\ f = End(b + 1)
  OBVIOUS
<1>14. e \in Nat /\ f = e + c + 2 /\ e = Len(data) + Len(stdout)
  <2>1. e \in Nat
    BY <1>6, <1>13, EndFacts
  <2>2. f = e + c + 2
    BY <1>5, <1>6, <1>7, <1>13, EndFacts
  <2>3. e = Len(data) + Len(stdout)
    BY <1>2, <1>3, <1>5, <1>13
  <2> QED BY <2>1, <2>2, <2>3
<1>15. Len(data') + Len(stdout') + Len(reply') = f
  <2>1. data' = data /\ stdout' = stdout /\ Len(reply') = c + 2
    BY <1>1, <1>5, <1>8
  <2> QED BY <1>3, <1>8, <1>14, <2>1
<1>16. ASSUME NEW k \in 1..(b + 1), NEW j \in 1..(claimed[Wanted[k]] + 2)
       PROVE  Stream(End(k - 1) + j)' = Reply(Wanted[k])[j]
  <2>1. CASE k \in 1..b
    <3>1. Stream(End(k - 1) + j) = Reply(Wanted[k])[j]
      BY <1>2, <1>5, <2>1
    <3>2. End(k - 1) + j <= Len(data) + Len(stdout)
      <4>0. k - 1 \in 0..Len(Wanted) /\ k \in 0..Len(Wanted) /\ k \in 1..Len(Wanted)
            /\ k \in 0..b
        <5>1. Len(Wanted) \in Nat
          BY <1>3
        <5>2. b \in Nat /\ b + 1 \in 1..Len(Wanted)
          BY <1>6
        <5> QED BY ONLY <2>1, <5>1, <5>2
      <4>1. PICK cc, ee, ff : /\ cc = claimed[Wanted[k]] /\ ee = End(k - 1) /\ ff = End(k)
        OBVIOUS
      <4>2. cc \in Nat
        BY <4>0, <4>1, WantedFacts
      <4>3. ee \in Nat /\ ff \in Nat
        BY <4>0, <4>1, EndFacts
      <4>4. ff = ee + cc + 2
        BY <4>0, <4>1, EndFacts
      <4>5. ff <= e
        BY <1>6, <1>13, <4>0, <4>1, EndFacts
      <4>6. j \in 1..(cc + 2)
        BY <4>1
      <4>7. ee + j <= e
        BY ONLY <1>14, <4>2, <4>3, <4>4, <4>5, <4>6
      <4> QED BY <1>14, <4>1, <4>7
    <3>3. PICK n : n = End(k - 1) + j
      OBVIOUS
    <3>4. Stream(n)' = Stream(n)
      BY <1>1, <3>2, <3>3 DEF Stream
    <3>5. (End(k - 1) + j)' = n
      BY <1>9, <3>3
    <3>6. Stream(End(k - 1) + j)' = Stream(n)'
      BY <3>5 DEF Stream
    <3> QED BY <3>1, <3>3, <3>4, <3>6
  <2>2. CASE k = b + 1
    <3>1. PICK n : n = e + j
      OBVIOUS
    <3>2. (End(k - 1) + j)' = n
      BY <1>6, <1>9, <1>13, <2>2, <3>1, SMTT(60)
    <3>3. Stream(End(k - 1) + j)' = Stream(n)'
      BY <3>2 DEF Stream
    <3>4. j \in 1..(c + 2)
      BY <1>5, <1>7, <2>2
    <3>5. /\ ~(n <= Len(data)) /\ ~(n <= Len(data) + Len(stdout))
          /\ n - Len(data) - Len(stdout) = j
      BY <1>3, <1>8, <1>14, <3>1, <3>4
    <3>6. Stream(n)' = reply'[j]
      <4>1. data' = data /\ stdout' = stdout
        BY <1>1
      <4> QED BY <3>5, <4>1 DEF Stream
    <3> QED BY <1>1, <1>5, <1>7, <2>2, <3>3, <3>6
  <2> QED BY <1>6, <2>1, <2>2
<1>17. StreamInv'
  <2>1. /\ \A k \in 1..Len(stdin') : stdin'[k] = Wanted'[Begun' + k]
    BY <1>9, <1>10, <1>12
  <2>2. Len(data') + Len(stdout') + Len(reply') = End(Begun)'
    <3>1. End(Begun)' = End(b + 1)'
      BY <1>10 DEF End
    <3> QED BY <1>9, <1>13, <1>15, <3>1
  <2>3. \A k \in 1..Begun' : \A j \in 1..(claimed[Wanted[k]] + 2)' :
            Stream(End(k - 1) + j)' = (Reply(Wanted[k])[j])'
    BY <1>9, <1>10, <1>16
  <2> QED BY <1>9, <1>11, <2>1, <2>2, <2>3 DEF StreamInv
<1> QED BY <1>17

LEMMA SourceGitInv ==
    ASSUME ReadersInv, client = "sources", GitWorks \/ GitFails,
           UNCHANGED <<client, batchVars, sourceVars>>
    PROVE  ReadersInv'
<1>0. /\ GitType /\ ObjectsInv /\ BatchIdle /\ SourceType /\ FilesInv /\ StageInv /\ DataInv
  BY SourceFacts
<1>1. /\ UNCHANGED <<objects, reaped, asking, reading>> /\ git = "live"
      /\ UNCHANGED <<step, pins, pin, claimed, writer, sent, reader, data, failed, cut,
                     files, staged>>
  BY DEF GitWorks, GitReads, GitWrites, GitEnds, GitFails, sourceVars
<1>2. GitType' /\ ObjectsInv'
  BY <1>0, GitKeepsTypes
<1>3. CASE GitWorks
  <2>1. /\ trouble' = trouble /\ git' # "none"
        /\ git' \in {"none", "live", "stalled", "zero", "nonzero"}
    BY <1>1, <1>3 DEF GitWorks, GitReads, GitWrites, GitEnds
  <2>2. /\ stdin' \in Seq(DOMAIN objects) /\ stdout' \in Seq(AnyUnit)
        /\ reply' \in Seq(AnyUnit)
    BY <1>1, <1>2, SameReplies DEF ObjectsInv
  <2>3. ASSUME Honest, step \in {"wait", "join"} PROVE StreamInv' /\ ThreadInv'
    <3>1. StreamInv /\ ThreadInv
      BY <2>3, ThreadFacts
    <3>2. reader # "done" /\ (writer = "done" => sent = Len(Wanted))
          /\ asking = (writer = "write") /\ ~failed
      BY <1>1, <3>1 DEF ThreadInv
    <3>3. Wanted' = Wanted
      BY <1>1, SameEnds
    <3>4. CASE GitReads
      <4>1. StreamInv'
        BY <1>0, <1>1, <2>3, <3>1, <3>4, StreamGoesOn
      <4>2. git' = "live"
        BY <1>1, <3>4 DEF GitReads
      <4> QED BY <1>1, <3>2, <3>3, <4>1, <4>2 DEF ThreadInv
    <3>5. CASE GitWrites
      <4>1. /\ reply # <<>> /\ stdout' = Append(stdout, Head(reply)) /\ reply' = Tail(reply)
            /\ stdin' = stdin /\ git' = "live"
        BY <1>1, <3>5 DEF GitWrites
      <4>2. /\ Len(data) \in Nat /\ Len(stdout) \in Nat /\ stdout \in Seq(AnyUnit)
            /\ reply \in Seq(AnyUnit)
        BY ThreadFacts
      <4>3. /\ Len(reply) \in Nat /\ Len(reply) >= 1 /\ Head(reply) = reply[1]
            /\ Head(reply) \in AnyUnit /\ Len(reply') = Len(reply) - 1
            /\ \A n \in 1..(Len(reply) - 1) : reply'[n] = reply[n + 1]
        BY <4>1, <4>2, TailFacts
      <4>4. /\ Len(stdout') = Len(stdout) + 1 /\ stdout'[Len(stdout) + 1] = reply[1]
            /\ \A n \in 1..Len(stdout) : stdout'[n] = stdout[n]
        BY <4>1, <4>2, <4>3, AppendFacts
      <4>5. ASSUME NEW n \in 1..(Len(data) + Len(stdout) + Len(reply))
            PROVE  Stream(n)' = Stream(n)
        <5>1. CASE n <= Len(data)
          BY <1>1, <5>1 DEF Stream
        <5>2. CASE n > Len(data) /\ n <= Len(data) + Len(stdout)
          <6>1. /\ ~(n <= Len(data)) /\ n <= Len(data) + Len(stdout')
                /\ n - Len(data) \in 1..Len(stdout)
            BY <4>2, <4>4, <5>2
          <6>2. Stream(n) = stdout[n - Len(data)]
            BY <5>2, <6>1 DEF Stream
          <6>3. Stream(n)' = stdout'[n - Len(data)]
            BY <1>1, <6>1 DEF Stream
          <6> QED BY <4>4, <6>1, <6>2, <6>3
        <5>3. CASE n = Len(data) + Len(stdout) + 1
          <6>1. /\ ~(n <= Len(data)) /\ ~(n <= Len(data) + Len(stdout))
                /\ n <= Len(data) + Len(stdout')
                /\ n - Len(data) = Len(stdout) + 1
                /\ n - Len(data) - Len(stdout) = 1
            BY <4>2, <4>4, <5>3
          <6>2. Stream(n) = reply[1]
            BY <6>1 DEF Stream
          <6>3. Stream(n)' = stdout'[Len(stdout) + 1]
            BY <1>1, <6>1 DEF Stream
          <6> QED BY <4>4, <6>2, <6>3
        <5>4. CASE n > Len(data) + Len(stdout) + 1
          <6>1. /\ ~(n <= Len(data)) /\ ~(n <= Len(data) + Len(stdout))
                /\ ~(n <= Len(data) + Len(stdout'))
                /\ n - Len(data) - Len(stdout') \in 1..(Len(reply) - 1)
                /\ (n - Len(data) - Len(stdout')) + 1 = n - Len(data) - Len(stdout)
            BY <4>2, <4>3, <4>4, <5>4
          <6>2. Stream(n) = reply[n - Len(data) - Len(stdout)]
            BY <6>1 DEF Stream
          <6>3. Stream(n)' = reply'[n - Len(data) - Len(stdout')]
            BY <1>1, <6>1 DEF Stream
          <6> QED BY <4>3, <6>1, <6>2, <6>3
        <5> QED BY <4>2, <5>1, <5>2, <5>3, <5>4
      <4>6. Len(data') + Len(stdout') + Len(reply') = Len(data) + Len(stdout) + Len(reply)
        <5>1. Len(data') = Len(data)
          BY <1>1
        <5> QED BY <4>2, <4>3, <4>4, <5>1
      <4>7. StreamInv'
        BY <1>0, <1>1, <3>1, <4>1, <4>5, <4>6, StreamMoves
      <4> QED BY <1>1, <3>2, <3>3, <4>1, <4>7 DEF ThreadInv
    <3>6. CASE GitEnds
      <4>1. /\ reply = <<>> /\ stdin = <<>> /\ ~asking /\ git' = "zero"
            /\ UNCHANGED <<stdin, stdout, reply>>
        BY <3>6 DEF GitEnds
      <4>2. StreamInv'
        BY <1>0, <1>1, <3>1, <4>1, StreamMoves DEF Stream
      <4>3. writer = "done"
        BY <3>2, <4>1, ThreadFacts
      <4> QED BY <1>1, <3>2, <3>3, <4>1, <4>2, <4>3 DEF ThreadInv
    <3> QED BY <1>3, <3>4, <3>5, <3>6 DEF GitWorks
  <2> QED BY <1>1, <2>1, <2>2, <2>3, ThreadFacts, ThreadHolds DEF Gone
<1>4. CASE GitFails
  <2>1. git' # "none" /\ trouble' = TRUE
    BY <1>4 DEF GitFails
  <2>2. SourceType'
    BY <1>0, <1>1, SameReplies, SameEnds DEF SourceType
  <2>3. FilesInv'
    BY <1>0, <1>1, SameFiles
  <2>4. StageInv'
    BY <1>0, <1>1, <2>1 DEF StageInv, Gone
  <2>5. DataInv'
    BY <2>1, TroubleData
  <2> QED BY <1>0, <1>2, <2>2, <2>3, <2>4, <2>5, SourceHolds
<1> QED BY <1>3, <1>4

LEMMA SameReaders == ASSUME ReadersInv, UNCHANGED vars PROVE ReadersInv'
<1>1. UNCHANGED <<client, objects, git, reaped, stdin, asking, stdout, reading, reply,
                  trouble, pc, broken, index, awaited, remaining, body, output, raising,
                  step, pins, pin, claimed, writer, sent, reader, data, failed, cut, files,
                  staged>>
  BY DEF vars, gitVars, batchVars, sourceVars
<1>2. GitType' /\ ObjectsInv' /\ client' \in {"batch", "sources"}
  BY <1>1, SameReplies DEF ReadersInv, GitType, ObjectsInv
<1>3. CASE client = "batch"
  <2>0. /\ SourceIdle /\ BatchType /\ AskInv /\ HeaderInv /\ BodyInv /\ EndInv /\ HashInv
    BY <1>3, BatchFacts
  <2>1. /\ Asked' = Asked /\ (\A i, c : Pending(i, c)' <=> Pending(i, c))
        /\ (Working' <=> Working) /\ (Quiet' <=> Quiet) /\ (Gone' <=> Gone)
    BY <1>1, SameReplies DEF Asked, Pending, Working, Quiet, Gone
  <2>2. BatchType' /\ AskInv' /\ EndInv'
    BY <1>1, <2>0, <2>1 DEF BatchType, AskInv, EndInv
  <2>3. HashInv'
    BY <1>1, <2>0, SameReplies DEF HashInv
  <2>4. HeaderInv'
    <3>1. Pending(Asked, 0) => Pending(Asked, 0)'
      BY <1>1, <2>1, SameReplies DEF Pending
    <3> QED BY <1>1, <2>0, <2>1, <3>1 DEF HeaderInv
  <2>5. BodyInv'
    <3>1. (1 + objects[Asked].size - remaining)' = 1 + objects[Asked].size - remaining
      BY <1>1, <2>1
    <3>2. Pending(Asked, 1 + objects[Asked].size - remaining)
             => Pending(Asked, 1 + objects[Asked].size - remaining)'
      BY <1>1, <2>1, <3>1, SameReplies DEF Pending
    <3>3. HasBody(Asked) => HasBody(Asked)'
      BY <1>1, <2>1 DEF HasBody
    <3> QED BY <1>1, <2>0, <2>1, <3>2, <3>3 DEF BodyInv, Unit
  <2> QED BY <1>1, <1>2, <1>3, <2>0, <2>2, <2>3, <2>4, <2>5, BatchHolds DEF sourceVars
<1>4. CASE client = "sources"
  <2>0. ObjectsInv /\ BatchIdle /\ SourceType /\ FilesInv /\ StageInv /\ DataInv
    BY <1>4, SourceFacts
  <2>1. SourceType'
    BY <1>1, <2>0, SameReplies, SameEnds DEF SourceType
  <2>2. FilesInv' /\ StageInv'
    BY <1>1, <2>0, SameFiles DEF StageInv, Gone
  <2>3. Honest' => Honest
    BY <1>1, SameHonest
  <2>4. /\ Wanted' = Wanted /\ (\A k : End(k)' = End(k)) /\ (\A n : Reply(n)' = Reply(n))
        /\ (\A n : Stream(n)' = Stream(n)) /\ Begun' = Begun
    BY <1>1, SameEnds, SameReplies DEF Stream, Begun
  <2>5. StreamInv /\ ThreadInv => StreamInv' /\ ThreadInv'
    BY <1>1, <2>4 DEF StreamInv, ThreadInv
  <2>6. DataInv'
    BY <1>1, <2>0, <2>3, <2>4, <2>5 DEF DataInv
  <2> QED BY <1>1, <1>2, <1>4, <2>0, <2>1, <2>2, <2>6, SourceHolds DEF batchVars
<1> QED BY <1>3, <1>4 DEF ReadersInv

LEMMA ReadersInit == Init => ReadersInv
<1> SUFFICES ASSUME Init PROVE ReadersInv
  OBVIOUS
<1>1. /\ git = "none" /\ reaped = TRUE /\ stdin = <<>> /\ asking = FALSE
      /\ stdout = <<>> /\ reading = FALSE /\ reply = <<>> /\ trouble = FALSE
  BY DEF Init, NoGit
<1>2. GitType
  BY <1>1 DEF GitType
<1>3. CASE client = "batch"
  <2>1. /\ objects \in UNION {[1..n -> Object] : n \in 1..MaxObjects}
        /\ BatchInit /\ SourceIdle
    BY <1>3 DEF Init
  <2>2. PICK n \in 1..MaxObjects : objects \in [1..n -> Object]
    BY <2>1
  <2>3. n \in Nat /\ objects \in Seq(Object) /\ Len(objects) = n /\ DOMAIN objects = 1..n
    BY <2>2, RequestAssumption
  <2>4. ObjectsInv
    <3>1. \A i \in DOMAIN objects : i \in Nat /\ objects[i] \in Object
      BY <2>2, <2>3
    <3>2. stdin \in Seq(DOMAIN objects) /\ stdout \in Seq(AnyUnit) /\ reply \in Seq(AnyUnit)
      BY <1>1
    <3> QED BY <3>1, <3>2 DEF ObjectsInv
  <2>5. /\ pc = "spawn" /\ index = 1 /\ awaited = <<>> /\ raising = FALSE
        /\ output = [i \in DOMAIN objects |-> Unset]
    BY <2>1 DEF BatchInit
  <2>6. BatchType
    <3>1. index \in 1..(Len(objects) + 1)
      BY <2>3, <2>5
    <3>2. output = [i \in DOMAIN objects |-> output[i]]
      BY <2>5
    <3>3. pc \in {"spawn", "ask", "header", "body", "wait", "cleanup", "returned", "raised"}
          /\ raising \in BOOLEAN
      BY <2>5
    <3> QED BY <2>3, <3>1, <3>2, <3>3 DEF BatchType
  <2>7. AskInv /\ HeaderInv /\ BodyInv /\ EndInv
    BY <2>5 DEF AskInv, HeaderInv, BodyInv, EndInv
  <2>8. HashInv
    <3>1. \A i \in 1..(index - 1) : FALSE
      BY <2>5
    <3> QED BY <2>5, <3>1 DEF HashInv
  <2> QED BY <1>2, <1>3, <2>1, <2>4, <2>6, <2>7, <2>8 DEF ReadersInv, BatchInv, SourceInv
<1>4. CASE client = "sources"
  <2>1. PICK division \in Division :
           /\ objects \in [UNION {{p[k] : k \in DOMAIN p} :
                                  p \in {division[n] : n \in DOMAIN division}} -> Object]
           /\ SourceInit(division)
    BY <1>4 DEF Init
  <2>2. BatchIdle
    BY <1>4 DEF Init
  <2>3. /\ step = "spawn" /\ pins = division /\ pin = 1
        /\ claimed \in [DOMAIN objects -> {objects[i].size : i \in DOMAIN objects}]
        /\ writer = "done" /\ sent = 0 /\ reader = "done" /\ data = <<>>
        /\ failed = FALSE /\ cut = 0 /\ files = {} /\ staged = TRUE
    BY <2>1 DEF SourceInit
  <2>4. pins \in Seq(Seq(Nat)) /\ pins # <<>>
    BY <2>1, <2>3, RequestAssumption
  <2>5. /\ Len(pins) \in Nat /\ DOMAIN pins = 1..Len(pins) /\ 1 \in DOMAIN pins
        /\ \A p \in DOMAIN pins : pins[p] \in Seq(Nat)
    BY <2>4
  <2>6. DOMAIN objects = UNION {RequestsOf(p) : p \in DOMAIN pins}
    <3>1. DOMAIN objects = UNION {{q[k] : k \in DOMAIN q} :
                                  q \in {pins[n] : n \in DOMAIN pins}}
      BY <2>1, <2>3
    <3>2. {{q[k] : k \in DOMAIN q} : q \in {pins[n] : n \in DOMAIN pins}}
             = {RequestsOf(p) : p \in DOMAIN pins}
      BY DEF RequestsOf
    <3> QED BY <3>1, <3>2
  <2>7. ASSUME NEW i \in DOMAIN objects PROVE i \in Nat /\ objects[i] \in Object
    <3>1. objects[i] \in Object
      BY <2>1
    <3>2. PICK p \in DOMAIN pins : i \in RequestsOf(p)
      BY <2>6
    <3>3. PICK k \in DOMAIN pins[p] : i = pins[p][k]
      BY <3>2 DEF RequestsOf
    <3>4. pins[p] \in Seq(Nat)
      BY <2>5
    <3> QED BY <3>1, <3>3, <3>4
  <2>8. ObjectsInv
    <3>1. stdin \in Seq(DOMAIN objects) /\ stdout \in Seq(AnyUnit) /\ reply \in Seq(AnyUnit)
      BY <1>1
    <3> QED BY <2>7, <3>1 DEF ObjectsInv
  <2>9. claimed \in [DOMAIN objects -> Nat]
    <3>1. \A i \in DOMAIN objects : objects[i].size \in Nat
      BY <2>8, ObjectFacts
    <3> QED BY <2>3, <3>1
  <2>10. SourceType
    <3>1. /\ step \in {"spawn", "wait", "join", "cut", "discard", "returned", "raised"}
          /\ writer \in {"write", "done"} /\ reader \in {"read", "done"}
          /\ sent \in Nat /\ cut \in Nat /\ data \in Seq(AnyUnit)
      BY <2>3
    <3>3. failed \in BOOLEAN /\ staged \in BOOLEAN
      BY <2>3
    <3>2. pin \in DOMAIN pins
      BY <2>3, <2>5
    <3> QED BY <2>4, <2>6, <2>9, <3>1, <3>2, <3>3 DEF SourceType
  <2>11. FilesInv /\ StageInv
    BY <2>3 DEF FilesInv, StageInv
  <2>12. DataInv
    BY <2>3 DEF DataInv
  <2> QED BY <1>2, <1>4, <2>2, <2>8, <2>10, <2>11, <2>12 DEF ReadersInv, BatchInv, SourceInv
<1> QED BY <1>3, <1>4 DEF Init

LEMMA ReadersStep == ReadersInv /\ [Next]_vars => ReadersInv'
<1> SUFFICES ASSUME ReadersInv, [Next]_vars PROVE ReadersInv'
  OBVIOUS
<1>1. CASE BatchNext /\ UNCHANGED <<client, sourceVars>>
  <2>1. client = "batch"
    <3>1. pc # "idle"
      BY <1>1 DEF BatchNext, BatchStep, WaitTimesOut, BatchSpawns, Unresolved,
         Ask, AskFails,
         NoObject, ReadHeader, ReadBody, ReadEnd, ReadFails, CloseInput, WaitGit, CleanUp
    <3> QED BY <3>1 DEF ReadersInv, SourceInv, BatchIdle
  <2> QED BY <1>1, <2>1, BatchStepInv
<1>2. CASE SourceNext /\ UNCHANGED <<client, batchVars>>
  <2>1. client = "sources"
    <3>1. step # "idle" \/ writer # "done" \/ reader # "done"
      BY <1>2 DEF SourceNext, SourceStep, Thread, SourceSpawns, WriteRequest,
         WriteEnds,
         WriteFails, ReadUnit, ReadEnds, Exited, Join, CutFile, CutFails, PinDone, Discard,
         Deadline, JoinTimesOut, WriteFileFails
    <3> QED BY <3>1 DEF ReadersInv, BatchInv, SourceIdle
  <2> QED BY <1>2, <2>1, SourceStepInv
<1>3. CASE (GitWorks \/ GitFails) /\ UNCHANGED <<client, batchVars, sourceVars>>
  BY <1>3, BatchGitInv, SourceGitInv DEF ReadersInv
<1>4. CASE UNCHANGED vars
  BY <1>4, SameReaders
<1> QED BY <1>1, <1>2, <1>3, <1>4 DEF Next

LEMMA ReadersAlways == Spec => []ReadersInv
BY ReadersInit, ReadersStep, PTL DEF Spec

-----------------------------------------------------------------------------
LEMMA AnswersFollow == ReadersInv => AnswersAreTheirs
<1> SUFFICES ASSUME ReadersInv PROVE AnswersAreTheirs
  OBVIOUS
<1>1. CASE client = "batch"
  <2>0. /\ SourceIdle /\ BatchType /\ EndInv /\ HashInv
    BY <1>1, BatchFacts
  <2>1. step = "idle"
    BY <2>0 DEF SourceIdle
  <2>2. pc = "raised" => trouble
    BY <2>0 DEF EndInv
  <2>3. ASSUME pc = "returned", NEW i \in DOMAIN objects PROVE output[i] = Right(i)
    <3>1. ~raising /\ index = Len(objects) + 1
      BY <2>0, <2>3 DEF EndInv
    <3>2. DOMAIN objects = 1..Len(objects) /\ Len(objects) \in Nat
      BY <2>0 DEF BatchType
    <3>3. i \in 1..(index - 1)
      BY <2>3, <3>1, <3>2
    <3> QED BY <2>0, <2>3, <3>1, <3>3 DEF HashInv
  <2> QED BY <2>1, <2>2, <2>3 DEF AnswersAreTheirs, Right
<1>2. CASE client = "sources"
  <2>0. BatchIdle /\ FilesInv /\ DataInv
    BY <1>2, SourceFacts
  <2>1. pc = "idle"
    BY <2>0 DEF BatchIdle
  <2>2. step = "returned" =>
          files = DOMAIN objects
          /\ \A i \in files : objects[i] = [kind |-> "blob", size |-> claimed[i]]
    BY <2>0 DEF FilesInv, Listed
  <2>3. step = "raised" => ~Honest
    BY <2>0 DEF DataInv
  <2> QED BY <2>1, <2>2, <2>3 DEF AnswersAreTheirs, Honest, Listed
<1> QED BY <1>1, <1>2 DEF ReadersInv

LEMMA NothingStays == ReadersInv => NothingLeftBehind
<1> SUFFICES ASSUME ReadersInv PROVE NothingLeftBehind
  OBVIOUS
<1>1. CASE client = "batch"
  <2>0. SourceIdle /\ EndInv
    BY <1>1, BatchFacts
  <2> QED BY <2>0 DEF NothingLeftBehind, Finished, SourceIdle, EndInv
<1>2. CASE client = "sources"
  <2>0. BatchIdle /\ StageInv
    BY <1>2, SourceFacts
  <2> QED BY <2>0 DEF NothingLeftBehind, Finished, BatchIdle, StageInv
<1> QED BY <1>1, <1>2 DEF ReadersInv

(***************************************************************************)
(* Every path gets the hash of its own blob and every file is the object   *)
(* that was listed; an error means that something outside the code went    *)
(* wrong (_batch_git_blob_sha256, materialize_sources).                    *)
(***************************************************************************)
THEOREM AnswersBelong == Spec => []AnswersAreTheirs
BY ReadersAlways, AnswersFollow, PTL

(***************************************************************************)
(* However a call ends, the Git process is gone and was waited for, and a  *)
(* failed materialisation leaves no file (git.py:430-437,                  *)
(* safe_delivery_sources.py:391-397).                                      *)
(***************************************************************************)
THEOREM NothingRemains == Spec => []NothingLeftBehind
BY ReadersAlways, NothingStays, PTL
=============================================================================
