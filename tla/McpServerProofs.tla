-------------------------- MODULE McpServerProofs --------------------------
(***************************************************************************)
(* The two promises of McpServer, for all frames, limits and clients: every *)
(* frame has the one answer it is owed, under its own id, and no capture    *)
(* executes checks that a whole, legal request did not ask for.             *)
(*                                                                         *)
(* A state of the server is told by the last frame of which it has taken    *)
(* anything, Cur, and by how far it is with it.  McpInv has four parts:     *)
(*   PlaceInv  the server is behind its client, both within the frames;     *)
(*   WorkInv   what the server has at hand is about Cur: an oversized line  *)
(*             is known to be one, a line is its frame or a cut one, an     *)
(*             answer is owed.  It leaves a frame half taken only while it  *)
(*             discards, or when the input is over;                         *)
(*   ToldInv   of the frames up to Done exactly the owed ones are answered; *)
(*   RanInv    the frames that had checks executed asked for them.          *)
(* What is owed for a frame depends on how much of it was written, so the   *)
(* client could change it later: OwedKept says that it cannot once the      *)
(* server is through with the frame.                                        *)
(***************************************************************************)
EXTENDS McpServer, TLAPS

Size(i) == frames[i].size

Position(p) ==
    /\ p \in [frame : 1..(Len(frames) + 1), units : Nat]
    /\ p.frame \in DOMAIN frames => p.units < Size(p.frame)
    /\ p.frame = Len(frames) + 1 => p.units = 0

\* The server is never ahead of its client.
Behind == at.frame < sent.frame \/ (at.frame = sent.frame /\ at.units <= sent.units)

PlaceInv ==
    /\ frames \in Seq(Frame)
    /\ Position(sent) /\ Position(at) /\ Behind
    /\ closed \in BOOLEAN /\ gone \in BOOLEAN

\* The last frame of which the server has taken anything.
Cur == IF at.units > 0 THEN at.frame ELSE at.frame - 1

\* There is nothing left to read, and there never will be.
Final == closed /\ at = sent

\* The frame at hand.
Idle     == pc \in {"read", "stopped"}
Lined    == pc \in {"decode", "handle", "call"}
Response == [frame : Nat, id : {NoId} \cup {f.content.id : f \in Frame}, code : Int]

FinalInv == at.units > 0 /\ pc # "discard" => Final

\* An oversized line was met before its end.
LargeInv ==
    pc = "discard" =>
        /\ at.units > 0 /\ Size(Cur) > MaxUnits
        /\ ~(sent.frame = Cur /\ sent.units <= MaxUnits)

\* The line at hand is the frame, or a cut one.
LineInv ==
    Lined =>
        /\ line.frame = Cur
        /\ Owed(Cur) <=> /\ line.content # Blank
                         /\ line.content # Garbage => ~Notification(line.content)
        /\ line.content # Garbage =>
              /\ line.content = frames[Cur].content
              /\ Size(Cur) <= MaxUnits \/ (Cur = sent.frame /\ closed)

CallInv ==
    /\ pc \in {"handle", "call"} => Message(line.content)
    /\ pc = "call" => Calls(line.content) /\ ~Notification(line.content)

\* The answer to it.
AnswerInv ==
    /\ pc \in {"discard", "call", "answer", "broken"} =>
          /\ answer \in Response /\ answer.frame = Cur
          /\ answer.id # NoId => answer.id = frames[Cur].content.id
    /\ pc \in {"answer", "broken"} => Owed(Cur)

WorkInv ==
    /\ pc \in {"read", "stopped", "discard", "decode", "handle", "call", "answer", "broken"}
    /\ ~Idle => Cur \in DOMAIN frames
    /\ FinalInv /\ LargeInv /\ LineInv /\ CallInv /\ AnswerInv

\* The frames the server is through with, and what it told of them.
Done == IF Idle THEN Cur ELSE Cur - 1

ToldInv ==
    /\ answers \in Seq(Response)
    /\ \A i \in DOMAIN frames :
          (\E k \in DOMAIN answers : answers[k].frame = i) <=> i <= Done /\ Owed(i)
    /\ \A k \in DOMAIN answers :
          /\ answers[k].frame \in DOMAIN frames /\ answers[k].frame <= Done
          /\ answers[k].id # NoId => answers[k].id = frames[answers[k].frame].content.id
    /\ \A j, k \in DOMAIN answers : j < k => answers[j].frame < answers[k].frame

RanInv ==
    \A i \in ran :
        /\ i \in DOMAIN frames
        /\ Size(i) <= MaxUnits \/ (i = sent.frame /\ closed)
        /\ frames[i].content.id # NoId /\ frames[i].content.valid
        /\ frames[i].content.checks = "true"

McpInv == PlaceInv /\ WorkInv /\ ToldInv /\ RanInv

-----------------------------------------------------------------------------
LEMMA FrameFacts ==
    ASSUME PlaceInv
    PROVE  /\ Len(frames) \in Nat /\ DOMAIN frames = 1..Len(frames)
           /\ \A i \in DOMAIN frames :
                 /\ frames[i] \in Frame /\ Size(i) \in Nat /\ Size(i) # 0
                 /\ frames[i].content.id \in {NoId} \cup {f.content.id : f \in Frame}
<1>1. Len(frames) \in Nat /\ DOMAIN frames = 1..Len(frames)
      /\ \A i \in DOMAIN frames : frames[i] \in Frame
  BY DEF PlaceInv
<1>2. \A i \in DOMAIN frames : Size(i) \in Nat /\ Size(i) # 0
  BY <1>1, McpAssumption DEF Size
<1> QED BY <1>1, <1>2

LEMMA PlaceFacts ==
    ASSUME PlaceInv
    PROVE  /\ at.frame \in Nat /\ at.units \in Nat /\ at.frame >= 1
           /\ sent.frame \in Nat /\ sent.units \in Nat
           /\ at.frame <= sent.frame /\ sent.frame <= Len(frames) + 1
           /\ at = [frame |-> at.frame, units |-> at.units]
           /\ sent = [frame |-> sent.frame, units |-> sent.units]
           /\ at.units > 0 => at.frame \in DOMAIN frames /\ at.units < Size(at.frame)
           /\ at.frame = sent.frame => at.units <= sent.units
           /\ sent.frame <= Len(frames) => sent.frame \in DOMAIN frames
                                           /\ sent.units < Size(sent.frame)
           /\ at.frame <= Len(frames) => at.frame \in DOMAIN frames
           /\ Cur \in Nat /\ Cur <= at.frame
  BY FrameFacts DEF PlaceInv, Position, Behind, Cur

\* A position moves on within its frame, or behind it.
LEMMA FurtherFacts ==
    ASSUME PlaceInv, NEW p, Position(p), p.frame \in DOMAIN frames,
           NEW n \in Nat, p.units + n <= Size(p.frame)
    PROVE  LET q == Further(p, n) IN
           /\ q \in [frame : 1..(Len(frames) + 1), units : Nat]
           /\ p.units + n = Size(p.frame) => q.frame = p.frame + 1 /\ q.units = 0
           /\ p.units + n < Size(p.frame) => q.frame = p.frame /\ q.units = p.units + n
<1>1. p \in [frame : 1..(Len(frames) + 1), units : Nat]
  BY DEF Position
<1>2. Size(p.frame) \in Nat /\ Len(frames) \in Nat /\ DOMAIN frames = 1..Len(frames)
  BY FrameFacts
<1>3. CASE p.units + n = Size(p.frame)
  <2>1. Further(p, n) = [frame |-> p.frame + 1, units |-> 0]
    BY <1>3 DEF Further, Size
  <2> QED BY <1>1, <1>2, <1>3, <2>1
<1>4. CASE p.units + n # Size(p.frame)
  <2>1. Further(p, n) = [p EXCEPT !.units = @ + n]
    BY <1>4 DEF Further, Size
  <2>2. Further(p, n) = [frame |-> p.frame, units |-> p.units + n]
    BY <1>1, <2>1
  <2> QED BY <1>1, <1>2, <1>4, <2>2
<1> QED BY <1>3, <1>4

LEMMA FurtherIsPosition ==
    ASSUME PlaceInv, NEW p, Position(p), p.frame \in DOMAIN frames,
           NEW n \in Nat, p.units + n <= Size(p.frame)
    PROVE  Position(Further(p, n))
<1> DEFINE q == Further(p, n)
<1>0. /\ q \in [frame : 1..(Len(frames) + 1), units : Nat]
      /\ p.units + n = Size(p.frame) => q.frame = p.frame + 1 /\ q.units = 0
      /\ p.units + n < Size(p.frame) => q.frame = p.frame /\ q.units = p.units + n
  BY FurtherFacts
<1>1. Len(frames) \in Nat /\ DOMAIN frames = 1..Len(frames) /\ Size(p.frame) \in Nat
      /\ \A i \in DOMAIN frames : Size(i) \in Nat /\ Size(i) # 0
  BY FrameFacts
<1>2. p \in [frame : 1..(Len(frames) + 1), units : Nat]
  BY DEF Position
<1> HIDE DEF q
<1>3. ASSUME p.units + n = Size(p.frame) PROVE Position(q)
  BY <1>0, <1>1, <1>2, <1>3 DEF Position
<1>4. ASSUME p.units + n < Size(p.frame) PROVE Position(q)
  BY <1>0, <1>1, <1>2, <1>4 DEF Position
<1>5. Position(q)
  BY <1>1, <1>2, <1>3, <1>4
<1> QED BY <1>5 DEF q

\* Nothing but the line at hand, its answer and the answers has changed.
LEMMA SameInput ==
    ASSUME PlaceInv, UNCHANGED <<frames, sent, closed, gone, at>>
    PROVE  /\ PlaceInv' /\ Cur' = Cur /\ (Final' <=> Final)
           /\ \A i : (Owed(i)' <=> Owed(i)) /\ Size(i)' = Size(i)
  BY DEF PlaceInv, Position, Behind, Cur, Final, Owed, Cut, Size, Notification

\* What a step leaves alone of the answers and of the checks.
LEMMA SameTold ==
    ASSUME ToldInv, UNCHANGED <<frames, answers>>, Done' = Done,
           \A i \in DOMAIN frames : i <= Done => (Owed(i)' <=> Owed(i))
    PROVE  ToldInv'
  BY DEF ToldInv

LEMMA SameRan ==
    ASSUME RanInv, UNCHANGED <<frames, ran, closed, sent>>
    PROVE  RanInv'
  BY DEF RanInv, Size

-----------------------------------------------------------------------------
(***************************************************************************)
(* The client.                                                             *)
(***************************************************************************)
\* Writing does not change what is owed of a frame that was written before.
LEMMA OwedKept ==
    ASSUME PlaceInv, ClientWrites, NEW i \in DOMAIN frames, i < sent.frame
    PROVE  Owed(i)' <=> Owed(i)
<1>1. sent.frame \in DOMAIN frames /\ sent.units + 1 <= Size(sent.frame)
      /\ sent.frame \in Nat /\ Size(sent.frame) \in Nat /\ sent.units \in Nat
  BY PlaceFacts, FrameFacts DEF ClientWrites
<1>2. sent'.frame = sent.frame \/ sent'.frame = sent.frame + 1
  <2>1. sent' = Further(sent, 1) /\ Position(sent) /\ 1 \in Nat
    BY DEF ClientWrites, PlaceInv
  <2>2. sent.units + 1 = Size(sent.frame) \/ sent.units + 1 < Size(sent.frame)
    BY <1>1
  <2> QED BY <1>1, <2>1, <2>2, FurtherFacts
<1>3. sent.frame # i /\ sent'.frame # i /\ i \in Int
  BY <1>1, <1>2, FrameFacts
<1>4. frames' = frames
  BY DEF ClientWrites
<1>5. Owed(i) <=> \/ Size(i) > MaxUnits
                  \/ /\ frames[i].content # Blank
                     /\ frames[i].content # Garbage => ~Notification(frames[i].content)
  BY <1>3 DEF Owed, Cut, Size
<1>6. Owed(i)' <=> \/ Size(i) > MaxUnits
                   \/ /\ frames[i].content # Blank
                      /\ frames[i].content # Garbage => ~Notification(frames[i].content)
  BY <1>3, <1>4 DEF Owed, Cut, Size, Notification
<1> QED BY <1>5, <1>6

LEMMA ClientWritesInv == ASSUME McpInv, ClientWrites PROVE McpInv'
<1>0. PlaceInv /\ WorkInv /\ ToldInv /\ RanInv /\ FinalInv /\ LargeInv /\ LineInv
      /\ CallInv /\ AnswerInv
  BY DEF McpInv, WorkInv
<1>1. ~closed /\ sent.frame <= Len(frames) /\ sent' = Further(sent, 1)
      /\ UNCHANGED <<frames, closed, gone, at, pc, line, answer, answers, ran>>
  BY DEF ClientWrites
<1>2. /\ sent.frame \in DOMAIN frames /\ sent.units + 1 <= Size(sent.frame)
      /\ Position(sent) /\ Size(sent.frame) \in Nat /\ 1 \in Nat
  BY <1>0, <1>1, PlaceFacts, FrameFacts DEF PlaceInv
<1>3. Position(sent)' /\ Position(at)'
  <2>1. Position(Further(sent, 1))
    BY <1>0, <1>2, FurtherIsPosition
  <2> QED BY <1>0, <1>1, <2>1 DEF Position, PlaceInv, Size
<1>4. \/ sent'.frame = sent.frame + 1 /\ sent'.units = 0 /\ sent.units + 1 = Size(sent.frame)
      \/ sent'.frame = sent.frame /\ sent'.units = sent.units + 1
  BY <1>0, <1>1, <1>2, FurtherFacts, PlaceFacts, SMTT(40)
<1>5. Behind'
  BY <1>0, <1>1, <1>4, PlaceFacts DEF Behind
<1>6. PlaceInv'
  BY <1>0, <1>1, <1>3, <1>5 DEF PlaceInv
<1>7. Cur' = Cur /\ (\A i : Size(i)' = Size(i)) /\ Done' = Done
  BY <1>1 DEF Cur, Size, Done, Idle
<1>8. at.units > 0 => pc = "discard"
  BY <1>0, <1>1 DEF FinalInv, Final
<1>9. \A i \in DOMAIN frames : i < at.frame => (Owed(i)' <=> Owed(i))
  BY <1>0, OwedKept, PlaceFacts, FrameFacts
<1>10. pc # "discard" => Cur < at.frame
  BY <1>0, <1>8, PlaceFacts DEF Cur
<1>11. FinalInv'
  BY <1>1, <1>8 DEF FinalInv
<1>12. LargeInv'
  <2> SUFFICES ASSUME pc = "discard" PROVE ~(sent'.frame = Cur /\ sent'.units <= MaxUnits)
    BY <1>0, <1>1, <1>7 DEF LargeInv
  <2>1. ~(sent.frame = Cur /\ sent.units <= MaxUnits) /\ Cur = at.frame
    BY <1>0 DEF LargeInv, Cur
  <2> QED BY <1>0, <1>4, <2>1, PlaceFacts, McpAssumption
<1>13. LineInv'
  <2> SUFFICES ASSUME Lined PROVE LineInv'
    BY <1>1 DEF Lined, LineInv
  <2>1. Cur < at.frame /\ Cur \in DOMAIN frames
    BY <1>0, <1>10 DEF Lined, WorkInv, Idle
  <2>2. Owed(Cur)' <=> Owed(Cur)
    BY <1>7, <1>9, <2>1 DEF Owed, Cut
  <2> QED BY <1>0, <1>1, <1>7, <2>2 DEF LineInv, Lined, Notification, Size
<1>14. CallInv'
  BY <1>0, <1>1 DEF CallInv
<1>15. AnswerInv'
  <2>1. pc \in {"answer", "broken"} => (Owed(Cur)' <=> Owed(Cur))
    <3> SUFFICES ASSUME pc \in {"answer", "broken"} PROVE Owed(Cur)' <=> Owed(Cur)
      OBVIOUS
    <3>1. Cur < at.frame /\ Cur \in DOMAIN frames
      BY <1>0, <1>10 DEF WorkInv, Idle
    <3> QED BY <1>7, <1>9, <3>1 DEF Owed, Cut
  <2> QED BY <1>0, <1>1, <1>7, <2>1 DEF AnswerInv, Response
<1>16. WorkInv'
  BY <1>0, <1>1, <1>7, <1>11, <1>12, <1>13, <1>14, <1>15 DEF WorkInv, Idle
<1>17. ToldInv'
  <2>1. \A i \in DOMAIN frames : i <= Done => i < at.frame
    BY <1>0, <1>10, PlaceFacts, FrameFacts DEF Done, Idle
  <2> QED BY <1>0, <1>1, <1>7, <1>9, <2>1, SameTold
<1>18. RanInv'
  BY <1>0, <1>1 DEF RanInv, Size
<1> QED BY <1>6, <1>16, <1>17, <1>18 DEF McpInv

LEMMA ClientEndsInv == ASSUME McpInv, ClientCloses \/ ClientLeaves PROVE McpInv'
<1>0. PlaceInv /\ WorkInv /\ ToldInv /\ RanInv /\ FinalInv /\ LargeInv /\ LineInv
      /\ CallInv /\ AnswerInv
  BY DEF McpInv, WorkInv
<1>1. UNCHANGED <<frames, sent, at, pc, line, answer, answers, ran>>
      /\ (closed => closed') /\ closed' \in BOOLEAN /\ gone' \in BOOLEAN
  BY <1>0 DEF ClientCloses, ClientLeaves, PlaceInv
<1>2. PlaceInv'
  BY <1>0, <1>1 DEF PlaceInv, Position, Behind, Size
<1>3. Cur' = Cur /\ Done' = Done /\ (\A i : (Owed(i)' <=> Owed(i)) /\ Size(i)' = Size(i))
  BY <1>1 DEF Cur, Done, Idle, Owed, Cut, Size, Notification
<1>4. FinalInv' /\ LargeInv'
  BY <1>0, <1>1, <1>3 DEF FinalInv, LargeInv, Final
<1>5. LineInv'
  BY <1>0, <1>1, <1>3 DEF LineInv, Lined, Notification
<1>6. CallInv' /\ AnswerInv'
  <2>1. CallInv' BY <1>0, <1>1 DEF CallInv
  <2>2. AnswerInv' BY <1>0, <1>1, <1>3 DEF AnswerInv, Response
  <2> QED BY <2>1, <2>2
<1>7. WorkInv'
  BY <1>0, <1>1, <1>3, <1>4, <1>5, <1>6 DEF WorkInv, Idle
<1>8. ToldInv'
  BY <1>0, <1>1, <1>3, SameTold
<1>9. RanInv'
  BY <1>0, <1>1 DEF RanInv, Size
<1> QED BY <1>2, <1>7, <1>8, <1>9 DEF McpInv

-----------------------------------------------------------------------------
(***************************************************************************)
(* Taking input.                                                           *)
(***************************************************************************)
\* What a read that returns something returns.
LEMMA ReadFacts ==
    ASSUME PlaceInv, NEW limit \in Nat, limit > 0,
           NEW n \in Nat, n > 0, Readline(limit, n)
    PROVE  /\ at.frame \in DOMAIN frames /\ Position(at)
           /\ at.units + n <= Size(at.frame) /\ n <= limit
           /\ Rest = Size(at.frame) - at.units
           /\ sent.frame = at.frame => at.units + n <= sent.units
           /\ \/ n = limit \/ at.units + n = Size(at.frame)
              \/ closed /\ sent.frame = at.frame /\ at.units + n = sent.units
<1>0. /\ at.frame \in Nat /\ at.units \in Nat /\ sent.frame \in Nat /\ sent.units \in Nat
      /\ at.frame <= sent.frame
      /\ at.frame = sent.frame => at.units <= sent.units
      /\ sent.frame <= Len(frames) + 1 /\ Len(frames) \in Nat
  BY PlaceFacts, FrameFacts
<1>1. Position(at) /\ Position(sent)
  BY DEF PlaceInv
<1>2. \/ There >= Smaller(limit, Rest) /\ n = Smaller(limit, Rest)
      \/ ~(There >= Smaller(limit, Rest)) /\ closed /\ n = There
  BY DEF Readline
<1>3. at.frame <= Len(frames)
  <2> SUFFICES ASSUME at.frame > Len(frames) PROVE FALSE
    BY <1>0
  <2>1. at.frame = Len(frames) + 1 /\ sent.frame = Len(frames) + 1
    BY <1>0
  <2>2. at.units = 0 /\ sent.units = 0
    BY <1>1, <2>1 DEF Position
  <2>3. There = 0
    BY <1>0, <2>1, <2>2 DEF There
  <2>4. Rest = 1
    BY <1>0, <2>1 DEF Rest
  <2> QED BY <1>2, <2>3, <2>4 DEF Smaller
<1>4. /\ at.frame \in DOMAIN frames /\ Size(at.frame) \in Nat /\ at.units < Size(at.frame)
      /\ Rest = Size(at.frame) - at.units
  BY <1>0, <1>1, <1>3, FrameFacts DEF Position, Rest, Size
<1>5. sent.frame = at.frame => sent.units < Size(at.frame)
  BY <1>1, <1>4 DEF Position
<1>6. There = IF sent.frame > at.frame THEN Size(at.frame) - at.units
              ELSE sent.units - at.units
  BY DEF There, Size
<1>7. n <= There /\ n <= Smaller(limit, Rest)
  <2>1. There \in Int /\ Smaller(limit, Rest) \in Int
    BY <1>0, <1>4, <1>6 DEF Smaller
  <2> QED BY <1>2, <2>1
<1>8. n <= limit /\ n <= Rest
  BY <1>0, <1>4, <1>7 DEF Smaller
<1>9. sent.frame = at.frame => at.units + n <= sent.units
  BY <1>0, <1>6, <1>7
<1>10. \/ n = limit \/ at.units + n = Size(at.frame)
       \/ closed /\ sent.frame = at.frame /\ at.units + n = sent.units
  <2>1. CASE n = Smaller(limit, Rest)
    BY <1>0, <1>4, <2>1 DEF Smaller
  <2>2. CASE ~(There >= Smaller(limit, Rest)) /\ closed /\ n = There
    <3>1. ~(sent.frame > at.frame)
      BY <1>0, <1>4, <1>6, <2>2 DEF Smaller
    <3> QED BY <1>0, <1>6, <2>2, <3>1
  <2> QED BY <1>2, <2>1, <2>2
<1> QED BY <1>0, <1>1, <1>4, <1>8, <1>9, <1>10

\* Taking n units leaves the server behind its client, and at the end of the
\* input if it got less than it waited for.
LEMMA TakeFacts ==
    ASSUME PlaceInv, UNCHANGED client,
           NEW limit \in Nat, limit > 0, NEW n \in Nat, n > 0, Readline(limit, n),
           at' = Further(at, n)
    PROVE  /\ PlaceInv' /\ Cur' = at.frame
           /\ at.units + n = Size(at.frame) => at'.units = 0 /\ sent.frame > at.frame
           /\ at.units + n < Size(at.frame) =>
                 /\ at'.units = at.units + n
                 /\ n # limit => Final' /\ sent.frame = at.frame
                                 /\ at.units + n = sent.units
<1>0. /\ at.frame \in Nat /\ at.units \in Nat /\ sent.frame \in Nat /\ sent.units \in Nat
      /\ at.frame <= sent.frame
      /\ at.frame = sent.frame => at.units <= sent.units
      /\ sent = [frame |-> sent.frame, units |-> sent.units]
  BY PlaceFacts
<1>1. /\ at.frame \in DOMAIN frames /\ Position(at)
      /\ at.units + n <= Size(at.frame) /\ n <= limit
      /\ sent.frame = at.frame => at.units + n <= sent.units
      /\ \/ n = limit \/ at.units + n = Size(at.frame)
         \/ closed /\ sent.frame = at.frame /\ at.units + n = sent.units
  BY ReadFacts
<1>2. Size(at.frame) \in Nat /\ Position(sent)
  BY <1>1, FrameFacts DEF PlaceInv
<1>3. sent.frame = at.frame => sent.units < Size(at.frame)
  BY <1>1, <1>2 DEF Position
<1>4. /\ at' \in [frame : 1..(Len(frames) + 1), units : Nat]
      /\ at.units + n = Size(at.frame) => at'.frame = at.frame + 1 /\ at'.units = 0
      /\ at.units + n < Size(at.frame) => at'.frame = at.frame /\ at'.units = at.units + n
  BY <1>1, FurtherFacts
<1>5. Position(at')
  BY <1>1, FurtherIsPosition
<1>6. UNCHANGED <<frames, sent, closed, gone>>
  BY DEF client
<1>7. at.units + n = Size(at.frame) => sent.frame > at.frame
  BY <1>0, <1>1, <1>2, <1>3
<1>8. Behind'
  <2>1. CASE at.units + n = Size(at.frame)
    BY <1>0, <1>1, <1>4, <1>6, <1>7, <2>1 DEF Behind
  <2>2. CASE at.units + n < Size(at.frame)
    BY <1>0, <1>1, <1>4, <1>6, <2>2 DEF Behind
  <2> QED BY <1>0, <1>1, <1>2, <2>1, <2>2
<1>9. Position(sent)' /\ Position(at)'
  BY <1>2, <1>5, <1>6 DEF Position, Size
<1>10. PlaceInv'
  BY <1>6, <1>8, <1>9 DEF PlaceInv
<1>11. Cur' = at.frame
  <2>1. CASE at.units + n = Size(at.frame)
    BY <1>0, <1>4, <2>1 DEF Cur
  <2>2. CASE at.units + n < Size(at.frame)
    BY <1>0, <1>4, <2>2 DEF Cur
  <2> QED BY <1>0, <1>1, <1>2, <2>1, <2>2
<1>12. ASSUME at.units + n < Size(at.frame), n # limit
       PROVE  Final' /\ sent.frame = at.frame /\ at.units + n = sent.units
  <2>1. closed /\ sent.frame = at.frame /\ at.units + n = sent.units
    BY <1>0, <1>1, <1>2, <1>12
  <2>2. at' = [frame |-> sent.frame, units |-> sent.units]
    BY <1>4, <1>12, <2>1
  <2> QED BY <1>0, <1>6, <2>1, <2>2 DEF Final
<1> QED BY <1>4, <1>7, <1>10, <1>11, <1>12

LEMMA SameOwed ==
    ASSUME UNCHANGED <<frames, sent>>
    PROVE  \A i : (Owed(i)' <=> Owed(i)) /\ Size(i)' = Size(i)
  BY DEF Owed, Cut, Size, Notification

LEMMA EndOfInputInv == ASSUME McpInv, EndOfInput PROVE McpInv'
<1>0. PlaceInv /\ WorkInv /\ ToldInv /\ RanInv /\ FinalInv
  BY DEF McpInv, WorkInv
<1>1. pc = "read" /\ pc' = "stopped" /\ UNCHANGED <<client, at, line, answer, answers, ran>>
      /\ UNCHANGED <<frames, sent, closed, gone, at>>
  BY DEF EndOfInput, client
<1>2. PlaceInv' /\ Cur' = Cur /\ (Final' <=> Final) /\ \A i : (Owed(i)' <=> Owed(i))
  BY <1>0, <1>1, SameInput
<1>3. WorkInv'
  BY <1>0, <1>1, <1>2 DEF WorkInv, Idle, FinalInv, LargeInv, LineInv, Lined, CallInv,
                          AnswerInv
<1>4. Done' = Done
  BY <1>1, <1>2 DEF Done, Idle
<1> QED BY <1>0, <1>1, <1>2, <1>3, <1>4, SameTold, SameRan DEF McpInv

\* Two lines apart: nothing was taken of the frame the server is at.
LEMMA ReadFromStart ==
    ASSUME PlaceInv, FinalInv, pc = "read",
           NEW n \in Nat, n > 0, Readline(MaxUnits + 1, n)
    PROVE  at.units = 0
<1> SUFFICES ASSUME at.units # 0 PROVE FALSE
  OBVIOUS
<1>1. at = sent /\ at.units \in Nat
  BY PlaceFacts DEF FinalInv, Final
<1>2. MaxUnits + 1 \in Nat /\ MaxUnits + 1 > 0
  BY McpAssumption
<1>3. at.units + n <= at.units
  BY <1>1, <1>2, ReadFacts
<1> QED BY <1>1, <1>3

LEMMA BlankIsNotGarbage == Blank # Garbage
<1>1. Blank.kind # Garbage.kind
  BY DEF Blank, Garbage
<1> QED BY <1>1

\* What a line says of its frame.
LEMMA LineFacts ==
    ASSUME PlaceInv, UNCHANGED client, at.units = 0,
           NEW n \in Nat, n > 0, Readline(MaxUnits + 1, n), at' = Further(at, n),
           ~Oversized(n), NEW c, c = ContentOf(at.frame, at.units + n)
    PROVE  /\ Owed(at.frame) <=> c # Blank /\ (c # Garbage => ~Notification(c))
           /\ c # Garbage =>
                 /\ c = frames[at.frame].content
                 /\ Size(at.frame) <= MaxUnits \/ (at.frame = sent.frame /\ closed)
           /\ at'.units > 0 => Final'
<1>0. MaxUnits \in Nat /\ n <= MaxUnits /\ MaxUnits + 1 \in Nat /\ MaxUnits + 1 > 0
  BY McpAssumption DEF Oversized
<1>1. /\ at.frame \in DOMAIN frames /\ n <= Size(at.frame) /\ Size(at.frame) \in Nat
      /\ at.units + n = n /\ n # MaxUnits + 1
  <2>1. at.frame \in DOMAIN frames /\ at.units + n <= Size(at.frame)
    BY <1>0, ReadFacts
  <2>2. Size(at.frame) \in Nat /\ at.units + n = n
    BY <2>1, FrameFacts
  <2> QED BY <1>0, <2>1, <2>2
<1>2. /\ n = Size(at.frame) => at'.units = 0 /\ sent.frame > at.frame
      /\ n < Size(at.frame) => Final' /\ sent.frame = at.frame /\ n = sent.units
  BY <1>0, <1>1, TakeFacts
<1>3. c = IF n >= Size(at.frame) - 1 THEN frames[at.frame].content ELSE Garbage
  BY <1>1 DEF ContentOf, Size
<1>4. at.frame \in Int /\ sent.frame \in Int
  BY PlaceFacts
<1>5. CASE n = Size(at.frame)
  <2>1. c = frames[at.frame].content /\ Size(at.frame) <= MaxUnits
    BY <1>0, <1>1, <1>3, <1>5
  <2>2. ~Cut(at.frame) /\ ~(Size(at.frame) > MaxUnits)
    BY <1>0, <1>1, <1>2, <1>4, <1>5 DEF Cut
  <2>3. Owed(at.frame) <=> c # Blank /\ (c # Garbage => ~Notification(c))
    BY <2>1, <2>2 DEF Owed, Size
  <2>4. ~(at'.units > 0)
    BY <1>2, <1>5
  <2> QED BY <2>1, <2>3, <2>4
<1>6. CASE n < Size(at.frame)
  <2>1. Final' /\ sent.frame = at.frame /\ n = sent.units /\ closed
    <3>1. Final' /\ sent.frame = at.frame /\ n = sent.units
      BY <1>2, <1>6
    <3> QED BY <3>1 DEF Final, client
  <2>2. Cut(at.frame) <=> n < Size(at.frame) - 1
    BY <2>1 DEF Cut, Size
  <2>3. Owed(at.frame) <=> \/ Cut(at.frame)
                           \/ /\ frames[at.frame].content # Blank
                              /\ frames[at.frame].content # Garbage
                                 => ~Notification(frames[at.frame].content)
    BY <1>0, <2>1 DEF Owed
  <2>4. CASE n < Size(at.frame) - 1
    <3>1. c = Garbage
      BY <1>1, <1>3, <2>4
    <3>2. Owed(at.frame)
      BY <2>2, <2>3, <2>4
    <3> QED BY <2>1, <3>1, <3>2, BlankIsNotGarbage
  <2>5. CASE ~(n < Size(at.frame) - 1)
    <3>1. c = frames[at.frame].content
      BY <1>1, <1>3, <2>5
    <3> QED BY <2>1, <2>2, <2>3, <2>5, <3>1
  <2> QED BY <2>4, <2>5
<1> QED BY <1>1, <1>5, <1>6

LEMMA ErrorIsResponse ==
    ASSUME NEW i \in Nat, NEW code \in Int, NEW id \in {NoId} \cup {f.content.id : f \in Frame}
    PROVE  /\ Error(i, id, code) \in Response /\ Error(i, id, code).frame = i
           /\ Error(i, id, code).id = id
  BY DEF Error, Response

LEMMA ResultIsResponse ==
    ASSUME NEW i \in Nat, NEW id \in {NoId} \cup {f.content.id : f \in Frame}
    PROVE  Result(i, id) \in Response /\ Result(i, id).frame = i /\ Result(i, id).id = id
  BY DEF Result, Response

LEMMA ReadLineInv == ASSUME McpInv, ReadLine PROVE McpInv'
<1>0. PlaceInv /\ WorkInv /\ ToldInv /\ RanInv /\ FinalInv
  BY DEF McpInv, WorkInv
<1>1. pc = "read" /\ UNCHANGED <<client, answers, ran, frames, sent, closed, gone>>
  BY DEF ReadLine, client
<1>2. PICK n \in 1..MaxUnits + 1 :
          /\ Readline(MaxUnits + 1, n)
          /\ at' = Further(at, n)
          /\ IF Oversized(n)
             THEN /\ pc' = IF n = Rest THEN "answer" ELSE "discard"
                  /\ answer' = TooLarge(at.frame) /\ UNCHANGED line
             ELSE /\ pc' = "decode"
                  /\ line' = [frame |-> at.frame,
                              content |-> ContentOf(at.frame, at.units + n)]
                  /\ UNCHANGED answer
  BY DEF ReadLine
<1>3. /\ n \in Nat /\ n > 0 /\ MaxUnits \in Nat /\ MaxUnits + 1 \in Nat
      /\ MaxUnits + 1 > 0 /\ n <= MaxUnits + 1
  BY McpAssumption
<1>4. at.units = 0
  BY <1>0, <1>1, <1>2, <1>3, ReadFromStart
<1>5. /\ at.frame \in DOMAIN frames /\ at.units + n <= Size(at.frame)
      /\ Rest = Size(at.frame) - at.units
      /\ sent.frame = at.frame => at.units + n <= sent.units
  BY <1>0, <1>2, <1>3, ReadFacts
<1>6. /\ PlaceInv' /\ Cur' = at.frame
      /\ at.units + n = Size(at.frame) => at'.units = 0
      /\ at.units + n < Size(at.frame) => at'.units = at.units + n
  BY <1>0, <1>1, <1>2, <1>3, TakeFacts
<1>7. /\ at.frame \in Nat /\ Size(at.frame) \in Nat /\ Cur = at.frame - 1
      /\ at.units + n = n /\ Rest = Size(at.frame)
  BY <1>0, <1>3, <1>4, <1>5, PlaceFacts, FrameFacts DEF Cur
<1>8. \A i : (Owed(i)' <=> Owed(i)) /\ Size(i)' = Size(i)
  BY <1>1, SameOwed
<1>9. WorkInv' /\ ~Idle'
  <2>1. CASE Oversized(n)
    <3>1. n = MaxUnits + 1 /\ n <= Size(at.frame) /\ Size(at.frame) > MaxUnits
      BY <1>3, <1>5, <1>7, <2>1 DEF Oversized
    <3>2. ~(sent.frame = at.frame /\ sent.units <= MaxUnits)
      BY <1>0, <1>3, <1>5, <1>7, <3>1, PlaceFacts
    <3>3. Owed(at.frame)
      BY <3>1, <3>2 DEF Owed, Size
    <3>4. /\ answer' = Error(at.frame, NoId, -32600)
          /\ pc' = IF n = Rest THEN "answer" ELSE "discard"
      BY <1>2, <2>1 DEF TooLarge
    <3>5. answer' \in Response /\ answer'.frame = at.frame /\ answer'.id = NoId
      BY <1>7, <3>4, ErrorIsResponse
    <3>6. pc' = "discard" => at'.units = n
      BY <1>6, <1>7, <3>1, <3>4
    <3>7. pc' = "answer" => at'.units = 0
      BY <1>6, <1>7, <3>4
    <3>8. LargeInv'
      BY <1>1, <1>3, <1>6, <1>8, <3>1, <3>2, <3>6 DEF LargeInv
    <3>9. FinalInv'
      BY <3>4, <3>7 DEF FinalInv
    <3>10. AnswerInv'
      BY <1>1, <1>6, <1>8, <3>3, <3>5 DEF AnswerInv, Response
    <3> QED BY <1>1, <1>5, <1>6, <3>4, <3>8, <3>9, <3>10
            DEF WorkInv, Idle, LineInv, Lined, CallInv
  <2>2. CASE ~Oversized(n)
    <3>1. pc' = "decode" /\ line' = [frame |-> at.frame,
                                     content |-> ContentOf(at.frame, at.units + n)]
      BY <1>2, <2>2
    <3> DEFINE c == ContentOf(at.frame, at.units + n)
    <3>2. line'.frame = at.frame /\ line'.content = c
      BY <3>1
    <3>3. /\ Owed(at.frame) <=> c # Blank /\ (c # Garbage => ~Notification(c))
          /\ c # Garbage =>
                /\ c = frames[at.frame].content
                /\ Size(at.frame) <= MaxUnits \/ (at.frame = sent.frame /\ closed)
          /\ at'.units > 0 => Final'
      BY <1>0, <1>1, <1>2, <1>3, <1>4, <2>2, LineFacts
    <3> HIDE DEF c
    <3>4. Owed(Cur)' <=> Owed(at.frame)
      BY <1>6, <1>8 DEF Owed, Cut
    <3>5. LineInv'
      BY <1>1, <1>6, <1>8, <3>2, <3>3, <3>4 DEF LineInv, Notification
    <3>6. FinalInv'
      BY <3>3 DEF FinalInv
    <3> QED BY <1>1, <1>5, <1>6, <3>1, <3>5, <3>6
            DEF WorkInv, Idle, LargeInv, CallInv, AnswerInv
  <2> QED BY <2>1, <2>2
<1>10. Done' = Done
  BY <1>1, <1>6, <1>7, <1>9 DEF Done, Idle
<1> QED BY <1>0, <1>1, <1>6, <1>8, <1>9, <1>10, SameTold, SameRan DEF McpInv

LEMMA DiscardInv == ASSUME McpInv, Discard PROVE McpInv'
<1>0. PlaceInv /\ WorkInv /\ ToldInv /\ RanInv /\ FinalInv /\ LargeInv /\ AnswerInv
  BY DEF McpInv, WorkInv
<1>1. /\ pc = "discard"
      /\ UNCHANGED <<client, frames, sent, closed, gone, line, answer, answers, ran>>
  BY DEF Discard, client
<1>2. PICK n \in 0..Chunk :
          /\ Readline(Chunk, n)
          /\ at' = (IF n = 0 THEN at ELSE Further(at, n))
          /\ pc' = (IF n = 0 \/ Ended(n) THEN "answer" ELSE "discard")
  BY DEF Discard
<1>3. Chunk \in Nat /\ Chunk > 0 /\ n \in Nat /\ MaxUnits \in Nat
  BY McpAssumption
<1>4. /\ at.units > 0 /\ Cur = at.frame /\ Size(Cur) > MaxUnits /\ Cur \in DOMAIN frames
      /\ ~(sent.frame = Cur /\ sent.units <= MaxUnits)
  BY <1>0, <1>1 DEF LargeInv, Cur, WorkInv, Idle
<1>5. \A i : (Owed(i)' <=> Owed(i)) /\ Size(i)' = Size(i)
  BY <1>1, SameOwed
<1>6. Owed(Cur)
  BY <1>4 DEF Owed, Size
<1>7. /\ answer \in Response /\ answer.frame = Cur
      /\ answer.id # NoId => answer.id = frames[Cur].content.id
  BY <1>0, <1>1 DEF AnswerInv
<1>8. PlaceInv' /\ Cur' = Cur
      /\ (pc' = "answer" /\ at'.units > 0 => Final')
      /\ (pc' = "discard" => at'.units > 0)
  <2>1. CASE n = 0
    <3>1. at' = at /\ pc' = "answer"
      BY <1>2, <2>1
    <3>2. PlaceInv' /\ Cur' = Cur /\ (Final' <=> Final)
      BY <1>0, <1>1, <3>1, SameInput
    <3>3. Final
      <4>1. 0 = There /\ closed
        <5>1. Rest > 0
          BY <1>0, <1>4, PlaceFacts, FrameFacts DEF Rest, Size
        <5> QED BY <1>2, <1>3, <2>1, <5>1 DEF Readline, Smaller
      <4>2. at.frame = sent.frame /\ at.units = sent.units
        BY <1>0, <4>1, <1>4, PlaceFacts, FrameFacts DEF There, Size
      <4>3. at = sent
        BY <1>0, <4>2, PlaceFacts
      <4> QED BY <4>1, <4>3 DEF Final
    <3> QED BY <3>1, <3>2, <3>3
  <2>2. CASE n > 0
    <3>1. at' = Further(at, n) /\ Readline(Chunk, n)
          /\ pc' = (IF Ended(n) THEN "answer" ELSE "discard")
      BY <1>2, <1>3, <2>2
    <3>2. /\ PlaceInv' /\ Cur' = at.frame
          /\ at.units + n = Size(at.frame) => at'.units = 0
          /\ at.units + n < Size(at.frame) => at'.units = at.units + n
      BY <1>0, <1>1, <1>3, <2>2, <3>1, TakeFacts
    <3>3. Rest = Size(at.frame) - at.units /\ at.units + n <= Size(at.frame)
      BY <1>0, <1>3, <2>2, <3>1, ReadFacts
    <3>4. Size(at.frame) \in Nat /\ at.units \in Nat
      BY <1>0, <1>4, PlaceFacts, FrameFacts
    <3>5. Ended(n) <=> at.units + n = Size(at.frame)
      BY <1>3, <3>3, <3>4 DEF Ended
    <3> QED BY <1>3, <1>4, <2>2, <3>1, <3>2, <3>3, <3>4, <3>5
  <2> QED BY <1>3, <2>1, <2>2
<1>9. pc' \in {"answer", "discard"}
  BY <1>2
<1>10. FinalInv'
  BY <1>8, <1>9 DEF FinalInv
<1>11. LargeInv'
  BY <1>1, <1>4, <1>5, <1>8 DEF LargeInv
<1>12. AnswerInv'
  <2>1. Owed(Cur)'
    BY <1>5, <1>6, <1>8 DEF Owed, Cut
  <2> QED BY <1>1, <1>7, <1>8, <2>1 DEF AnswerInv, Response
<1>13. WorkInv'
  BY <1>1, <1>4, <1>8, <1>9, <1>10, <1>11, <1>12 DEF WorkInv, Idle, LineInv, Lined, CallInv
<1>14. Done' = Done
  BY <1>1, <1>8, <1>9 DEF Done, Idle
<1> QED BY <1>0, <1>1, <1>5, <1>8, <1>13, <1>14, SameTold, SameRan DEF McpInv

-----------------------------------------------------------------------------
(***************************************************************************)
(* Working on a line.                                                      *)
(***************************************************************************)
\* What stays as it is while the server works on a line.
LEMMA SameLine ==
    ASSUME McpInv, ~Idle, UNCHANGED <<client, at, line>>
    PROVE  /\ PlaceInv' /\ Cur' = Cur /\ Cur \in DOMAIN frames /\ Cur \in Nat
           /\ \A i : (Owed(i)' <=> Owed(i)) /\ Size(i)' = Size(i)
           /\ pc # "discard" => FinalInv'
           /\ Lined' /\ Lined => LineInv'
<1>0. PlaceInv /\ WorkInv /\ FinalInv /\ LineInv
  BY DEF McpInv, WorkInv
<1>1. UNCHANGED <<frames, sent, closed, gone, at, line>>
  BY DEF client
<1>2. /\ PlaceInv' /\ Cur' = Cur /\ (Final' <=> Final)
      /\ \A i : (Owed(i)' <=> Owed(i)) /\ Size(i)' = Size(i)
  BY <1>0, <1>1, SameInput
<1>3. Cur \in DOMAIN frames /\ Cur \in Nat
  BY <1>0, PlaceFacts DEF WorkInv
<1>4. pc # "discard" => FinalInv'
  BY <1>0, <1>1, <1>2 DEF FinalInv
<1>5. Lined' /\ Lined => LineInv'
  <2>1. Owed(Cur)' <=> Owed(Cur)
    BY <1>2 DEF Owed, Cut
  <2> QED BY <1>0, <1>1, <1>2, <2>1 DEF LineInv, Lined, Notification
<1> QED BY <1>2, <1>3, <1>4, <1>5

\* A line that gets no answer is owed none.
LEMMA Skipped ==
    ASSUME McpInv, ~Idle, UNCHANGED <<client, at, answers>>, pc' = "read", ~Owed(Cur)
    PROVE  ToldInv'
<1>0. ToldInv /\ PlaceInv /\ Cur \in DOMAIN frames
  BY DEF McpInv, WorkInv
<1>1. UNCHANGED <<frames, sent>> /\ Cur' = Cur
  BY DEF client, Cur
<1>2. Done' = Cur /\ Done = Cur - 1
  BY <1>1 DEF Done, Idle
<1>3. \A i : Owed(i)' <=> Owed(i)
  BY <1>1, SameOwed
<1>4. Cur \in Nat /\ DOMAIN frames = 1..Len(frames) /\ Len(frames) \in Nat
  BY <1>0, PlaceFacts, FrameFacts
<1>5. \A i \in DOMAIN frames : i <= Cur /\ Owed(i) <=> i <= Cur - 1 /\ Owed(i)
  <2> SUFFICES ASSUME NEW i \in DOMAIN frames
               PROVE  i <= Cur /\ Owed(i) <=> i <= Cur - 1 /\ Owed(i)
    OBVIOUS
  <2>1. i = Cur \/ (i <= Cur <=> i <= Cur - 1)
    BY <1>4
  <2>2. i = Cur => ~Owed(i) /\ ~(i <= Cur - 1)
    BY <1>4
  <2> QED BY <2>1, <2>2
<1>6. \A k \in DOMAIN answers : answers[k].frame <= Cur
  BY <1>0, <1>2, <1>4 DEF ToldInv
<1> QED BY <1>0, <1>1, <1>2, <1>3, <1>5, <1>6 DEF ToldInv

LEMMA DecodeInv == ASSUME McpInv, Decode PROVE McpInv'
<1>0. WorkInv /\ ToldInv /\ RanInv /\ LineInv
  BY DEF McpInv, WorkInv
<1>1. /\ pc = "decode" /\ UNCHANGED <<client, frames, sent, closed, at, line, answers, ran>>
      /\ answer' = IF line.content = Garbage THEN Error(line.frame, NoId, -32700)
                   ELSE answer
  BY DEF Decode, client
<1>2. ~Idle /\ Lined
  BY <1>1 DEF Idle, Lined
<1>3. /\ PlaceInv' /\ Cur' = Cur /\ Cur \in DOMAIN frames /\ Cur \in Nat
      /\ \A i : (Owed(i)' <=> Owed(i)) /\ Size(i)' = Size(i)
      /\ FinalInv' /\ (Lined' => LineInv')
  BY <1>1, <1>2, SameLine
<1>4. /\ line.frame = Cur
      /\ Owed(Cur) <=> /\ line.content # Blank
                       /\ line.content # Garbage => ~Notification(line.content)
  BY <1>0, <1>2 DEF LineInv
<1>5. Owed(Cur)' <=> Owed(Cur)
  BY <1>3 DEF Owed, Cut
<1>6. CASE line.content = Blank
  <2>1. pc' = "read" /\ ~Owed(Cur)
    BY <1>4, <1>6, BlankIsNotGarbage DEF Decode, Message
  <2>2. ToldInv'
    BY <1>1, <1>2, <2>1, Skipped
  <2>3. WorkInv'
    BY <1>3, <2>1 DEF WorkInv, Idle, LargeInv, LineInv, Lined, CallInv, AnswerInv
  <2> QED BY <1>0, <1>1, <1>3, <2>2, <2>3, SameRan DEF McpInv
<1>7. CASE line.content = Garbage
  <2>1. pc' = "answer" /\ answer' = Error(Cur, NoId, -32700)
    BY <1>1, <1>4, <1>7, BlankIsNotGarbage DEF Decode, Message
  <2>2. answer' \in Response /\ answer'.frame = Cur /\ answer'.id = NoId
    BY <1>3, <2>1, ErrorIsResponse
  <2>3. Owed(Cur)
    BY <1>4, <1>7, BlankIsNotGarbage
  <2>4. AnswerInv'
    BY <1>3, <1>5, <2>2, <2>3 DEF AnswerInv, Response
  <2>5. WorkInv'
    BY <1>1, <1>3, <2>1, <2>4 DEF WorkInv, Idle, LargeInv, LineInv, Lined, CallInv
  <2>6. Done' = Done
    BY <1>1, <1>3, <2>1 DEF Done, Idle
  <2> QED BY <1>0, <1>1, <1>3, <2>5, <2>6, SameTold, SameRan DEF McpInv
<1>8. CASE Message(line.content)
  <2>1. pc' = "handle"
    BY <1>1, <1>8 DEF Decode, Message
  <2>2. LineInv'
    BY <1>3, <2>1 DEF Lined
  <2>3. CallInv'
    BY <1>1, <1>8, <2>1 DEF CallInv
  <2>4. WorkInv'
    BY <1>1, <1>3, <2>1, <2>2, <2>3 DEF WorkInv, Idle, LargeInv, AnswerInv
  <2>5. Done' = Done
    BY <1>1, <1>3, <2>1 DEF Done, Idle
  <2> QED BY <1>0, <1>1, <1>3, <2>4, <2>5, SameTold, SameRan DEF McpInv
<1> QED BY <1>6, <1>7, <1>8 DEF Message

\* What the line at hand is once it is a message.
LEMMA MessageFacts ==
    ASSUME McpInv, pc \in {"handle", "call"}
    PROVE  /\ ~Idle /\ Lined /\ Message(line.content) /\ line.frame = Cur
           /\ line.content = frames[Cur].content
           /\ line.content.id \in {NoId} \cup {f.content.id : f \in Frame}
           /\ Owed(Cur) <=> ~Notification(line.content)
           /\ Size(Cur) <= MaxUnits \/ (Cur = sent.frame /\ closed)
<1>0. PlaceInv /\ LineInv /\ CallInv /\ ~Idle /\ Lined /\ Cur \in DOMAIN frames
  BY DEF McpInv, WorkInv, Idle, Lined
<1>1. Message(line.content) /\ line.content # Garbage /\ line.content # Blank
  BY <1>0 DEF CallInv, Message
<1>2. line.content = frames[Cur].content /\ line.frame = Cur
      /\ (Owed(Cur) <=> ~Notification(line.content))
      /\ (Size(Cur) <= MaxUnits \/ (Cur = sent.frame /\ closed))
  BY <1>0, <1>1 DEF LineInv
<1>3. line.content.id \in {NoId} \cup {f.content.id : f \in Frame}
  BY <1>0, <1>2, FrameFacts
<1> QED BY <1>0, <1>1, <1>2, <1>3

LEMMA HandleInv == ASSUME McpInv, Handle PROVE McpInv'
<1>0. WorkInv /\ ToldInv /\ RanInv
  BY DEF McpInv, WorkInv
<1> DEFINE m == line.content
<1>1. /\ pc = "handle" /\ UNCHANGED <<client, frames, sent, closed, at, line, answers, ran>>
      /\ answer' = IF Notification(m) THEN <<>>
                    ELSE IF ErrorCode(m) # 0
                    THEN Error(line.frame, IF m.object THEN m.id ELSE NoId, ErrorCode(m))
                    ELSE Result(line.frame, m.id)
      /\ pc' = IF Notification(m) THEN "read"
               ELSE IF Calls(m) THEN "call" ELSE "answer"
  BY DEF Handle, client
<1>2. /\ ~Idle /\ Lined /\ Message(m) /\ line.frame = Cur
      /\ m = frames[Cur].content
      /\ m.id \in {NoId} \cup {f.content.id : f \in Frame}
      /\ Owed(Cur) <=> ~Notification(m)
  BY <1>1, MessageFacts
<1>3. /\ PlaceInv' /\ Cur' = Cur /\ Cur \in DOMAIN frames /\ Cur \in Nat
      /\ \A i : (Owed(i)' <=> Owed(i)) /\ Size(i)' = Size(i)
      /\ FinalInv' /\ (Lined' => LineInv')
  BY <1>1, <1>2, SameLine
<1>4. Owed(Cur)' <=> Owed(Cur)
  BY <1>3 DEF Owed, Cut
<1>5. CASE Notification(m)
  <2>1. pc' = "read" /\ ~Owed(Cur)
    BY <1>1, <1>2, <1>5
  <2>2. ToldInv'
    BY <1>1, <1>2, <2>1, Skipped
  <2>3. WorkInv'
    BY <1>3, <2>1 DEF WorkInv, Idle, LargeInv, LineInv, Lined, CallInv, AnswerInv
  <2> QED BY <1>0, <1>1, <1>3, <2>2, <2>3, SameRan DEF McpInv
<1>6. CASE ~Notification(m)
  <2>0. ErrorCode(m) \in Int
    BY DEF ErrorCode
  <2>1. /\ answer' \in Response /\ answer'.frame = Cur
        /\ answer'.id # NoId => answer'.id = frames[Cur].content.id
    <3>1. CASE ErrorCode(m) # 0 /\ m.object
      <4>1. answer' = Error(Cur, m.id, ErrorCode(m))
        BY <1>1, <1>2, <1>6, <3>1
      <4> HIDE DEF m
      <4> QED BY <1>2, <1>3, <2>0, <4>1, ErrorIsResponse
    <3>2. CASE ErrorCode(m) # 0 /\ ~m.object
      <4>1. answer' = Error(Cur, NoId, ErrorCode(m))
        BY <1>1, <1>2, <1>6, <3>2
      <4> HIDE DEF m
      <4>2. NoId \in {NoId} \cup {f.content.id : f \in Frame}
        OBVIOUS
      <4> QED BY <1>3, <2>0, <4>1, <4>2, ErrorIsResponse
    <3>3. CASE ErrorCode(m) = 0
      <4>1. answer' = Result(Cur, m.id)
        BY <1>1, <1>2, <1>6, <3>3
      <4> HIDE DEF m
      <4> QED BY <1>2, <1>3, <4>1, ResultIsResponse
    <3> QED BY <3>1, <3>2, <3>3
  <2>2. pc' = (IF Calls(m) THEN "call" ELSE "answer")
    BY <1>1, <1>6
  <2>3. AnswerInv'
    BY <1>1, <1>2, <1>3, <1>4, <1>6, <2>1 DEF AnswerInv, Response
  <2>4. CallInv'
    BY <1>1, <1>2, <1>6, <2>2 DEF CallInv
  <2>5. LineInv'
    BY <1>3, <2>2 DEF LineInv
  <2>6. WorkInv'
    BY <1>1, <1>3, <2>2, <2>3, <2>4, <2>5 DEF WorkInv, Idle, LargeInv
  <2>7. Done' = Done
    BY <1>1, <1>3, <2>2 DEF Done, Idle
  <2> QED BY <1>0, <1>1, <1>3, <2>6, <2>7, SameTold, SameRan DEF McpInv
<1> QED BY <1>5, <1>6

LEMMA CallStepInv == ASSUME McpInv, Call PROVE McpInv'
<1>0. WorkInv /\ ToldInv /\ RanInv /\ CallInv /\ AnswerInv
  BY DEF McpInv, WorkInv
<1> DEFINE m == line.content
<1>1. /\ pc = "call" /\ pc' = "answer"
      /\ UNCHANGED <<client, frames, sent, closed, at, line, answer, answers>>
  BY DEF Call, client
<1>2. /\ ~Idle /\ line.frame = Cur /\ m = frames[Cur].content
      /\ Owed(Cur) <=> ~Notification(m)
      /\ Size(Cur) <= MaxUnits \/ (Cur = sent.frame /\ closed)
  BY <1>1, MessageFacts
<1>3. /\ PlaceInv' /\ Cur' = Cur /\ Cur \in DOMAIN frames /\ Cur \in Nat
      /\ \A i : (Owed(i)' <=> Owed(i)) /\ Size(i)' = Size(i)
      /\ FinalInv'
  BY <1>1, <1>2, SameLine
<1>4. Owed(Cur)' <=> Owed(Cur)
  BY <1>3 DEF Owed, Cut
<1>5. Calls(m) /\ ~Notification(m)
  BY <1>0, <1>1 DEF CallInv
<1>6. m.object /\ m.valid
  <2>1. ErrorCode(m) = 0 /\ -32600 # 0
    BY <1>5 DEF Calls
  <2>2. ~m.object \/ ~m.valid => ErrorCode(m) = -32600
    BY DEF ErrorCode
  <2> QED BY <2>1, <2>2
<1>7. m.id # NoId
  BY <1>5, <1>6 DEF Notification
<1>8. AnswerInv'
  BY <1>0, <1>1, <1>2, <1>3, <1>4, <1>5 DEF AnswerInv, Response
<1>9. WorkInv'
  BY <1>1, <1>3, <1>8 DEF WorkInv, Idle, LargeInv, LineInv, Lined, CallInv
<1>10. Done' = Done
  BY <1>1, <1>3 DEF Done, Idle
<1>11. RanInv'
  <2>1. ran' = ran \/ (ran' = ran \cup {Cur} /\ m.checks = "true")
    BY <1>2 DEF Call, AsksForChecks
  <2>2. /\ frames[Cur].content.id # NoId /\ frames[Cur].content.valid
    BY <1>2, <1>6, <1>7
  <2>3. CASE ran' = ran
    BY <1>0, <1>1, <2>3, SameRan
  <2>4. CASE ran' = ran \cup {Cur} /\ m.checks = "true"
    BY <1>0, <1>1, <1>2, <1>3, <2>2, <2>4 DEF RanInv, Size
  <2> QED BY <2>1, <2>3, <2>4
<1> QED BY <1>0, <1>1, <1>3, <1>9, <1>10, <1>11, SameTold DEF McpInv

LEMMA HandleFailsInv == ASSUME McpInv, HandleFails PROVE McpInv'
<1>0. WorkInv /\ ToldInv /\ RanInv
  BY DEF McpInv, WorkInv
<1>1. /\ pc \in {"handle", "call"} /\ pc' = "answer" /\ ~Notification(line.content)
      /\ answer' = Error(line.frame, NoId, -32603)
      /\ UNCHANGED <<client, frames, sent, closed, at, line, answers, ran>>
  BY DEF HandleFails, client
<1>2. ~Idle /\ line.frame = Cur /\ Owed(Cur)
  BY <1>1, MessageFacts
<1>3. /\ PlaceInv' /\ Cur' = Cur /\ Cur \in DOMAIN frames /\ Cur \in Nat
      /\ \A i : (Owed(i)' <=> Owed(i)) /\ Size(i)' = Size(i)
      /\ FinalInv'
  BY <1>1, <1>2, SameLine
<1>4. answer' \in Response /\ answer'.frame = Cur /\ answer'.id = NoId
  BY <1>1, <1>2, <1>3, ErrorIsResponse
<1>5. Owed(Cur)'
  BY <1>2, <1>3 DEF Owed, Cut
<1>6. AnswerInv'
  BY <1>1, <1>3, <1>4, <1>5 DEF AnswerInv, Response
<1>7. WorkInv'
  BY <1>1, <1>3, <1>6 DEF WorkInv, Idle, LargeInv, LineInv, Lined, CallInv
<1>8. Done' = Done
  BY <1>1, <1>3 DEF Done, Idle
<1> QED BY <1>0, <1>1, <1>3, <1>7, <1>8, SameTold, SameRan DEF McpInv

LEMMA AnswerStepInv == ASSUME McpInv, Answer PROVE McpInv'
<1>0. PlaceInv /\ WorkInv /\ ToldInv /\ RanInv /\ AnswerInv
  BY DEF McpInv, WorkInv
<1>1. /\ pc = "answer" /\ pc' = "read" /\ answers' = Append(answers, answer)
      /\ UNCHANGED <<client, frames, sent, closed, at, line, ran>>
  BY DEF Answer, client
<1>2. ~Idle
  BY <1>1 DEF Idle
<1>3. /\ PlaceInv' /\ Cur' = Cur /\ Cur \in DOMAIN frames /\ Cur \in Nat
      /\ \A i : (Owed(i)' <=> Owed(i)) /\ Size(i)' = Size(i)
      /\ FinalInv'
  BY <1>1, <1>2, SameLine
<1>4. /\ answer \in Response /\ answer.frame = Cur /\ Owed(Cur)
      /\ answer.id # NoId => answer.id = frames[Cur].content.id
  BY <1>0, <1>1 DEF AnswerInv
<1>5. WorkInv'
  BY <1>1, <1>3 DEF WorkInv, Idle, LargeInv, LineInv, Lined, CallInv, AnswerInv
<1>6. Done' = Cur /\ Done = Cur - 1
  BY <1>1, <1>3 DEF Done, Idle
<1>7. /\ answers \in Seq(Response) /\ answers' \in Seq(Response) /\ Len(answers) \in Nat
      /\ DOMAIN answers = 1..Len(answers) /\ DOMAIN answers' = 1..(Len(answers) + 1)
      /\ answers'[Len(answers) + 1] = answer
      /\ \A k \in DOMAIN answers : answers'[k] = answers[k] /\ answers[k].frame \in Nat
  <2>1. answers \in Seq(Response)
    BY <1>0 DEF ToldInv
  <2>2. \A k \in DOMAIN answers : answers[k].frame \in Nat
    <3>1. \A k \in DOMAIN answers : answers[k] \in Response
      BY <2>1
    <3> QED BY <3>1 DEF Response
  <2> QED BY <1>1, <1>4, <2>1, <2>2
<1>8. \A k \in DOMAIN answers :
         /\ answers[k].frame \in DOMAIN frames /\ answers[k].frame <= Cur - 1
         /\ answers[k].id # NoId => answers[k].id = frames[answers[k].frame].content.id
  BY <1>0, <1>6 DEF ToldInv
<1>9. \A k \in DOMAIN answers' : k \in DOMAIN answers \/ k = Len(answers) + 1
  BY <1>7
<1>10. Len(answers) + 1 \in DOMAIN answers' /\ DOMAIN answers \subseteq DOMAIN answers'
  BY <1>7
<1>11. ToldInv'
  <2>1. ASSUME NEW i \in DOMAIN frames
        PROVE  (\E k \in DOMAIN answers' : answers'[k].frame = i) <=> i <= Cur /\ Owed(i)
    <3>1. (\E k \in DOMAIN answers : answers[k].frame = i) <=> i <= Cur - 1 /\ Owed(i)
      BY <1>0, <1>6 DEF ToldInv
    <3>2. (\E k \in DOMAIN answers' : answers'[k].frame = i)
          <=> (\E k \in DOMAIN answers : answers[k].frame = i) \/ i = Cur
      BY <1>4, <1>7, <1>9, <1>10
    <3>3. i \in Nat
      BY <1>0, FrameFacts
    <3>4. CASE i = Cur
      BY <1>3, <1>4, <3>2, <3>4
    <3>5. CASE i # Cur
      <4>1. i <= Cur <=> i <= Cur - 1
        BY <1>3, <3>3, <3>5
      <4> QED BY <3>1, <3>2, <3>5, <4>1
    <3> QED BY <3>4, <3>5
  <2>2. \A k \in DOMAIN answers' :
           /\ answers'[k].frame \in DOMAIN frames /\ answers'[k].frame <= Cur
           /\ answers'[k].id # NoId
              => answers'[k].id = frames[answers'[k].frame].content.id
    BY <1>3, <1>4, <1>7, <1>8, <1>9
  <2>3. \A j, k \in DOMAIN answers' : j < k => answers'[j].frame < answers'[k].frame
    <3> SUFFICES ASSUME NEW j \in DOMAIN answers', NEW k \in DOMAIN answers', j < k
                 PROVE  answers'[j].frame < answers'[k].frame
      OBVIOUS
    <3>1. j \in DOMAIN answers
      BY <1>7, <1>9
    <3>2. CASE k \in DOMAIN answers
      <4>1. answers[j].frame < answers[k].frame
        BY <1>0, <3>1, <3>2 DEF ToldInv
      <4> QED BY <1>7, <3>1, <3>2, <4>1
    <3>3. CASE k = Len(answers) + 1
      BY <1>3, <1>4, <1>7, <1>8, <3>1, <3>3
    <3> QED BY <1>9, <3>2, <3>3
  <2>4. answers' \in Seq(Response)
    BY <1>7
  <2> QED BY <1>1, <1>3, <1>6, <2>1, <2>2, <2>3, <2>4 DEF ToldInv, Response
<1> QED BY <1>0, <1>1, <1>3, <1>5, <1>11, SameRan DEF McpInv

LEMMA AnswerFailsInv == ASSUME McpInv, AnswerFails PROVE McpInv'
<1>0. WorkInv /\ ToldInv /\ RanInv /\ AnswerInv
  BY DEF McpInv, WorkInv
<1>1. /\ pc = "answer" /\ pc' = "broken"
      /\ UNCHANGED <<client, frames, sent, closed, at, line, answer, answers, ran>>
  BY DEF AnswerFails, client
<1>2. ~Idle
  BY <1>1 DEF Idle
<1>3. /\ PlaceInv' /\ Cur' = Cur /\ Cur \in DOMAIN frames /\ Cur \in Nat
      /\ \A i : (Owed(i)' <=> Owed(i)) /\ Size(i)' = Size(i)
      /\ FinalInv'
  BY <1>1, <1>2, SameLine
<1>4. Owed(Cur)' <=> Owed(Cur)
  BY <1>3 DEF Owed, Cut
<1>5. AnswerInv'
  BY <1>0, <1>1, <1>3, <1>4 DEF AnswerInv, Response
<1>6. WorkInv'
  BY <1>1, <1>3, <1>5 DEF WorkInv, Idle, LargeInv, LineInv, Lined, CallInv
<1>7. Done' = Done
  BY <1>1, <1>3 DEF Done, Idle
<1> QED BY <1>0, <1>1, <1>3, <1>6, <1>7, SameTold, SameRan DEF McpInv

-----------------------------------------------------------------------------
LEMMA McpInit == ASSUME Init PROVE McpInv
<1>1. PICK n \in 1..MaxFrames : frames \in [1..n -> Frame]
  BY DEF Init
<1>2. n \in Nat /\ n >= 1
  BY McpAssumption
<1>3. frames \in Seq(Frame) /\ Len(frames) = n /\ DOMAIN frames = 1..n
  BY <1>1, <1>2
<1>4. /\ sent = [frame |-> 1, units |-> 0] /\ at = [frame |-> 1, units |-> 0]
      /\ closed = FALSE /\ gone = FALSE /\ pc = "read" /\ answers = <<>> /\ ran = {}
  BY DEF Init
<1>5. frames[1] \in Frame /\ Size(1) > 0
  BY <1>2, <1>3, McpAssumption DEF Size
<1>6. PlaceInv
  <2>1. Position([frame |-> 1, units |-> 0])
    BY <1>2, <1>3, <1>5 DEF Position
  <2>2. Position(sent) /\ Position(at)
    BY <1>4, <2>1
  <2>3. Behind
    BY <1>4 DEF Behind
  <2> QED BY <1>3, <1>4, <2>2, <2>3 DEF PlaceInv
<1>7. WorkInv
  BY <1>4 DEF WorkInv, Idle, FinalInv, LargeInv, LineInv, Lined, CallInv, AnswerInv
<1>8. ToldInv
  <2>1. Done = 0
    BY <1>4 DEF Done, Idle, Cur
  <2>2. answers \in Seq(Response) /\ DOMAIN answers = {}
    BY <1>4
  <2> QED BY <1>3, <2>1, <2>2 DEF ToldInv
<1> QED BY <1>4, <1>6, <1>7, <1>8 DEF McpInv, RanInv

LEMMA McpStep == ASSUME McpInv, [Next]_vars PROVE McpInv'
<1>1. CASE ClientWrites
  BY <1>1, ClientWritesInv
<1>2. CASE ClientCloses \/ ClientLeaves
  BY <1>2, ClientEndsInv
<1>3. CASE EndOfInput
  BY <1>3, EndOfInputInv
<1>4. CASE ReadLine
  BY <1>4, ReadLineInv
<1>5. CASE Discard
  BY <1>5, DiscardInv
<1>6. CASE Decode
  BY <1>6, DecodeInv
<1>7. CASE Handle
  BY <1>7, HandleInv
<1>8. CASE Call
  BY <1>8, CallStepInv
<1>9. CASE HandleFails
  BY <1>9, HandleFailsInv
<1>10. CASE Answer
  BY <1>10, AnswerStepInv
<1>11. CASE AnswerFails
  BY <1>11, AnswerFailsInv
<1>12. CASE UNCHANGED vars
  <2>0. PlaceInv /\ WorkInv /\ ToldInv /\ RanInv /\ UNCHANGED <<frames, sent, closed, gone, at>>
        /\ UNCHANGED <<pc, line, answer, answers, ran>>
    BY <1>12 DEF McpInv, vars, client
  <2>1. /\ PlaceInv' /\ Cur' = Cur /\ (Final' <=> Final)
        /\ \A i : (Owed(i)' <=> Owed(i)) /\ Size(i)' = Size(i)
    BY <2>0, SameInput
  <2>2. Owed(Cur)' <=> Owed(Cur)
    BY <2>1 DEF Owed, Cut
  <2>3. Done' = Done
    BY <2>0, <2>1 DEF Done, Idle
  <2>4. WorkInv'
    BY <2>0, <2>1, <2>2 DEF WorkInv, Idle, FinalInv, LargeInv, LineInv, Lined, CallInv,
                            AnswerInv, Response, Notification, Calls, Message
  <2> QED BY <2>0, <2>1, <2>3, <2>4, SameTold, SameRan DEF McpInv
<1> QED BY <1>1, <1>2, <1>3, <1>4, <1>5, <1>6, <1>7, <1>8, <1>9, <1>10, <1>11, <1>12
        DEF Next, Server

\* The invariant holds throughout, whatever the client does.
LEMMA McpInvariance == Spec => []McpInv
<1>1. Init => McpInv
  BY McpInit
<1>2. McpInv /\ [Next]_vars => McpInv'
  BY McpStep
<1> QED BY <1>1, <1>2, PTL DEF Spec

-----------------------------------------------------------------------------
(***************************************************************************)
(* Checks run only for a whole line of legal size that is a request with an *)
(* id and asks for them by a boolean (mcp.py:101-121, 135, 230).            *)
(***************************************************************************)
THEOREM ChecksOnRequest == Spec => []ChecksAreAskedFor
<1>1. McpInv => ChecksAreAskedFor
  BY DEF McpInv, RanInv, ChecksAreAskedFor, Size
<1> QED BY <1>1, McpInvariance, PTL

\* Everything up to Cur has been taken from the input.
LEMMA TakenIsUpToCur ==
    ASSUME PlaceInv PROVE \A i \in DOMAIN frames : i \in TakenFrames <=> i <= Cur
<1> TAKE i \in DOMAIN frames
<1>1. i \in Nat /\ at.frame \in Nat /\ at.units \in Nat
  BY FrameFacts, PlaceFacts
<1>2. i \in TakenFrames <=> i < at.frame \/ (i = at.frame /\ at.units > 0)
  BY DEF TakenFrames
<1>3. CASE at.units > 0
  BY <1>1, <1>2, <1>3 DEF Cur
<1>4. CASE ~(at.units > 0)
  BY <1>1, <1>2, <1>4 DEF Cur
<1> QED BY <1>3, <1>4

(***************************************************************************)
(* Between two lines the answers are those owed, one each, in order and     *)
(* under the ids of their requests (mcp.py:33-52, 101-121).                 *)
(***************************************************************************)
THEOREM EachIsAnsweredOnce == Spec => []OneAnswerEach
<1>1. ASSUME McpInv PROVE OneAnswerEach
  <2> SUFFICES ASSUME pc \in {"read", "stopped"}
               PROVE  /\ \A i \in DOMAIN frames :
                            {k \in DOMAIN answers : answers[k].frame = i} # {}
                              <=> i \in TakenFrames /\ Owed(i)
                      /\ \A j, k \in DOMAIN answers :
                            j < k => answers[j].frame < answers[k].frame
                      /\ \A k \in DOMAIN answers :
                            answers[k].id # NoId
                              => answers[k].id = frames[answers[k].frame].content.id
    BY DEF OneAnswerEach
  <2>1. Done = Cur /\ PlaceInv /\ ToldInv
    BY <1>1 DEF Done, Idle, McpInv
  <2>2. \A i \in DOMAIN frames : i \in TakenFrames <=> i <= Done
    BY <2>1, TakenIsUpToCur
  <2>3. \A i \in DOMAIN frames :
           (\E k \in DOMAIN answers : answers[k].frame = i) <=> i <= Done /\ Owed(i)
    BY <2>1 DEF ToldInv
  <2> QED BY <2>1, <2>2, <2>3 DEF ToldInv
<1> QED BY <1>1, McpInvariance, PTL
=============================================================================
