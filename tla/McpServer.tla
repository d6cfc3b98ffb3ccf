----------------------------- MODULE McpServer -----------------------------
(***************************************************************************)
(* mcp.py: the stdio server beside the client that writes to it.           *)
(*                                                                         *)
(* A frame is a line the client means to write: its size in units, the     *)
(* last of which is the line end, and its content.  The client writes unit *)
(* by unit and may stop anywhere; the server reads bounded lines, skips    *)
(* the rest of an oversized one, and answers.  A content is Blank, Garbage *)
(* (not UTF-8 or not strict JSON) or a message, a record:                  *)
(*   object  it is a JSON object         valid   version, method and id fit *)
(*   id      the id, NoId if there is none (or none that is valid)          *)
(*   method  its name                    params  they are an object        *)
(*   tool    the name, "" if it is none  arguments  they are an object     *)
(*   fields  the arguments satisfy the input schema of the tool            *)
(*   checks  execute_checks as given: "absent", "true", "false" or "other" *)
(***************************************************************************)
EXTENDS Integers, Sequences

CONSTANTS
    Frame,      \* frames the client may write
    MaxFrames,  \* bound of the model: frames written
    MaxUnits,   \* MAX_MCP_MESSAGE_BYTES, in units
    Chunk       \* how much of an oversized line is discarded at once

ASSUME McpAssumption ==
    /\ MaxFrames \in Nat /\ MaxUnits \in Nat \ {0} /\ Chunk \in Nat \ {0}
    /\ \A f \in Frame : f.size \in Nat \ {0}   \* a line has at least its end

VARIABLES
    frames,     \* what the client writes
    sent,       \* units written, [frame, units of it]
    closed,     \* the client has closed its end
    gone,       \* the client no longer reads answers
    at,         \* units the server has taken, [frame, units of it]
    pc,
    line,       \* what the server is working on, [frame, content]
    answer,     \* the response to it
    answers,    \* responses written, each with the frame it is about
    ran         \* captures that executed checks: the frames that asked for them

client == <<frames, sent, closed, gone>>
vars   == <<client, at, pc, line, answer, answers, ran>>

Blank   == [kind |-> "blank"]
Garbage == [kind |-> "garbage"]
NoId    == 0
Message(content) == content \notin {Blank, Garbage}
Tool == {"patchwitness_capture", "patchwitness_verify", "patchwitness_impact"}

Init ==
    /\ frames \in UNION {[1..n -> Frame] : n \in 1..MaxFrames}
    /\ sent = [frame |-> 1, units |-> 0] /\ closed = FALSE /\ gone = FALSE
    /\ at = [frame |-> 1, units |-> 0]
    /\ pc = "read" /\ line = <<>> /\ answer = <<>> /\ answers = <<>> /\ ran = {}

\* A position n units further: a whole frame is left behind.
Further(p, n) ==
    IF p.units + n = frames[p.frame].size THEN [frame |-> p.frame + 1, units |-> 0]
    ELSE [p EXCEPT !.units = @ + n]

-----------------------------------------------------------------------------
\* External: the client.
ClientWrites ==
    /\ ~closed /\ sent.frame <= Len(frames)
    /\ sent' = Further(sent, 1)
    /\ UNCHANGED <<frames, closed, gone, at, pc, line, answer, answers, ran>>

ClientCloses ==
    /\ ~closed /\ closed' = TRUE
    /\ UNCHANGED <<frames, sent, gone, at, pc, line, answer, answers, ran>>

ClientLeaves ==
    /\ ~gone /\ gone' = TRUE
    /\ UNCHANGED <<frames, sent, closed, at, pc, line, answer, answers, ran>>

-----------------------------------------------------------------------------
Smaller(a, b) == IF a < b THEN a ELSE b

\* Units of the current frame that are there to be read, and all it has.
There == IF sent.frame > at.frame THEN frames[at.frame].size - at.units
         ELSE sent.units - at.units
Rest  == IF at.frame > Len(frames) THEN 1 ELSE frames[at.frame].size - at.units

\* Mutant: read instead of readline, which waits for all it asked for.
Readline_Read(limit, n) == IF There >= limit THEN n = limit ELSE closed /\ n = There

\* readline(limit) returns n units: a line, the limit, or what precedes the end.
Readline(limit, n) ==
    LET want == Smaller(limit, Rest) IN
    IF There >= want THEN n = want ELSE closed /\ n = There

\* A line that ends before its line end lacks nothing but that, or is cut.
ContentOf(i, units) ==
    IF units >= frames[i].size - 1 THEN frames[i].content ELSE Garbage

Error(i, id, code) == [frame |-> i, id |-> id, code |-> code]
Result(i, id)      == [frame |-> i, id |-> id, code |-> 0]
TooLarge(i)        == Error(i, NoId, -32600)

Oversized(n) == n > MaxUnits

\* Mutant: one chunk of the rest is enough.
Ended_OneChunk(n) == TRUE

\* The n units read reach the line end.
Ended(n) == n = Rest

EndOfInput ==
    /\ pc = "read" /\ Readline(MaxUnits + 1, 0)
    /\ pc' = "stopped"
    /\ UNCHANGED <<client, at, line, answer, answers, ran>>

ReadLine ==
    /\ pc = "read"
    /\ \E n \in 1..MaxUnits + 1 :
          /\ Readline(MaxUnits + 1, n)
          /\ at' = Further(at, n)
          /\ IF Oversized(n)
             THEN /\ pc' = IF n = Rest THEN "answer" ELSE "discard"
                  /\ answer' = TooLarge(at.frame) /\ UNCHANGED line
             ELSE /\ pc' = "decode"
                  /\ line' = [frame |-> at.frame,
                              content |-> ContentOf(at.frame, at.units + n)]
                  /\ UNCHANGED answer
    /\ UNCHANGED <<client, answers, ran>>

\* One round of the loop that skips the rest of an oversized line.
Discard ==
    /\ pc = "discard"
    /\ \E n \in 0..Chunk :
          /\ Readline(Chunk, n)
          /\ at' = (IF n = 0 THEN at ELSE Further(at, n))
          /\ pc' = (IF n = 0 \/ Ended(n) THEN "answer" ELSE "discard")
    /\ UNCHANGED <<client, line, answer, answers, ran>>

\* Blank lines are skipped, others decoded.
Decode ==
    /\ pc = "decode"
    /\ pc' = CASE line.content = Blank -> "read"
               [] line.content = Garbage -> "answer"
               [] Message(line.content) -> "handle"
    /\ answer' = IF line.content = Garbage THEN Error(line.frame, NoId, -32700)
                 ELSE answer
    /\ UNCHANGED <<client, at, line, answers, ran>>

-----------------------------------------------------------------------------
(***************************************************************************)
(* handle: the response, or that the tool is to be called.                 *)
(***************************************************************************)
\* Mutant: only requests without a tool call can be notifications.
Notification_NotCalls(m) ==
    m.object /\ m.valid /\ m.id = NoId /\ m.method # "tools/call"

Notification(m) == m.object /\ m.valid /\ m.id = NoId

ErrorCode(m) ==
    IF ~m.object \/ ~m.valid THEN -32600
    ELSE IF ~m.params \/ (m.method = "tools/call" /\ (m.tool = "" \/ ~m.arguments))
    THEN -32602
    ELSE IF m.method \notin {"initialize", "tools/list", "tools/call"} THEN -32601
    ELSE 0

Calls(m) == m.method = "tools/call" /\ ErrorCode(m) = 0

Handle ==
    /\ pc = "handle"
    /\ LET m == line.content i == line.frame IN
       /\ answer' = IF Notification(m) THEN <<>>
                    ELSE IF ErrorCode(m) # 0
                    THEN Error(i, IF m.object THEN m.id ELSE NoId, ErrorCode(m))
                    ELSE Result(i, m.id)
       /\ pc' = IF Notification(m) THEN "read"
                ELSE IF Calls(m) THEN "call" ELSE "answer"
    /\ UNCHANGED <<client, at, line, answers, ran>>

AsksForChecks(m) == m.checks = "true"

\* _call: the arguments are validated before anything else; whatever is
\* raised is a result of the call.
Call ==
    /\ pc = "call"
    /\ LET m == line.content IN
       ran' = IF m.tool = "patchwitness_capture" /\ m.fields /\ AsksForChecks(m)
              THEN ran \cup {line.frame} ELSE ran
    /\ pc' = "answer"
    /\ UNCHANGED <<client, at, line, answer, answers>>

\* Anything else that goes wrong once handle knows it has a request.
HandleFails ==
    /\ pc \in {"handle", "call"} /\ ~Notification(line.content)
    /\ pc' = "answer" /\ answer' = Error(line.frame, NoId, -32603)
    /\ UNCHANGED <<client, at, line, answers, ran>>

Answer ==
    /\ pc = "answer" /\ ~gone
    /\ answers' = Append(answers, answer)
    /\ answer' = <<>>
    /\ pc' = "read"
    /\ UNCHANGED <<client, at, line, ran>>

\* Writing to a client that is gone ends the server.
AnswerFails ==
    /\ pc = "answer" /\ gone
    /\ pc' = "broken"
    /\ UNCHANGED <<client, at, line, answer, answers, ran>>

Server == EndOfInput \/ ReadLine \/ Discard \/ Decode \/ Handle \/ Call
          \/ HandleFails \/ Answer \/ AnswerFails

Next == ClientWrites \/ ClientCloses \/ ClientLeaves \/ Server

(***************************************************************************)
(* The server is a loop that only waits for input; a client need not ever  *)
(* write again.                                                            *)
(***************************************************************************)
Spec == Init /\ [][Next]_vars /\ WF_vars(Server)
-----------------------------------------------------------------------------
\* What the server owes an answer for, once it has taken a frame.
Cut(i)  == sent.frame = i /\ sent.units < frames[i].size - 1
Owed(i) == \/ frames[i].size > MaxUnits /\ ~(sent.frame = i /\ sent.units <= MaxUnits)
           \/ Cut(i)
           \/ /\ frames[i].content # Blank
              /\ frames[i].content # Garbage => ~Notification(frames[i].content)

TakenFrames == {i \in DOMAIN frames : i < at.frame \/ (i = at.frame /\ at.units > 0)}

(***************************************************************************)
(* Between two lines every frame taken so far has exactly one answer if it *)
(* is owed one and none otherwise, in order, and never under the id of     *)
(* another frame: an oversized or broken line does not shift what follows  *)
(* (mcp.py:33-52, 101-121).                                                *)
(***************************************************************************)
OneAnswerEach ==
    pc \in {"read", "stopped"} =>
        /\ \A i \in DOMAIN frames :
              {k \in DOMAIN answers : answers[k].frame = i} # {}
                <=> i \in TakenFrames /\ Owed(i)
        /\ \A j, k \in DOMAIN answers : j < k => answers[j].frame < answers[k].frame
        /\ \A k \in DOMAIN answers :
              answers[k].id # NoId => answers[k].id = frames[answers[k].frame].content.id

(***************************************************************************)
(* Checks run only for a whole line of legal size that is a request with   *)
(* an id and says so by a boolean ("Notifications ... must never dispatch  *)
(* a tool call", mcp.py:135; "checks are opt-in", mcp.py:230).             *)
(***************************************************************************)
ChecksAreAskedFor ==
    \A i \in ran :
        /\ frames[i].size <= MaxUnits \/ i = sent.frame
        /\ frames[i].content.id # NoId /\ frames[i].content.valid
        /\ frames[i].content.checks = "true"

(***************************************************************************)
(* Every frame written to its end is dealt with, its answer included,      *)
(* unless the client no longer reads; the server never waits for more of a *)
(* line than it needs (mcp.py:35, 45-46).                                  *)
(***************************************************************************)
Through(i) == at.frame > i + 1 \/ (at.frame = i + 1 /\ pc \in {"read", "discard", "stopped"})

EveryFrameIsTaken ==
    \A i \in 1..MaxFrames : sent.frame > i ~> Through(i) \/ pc = "broken"
=============================================================================
