------------------------- MODULE CheckProcessProofs -------------------------
(***************************************************************************)
(* Proofs about CheckProcess, for every set of processes, every limit,     *)
(* chunk size and pipe capacity.                                           *)
(***************************************************************************)
EXTENDS CheckProcess, TLAPS

Unstarted == pc \in {"validate", "pipes", "spawn"}
Stopping  == pc \in {"stop_group", "stop_kill", "stop_tree", "stop_direct",
                     "stop_wait", "stop_retry"}

\* Nothing happened before the shell started, and only legal limits start it.
StartInv ==
    /\ Unstarted => code = NoCode /\ \A p \in Proc : proc[p] = "unborn"
    /\ Unstarted \/ pc = "close" => active = Stream
    /\ pc # "validate" /\ failure # "invalid_limits" => ValidLimits
    /\ ValidLimits => \A s \in Stream : buf[s] <= Limit

\* As long as nothing was thrown away, the bytes written are those retained
\* and those still in the pipe.
Conserved ==
    ~Stopping /\ (pc = "done" => failure = "none") =>
        \A s \in Stream : written[s] = buf[s] + pipe[s]

\* A pipe whose end of file was seen is empty and nobody can write to it.
EndOfFile == \A s \in Stream \ active : pipe[s] = 0 /\ ~Held(s)

\* What is known of the shell's exit is its own status.
ExitKnown ==
    /\ code # NoCode => proc[Shell] = "reaped" /\ code = status
    /\ Succeeded => code # NoCode /\ active = {}

\* `failure` and `timed_out` name what happened.
Diagnosis ==
    /\ pc # "done" /\ ~Stopping => failure = "execution_failed" /\ ~timedOut
    /\ Stopping => failure \in {"execution_failed", "timeout", "output_limit"}
    /\ failure = "output_limit" => \E s \in Stream : written[s] > Limit
    /\ timedOut => expired /\ failure \in {"timeout", "cleanup_failed"}
    /\ failure = "timeout" => timedOut

GroupDown == Posix => \A p \in grouped : proc[p] # "live"

\* How far the cleanup has come.
Cleanup ==
    /\ \A p \in grouped : proc[p] # "unborn"
    /\ pc \in {"stop_direct", "stop_wait"} /\ groupOk => GroupDown
    /\ pc = "stop_tree" => ~Posix
    /\ pc = "stop_retry" => proc[Shell] = "reaped"

IInv == /\ TypeOK /\ StartInv /\ Conserved /\ EndOfFile
        /\ ExitKnown /\ Diagnosis /\ Cleanup /\ NoSurvivor

-----------------------------------------------------------------------------
USE ShellAssumption, SizeAssumption DEF Stream, ExitCode, NoCode, PcValue,
    Failure, Life, Limit, Posix

LEMMA KilledFacts ==
  ASSUME CheckTypeOK, NEW ps \in SUBSET Proc
  PROVE  /\ Killed(ps) \in [Proc -> Life]
         /\ \A p \in Proc : /\ Killed(ps)[p] = "unborn" <=> proc[p] = "unborn"
                            /\ Killed(ps)[p] = "reaped" <=> proc[p] = "reaped"
                            /\ Killed(ps)[p] = "live" => proc[p] = "live" /\ p \notin ps
<1>1. ASSUME NEW p \in Proc
      PROVE  IF p \in ps /\ proc[p] = "live"
               THEN Killed(ps)[p] = "dying" ELSE Killed(ps)[p] = proc[p]
  BY DEF Killed
<1>2. Killed(ps) \in [Proc -> Life]
  BY DEF Killed, CheckTypeOK
<1>3. QED BY <1>1, <1>2

LEMMA LimitRange ==
  ASSUME ParentTypeOK, ValidLimits PROVE Limit \in 1..MaxStreamBytes
<1>1. Limit \in Int
  BY DEF ParentTypeOK
<1>2. QED BY <1>1 DEF ValidLimits

LEMMA KillGroupFacts ==
  ASSUME CheckTypeOK, KillGroup
  PROVE  /\ proc' \in [Proc -> Life]
         /\ \A p \in Proc : /\ proc'[p] = "unborn" <=> proc[p] = "unborn"
                            /\ proc'[p] = "reaped" <=> proc[p] = "reaped"
         /\ groupOk' \in BOOLEAN
         /\ groupOk' => \A p \in grouped : proc'[p] # "live"
<1>1. grouped \in SUBSET Proc
  BY DEF CheckTypeOK
<1>2. CASE proc' = Killed(grouped) /\ groupOk' = TRUE
  BY <1>1, <1>2, KilledFacts
<1>3. CASE groupOk' = FALSE /\ UNCHANGED proc
  BY <1>3 DEF CheckTypeOK
<1>4. QED BY <1>2, <1>3 DEF KillGroup, Targets

LEMMA Initially == Init => IInv
<1> SUFFICES ASSUME Init PROVE IInv
  OBVIOUS
<1>1. /\ pc = "validate" /\ next = 0 /\ active = Stream /\ code = NoCode
      /\ failure = "execution_failed" /\ ownEnds = {} /\ grouped = {} /\ status = NoCode
      /\ request \in [limit : Requested, timeoutOk : BOOLEAN, platform : Platform]
      /\ buf = [s \in Stream |-> 0] /\ pipe = [s \in Stream |-> 0]
      /\ written = [s \in Stream |-> 0]
      /\ proc = [p \in Proc |-> "unborn"] /\ holds = [p \in Proc |-> {}]
  BY DEF Init
<1>2. ~timedOut /\ FlagTypeOK
  BY DEF Init, FlagTypeOK
<1>3. ParentTypeOK /\ CheckTypeOK /\ StreamTypeOK
  <2>1. ParentTypeOK
    <3>1. next = 0
      BY <1>1
    <3>2. next \in 0..2
      BY <3>1
    <3>3. QED BY <1>1, <3>2 DEF ParentTypeOK
  <2>2. CheckTypeOK
    BY <1>1 DEF CheckTypeOK
  <2>3. StreamTypeOK
    <3>1. 0 \in Nat /\ 0 \in 0..MaxStreamBytes
      OBVIOUS
    <3>2. QED BY <1>1, <3>1 DEF StreamTypeOK
  <2>4. QED BY <2>1, <2>2, <2>3
<1>4. StartInv
  <2>1. ValidLimits => \A s \in Stream : buf[s] <= Limit
    <3>1. \A s \in Stream : buf[s] = 0
      BY <1>1
    <3>2. ValidLimits => Limit \in 1..MaxStreamBytes
      BY <1>3, LimitRange
    <3>3. QED BY <3>1, <3>2
  <2>2. QED BY <1>1, <2>1 DEF StartInv, Unstarted
<1>5. Conserved
  <2>1. \A s \in Stream : buf[s] = 0 /\ pipe[s] = 0 /\ written[s] = 0
    BY <1>1
  <2>2. QED BY <2>1 DEF Conserved
<1>6. EndOfFile /\ ExitKnown
  BY <1>1 DEF EndOfFile, ExitKnown, Succeeded
<1>7. Diagnosis /\ Cleanup /\ NoSurvivor
  BY <1>1, <1>2 DEF Diagnosis, Stopping, Cleanup, NoSurvivor
<1>8. QED BY <1>2, <1>3, <1>4, <1>5, <1>6, <1>7 DEF IInv, TypeOK

LEMMA Validate_Step == ASSUME IInv, Validate PROVE IInv'
<1> USE DEF IInv, TypeOK, Validate, Finish, vars, parentVars, procVars, reading,
           verdict, flags, bytes
<1>1. ParentTypeOK' BY DEF ParentTypeOK
<1>2. FlagTypeOK' BY DEF FlagTypeOK
<1>3. CheckTypeOK' BY DEF CheckTypeOK
<1>4. StreamTypeOK' BY DEF StreamTypeOK
<1>5. StartInv' BY DEF StartInv, Unstarted, ValidLimits
<1>6. Conserved' BY DEF Conserved, Stopping
<1>7. EndOfFile' BY DEF EndOfFile, Held
<1>8. ExitKnown' BY DEF ExitKnown, Succeeded
<1>9. Diagnosis' BY DEF Diagnosis, Stopping
<1>10. Cleanup' BY DEF Cleanup, GroupDown
<1>11. NoSurvivor' BY DEF NoSurvivor, StartInv, Unstarted, CheckTypeOK
<1>12. QED BY <1>1, <1>2, <1>3, <1>4, <1>5, <1>6, <1>7, <1>8, <1>9, <1>10, <1>11

LEMMA OpenPipe_Step == ASSUME IInv, OpenPipe PROVE IInv'
<1> USE DEF IInv, TypeOK, OpenPipe, vars, parentVars, procVars, reading,
           verdict, flags, bytes
<1>1. ParentTypeOK' BY DEF ParentTypeOK
<1>2. FlagTypeOK' BY DEF FlagTypeOK
<1>3. CheckTypeOK' BY DEF CheckTypeOK
<1>4. StreamTypeOK' BY DEF StreamTypeOK
<1>5. StartInv' BY DEF StartInv, Unstarted, ValidLimits
<1>6. Conserved' BY DEF Conserved, Stopping
<1>7. EndOfFile' BY DEF EndOfFile, Held, StartInv, Unstarted
<1>8. ExitKnown' BY DEF ExitKnown, Succeeded
<1>9. Diagnosis' BY DEF Diagnosis, Stopping
<1>10. Cleanup' BY DEF Cleanup, GroupDown
<1>11. NoSurvivor' BY DEF NoSurvivor
<1>12. QED BY <1>1, <1>2, <1>3, <1>4, <1>5, <1>6, <1>7, <1>8, <1>9, <1>10, <1>11

LEMMA StartFails_Step == ASSUME IInv, StartFails PROVE IInv'
<1> USE DEF IInv, TypeOK, StartFails, Finish, vars, parentVars, procVars, reading,
           verdict, flags, bytes
<1>1. ParentTypeOK' BY DEF ParentTypeOK
<1>2. FlagTypeOK' BY DEF FlagTypeOK
<1>3. CheckTypeOK' BY DEF CheckTypeOK
<1>4. StreamTypeOK' BY DEF StreamTypeOK
<1>5. StartInv' BY DEF StartInv, Unstarted, ValidLimits, Diagnosis, Stopping
<1>6. Conserved' BY DEF Conserved, Stopping
<1>7. EndOfFile' BY DEF EndOfFile, Held
<1>8. ExitKnown' BY DEF ExitKnown, Succeeded
<1>9. Diagnosis' BY DEF Diagnosis, Stopping
<1>10. Cleanup' BY DEF Cleanup, GroupDown
<1>11. NoSurvivor' BY DEF NoSurvivor, StartInv, Unstarted, CheckTypeOK
<1>12. QED BY <1>1, <1>2, <1>3, <1>4, <1>5, <1>6, <1>7, <1>8, <1>9, <1>10, <1>11

LEMMA Spawn_Step == ASSUME IInv, Spawn PROVE IInv'
<1> USE DEF IInv, TypeOK, Spawn, vars, parentVars, procVars, reading,
           verdict, flags, bytes
<1>1. ParentTypeOK' BY DEF ParentTypeOK
<1>2. FlagTypeOK' BY DEF FlagTypeOK
<1>3. CheckTypeOK' BY DEF CheckTypeOK
<1>4. StreamTypeOK' BY DEF StreamTypeOK
<1>5. StartInv' BY DEF StartInv, Unstarted, ValidLimits
<1>6. Conserved' BY DEF Conserved, Stopping
<1>7. EndOfFile' BY DEF EndOfFile, Held, StartInv, Unstarted
<1>8. ExitKnown' BY DEF ExitKnown, Succeeded, StartInv, Unstarted, Diagnosis, Stopping
<1>9. Diagnosis' BY DEF Diagnosis, Stopping
<1>10. Cleanup'
  <2>1. proc'[Shell] = "live" /\ grouped' = {Shell}
    BY DEF CheckTypeOK
  <2>2. QED BY <2>1 DEF Cleanup
<1>11. NoSurvivor' BY DEF NoSurvivor
<1>12. QED BY <1>1, <1>2, <1>3, <1>4, <1>5, <1>6, <1>7, <1>8, <1>9, <1>10, <1>11

LEMMA CloseWriters_Step == ASSUME IInv, CloseWriters PROVE IInv'
<1> USE DEF IInv, TypeOK, CloseWriters, vars, parentVars, procVars, reading,
           verdict, flags, bytes
<1>1. ParentTypeOK' BY DEF ParentTypeOK
<1>2. FlagTypeOK' BY DEF FlagTypeOK
<1>3. CheckTypeOK' BY DEF CheckTypeOK
<1>4. StreamTypeOK' BY DEF StreamTypeOK
<1>5. StartInv' BY DEF StartInv, Unstarted, ValidLimits
<1>6. Conserved' BY DEF Conserved, Stopping
<1>7. EndOfFile' BY DEF EndOfFile, Held
<1>8. ExitKnown' BY DEF ExitKnown, Succeeded
<1>9. Diagnosis' BY DEF Diagnosis, Stopping
<1>10. Cleanup' BY DEF Cleanup, GroupDown
<1>11. NoSurvivor' BY DEF NoSurvivor
<1>12. QED BY <1>1, <1>2, <1>3, <1>4, <1>5, <1>6, <1>7, <1>8, <1>9, <1>10, <1>11

LEMMA CheckDeadline_Step == ASSUME IInv, CheckDeadline PROVE IInv'
<1> USE DEF IInv, TypeOK, CheckDeadline, PastDeadline, vars, parentVars, procVars, reading,
           verdict, flags, bytes
<1>1. ParentTypeOK'
  <2>0. next \in 0..2 /\ (next' = next \/ next' = 0)
    BY DEF ParentTypeOK
  <2> HIDE DEF CheckDeadline
  <2>1. next' \in 0..2
    BY <2>0
  <2> USE DEF CheckDeadline
  <2>2. pc' \in PcValue /\ failure' \in Failure
    BY DEF ParentTypeOK
  <2>3. QED BY <2>1, <2>2 DEF ParentTypeOK
<1>2. FlagTypeOK' BY DEF FlagTypeOK
<1>3. CheckTypeOK' BY DEF CheckTypeOK
<1>4. StreamTypeOK' BY DEF StreamTypeOK
<1>5. StartInv' BY DEF StartInv, Unstarted, ValidLimits, Diagnosis, Stopping
<1>6. Conserved' BY DEF Conserved, Stopping
<1>7. EndOfFile' BY DEF EndOfFile, Held
<1>8. ExitKnown' BY DEF ExitKnown, Succeeded
<1>9. Diagnosis' BY DEF Diagnosis, Stopping
<1>10. Cleanup' BY DEF Cleanup, GroupDown
<1>11. NoSurvivor' BY DEF NoSurvivor
<1>12. QED BY <1>1, <1>2, <1>3, <1>4, <1>5, <1>6, <1>7, <1>8, <1>9, <1>10, <1>11

LEMMA Read_Step == ASSUME IInv, NEW s \in Stream, Read(s) PROVE IInv'
<1> DEFINE chunk == Least(ReadCount(s), pipe[s])
           rest == <<request, code, timedOut, directOk, groupOk, expired, ownEnds,
                     proc, grouped, holds, status, written>>
<1> USE DEF IInv, TypeOK
<1>1. /\ pc = "read" /\ failure = "execution_failed" /\ ~timedOut
      /\ next = s /\ next' = s + 1 /\ UNCHANGED rest
      /\ pc' = IF failure' = "output_limit" THEN "stop_group"
                 ELSE IF s = 0 THEN "read" ELSE "poll"
  BY DEF Read, procVars, flags, Diagnosis, Stopping
<1>2. /\ ValidLimits /\ Limit \in 1..MaxStreamBytes
      /\ \A t \in Stream : buf[t] \in 0..Limit /\ pipe[t] \in Nat /\ written[t] \in Nat
      /\ \A t \in Stream : written[t] = buf[t] + pipe[t]
  <2>1. ValidLimits
    BY <1>1 DEF StartInv
  <2>2. Limit \in 1..MaxStreamBytes
    BY <2>1, LimitRange
  <2>3. \A t \in Stream : buf[t] \in 0..MaxStreamBytes /\ buf[t] <= Limit
    BY <2>1 DEF StartInv, StreamTypeOK
  <2>4. \A t \in Stream : written[t] = buf[t] + pipe[t]
    BY <1>1 DEF Conserved, Stopping
  <2>5. QED BY <2>1, <2>2, <2>3, <2>4 DEF StreamTypeOK
<1>3. /\ chunk \in Nat /\ chunk <= pipe[s]
      /\ chunk = 0 => pipe[s] = 0
  <2>1. ReadCount(s) \in Nat /\ ReadCount(s) > 0
    BY <1>2 DEF ReadCount, Least
  <2>2. QED BY <2>1, <1>2 DEF Least
<1>4. \/ UNCHANGED <<active, buf, failure, pipe>>
      \/ /\ pipe[s] = 0 /\ ~Held(s)
         /\ active' = active \ {s} /\ UNCHANGED <<buf, failure, pipe>>
      \/ /\ s \in active /\ UNCHANGED active
         /\ pipe' = [pipe EXCEPT ![s] = @ - chunk]
         /\ \/ Overflows(s, chunk) /\ failure' = "output_limit" /\ UNCHANGED buf
            \/ ~Overflows(s, chunk) /\ UNCHANGED failure /\ buf' = [buf EXCEPT ![s] = @ + chunk]
  BY <1>2, <1>3 DEF Read, NoData
<1> HIDE DEF chunk
<1>5. ParentTypeOK' /\ CheckTypeOK'
  <2>1. /\ pc' \in PcValue /\ next' \in 0..2
        /\ failure' \in Failure /\ active' \subseteq Stream
    <3>1. pc' \in PcValue /\ next' \in 0..2
      BY <1>1
    <3>2. failure' \in Failure /\ active' \subseteq Stream
      BY <1>4 DEF ParentTypeOK
    <3>3. QED BY <3>1, <3>2
  <2>2. ParentTypeOK'
    BY <1>1, <2>1 DEF ParentTypeOK
  <2>3. CheckTypeOK'
    BY <1>1 DEF CheckTypeOK
  <2>4. QED BY <2>2, <2>3
<1>6. FlagTypeOK'
  BY <1>1 DEF FlagTypeOK
<1>7. StreamTypeOK' /\ (\A t \in Stream : buf'[t] \in 0..Limit)
  <2>1. buf' \in [Stream -> 0..MaxStreamBytes] /\ \A t \in Stream : buf'[t] \in 0..Limit
    BY <1>2, <1>3, <1>4 DEF StreamTypeOK, Overflows
  <2>2. pipe' \in [Stream -> Nat]
    BY <1>2, <1>3, <1>4 DEF StreamTypeOK
  <2>3. QED BY <1>1, <2>1, <2>2 DEF StreamTypeOK
<1>8. StartInv'
  <2>1. ValidLimits' /\ Limit' = Limit
    BY <1>1, <1>2 DEF ValidLimits
  <2>2. pc' \notin {"validate", "pipes", "spawn", "close"}
    BY <1>1
  <2>3. \A t \in Stream : buf'[t] <= Limit'
    BY <1>2, <1>7, <2>1
  <2>4. QED BY <2>1, <2>2, <2>3 DEF StartInv, Unstarted
<1>9. Conserved'
  BY <1>1, <1>2, <1>3, <1>4 DEF Conserved, Stopping, StreamTypeOK
<1>10. EndOfFile'
  <2>1. \A t \in Stream : Held(t)' = Held(t)
    BY <1>1 DEF Held
  <2>2. ASSUME NEW t \in Stream \ active' PROVE pipe'[t] = 0 /\ ~Held(t)
    BY <1>4, <2>2 DEF EndOfFile, StreamTypeOK
  <2>3. QED BY <2>1, <2>2 DEF EndOfFile
<1>11. ExitKnown' /\ NoSurvivor'
  BY <1>1, <1>4 DEF ExitKnown, Succeeded, NoSurvivor
<1>12. failure' = "output_limit" => \E t \in Stream : written'[t] > Limit'
  BY <1>1, <1>2, <1>3, <1>4 DEF Overflows
<1>13. Diagnosis'
  <2>1. failure' \in {"execution_failed", "output_limit"} /\ ~timedOut'
    BY <1>1, <1>4
  <2>2. ~Stopping' => failure' = "execution_failed"
    BY <1>1, <2>1 DEF Stopping
  <2>3. QED BY <1>12, <2>1, <2>2 DEF Diagnosis
<1>14. Cleanup'
  BY <1>1 DEF Cleanup, GroupDown
<1>15. QED BY <1>5, <1>6, <1>7, <1>8, <1>9, <1>10, <1>11, <1>13, <1>14

LEMMA ReadFails_Step == ASSUME IInv, ReadFails PROVE IInv'
<1> USE DEF IInv, TypeOK, ReadFails, vars, parentVars, procVars, reading,
           verdict, flags, bytes
<1>1. ParentTypeOK' BY DEF ParentTypeOK
<1>2. FlagTypeOK' BY DEF FlagTypeOK
<1>3. CheckTypeOK' BY DEF CheckTypeOK
<1>4. StreamTypeOK' BY DEF StreamTypeOK
<1>5. StartInv' BY DEF StartInv, Unstarted, ValidLimits, Diagnosis, Stopping
<1>6. Conserved' BY DEF Conserved, Stopping
<1>7. EndOfFile' BY DEF EndOfFile, Held
<1>8. ExitKnown' BY DEF ExitKnown, Succeeded
<1>9. Diagnosis' BY DEF Diagnosis, Stopping
<1>10. Cleanup' BY DEF Cleanup, GroupDown
<1>11. NoSurvivor' BY DEF NoSurvivor
<1>12. QED BY <1>1, <1>2, <1>3, <1>4, <1>5, <1>6, <1>7, <1>8, <1>9, <1>10, <1>11

LEMMA Poll_Step == ASSUME IInv, Poll PROVE IInv'
<1> USE DEF IInv, TypeOK, Poll, Reap, Complete, Finish, vars, parentVars, procVars, reading,
           verdict, flags, bytes
<1>1. ParentTypeOK' BY DEF ParentTypeOK, CheckTypeOK
<1>2. FlagTypeOK' BY DEF FlagTypeOK
<1>3. CheckTypeOK' BY DEF CheckTypeOK
<1>4. StreamTypeOK' BY DEF StreamTypeOK
<1>5. StartInv' BY DEF StartInv, Unstarted, ValidLimits, Diagnosis, Stopping
<1>6. Conserved' BY DEF Conserved, Stopping
<1>7. EndOfFile' BY DEF EndOfFile, Held
<1>8. ExitKnown' BY DEF ExitKnown, Succeeded, CheckTypeOK
<1>9. Diagnosis' BY DEF Diagnosis, Stopping
<1>10. Cleanup' BY DEF Cleanup, GroupDown, CheckTypeOK
<1>11. NoSurvivor' BY DEF NoSurvivor
<1>12. QED BY <1>1, <1>2, <1>3, <1>4, <1>5, <1>6, <1>7, <1>8, <1>9, <1>10, <1>11

LEMMA StopReap_Step == ASSUME IInv, StopReap PROVE IInv'
<1> USE DEF IInv, TypeOK, StopReap, Reap, vars, parentVars, procVars, reading,
           verdict, flags, bytes
<1>1. ParentTypeOK' BY DEF ParentTypeOK, CheckTypeOK
<1>2. FlagTypeOK' BY DEF FlagTypeOK
<1>3. CheckTypeOK' BY DEF CheckTypeOK
<1>4. StreamTypeOK' BY DEF StreamTypeOK
<1>5. StartInv' BY DEF StartInv, Unstarted, ValidLimits
<1>6. Conserved' BY DEF Conserved, Stopping
<1>7. EndOfFile' BY DEF EndOfFile, Held
<1>8. ExitKnown' BY DEF ExitKnown, Succeeded, CheckTypeOK
<1>9. Diagnosis' BY DEF Diagnosis, Stopping
<1>10. Cleanup' BY DEF Cleanup, GroupDown, CheckTypeOK
<1>11. NoSurvivor' BY DEF NoSurvivor
<1>12. QED BY <1>1, <1>2, <1>3, <1>4, <1>5, <1>6, <1>7, <1>8, <1>9, <1>10, <1>11

LEMMA StopGroup_Step == ASSUME IInv, StopGroup PROVE IInv'
<1> USE DEF IInv, TypeOK, StopGroup, vars, parentVars, procVars, reading,
           verdict, flags, bytes
<1>1. ParentTypeOK' BY DEF ParentTypeOK
<1>2. FlagTypeOK'
  BY KillGroupFacts DEF FlagTypeOK
<1>3. CheckTypeOK'
  BY KillGroupFacts DEF CheckTypeOK
<1>4. StreamTypeOK' BY DEF StreamTypeOK
<1>5. StartInv' BY DEF StartInv, Unstarted, ValidLimits
<1>6. Conserved' BY DEF Conserved, Stopping
<1>7. EndOfFile' BY DEF EndOfFile, Held
<1>8. ExitKnown'
  <2>1. proc[Shell] = "reaped" => proc'[Shell] = "reaped"
    BY KillGroupFacts
  <2>2. pc' = "done" => failure' # "none"
    BY DEF Diagnosis, Stopping
  <2>3. QED BY <2>1, <2>2 DEF ExitKnown, Succeeded
<1>9. Diagnosis' BY DEF Diagnosis, Stopping
<1>10. Cleanup'
  <2>1. \A p \in grouped : proc'[p] # "unborn"
    BY KillGroupFacts DEF Cleanup, CheckTypeOK
  <2>2. groupOk' => \A p \in grouped : proc'[p] # "live"
    BY KillGroupFacts DEF CheckTypeOK
  <2>3. QED BY <2>1, <2>2 DEF Cleanup, GroupDown
<1>11. NoSurvivor' BY DEF NoSurvivor
<1>12. QED BY <1>1, <1>2, <1>3, <1>4, <1>5, <1>6, <1>7, <1>8, <1>9, <1>10, <1>11

LEMMA StopTree_Step == ASSUME IInv, StopTree PROVE IInv'
<1> USE DEF IInv, TypeOK, StopTree, Reap, vars, parentVars, procVars, reading,
           verdict, flags, bytes
<1>1. ParentTypeOK' BY DEF ParentTypeOK, CheckTypeOK
<1>2. FlagTypeOK' BY DEF FlagTypeOK
<1>3. CheckTypeOK' BY DEF CheckTypeOK
<1>4. StreamTypeOK' BY DEF StreamTypeOK
<1>5. StartInv' BY DEF StartInv, Unstarted, ValidLimits
<1>6. Conserved' BY DEF Conserved, Stopping
<1>7. EndOfFile' BY DEF EndOfFile, Held
<1>8. ExitKnown'
  <2>1. code' # NoCode => proc'[Shell] = "reaped" /\ code' = status'
    BY DEF ExitKnown, CheckTypeOK
  <2>2. QED BY <2>1 DEF ExitKnown, Succeeded
<1>9. Diagnosis' BY DEF Diagnosis, Stopping
<1>10. Cleanup' BY DEF Cleanup, GroupDown, CheckTypeOK
<1>11. NoSurvivor' BY DEF NoSurvivor
<1>12. QED BY <1>1, <1>2, <1>3, <1>4, <1>5, <1>6, <1>7, <1>8, <1>9, <1>10, <1>11

LEMMA Taskkill_Step == ASSUME IInv, Taskkill PROVE IInv'
<1> USE DEF IInv, TypeOK, Taskkill, vars, parentVars, procVars, reading,
           verdict, flags, bytes
<1>1. ParentTypeOK' BY DEF ParentTypeOK
<1>2. FlagTypeOK' BY DEF FlagTypeOK
<1>3. CheckTypeOK'
  <2>1. proc' \in [Proc -> Life]
    BY KilledFacts
  <2>2. QED BY <2>1 DEF CheckTypeOK
<1>4. StreamTypeOK' BY DEF StreamTypeOK
<1>5. StartInv' BY DEF StartInv, Unstarted, ValidLimits
<1>6. Conserved' BY DEF Conserved, Stopping
<1>7. EndOfFile' BY DEF EndOfFile, Held
<1>8. ExitKnown'
  <2>1. proc[Shell] = "reaped" => proc'[Shell] = "reaped"
    BY KilledFacts DEF Taskkill
  <2>2. QED BY <2>1 DEF ExitKnown, Succeeded
<1>9. Diagnosis' BY DEF Diagnosis, Stopping
<1>10. Cleanup'
  <2>1. \A p \in Proc : /\ proc'[p] = "unborn" => proc[p] = "unborn"
                        /\ proc'[p] = "live" => proc[p] = "live"
    BY KilledFacts DEF Taskkill
  <2>2. grouped \subseteq Proc /\ \A p \in grouped : proc[p] # "unborn"
    BY DEF CheckTypeOK, Cleanup
  <2>3. ~Posix'
    BY DEF Cleanup
  <2>4. QED BY <2>1, <2>2, <2>3 DEF Cleanup, GroupDown
<1>11. NoSurvivor' BY DEF NoSurvivor
<1>12. QED BY <1>1, <1>2, <1>3, <1>4, <1>5, <1>6, <1>7, <1>8, <1>9, <1>10, <1>11

LEMMA StopDirect_Step == ASSUME IInv, StopDirect PROVE IInv'
<1> USE DEF IInv, TypeOK, StopDirect, Reap, vars, parentVars, procVars, reading,
           verdict, flags, bytes
<1>1. ParentTypeOK' BY DEF ParentTypeOK, CheckTypeOK
<1>2. FlagTypeOK' BY DEF FlagTypeOK
<1>3. CheckTypeOK'
  <2>1. {Shell} \in SUBSET Proc
    OBVIOUS
  <2>2. proc' \in [Proc -> Life]
    <3>1. Killed({Shell}) \in [Proc -> Life]
      BY <2>1, KilledFacts
    <3>2. QED BY <3>1 DEF CheckTypeOK
  <2>3. QED BY <2>2 DEF CheckTypeOK
<1>4. StreamTypeOK' BY DEF StreamTypeOK
<1>5. StartInv' BY DEF StartInv, Unstarted, ValidLimits
<1>6. Conserved' BY DEF Conserved, Stopping
<1>7. EndOfFile' BY DEF EndOfFile, Held
<1>8. ExitKnown'
  <2>1. pc' # "done" /\ (code' # NoCode => proc'[Shell] = "reaped" /\ code' = status')
    BY DEF ExitKnown, CheckTypeOK
  <2>2. QED BY <2>1 DEF ExitKnown, Succeeded
<1>9. Diagnosis' BY DEF Diagnosis, Stopping
<1>10. Cleanup'
  <2>1. {Shell} \in SUBSET Proc
    OBVIOUS
  <2>2. \A p \in Proc : /\ Killed({Shell})[p] = "unborn" => proc[p] = "unborn"
                        /\ Killed({Shell})[p] = "live" => proc[p] = "live"
    BY <2>1, KilledFacts
  <2>3. \A p \in Proc : /\ proc'[p] = "unborn" => proc[p] = "unborn"
                        /\ proc'[p] = "live" => proc[p] = "live"
    BY <2>2 DEF CheckTypeOK
  <2>4. QED BY <2>3 DEF Cleanup, GroupDown, CheckTypeOK
<1>11. NoSurvivor' BY DEF NoSurvivor
<1>12. QED BY <1>1, <1>2, <1>3, <1>4, <1>5, <1>6, <1>7, <1>8, <1>9, <1>10, <1>11

LEMMA StopWait_Step == ASSUME IInv, StopWait PROVE IInv'
<1> USE DEF IInv, TypeOK, StopWait, Reap, Stopped, Finish, vars, parentVars, procVars, reading,
           verdict, flags, bytes
<1>1. ParentTypeOK' BY DEF ParentTypeOK, CheckTypeOK
<1>2. FlagTypeOK' BY DEF FlagTypeOK
<1>3. CheckTypeOK' BY DEF CheckTypeOK
<1>4. StreamTypeOK' BY DEF StreamTypeOK
<1>5. StartInv' BY DEF StartInv, Unstarted, ValidLimits, Diagnosis, Stopping
<1>6. Conserved' BY DEF Conserved, Stopping, Diagnosis
<1>7. EndOfFile' BY DEF EndOfFile, Held
<1>8. ExitKnown' BY DEF ExitKnown, Succeeded, CheckTypeOK, Diagnosis, Stopping
<1>9. Diagnosis' BY DEF Diagnosis, Stopping
<1>10. Cleanup' BY DEF Cleanup, GroupDown, CheckTypeOK
<1>11. NoSurvivor' BY DEF NoSurvivor, Cleanup, CheckTypeOK, GroupDown
<1>12. QED BY <1>1, <1>2, <1>3, <1>4, <1>5, <1>6, <1>7, <1>8, <1>9, <1>10, <1>11

LEMMA StopWaitFails_Step == ASSUME IInv, StopWaitFails PROVE IInv'
<1> USE DEF IInv, TypeOK, StopWaitFails, Stopped, Finish, vars, parentVars, procVars, reading,
           verdict, flags, bytes
<1>1. ParentTypeOK' BY DEF ParentTypeOK
<1>2. FlagTypeOK' BY DEF FlagTypeOK
<1>3. CheckTypeOK' BY DEF CheckTypeOK
<1>4. StreamTypeOK' BY DEF StreamTypeOK
<1>5. StartInv' BY DEF StartInv, Unstarted, ValidLimits, Diagnosis, Stopping
<1>6. Conserved' BY DEF Conserved, Stopping
<1>7. EndOfFile' BY DEF EndOfFile, Held
<1>8. ExitKnown' BY DEF ExitKnown, Succeeded
<1>9. Diagnosis' BY DEF Diagnosis, Stopping
<1>10. Cleanup' BY DEF Cleanup, GroupDown
<1>11. NoSurvivor' BY DEF NoSurvivor
<1>12. QED BY <1>1, <1>2, <1>3, <1>4, <1>5, <1>6, <1>7, <1>8, <1>9, <1>10, <1>11

LEMMA StopRetry_Step == ASSUME IInv, StopRetry PROVE IInv'
<1> USE DEF IInv, TypeOK, StopRetry, Stopped, Finish, vars, parentVars, procVars, reading,
           verdict, flags, bytes
<1>1. ParentTypeOK' BY DEF ParentTypeOK
<1>2. FlagTypeOK'
  BY KillGroupFacts DEF FlagTypeOK
<1>3. CheckTypeOK'
  BY KillGroupFacts DEF CheckTypeOK
<1>4. StreamTypeOK' BY DEF StreamTypeOK
<1>5. StartInv' BY DEF StartInv, Unstarted, ValidLimits, Diagnosis, Stopping
<1>6. Conserved' BY DEF Conserved, Stopping, Diagnosis
<1>7. EndOfFile' BY DEF EndOfFile, Held
<1>8. ExitKnown'
  <2>1. proc[Shell] = "reaped" => proc'[Shell] = "reaped"
    BY KillGroupFacts
  <2>2. pc' = "done" => failure' # "none"
    BY DEF Diagnosis, Stopping
  <2>3. QED BY <2>1, <2>2 DEF ExitKnown, Succeeded
<1>9. Diagnosis' BY DEF Diagnosis, Stopping
<1>10. Cleanup'
  <2>1. \A p \in grouped : proc'[p] # "unborn"
    BY KillGroupFacts DEF Cleanup, CheckTypeOK
  <2>2. QED BY <2>1 DEF Cleanup
<1>11. NoSurvivor'
  <2>1. proc'[Shell] = "reaped"
    BY KillGroupFacts DEF Cleanup, CheckTypeOK
  <2>2. groupOk' => \A p \in grouped : proc'[p] # "live"
    BY KillGroupFacts DEF CheckTypeOK
  <2>3. QED BY <2>1, <2>2 DEF NoSurvivor
<1>12. QED BY <1>1, <1>2, <1>3, <1>4, <1>5, <1>6, <1>7, <1>8, <1>9, <1>10, <1>11

LEMMA DeadlinePasses_Step == ASSUME IInv, DeadlinePasses PROVE IInv'
<1> USE DEF IInv, TypeOK, DeadlinePasses, vars, parentVars, procVars, reading,
           verdict, flags, bytes
<1>1. ParentTypeOK' BY DEF ParentTypeOK
<1>2. FlagTypeOK' BY DEF FlagTypeOK
<1>3. CheckTypeOK' BY DEF CheckTypeOK
<1>4. StreamTypeOK' BY DEF StreamTypeOK
<1>5. StartInv' BY DEF StartInv, Unstarted, ValidLimits
<1>6. Conserved' BY DEF Conserved, Stopping
<1>7. EndOfFile' BY DEF EndOfFile, Held
<1>8. ExitKnown' BY DEF ExitKnown, Succeeded
<1>9. Diagnosis' BY DEF Diagnosis, Stopping
<1>10. Cleanup' BY DEF Cleanup, GroupDown
<1>11. NoSurvivor' BY DEF NoSurvivor
<1>12. QED BY <1>1, <1>2, <1>3, <1>4, <1>5, <1>6, <1>7, <1>8, <1>9, <1>10, <1>11

LEMMA Write_Step == ASSUME IInv, NEW p \in Proc, NEW s \in Stream, Write(p, s) PROVE IInv'
<1> USE DEF IInv, TypeOK, Write, vars, parentVars, procVars, reading,
           verdict, flags, bytes
<1>1. ParentTypeOK' BY DEF ParentTypeOK
<1>2. FlagTypeOK' BY DEF FlagTypeOK
<1>3. CheckTypeOK' BY DEF CheckTypeOK
<1>4. StreamTypeOK'
  BY DEF StreamTypeOK
<1>5. StartInv' BY DEF StartInv, Unstarted, ValidLimits
<1>6. Conserved'
  BY DEF Conserved, StreamTypeOK, Stopping
<1>7. EndOfFile' BY DEF EndOfFile, Held
<1>8. ExitKnown' BY DEF ExitKnown, Succeeded
<1>9. Diagnosis'
  <2>1. ASSUME NEW t \in Stream, written[t] > Limit PROVE written'[t] > Limit'
    <3>1. Limit' = Limit /\ Limit \in Int
      BY DEF ParentTypeOK
    <3>2. /\ written[t] \in Nat
          /\ written'[t] = written[t] \/ written'[t] = written[t] + 1
      BY DEF StreamTypeOK
    <3>3. QED BY <2>1, <3>1, <3>2
  <2>2. failure = "output_limit" => \E t \in Stream : written'[t] > Limit'
    BY <2>1 DEF Diagnosis
  <2>3. QED BY <2>2 DEF Diagnosis, Stopping
<1>10. Cleanup' BY DEF Cleanup, GroupDown
<1>11. NoSurvivor' BY DEF NoSurvivor
<1>12. QED BY <1>1, <1>2, <1>3, <1>4, <1>5, <1>6, <1>7, <1>8, <1>9, <1>10, <1>11

LEMMA CloseEnd_Step == ASSUME IInv, NEW p \in Proc, NEW s \in Stream, CloseEnd(p, s) PROVE IInv'
<1> USE DEF IInv, TypeOK, CloseEnd, vars, parentVars, procVars, reading,
           verdict, flags, bytes
<1>1. ParentTypeOK' BY DEF ParentTypeOK
<1>2. FlagTypeOK' BY DEF FlagTypeOK
<1>3. CheckTypeOK' BY DEF CheckTypeOK
<1>4. StreamTypeOK' BY DEF StreamTypeOK
<1>5. StartInv' BY DEF StartInv, Unstarted, ValidLimits
<1>6. Conserved' BY DEF Conserved, Stopping
<1>7. EndOfFile' BY DEF EndOfFile, Held
<1>8. ExitKnown' BY DEF ExitKnown, Succeeded
<1>9. Diagnosis' BY DEF Diagnosis, Stopping
<1>10. Cleanup' BY DEF Cleanup, GroupDown
<1>11. NoSurvivor' BY DEF NoSurvivor
<1>12. QED BY <1>1, <1>2, <1>3, <1>4, <1>5, <1>6, <1>7, <1>8, <1>9, <1>10, <1>11

LEMMA Fork_Step == ASSUME IInv, NEW p \in Proc, NEW q \in Proc, Fork(p, q) PROVE IInv'
<1> USE DEF IInv, TypeOK, Fork, vars, parentVars, procVars, reading,
           verdict, flags, bytes
<1>1. ParentTypeOK' BY DEF ParentTypeOK
<1>2. FlagTypeOK' BY DEF FlagTypeOK
<1>3. CheckTypeOK' BY DEF CheckTypeOK
<1>4. StreamTypeOK' BY DEF StreamTypeOK
<1>5. StartInv' BY DEF StartInv, Unstarted, ValidLimits
<1>6. Conserved' BY DEF Conserved, Stopping
<1>7. EndOfFile' BY DEF EndOfFile, Held
<1>8. ExitKnown' BY DEF ExitKnown, Succeeded, CheckTypeOK
<1>9. Diagnosis' BY DEF Diagnosis, Stopping
<1>10. Cleanup'
  <2>1. \A r \in grouped' : proc'[r] # "unborn"
    BY DEF Cleanup, CheckTypeOK
  <2>2. GroupDown => GroupDown'
    BY DEF GroupDown, Cleanup, CheckTypeOK
  <2>3. proc[Shell] = "reaped" => proc'[Shell] = "reaped"
    BY DEF CheckTypeOK
  <2>4. QED BY <2>1, <2>2, <2>3 DEF Cleanup
<1>11. NoSurvivor' BY DEF NoSurvivor, Cleanup, CheckTypeOK, GroupDown
<1>12. QED BY <1>1, <1>2, <1>3, <1>4, <1>5, <1>6, <1>7, <1>8, <1>9, <1>10, <1>11

LEMMA Detach_Step == ASSUME IInv, NEW p \in Proc, Detach(p) PROVE IInv'
<1> USE DEF IInv, TypeOK, Detach, vars, parentVars, procVars, reading,
           verdict, flags, bytes
<1>1. ParentTypeOK' BY DEF ParentTypeOK
<1>2. FlagTypeOK' BY DEF FlagTypeOK
<1>3. CheckTypeOK' BY DEF CheckTypeOK
<1>4. StreamTypeOK' BY DEF StreamTypeOK
<1>5. StartInv' BY DEF StartInv, Unstarted, ValidLimits
<1>6. Conserved' BY DEF Conserved, Stopping
<1>7. EndOfFile' BY DEF EndOfFile, Held
<1>8. ExitKnown' BY DEF ExitKnown, Succeeded
<1>9. Diagnosis' BY DEF Diagnosis, Stopping
<1>10. Cleanup' BY DEF Cleanup, GroupDown
<1>11. NoSurvivor' BY DEF NoSurvivor
<1>12. QED BY <1>1, <1>2, <1>3, <1>4, <1>5, <1>6, <1>7, <1>8, <1>9, <1>10, <1>11

LEMMA Exit_Step == ASSUME IInv, NEW p \in Proc, Exit(p) PROVE IInv'
<1> USE DEF IInv, TypeOK, Exit, vars, parentVars, procVars, reading,
           verdict, flags, bytes
<1>1. ParentTypeOK' BY DEF ParentTypeOK
<1>2. FlagTypeOK' BY DEF FlagTypeOK
<1>3. CheckTypeOK' BY DEF CheckTypeOK
<1>4. StreamTypeOK' BY DEF StreamTypeOK
<1>5. StartInv' BY DEF StartInv, Unstarted, ValidLimits
<1>6. Conserved' BY DEF Conserved, Stopping
<1>7. EndOfFile' BY DEF EndOfFile, Held
<1>8. ExitKnown' BY DEF ExitKnown, Succeeded, CheckTypeOK
<1>9. Diagnosis' BY DEF Diagnosis, Stopping
<1>10. Cleanup' BY DEF Cleanup, GroupDown
<1>11. NoSurvivor' BY DEF NoSurvivor
<1>12. QED BY <1>1, <1>2, <1>3, <1>4, <1>5, <1>6, <1>7, <1>8, <1>9, <1>10, <1>11


LEMMA Unchanged_Step == ASSUME IInv, UNCHANGED vars PROVE IInv'
<1> USE DEF IInv, TypeOK, vars, parentVars, procVars, reading,
           verdict, flags, bytes
<1>1. ParentTypeOK' /\ CheckTypeOK'
  <2>1. ParentTypeOK' BY DEF ParentTypeOK
  <2>2. CheckTypeOK' BY DEF CheckTypeOK
  <2> QED BY <2>1, <2>2
<1>2. FlagTypeOK' BY DEF FlagTypeOK
<1>3. StreamTypeOK' BY DEF StreamTypeOK
<1>4. StartInv' /\ Conserved' BY DEF StartInv, Unstarted, ValidLimits, Conserved, Stopping
<1>5. EndOfFile' BY DEF EndOfFile, Held
<1>6. ExitKnown' /\ NoSurvivor' BY DEF ExitKnown, Succeeded, NoSurvivor
<1>7. Diagnosis' BY DEF Diagnosis, Stopping
<1>8. Cleanup' BY DEF Cleanup, GroupDown
<1>9. QED BY <1>1, <1>2, <1>3, <1>4, <1>5, <1>6, <1>7, <1>8

\* Every step keeps the inductive invariant.
LEMMA Inductive == IInv /\ [Next]_vars => IInv'
<1> SUFFICES ASSUME IInv, [Next]_vars PROVE IInv'
  OBVIOUS
<1>1. CASE Parent
  <2>1. 0 \in Stream /\ 1 \in Stream
    OBVIOUS
  <2>2. QED
    BY <1>1, <2>1, Validate_Step, OpenPipe_Step, StartFails_Step, Spawn_Step,
       CloseWriters_Step, CheckDeadline_Step, Read_Step, ReadFails_Step, Poll_Step,
       StopReap_Step, StopGroup_Step, StopTree_Step, Taskkill_Step, StopDirect_Step,
       StopWait_Step, StopWaitFails_Step, StopRetry_Step DEF Parent
<1>2. CASE DeadlinePasses
  BY <1>2, DeadlinePasses_Step
<1>3. CASE \E p \in Proc : Check(p)
  BY <1>3, Write_Step, CloseEnd_Step, Fork_Step, Detach_Step, Exit_Step DEF Check
<1>4. CASE UNCHANGED vars
  BY <1>4, Unchanged_Step
<1>5. QED BY <1>1, <1>2, <1>3, <1>4 DEF Next, Returned

THEOREM Invariance == Spec => []IInv
  BY Initially, Inductive, PTL DEF Spec

(***************************************************************************)
(* The type invariant: what is retained of a stream is bounded by          *)
(* MAX_STREAM_BYTES whatever the check writes (check_process.py:3-4).      *)
(***************************************************************************)
THEOREM TypeCorrect == Spec => []TypeOK
<1>1. IInv => TypeOK
  BY DEF IInv
<1>2. QED BY <1>1, Invariance, PTL

(***************************************************************************)
(* A successful result is the complete output: the pipes were seen at      *)
(* their end, so conservation leaves every byte in the buffers.            *)
(***************************************************************************)
THEOREM CaptureIsComplete == Spec => []CompleteCapture
<1>1. IInv => CompleteCapture
  <2> SUFFICES ASSUME IInv, Succeeded PROVE
         /\ proc[Shell] = "reaped" /\ code = status
         /\ \A s \in Stream : buf[s] = written[s] /\ buf[s] <= Limit /\ ~Held(s)
    BY DEF CompleteCapture
  <2>1. active = {} /\ proc[Shell] = "reaped" /\ code = status
    BY DEF IInv, ExitKnown
  <2>2. \A s \in Stream : pipe[s] = 0 /\ ~Held(s)
    BY <2>1 DEF IInv, EndOfFile
  <2>3. \A s \in Stream : written[s] = buf[s] + pipe[s] /\ buf[s] \in Nat
    BY DEF IInv, Conserved, Stopping, Succeeded, TypeOK, StreamTypeOK
  <2>4. \A s \in Stream : buf[s] <= Limit
    BY DEF IInv, StartInv, Succeeded
  <2>5. QED BY <2>1, <2>2, <2>3, <2>4
<1>2. QED BY <1>1, Invariance, PTL

(***************************************************************************)
(* output_limit and timed_out are only reported when they happened.        *)
(***************************************************************************)
THEOREM DiagnosisIsEarned == Spec => []FailureIsEarned
<1>1. IInv => FailureIsEarned
  BY DEF IInv, Diagnosis, FailureIsEarned
<1>2. QED BY <1>1, Invariance, PTL

(***************************************************************************)
(* Any boundary failure but cleanup_failed leaves no process of the group  *)
(* running and the shell reaped.                                           *)
(***************************************************************************)
THEOREM NothingSurvives == Spec => []NoSurvivor
<1>1. IInv => NoSurvivor
  BY DEF IInv
<1>2. QED BY <1>1, Invariance, PTL

-----------------------------------------------------------------------------
(***************************************************************************)
(* CheckProcess implements CheckRunner: whatever the processes of a check  *)
(* do, its caller sees one run and one report of it.                       *)
(***************************************************************************)
\* The shell has an exit status only once it has exited.
StatusInv == status # NoCode => proc[Shell] \in {"zombie", "reaped"}

Asked == {"validate", "pipes", "spawn"}

LEMMA StatusInitially == Init => StatusInv
  BY DEF Init, StatusInv

LEMMA StatusInductive == IInv /\ StatusInv /\ [Next]_vars => StatusInv'
<1> SUFFICES ASSUME IInv, StatusInv, [Next]_vars PROVE StatusInv'
  OBVIOUS
<1>0. CheckTypeOK /\ Shell \in Proc
  BY ShellAssumption DEF IInv, TypeOK
<1>1. ASSUME UNCHANGED <<proc, status>> PROVE StatusInv'
  BY <1>1 DEF StatusInv
<1>2. ASSUME NEW ps \in SUBSET Proc, proc' = Killed(ps), UNCHANGED status
      PROVE  StatusInv'
  BY <1>0, <1>2 DEF StatusInv, Killed, CheckTypeOK
<1>3. ASSUME Reap, UNCHANGED status PROVE StatusInv'
  BY <1>0, <1>3 DEF StatusInv, Reap, CheckTypeOK
<1>4. CASE Spawn
  <2>1. proc[Shell] = "unborn"
    BY <1>4, <1>0 DEF Spawn, IInv, StartInv, Unstarted
  <2>2. QED BY <1>4, <2>1 DEF StatusInv, Spawn, procVars
<1>5. ASSUME KillGroup, UNCHANGED status PROVE StatusInv'
  BY <1>0, <1>1, <1>2, <1>5 DEF KillGroup, Targets, CheckTypeOK
<1>6. CASE Parent
  <2>1. CASE Validate \/ OpenPipe \/ StartFails \/ CloseWriters \/ CheckDeadline
             \/ Read(0) \/ Read(1) \/ ReadFails \/ StopWaitFails
    BY <2>1, <1>1 DEF Validate, OpenPipe, StartFails, CloseWriters, CheckDeadline, Read,
       ReadFails, StopWaitFails, procVars
  <2>2. CASE Poll \/ StopReap \/ StopTree \/ StopWait
    BY <2>2, <1>3 DEF Poll, StopReap, StopTree, StopWait
  <2>3. CASE StopGroup \/ StopRetry
    BY <2>3, <1>5 DEF StopGroup, StopRetry
  <2>4. CASE Taskkill
    BY <2>4, <1>2 DEF Taskkill
  <2>5. CASE StopDirect
    BY <2>5, <1>0, <1>1, <1>2, <1>3 DEF StopDirect
  <2>6. QED BY <1>4, <1>6, <2>1, <2>2, <2>3, <2>4, <2>5 DEF Parent
<1>7. CASE \E p \in Proc : Check(p)
  <2>1. CASE \E p \in Proc, s \in Stream : Write(p, s) \/ CloseEnd(p, s)
    BY <2>1, <1>1 DEF Write, CloseEnd, procVars
  <2>2. ASSUME NEW p \in Proc, NEW q \in Proc, Fork(p, q) PROVE StatusInv'
    BY <2>2, <1>0 DEF Fork, StatusInv, CheckTypeOK
  <2>3. CASE \E p \in Proc : Detach(p)
    BY <2>3, <1>1 DEF Detach
  <2>4. ASSUME NEW p \in Proc, Exit(p) PROVE StatusInv'
    BY <2>4, <1>0 DEF Exit, StatusInv, CheckTypeOK
  <2>5. QED BY <1>7, <2>1, <2>2, <2>3, <2>4 DEF Check
<1>8. CASE DeadlinePasses \/ UNCHANGED vars
  BY <1>8, <1>1 DEF DeadlinePasses, vars, procVars
<1>9. QED BY <1>6, <1>7, <1>8 DEF Next, Returned
-----------------------------------------------------------------------------
\* What the parent alone does to the abstract state.
LEMMA ParentSteps ==
  ASSUME IInv, Parent
  PROVE  /\ UNCHANGED <<status, written, expired, request>>
         /\ pc # "done"
         /\ pc' \in Asked => pc \in Asked
         /\ pc \in Asked /\ pc' = "done" =>
               failure' \in {"invalid_limits", "execution_failed"} /\ UNCHANGED timedOut
         /\ pc \notin Asked /\ pc' = "done" =>
               failure' \in {"none", "cleanup_failed", failure}
<1>1. CASE Validate \/ OpenPipe \/ StartFails \/ Spawn
  BY <1>1 DEF Validate, OpenPipe, StartFails, Spawn, Finish, Asked, procVars, bytes, verdict
<1>2. CASE CloseWriters \/ CheckDeadline \/ ReadFails \/ Poll
  BY <1>2 DEF CloseWriters, CheckDeadline, ReadFails, Poll, Finish, Asked, procVars, bytes
<1>3. CASE Read(0) \/ Read(1)
  BY <1>3 DEF Read, Asked, procVars
<1>4. CASE StopReap \/ StopGroup \/ StopTree \/ Taskkill \/ StopDirect
  BY <1>4 DEF StopReap, StopGroup, StopTree, Taskkill, StopDirect, Asked, bytes
<1>5. CASE StopWait \/ StopWaitFails \/ StopRetry
  BY <1>5 DEF StopWait, StopWaitFails, StopRetry, Stopped, Finish, Asked, procVars, bytes
<1>6. QED BY <1>1, <1>2, <1>3, <1>4, <1>5 DEF Parent

\* A report of a run says no more than what happened.
LEMMA ReportIsAllowed ==
  IInv /\ pc = "done" /\ failure # "invalid_limits"
    => Reported \in Runner!Outcomes(status, OverLimit, expired)
<1> SUFFICES ASSUME IInv, pc = "done", failure # "invalid_limits"
             PROVE  Reported \in Runner!Outcomes(status, OverLimit, expired)
  OBVIOUS
<1>1. CASE failure = "none"
  <2>1. code # NoCode /\ code = status /\ code \in ExitCode
    BY <1>1 DEF IInv, ExitKnown, Succeeded, TypeOK, ParentTypeOK
  <2>2. timedOut = FALSE
    BY <1>1 DEF IInv, Diagnosis, TypeOK, FlagTypeOK
  <2>3. Reported = Runner!Report("none", status, FALSE)
    BY <1>1, <2>1, <2>2 DEF Reported, Succeeded, Runner!Report
  <2>4. QED BY <2>1, <2>3 DEF Runner!Outcomes, Runner!ExitCode, ExitCode
<1>2. CASE failure # "none" /\ timedOut
  <2>1. expired = TRUE /\ failure \in {"timeout", "cleanup_failed"}
    BY <1>2 DEF IInv, Diagnosis, TypeOK, FlagTypeOK
  <2>2. Reported = Runner!Report(failure, NoCode, TRUE)
    BY <1>2 DEF Reported, Succeeded, Runner!Report
  <2>3. QED BY <2>1, <2>2 DEF Runner!Outcomes, Runner!NoCode, NoCode
<1>3. CASE failure # "none" /\ ~timedOut
  <2>1. Reported = Runner!Report(failure, NoCode, FALSE)
    BY <1>3 DEF Reported, Succeeded, Runner!Report
  <2>2. failure \in {"execution_failed", "output_limit", "cleanup_failed"}
    BY <1>3 DEF IInv, Diagnosis, TypeOK, ParentTypeOK, Failure
  <2>3. CASE failure = "output_limit"
    <3>1. OverLimit = TRUE
      BY <2>3 DEF IInv, Diagnosis, StartInv, OverLimit
    <3>2. QED BY <2>1, <2>3, <3>1 DEF Runner!Outcomes, Runner!NoCode, NoCode
  <2>4. QED BY <2>1, <2>2, <2>3 DEF Runner!Outcomes, Runner!NoCode, NoCode
<1>4. QED BY <1>1, <1>2, <1>3

LEMMA RunnerInit == Init => Runner!Init
<1> SUFFICES ASSUME Init PROVE Runner!Init
  OBVIOUS
<1>1. OverLimit = FALSE
  <2>1. \A s \in Stream : written[s] = 0
    BY DEF Init
  <2>2. ValidLimits => Limit \in Int /\ Limit >= 1
    BY SizeAssumption DEF Init, ValidLimits, Limit
  <2>3. QED BY <2>1, <2>2 DEF OverLimit
<1>2. Reported = Runner!Pending
  BY DEF Init, Reported, Succeeded, Runner!Pending, Runner!Report, Runner!NoCode, NoCode
<1>3. QED
  BY <1>1, <1>2 DEF Init, Runner!Init, RunPhase, Runner!NoCode, NoCode

\* The abstract state is the same as long as these are.
LEMMA Stutter ==
  ASSUME RunPhase' = RunPhase, pc # "done", pc' # "done",
         UNCHANGED <<status, written, expired, request>>
  PROVE  UNCHANGED Runner!vars
<1>1. OverLimit' = OverLimit
  BY DEF OverLimit, ValidLimits, Limit
<1>2. Reported' = Reported
  BY DEF Reported, Succeeded
<1>3. QED BY <1>1, <1>2 DEF Runner!vars

LEMMA RunnerNext ==
  IInv /\ IInv' /\ StatusInv /\ [Next]_vars => [Runner!Next]_(Runner!vars)
<1> SUFFICES ASSUME IInv, IInv', StatusInv, [Next]_vars
             PROVE  [Runner!Next]_(Runner!vars)
  OBVIOUS
<1>0. pc \in PcValue /\ pc' \in PcValue
  BY DEF IInv, TypeOK, ParentTypeOK
<1>1. CASE Parent
  <2>0. /\ UNCHANGED <<status, written, expired, request>> /\ pc # "done"
        /\ pc' \in Asked => pc \in Asked
    BY <1>1, ParentSteps
  <2>1. OverLimit' = OverLimit
    BY <2>0 DEF OverLimit, ValidLimits, Limit
  <2>2. CASE pc' # "done" /\ RunPhase' = RunPhase
    BY <2>0, <2>2, Stutter
  <2>3. CASE pc' # "done" /\ RunPhase' # RunPhase
    <3>1. RunPhase = "asked" /\ RunPhase' = "running"
      BY <2>0, <2>3 DEF RunPhase, Asked
    <3>2. Reported' = Reported
      BY <2>0, <2>3 DEF Reported, Succeeded
    <3>3. Runner!Start
      BY <2>0, <2>1, <3>1, <3>2 DEF Runner!Start
    <3>4. QED BY <3>3 DEF Runner!Next
  <2>4. CASE pc' = "done" /\ pc \in Asked
    <3>1. failure' \in {"invalid_limits", "execution_failed"} /\ timedOut' = timedOut
      BY <1>1, <2>4, ParentSteps
    <3>2. timedOut = FALSE
      BY <2>4 DEF IInv, Diagnosis, TypeOK, FlagTypeOK, Asked, Stopping
    <3>3. Reported' = Runner!Report(failure', NoCode, FALSE)
      BY <2>4, <3>1, <3>2 DEF Reported, Succeeded, Runner!Report
    <3>4. Reported' \in Runner!Refusals
      BY <3>1, <3>3 DEF Runner!Refusals, Runner!NoCode, NoCode
    <3>5. RunPhase = "asked" /\ RunPhase' = "returned"
      BY <2>4 DEF RunPhase, Asked
    <3>6. Runner!Refuse
      BY <2>0, <2>1, <3>4, <3>5 DEF Runner!Refuse
    <3>7. QED BY <3>6 DEF Runner!Next
  <2>5. CASE pc' = "done" /\ pc \notin Asked
    <3>1. RunPhase = "running" /\ RunPhase' = "returned"
      BY <2>0, <2>5 DEF RunPhase, Asked
    <3>2. failure # "invalid_limits"
      BY <2>0, <2>5 DEF IInv, Diagnosis
    <3>3. failure' # "invalid_limits"
      BY <1>1, <2>5, <3>2, ParentSteps
    <3>4. (IInv /\ pc = "done" /\ failure # "invalid_limits"
             => Reported \in Runner!Outcomes(status, OverLimit, expired))'
      BY ReportIsAllowed, PTL
    <3>5. Reported' \in Runner!Outcomes(status', OverLimit', expired')
      BY <2>5, <3>3, <3>4
    <3>6. Runner!Return
      BY <2>0, <2>1, <3>1, <3>5 DEF Runner!Return
    <3>7. QED BY <3>6 DEF Runner!Next
  <2>6. QED BY <2>2, <2>3, <2>4, <2>5
<1>2. CASE DeadlinePasses
  <2>1. /\ UNCHANGED <<pc, request, failure, timedOut, code, status, written>>
        /\ pc # "done" /\ expired' = TRUE
    BY <1>2 DEF DeadlinePasses, parentVars, verdict, procVars, bytes, Capturing
  <2>2. OverLimit' = OverLimit
    BY <2>1 DEF OverLimit, ValidLimits, Limit
  <2>3. Reported' = Reported /\ RunPhase' = RunPhase /\ RunPhase # "returned"
    BY <2>1 DEF Reported, Succeeded, RunPhase
  <2>4. Runner!Expire
    BY <2>1, <2>2, <2>3 DEF Runner!Expire
  <2>5. QED BY <2>4 DEF Runner!Next
<1>3. ASSUME NEW p \in Proc, Check(p)
      PROVE  [Runner!Next]_(Runner!vars)
  <2>0. /\ UNCHANGED <<pc, request, failure, timedOut, code, expired>>
        /\ pc \notin Asked
    <3>1. UNCHANGED <<pc, request, failure, timedOut, code, expired>>
      BY <1>3 DEF Check, Write, CloseEnd, Fork, Detach, Exit, parentVars, verdict
    <3>2. proc[p] # "unborn"
      BY <1>3 DEF Check, Write, CloseEnd, Fork, Detach, Exit
    <3>3. pc \notin Asked
      BY <3>2 DEF IInv, StartInv, Unstarted, Asked
    <3>4. QED BY <3>1, <3>3
  <2>1. Reported' = Reported /\ RunPhase' = RunPhase /\ RunPhase # "asked"
    BY <2>0 DEF Reported, Succeeded, RunPhase, Asked
  <2>2. CASE UNCHANGED <<status, written>>
    <3>1. OverLimit' = OverLimit
      BY <2>0, <2>2 DEF OverLimit, ValidLimits, Limit
    <3>2. QED BY <2>0, <2>1, <2>2, <3>1 DEF Runner!vars
  <2>3. CASE \E s \in Stream : Write(p, s)
    <3>1. /\ UNCHANGED status /\ pc # "done" /\ OverLimit' \in BOOLEAN
          /\ \A s \in Stream : written'[s] >= written[s] /\ written[s] \in Nat
      <4>1. PICK s \in Stream : Write(p, s)
        BY <2>3
      <4>2. written \in [Stream -> Nat] /\ written' = [written EXCEPT ![s] = @ + 1]
        BY <4>1 DEF Write, IInv, TypeOK, StreamTypeOK
      <4>3. UNCHANGED status /\ pc # "done"
        BY <4>1 DEF Write, procVars
      <4>4. \A t \in Stream : written'[t] >= written[t] /\ written[t] \in Nat
        BY <4>2
      <4>5. QED BY <4>3, <4>4 DEF OverLimit
    <3>2. CASE OverLimit' = OverLimit
      BY <2>0, <2>1, <3>1, <3>2 DEF Runner!vars
    <3>3. CASE OverLimit' # OverLimit
      <4>1. OverLimit => OverLimit'
        <5>1. ValidLimits => Limit \in Int
          <6>1. ASSUME ValidLimits PROVE Limit \in 1..MaxStreamBytes
            BY <6>1, LimitRange DEF IInv, TypeOK
          <6>2. QED BY <6>1, SizeAssumption
        <5>2. Limit' = Limit /\ ValidLimits' = ValidLimits
          BY <2>0 DEF ValidLimits, Limit
        <5>3. \A s \in Stream : Limit \in Int /\ written[s] > Limit => written'[s] > Limit
          <6>1. \A s \in Stream : written'[s] \in Nat
            BY DEF IInv, TypeOK, StreamTypeOK
          <6>2. QED BY <3>1, <6>1
        <5>4. QED BY <5>1, <5>2, <5>3 DEF OverLimit
      <4>2. OverLimit' = TRUE
        BY <3>1, <3>3, <4>1 DEF OverLimit
      <4>3. RunPhase = "running"
        BY <2>0, <3>1 DEF RunPhase, Asked
      <4>4. Runner!GoOver
        BY <2>0, <2>1, <3>1, <4>2, <4>3 DEF Runner!GoOver
      <4>5. QED BY <4>4 DEF Runner!Next
    <3>4. QED BY <3>2, <3>3
  <2>4. CASE Exit(p) /\ p = Shell
    <3>1. status = NoCode /\ status' \in ExitCode /\ UNCHANGED written
      <4>1. status = NoCode
        BY <2>4 DEF Exit, StatusInv
      <4>2. status' \in ExitCode /\ UNCHANGED written
        BY <2>4 DEF Exit, ExitCode, bytes
      <4>3. QED BY <4>1, <4>2
    <3>2. OverLimit' = OverLimit
      BY <2>0, <3>1 DEF OverLimit, ValidLimits, Limit
    <3>3. Runner!Exit
      BY <2>0, <2>1, <3>1, <3>2 DEF Runner!Exit, Runner!NoCode, Runner!ExitCode, NoCode,
         ExitCode
    <3>4. QED BY <3>3 DEF Runner!Next
  <2>5. QED
    BY <1>3, <2>2, <2>3, <2>4 DEF Check, CloseEnd, Fork, Detach, Exit, bytes
<1>4. CASE UNCHANGED vars
  <2>1. OverLimit' = OverLimit
    BY <1>4 DEF vars, parentVars, bytes, OverLimit, ValidLimits, Limit
  <2>2. Reported' = Reported /\ RunPhase' = RunPhase
    BY <1>4 DEF vars, parentVars, verdict, Reported, Succeeded, RunPhase
  <2>3. QED BY <1>4, <2>1, <2>2 DEF vars, procVars, Runner!vars
<1>5. QED BY <1>1, <1>2, <1>3, <1>4 DEF Next, Returned

(***************************************************************************)
(* For every set of processes, limit, chunk size and pipe capacity,        *)
(* run_check_process implements the abstract runner: one run, one report,  *)
(* and nothing in it that did not happen (check_process.py:26-35, 78-91).  *)
(***************************************************************************)
THEOREM ImplementsRunner == Spec => RunnerSpec
<1>1. Init => StatusInv /\ Runner!Init
  BY StatusInitially, RunnerInit
<1>2. IInv /\ StatusInv /\ [Next]_vars => StatusInv'
  BY StatusInductive
<1>3. IInv /\ IInv' /\ StatusInv /\ [Next]_vars => [Runner!Next]_(Runner!vars)
  BY RunnerNext
<1>4. QED BY <1>1, <1>2, <1>3, Invariance, PTL DEF Spec, RunnerSpec, Runner!Spec
=============================================================================
