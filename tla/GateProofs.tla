------------------------------ MODULE GateProofs ------------------------------
(***************************************************************************)
(* Proofs about the commands (Gate) and the pool of checks within them,    *)
(* for any tasks: whatever number of checks and workers, each result is    *)
(* that of its own check, and nothing runs on once the pool is left;       *)
(* whatever the contract and the change set, the exit code is deserved.    *)
(***************************************************************************)
EXTENDS Gate, FiniteSetTheorems, WellFoundedInduction, TLAPS

Stages == {"queued", "resolve", "hooks", "call", "run", "returned", "done"}
Pools  == {"idle", "open", "closing", "shut", "raised"}

\* All reports run_check_process can make of a command.
Made ==
    Refusals \cup UNION {Outcomes(x, over, late) :
        x \in ExitCode \cup {NoCode}, over \in BOOLEAN, late \in BOOLEAN}

ResultCode == {"0", "125", "126", "other", NoExit}

Results ==
    [id : {checks[i].id : i \in Each} \cup {"nothing", "raised"},
     exit : ResultCode, timed : BOOLEAN]

PoolType ==
    /\ IsListing(checks)
    /\ mode.parallel \in BOOLEAN /\ mode.workers \in Int /\ mode.untrusted \in BOOLEAN
    /\ pool \in Pools
    /\ stage \in [Each -> Stages]
    /\ report \in [Each -> Made \cup {NoReport}]
    /\ result \in [Each -> Results]
    /\ hooks \subseteq Each /\ running \subseteq Each
    /\ collected \in Seq(Results)

\* The result says what became of the check.
Right(i) ==
    \/ /\ Blocked(i) /\ report[i] = NoReport
       /\ result[i] = ResultOf(i, "126", FALSE)
    \/ /\ ~Blocked(i) /\ report[i] \in Made
       /\ \E code \in CodesOf(report[i]) :
             result[i] = ResultOf(i, code, report[i].timed)

\* Where a check stands, and what there is of it.
CheckInv(i) ==
    /\ i \in running =>
          \/ stage[i] = "run"
          \/ stage[i] \in {"returned", "done"} /\ report[i].failure = "cleanup_failed"
    /\ i \in hooks =>
          \/ stage[i] \in {"call", "run", "returned"}
          \/ stage[i] = "done" /\ result[i] = Raised
    /\ stage[i] \in {"queued", "resolve"} => report[i] = NoReport
    /\ stage[i] \in {"hooks", "call", "run", "returned"} => ~Blocked(i)
    /\ stage[i] = "returned" => report[i] \in Made
    /\ stage[i] = "done" => result[i] = Raised \/ Right(i)

Quiet == \A i \in Each : stage[i] \in {"queued", "done"}

\* What the calling thread has seen.
CallerInv ==
    /\ Len(collected) <= Len(checks)
    /\ \A k \in 1..Len(collected) :
          stage[k] = "done" /\ result[k] # Raised /\ collected[k] = result[k]
    /\ pool = "shut" => Len(collected) = Len(checks)
    /\ pool = "raised" => Quiet

\* In sequence there is one check after another.
SequenceInv ==
    Sequential =>
        /\ \A i \in Each : i > Len(collected) + 1 => stage[i] = "queued"
        /\ pool = "closing" => Quiet

CountInv == Cardinality(Busy) <= Workers

PoolInv ==
    /\ PoolType /\ (\A i \in Each : CheckInv(i))
    /\ CallerInv /\ SequenceInv /\ CountInv

-----------------------------------------------------------------------------
Shape(r) ==
    \/ r \in {Report("none", "zero", FALSE), Report("none", "nonzero", FALSE)}
    \/ \E f \in {"execution_failed", "cleanup_failed", "output_limit", "invalid_limits",
                 "timeout"}, late \in BOOLEAN : r = Report(f, NoCode, late)

LEMMA MadeHasShape == ASSUME NEW r \in Made PROVE Shape(r)
<1>1. CASE r \in Refusals
  BY <1>1 DEF Refusals, Shape
<1>2. ASSUME NEW x \in ExitCode \cup {NoCode}, NEW over \in BOOLEAN, NEW late \in BOOLEAN,
             r \in Outcomes(x, over, late)
      PROVE  Shape(r)
  BY <1>2 DEF Outcomes, ExitCode, Shape
<1>3. r \in Refusals \/ \E x \in ExitCode \cup {NoCode}, over \in BOOLEAN, late \in BOOLEAN :
                            r \in Outcomes(x, over, late)
  BY DEF Made
<1> QED BY <1>1, <1>2, <1>3

LEMMA ReportFacts ==
    ASSUME NEW r \in Made, NEW code \in CodesOf(r)
    PROVE  /\ r.timed \in BOOLEAN /\ code \in ResultCode
           /\ r = Report("none", "zero", FALSE) <=> code = "0"
           /\ r.timed <=> code = NoExit
           /\ r # NoReport
<1> USE DEF ResultCode, NoExit
<1>1. CASE r = Report("none", "zero", FALSE)
  <2>1. r.timed = FALSE /\ r.failure = "none" /\ r.code = "zero"
    BY <1>1 DEF Report
  <2>2. code = "0" BY <2>1 DEF CodesOf
  <2>3. r # NoReport BY <2>1 DEF NoReport, Report
  <2>4. r.timed \in BOOLEAN /\ ~r.timed BY <2>1
  <2>5. code \in ResultCode /\ code # NoExit BY <2>2
  <2> QED BY <1>1, <2>2, <2>3, <2>4, <2>5, Zenon
<1>2. CASE r = Report("none", "nonzero", FALSE)
  <2>1. r.timed = FALSE /\ r.failure = "none" /\ r.code = "nonzero"
    BY <1>2 DEF Report
  <2>2. code \in {"125", "126", "other"} BY <2>1 DEF CodesOf
  <2>3. r # NoReport /\ r # Report("none", "zero", FALSE)
    BY <2>1 DEF NoReport, Report
  <2>4. r.timed \in BOOLEAN /\ ~r.timed BY <2>1
  <2>5. code \in ResultCode /\ code # "0" /\ code # NoExit BY <2>2
  <2> QED BY <2>3, <2>4, <2>5, Zenon
<1>3. ASSUME NEW f \in {"execution_failed", "cleanup_failed", "output_limit",
                         "invalid_limits", "timeout"}, NEW b \in BOOLEAN,
             r = Report(f, NoCode, b)
      PROVE  /\ r.timed \in BOOLEAN /\ code \in ResultCode
             /\ r.timed <=> code = NoExit
             /\ code # "0" /\ r # Report("none", "zero", FALSE) /\ r # NoReport
  <2>1. r.timed = b /\ r.failure = f BY <1>3 DEF Report
  <2>2. code = IF b THEN NoExit ELSE "125" BY <2>1 DEF CodesOf
  <2>3. r # NoReport /\ r # Report("none", "zero", FALSE)
    BY <2>1 DEF NoReport, Report
  <2>4. r.timed \in BOOLEAN BY <2>1
  <2>5. code \in ResultCode /\ code # "0" BY <2>2
  <2>6. r.timed <=> code = NoExit BY <2>1, <2>2
  <2> QED BY <2>3, <2>4, <2>5, <2>6, Zenon
<1> QED BY <1>1, <1>2, <1>3, MadeHasShape DEF Shape

LEMMA OutcomesAreMade ==
    ASSUME NEW x \in ExitCode \cup {NoCode}, NEW o \in BOOLEAN, NEW l \in BOOLEAN,
           NEW r \in Outcomes(x, o, l)
    PROVE  r \in Made
  BY DEF Made

\* A worker at check i touches nothing of the others.
Apart(i) ==
    /\ UNCHANGED <<checks, mode, pool, collected>>
    /\ stage[i] # "done" /\ \E s \in Stages : stage' = [stage EXCEPT ![i] = s]
    /\ \E r \in Made \cup {NoReport} : report' = [report EXCEPT ![i] = r]
    /\ \E r \in Results : result' = [result EXCEPT ![i] = r]
    /\ hooks \ {i} = hooks' \ {i} /\ running \ {i} = running' \ {i}
    /\ hooks' \subseteq Each /\ running' \subseteq Each

LEMMA WorkerTake ==
    ASSUME PoolInv, NEW i \in Each, Take(i)
    PROVE  Apart(i) /\ CheckInv(i)'
<1> USE DEF PoolInv, PoolType, Take
<1>1. report' = [report EXCEPT ![i] = report[i]] /\ report[i] \in Made \cup {NoReport}
  OBVIOUS
<1>2. result' = [result EXCEPT ![i] = result[i]] /\ result[i] \in Results
  OBVIOUS
<1>3. Apart(i) BY <1>1, <1>2 DEF Apart, Stages
<1>4. CheckInv(i)' BY DEF CheckInv, Blocked
<1> QED BY <1>3, <1>4

LEMMA WorkerResolve ==
    ASSUME PoolInv, NEW i \in Each, Resolve(i)
    PROVE  Apart(i) /\ CheckInv(i)'
<1> USE DEF PoolInv, PoolType, Resolve
<1>0. CheckInv(i) OBVIOUS
<1>1. report' = [report EXCEPT ![i] = report[i]] /\ report[i] \in Made \cup {NoReport}
  OBVIOUS
<1>2. ResultOf(i, "126", FALSE) \in Results
  BY DEF ResultOf, Results, ResultCode
<1>3. CASE Blocked(i)
  <2>1. Apart(i) BY <1>1, <1>2, <1>3 DEF Apart, Stages
  <2>2. result'[i] = ResultOf(i, "126", FALSE) BY <1>3
  <2>3. stage'[i] = "done" BY <1>3
  <2>4. Right(i)'
    BY <1>0, <1>3, <2>2 DEF Right, CheckInv, Blocked, ResultOf
  <2> QED BY <1>0, <2>1, <2>3, <2>4 DEF CheckInv
<1>4. CASE ~Blocked(i)
  <2>1. result' = [result EXCEPT ![i] = result[i]] /\ result[i] \in Results
    BY <1>4
  <2>2. Apart(i) BY <1>1, <1>4, <2>1 DEF Apart, Stages
  <2>3. stage'[i] \in {"hooks", "call"} BY <1>4
  <2> QED BY <1>0, <1>4, <2>2, <2>3 DEF CheckInv, Blocked
<1> QED BY <1>3, <1>4

LEMMA WorkerHooks ==
    ASSUME PoolInv, NEW i \in Each, MakeHooks(i) \/ MakeHooksFails(i)
    PROVE  Apart(i) /\ CheckInv(i)'
<1> USE DEF PoolInv, PoolType
<1>0. CheckInv(i) OBVIOUS
<1>1. Raised \in Results BY DEF Raised, Results, ResultCode
<1>2. CASE MakeHooks(i)
  <2>1. result' = [result EXCEPT ![i] = result[i]] /\ result[i] \in Results
    BY <1>2 DEF MakeHooks
  <2>2. report' = [report EXCEPT ![i] = report[i]] /\ report[i] \in Made \cup {NoReport}
    BY <1>2 DEF MakeHooks
  <2>3. Apart(i) BY <1>2, <2>1, <2>2 DEF Apart, Stages, MakeHooks
  <2> QED BY <1>0, <1>2, <2>3 DEF CheckInv, Blocked, MakeHooks
<1>3. CASE MakeHooksFails(i)
  <2>1. report' = [report EXCEPT ![i] = report[i]] /\ report[i] \in Made \cup {NoReport}
    BY <1>3 DEF MakeHooksFails
  <2>2. Apart(i) BY <1>1, <1>3, <2>1 DEF Apart, Stages, MakeHooksFails
  <2> QED BY <1>0, <1>3, <2>2 DEF CheckInv, MakeHooksFails
<1> QED BY <1>2, <1>3

LEMMA WorkerCalls ==
    ASSUME PoolInv, NEW i \in Each, CallRefuses(i) \/ Start(i) \/ Return(i)
    PROVE  Apart(i) /\ CheckInv(i)'
<1> USE DEF PoolInv, PoolType
<1>0. CheckInv(i) OBVIOUS
<1>1. result' = [result EXCEPT ![i] = result[i]] /\ result[i] \in Results
  BY DEF CallRefuses, Start, Return
<1>2. CASE CallRefuses(i)
  <2>0. Refusals \subseteq Made BY DEF Made
  <2>1. PICK r \in Made : report' = [report EXCEPT ![i] = r]
    BY <1>2, <2>0 DEF CallRefuses
  <2>2. Apart(i) BY <1>1, <1>2, <2>1 DEF Apart, Stages, CallRefuses
  <2> QED BY <1>0, <1>2, <2>1, <2>2 DEF CheckInv, Blocked, CallRefuses
<1>3. CASE Start(i)
  <2>1. report' = [report EXCEPT ![i] = report[i]] /\ report[i] \in Made \cup {NoReport}
    BY <1>3 DEF Start
  <2>2. Apart(i) BY <1>1, <1>3, <2>1 DEF Apart, Stages, Start
  <2> QED BY <1>0, <1>3, <2>2 DEF CheckInv, Blocked, Start
<1>4. CASE Return(i)
  <2>1. PICK r \in Made :
          /\ report' = [report EXCEPT ![i] = r]
          /\ running' = IF r.failure = "cleanup_failed" THEN running ELSE running \ {i}
    BY <1>4, OutcomesAreMade DEF Return
  <2>2. Apart(i) BY <1>1, <1>4, <2>1 DEF Apart, Stages, Return
  <2>3. stage'[i] = "returned" /\ hooks' = hooks /\ checks' = checks /\ mode' = mode
    BY <1>4 DEF Return
  <2>4. report'[i] = r BY <2>1
  <2>5. i \in running' => r.failure = "cleanup_failed"
    BY <2>1
  <2> QED BY <1>0, <1>4, <2>2, <2>3, <2>4, <2>5 DEF CheckInv, Blocked, Return
<1> QED BY <1>2, <1>3, <1>4

LEMMA WorkerFinishes ==
    ASSUME PoolInv, NEW i \in Each, Finish(i) \/ FinishFails(i)
    PROVE  Apart(i) /\ CheckInv(i)'
<1> USE DEF PoolInv, PoolType
<1>0. CheckInv(i) /\ stage[i] = "returned" BY DEF Finish, FinishFails
<1>1. report' = [report EXCEPT ![i] = report[i]] /\ report[i] \in Made
  BY <1>0 DEF CheckInv, Finish, FinishFails
<1>2. CASE Finish(i)
  <2>0. PICK code \in CodesOf(report[i]) :
          result' = [result EXCEPT ![i] = ResultOf(i, code, report[i].timed)]
    BY <1>2 DEF Finish
  <2> DEFINE r == ResultOf(i, code, report[i].timed)
  <2>1. r \in Results
    BY <1>1, ReportFacts DEF ResultOf, Results
  <2>2. Apart(i) BY <1>1, <1>2, <2>0, <2>1 DEF Apart, Stages, Finish, Cleanup
  <2>3. result'[i] = r /\ stage'[i] = "done" /\ i \notin hooks'
    BY <1>2, <2>0 DEF Finish, Cleanup
  <2>4. Right(i)'
    BY <1>0, <1>1, <1>2, <2>3 DEF Right, CheckInv, Blocked, ResultOf, Finish
  <2> QED BY <1>0, <1>1, <1>2, <2>2, <2>3, <2>4 DEF CheckInv, Finish
<1>3. CASE FinishFails(i)
  <2>1. Raised \in Results BY DEF Raised, Results, ResultCode
  <2>2. Apart(i) BY <1>1, <1>3, <2>1 DEF Apart, Stages, FinishFails
  <2> QED BY <1>0, <1>3, <2>2 DEF CheckInv, FinishFails
<1> QED BY <1>2, <1>3

LEMMA WorkerStep ==
    ASSUME PoolInv, NEW i \in Each, Worker(i)
    PROVE  Apart(i) /\ CheckInv(i)'
  BY WorkerTake, WorkerResolve, WorkerHooks, WorkerCalls, WorkerFinishes DEF
     Worker

-----------------------------------------------------------------------------
(***************************************************************************)
(* What one worker's step means for the other checks and for the caller.   *)
(***************************************************************************)
\* A worker takes a check that is queued or is busy with it.
LEMMA WorkerTurn ==
    ASSUME NEW i \in Each, Worker(i) PROVE Take(i) \/ stage[i] \notin {"queued", "done"}
  BY DEF Worker, Resolve, MakeHooks, MakeHooksFails, CallRefuses, Start, Return,
     Finish,
         FinishFails

LEMMA ApartType == ASSUME PoolType, NEW i \in Each, Apart(i) PROVE PoolType'
<1> USE DEF PoolType, Apart
<1>1. stage' \in [Each -> Stages] OBVIOUS
<1>2. report' \in [Each -> Made \cup {NoReport}] OBVIOUS
<1>3. result' \in [Each -> Results] OBVIOUS
<1>4. Each' = Each /\ Results' = Results BY DEF Each, Results
<1> QED BY <1>1, <1>2, <1>3, <1>4

LEMMA ApartOthers ==
    ASSUME PoolType, NEW i \in Each, Apart(i), NEW j \in Each, j # i
    PROVE  /\ stage'[j] = stage[j] /\ report'[j] = report[j] /\ result'[j] = result[j]
           /\ j \in hooks' <=> j \in hooks
           /\ j \in running' <=> j \in running
  BY DEF PoolType, Apart

LEMMA ApartChecks ==
    ASSUME PoolType, NEW i \in Each, Apart(i), CheckInv(i)', \A j \in Each : CheckInv(j)
    PROVE  (\A j \in Each : CheckInv(j))'
<1>1. checks' = checks /\ mode' = mode BY DEF Apart
<1>2. Each' = Each BY <1>1 DEF Each
<1>3. ASSUME NEW j \in Each, j # i PROVE CheckInv(j)'
  <2>1. CheckInv(j) OBVIOUS
  <2>2. /\ stage'[j] = stage[j] /\ report'[j] = report[j] /\ result'[j] = result[j]
        /\ j \in hooks' <=> j \in hooks
        /\ j \in running' <=> j \in running
    BY <1>3, ApartOthers
  <2>3. Blocked(j)' = Blocked(j) /\ \A code, timed : ResultOf(j, code, timed)' = ResultOf(j, code, timed)
    BY <1>1 DEF Blocked, ResultOf
  <2>4. Right(j)' = Right(j)
    BY <2>2, <2>3 DEF Right, CodesOf, Blocked, ResultOf
  <2> QED BY <2>1, <2>2, <2>3, <2>4 DEF CheckInv
<1> QED BY <1>2, <1>3

LEMMA ApartCaller ==
    ASSUME PoolType, CallerInv, NEW i \in Each, Apart(i), Worker(i) PROVE CallerInv'
<1>1. UNCHANGED <<checks, mode, pool, collected>> BY DEF Apart
<1>2. ASSUME NEW k \in 1..Len(collected)
      PROVE  k \in Each /\ k # i /\ stage'[k] = "done" /\ result'[k] # Raised
             /\ collected[k] = result'[k]
  <2>1. k \in Each BY DEF CallerInv, PoolType, IsListing, Each
  <2>2. k # i BY DEF CallerInv, Apart
  <2> QED BY <2>1, <2>2, ApartOthers DEF CallerInv
<1>3. pool # "raised"
  BY WorkerTurn DEF CallerInv, Quiet, Take, PoolType, Pools
<1> QED BY <1>1, <1>2, <1>3 DEF CallerInv

LEMMA ApartSequence ==
    ASSUME PoolType, SequenceInv, NEW i \in Each, Apart(i), Worker(i)
    PROVE  SequenceInv'
<1>1. UNCHANGED <<checks, mode, pool, collected>> BY DEF Apart
<1>2. Sequential' = Sequential /\ Each' = Each BY <1>1 DEF Sequential, Each
<1>3. SUFFICES ASSUME Sequential
               PROVE  /\ \A j \in Each : j > Len(collected) + 1 => stage'[j] = "queued"
                      /\ pool # "closing"
  BY <1>1, <1>2 DEF SequenceInv, Quiet
<1>4. pool # "closing"
  BY <1>3, WorkerTurn DEF SequenceInv, Quiet, Take, Apart
<1>5. i \in 1..Len(checks) /\ Len(collected) \in Nat
  BY DEF PoolType, IsListing, Each
<1>6. ~(i > Len(collected) + 1)
  BY <1>3, <1>5, WorkerTurn DEF SequenceInv, Take
<1>7. ASSUME NEW j \in Each, j > Len(collected) + 1 PROVE stage'[j] = "queued"
  BY <1>3, <1>6, <1>7, ApartOthers DEF SequenceInv
<1> QED BY <1>4, <1>7

LEMMA BusyIsFinite == ASSUME PoolType PROVE IsFiniteSet(Busy) /\ Cardinality(Busy) \in Nat
<1>1. IsFiniteSet(Each)
  BY FS_Interval DEF PoolType, IsListing, Each
<1> QED BY <1>1, FS_Subset, FS_CardinalityType DEF Busy

LEMMA WorkersType == PoolType => Workers \in Nat
  BY DEF PoolType, IsListing, Workers, Largest, Smallest

LEMMA ApartCount ==
    ASSUME PoolType, CountInv, NEW i \in Each, Apart(i), Worker(i)
    PROVE  CountInv'
<1>1. UNCHANGED <<checks, mode>> /\ Each' = Each BY DEF Apart, Each
<1>2. Workers' = Workers BY <1>1 DEF Workers, Sequential
<1>3. Busy' \subseteq Busy \cup {i}
  BY <1>1, ApartOthers DEF Busy
<1>4. IsFiniteSet(Busy) /\ Cardinality(Busy) \in Nat BY BusyIsFinite
<1>5. CASE i \in Busy
  <2>1. Busy' \subseteq Busy BY <1>3, <1>5
  <2>2. Cardinality(Busy') <= Cardinality(Busy) BY <1>4, <2>1, FS_Subset
  <2>3. Cardinality(Busy') \in Nat BY <1>4, <2>1, FS_Subset, FS_CardinalityType
  <2> QED BY <1>2, <1>4, <2>2, <2>3, WorkersType DEF CountInv
<1>6. CASE i \notin Busy
  <2>1. Cardinality(Busy) < Workers
    <3>1. stage[i] \in {"queued", "done"} BY <1>6 DEF Busy
    <3>2. Take(i) BY <3>1, WorkerTurn DEF Apart
    <3> QED BY <3>2 DEF Take, MayTake
  <2>2. IsFiniteSet(Busy \cup {i}) /\ Cardinality(Busy \cup {i}) = Cardinality(Busy) + 1
    BY <1>4, <1>6, FS_AddElement
  <2>3. Cardinality(Busy') <= Cardinality(Busy) + 1 /\ Cardinality(Busy') \in Nat
    BY <1>3, <2>2, FS_Subset, FS_CardinalityType
  <2> QED BY <1>2, <1>4, <2>1, <2>3, WorkersType DEF CountInv
<1> QED BY <1>5, <1>6

LEMMA WorkerInductive ==
    ASSUME PoolInv, NEW i \in Each, Worker(i) PROVE PoolInv'
<1>1. PoolType /\ CallerInv /\ SequenceInv /\ CountInv /\ \A j \in Each : CheckInv(j)
  BY DEF PoolInv
<1>2. Apart(i) /\ CheckInv(i)' BY WorkerStep
<1>3. PoolType' BY <1>1, <1>2, ApartType
<1>4. (\A j \in Each : CheckInv(j))' BY <1>1, <1>2, ApartChecks
<1>5. CallerInv' BY <1>1, <1>2, ApartCaller
<1>6. SequenceInv' BY <1>1, <1>2, ApartSequence
<1>7. CountInv' BY <1>1, <1>2, ApartCount
<1> QED BY <1>3, <1>4, <1>5, <1>6, <1>7 DEF PoolInv

-----------------------------------------------------------------------------
(***************************************************************************)
(* The calling thread.                                                     *)
(***************************************************************************)
LEMMA Lengths ==
    ASSUME PoolType
    PROVE  Len(collected) \in Nat /\ Len(checks) \in Nat /\ Each = 1..Len(checks)
  BY DEF PoolType, IsListing, Each

\* It does not touch a check.
LEMMA CallerFrame ==
    ASSUME PoolInv, UNCHANGED <<checks, mode, stage, report, hooks, running, result>>
    PROVE  (\A j \in Each : CheckInv(j))' /\ CountInv'
  BY DEF PoolInv, CheckInv, CountInv, Right, Blocked, ResultOf, Each, Busy,
     Workers,
         Sequential

LEMMA CallerCollects ==
    ASSUME PoolInv, NEW i \in Each, Collect(i) PROVE PoolInv'
<1> USE DEF PoolInv, Collect
<1>1. UNCHANGED <<checks, mode, stage, report, hooks, running, result>> OBVIOUS
<1>2. (\A j \in Each : CheckInv(j))' /\ CountInv' BY <1>1, CallerFrame
<1>3. i = Len(collected) + 1 /\ Len(collected) \in Nat /\ i \in 1..Len(checks)
      /\ Len(checks) \in Nat
  BY Lengths DEF TakesNext
<1>4. result[i] \in Results /\ collected \in Seq(Results) BY DEF PoolType
<1>5. collected' \in Seq(Results) /\ Len(collected') = i
  BY <1>3, <1>4
<1>6. \A k \in 1..i : collected'[k] = IF k = i THEN result[i] ELSE collected[k]
  BY <1>3, <1>4
<1>7. pool' \in {"shut", "open"} OBVIOUS
<1>8. PoolType'
  <2>1. Each' = Each /\ Results' = Results BY <1>1 DEF Each, Results
  <2> QED BY <1>1, <1>5, <1>7, <2>1 DEF PoolType, Pools
<1>9. CallerInv'
  <2>1. ASSUME NEW k \in 1..i
        PROVE  stage[k] = "done" /\ result[k] # Raised /\ collected'[k] = result[k]
    BY <1>3, <1>6 DEF CallerInv
  <2>2. pool' = "shut" => Len(collected') = Len(checks) OBVIOUS
  <2> QED BY <1>1, <1>3, <1>5, <1>7, <2>1, <2>2 DEF CallerInv
<1>10. SequenceInv'
  <2>1. Sequential' = Sequential /\ Each' = Each BY <1>1 DEF Sequential, Each
  <2>2. ASSUME Sequential, NEW j \in Each, j > i + 1 PROVE stage'[j] = "queued"
    <3>1. j \in Int /\ j > Len(collected) + 1
      BY <1>3, <2>2, Lengths
    <3> QED BY <1>1, <2>2, <3>1 DEF SequenceInv
  <2> QED BY <1>5, <1>7, <2>1, <2>2 DEF SequenceInv
<1> QED BY <1>2, <1>8, <1>9, <1>10

\* In sequence, those after the one that raised have not been taken.
LEMMA CallerRaises ==
    ASSUME PoolInv, NEW i \in Each, CollectRaises(i) PROVE PoolInv'
<1> USE DEF PoolInv, CollectRaises
<1>1. UNCHANGED <<checks, mode, stage, report, hooks, running, result, collected>> OBVIOUS
<1>2. (\A j \in Each : CheckInv(j))' /\ CountInv' BY <1>1, CallerFrame
<1>3. PoolType' BY <1>1 DEF PoolType, Pools, Results, Each
<1>4. CallerInv' BY <1>1 DEF CallerInv
<1>5. Sequential' = Sequential /\ Each' = Each BY <1>1 DEF Sequential, Each
<1>6. Sequential => Quiet
  <2> SUFFICES ASSUME Sequential, NEW j \in Each PROVE stage[j] \in {"queued", "done"}
    BY DEF Quiet
  <2>1. i = Len(collected) + 1 /\ Len(collected) \in Nat /\ j \in 1..Len(checks)
    BY DEF TakesNext, PoolType, IsListing, Each
  <2>2. CASE j < i BY <2>1, <2>2 DEF CallerInv
  <2>3. CASE j = i BY <2>3
  <2>4. CASE j > i BY <2>1, <2>4 DEF SequenceInv
  <2> QED BY <2>1, <2>2, <2>3, <2>4
<1>7. SequenceInv' BY <1>1, <1>5, <1>6 DEF SequenceInv, Quiet
<1> QED BY <1>2, <1>3, <1>4, <1>7

LEMMA CallerLeaves == PoolInv /\ Leave => PoolInv'
<1> SUFFICES ASSUME PoolInv, Leave PROVE PoolInv'
  OBVIOUS
<1> USE DEF PoolInv, Leave
<1>1. UNCHANGED <<checks, mode, stage, report, hooks, running, result, collected>> OBVIOUS
<1>2. (\A j \in Each : CheckInv(j))' /\ CountInv' BY <1>1, CallerFrame
<1>3. PoolType' BY <1>1 DEF PoolType, Pools, Results, Each
<1>4. Quiet BY DEF Drained, SequenceInv, Quiet
<1>5. CallerInv' BY <1>1, <1>4 DEF CallerInv, Quiet, Each
<1>6. SequenceInv' BY <1>1, <1>4 DEF SequenceInv, Quiet, Each, Sequential
<1> QED BY <1>2, <1>3, <1>5, <1>6

LEMMA PoolStep == PoolInv /\ PoolNext => PoolInv'
  BY WorkerInductive, CallerCollects, CallerRaises, CallerLeaves DEF PoolNext,
     Caller

-----------------------------------------------------------------------------
(***************************************************************************)
(* The command around the pool.                                            *)
(***************************************************************************)
Fresh == pool = "idle" /\ hooks = {} /\ running = {} /\ collected = <<>>

GateInv ==
    /\ PoolInv
    /\ task \in Task
    /\ pc \in {"contract", "base", "checks"} => Fresh
    /\ pc \in {"base", "checks"} /\ ~Waives => IsListing(contract.checks)

LEMMA SubmitEstablishes ==
    ASSUME PoolInv, Fresh, NEW specs, NEW options, Submit(specs, options),
           IsListing(specs), options.parallel \in BOOLEAN, options.untrusted \in BOOLEAN,
           options.workers \in Int
    PROVE  PoolInv'
<1> USE DEF Submit, Fresh
<1>1. checks' = specs /\ mode' = options /\ Each' = DOMAIN specs BY DEF Each
<1>2. hooks' = {} /\ running' = {} /\ collected' = <<>> OBVIOUS
<1>3. \A i \in DOMAIN specs : stage'[i] = "queued" /\ report'[i] = NoReport
  OBVIOUS
<1>4. PoolType'
  <2>1. stage' \in [DOMAIN specs -> Stages] BY DEF Stages
  <2>2. report' \in [DOMAIN specs -> Made \cup {NoReport}] OBVIOUS
  <2>3. Nothing \in Results' BY DEF Nothing, Results, ResultCode
  <2>4. result' \in [DOMAIN specs -> Results'] BY <2>3
  <2>5. pool' \in Pools BY DEF Pools
  <2> QED BY <1>1, <1>2, <2>1, <2>2, <2>4, <2>5 DEF PoolType
<1>5. (\A i \in Each : CheckInv(i))'
  BY <1>1, <1>2, <1>3 DEF CheckInv
<1>6. Len(specs) \in Nat /\ Len(collected') = 0
  BY <1>2 DEF IsListing
<1>7. CallerInv'
  BY <1>1, <1>2, <1>6 DEF CallerInv
<1>8. SequenceInv'
  <2>1. pool' # "closing" OBVIOUS
  <2> QED BY <1>1, <1>3, <2>1 DEF SequenceInv
<1>9. CountInv'
  <2>1. Busy' = {} BY <1>1, <1>3 DEF Busy
  <2>2. (Workers \in Nat)' BY <1>4, WorkersType, PTL
  <2> QED BY <2>1, <2>2, FS_EmptySet DEF CountInv
<1> QED BY <1>4, <1>5, <1>7, <1>8, <1>9 DEF PoolInv

LEMMA GateInitial == Init => GateInv
<1> SUFFICES ASSUME Init PROVE GateInv
  OBVIOUS
<1> USE DEF Init, PoolInit
<1>1. Each = {} /\ IsListing(checks) BY DEF Each, IsListing
<1>2. PoolType BY <1>1 DEF PoolType, Pools
<1>3. CallerInv /\ SequenceInv BY <1>1 DEF CallerInv, SequenceInv
<1>4. CountInv
  <2>1. Busy = {} BY <1>1 DEF Busy
  <2>2. Workers \in Nat BY <1>2, WorkersType
  <2> QED BY <2>1, <2>2, FS_EmptySet DEF CountInv
<1>5. PoolInv BY <1>1, <1>2, <1>3, <1>4 DEF PoolInv
<1> QED BY <1>5 DEF GateInv, Fresh

\* What leaves the pool alone.
LEMMA PoolFrame == PoolInv /\ UNCHANGED poolVars => PoolInv'
  BY DEF PoolInv, poolVars, PoolType, CheckInv, CallerInv, SequenceInv, CountInv,
     Right,
         Blocked, ResultOf, Quiet, Each, Busy, Workers, Sequential, Results

LEMMA GateLoads == GateInv /\ LoadContract => GateInv'
<1> SUFFICES ASSUME GateInv, LoadContract PROVE GateInv'
  OBVIOUS
<1>1. PoolInv' /\ UNCHANGED <<poolVars, task>> BY PoolFrame DEF GateInv, LoadContract
<1>2. Fresh' BY <1>1 DEF GateInv, LoadContract, Fresh, poolVars
<1>3. ASSUME ~Waives PROVE IsListing(contract'.checks)
  <2>1. task.detected \in Seq(CheckSpec)
        /\ (task.contract # <<>> => task.contract \in Contract)
    BY TaskAssumption DEF GateInv
  <2>3. IsListing(task.detected) /\ (task.contract # <<>> => IsListing(task.contract.checks))
    BY <2>1 DEF IsListing, Contract
  <2>2. Preview(task.detected).checks = task.detected
    BY DEF Preview, DefaultContract
  <2> QED BY <1>3, <2>2, <2>3 DEF LoadContract
<1> QED BY <1>1, <1>2, <1>3 DEF GateInv, Waives, Scans

LEMMA GateRuns == GateInv /\ RunChecks => GateInv'
<1> SUFFICES ASSUME GateInv, RunChecks PROVE GateInv'
  OBVIOUS
<1>1. Submit(contract.checks, task.options) /\ Fresh /\ PoolInv BY DEF GateInv, RunChecks
<1>2. IsListing(contract.checks) BY DEF GateInv, RunChecks, Executes, Waives
<1>3. PoolInv' BY <1>1, <1>2, TaskAssumption, SubmitEstablishes DEF GateInv
<1> QED BY <1>3 DEF GateInv, RunChecks

LEMMA GateInductive == GateInv /\ [Next]_vars => GateInv'
<1> SUFFICES ASSUME GateInv, [Next]_vars PROVE GateInv'
  OBVIOUS
<1>1. CASE LoadContract BY <1>1, GateLoads
<1>2. CASE RunChecks BY <1>2, GateRuns
<1>3. CASE InPool
  BY <1>3, PoolStep DEF InPool, GateInv, gateVars
<1>4. CASE \/ SelectBase \/ SkipChecks \/ ChecksReturn \/ Evaluate \/ WriteEvidence
           \/ Conclude \/ Raises \/ Done \/ UNCHANGED vars
  <2>1. UNCHANGED <<poolVars, task>> /\ UNCHANGED <<contract>>
    BY <1>4 DEF SelectBase, SkipChecks, ChecksReturn, Evaluate, WriteEvidence,
       Conclude,
                Raises, Done, vars, gateVars
  <2>2. pc' = pc \/ pc' \in {"policy", "write", "print", "done"} \/ (pc = "base" /\ pc' = "checks")
    BY <1>4 DEF SelectBase, SkipChecks, ChecksReturn, Evaluate, WriteEvidence,
       Conclude,
                Raises, Done, vars, gateVars
  <2>3. PoolInv' BY <2>1, PoolFrame DEF GateInv
  <2> QED BY <2>1, <2>2, <2>3 DEF GateInv, Fresh, poolVars, Waives, Scans
<1> QED BY <1>1, <1>2, <1>3, <1>4 DEF Next

LEMMA PoolInvariance == Spec => []PoolInv
<1>1. GateInv => PoolInv BY DEF GateInv
<1> QED BY <1>1, GateInitial, GateInductive, PTL DEF Spec

-----------------------------------------------------------------------------
LEMMA DeservedResults == PoolInv => ResultsAreTheirs
<1> SUFFICES ASSUME PoolInv, pool = "shut", NEW i \in Each
             PROVE  /\ Len(collected) = Len(checks)
                    /\ collected[i].id = checks[i].id
                    /\ report[i] = Report("none", "zero", FALSE)
                          <=> collected[i].exit = "0"
                    /\ Blocked(i) <=> report[i] = NoReport
                    /\ Blocked(i) => collected[i].exit = "126"
                    /\ collected[i].timed <=> collected[i].exit = NoExit
  BY DEF ResultsAreTheirs, PoolInv, CallerInv, Blocked
<1>1. Len(collected) = Len(checks) /\ i \in 1..Len(collected)
  BY Lengths DEF PoolInv, CallerInv
<1>2. collected[i] = result[i] /\ Right(i)
  BY <1>1 DEF PoolInv, CallerInv, CheckInv
<1>3. CASE Blocked(i)
  <2>1. report[i] = NoReport /\ collected[i] = ResultOf(i, "126", FALSE)
    BY <1>2, <1>3 DEF Right
  <2>2. /\ collected[i].id = checks[i].id /\ collected[i].exit = "126"
        /\ collected[i].timed = FALSE
    BY <2>1 DEF ResultOf
  <2>3. report[i] # Report("none", "zero", FALSE)
    BY <2>1 DEF Report, NoReport
  <2>4. collected[i].exit # "0" /\ collected[i].exit # NoExit /\ ~collected[i].timed
    BY <2>2 DEF NoExit
  <2> QED BY <1>1, <1>3, <2>1, <2>2, <2>3, <2>4, Zenon
<1>4. CASE ~Blocked(i)
  <2>1. PICK code \in CodesOf(report[i]) :
           report[i] \in Made /\ collected[i] = ResultOf(i, code, report[i].timed)
    BY <1>2, <1>4 DEF Right
  <2>2. collected[i].id = checks[i].id /\ collected[i].exit = code
        /\ collected[i].timed = report[i].timed
    BY <2>1 DEF ResultOf
  <2>3. /\ report[i].timed <=> code = NoExit
        /\ report[i] = Report("none", "zero", FALSE) <=> code = "0"
        /\ report[i] # NoReport
    BY <2>1, ReportFacts
  <2> QED BY <1>1, <1>4, <2>2, <2>3, Zenon
<1> QED BY <1>3, <1>4

\* run_checks and _run_one (checks.py:53-57, 90-98): whatever finishes first,
\* each result is that of its own check, and only zero is a success.
THEOREM ResultsBelong == Spec => []ResultsAreTheirs
  BY PoolInvariance, DeservedResults, PTL

LEMMA QuietPool == PoolInv => NothingRunsOn
<1> SUFFICES ASSUME PoolInv PROVE NothingRunsOn
  OBVIOUS
<1> DEFINE run == {i \in Each : stage[i] = "run"}
<1>1. Cardinality(run) <= IF mode.parallel THEN Largest(1, mode.workers) ELSE 1
  <2>1. run \subseteq Busy BY DEF Busy
  <2>2. IsFiniteSet(Busy) /\ Cardinality(Busy) \in Nat BY BusyIsFinite DEF PoolInv
  <2>3. Cardinality(run) <= Cardinality(Busy) /\ Cardinality(run) \in Nat
    BY <2>1, <2>2, FS_Subset, FS_CardinalityType
  <2>4. Workers \in Nat /\ mode.workers \in Int /\ Len(checks) \in Nat
    BY WorkersType, Lengths DEF PoolInv, PoolType
  <2>5. Workers <= IF mode.parallel THEN Largest(1, mode.workers) ELSE 1
    BY <2>4 DEF Workers, Sequential, Largest, Smallest
  <2>6. Cardinality(Busy) <= Workers BY DEF PoolInv, CountInv
  <2> QED BY <2>2, <2>3, <2>4, <2>5, <2>6 DEF Largest
<1>2. ASSUME pool \in {"shut", "raised"}
      PROVE  Quiet
  <2>1. CASE pool = "raised" BY <2>1 DEF PoolInv, CallerInv
  <2>2. CASE pool = "shut"
    <3>1. Each = 1..Len(collected) BY <2>2, Lengths DEF PoolInv, CallerInv
    <3> QED BY <3>1 DEF PoolInv, CallerInv, Quiet
  <2> QED BY <1>2, <2>1, <2>2
<1>3. ASSUME pool \in {"shut", "raised"}
      PROVE  /\ \A i \in running : report[i].failure = "cleanup_failed"
             /\ \A i \in hooks : result[i] = Raised
  <2>1. running \subseteq Each /\ hooks \subseteq Each /\ \A i \in Each : CheckInv(i)
    BY DEF PoolInv, PoolType
  <2> QED BY <1>2, <1>3, <2>1 DEF Quiet, CheckInv
<1> QED BY <1>1, <1>3 DEF NothingRunsOn

\* run_checks (checks.py:52): however the pool is left, nothing it started
\* runs on, unless a cleanup failed and was reported.
THEOREM PoolIsDrained == Spec => []NothingRunsOn
  BY PoolInvariance, QuietPool, PTL

-----------------------------------------------------------------------------
(***************************************************************************)
(* Patterns.  The rows of _glob_match are the ways to lay the tokens over  *)
(* the path: the least row for which they were not would refute itself, so *)
(* a match is what the docstring of _matches says, for any path and any    *)
(* pattern.                                                                *)
(***************************************************************************)
LEMMA Least ==
    ASSUME NEW T \in SUBSET Nat, T # {}
    PROVE  \E x \in T : \A y \in T : x <= y
<1>1. PICK x \in T : \A y \in T : ~(<<y, x>> \in OpToRel(<, Nat))
  BY NatLessThanWellFounded, WFMin
<1>2. \A y \in T : ~(y < x)
  BY <1>1 DEF OpToRel
<1> QED BY <1>2

\* The sets of numbers of segments after the first n tokens.
EndsOf(path, tokens, n, f) ==
    /\ DOMAIN f = 0..n /\ f[0] = {0}
    /\ \A k \in 1..n :
          f[k] = IF tokens[k] = "**" THEN Spanned(f[k - 1], path)
                 ELSE Stepped(f[k - 1], path, tokens[k])

LEMMA EndsExist ==
    ASSUME NEW path, NEW tokens, NEW n \in Nat
    PROVE  \E f : EndsOf(path, tokens, n, f)
<1> DEFINE T == {k \in Nat : ~ \E f : EndsOf(path, tokens, k, f)}
<1> SUFFICES ASSUME T # {} PROVE FALSE
  OBVIOUS
<1>1. PICK x \in T : \A y \in T : x <= y
  <2>1. T \in SUBSET Nat
    OBVIOUS
  <2> HIDE DEF T
  <2> QED BY <2>1, Least
<1>2. x \in Nat /\ ~ \E f : EndsOf(path, tokens, x, f)
  BY <1>1
<1>3. CASE x = 0
  <2>1. EndsOf(path, tokens, 0, [k \in 0..0 |-> {0}])
    BY DEF EndsOf
  <2> QED BY <1>2, <1>3, <2>1
<1>4. CASE x # 0
  <2>1. x - 1 \in Nat /\ x - 1 \notin T
    <3>1. x - 1 \in Nat /\ ~(x <= x - 1)
      BY <1>2, <1>4
    <3> HIDE DEF T
    <3> QED BY <1>1, <3>1
  <2>2. PICK f : EndsOf(path, tokens, x - 1, f)
    BY <2>1
  <2>3. PICK e : e = IF tokens[x] = "**" THEN Spanned(f[x - 1], path)
                     ELSE Stepped(f[x - 1], path, tokens[x])
    OBVIOUS
  <2> DEFINE g == [k \in 0..x |-> IF k = x THEN e ELSE f[k]]
  <2>4. DOMAIN g = 0..x /\ g[0] = {0}
    BY <1>2, <1>4, <2>2 DEF EndsOf
  <2>5. ASSUME NEW k \in 1..x
        PROVE  g[k] = IF tokens[k] = "**" THEN Spanned(g[k - 1], path)
                      ELSE Stepped(g[k - 1], path, tokens[k])
    <3>0. k \in 0..x /\ k - 1 \in 0..x /\ k - 1 # x
      BY <1>2
    <3>1. g[k - 1] = f[k - 1]
      BY <3>0
    <3>2. CASE k = x
      <4>1. g[k] = e
        BY <3>0, <3>2
      <4> QED BY <2>3, <3>1, <3>2, <4>1
    <3>3. CASE k # x
      <4>1. k \in 1..(x - 1) /\ g[k] = f[k]
        BY <1>2, <3>0, <3>3
      <4>2. f[k] = IF tokens[k] = "**" THEN Spanned(f[k - 1], path)
                   ELSE Stepped(f[k - 1], path, tokens[k])
        BY <2>2, <4>1 DEF EndsOf
      <4> HIDE DEF g
      <4> QED BY <3>1, <4>1, <4>2
    <3> QED BY <3>2, <3>3
  <2>6. EndsOf(path, tokens, x, g)
    <3> HIDE DEF g
    <3> QED BY <2>4, <2>5 DEF EndsOf
  <2> QED BY <1>2, <2>6
<1> QED BY <1>3, <1>4

LEMMA EndsFacts ==
    ASSUME NEW path, NEW tokens, Len(tokens) \in Nat
    PROVE  EndsOf(path, tokens, Len(tokens), Ends(path, tokens))
<1>1. PICK g : EndsOf(path, tokens, Len(tokens), g)
  BY EndsExist
<1> DEFINE n == Len(tokens)
           h == [k \in 0..n |-> g[k]]
<1>2. h = [k \in 0..n |->
             IF k = 0 THEN {0}
             ELSE IF tokens[k] = "**" THEN Spanned(h[k - 1], path)
             ELSE Stepped(h[k - 1], path, tokens[k])]
  <2>1. ASSUME NEW k \in 0..n
        PROVE  g[k] = IF k = 0 THEN {0}
                      ELSE IF tokens[k] = "**" THEN Spanned(h[k - 1], path)
                      ELSE Stepped(h[k - 1], path, tokens[k])
    <3>1. CASE k = 0
      BY <1>1, <3>1 DEF EndsOf
    <3>2. CASE k # 0
      <4>1. k \in 1..n /\ k - 1 \in 0..n
        BY <3>2
      <4>2. h[k - 1] = g[k - 1]
        BY <4>1
      <4>3. g[k] = IF tokens[k] = "**" THEN Spanned(g[k - 1], path)
                   ELSE Stepped(g[k - 1], path, tokens[k])
        BY <1>1, <4>1 DEF EndsOf
      <4> HIDE DEF h
      <4> QED BY <3>2, <4>2, <4>3
    <3> QED BY <3>1, <3>2
  <2>2. \A k \in 0..n : h[k] = g[k]
    OBVIOUS
  <2>3. h = [k \in 0..n |-> h[k]]
    OBVIOUS
  <2> HIDE DEF h, n
  <2> QED BY <2>1, <2>2, <2>3
<1> DEFINE Body(f) == [k \in 0..n |->
             IF k = 0 THEN {0}
             ELSE IF tokens[k] = "**" THEN Spanned(f[k - 1], path)
             ELSE Stepped(f[k - 1], path, tokens[k])]
<1>3. Ends(path, tokens) = Body(Ends(path, tokens))
  <2>1. h = Body(h)
    BY <1>2
  <2>2. Ends(path, tokens) = CHOOSE f : f = Body(f)
    BY DEF Ends
  <2> HIDE DEF h, Body
  <2> QED BY <2>1, <2>2
<1>4. PICK f : f = Ends(path, tokens)
  OBVIOUS
<1>5. f = Body(f)
  <2> HIDE DEF Body
  <2> QED BY <1>3, <1>4
<1>6. DOMAIN f = 0..n /\ f[0] = {0}
  <2>1. DOMAIN f = 0..n
    BY <1>5
  <2>2. 0 \in 0..n
    OBVIOUS
  <2> QED BY <1>5, <2>1, <2>2
<1>7. ASSUME NEW k \in 1..n
      PROVE  f[k] = IF tokens[k] = "**" THEN Spanned(f[k - 1], path)
                    ELSE Stepped(f[k - 1], path, tokens[k])
  <2>1. k \in 0..n /\ k # 0
    OBVIOUS
  <2>2. Body(f)[k] = IF tokens[k] = "**" THEN Spanned(f[k - 1], path)
                     ELSE Stepped(f[k - 1], path, tokens[k])
    BY <2>1
  <2> HIDE DEF Body
  <2> QED BY <1>5, <2>2
<1> QED BY <1>4, <1>6, <1>7 DEF EndsOf

\* A token is laid from the j-th segment to the n-th.
Laid(path, token, j, n) ==
    IF token = "**" THEN j <= n ELSE n = j + 1 /\ Fits(path[n], token)

\* The first k tokens are laid over the first n segments.
Over(path, tokens, k, n, end) ==
    /\ end \in [0..k -> 0..Len(path)] /\ end[0] = 0 /\ end[k] = n
    /\ \A i \in 1..k : Laid(path, tokens[i], end[i - 1], end[i])

LEMMA OverExtends ==
    ASSUME NEW path, NEW tokens, NEW k \in Nat, k # 0, NEW j, NEW end,
           Over(path, tokens, k - 1, j, end),
           NEW n \in 0..Len(path), Laid(path, tokens[k], j, n)
    PROVE  \E e : Over(path, tokens, k, n, e)
<1> DEFINE e == [i \in 0..k |-> IF i = k THEN n ELSE end[i]]
<1>1. k - 1 \in 0..k /\ k \in 0..k /\ 0 \in 0..k /\ 0 # k /\ k - 1 # k
  OBVIOUS
<1>2. /\ end \in [0..(k - 1) -> 0..Len(path)] /\ end[0] = 0 /\ end[k - 1] = j
      /\ \A i \in 1..(k - 1) : Laid(path, tokens[i], end[i - 1], end[i])
  BY DEF Over
<1>3. e \in [0..k -> 0..Len(path)]
  <2>1. ASSUME NEW i \in 0..k, i # k PROVE end[i] \in 0..Len(path)
    <3>1. i \in 0..(k - 1)
      BY <2>1
    <3> QED BY <1>2, <3>1
  <2> QED BY <2>1
<1>4. e[0] = 0 /\ e[k] = n /\ e[k - 1] = j
  BY <1>1, <1>2
<1>5. ASSUME NEW i \in 1..k PROVE Laid(path, tokens[i], e[i - 1], e[i])
  <2>1. CASE i = k
    <3> HIDE DEF e
    <3> QED BY <1>4, <2>1
  <2>2. CASE i # k
    <3>1. i \in 1..(k - 1) /\ i \in 0..k /\ i - 1 \in 0..k /\ i - 1 # k
      BY <2>2
    <3>2. e[i] = end[i] /\ e[i - 1] = end[i - 1]
      BY <2>2, <3>1
    <3> HIDE DEF e
    <3> QED BY <1>2, <3>1, <3>2
  <2> QED BY <2>1, <2>2
<1> HIDE DEF e
<1> QED BY <1>3, <1>4, <1>5 DEF Over

LEMMA OverShrinks ==
    ASSUME NEW path, NEW tokens, NEW k \in Nat, k # 0, NEW n, NEW end,
           Over(path, tokens, k, n, end)
    PROVE  \E j \in 0..Len(path) : \E e :
              /\ Over(path, tokens, k - 1, j, e)
              /\ n \in 0..Len(path) /\ Laid(path, tokens[k], j, n)
<1>1. /\ end \in [0..k -> 0..Len(path)] /\ end[0] = 0 /\ end[k] = n
      /\ \A i \in 1..k : Laid(path, tokens[i], end[i - 1], end[i])
  BY DEF Over
<1>2. k - 1 \in 0..k /\ k \in 0..k /\ k \in 1..k /\ k - 1 \in 0..(k - 1) /\ 0 \in 0..(k - 1)
  OBVIOUS
<1> DEFINE e == [i \in 0..(k - 1) |-> end[i]]
<1>3. \A i \in 0..(k - 1) : i \in 0..k /\ e[i] = end[i]
  OBVIOUS
<1>4. e \in [0..(k - 1) -> 0..Len(path)]
  BY <1>1, <1>3
<1>5. e[0] = 0 /\ e[k - 1] = end[k - 1]
  BY <1>1, <1>2, <1>3
<1> HIDE DEF e
<1>6. ASSUME NEW i \in 1..(k - 1) PROVE Laid(path, tokens[i], e[i - 1], e[i])
  <2>1. i \in 1..k /\ i \in 0..(k - 1) /\ i - 1 \in 0..(k - 1)
    OBVIOUS
  <2>2. e[i] = end[i] /\ e[i - 1] = end[i - 1]
    BY <1>3, <2>1
  <2> QED BY <1>1, <2>1, <2>2
<1>7. Over(path, tokens, k - 1, end[k - 1], e)
  BY <1>4, <1>5, <1>6 DEF Over
<1>8. end[k - 1] \in 0..Len(path) /\ n \in 0..Len(path) /\ Laid(path, tokens[k], end[k - 1], n)
  BY <1>1, <1>2
<1> QED BY <1>7, <1>8

LEMMA EndsAreLaid ==
    ASSUME NEW path, Len(path) \in Nat, NEW tokens, Len(tokens) \in Nat,
           NEW k \in 0..Len(tokens), NEW n
    PROVE  n \in Ends(path, tokens)[k] <=> \E end : Over(path, tokens, k, n, end)
<1> DEFINE E == Ends(path, tokens)
           T == {m \in 0..Len(tokens) :
                   ~ \A x : x \in E[m] <=> \E end : Over(path, tokens, m, x, end)}
<1> SUFFICES ASSUME T # {} PROVE FALSE
  OBVIOUS
<1>1. PICK m \in T : \A y \in T : m <= y
  <2>1. T \in SUBSET Nat
    OBVIOUS
  <2> HIDE DEF T
  <2> QED BY <2>1, Least
<1>2. /\ m \in 0..Len(tokens) /\ m \in Nat
      /\ ~ \A x : x \in E[m] <=> \E end : Over(path, tokens, m, x, end)
  BY <1>1
<1>3. /\ E[0] = {0}
      /\ \A i \in 1..Len(tokens) :
            E[i] = IF tokens[i] = "**" THEN Spanned(E[i - 1], path)
                   ELSE Stepped(E[i - 1], path, tokens[i])
  <2>1. Len(tokens) \in Nat
    OBVIOUS
  <2> QED BY <2>1, EndsFacts DEF EndsOf
<1>4. Len(path) \in Nat
  OBVIOUS
<1> HIDE DEF E
<1>5. CASE m = 0
  <2>1. ASSUME NEW x, NEW end, Over(path, tokens, 0, x, end) PROVE x = 0
    BY <2>1 DEF Over
  <2>2. Over(path, tokens, 0, 0, [i \in 0..0 |-> 0])
    BY <1>4 DEF Over
  <2> QED BY <1>2, <1>3, <1>5, <2>1, <2>2
<1>6. CASE m # 0
  <2>1. m \in 1..Len(tokens) /\ m - 1 \in 0..Len(tokens) /\ ~(m <= m - 1)
    BY <1>2, <1>6
  <2>2. \A x : x \in E[m - 1] <=> \E end : Over(path, tokens, m - 1, x, end)
    <3>1. m - 1 \notin T
      <4> HIDE DEF T
      <4> QED BY <1>1, <2>1
    <3> QED BY <2>1, <3>1
  <2>3. \A j \in E[m - 1] : j \in 0..Len(path)
    <3>1. ASSUME NEW j, NEW end, Over(path, tokens, m - 1, j, end) PROVE j \in 0..Len(path)
      <4>1. m - 1 \in 0..(m - 1)
        BY <2>1
      <4> QED BY <3>1, <4>1 DEF Over
    <3> QED BY <2>2, <3>1
  <2>4. ASSUME NEW x
        PROVE  x \in E[m] <=>
                  x \in 0..Len(path) /\ \E j \in E[m - 1] : Laid(path, tokens[m], j, x)
    <3>1. CASE tokens[m] = "**"
      <4>1. E[m] = Spanned(E[m - 1], path)
        BY <1>3, <2>1, <3>1
      <4> QED BY <3>1, <4>1 DEF Spanned, Laid
    <3>2. CASE tokens[m] # "**"
      <4>1. E[m] = Stepped(E[m - 1], path, tokens[m])
        BY <1>3, <2>1, <3>2
      <4>2. x \in E[m] <=> x \in 1..Len(path) /\ x - 1 \in E[m - 1] /\ Fits(path[x], tokens[m])
        BY <4>1 DEF Stepped
      <4>3. ASSUME x \in 0..Len(path), NEW j \in E[m - 1], x = j + 1
            PROVE  x \in 1..Len(path) /\ x - 1 \in E[m - 1]
        <5>1. j \in 0..Len(path)
          BY <2>3
        <5>2. x - 1 = j /\ x \in 1..Len(path)
          BY <1>4, <4>3, <5>1
        <5> QED BY <5>2
      <4>4. ASSUME x \in 1..Len(path), x - 1 \in E[m - 1]
            PROVE  x \in 0..Len(path) /\ \E j \in E[m - 1] : x = j + 1
        <5>1. x \in 0..Len(path) /\ x = (x - 1) + 1
          BY <1>4, <4>4
        <5> QED BY <4>4, <5>1
      <4> QED BY <3>2, <4>2, <4>3, <4>4 DEF Laid
    <3> QED BY <3>1, <3>2
  <2>5. ASSUME NEW x, x \in E[m] PROVE \E end : Over(path, tokens, m, x, end)
    <3>1. x \in 0..Len(path) /\ \E j \in E[m - 1] : Laid(path, tokens[m], j, x)
      BY <2>4, <2>5
    <3>2. PICK j \in E[m - 1] : Laid(path, tokens[m], j, x)
      BY <3>1
    <3>3. PICK end : Over(path, tokens, m - 1, j, end)
      BY <2>2, <3>2
    <3> QED BY <1>2, <1>6, <3>1, <3>2, <3>3, OverExtends
  <2>6. ASSUME NEW x, NEW end, Over(path, tokens, m, x, end) PROVE x \in E[m]
    <3>1. PICK j \in 0..Len(path) :
             /\ \E e : Over(path, tokens, m - 1, j, e)
             /\ x \in 0..Len(path) /\ Laid(path, tokens[m], j, x)
      BY <1>2, <1>6, <2>6, OverShrinks
    <3>2. j \in E[m - 1]
      BY <2>2, <3>1
    <3> QED BY <2>4, <3>1, <3>2
  <2> QED BY <1>2, <2>5, <2>6
<1> QED BY <1>5, <1>6

LEMMA GlobIsLaid ==
    ASSUME NEW path, Len(path) \in Nat, NEW tokens, Len(tokens) \in Nat
    PROVE  GlobMatch(path, tokens) <=> LaidOver(path, tokens)
<1>1. Len(tokens) \in 0..Len(tokens)
  OBVIOUS
<1>2. GlobMatch(path, tokens) <=> \E end : Over(path, tokens, Len(tokens), Len(path), end)
  BY <1>1, EndsAreLaid DEF GlobMatch
<1>3. ASSUME NEW end
      PROVE  Over(path, tokens, Len(tokens), Len(path), end) <=>
                /\ end \in [0..Len(tokens) -> 0..Len(path)]
                /\ end[0] = 0 /\ end[Len(tokens)] = Len(path)
                /\ \A i \in 1..Len(tokens) :
                      IF tokens[i] = "**" THEN end[i - 1] <= end[i]
                      ELSE end[i] = end[i - 1] + 1 /\ Fits(path[end[i]], tokens[i])
  BY DEF Over, Laid
<1> QED BY <1>2, <1>3 DEF LaidOver

LEMMA OverEnds ==
    ASSUME NEW path, Len(path) \in Nat, NEW tokens, NEW k \in Nat, NEW n, NEW end,
           Over(path, tokens, k, n, end), NEW i \in 0..k
    PROVE  end[i] <= n /\ n \in 0..Len(path)
<1>1. /\ \A j \in 0..k : end[j] \in 0..Len(path)
      /\ end[k] = n
      /\ \A j \in 1..k : Laid(path, tokens[j], end[j - 1], end[j])
  BY DEF Over
<1>2. \A j \in 1..k : end[j - 1] <= end[j]
  <2> TAKE j \in 1..k
  <2>1. j \in 0..k /\ j - 1 \in 0..k
    OBVIOUS
  <2>2. end[j] \in Nat /\ end[j - 1] \in Nat
    BY <1>1, <2>1
  <2> QED BY <1>1, <2>2 DEF Laid
<1>3. k \in 0..k
  OBVIOUS
<1> DEFINE T == {j \in 0..k : ~(end[k - j] <= n)}
<1> SUFFICES ASSUME ~(end[i] <= n) PROVE FALSE
  BY <1>1, <1>3
<1>4. k - i \in T
  <2>1. k - (k - i) = i /\ k - i \in 0..k
    OBVIOUS
  <2> QED BY <2>1
<1>5. PICK x \in T : \A y \in T : x <= y
  <2>1. T \in SUBSET Nat
    OBVIOUS
  <2> HIDE DEF T
  <2> QED BY <1>4, <2>1, Least
<1>6. x \in 0..k /\ ~(end[k - x] <= n)
  OBVIOUS
<1>7. x # 0
  <2>1. n \in 0..Len(path)
    BY <1>1, <1>3
  <2>2. SUFFICES ASSUME x = 0 PROVE FALSE
    OBVIOUS
  <2>3. end[k - x] = n
    BY <1>1, <2>2
  <2> QED BY <1>6, <2>1, <2>3
<1>8. x - 1 \in 0..k /\ ~(x <= x - 1) /\ k - x + 1 \in 1..k /\ (k - x + 1) - 1 = k - x
      /\ k - (x - 1) = k - x + 1
  BY <1>6, <1>7
<1>9. x - 1 \notin T
  <2> HIDE DEF T
  <2> QED BY <1>5, <1>8
<1>10. end[k - x + 1] <= n
  BY <1>8, <1>9
<1>11. end[k - x] <= end[k - x + 1]
  BY <1>2, <1>8
<1>12. end[k - x] \in Nat /\ end[k - x + 1] \in Nat /\ n \in Nat
  <2>1. k - x \in 0..k /\ k - x + 1 \in 0..k
    BY <1>6, <1>8
  <2> QED BY <1>1, <1>3, <2>1
<1> QED BY ONLY <1>6, <1>10, <1>11, <1>12

Tuple(s) == \E X : s \in Seq(X)

LEMMA TupleFacts ==
    ASSUME NEW s, Tuple(s) PROVE Len(s) \in Nat /\ DOMAIN s = 1..Len(s)
  BY DEF Tuple

LEMMA SameTuples ==
    ASSUME NEW s, Tuple(s), NEW t, Tuple(t), Len(s) = Len(t), \A i \in 1..Len(s) : s[i] = t[i]
    PROVE  s = t
<1>1. PICK X : s \in Seq(X)
  BY DEF Tuple
<1>2. PICK Y : t \in Seq(Y)
  BY DEF Tuple
<1> QED BY <1>1, <1>2

LEMMA PrefixFacts ==
    ASSUME NEW path, Tuple(path), NEW n \in 0..Len(path)
    PROVE  /\ Tuple(SubSeq(path, 1, n)) /\ Len(SubSeq(path, 1, n)) = n
           /\ \A i \in 1..n : SubSeq(path, 1, n)[i] = path[i]
<1>1. PICK X : path \in Seq(X)
  BY DEF Tuple
<1>2. /\ SubSeq(path, 1, n) \in Seq(X) /\ Len(SubSeq(path, 1, n)) = n
      /\ \A i \in 1..n : SubSeq(path, 1, n)[i] = path[i]
  BY <1>1
<1> QED BY <1>2 DEF Tuple

LEMMA AppendFacts ==
    ASSUME NEW stem, Tuple(stem), NEW e
    PROVE  /\ Tuple(Append(stem, e)) /\ Len(Append(stem, e)) = Len(stem) + 1
           /\ Append(stem, e)[Len(stem) + 1] = e
           /\ \A i \in 1..Len(stem) : Append(stem, e)[i] = stem[i]
<1>1. PICK X : stem \in Seq(X)
  BY DEF Tuple
<1>2. PICK Y : Y = X \cup {e}
  OBVIOUS
<1>3. stem \in Seq(Y) /\ e \in Y
  BY <1>1, <1>2
<1>4. /\ Append(stem, e) \in Seq(Y) /\ Len(Append(stem, e)) = Len(stem) + 1
      /\ Append(stem, e)[Len(stem) + 1] = e
      /\ \A i \in 1..Len(stem) : Append(stem, e)[i] = stem[i]
  BY <1>3
<1> QED BY <1>4 DEF Tuple

LEMMA OverPrefix ==
    ASSUME NEW path, Tuple(path), NEW stem, Tuple(stem), NEW n \in 0..Len(path)
    PROVE  LaidOver(SubSeq(path, 1, n), stem) <=> \E end : Over(path, stem, Len(stem), n, end)
<1>1. PICK p, k : p = SubSeq(path, 1, n) /\ k = Len(stem)
  OBVIOUS
<1>2. /\ Len(p) = n /\ \A i \in 1..n : p[i] = path[i]
      /\ n \in Nat /\ Len(path) \in Nat /\ n <= Len(path) /\ k \in Nat
  BY <1>1, PrefixFacts, TupleFacts
<1>3. LaidOver(p, stem) <=>
         \E end \in [0..k -> 0..n] :
            /\ end[0] = 0 /\ end[k] = n
            /\ \A i \in 1..k : Laid(p, stem[i], end[i - 1], end[i])
  BY <1>1, <1>2 DEF LaidOver, Laid
<1>4. ASSUME NEW end \in [0..k -> 0..n], NEW i \in 1..k
      PROVE  Laid(p, stem[i], end[i - 1], end[i]) <=> Laid(path, stem[i], end[i - 1], end[i])
  <2>1. i \in 0..k /\ i - 1 \in 0..k
    BY <1>2
  <2>2. end[i] \in 0..n /\ end[i - 1] \in 0..n
    BY <2>1
  <2>3. end[i] = end[i - 1] + 1 => p[end[i]] = path[end[i]]
    <3>1. end[i] = end[i - 1] + 1 => end[i] \in 1..n
      BY ONLY <1>2, <2>2
    <3> QED BY <1>2, <3>1
  <2> QED BY <2>3 DEF Laid
<1>5. ASSUME LaidOver(p, stem) PROVE \E end : Over(path, stem, k, n, end)
  <2>1. PICK end \in [0..k -> 0..n] :
            /\ end[0] = 0 /\ end[k] = n
            /\ \A i \in 1..k : Laid(p, stem[i], end[i - 1], end[i])
    BY <1>3, <1>5
  <2>2. end \in [0..k -> 0..Len(path)]
    BY <1>2
  <2>3. \A i \in 1..k : Laid(path, stem[i], end[i - 1], end[i])
    BY <1>4, <2>1
  <2> QED BY <2>1, <2>2, <2>3 DEF Over
<1>6. ASSUME NEW end, Over(path, stem, k, n, end) PROVE LaidOver(p, stem)
  <2>1. /\ end \in [0..k -> 0..Len(path)] /\ end[0] = 0 /\ end[k] = n
        /\ \A i \in 1..k : Laid(path, stem[i], end[i - 1], end[i])
    BY <1>6 DEF Over
  <2>2. \A i \in 0..k : end[i] <= n
    BY <1>2, <1>6, OverEnds
  <2>3. end \in [0..k -> 0..n]
    BY <1>2, <2>1, <2>2
  <2>4. \A i \in 1..k : Laid(p, stem[i], end[i - 1], end[i])
    BY <1>4, <2>1, <2>3
  <2> QED BY <1>3, <2>1, <2>3, <2>4
<1> QED BY <1>1, <1>5, <1>6

\* A pattern that ends with "**" covers what is below a match of its stem.
LEMMA TreeGlob ==
    ASSUME NEW path, Tuple(path), NEW stem, Tuple(stem)
    PROVE  GlobMatch(path, Append(stem, "**")) <=>
              \E n \in 0..Len(path) : LaidOver(SubSeq(path, 1, n), stem)
<1>1. PICK t, k : t = Append(stem, "**") /\ k = Len(stem)
  OBVIOUS
<1>2. /\ k \in Nat /\ Len(t) = k + 1 /\ Len(t) \in Nat /\ t[k + 1] = "**"
      /\ \A i \in 1..k : t[i] = stem[i]
      /\ k \in 0..Len(t) /\ k + 1 \in 1..Len(t) /\ (k + 1) - 1 = k
  <2>1. k \in Nat
    BY <1>1, TupleFacts
  <2>2. Len(t) = k + 1 /\ t[k + 1] = "**" /\ \A i \in 1..k : t[i] = stem[i]
    BY <1>1, AppendFacts
  <2>3. Len(t) \in Nat /\ k \in 0..Len(t) /\ k + 1 \in 1..Len(t) /\ (k + 1) - 1 = k
    BY ONLY <2>1, <2>2
  <2> QED BY <2>1, <2>2, <2>3
<1>3. Len(path) \in Nat
  BY TupleFacts
<1>4. PICK E : E = Ends(path, t)
  OBVIOUS
<1>5. E[k + 1] = Spanned(E[k], path)
  <2>1. E[k + 1] = IF t[k + 1] = "**" THEN Spanned(E[(k + 1) - 1], path)
                   ELSE Stepped(E[(k + 1) - 1], path, t[k + 1])
    BY <1>2, <1>4, EndsFacts DEF EndsOf
  <2> QED BY <1>2, <2>1
<1>6. GlobMatch(path, t) <=> \E j \in E[k] : j <= Len(path)
  <2>1. GlobMatch(path, t) <=> Len(path) \in E[k + 1]
    BY <1>2, <1>4 DEF GlobMatch
  <2>2. Len(path) \in 0..Len(path)
    BY <1>3
  <2> QED BY <1>5, <2>1, <2>2 DEF Spanned
<1>7. \A j : j \in E[k] <=> \E end : Over(path, stem, k, j, end)
  <2> TAKE j
  <2>1. j \in E[k] <=> \E end : Over(path, t, k, j, end)
    BY <1>2, <1>3, <1>4, EndsAreLaid
  <2>2. \A end : Over(path, t, k, j, end) <=> Over(path, stem, k, j, end)
    BY <1>2 DEF Over
  <2> QED BY <2>1, <2>2
<1>8. \A j \in E[k] : j \in 0..Len(path)
  <2>1. ASSUME NEW j, NEW end, Over(path, stem, k, j, end) PROVE j \in 0..Len(path)
    <3>1. k \in 0..k
      BY <1>2
    <3> QED BY <2>1, <3>1 DEF Over
  <2> QED BY <1>7, <2>1
<1>9. \A n \in 0..Len(path) : LaidOver(SubSeq(path, 1, n), stem) <=> n \in E[k]
  BY <1>1, <1>7, OverPrefix
<1>10. \A n \in 0..Len(path) : n <= Len(path)
  BY <1>3
<1> QED BY <1>1, <1>6, <1>8, <1>9, <1>10

\* A literal pattern covers itself and what is below it.
LEMMA LiteralBelow ==
    ASSUME NEW path, Tuple(path), NEW stem, Tuple(stem), Literal(stem)
    PROVE  Below(path, stem) <=> \E n \in 0..Len(path) : LaidOver(SubSeq(path, 1, n), stem)
<1>1. PICK k : k = Len(stem)
  OBVIOUS
<1>2. k \in Nat /\ Len(path) \in Nat /\ DOMAIN stem = 1..k
  BY <1>1, TupleFacts
<1>3. ASSUME NEW i \in 1..k, NEW j, NEW m
      PROVE  Laid(path, stem[i], j, m) <=> m = j + 1 /\ stem[i] = path[m]
  <2>1. stem[i] \notin {"*", "**"}
    BY <1>2 DEF Literal, Wild
  <2> QED BY <2>1 DEF Laid, Fits
<1>4. ASSUME Below(path, stem)
      PROVE  \E n \in 0..Len(path) : LaidOver(SubSeq(path, 1, n), stem)
  <2>1. k \in 0..Len(path) /\ SubSeq(path, 1, k) = stem
    BY <1>1, <1>2, <1>4 DEF Below
  <2>2. \A i \in 1..k : path[i] = stem[i]
    BY <2>1, PrefixFacts
  <2>3. PICK end : end = [i \in 0..k |-> i]
    OBVIOUS
  <2>4. end \in [0..k -> 0..Len(path)] /\ end[0] = 0 /\ end[k] = k
    BY <1>2, <2>1, <2>3
  <2>5. ASSUME NEW i \in 1..k PROVE Laid(path, stem[i], end[i - 1], end[i])
    <3>1. end[i] = i /\ end[i - 1] = i - 1 /\ i = (i - 1) + 1
      BY <1>2, <2>3
    <3> QED BY <1>3, <2>2, <3>1
  <2>6. Over(path, stem, k, k, end)
    BY <2>4, <2>5 DEF Over
  <2> QED BY <1>1, <2>1, <2>6, OverPrefix
<1>5. ASSUME NEW n \in 0..Len(path), LaidOver(SubSeq(path, 1, n), stem)
      PROVE  Below(path, stem)
  <2>1. PICK end : Over(path, stem, k, n, end)
    BY <1>1, <1>5, OverPrefix
  <2>2. /\ end[0] = 0 /\ end[k] = n
        /\ \A i \in 1..k : end[i] = end[i - 1] + 1 /\ stem[i] = path[end[i]]
    <3>1. end[0] = 0 /\ end[k] = n /\ \A i \in 1..k : Laid(path, stem[i], end[i - 1], end[i])
      BY <2>1 DEF Over
    <3>2. ASSUME NEW i \in 1..k
          PROVE  end[i] = end[i - 1] + 1 /\ stem[i] = path[end[i]]
      <4>1. PICK j, m : j = end[i - 1] /\ m = end[i]
        OBVIOUS
      <4>2. Laid(path, stem[i], j, m)
        BY <3>1, <4>1
      <4>3. m = j + 1 /\ stem[i] = path[m]
        BY <1>3, <4>2
      <4> QED BY <4>1, <4>3
    <3> QED BY <3>1, <3>2
  <2>3. \A i \in 0..k : end[i] = i
    <3> DEFINE T == {i \in 0..k : end[i] # i}
    <3> SUFFICES ASSUME T # {} PROVE FALSE
      OBVIOUS
    <3>1. PICK x \in T : \A y \in T : x <= y
      <4>1. T \in SUBSET Nat
        OBVIOUS
      <4> HIDE DEF T
      <4> QED BY <4>1, Least
    <3>2. x \in 0..k /\ end[x] # x /\ x # 0
      BY <2>2
    <3>3. x \in 1..k /\ x - 1 \in 0..k /\ ~(x <= x - 1) /\ x = (x - 1) + 1
      BY <1>2, <3>2
    <3>4. end[x - 1] = x - 1
      <4>1. x - 1 \notin T
        <5> HIDE DEF T
        <5> QED BY <3>1, <3>3
      <4> QED BY <3>3, <4>1
    <3> QED BY <2>2, <3>2, <3>3, <3>4
  <2>4. n = k /\ \A i \in 1..k : stem[i] = path[i]
    <3>1. k \in 0..k /\ \A i \in 1..k : i \in 0..k
      BY <1>2
    <3> QED BY <2>2, <2>3, <3>1
  <2>5. k \in 0..Len(path)
    BY <2>4
  <2>6. PICK s : s = SubSeq(path, 1, k)
    OBVIOUS
  <2>7. Tuple(s) /\ Len(s) = k /\ \A i \in 1..k : s[i] = stem[i]
    BY <2>4, <2>5, <2>6, PrefixFacts
  <2>8. s = stem
    BY <1>1, <2>7, SameTuples
  <2>9. k <= Len(path)
    BY <1>2, <2>5
  <2> QED BY <1>1, <2>6, <2>8, <2>9 DEF Below
<1> QED BY <1>4, <1>5

IsPattern(p) == Tuple(p.tokens) /\ p.slash \in BOOLEAN

LEMMA WholePrefix ==
    ASSUME NEW path, Tuple(path)
    PROVE  SubSeq(path, 1, Len(path)) = path /\ Len(path) \in 0..Len(path)
<1>1. Len(path) \in Nat /\ Len(path) \in 0..Len(path)
  BY TupleFacts
<1> QED BY <1>1, PrefixFacts, SameTuples, ZenonT(40)

LEMMA PrefixIsTuple ==
    ASSUME NEW p, IsPattern(p), p.tokens # <<>>, Directory(p) PROVE Tuple(Prefix(p))
<1>1. PICK t, n : t = p.tokens /\ n = Len(t)
  OBVIOUS
<1>2. Tuple(t) /\ n \in Nat
  BY <1>1, TupleFacts DEF IsPattern
<1>3. CASE p.slash
  BY <1>1, <1>2, <1>3 DEF Prefix
<1>4. CASE ~p.slash
  <2>1. n > 1
    BY <1>1, <1>4 DEF Directory
  <2>2. n - 1 \in 0..n
    BY <1>2, <2>1
  <2>3. Tuple(SubSeq(t, 1, n - 1))
    BY <1>1, <1>2, <2>2, PrefixFacts
  <2> QED BY <1>1, <1>4, <2>3 DEF Prefix
<1> QED BY <1>3, <1>4

\* The docstring's reading of a pattern that stands for everything.
LEMMA EverythingCovers ==
    ASSUME NEW path, Tuple(path), Len(path) # 0, NEW p, Everything(p)
    PROVE  Covers(p, path)
<1>1. PICK n, t : n = Len(path) /\ t = p.tokens
  OBVIOUS
<1>2. n \in Nat /\ n # 0 /\ ~p.slash /\ t \in {<<"*">>, <<"**">>, <<"**", "*">>}
  BY <1>1, TupleFacts DEF Everything
<1>3. CASE t = <<"*">>
  BY <1>1, <1>2, <1>3 DEF Covers
<1>4. ASSUME NEW end, Over(path, t, Len(t), n, end), Len(t) \in Nat, t # <<>>, ~Directory(p)
      PROVE  Covers(p, path)
  <2>1. GlobMatch(path, t)
    <3>1. Len(t) \in 0..Len(t) /\ Len(path) \in Nat
      BY <1>1, <1>2, <1>4
    <3> QED BY <1>1, <1>4, <3>1, EndsAreLaid DEF GlobMatch
  <2>2. LaidOver(path, t)
    BY <1>1, <1>2, <1>4, <2>1, GlobIsLaid
  <2>3. LaidOver(SubSeq(path, 1, Len(path)), t) /\ Len(path) \in 0..Len(path)
    BY <2>2, WholePrefix
  <2> QED BY <1>1, <1>4, <2>3 DEF Covers
<1>5. CASE t = <<"**">>
  <2>1. Len(t) = 1 /\ t[1] = "**" /\ t # <<>>
    BY <1>5
  <2>2. ~Directory(p)
    BY <1>1, <1>2, <2>1 DEF Directory
  <2>3. PICK end : end = [i \in 0..1 |-> IF i = 0 THEN 0 ELSE n]
    OBVIOUS
  <2>4. end \in [0..1 -> 0..Len(path)] /\ end[0] = 0 /\ end[1] = n /\ 0 <= n
    BY <1>1, <1>2, <2>3
  <2>5. ASSUME NEW i \in 1..1 PROVE Laid(path, t[i], end[i - 1], end[i])
    <3>1. i = 1 /\ i - 1 = 0
      OBVIOUS
    <3> QED BY <2>1, <2>4, <3>1 DEF Laid
  <2>6. Over(path, t, 1, n, end)
    BY <2>4, <2>5 DEF Over
  <2> QED BY <1>4, <2>1, <2>2, <2>6
<1>6. CASE t = <<"**", "*">>
  <2>1. Len(t) = 2 /\ t[1] = "**" /\ t[2] = "*" /\ t # <<>>
    BY <1>6
  <2>2. ~Directory(p)
    BY <1>1, <1>2, <2>1 DEF Directory
  <2>3. PICK end : end = [i \in 0..2 |-> IF i = 0 THEN 0 ELSE IF i = 1 THEN n - 1 ELSE n]
    OBVIOUS
  <2>4. /\ end \in [0..2 -> 0..Len(path)] /\ end[0] = 0 /\ end[1] = n - 1 /\ end[2] = n
        /\ 0 <= n - 1 /\ n = (n - 1) + 1
    BY <1>1, <1>2, <2>3
  <2>5. ASSUME NEW i \in 1..2 PROVE Laid(path, t[i], end[i - 1], end[i])
    <3>1. CASE i = 1
      <4>1. i - 1 = 0
        BY <3>1
      <4> QED BY <2>1, <2>4, <3>1, <4>1 DEF Laid
    <3>2. CASE i = 2
      <4>1. i - 1 = 1
        BY <3>2
      <4> QED BY <2>1, <2>4, <3>2, <4>1 DEF Laid, Fits
    <3> QED BY <3>1, <3>2
  <2>6. Over(path, t, 2, n, end)
    BY <2>4, <2>5 DEF Over
  <2> QED BY <1>4, <2>1, <2>2, <2>6
<1> QED BY <1>2, <1>3, <1>5, <1>6

LEMMA RootCovers ==
    ASSUME NEW path, Tuple(path), NEW p, p.tokens = <<>>, p.slash PROVE Covers(p, path)
<1>1. PICK t : t = p.tokens
  OBVIOUS
<1>2. t = <<>> /\ Len(t) = 0 /\ Len(path) \in Nat /\ 0 \in 0..Len(path)
  BY <1>1, TupleFacts
<1>3. Tuple(t)
  <2>1. t \in Seq({})
    BY <1>2
  <2> QED BY <2>1 DEF Tuple
<1>4. Over(path, t, 0, 0, [i \in 0..0 |-> 0])
  BY <1>2 DEF Over
<1>5. LaidOver(SubSeq(path, 1, 0), t)
  BY <1>2, <1>3, <1>4, OverPrefix
<1>6. Directory(p) /\ Prefix(p) = t
  BY <1>1 DEF Directory, Prefix
<1> QED BY <1>2, <1>5, <1>6 DEF Covers

(***************************************************************************)
(* _matches is what its docstring says.                                    *)
(***************************************************************************)
LEMMA MatchesIsCovers ==
    ASSUME NEW path, Tuple(path), path # <<>>, NEW p, IsPattern(p)
    PROVE  Matches(path, p) <=> Covers(p, path)
<1>1. Len(path) \in Nat /\ Len(path) # 0
  <2>1. PICK X : path \in Seq(X)
    BY DEF Tuple
  <2> QED BY <2>1
<1>2. PICK t : t = p.tokens
  OBVIOUS
<1>3. Tuple(t) /\ Len(t) \in Nat
  BY <1>2, TupleFacts DEF IsPattern
<1>4. CASE Everything(p)
  BY <1>1, <1>4, EverythingCovers DEF Matches
<1>5. CASE t = <<>>
  <2>1. CASE p.slash
    BY <1>2, <1>5, <2>1, RootCovers DEF Matches
  <2>2. CASE ~p.slash
    <3>1. t # <<"*">> /\ t # <<"**">> /\ t # <<"**", "*">>
      <4>1. Len(t) = 0 /\ Len(<<"*">>) = 1 /\ Len(<<"**">>) = 1 /\ Len(<<"**", "*">>) = 2
        BY <1>5
      <4> QED BY <4>1
    <3>2. ~Everything(p)
      BY <1>2, <3>1 DEF Everything
    <3> QED BY <1>2, <1>5, <2>2, <3>1, <3>2 DEF Matches, Covers
  <2> QED BY <2>1, <2>2
<1>6. CASE ~Everything(p) /\ t # <<>>
  <2>1. ~(t = <<"*">> /\ ~p.slash)
    BY <1>2, <1>6 DEF Everything
  <2>2. PICK s : s = IF Directory(p) THEN Prefix(p) ELSE t
    OBVIOUS
  <2>3. Tuple(s)
    BY <1>2, <1>3, <1>6, <2>2, PrefixIsTuple
  <2>4. Covers(p, path) <=>
           \E n \in 0..Len(path) :
              (n = Len(path) \/ Directory(p) \/ Literal(t)) /\ LaidOver(SubSeq(path, 1, n), s)
    BY <1>2, <1>6, <2>1, <2>2 DEF Covers
  <2>5. Matches(path, p) <=>
           IF Directory(p)
           THEN IF Literal(s) THEN Below(path, s) ELSE GlobMatch(path, Append(s, "**"))
           ELSE IF Literal(s) THEN Below(path, s) ELSE GlobMatch(path, s)
    BY <1>2, <1>6, <2>2 DEF Matches
  <2>6. CASE Directory(p) \/ Literal(s)
    <3>1. Covers(p, path) <=> \E n \in 0..Len(path) : LaidOver(SubSeq(path, 1, n), s)
      BY <2>2, <2>4, <2>6
    <3>2. CASE Literal(s)
      <4>1. Matches(path, p) <=> Below(path, s)
        BY <2>5, <3>2
      <4> QED BY <2>3, <3>1, <3>2, <4>1, LiteralBelow
    <3>3. CASE ~Literal(s)
      <4>1. Matches(path, p) <=> GlobMatch(path, Append(s, "**"))
        BY <2>5, <2>6, <3>3
      <4> QED BY <2>3, <3>1, <4>1, TreeGlob
    <3> QED BY <3>2, <3>3
  <2>7. CASE ~Directory(p) /\ ~Literal(s)
    <3>1. Covers(p, path) <=> LaidOver(SubSeq(path, 1, Len(path)), s)
      <4>1. Len(path) \in 0..Len(path)
        BY WholePrefix
      <4> QED BY <2>2, <2>4, <2>7, <4>1
    <3>2. Covers(p, path) <=> LaidOver(path, s)
      BY <3>1, WholePrefix
    <3>3. Matches(path, p) <=> GlobMatch(path, s)
      BY <2>5, <2>7
    <3>4. Len(s) \in Nat
      BY <2>3, TupleFacts
    <3> QED BY <1>1, <3>2, <3>3, <3>4, GlobIsLaid
  <2> QED BY <2>6, <2>7
<1> QED BY <1>4, <1>5, <1>6

-----------------------------------------------------------------------------
(***************************************************************************)
(* Budgets.  The lines of the changes are summed up one by one.            *)
(***************************************************************************)
SumsOf(changes, n, f) ==
    /\ DOMAIN f = 0..n /\ f[0] = 0
    /\ \A k \in 1..n : f[k] = f[k - 1] + changes[k].lines

\* The lines of the first n changes, each told apart.
Cells(changes, n) == UNION {{k} \X (1..changes[k].lines) : k \in 1..n}

LEMMA SumsExist ==
    ASSUME NEW changes, NEW n \in Nat PROVE \E f : SumsOf(changes, n, f)
<1> DEFINE T == {k \in Nat : ~ \E f : SumsOf(changes, k, f)}
<1> SUFFICES ASSUME T # {} PROVE FALSE
  OBVIOUS
<1>1. PICK x \in T : \A y \in T : x <= y
  <2>1. T \in SUBSET Nat
    OBVIOUS
  <2> HIDE DEF T
  <2> QED BY <2>1, Least
<1>2. x \in Nat /\ ~ \E f : SumsOf(changes, x, f)
  BY <1>1
<1>3. CASE x = 0
  <2>1. SumsOf(changes, 0, [k \in 0..0 |-> 0])
    BY DEF SumsOf
  <2> QED BY <1>2, <1>3, <2>1
<1>4. CASE x # 0
  <2>1. x - 1 \in Nat /\ x - 1 \notin T
    <3>1. x - 1 \in Nat /\ ~(x <= x - 1)
      BY <1>2, <1>4
    <3> HIDE DEF T
    <3> QED BY <1>1, <3>1
  <2>2. PICK f : SumsOf(changes, x - 1, f)
    BY <2>1
  <2>3. PICK e : e = f[x - 1] + changes[x].lines
    OBVIOUS
  <2> DEFINE g == [k \in 0..x |-> IF k = x THEN e ELSE f[k]]
  <2>4. DOMAIN g = 0..x /\ g[0] = 0
    BY <1>2, <1>4, <2>2 DEF SumsOf
  <2>5. ASSUME NEW k \in 1..x PROVE g[k] = g[k - 1] + changes[k].lines
    <3>0. k \in 0..x /\ k - 1 \in 0..x /\ k - 1 # x
      BY <1>2
    <3>1. g[k - 1] = f[k - 1]
      BY <3>0
    <3>2. CASE k = x
      <4>1. g[k] = e
        BY <3>0, <3>2
      <4> HIDE DEF g
      <4> QED BY <2>3, <3>1, <3>2, <4>1
    <3>3. CASE k # x
      <4>1. k \in 1..(x - 1) /\ g[k] = f[k]
        BY <1>2, <3>0, <3>3
      <4>2. f[k] = f[k - 1] + changes[k].lines
        BY <2>2, <4>1 DEF SumsOf
      <4> HIDE DEF g
      <4> QED BY <3>1, <4>1, <4>2
    <3> QED BY <3>2, <3>3
  <2>6. SumsOf(changes, x, g)
    <3> HIDE DEF g
    <3> QED BY <2>4, <2>5 DEF SumsOf
  <2> QED BY <1>2, <2>6
<1> QED BY <1>3, <1>4

LEMMA LinesAreSums ==
    ASSUME NEW changes, Len(changes) \in Nat
    PROVE  \E f : SumsOf(changes, Len(changes), f) /\ Lines(changes) = f[Len(changes)]
<1>1. PICK n : n = Len(changes)
  OBVIOUS
<1>2. n \in Nat
  BY <1>1
<1>3. PICK g : SumsOf(changes, n, g)
  BY <1>2, SumsExist
<1> DEFINE Body(f) == [k \in 0..n |-> IF k = 0 THEN 0 ELSE f[k - 1] + changes[k].lines]
           h == [k \in 0..n |-> g[k]]
<1>4. h = Body(h)
  <2>1. ASSUME NEW k \in 0..n
        PROVE  g[k] = IF k = 0 THEN 0 ELSE h[k - 1] + changes[k].lines
    <3>1. CASE k = 0
      BY <1>3, <3>1 DEF SumsOf
    <3>2. CASE k # 0
      <4>1. k \in 1..n /\ k - 1 \in 0..n
        BY <1>2, <3>2
      <4>2. h[k - 1] = g[k - 1]
        BY <4>1
      <4>3. g[k] = g[k - 1] + changes[k].lines
        BY <1>3, <4>1 DEF SumsOf
      <4> HIDE DEF h
      <4> QED BY <3>2, <4>2, <4>3
    <3> QED BY <3>1, <3>2
  <2>2. \A k \in 0..n : h[k] = g[k]
    OBVIOUS
  <2>3. h = [k \in 0..n |-> h[k]]
    OBVIOUS
  <2> HIDE DEF h
  <2> QED BY <2>1, <2>2, <2>3
<1>5. PICK f : f = CHOOSE e : e = Body(e)
  OBVIOUS
<1>6. f = Body(f)
  <2> HIDE DEF h, Body
  <2> QED BY <1>4, <1>5
<1>7. Lines(changes) = f[n]
  BY <1>1, <1>5 DEF Lines
<1>8. DOMAIN f = 0..n /\ f[0] = 0
  <2>1. 0 \in 0..n
    BY <1>2
  <2> QED BY <1>6, <2>1
<1>9. ASSUME NEW k \in 1..n PROVE f[k] = f[k - 1] + changes[k].lines
  <2>1. k \in 0..n /\ k # 0
    BY <1>2
  <2>2. Body(f)[k] = f[k - 1] + changes[k].lines
    BY <2>1
  <2> HIDE DEF Body
  <2> QED BY <1>6, <2>2
<1>10. SumsOf(changes, n, f)
  BY <1>8, <1>9 DEF SumsOf
<1> QED BY <1>1, <1>7, <1>10

\* One more change adds as many lines.
LEMMA CellsStep ==
    ASSUME NEW changes, NEW k \in Nat, k # 0, changes[k].lines \in Nat,
           IsFiniteSet(Cells(changes, k - 1))
    PROVE  /\ IsFiniteSet(Cells(changes, k))
           /\ Cardinality(Cells(changes, k))
                = Cardinality(Cells(changes, k - 1)) + changes[k].lines
<1>1. PICK A, B, m : /\ A = Cells(changes, k - 1) /\ m = changes[k].lines
                     /\ B = {k} \X (1..m)
  OBVIOUS
<1>2. Cells(changes, k) = A \cup B
  <2>1. 1..k = (1..(k - 1)) \cup {k}
    OBVIOUS
  <2> QED BY <1>1, <2>1 DEF Cells
<1>3. A \cap B = {}
  <2>1. \A c \in A : c[1] \in 1..(k - 1)
    BY <1>1 DEF Cells
  <2>2. \A c \in B : c[1] = k
    BY <1>1
  <2>3. k \notin 1..(k - 1)
    OBVIOUS
  <2> QED BY <2>1, <2>2, <2>3
<1>4. IsFiniteSet(B) /\ Cardinality(B) = m
  <2>1. m \in Nat
    BY <1>1
  <2>2. IsFiniteSet({k}) /\ Cardinality({k}) = 1
    BY FS_Singleton
  <2>3. IsFiniteSet(1..m) /\ Cardinality(1..m) = m
    <3>1. PICK a : a = 1
      OBVIOUS
    <3>2. a \in Int /\ m \in Int
      BY ONLY <2>1, <3>1
    <3>3. IsFiniteSet(a..m) /\ Cardinality(a..m) = IF a > m THEN 0 ELSE m - a + 1
      BY <3>2, FS_Interval
    <3>4. (IF a > m THEN 0 ELSE m - a + 1) = m
      BY ONLY <2>1, <3>1
    <3> QED BY <3>1, <3>3, <3>4
  <2>4. IsFiniteSet(B) /\ Cardinality(B) = Cardinality({k}) * Cardinality(1..m)
    BY <1>1, <2>2, <2>3, FS_Product
  <2> QED BY <2>1, <2>2, <2>3, <2>4
<1>5. IsFiniteSet(A) /\ Cardinality(A) \in Nat
  BY <1>1, FS_CardinalityType
<1>6. /\ IsFiniteSet(A \cup B)
      /\ Cardinality(A \cup B) = Cardinality(A) + Cardinality(B) - Cardinality(A \cap B)
  BY <1>4, <1>5, FS_Union
<1>7. Cardinality({}) = 0 /\ m \in Nat
  BY <1>1, FS_EmptySet
<1>8. Cardinality(A \cup B) = Cardinality(A) + m
  <2>1. Cardinality(A \cap B) = 0
    BY <1>3, <1>7
  <2> QED BY ONLY <1>4, <1>5, <1>6, <1>7, <2>1
<1> QED BY <1>1, <1>2, <1>6, <1>8

LEMMA LinesAreCounted ==
    ASSUME NEW changes, Len(changes) \in Nat, DOMAIN changes = 1..Len(changes),
           \A k \in 1..Len(changes) : changes[k].lines \in Nat
    PROVE  /\ Lines(changes) \in Nat
           /\ Lines(changes) =
                Cardinality(UNION {{k} \X (1..changes[k].lines) : k \in DOMAIN changes})
<1>1. PICK n : n = Len(changes)
  OBVIOUS
<1>2. PICK f : SumsOf(changes, n, f) /\ Lines(changes) = f[n]
  BY <1>1, LinesAreSums
<1>3. n \in Nat /\ \A k \in 1..n : changes[k].lines \in Nat
  BY <1>1
<1>4. \A k \in 0..n : IsFiniteSet(Cells(changes, k)) /\ f[k] = Cardinality(Cells(changes, k))
  <2> DEFINE T == {k \in 0..n : ~(IsFiniteSet(Cells(changes, k))
                                  /\ f[k] = Cardinality(Cells(changes, k)))}
  <2> SUFFICES ASSUME T # {} PROVE FALSE
    OBVIOUS
  <2>1. PICK x \in T : \A y \in T : x <= y
    <3>1. T \in SUBSET Nat
      BY <1>3
    <3> HIDE DEF T
    <3> QED BY <3>1, Least
  <2>2. x \in 0..n /\ ~(IsFiniteSet(Cells(changes, x)) /\ f[x] = Cardinality(Cells(changes, x)))
    BY <2>1
  <2>3. x # 0
    <3>1. Cells(changes, 0) = {}
      BY DEF Cells
    <3> QED BY <1>2, <2>2, <3>1, FS_EmptySet DEF SumsOf
  <2>4. x \in 1..n /\ x \in Nat /\ x - 1 \in 0..n /\ ~(x <= x - 1)
    BY <1>3, <2>2, <2>3
  <2>5. IsFiniteSet(Cells(changes, x - 1)) /\ f[x - 1] = Cardinality(Cells(changes, x - 1))
    <3>1. x - 1 \notin T
      <4> HIDE DEF T
      <4> QED BY <2>1, <2>4
    <3> QED BY <2>4, <3>1
  <2>6. f[x] = f[x - 1] + changes[x].lines
    BY <1>2, <2>4 DEF SumsOf
  <2> QED BY <1>3, <2>2, <2>3, <2>4, <2>5, <2>6, CellsStep
<1>5. n \in 0..n
  BY <1>3
<1>6. IsFiniteSet(Cells(changes, n)) /\ f[n] = Cardinality(Cells(changes, n))
  BY <1>4, <1>5
<1>7. f[n] \in Nat
  BY <1>6, FS_CardinalityType
<1> QED BY <1>1, <1>2, <1>6, <1>7 DEF Cells

-----------------------------------------------------------------------------
(***************************************************************************)
(* The findings about a change set, and about its checks.                  *)
(***************************************************************************)
\* What the proofs need of a contract.
IsContract(c) ==
    /\ \A p \in c.allowed \cup c.denied \cup c.protected : IsPattern(p)
    /\ c.maxFiles \in Nat /\ c.maxLines \in Nat
    /\ IsListing(c.checks) /\ Distinct(c.checks)

LEMMA SubtreeIsPattern ==
    ASSUME NEW path, Tuple(path) PROVE IsPattern(Subtree(path))
<1>1. PICK t : t = Append(path, "**")
  OBVIOUS
<1>2. Tuple(t)
  BY <1>1, AppendFacts
<1>3. Subtree(path).tokens = t /\ Subtree(path).slash = FALSE
  BY <1>1 DEF Subtree
<1> QED BY <1>2, <1>3 DEF IsPattern

LEMMA DefaultsArePatterns ==
    \A p \in DefaultContract.allowed \cup DefaultContract.denied \cup DefaultContract.protected :
        IsPattern(p)
<1>1. Tuple(<<>>) /\ Tuple(<<".git">>)
  <2>1. <<>> \in Seq({}) /\ <<".git">> \in Seq({".git"})
    OBVIOUS
  <2> QED BY <2>1 DEF Tuple
<1>2. Tuple(<<".patchwitness", "evidence">>)
  <2>1. <<".patchwitness", "evidence">> \in Seq({".patchwitness", "evidence"})
    OBVIOUS
  <2> QED BY <2>1 DEF Tuple
<1>3. Tuple(<<".github", "workflows">>)
  <2>1. <<".github", "workflows">> \in Seq({".github", "workflows"})
    OBVIOUS
  <2> QED BY <2>1 DEF Tuple
<1>4. Tuple(<<".patchwitness", "contracts">>)
  <2>1. <<".patchwitness", "contracts">> \in Seq({".patchwitness", "contracts"})
    OBVIOUS
  <2> QED BY <2>1 DEF Tuple
<1>5. Tuple(<<".patchwitness.toml">>)
  <2>1. <<".patchwitness.toml">> \in Seq({".patchwitness.toml"})
    OBVIOUS
  <2> QED BY <2>1 DEF Tuple
<1>6. IsPattern([tokens |-> <<".patchwitness.toml">>, slash |-> FALSE])
  BY <1>5 DEF IsPattern
<1>7. DefaultContract.allowed = {Subtree(<<>>)}
  BY DEF DefaultContract
<1>8. DefaultContract.denied
        = {Subtree(<<".git">>), Subtree(<<".patchwitness", "evidence">>)}
  BY DEF DefaultContract
<1>9. DefaultContract.protected
        = {Subtree(<<".github", "workflows">>), Subtree(<<".patchwitness", "contracts">>),
           [tokens |-> <<".patchwitness.toml">>, slash |-> FALSE]}
  BY DEF DefaultContract
<1> QED BY <1>1, <1>2, <1>3, <1>4, <1>6, <1>7, <1>8, <1>9, SubtreeIsPattern

LEMMA WantedIsContract == task \in Task => IsContract(Wanted)
<1> SUFFICES ASSUME task \in Task PROVE IsContract(Wanted)
  OBVIOUS
<1>1. /\ task.detected \in Seq(CheckSpec) /\ Distinct(task.detected)
      /\ task.contract # <<>> => task.contract \in Contract /\ Distinct(task.contract.checks)
  BY TaskAssumption
<1>2. CASE task.contract # <<>>
  <2>1. PICK c : c = task.contract
    OBVIOUS
  <2>2. c \in Contract /\ Distinct(c.checks) /\ Wanted = c
    BY <1>1, <1>2, <2>1 DEF Wanted
  <2>3. /\ c.allowed \in SUBSET Pattern /\ c.denied \in SUBSET Pattern
        /\ c.protected \in SUBSET Pattern
        /\ c.maxFiles \in Nat /\ c.maxLines \in Nat /\ c.checks \in Seq(CheckSpec)
    BY <2>2 DEF Contract
  <2>4. ASSUME NEW p \in Pattern PROVE IsPattern(p)
    <3>1. p.tokens \in Seq(STRING) /\ p.slash \in BOOLEAN
      BY DEF Pattern
    <3> QED BY <3>1 DEF IsPattern, Tuple
  <2>5. IsListing(c.checks)
    BY <2>3 DEF IsListing
  <2> QED BY <2>2, <2>3, <2>4, <2>5 DEF IsContract
<1>3. CASE task.contract = <<>>
  <2>1. PICK c : c = Wanted
    OBVIOUS
  <2>2. c = Preview(task.detected)
    BY <1>3, <2>1 DEF Wanted
  <2>3. c.checks = task.detected /\ c.maxFiles = 50 /\ c.maxLines = 2000
    BY <2>2 DEF Preview, DefaultContract
  <2>4. /\ c.allowed = DefaultContract.allowed /\ c.denied = DefaultContract.denied
        /\ c.protected = DefaultContract.protected
    BY <2>2 DEF Preview, DefaultContract
  <2>5. IsListing(c.checks) /\ Distinct(c.checks)
    BY <1>1, <2>3 DEF IsListing
  <2> QED BY <2>1, <2>3, <2>4, <2>5, DefaultsArePatterns DEF IsContract
<1> QED BY <1>2, <1>3

\* A path of the change set is a path.
LEMMA PathsOfChanges ==
    ASSUME task \in Task, NEW k \in DOMAIN task.changes, NEW path \in PolicyPaths(task.changes[k])
    PROVE  Tuple(path) /\ path # <<>>
<1>1. task.changes[k] \in FileChange
  BY TaskAssumption
<1>2. task.changes[k].path \in Path /\ task.changes[k].previous \in Path \cup {<<>>}
  BY <1>1 DEF FileChange
<1>3. path \in Path
  BY <1>2 DEF PolicyPaths, Path
<1> QED BY <1>3 DEF Path, Tuple

\* A path is in scope and adds no dependency.
PathIsFine(c, path) ==
    /\ c.allowed # {} => \E p \in c.allowed : Covers(p, path)
    /\ \A p \in c.denied \cup c.protected : ~Covers(p, path)
    /\ c.dependencies \/ path[Len(path)] \notin DependencyFile

LEMMA PathVerdict ==
    ASSUME NEW c, IsContract(c), NEW path, Tuple(path), path # <<>>
    PROVE  PathFindings(c, path) = {} <=> PathIsFine(c, path)
<1>1. \A p \in c.allowed \cup c.denied \cup c.protected : Matches(path, p) <=> Covers(p, path)
  BY MatchesIsCovers DEF IsContract
<1>2. PathFindings(c, path) = {} <=>
         /\ ~MatchesAny(path, c.denied)
         /\ ~(c.allowed # {} /\ ~MatchesAny(path, c.allowed))
         /\ ~MatchesAny(path, c.protected)
         /\ ~(~c.dependencies /\ path[Len(path)] \in DependencyFile)
  BY DEF PathFindings, Rule
<1>3. MatchesAny(path, c.denied) <=> \E p \in c.denied : Covers(p, path)
  BY <1>1 DEF MatchesAny
<1>4. MatchesAny(path, c.allowed) <=> \E p \in c.allowed : Covers(p, path)
  BY <1>1 DEF MatchesAny
<1>5. MatchesAny(path, c.protected) <=> \E p \in c.protected : Covers(p, path)
  BY <1>1 DEF MatchesAny
<1> QED BY <1>2, <1>3, <1>4, <1>5 DEF PathIsFine

LEMMA ChangeVerdict ==
    ASSUME task \in Task, NEW c, IsContract(c), NEW k \in DOMAIN task.changes
    PROVE  ChangeFindings(c, task.changes[k]) = {} <=>
              /\ \A path \in PolicyPaths(task.changes[k]) : PathIsFine(c, path)
              /\ task.changes[k].binary => c.binary
<1>1. \A path \in PolicyPaths(task.changes[k]) : PathFindings(c, path) = {} <=> PathIsFine(c, path)
  BY PathsOfChanges, PathVerdict
<1>2. PICK ch : ch = task.changes[k]
  OBVIOUS
<1>3. PICK U : U = UNION {PathFindings(c, path) : path \in PolicyPaths(ch)}
  OBVIOUS
<1>4. U = {} <=> \A path \in PolicyPaths(ch) : PathFindings(c, path) = {}
  BY <1>3
<1>5. Rule("PW004", ch.path, ch.binary /\ ~c.binary) = {} <=> ~(ch.binary /\ ~c.binary)
  BY DEF Rule
<1>6. ChangeFindings(c, ch) = U \cup Rule("PW004", ch.path, ch.binary /\ ~c.binary)
  BY <1>3 DEF ChangeFindings
<1>7. ChangeFindings(c, ch) = {} <=> U = {} /\ ~(ch.binary /\ ~c.binary)
  BY <1>5, <1>6
<1> QED BY <1>1, <1>2, <1>4, <1>7

LEMMA ScopeVerdict ==
    ASSUME task \in Task, NEW c, IsContract(c)
    PROVE  (UNION {ChangeFindings(c, task.changes[k]) : k \in DOMAIN task.changes})
              \cup BudgetFindings(c, task.changes) = {}
           <=> InScope(c) /\ WithinBudget(c)
<1>1. PICK ch : ch = task.changes
  OBVIOUS
<1>2. ch \in Seq(FileChange)
  BY <1>1, TaskAssumption
<1>3. Len(ch) \in Nat /\ DOMAIN ch = 1..Len(ch)
  BY <1>2
<1>4. \A k \in 1..Len(ch) : ch[k].lines \in Nat
  <2>1. \A k \in 1..Len(ch) : ch[k] \in FileChange
    BY <1>2
  <2> QED BY <2>1 DEF FileChange
<1>5. PICK cells : cells = Cardinality(UNION {{k} \X (1..ch[k].lines) : k \in DOMAIN ch})
  OBVIOUS
<1>6. Lines(ch) = cells /\ cells \in Nat
  BY <1>3, <1>4, <1>5, LinesAreCounted
<1>7. BudgetFindings(c, ch) = {} <=> ~(Len(ch) > c.maxFiles) /\ ~(Lines(ch) > c.maxLines)
  BY DEF BudgetFindings, Rule
<1>8. PICK f, l : f = c.maxFiles /\ l = c.maxLines /\ f \in Nat /\ l \in Nat
  BY DEF IsContract
<1>9. ~(Len(ch) > f) <=> Len(ch) <= f
  BY ONLY <1>3, <1>8
<1>10. ~(cells > l) <=> cells <= l
  BY ONLY <1>6, <1>8
<1>11. BudgetFindings(c, ch) = {} <=> Len(ch) <= c.maxFiles /\ cells <= c.maxLines
  BY ONLY <1>6, <1>7, <1>8, <1>9, <1>10
<1>12. Touched = UNION {PolicyPaths(ch[k]) : k \in DOMAIN ch}
  <2>1. \A k \in DOMAIN ch : ch[k].path # <<>>
    <3>1. \A k \in 1..Len(ch) : ch[k] \in FileChange
      BY <1>2
    <3> QED BY <1>3, <3>1 DEF FileChange, Path
  <2>2. \A k \in DOMAIN ch : PolicyPaths(ch[k]) = {ch[k].path, ch[k].previous} \ {<<>>}
    BY <2>1 DEF PolicyPaths
  <2>3. Touched = UNION {{ch[k].path, ch[k].previous} \ {<<>>} : k \in DOMAIN ch}
    BY <1>1 DEF Touched
  <2> QED BY <2>2, <2>3
<1>13. (\A k \in DOMAIN ch : ChangeFindings(c, ch[k]) = {}) <=>
          /\ \A path \in Touched : PathIsFine(c, path)
          /\ \A k \in DOMAIN ch : ch[k].binary => c.binary
  <2>1. \A k \in DOMAIN ch : ChangeFindings(c, ch[k]) = {} <=>
          /\ \A path \in PolicyPaths(ch[k]) : PathIsFine(c, path)
          /\ ch[k].binary => c.binary
    BY <1>1, ChangeVerdict
  <2>2. (\A path \in Touched : PathIsFine(c, path))
          <=> \A k \in DOMAIN ch : \A path \in PolicyPaths(ch[k]) : PathIsFine(c, path)
    BY <1>12
  <2> QED BY <2>1, <2>2
<1>14. (\A path \in Touched : PathIsFine(c, path)) <=>
          /\ InScope(c)
          /\ c.dependencies \/ \A path \in Touched : path[Len(path)] \notin DependencyFile
  BY DEF PathIsFine, InScope
<1>15. WithinBudget(c) <=>
          /\ Len(ch) <= c.maxFiles /\ cells <= c.maxLines
          /\ \A k \in DOMAIN ch : ch[k].binary => c.binary
          /\ c.dependencies \/ \A path \in Touched : path[Len(path)] \notin DependencyFile
  BY <1>1, <1>5 DEF WithinBudget
<1>16. UNION {ChangeFindings(c, ch[k]) : k \in DOMAIN ch} = {} <=>
          \A k \in DOMAIN ch : ChangeFindings(c, ch[k]) = {}
  OBVIOUS
<1>17. PICK U, B : /\ U = UNION {ChangeFindings(c, ch[k]) : k \in DOMAIN ch}
                   /\ B = BudgetFindings(c, ch)
  OBVIOUS
<1>18. U \cup B = {} <=> U = {} /\ B = {}
  OBVIOUS
<1>19. U = {} /\ B = {} <=> InScope(c) /\ WithinBudget(c)
  BY <1>11, <1>13, <1>14, <1>15, <1>16, <1>17, Zenon
<1> QED BY <1>1, <1>17, <1>18, <1>19, Zenon

\* The findings about one required check.
SpecFindings(spec, results) ==
    Rule("PW020", <<spec.id>>,
         spec.required /\ {k \in DOMAIN results : results[k].id = spec.id} = {})
    \cup Rule("PW021", <<spec.id>>,
              /\ spec.required
              /\ \E k \in {k \in DOMAIN results : results[k].id = spec.id} :
                    ~Passed(results[k]))

LEMMA SpecVerdict ==
    ASSUME NEW spec, NEW results
    PROVE  SpecFindings(spec, results) = {} <=>
              (spec.required =>
                  /\ \E k \in DOMAIN results : results[k].id = spec.id
                  /\ \A k \in DOMAIN results : results[k].id = spec.id => Passed(results[k]))
<1>1. PICK of : of = {k \in DOMAIN results : results[k].id = spec.id}
  OBVIOUS
<1>2. Rule("PW020", <<spec.id>>, spec.required /\ of = {}) = {} <=> ~(spec.required /\ of = {})
  BY DEF Rule
<1>3. Rule("PW021", <<spec.id>>, spec.required /\ \E k \in of : ~Passed(results[k])) = {}
        <=> ~(spec.required /\ \E k \in of : ~Passed(results[k]))
  BY DEF Rule
<1>4. SpecFindings(spec, results)
        = Rule("PW020", <<spec.id>>, spec.required /\ of = {})
          \cup Rule("PW021", <<spec.id>>, spec.required /\ \E k \in of : ~Passed(results[k]))
  BY <1>1 DEF SpecFindings
<1>5. SpecFindings(spec, results) = {} <=>
         /\ ~(spec.required /\ of = {})
         /\ ~(spec.required /\ \E k \in of : ~Passed(results[k]))
  BY <1>2, <1>3, <1>4
<1> QED BY <1>1, <1>5

LEMMA CheckFindingsAre ==
    ASSUME NEW c, NEW results
    PROVE  CheckFindings(c, results)
              = UNION {SpecFindings(c.checks[i], results) : i \in DOMAIN c.checks}
  BY DEF CheckFindings, SpecFindings

LEMMA CheckVerdict ==
    ASSUME NEW c, NEW results
    PROVE  CheckFindings(c, results) = {} <=>
              \A i \in DOMAIN c.checks : c.checks[i].required =>
                  /\ \E k \in DOMAIN results : results[k].id = c.checks[i].id
                  /\ \A k \in DOMAIN results :
                        results[k].id = c.checks[i].id => Passed(results[k])
<1>1. CheckFindings(c, results) = {} <=>
         \A i \in DOMAIN c.checks : SpecFindings(c.checks[i], results) = {}
  BY CheckFindingsAre
<1> QED BY <1>1, SpecVerdict

\* Once the checks were run ...
LEMMA RunVerdict ==
    ASSUME PoolInv, pool = "shut", NEW c, IsContract(c), checks = c.checks
    PROVE  CheckFindings(c, collected) = {} <=> Tested(c)
<1>1. /\ Len(collected) = Len(checks)
      /\ \A i \in Each :
            /\ collected[i].id = checks[i].id
            /\ report[i] = Report("none", "zero", FALSE) <=> collected[i].exit = "0"
            /\ collected[i].timed <=> collected[i].exit = NoExit
  BY DeservedResults DEF ResultsAreTheirs
<1>2. DOMAIN collected = Each /\ DOMAIN c.checks = Each
  <2>1. collected \in Seq(Results)
    BY DEF PoolInv, PoolType
  <2>2. DOMAIN collected = 1..Len(collected)
    BY <2>1
  <2> QED BY <1>1, <2>2, Lengths DEF PoolInv, Each
<1>3. \A i, k \in Each : collected[k].id = c.checks[i].id <=> k = i
  BY <1>1, <1>2 DEF IsContract, Distinct
<1>4. \A i \in Each : Passed(collected[i]) <=> report[i] = Report("none", "zero", FALSE)
  BY <1>1 DEF Passed, NoExit
<1>5. CheckFindings(c, collected) = {} <=>
         \A i \in Each : c.checks[i].required =>
            /\ \E k \in Each : collected[k].id = c.checks[i].id
            /\ \A k \in Each : collected[k].id = c.checks[i].id => Passed(collected[k])
  BY <1>2, CheckVerdict
<1>6. CheckFindings(c, collected) = {} <=>
         \A i \in Each : c.checks[i].required => Passed(collected[i])
  BY <1>3, <1>5
<1> QED BY <1>2, <1>4, <1>6 DEF Tested

\* ... and if they were not.
LEMMA SkippedVerdict ==
    ASSUME pool # "shut", collected = <<>>, NEW c
    PROVE  CheckFindings(c, collected) = {} <=> Tested(c)
<1>1. DOMAIN collected = {}
  OBVIOUS
<1>2. CheckFindings(c, collected) = {} <=> \A i \in DOMAIN c.checks : ~c.checks[i].required
  BY <1>1, CheckVerdict
<1> QED BY <1>2 DEF Tested

-----------------------------------------------------------------------------
\* The contract that is in force once --no-checks has had its say.
InForce ==
    IF Waives THEN [Wanted EXCEPT !.checks = <<>>, !.requireTests = FALSE] ELSE Wanted

Verdict ==
    PolicyFindings(InForce, task.changes, collected)
    \cup Rule("PW03x", <<>>, task.errors \/ task.conflict)

\* Where the checks are when the policy is evaluated.
Settled ==
    IF Executes THEN pool = "shut" /\ checks = InForce.checks
    ELSE pool = "idle" /\ collected = <<>>

LEMMA WantedIsRecord ==
    ASSUME task \in Task
    PROVE  DOMAIN Wanted = {"allowed", "denied", "protected", "maxFiles", "maxLines", "binary",
                            "dependencies", "requireTests", "checks"}
<1>1. CASE task.contract # <<>>
  <2>1. task.contract \in Contract /\ Wanted = task.contract
    BY <1>1, TaskAssumption DEF Wanted
  <2> QED BY <2>1 DEF Contract
<1>2. CASE task.contract = <<>>
  BY <1>2 DEF Wanted, Preview, DefaultContract
<1> QED BY <1>1, <1>2

LEMMA InForceFacts ==
    ASSUME task \in Task
    PROVE  /\ IsContract(InForce)
           /\ InScope(InForce) <=> InScope(Wanted)
           /\ WithinBudget(InForce) <=> WithinBudget(Wanted)
           /\ Waives => InForce.checks = <<>> /\ InForce.requireTests = FALSE
           /\ ~Waives => InForce = Wanted
<1>1. PICK w, f : w = Wanted /\ f = InForce
  OBVIOUS
<1>2. IsContract(w)
  BY <1>1, WantedIsContract
<1>3. CASE ~Waives
  BY <1>1, <1>2, <1>3 DEF InForce
<1>4. CASE Waives
  <2>1. f = [w EXCEPT !.checks = <<>>, !.requireTests = FALSE]
    BY <1>1, <1>4 DEF InForce
  <2>2. DOMAIN w = {"allowed", "denied", "protected", "maxFiles", "maxLines", "binary",
                    "dependencies", "requireTests", "checks"}
    BY <1>1, WantedIsRecord
  <2>3. /\ f.allowed = w.allowed /\ f.denied = w.denied /\ f.protected = w.protected
        /\ f.maxFiles = w.maxFiles /\ f.maxLines = w.maxLines /\ f.binary = w.binary
        /\ f.dependencies = w.dependencies
    BY <2>1, <2>2
  <2>4. f.checks = <<>>
    BY <2>1, <2>2
  <2>5. f.requireTests = FALSE
    BY <2>1, <2>2
  <2>6. IsListing(<<>>) /\ Distinct(<<>>)
    BY DEF IsListing, Distinct
  <2>7. IsContract(f)
    BY <1>2, <2>3, <2>4, <2>6 DEF IsContract
  <2>8. InScope(f) <=> InScope(w)
    BY <2>3 DEF InScope
  <2>9. WithinBudget(f) <=> WithinBudget(w)
    BY <2>3 DEF WithinBudget
  <2> QED BY <1>1, <1>4, <2>4, <2>5, <2>7, <2>8, <2>9
<1> QED BY <1>1, <1>3, <1>4

LEMMA VerdictIsWarranted ==
    ASSUME PoolInv, task \in Task, Settled PROVE Verdict = {} <=> Warranted
<1>1. PICK c, S, B, C, T, E :
        /\ c = InForce
        /\ S = (UNION {ChangeFindings(c, task.changes[k]) : k \in DOMAIN task.changes})
               \cup BudgetFindings(c, task.changes)
        /\ C = CheckFindings(c, collected)
        /\ T = Rule("PW022", <<>>, c.requireTests /\ c.checks = <<>>)
        /\ E = Rule("PW03x", <<>>, task.errors \/ task.conflict)
  OBVIOUS
<1>2. Verdict = {} <=> S = {} /\ C = {} /\ T = {} /\ E = {}
  <2>1. Verdict = S \cup C \cup T \cup E
    BY <1>1 DEF Verdict, PolicyFindings
  <2> QED BY <2>1
<1>3. S = {} <=> InScope(Wanted) /\ WithinBudget(Wanted)
  BY <1>1, InForceFacts, ScopeVerdict
<1>4. T = {} <=> ~(c.requireTests /\ c.checks = <<>>)
  BY <1>1 DEF Rule
<1>5. E = {} <=> ~task.errors /\ ~task.conflict
  BY <1>1 DEF Rule
<1>6. C = {} <=> Tested(c)
  <2>1. CASE Executes
    <3>1. pool = "shut" /\ checks = c.checks /\ IsContract(c)
      BY <1>1, <2>1, InForceFacts DEF Settled
    <3> QED BY <1>1, <3>1, RunVerdict
  <2>2. CASE ~Executes
    <3>1. pool # "shut" /\ collected = <<>>
      BY <2>2 DEF Settled
    <3> QED BY <1>1, <3>1, SkippedVerdict
  <2> QED BY <2>1, <2>2
<1>7. CASE Waives
  <2>1. c.checks = <<>> /\ c.requireTests = FALSE
    BY <1>1, <1>7, InForceFacts
  <2>2. Tested(c)
    BY <2>1 DEF Tested
  <2>3. T = {} /\ C = {}
    BY <1>4, <1>6, <2>1, <2>2
  <2> QED BY <1>2, <1>3, <1>5, <1>7, <2>3, Zenon DEF Warranted, Waives
<1>8. CASE ~Waives
  <2>1. c = Wanted
    BY <1>1, <1>8, InForceFacts
  <2>2. T = {} <=> (Wanted.requireTests => Wanted.checks # <<>>)
    BY <1>4, <2>1
  <2>3. C = {} <=> Tested(Wanted)
    BY <1>6, <2>1
  <2> QED BY <1>2, <1>3, <1>5, <1>8, <2>2, <2>3, Zenon DEF Warranted, Waives
<1> QED BY <1>7, <1>8

-----------------------------------------------------------------------------
(***************************************************************************)
(* What the command knows at each of its places.                           *)
(***************************************************************************)
Agreed == evidence = IF Verdict = {} THEN "PASS" ELSE "FAIL"

FlowInv ==
    /\ pc \in {"base", "checks", "pool", "policy", "write", "print"} => contract = InForce
    /\ pc \in {"checks", "pool", "policy", "write", "print"} => Base # "none"
    /\ pc = "pool" => Executes /\ checks = InForce.checks
    /\ pc \in {"policy", "write", "print"} => Settled
    /\ pc \in {"write", "print"} => findings = Verdict
    /\ pc = "print" => Agreed
    /\ pc # "done" => exit = Running
    /\ pc = "done" /\ exit \in {0, 1} => Settled /\ Base # "none" /\ Agreed /\ exit = Code

CommandInv == GateInv /\ FlowInv

LEMMA FlowInitial == Init => CommandInv
  BY GateInitial DEF Init, FlowInv, CommandInv

LEMMA TaskFrame ==
    ASSUME UNCHANGED task
    PROVE  InForce' = InForce /\ Base' = Base /\ Executes' = Executes
  BY DEF InForce, Base, Executes, Waives, Scans, Wanted

LEMMA VerdictFrame ==
    ASSUME UNCHANGED <<poolVars, task>>
    PROVE  Verdict' = Verdict /\ Settled' = Settled
<1>1. InForce' = InForce /\ Base' = Base /\ Executes' = Executes
  BY TaskFrame
<1> QED BY <1>1 DEF Verdict, Settled, poolVars

LEMMA FlowLoads == CommandInv /\ LoadContract => FlowInv'
<1> SUFFICES ASSUME CommandInv, LoadContract PROVE FlowInv'
  OBVIOUS
<1>1. contract' = InForce /\ pc' = "base" /\ UNCHANGED <<task, exit>> /\ pc = "contract"
  BY DEF LoadContract, InForce, Wanted
<1>2. InForce' = InForce
  BY <1>1, TaskFrame
<1> QED BY <1>1, <1>2 DEF FlowInv, CommandInv

LEMMA FlowBase == CommandInv /\ SelectBase => FlowInv'
<1> SUFFICES ASSUME CommandInv, SelectBase PROVE FlowInv'
  OBVIOUS
<1>1. pc = "base" /\ Base # "none" /\ pc' = "checks" /\ UNCHANGED <<task, contract, exit>>
  BY DEF SelectBase
<1>2. InForce' = InForce /\ Base' = Base
  BY <1>1, TaskFrame
<1> QED BY <1>1, <1>2 DEF FlowInv, CommandInv

LEMMA FlowRuns == CommandInv /\ RunChecks => FlowInv'
<1> SUFFICES ASSUME CommandInv, RunChecks PROVE FlowInv'
  OBVIOUS
<1>1. /\ pc = "checks" /\ Executes /\ pc' = "pool" /\ UNCHANGED <<task, contract, exit>>
      /\ checks' = contract.checks
  BY DEF RunChecks, Submit
<1>2. InForce' = InForce /\ Base' = Base /\ Executes' = Executes
  BY <1>1, TaskFrame
<1> QED BY <1>1, <1>2 DEF FlowInv, CommandInv

LEMMA FlowSkips == CommandInv /\ SkipChecks => FlowInv'
<1> SUFFICES ASSUME CommandInv, SkipChecks PROVE FlowInv'
  OBVIOUS
<1>1. /\ pc = "checks" /\ ~Executes /\ pc' = "policy"
      /\ UNCHANGED <<poolVars, task, contract, exit>>
  BY DEF SkipChecks
<1>2. InForce' = InForce /\ Base' = Base /\ Settled' = Settled
  BY <1>1, TaskFrame, VerdictFrame
<1>3. Settled
  BY <1>1 DEF Settled, CommandInv, GateInv, Fresh
<1> QED BY <1>1, <1>2, <1>3 DEF FlowInv, CommandInv

LEMMA FlowPool == CommandInv /\ InPool => FlowInv'
<1> SUFFICES ASSUME CommandInv, InPool PROVE FlowInv'
  OBVIOUS
<1>1. pc = "pool" /\ UNCHANGED <<task, pc, contract, exit>> /\ PoolNext
  BY DEF InPool, gateVars
<1>2. checks' = checks
  BY <1>1 DEF PoolNext, Worker, Caller, Take, Resolve, MakeHooks, MakeHooksFails,
     CallRefuses, Start, Return, Finish, FinishFails, Collect, CollectRaises, Leave
<1>3. InForce' = InForce /\ Base' = Base /\ Executes' = Executes
  BY <1>1, TaskFrame
<1> QED BY <1>1, <1>2, <1>3 DEF FlowInv, CommandInv

LEMMA FlowReturns == CommandInv /\ ChecksReturn => FlowInv'
<1> SUFFICES ASSUME CommandInv, ChecksReturn PROVE FlowInv'
  OBVIOUS
<1>1. /\ pc = "pool" /\ pool = "shut" /\ pc' = "policy"
      /\ UNCHANGED <<poolVars, task, contract, exit>>
  BY DEF ChecksReturn
<1>2. InForce' = InForce /\ Base' = Base /\ Settled' = Settled
  BY <1>1, TaskFrame, VerdictFrame
<1>3. Settled
  BY <1>1 DEF Settled, CommandInv, FlowInv
<1> QED BY <1>1, <1>2, <1>3 DEF FlowInv, CommandInv

LEMMA FlowEvaluates == CommandInv /\ Evaluate => FlowInv'
<1> SUFFICES ASSUME CommandInv, Evaluate PROVE FlowInv'
  OBVIOUS
<1>1. /\ pc = "policy" /\ pc' = "write" /\ contract = InForce
      /\ UNCHANGED <<poolVars, task, contract, exit>>
  BY DEF Evaluate, CommandInv, FlowInv
<1>2. InForce' = InForce /\ Base' = Base /\ Settled' = Settled /\ Verdict' = Verdict
  BY <1>1, TaskFrame, VerdictFrame
<1>3. findings' = Verdict
  BY <1>1 DEF Evaluate, Verdict
<1> QED BY <1>1, <1>2, <1>3 DEF FlowInv, CommandInv

LEMMA FlowWrites == CommandInv /\ WriteEvidence => FlowInv'
<1> SUFFICES ASSUME CommandInv, WriteEvidence PROVE FlowInv'
  OBVIOUS
<1>1. /\ pc = "write" /\ pc' = "print" /\ findings = Verdict
      /\ UNCHANGED <<poolVars, task, contract, findings, exit>>
  BY DEF WriteEvidence, CommandInv, FlowInv
<1>2. InForce' = InForce /\ Base' = Base /\ Settled' = Settled /\ Verdict' = Verdict
  BY <1>1, TaskFrame, VerdictFrame
<1>3. Agreed'
  BY <1>1, <1>2 DEF WriteEvidence, Status, Agreed
<1> QED BY <1>1, <1>2, <1>3 DEF FlowInv, CommandInv

LEMMA FlowConcludes == CommandInv /\ Conclude => FlowInv'
<1> SUFFICES ASSUME CommandInv, Conclude PROVE FlowInv'
  OBVIOUS
<1>1. /\ pc = "print" /\ pc' = "done" /\ exit' = Code
      /\ UNCHANGED <<poolVars, task, contract, findings, evidence>>
  BY DEF Conclude
<1>2. InForce' = InForce /\ Base' = Base /\ Settled' = Settled /\ Verdict' = Verdict
  BY <1>1, TaskFrame, VerdictFrame
<1>3. Code' = Code /\ Agreed' = Agreed
  BY <1>1, <1>2 DEF Code, Agreed
<1> QED BY <1>1, <1>2, <1>3 DEF FlowInv, CommandInv

LEMMA FlowRaises == CommandInv /\ Raises => FlowInv'
<1> SUFFICES ASSUME CommandInv, Raises PROVE FlowInv'
  OBVIOUS
<1>1. pc' = "done" /\ exit' = 2
  BY DEF Raises
<1> QED BY <1>1 DEF FlowInv

LEMMA FlowStutters == CommandInv /\ UNCHANGED vars => FlowInv'
<1> SUFFICES ASSUME CommandInv, UNCHANGED vars PROVE FlowInv'
  OBVIOUS
<1>1. UNCHANGED <<poolVars, task, pc, contract, findings, evidence, exit, checks>>
  BY DEF vars, gateVars, poolVars
<1>2. InForce' = InForce /\ Base' = Base /\ Settled' = Settled /\ Verdict' = Verdict
      /\ Executes' = Executes
  BY <1>1, TaskFrame, VerdictFrame
<1>3. Code' = Code /\ Agreed' = Agreed
  BY <1>1, <1>2 DEF Code, Agreed
<1> QED BY <1>1, <1>2, <1>3 DEF FlowInv, CommandInv

LEMMA FlowInductive == CommandInv /\ [Next]_vars => CommandInv'
<1> SUFFICES ASSUME CommandInv, [Next]_vars PROVE CommandInv'
  OBVIOUS
<1>1. GateInv'
  BY GateInductive DEF CommandInv
<1>2. FlowInv'
  BY FlowLoads, FlowBase, FlowRuns, FlowSkips, FlowPool, FlowReturns,
     FlowEvaluates,
     FlowWrites, FlowConcludes, FlowRaises, FlowStutters DEF Next, Done
<1> QED BY <1>1, <1>2 DEF CommandInv

LEMMA DeservedExit == CommandInv => ExitIsDeserved
<1> SUFFICES ASSUME CommandInv, exit \in {0, 1}
             PROVE  /\ evidence = IF Warranted THEN "PASS" ELSE "FAIL"
                    /\ exit = 1 <=> task.command # "capture" /\ ~Warranted
                    /\ Scans => task.base \/ task.dirty \/ task.parent
  BY DEF ExitIsDeserved
<1>1. PoolInv /\ task \in Task
  BY DEF CommandInv, GateInv
<1>2. Settled /\ Base # "none" /\ Agreed /\ exit = Code
  BY DEF CommandInv, FlowInv, Running
<1>3. Verdict = {} <=> Warranted
  BY <1>1, <1>2, VerdictIsWarranted
<1>4. evidence = IF Warranted THEN "PASS" ELSE "FAIL"
  BY <1>2, <1>3 DEF Agreed
<1>5. exit = 1 <=> task.command # "capture" /\ ~Warranted
  BY <1>2, <1>4 DEF Code
<1>6. Scans => task.base \/ task.dirty \/ task.parent
  BY <1>2 DEF Base
<1> QED BY <1>4, <1>5, <1>6

(***************************************************************************)
(* For any tasks: the exit code and the evidence answer for the whole      *)
(* change set and for every required check (cli.py:297, 335).              *)
(***************************************************************************)
THEOREM ExitAnswers == Spec => []ExitIsDeserved
  BY FlowInitial, FlowInductive, DeservedExit, PTL DEF Spec
=============================================================================
