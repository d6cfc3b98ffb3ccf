--------------------------------- MODULE Gate ---------------------------------
(***************************************************************************)
(* The commands scan, capture and gate (cli.py): contract, base, checks,   *)
(* policy, evidence file, exit code.  The change set, and the findings of  *)
(* what is not policy (secrets, conflicts, drift), are inputs here; they   *)
(* are the subject of Capture.                                             *)
(***************************************************************************)
EXTENDS CheckPool, Policy

CONSTANT Task
(***************************************************************************)
(* What the commands are run on, records of                                *)
(*   command   "scan", "capture" or "gate"                                 *)
(*   contract  the contract of the file, or <<>> if scan finds none         *)
(*   detected  the checks scan detects   changes   the change set           *)
(*   noChecks  --no-checks               options   as given to run_checks   *)
(*   base      --base is given           dirty     the tree is dirty        *)
(*   parent    HEAD has a parent         conflict  index and tree disagree  *)
(*   errors    other findings are errors                                    *)
(***************************************************************************)
ASSUME TaskAssumption ==
    \A t \in Task :
        /\ t.detected \in Seq(CheckSpec) /\ Distinct(t.detected)
        /\ t.contract # <<>> => t.contract \in Contract /\ Distinct(t.contract.checks)
        /\ t.changes \in Seq(FileChange)
        /\ t.options.parallel \in BOOLEAN /\ t.options.untrusted \in BOOLEAN
        /\ t.options.workers \in Int

VARIABLES
    task, pc,
    contract,   \* the contract in force
    base,       \* what the change set is relative to
    findings,   \* rules that were broken
    evidence,   \* the status in the evidence file, "none" if there is none
    exit        \* the exit code, Running before the end

gateVars == <<task, pc, contract, base, findings, evidence, exit>>
vars == <<poolVars, gateVars>>

Running == -1

Init ==
    /\ PoolInit
    /\ task \in Task /\ pc = "contract"
    /\ contract = <<>> /\ base = "none" /\ findings = {} /\ evidence = "none"
    /\ exit = Running

Scans == task.command = "scan"

-----------------------------------------------------------------------------
\* _preview_contract: the defaults, and all detected checks are required.
Preview(detected) ==
    [DefaultContract EXCEPT !.requireTests = detected # <<>>, !.checks = detected]

\* --no-checks takes the checks out of the contract only for scan.
Waives == Scans /\ task.noChecks

LoadContract ==
    /\ pc = "contract"
    /\ LET loaded == IF task.contract = <<>> THEN Preview(task.detected) ELSE task.contract
       IN contract' = IF Waives
                      THEN [loaded EXCEPT !.checks = <<>>, !.requireTests = FALSE]
                      ELSE loaded
    /\ pc' = "base"
    /\ UNCHANGED <<poolVars, task, base, findings, evidence, exit>>

\* _select_scan_base; --base is HEAD unless given for the others.
Base == IF task.base THEN "requested"
        ELSE IF ~Scans \/ task.dirty THEN "head"
        ELSE IF task.parent THEN "parent" ELSE "none"

SelectBase ==
    /\ pc = "base" /\ Base # "none"
    /\ base' = Base
    /\ pc' = "checks"
    /\ UNCHANGED <<poolVars, task, contract, findings, evidence, exit>>

Executes == ~task.noChecks /\ ~task.conflict

RunChecks ==
    /\ pc = "checks" /\ Executes
    /\ Submit(contract.checks, task.options)
    /\ pc' = "pool"
    /\ UNCHANGED <<task, contract, base, findings, evidence, exit>>

SkipChecks ==
    /\ pc = "checks" /\ ~Executes
    /\ pc' = "policy"
    /\ UNCHANGED <<poolVars, task, contract, base, findings, evidence, exit>>

\* run_checks runs in the pool ...
InPool ==
    /\ pc = "pool" /\ PoolNext
    /\ UNCHANGED gateVars

\* ... and returns.
ChecksReturn ==
    /\ pc = "pool" /\ pool = "shut"
    /\ pc' = "policy"
    /\ UNCHANGED <<poolVars, task, contract, base, findings, evidence, exit>>

Evaluate ==
    /\ pc = "policy"
    /\ findings' = PolicyFindings(contract, task.changes, collected)
                   \cup Rule("PW03x", <<>>, task.errors \/ task.conflict)
    /\ pc' = "write"
    /\ UNCHANGED <<poolVars, task, contract, base, evidence, exit>>

Status == IF findings = {} THEN "PASS" ELSE "FAIL"

WriteEvidence ==
    /\ pc = "write"
    /\ evidence' = Status
    /\ pc' = "print"
    /\ UNCHANGED <<poolVars, task, contract, base, findings, exit>>

Code == IF task.command # "capture" /\ evidence = "FAIL" THEN 1 ELSE 0

Conclude ==
    /\ pc = "print"
    /\ exit' = Code /\ pc' = "done"
    /\ UNCHANGED <<poolVars, task, contract, base, findings, evidence>>

\* What is raised anywhere ends in main: exit code 2.
Raises ==
    /\ \/ pc \notin {"pool", "done"}
       \/ pc = "pool" /\ pool = "raised"
    /\ exit' = 2 /\ pc' = "done"
    /\ UNCHANGED <<poolVars, task, contract, base, findings, evidence>>

Done == pc = "done" /\ UNCHANGED vars

Next == LoadContract \/ SelectBase \/ RunChecks \/ SkipChecks \/ InPool \/ ChecksReturn
        \/ Evaluate \/ WriteEvidence \/ Conclude \/ Raises \/ Done

Spec == Init /\ [][Next]_vars
-----------------------------------------------------------------------------
\* Every path of the change set, both of a renamed file.
Touched == UNION {{task.changes[k].path, task.changes[k].previous} \ {<<>>} :
                    k \in DOMAIN task.changes}

InScope(c) ==
    \A path \in Touched :
        /\ c.allowed # {} => \E p \in c.allowed : Covers(p, path)
        /\ \A p \in c.denied \cup c.protected : ~Covers(p, path)

WithinBudget(c) ==
    /\ Len(task.changes) <= c.maxFiles
    /\ Cardinality(UNION {{k} \X (1..task.changes[k].lines) : k \in DOMAIN task.changes})
          <= c.maxLines
    /\ \A k \in DOMAIN task.changes : task.changes[k].binary => c.binary
    /\ c.dependencies \/ \A path \in Touched : path[Len(path)] \notin DependencyFile

\* The n-th required check is known to have exited zero within its bounds.
Tested(c) ==
    \A i \in DOMAIN c.checks : c.checks[i].required =>
        /\ pool = "shut" /\ i \in Each
        /\ report[i] = Report("none", "zero", FALSE)

Wanted == IF task.contract = <<>> THEN Preview(task.detected) ELSE task.contract

Warranted ==
    /\ InScope(Wanted) /\ WithinBudget(Wanted) /\ ~task.errors /\ ~task.conflict
    /\ \/ Scans /\ task.noChecks
       \/ Tested(Wanted) /\ (Wanted.requireTests => Wanted.checks # <<>>)

(***************************************************************************)
(* The exit code answers for the change: gate and scan exit 0 only if the  *)
(* whole change set is in scope and in budget and every required check was *)
(* seen to pass, with a base that makes the comparison mean something, and *)
(* exit 1 only if one of these fails; evidence is then on disk and agrees. *)
(* capture never exits 1 (cli.py:297, 335).                                *)
(***************************************************************************)
ExitIsDeserved ==
    exit \in {0, 1} =>
        /\ evidence = IF Warranted THEN "PASS" ELSE "FAIL"
        /\ exit = 1 <=> task.command # "capture" /\ ~Warranted
        /\ Scans => task.base \/ task.dirty \/ task.parent
=============================================================================
