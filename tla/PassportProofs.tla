--------------------------- MODULE PassportProofs ---------------------------
(***************************************************************************)
(* Proofs about Passport, for any repository, reviewer and handoffs: a     *)
(* passport names a candidate that existed, and never authorizes.          *)
(***************************************************************************)
EXTENDS Passport, FiniteSetTheorems, TLAPS

-----------------------------------------------------------------------------
(***************************************************************************)
(* The candidate.  Each of the four questions a passport rests on is       *)
(* answered by another moment.  Between them HEAD may leave a commit but   *)
(* not without a trace; so if it never came back, the second look at the   *)
(* tree is a look at the resolved commit.                                  *)
(***************************************************************************)
Judging  == pc \in {"objects", "handoff", "reclean", "rehead", "approval", "composed"}
Reviewed == pc \in {"rehead", "approval", "composed"}

RepoInv ==
    /\ dirty \in BOOLEAN
    /\ ~dirty => head \in cleanAt
    /\ Judging => resolved = head \/ resolved \in left
    /\ Reviewed => resolved \in left \/ resolved \in cleanAt

LEMMA RepoInitial == Init => RepoInv
  BY DEF Init, RepoInv, Judging, Reviewed

LEMMA RepoDeveloper == RepoInv /\ Developer => RepoInv'
<1> SUFFICES ASSUME RepoInv, Developer PROVE RepoInv'
  OBVIOUS
<1>1. PICK c, d : d \in BOOLEAN /\ Moves(c, d)
  BY DEF RepoInv, Developer, Touch, Undo, CommitAs, Checkout
<1> QED
  BY <1>1 DEF RepoInv, Judging, Reviewed, Moves

LEMMA RepoCommand ==
    ASSUME RepoInv,
           \/ RequireClean \/ Resolve \/ RequireCurrent \/ ReadObjects \/ ReadHandoff
           \/ LoadFails \/ RecheckClean \/ RecheckHead \/ RequireApproval \/ GitFails
    PROVE  RepoInv'
<1> USE DEF RepoInv, Judging, Reviewed, Refuse, GoTo, repo
<1>1. CASE RequireClean BY <1>1 DEF RequireClean
<1>2. CASE Resolve BY <1>2 DEF Resolve
<1>3. CASE RequireCurrent BY <1>3 DEF RequireCurrent
<1>4. CASE ReadObjects BY <1>4 DEF ReadObjects
<1>5. CASE ReadHandoff
  <2>1. pc = "handoff" /\ pc' \in {"refused", "reclean"}
        /\ UNCHANGED <<head, dirty, left, cleanAt, resolved>>
    BY <1>5 DEF ReadHandoff
  <2> QED BY <2>1
<1>6. CASE LoadFails BY <1>6 DEF LoadFails
<1>7. CASE RecheckClean BY <1>7 DEF RecheckClean, StillClean
<1>8. CASE RecheckHead BY <1>8 DEF RecheckHead
<1>9. CASE RequireApproval BY <1>9 DEF RequireApproval
<1>10. CASE GitFails BY <1>10 DEF GitFails
<1> QED BY <1>1, <1>2, <1>3, <1>4, <1>5, <1>6, <1>7, <1>8, <1>9, <1>10

LEMMA RepoStutters == RepoInv /\ UNCHANGED vars => RepoInv'
  BY DEF RepoInv, Judging, Reviewed, vars, repo

LEMMA RepoInductive == RepoInv /\ [Next]_vars => RepoInv'
  BY RepoDeveloper, RepoCommand, RepoStutters DEF Next, Over

\* The command tasktopr (passport.py): a head HEAD did not come back to was
\* checked out with nothing uncommitted at some moment of the run.
THEOREM CandidateExisted == Spec => []CleanCandidate
<1>1. RepoInv => CleanCandidate BY DEF RepoInv, Reviewed, CleanCandidate
<1> QED BY <1>1, RepoInitial, RepoInductive, PTL DEF Spec

-----------------------------------------------------------------------------
(***************************************************************************)
(* The decision.  A report is composed of execution evidence alone, so it  *)
(* neither passes nor asks for review: the components beside it, ci and     *)
(* review are missing, and so unknown.                                     *)
(***************************************************************************)
\* What ReadHandoff composes.
Composed(h) ==
    Compose(ChangeSubject, <<Adapt(h, ChangeSubject, args.pins)>>,
            [c \in {"execution"} |-> <<"tasktopr", args.pins.revision>>],
            args.policyRef, "pr")

LEMMA MissingIsUnknown ==
    ASSUME NEW subject, NEW records, NEW trusted, NEW policy,
           DOMAIN records \subseteq {"execution"}
    PROVE  LET r == ReportOf(subject, records, trusted, policy, "pr") IN
           r.payload.decision \in {"FAIL", "UNKNOWN"} /\ r.payload.stage = "pr"
<1> DEFINE decisions == {DecisionOf(c, records, subject, trusted, "pr") : c \in Component}
<1>1. PICK c \in Component : c \notin {"execution", "ci", "review"}
  BY ComponentAssumption
<1>2. DecisionOf(c, records, subject, trusted, "pr") = "UNKNOWN"
  BY <1>1 DEF DecisionOf, MissingDecision
<1>3. "UNKNOWN" \in decisions
  BY <1>1, <1>2
<1>4. Overall(decisions) \in {"FAIL", "UNKNOWN"}
  BY <1>3 DEF Overall
<1> QED BY <1>4 DEF ReportOf

LEMMA OneRecord ==
    ASSUME NEW e, e.component = "execution"
    PROVE  DOMAIN Records(<<e>>) = {"execution"}
  BY DEF Records

LEMMA ComposedIsUnknown ==
    ASSUME NEW h, Adapt(h, ChangeSubject, args.pins) # Refused,
           Composed(h) # Refused
    PROVE  Composed(h).payload.decision \in {"FAIL", "UNKNOWN"}
           /\ Composed(h).payload.stage = "pr"
<1> DEFINE e == Adapt(h, ChangeSubject, args.pins)
           trusted == [c \in {"execution"} |-> <<"tasktopr", args.pins.revision>>]
<1>1. e.component = "execution" BY DEF Adapt
<1>2. DOMAIN Records(<<e>>) \subseteq {"execution"} BY <1>1, OneRecord
<1>3. Composed(h) = ReportOf(ChangeSubject, Records(<<e>>), trusted, args.policyRef, "pr")
  BY DEF Composed, Compose
<1> QED BY <1>2, <1>3, MissingIsUnknown

Weak == report.payload.decision \in {"FAIL", "UNKNOWN"} /\ report.payload.stage = "pr"

ReportInv == pc \in {"reclean", "rehead", "approval", "composed"} => Weak

LEMMA ReportHandoff == ReadHandoff => ReportInv'
<1> SUFFICES ASSUME ReadHandoff PROVE ReportInv'
  OBVIOUS
<1>1. PICK h \in Handoff :
        \/ pc' = "refused"
        \/ /\ Adapt(h, ChangeSubject, args.pins) # Refused /\ Composed(h) # Refused
           /\ report' = Composed(h)
  BY DEF ReadHandoff, Composed
<1> QED BY <1>1, ComposedIsUnknown DEF ReportInv, Weak

LEMMA ReportInductive == ReportInv /\ [Next]_vars => ReportInv'
<1> SUFFICES ASSUME ReportInv, [Next]_vars PROVE ReportInv'
  OBVIOUS
<1> USE DEF ReportInv, Weak, Refuse, GoTo
<1>1. CASE ReadHandoff BY <1>1, ReportHandoff
<1>2. CASE RequireClean \/ Resolve \/ RequireCurrent \/ ReadObjects
  BY <1>2 DEF RequireClean, Resolve, RequireCurrent, ReadObjects
<1>3. CASE LoadFails \/ RecheckClean \/ RecheckHead \/ RequireApproval \/ GitFails
  BY <1>3 DEF LoadFails, RecheckClean, RecheckHead, RequireApproval, GitFails
<1>4. CASE Developer
  BY <1>4 DEF Developer, Touch, Undo, CommitAs, Checkout, Moves
<1>5. CASE Over \/ UNCHANGED vars BY <1>5 DEF Over, vars
<1> QED BY <1>1, <1>2, <1>3, <1>4, <1>5 DEF Next

\* Execution evidence alone never authorizes (passport.py:3-6),
\* whatever the handoff, the pins and the policy are.
THEOREM NothingIsAuthorized == Spec => []NeverAuthorizes
<1>1. Init => ReportInv BY DEF Init, ReportInv
<1>2. ReportInv => NeverAuthorizes BY DEF ReportInv, Weak, NeverAuthorizes
<1> QED BY <1>1, <1>2, ReportInductive, PTL DEF Spec
-----------------------------------------------------------------------------
(***************************************************************************)
(* The approval.  The section of the execution holds the very evidence the *)
(* handoff was adapted to, which has the metrics of an approval only if    *)
(* the handoff has one.                                                    *)
(***************************************************************************)
Held(h) ==
    /\ "execution" \in Component
    /\ report.payload.sections["execution"].producer = Adapt(h, ChangeSubject, args.pins)
    /\ Adapt(h, ChangeSubject, args.pins) # Refused

Granted(h) ==
    /\ h.schema = "v2" /\ h.approval.mode = "prompt"
    /\ \/ /\ h.approval.decision = "approve"
          /\ h.approval.final = h.approval.original
       \/ h.approval.decision = "edit"

ApprovalInv ==
    /\ pc \in {"reclean", "rehead", "approval", "composed"} => Held(handoff)
    /\ pc = "composed" /\ args.approval => Granted(handoff)
    /\ args.approval \in BOOLEAN

LEMMA ComposedHolds ==
    ASSUME NEW h, Adapt(h, ChangeSubject, args.pins) # Refused, Composed(h) # Refused
    PROVE  /\ "execution" \in Component
           /\ Composed(h).payload.sections["execution"].producer
                = Adapt(h, ChangeSubject, args.pins)
<1> DEFINE e == Adapt(h, ChangeSubject, args.pins)
           trusted == [c \in {"execution"} |-> <<"tasktopr", args.pins.revision>>]
           records == Records(<<e>>)
<1>1. e.component = "execution" BY DEF Adapt
<1>2. Composed(h) = ReportOf(ChangeSubject, records, trusted, args.policyRef, "pr")
      /\ Collectable(<<e>>)
  BY DEF Composed, Compose
<1>3. "execution" \in Component
  BY <1>1, <1>2 DEF Collectable
<1>4. DOMAIN records = {"execution"}
  BY <1>1, OneRecord
<1>5. records["execution"] = e
  BY <1>1 DEF Records
<1>6. Section("execution", records, ChangeSubject, trusted).producer = e
  BY <1>4, <1>5 DEF Section
<1> HIDE DEF records, trusted, e
<1>7. Composed(h).payload.sections["execution"]
        = Section("execution", records, ChangeSubject, trusted)
  BY <1>2, <1>3 DEF ReportOf
<1> QED BY <1>3, <1>6, <1>7 DEF e

LEMMA ApprovedIsGranted ==
    ASSUME NEW h, Held(h), PlanApproved(report)
    PROVE  Granted(h)
<1> DEFINE e == Adapt(h, ChangeSubject, args.pins)
<1>1. Trustable(h, ChangeSubject, args.pins) /\ e.metrics = Metrics(h)
  BY DEF Held, Adapt
<1>2. e.metrics.required = 1
  BY DEF Held, PlanApproved
<1>3. h.schema # "v1" /\ Decided(h.approval)
  BY <1>1, <1>2 DEF Metrics
<1>4. h.schema = "v2"
  BY <1>1, <1>3 DEF Trustable, Schemas
<1> QED BY <1>3, <1>4 DEF Decided, Granted

LEMMA ApprovalInitial == Init => ApprovalInv
<1> SUFFICES ASSUME Init PROVE ApprovalInv
  OBVIOUS
<1>1. args.approval \in BOOLEAN BY DEF Init
<1> QED BY <1>1 DEF Init, ApprovalInv

LEMMA ApprovalHandoff == ApprovalInv /\ ReadHandoff => ApprovalInv'
<1> SUFFICES ASSUME ApprovalInv, ReadHandoff PROVE ApprovalInv'
  OBVIOUS
<1>1. PICK h \in Handoff :
        /\ handoff' = h
        /\ \/ pc' = "refused"
           \/ /\ Adapt(h, ChangeSubject, args.pins) # Refused /\ Composed(h) # Refused
              /\ report' = Composed(h) /\ pc' = "reclean"
  BY DEF ReadHandoff, Composed
<1>2. args' = args /\ resolved' = resolved BY DEF ReadHandoff
<1>3. CASE pc' = "refused" BY <1>2, <1>3 DEF ApprovalInv
<1>4. CASE pc' = "reclean" /\ pc' # "refused"
  <2>1. Held(handoff)'
    BY <1>1, <1>2, <1>4, ComposedHolds DEF Held, ChangeSubject
  <2> QED BY <1>2, <1>4, <2>1 DEF ApprovalInv
<1> QED BY <1>1, <1>3, <1>4

LEMMA ApprovalRequired == ApprovalInv /\ RequireApproval => ApprovalInv'
<1> SUFFICES ASSUME ApprovalInv, RequireApproval PROVE ApprovalInv'
  OBVIOUS
<1>1. Held(handoff) BY DEF ApprovalInv, RequireApproval
<1>2. CASE PlanApproved(report)
  <2>1. pc' = "composed" /\ UNCHANGED <<args, resolved, handoff, report>>
    BY <1>2 DEF RequireApproval, GoTo
  <2>2. Granted(handoff) BY <1>1, <1>2, ApprovedIsGranted
  <2> QED BY <1>1, <2>1, <2>2 DEF ApprovalInv, Held, Granted, ChangeSubject
<1>3. CASE ~PlanApproved(report)
  BY <1>3 DEF RequireApproval, Refuse, ApprovalInv
<1> QED BY <1>2, <1>3

LEMMA ApprovalInductive == ApprovalInv /\ [Next]_vars => ApprovalInv'
<1> SUFFICES ASSUME ApprovalInv, [Next]_vars PROVE ApprovalInv'
  OBVIOUS
<1> USE DEF ApprovalInv, Held, Granted, ChangeSubject, Refuse, GoTo
<1>1. CASE ReadHandoff BY <1>1, ApprovalHandoff
<1>2. CASE RequireApproval BY <1>2, ApprovalRequired
<1>3. CASE RequireClean \/ Resolve \/ RequireCurrent \/ ReadObjects
  BY <1>3 DEF RequireClean, Resolve, RequireCurrent, ReadObjects
<1>4. CASE LoadFails \/ RecheckClean \/ GitFails
  BY <1>4 DEF LoadFails, RecheckClean, GitFails
<1>5. CASE RecheckHead BY <1>5 DEF RecheckHead
<1>6. CASE Developer
  BY <1>6 DEF Developer, Touch, Undo, CommitAs, Checkout, Moves
<1>7. CASE Over \/ UNCHANGED vars BY <1>7 DEF Over, vars
<1> QED BY <1>1, <1>2, <1>3, <1>4, <1>5, <1>6, <1>7 DEF Next

\* require_tasktopr_plan_approval (tasktopr_policy.py:14-20): a passport that
\* needed an approval has one, by a human, of the plan that was executed.
THEOREM ApprovalsAreHuman == Spec => []ApprovalIsHuman
<1>1. ApprovalInv => ApprovalIsHuman BY DEF ApprovalInv, Granted, ApprovalIsHuman
<1> QED BY <1>1, ApprovalInitial, ApprovalInductive, PTL DEF Spec

-----------------------------------------------------------------------------
(***************************************************************************)
(* A genuine handoff.  Its evidence passes, so nothing is found about the  *)
(* execution, and one finding of every other component fits the budget of  *)
(* verification.                                                           *)
(***************************************************************************)
Trusted == [c \in {"execution"} |-> <<"tasktopr", args.pins.revision>>]

LEMMA GenuineIsTrusted ==
    ASSUME NEW h \in Handoff, Genuine(h), h.schema = "v2" => Honest(h.approval)
    PROVE  Trustable(h, ChangeSubject, args.pins)
<1>1. h.schema = "v2" => Disabled(h.approval) \/ Decided(h.approval)
  <2> SUFFICES ASSUME h.schema = "v2" PROVE Disabled(h.approval) \/ Decided(h.approval)
    OBVIOUS
  <2>1. h.approval.edited \in BOOLEAN /\ Honest(h.approval)
    BY PassportAssumption
  <2>2. CASE h.approval = [mode |-> "off", decision |-> "not_required", edited |-> FALSE,
                           original |-> "none", final |-> "none", record |-> "none"]
    BY <2>2 DEF Disabled
  <2>3. CASE /\ h.approval.mode = "prompt" /\ h.approval.record # "none"
             /\ h.approval.original # "none" /\ h.approval.final # "none"
             /\ \/ /\ h.approval.decision = "approve" /\ ~h.approval.edited
                   /\ h.approval.original = h.approval.final
                \/ /\ h.approval.decision = "edit"
                   /\ h.approval.edited = (h.approval.original # h.approval.final)
    BY <2>1, <2>3 DEF Decided
  <2> QED BY <2>1, <2>2, <2>3 DEF Honest
<1>2. h.schema \in Schemas /\ h.source = SourceSchema(h.schema)
  BY DEF Genuine, Schemas, SourceSchema
<1>3. /\ h.repository = ChangeSubject.repository /\ h.base = ChangeSubject.base
      /\ h.head = ChangeSubject.head
  BY DEF Genuine, ChangeSubject
<1>4. args.pins.schema \in {NoPin, h.schema} /\ args.pins.version \in {NoPin, h.version}
  BY DEF Genuine, NoPin
<1>5. h.fits /\ h.wellFormed /\ h.verified /\ h.revision = args.pins.revision
      /\ h.files \in 0..MaxChangedFiles /\ h.tests \in 1..MaxTests
  BY DEF Genuine
<1> QED BY <1>1, <1>2, <1>3, <1>4, <1>5 DEF Trustable

LEMMA AdaptedEvidence ==
    ASSUME NEW h, Trustable(h, ChangeSubject, args.pins)
    PROVE  LET e == Adapt(h, ChangeSubject, args.pins) IN
           /\ e.component = "execution" /\ e.tool = <<"tasktopr", args.pins.revision>>
           /\ e.subject = ChangeSubject /\ e.decision = "PASS" /\ e.complete /\ e.valid
           /\ DOMAIN e = {"component", "tool", "subject", "decision", "complete",
                          "rules", "metrics", "valid"}
  BY DEF Adapt

\* Evidence that passes for the only component that has any: one finding of
\* every other component, and verification composes the same report again.
LEMMA LoneEvidenceVerifies ==
    ASSUME NEW e, NEW s, NEW trusted, NEW policy,
           /\ e.component = "execution" /\ e.decision = "PASS" /\ e.complete /\ e.valid
           /\ e.subject = s /\ e.tool = trusted["execution"],
           DOMAIN e = {"component", "tool", "subject", "decision", "complete",
                       "rules", "metrics", "valid"},
           DOMAIN trusted = {"execution"},
           Composable(s, trusted, policy, "pr"),
           "execution" \in Component
    PROVE  /\ Compose(s, <<e>>, trusted, policy, "pr") # Refused
           /\ Verified(Compose(s, <<e>>, trusted, policy, "pr"))
<1> DEFINE recs == Records(<<e>>)
           r == ReportOf(s, recs, trusted, policy, "pr")
           p == r.payload
           F == UNION {Findings(c, recs, s, trusted, "pr") : c \in Component}
<1>1. DOMAIN recs = {"execution"}
  BY OneRecord
<1>2. recs["execution"] = e
  <2>1. (CHOOSE i \in DOMAIN <<e>> : <<e>>[i].component = "execution") = 1
    OBVIOUS
  <2> QED BY <2>1 DEF Records
<1>3. IsFiniteSet(Component) /\ Cardinality(Component) \in Nat /\ Cardinality(Component) # 0
  BY ComponentAssumption, FS_CardinalityType, FS_EmptySet
<1>4. Collectable(<<e>>)
  <2>1. Len(<<e>>) <= Cardinality(Component)
    BY <1>3
  <2> QED BY <2>1 DEF Collectable
<1>5. Compose(s, <<e>>, trusted, policy, "pr") = r
  BY <1>4 DEF Compose
<1>6. /\ p.schema = Schema /\ p.subject = s /\ p.trusted = trusted
      /\ p.policy = policy /\ p.stage = "pr" /\ p.findings = F
      /\ p.sections = [c \in Component |-> Section(c, recs, s, trusted)]
  BY DEF ReportOf
<1>7. r # Refused
  <2>1. DOMAIN r = {"payload", "receipt"} BY DEF ReportOf
  <2>2. DOMAIN Refused = {"refused"} BY DEF Refused
  <2> QED BY <2>1, <2>2
<1>8. Judged("execution", e, s, trusted) = "PASS"
  BY DEF Judged, Unpinned
<1> HIDE DEF r, p, recs
<1>9. \A c \in Component : c \notin DOMAIN recs =>
          Findings(c, recs, s, trusted, "pr")
            = {[rule |-> "SD001", component |-> c, decision |-> MissingDecision(c, "pr")]}
  BY DEF Findings, DecisionOf
<1>10. Findings("execution", recs, s, trusted, "pr") = {}
  <2>1. DecisionOf("execution", recs, s, trusted, "pr") = "PASS"
    BY <1>1, <1>2, <1>8 DEF DecisionOf
  <2>2. ~Unpinned("execution", recs["execution"], trusted) /\ recs["execution"].subject = s
    BY <1>2 DEF Unpinned
  <2> QED BY <1>1, <2>1, <2>2 DEF Findings
<1>11. Cardinality(F) <= 3 * Cardinality(Component)
  <2> DEFINE at == [f \in F |-> f.component]
  <2>1. \A f \in F : f.component \in Component
          /\ f = [rule |-> "SD001", component |-> f.component,
                  decision |-> MissingDecision(f.component, "pr")]
    <3>1. TAKE f \in F
    <3>2. PICK c \in Component : f \in Findings(c, recs, s, trusted, "pr")
      OBVIOUS
    <3>3. f = [rule |-> "SD001", component |-> c, decision |-> MissingDecision(c, "pr")]
      BY <1>1, <1>9, <1>10, <3>2
    <3>4. f.component = c
      BY <3>3
    <3> QED BY <3>3, <3>4
  <2> HIDE DEF F
  <2>2. at \in [F -> Component]
    BY <2>1
  <2>3. \A f, g \in F : at[f] = at[g] => f = g
    BY <2>1
  <2>4. at \in Injection(F, Component)
    BY <2>2, <2>3 DEF Injection, IsInjective
  <2>5. Cardinality(F) <= Cardinality(Component) /\ IsFiniteSet(F)
    BY <1>3, <2>4, FS_Injection
  <2>6. Cardinality(F) \in Nat
    BY <2>5, FS_CardinalityType
  <2> QED BY <1>3, <2>5, <2>6
<1>12. SavedRecords(p) = recs
  <2>1. \A c \in Component : Section(c, recs, s, trusted) # NoEvidence <=> c = "execution"
    <3>1. TAKE c \in Component
    <3>2. CASE c = "execution"
      <4>1. DOMAIN Section(c, recs, s, trusted) = {"producer", "decision"}
        BY <1>1, <3>2 DEF Section
      <4>2. DOMAIN NoEvidence = {"decision", "complete"}
        BY DEF NoEvidence
      <4> QED BY <3>2, <4>1, <4>2
    <3>3. CASE c # "execution"
      BY <1>1, <3>3 DEF Section
    <3> QED BY <3>2, <3>3
  <2>2. Section("execution", recs, s, trusted).producer = e
    BY <1>1, <1>2 DEF Section
  <2>3. {d \in Component : p.sections[d] # NoEvidence} = {"execution"}
    BY <1>6, <2>1
  <2>4. SavedRecords(p) = [c \in {"execution"} |-> p.sections[c].producer]
    BY <2>3 DEF SavedRecords
  <2>5. SavedRecords(p) = [c \in {"execution"} |-> e]
    BY <1>6, <2>2, <2>4
  <2>6. recs = [c \in {"execution"} |-> e]
    <3>1. recs = [c \in DOMAIN recs |-> recs[c]]
      BY DEF recs, Records
    <3> QED BY <1>1, <1>2, <3>1
  <2> QED BY <2>5, <2>6
<1>13. \A c \in DOMAIN SavedRecords(p) :
          SavedRecords(p)[c].valid /\ SavedRecords(p)[c].component = c
  BY <1>1, <1>2, <1>12
<1>14. r = ReportOf(p.subject, SavedRecords(p), p.trusted, p.policy, p.stage)
  <2>1. r = ReportOf(s, recs, trusted, policy, "pr") BY DEF r
  <2> QED BY <1>6, <1>12, <2>1
<1>15. Verified(r) <=>
          /\ p.schema = Schema
          /\ Cardinality(p.findings) <= 3 * Cardinality(Component)
          /\ Composable(p.subject, p.trusted, p.policy, p.stage)
          /\ \A c \in DOMAIN SavedRecords(p) :
                SavedRecords(p)[c].valid /\ SavedRecords(p)[c].component = c
          /\ r = ReportOf(p.subject, SavedRecords(p), p.trusted, p.policy, p.stage)
  BY DEF Verified, p
<1> HIDE DEF F
<1>16. Verified(r)
  BY <1>6, <1>11, <1>13, <1>14, <1>15
<1> QED BY <1>5, <1>7, <1>16

\* ReadObjects comes before the handoff: the policy is one the reviewer has.
PolicyInv == pc = "handoff" => args.policyRef \in WithPolicy

LEMMA PolicyInductive == PolicyInv /\ [Next]_vars => PolicyInv'
<1> SUFFICES ASSUME PolicyInv, [Next]_vars PROVE PolicyInv'
  OBVIOUS
<1> USE DEF PolicyInv, Refuse, GoTo
<1>1. CASE ReadHandoff \/ LoadFails \/ GitFails
  BY <1>1 DEF ReadHandoff, LoadFails, GitFails
<1>2. CASE RequireClean \/ Resolve \/ RequireCurrent \/ ReadObjects
  BY <1>2 DEF RequireClean, Resolve, RequireCurrent, ReadObjects
<1>3. CASE RecheckClean \/ RecheckHead \/ RequireApproval
  BY <1>3 DEF RecheckClean, RecheckHead, RequireApproval
<1>4. CASE Developer
  BY <1>4 DEF Developer, Touch, Undo, CommitAs, Checkout, Moves
<1>5. CASE Over \/ UNCHANGED vars BY <1>5 DEF Over, vars
<1> QED BY <1>1, <1>2, <1>3, <1>4, <1>5 DEF Next

LEMMA GenuineIsRead ==
    ASSUME PolicyInv, ReadHandoff, Genuine(handoff'),
           handoff'.schema = "v2" => Honest(handoff'.approval)
    PROVE  pc' = "reclean"
<1> DEFINE e == Adapt(handoff', ChangeSubject, args.pins)
           composed == Compose(ChangeSubject, <<e>>, Trusted, args.policyRef, "pr")
<1>1. /\ handoff' \in Handoff
      /\ e # Refused /\ composed # Refused /\ Verified(composed) => pc' = "reclean"
  BY DEF ReadHandoff, Trusted
<1>2. Trustable(handoff', ChangeSubject, args.pins)
  BY <1>1, GenuineIsTrusted
<1>3. /\ e.component = "execution" /\ e.tool = Trusted["execution"]
      /\ e.subject = ChangeSubject /\ e.decision = "PASS" /\ e.complete /\ e.valid
      /\ DOMAIN e = {"component", "tool", "subject", "decision", "complete",
                     "rules", "metrics", "valid"}
  BY <1>2, AdaptedEvidence DEF Trusted
<1>4. e # Refused
  <2>1. DOMAIN Refused = {"refused"} BY DEF Refused
  <2> QED BY <1>3, <2>1
<1>5. DOMAIN Trusted = {"execution"} /\ "execution" \in Component
  BY PassportAssumption DEF Trusted
<1>6. Composable(ChangeSubject, Trusted, args.policyRef, "pr")
  BY <1>5, PassportAssumption DEF Composable, ChangeSubject, PolicyInv, ReadHandoff, Stage
<1> HIDE DEF e
<1>7. composed # Refused /\ Verified(composed)
  BY <1>3, <1>5, <1>6, LoneEvidenceVerifies
<1> QED BY <1>1, <1>4, <1>7

\* The command tasktopr (passport.py): whatever the producer can write about
\* this candidate, adaptation, composition and verification refuse nothing.
THEOREM GenuineHandoffsPass == Spec => GenuineIsComposed
<1> DEFINE Composes ==
        /\ pc = "handoff" /\ handoff' # handoff
        /\ Genuine(handoff') /\ (handoff'.schema = "v2" => Honest(handoff'.approval))
        => pc' = "reclean"
<1>1. Init => PolicyInv
  BY DEF Init, PolicyInv
<1>2. PolicyInv /\ [Next]_vars => [Composes]_vars
  <2> SUFFICES ASSUME PolicyInv, Next, pc = "handoff", handoff' # handoff, Genuine(handoff'),
                      handoff'.schema = "v2" => Honest(handoff'.approval)
               PROVE  pc' = "reclean"
    OBVIOUS
  <2>1. ReadHandoff
    BY DEF Next, RequireClean, Resolve, RequireCurrent, ReadObjects, LoadFails, Refuse,
           GoTo, RecheckClean, RecheckHead, RequireApproval, GitFails, Developer, Touch,
           Undo, CommitAs, Checkout, Moves, Over, vars
  <2> QED BY <2>1, GenuineIsRead
<1> QED BY <1>1, <1>2, PolicyInductive, PTL DEF Spec, GenuineIsComposed

-----------------------------------------------------------------------------
(***************************************************************************)
(* Types.  A report is there exactly while the command still judges it or  *)
(* has printed it, and it is about the commit that was resolved.           *)
(***************************************************************************)
Reported == {"reclean", "rehead", "approval", "composed"}

TypeInv ==
    /\ head \in Commit /\ dirty \in BOOLEAN
    /\ left \subseteq Commit /\ cleanAt \subseteq Commit /\ moves \in 0..MaxMoves
    /\ resolved \in Commit \cup {NoCommit} /\ args.head \in {"HEAD"} \cup Commit

AboutInv ==
    /\ report # Refused <=> pc \in Reported
    /\ report # Refused => report.payload.subject.head = resolved

LEMMA TypesInductive == TypeInv /\ [Next]_vars => TypeInv'
<1> SUFFICES ASSUME TypeInv, [Next]_vars PROVE TypeInv'
  OBVIOUS
<1> USE DEF TypeInv
<1>1. CASE Developer
  <2>1. PICK c \in Commit, d \in BOOLEAN : Moves(c, d)
    BY <1>1 DEF Developer, Touch, Undo, CommitAs, Checkout
  <2>2. moves' \in 0..MaxMoves
    BY <2>1, PassportAssumption DEF Moves
  <2> QED BY <2>1, <2>2 DEF Moves
<1>2. CASE Resolve
  <2>1. resolved' \in Commit
    BY <1>2 DEF Resolve
  <2> QED BY <1>2, <2>1 DEF Resolve, repo
<1>3. CASE \/ RequireClean \/ RequireCurrent \/ ReadObjects \/ ReadHandoff \/ LoadFails
           \/ RecheckClean \/ RecheckHead \/ RequireApproval \/ GitFails \/ Over
           \/ UNCHANGED vars
  <2>1. UNCHANGED <<head, dirty, left, cleanAt, moves, resolved, args>>
    BY <1>3 DEF RequireClean, RequireCurrent, ReadObjects, ReadHandoff, LoadFails,
                RecheckClean, RecheckHead, RequireApproval, GitFails, Over, vars, repo,
                Refuse, GoTo
  <2> QED BY <2>1
<1> QED BY <1>1, <1>2, <1>3 DEF Next

LEMMA AboutHandoff == AboutInv /\ ReadHandoff => AboutInv'
<1> SUFFICES ASSUME AboutInv, ReadHandoff PROVE AboutInv'
  OBVIOUS
<1>1. resolved' = resolved
  BY DEF ReadHandoff
<1>2. PICK e, trusted, policy :
        LET composed == Compose(ChangeSubject, <<e>>, trusted, policy, "pr") IN
        \/ pc' = "refused" /\ report' = Refused
        \/ pc' = "reclean" /\ report' = composed /\ composed # Refused
  BY DEF ReadHandoff
<1>3. CASE pc' = "refused" /\ report' = Refused
  BY <1>3 DEF AboutInv, Reported
<1>4. CASE ~(pc' = "refused" /\ report' = Refused)
  <2>1. pc' = "reclean" /\ report' # Refused
        /\ report' = Compose(ChangeSubject, <<e>>, trusted, policy, "pr")
    BY <1>2, <1>4
  <2>2. report' = ReportOf(ChangeSubject, Records(<<e>>), trusted, policy, "pr")
    BY <2>1 DEF Compose
  <2>3. report'.payload.subject = ChangeSubject
    BY <2>2 DEF ReportOf
  <2>4. ChangeSubject.head = resolved
    BY DEF ChangeSubject
  <2> QED BY <1>1, <2>1, <2>3, <2>4 DEF AboutInv, Reported
<1> QED BY <1>3, <1>4

LEMMA AboutInductive == AboutInv /\ [Next]_vars => AboutInv'
<1> SUFFICES ASSUME AboutInv, [Next]_vars PROVE AboutInv'
  OBVIOUS
<1> USE DEF AboutInv, Reported, Refuse, GoTo
<1>1. CASE ReadHandoff BY <1>1, AboutHandoff
<1>2. CASE RequireClean \/ Resolve \/ RequireCurrent \/ ReadObjects
  BY <1>2 DEF RequireClean, Resolve, RequireCurrent, ReadObjects
<1>3. CASE LoadFails \/ RecheckClean \/ RecheckHead \/ RequireApproval \/ GitFails
  BY <1>3 DEF LoadFails, RecheckClean, RecheckHead, RequireApproval, GitFails
<1>4. CASE Developer
  BY <1>4 DEF Developer, Touch, Undo, CommitAs, Checkout, Moves
<1>5. CASE Over \/ UNCHANGED vars BY <1>5 DEF Over, vars
<1> QED BY <1>1, <1>2, <1>3, <1>4, <1>5 DEF Next

\* Every variable of the command and of the repository keeps to its set of
\* values, and a report is about the resolved commit.
THEOREM PassportTypes == Spec => []TypeOK
<1>1. Init => TypeInv /\ AboutInv
  <2> SUFFICES ASSUME Init PROVE TypeInv /\ AboutInv
    OBVIOUS
  <2>1. /\ head \in Commit /\ dirty \in BOOLEAN /\ left = {} /\ moves = 0
        /\ cleanAt = (IF dirty THEN {} ELSE {head})
        /\ pc = "clean" /\ resolved = NoCommit /\ report = Refused
        /\ args.head \in {"HEAD"} \cup Commit
    BY DEF Init
  <2>2. TypeInv
    BY <2>1, PassportAssumption DEF TypeInv
  <2> QED BY <2>1, <2>2 DEF AboutInv, Reported
<1>2. TypeInv /\ AboutInv => TypeOK
  <2> SUFFICES ASSUME TypeInv, AboutInv PROVE TypeOK
    OBVIOUS
  <2>1. (report # Refused) = (pc \in {"reclean", "rehead", "approval", "composed"})
    BY DEF AboutInv, Reported
  <2> QED BY <2>1 DEF TypeInv, AboutInv, TypeOK
<1> QED BY <1>1, <1>2, TypesInductive, AboutInductive, PTL DEF Spec
=============================================================================
