---------------------------- MODULE SafeDelivery ----------------------------
(***************************************************************************)
(* safe_delivery.py: evidence of several components about one exact        *)
(* subject is composed into a report, and a saved report is verified by    *)
(* composing it again from its own sections.  Pure operators, no state.    *)
(*                                                                         *)
(* Identities (subjects, producer pins, digests of details) are opaque     *)
(* values that are only compared.  A digest is an injective function of    *)
(* what is digested.  Reports are well formed: that JSON has the fields of *)
(* a report is left to the field checks of the code.                       *)
(***************************************************************************)
EXTENDS Naturals, FiniteSets, Sequences

CONSTANTS
    Component,   \* COMPONENTS
    Policy       \* identities of reviewer policies

\* There is more to answer for than what is executed or hosted.
ASSUME ComponentAssumption ==
    /\ IsFiniteSet(Component)
    /\ \E c \in Component : c \notin {"execution", "ci", "review"}

Decision == {"PASS", "FAIL", "REVIEW_REQUIRED", "UNKNOWN"}
Stage    == {"pr", "merge", "release"}
Schema   == "safe-delivery/v1"

\* content_digest: equal digests are digests of equal values.
Digest(value) == <<"sha256", value>>

\* A component without evidence, and no report.
NoEvidence == [decision |-> "UNKNOWN", complete |-> FALSE]
Refused    == [refused |-> TRUE]

-----------------------------------------------------------------------------
(***************************************************************************)
(* A record of evidence: [component, tool, subject, decision, complete,    *)
(* details, rules, valid], where tool is the producer's name and revision, *)
(* rules its rule identifiers and metrics, and valid stands for            *)
(* ComponentEvidence.validate and ChangeSubject.validate.                  *)
(***************************************************************************)
Collectable(evidence) ==
    /\ Len(evidence) <= Cardinality(Component)
    /\ \A i \in DOMAIN evidence :
          evidence[i].valid /\ evidence[i].component \in Component
    /\ \A i, j \in DOMAIN evidence :
          evidence[i].component = evidence[j].component => i = j

\* The dictionary `records`.
Records(evidence) ==
    [c \in {evidence[i].component : i \in DOMAIN evidence} |->
        evidence[CHOOSE i \in DOMAIN evidence : evidence[i].component = c]]

Composable(subject, trusted, policy, stage) ==
    /\ stage \in Stage
    /\ policy \in Policy
    /\ subject.policy = policy
    /\ DOMAIN trusted \subseteq Component

-----------------------------------------------------------------------------
Unpinned(c, record, trusted) == c \notin DOMAIN trusted \/ trusted[c] # record.tool

\* Mutant: a pull request only asks for review of whatever is missing.
MissingDecision_PrReview(c, stage) ==
    IF stage = "pr" THEN "REVIEW_REQUIRED" ELSE "UNKNOWN"

\* The decision of a component without evidence.
MissingDecision(c, stage) ==
    IF stage = "pr" /\ c \in {"ci", "review"} THEN "REVIEW_REQUIRED" ELSE "UNKNOWN"

\* Mutant: the producer pin is not compared.
Judged_AnyTool(c, record, subject, trusted) ==
    IF record.subject # subject THEN "FAIL"
    ELSE IF ~record.complete /\ record.decision = "PASS" THEN "UNKNOWN"
    ELSE record.decision

\* The decision the composition gives a component with evidence.
Judged(c, record, subject, trusted) ==
    IF record.subject # subject \/ Unpinned(c, record, trusted) THEN "FAIL"
    ELSE IF ~record.complete /\ record.decision = "PASS" THEN "UNKNOWN"
    ELSE record.decision

DecisionOf(c, records, subject, trusted, stage) ==
    IF c \in DOMAIN records THEN Judged(c, records[c], subject, trusted)
    ELSE MissingDecision(c, stage)

Section(c, records, subject, trusted) ==
    IF c \notin DOMAIN records THEN NoEvidence
    ELSE [producer |-> records[c],
          decision |-> Judged(c, records[c], subject, trusted)]

\* What is found about one component, each with the decision it leads to.
Findings(c, records, subject, trusted, stage) ==
    LET judged == DecisionOf(c, records, subject, trusted, stage)
        Found(rule, holds) ==
            IF holds THEN {[rule |-> rule, component |-> c, decision |-> judged]}
            ELSE {}
    IN IF c \notin DOMAIN records THEN Found("SD001", TRUE)
       ELSE UNION {Found("SD002", records[c].subject # subject),
                   Found("SD003", Unpinned(c, records[c], trusted)),
                   Found("SD004", /\ judged = "UNKNOWN"
                                  /\ records[c].decision = "PASS"),
                   Found("SD005", judged # "PASS")}

\* Mutant: review is asked for before an unknown component is noticed.
Overall_ReviewFirst(decisions) ==
    IF "FAIL" \in decisions THEN "FAIL"
    ELSE IF "REVIEW_REQUIRED" \in decisions THEN "REVIEW_REQUIRED"
    ELSE IF "UNKNOWN" \in decisions THEN "UNKNOWN" ELSE "PASS"

\* Mutant: there is no default where none of the three occurs.
Overall_NoDefault(decisions) ==
    IF "FAIL" \in decisions THEN "FAIL"
    ELSE IF "UNKNOWN" \in decisions THEN "UNKNOWN"
    ELSE IF "REVIEW_REQUIRED" \in decisions THEN "REVIEW_REQUIRED" ELSE "none"

\* The first of FAIL, UNKNOWN, REVIEW_REQUIRED that occurs.
Overall(decisions) ==
    IF "FAIL" \in decisions THEN "FAIL"
    ELSE IF "UNKNOWN" \in decisions THEN "UNKNOWN"
    ELSE IF "REVIEW_REQUIRED" \in decisions THEN "REVIEW_REQUIRED" ELSE "PASS"

\* The report made of a dictionary of records.
ReportOf(subject, records, trusted, policy, stage) ==
    LET payload ==
        [schema   |-> Schema,
         stage    |-> stage,
         decision |-> Overall({DecisionOf(c, records, subject, trusted, stage) :
                                  c \in Component}),
         sections |-> [c \in Component |-> Section(c, records, subject, trusted)],
         policy   |-> policy,
         subject  |-> subject,
         trusted  |-> trusted,
         findings |-> UNION {Findings(c, records, subject, trusted, stage) :
                                c \in Component}]
    IN [payload |-> payload, receipt |-> Digest(payload)]

Compose(subject, evidence, trusted, policy, stage) ==
    IF Composable(subject, trusted, policy, stage) /\ Collectable(evidence)
    THEN ReportOf(subject, Records(evidence), trusted, policy, stage)
    ELSE Refused

-----------------------------------------------------------------------------
\* The records a saved report says it was composed from.
SavedRecords(payload) ==
    [c \in {d \in Component : payload.sections[d] # NoEvidence} |->
        payload.sections[c].producer]

\* Mutant: a digest that fits the payload is enough.
Verified_DigestOnly(report) == report.receipt = Digest(report.payload)

\* Mutant: room for one finding of each component.
Verified_SmallBudget(report) ==
    LET p == report.payload IN
    /\ Cardinality(p.findings) <= Cardinality(Component)
    /\ report = ReportOf(p.subject, SavedRecords(p), p.trusted, p.policy, p.stage)

\* _verify_report: the report is the one its own sections compose to.
Verified(report) ==
    LET p == report.payload IN
    /\ p.schema = Schema
    /\ Cardinality(p.findings) <= 3 * Cardinality(Component)
    /\ Composable(p.subject, p.trusted, p.policy, p.stage)
    /\ \A c \in DOMAIN SavedRecords(p) :
          SavedRecords(p)[c].valid /\ SavedRecords(p)[c].component = c
    /\ report = ReportOf(p.subject, SavedRecords(p), p.trusted, p.policy, p.stage)

\* Mutant: findings that ask for review are not shown.
SarifResults_NoReview(report) ==
    {[rule |-> f.rule, component |-> f.component,
      level |-> IF f.decision = "FAIL" THEN "error" ELSE "warning"] :
        f \in {g \in report.payload.findings : g.decision # "REVIEW_REQUIRED"}}

\* safe_delivery_sarif: one result for each finding.
SarifResults(report) ==
    {[rule |-> f.rule, component |-> f.component,
      level |-> IF f.decision = "FAIL" THEN "error" ELSE "warning"] :
        f \in report.payload.findings}
=============================================================================
