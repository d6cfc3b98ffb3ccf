------------------------------ MODULE TaskToPR ------------------------------
(***************************************************************************)
(* tasktopr.py and tasktopr_policy.py: a TaskToPR handoff becomes execution *)
(* evidence, or is refused.  Pure operators, no state.                     *)
(*                                                                         *)
(* A handoff is a record: fits (the receipt digest is the digest of the    *)
(* payload), wellFormed (every field is there, has its type, its syntax    *)
(* and its fixed value), schema, approval (with v2), version and revision  *)
(* of the producer, repository, base and head of the change, files and     *)
(* tests (the counts), verified (the verification section reports a        *)
(* complete, passing, allowed run) and source (the receipt's schema).      *)
(***************************************************************************)
EXTENDS Integers, SafeDelivery

CONSTANTS MaxTests, MaxChangedFiles   \* MAX_TESTS, MAX_CHANGED_FILES

Schemas  == {"v1", "v2"}
NoPin    == "none"   \* a pin the reviewer does not set

(***************************************************************************)
(* _plan_approval: (required, satisfied), or the handoff is refused.       *)
(* Identities of plans are opaque, "none" is None.                         *)
(***************************************************************************)
Disabled(a) ==
    /\ a.mode = "off" /\ a.decision = "not_required" /\ ~a.edited
    /\ a.original = "none" /\ a.final = "none" /\ a.record = "none"

Decided(a) ==
    /\ a.mode = "prompt" /\ a.decision \in {"approve", "edit"}
    /\ "none" \notin {a.original, a.final, a.record}
    /\ a.edited = (a.original # a.final)
    /\ ~(a.decision = "approve" /\ a.edited)

\* Mutant: the source receipt is always of the first schema.
SourceSchema_First(schema) == 1

SourceSchema(schema) == IF schema = "v1" THEN 1 ELSE 2

Trustable(h, subject, pins) ==
    /\ h.fits /\ h.wellFormed
    /\ h.schema \in Schemas
    /\ h.schema = "v2" => Disabled(h.approval) \/ Decided(h.approval)
    /\ pins.schema \in {NoPin, h.schema}
    /\ pins.version \in {NoPin, h.version}
    /\ h.revision = pins.revision
    /\ h.repository = subject.repository
    /\ h.base = subject.base /\ h.head = subject.head
    /\ h.files \in 0..MaxChangedFiles /\ h.tests \in 1..MaxTests
    /\ h.verified
    /\ h.source = SourceSchema(h.schema)

Rules(h, pins) ==
    {"TASKTOPR_VERIFIED_HEAD"}
    \cup (IF h.schema = "v2" /\ Decided(h.approval)
          THEN {"TASKTOPR_PLAN_APPROVED"} ELSE {})
    \cup (IF pins.version # NoPin
          THEN {"TASKTOPR_PRODUCER_VERSION_PINNED"} ELSE {})
    \cup (IF pins.schema # NoPin
          THEN {"TASKTOPR_HANDOFF_SCHEMA_PINNED"} ELSE {})

\* Of the metrics only the two a policy reads later: 1, 0, or absent (-1).
Metrics(h) ==
    LET decided == IF h.schema = "v1" THEN -1
                   ELSE IF Decided(h.approval) THEN 1 ELSE 0
    IN [required |-> decided, satisfied |-> decided]

\* adapt_tasktopr_execution.
Adapt(h, subject, pins) ==
    IF Trustable(h, subject, pins)
    THEN [component |-> "execution", tool |-> <<"tasktopr", pins.revision>>,
          subject |-> subject, decision |-> "PASS", complete |-> TRUE,
          rules |-> Rules(h, pins), metrics |-> Metrics(h), valid |-> TRUE]
    ELSE Refused

\* Mutant: an execution that passed is approval enough.
PlanApproved_Passing(report) ==
    LET s == report.payload.sections["execution"] IN s.decision = "PASS"

\* require_tasktopr_plan_approval does not raise.
PlanApproved(report) ==
    LET s == report.payload.sections["execution"] IN
    /\ Verified(report)
    /\ s.decision = "PASS"
    /\ s.producer.metrics.required = 1 /\ s.producer.metrics.satisfied = 1
    /\ "TASKTOPR_PLAN_APPROVED" \in s.producer.rules
=============================================================================
