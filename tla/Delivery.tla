------------------------------ MODULE Delivery ------------------------------
(***************************************************************************)
(* From producers to the reader of a saved report: one hosted snapshot is  *)
(* normalized (HostedEvidence), other producers supply evidence, the       *)
(* report is composed (SafeDelivery), saved, possibly changed while it is  *)
(* saved, and verified again before anything of it is believed.            *)
(***************************************************************************)
EXTENDS SafeDelivery, HostedEvidence

CONSTANTS
    Tool,       \* producer pins: names with their exact revisions
    PinOf,      \* the pin the reviewer trusts for each component
    Subject     \* subjects evidence may be about, [id, policy]

VARIABLES
    supplied,   \* the evidence handed to compose_safe_delivery
    earned,     \* the hosted evidence passes and deserves to
    asked,      \* subject, trusted pins, policy and stage of the composition
    report,     \* what compose_safe_delivery returned, Refused if it raised
    saved,      \* the report as it is read back
    accepted    \* verify_safe_delivery did not raise

deliveryVars == <<supplied, earned, asked, report, saved, accepted>>
vars == <<pc, hostedVars, deliveryVars>>

Candidate == CHOOSE s \in Subject : s.id = "candidate"

Evidence(c, tool, subject, decision, whole) ==
    [component |-> c, tool |-> tool, subject |-> subject,
     decision |-> decision, complete |-> whole, valid |-> TRUE]

Init ==
    /\ pc = "begin"
    /\ HostedInit
    /\ supplied = <<>> /\ earned = FALSE /\ asked = <<>>
    /\ report = Refused /\ saved = Refused /\ accepted = FALSE

Normalize == HostedNext /\ UNCHANGED deliveryVars

\* The evidence of the normalizer joins the others; its snapshot is done with.
Submit ==
    /\ pc = "judged"
    /\ pc' = "supply"
    /\ supplied' = <<Evidence(side, PinOf[side], Candidate, verdict.decision,
                              verdict.complete)>>
    /\ earned' = (verdict.decision = "PASS" /\ Deserved)
    /\ Forget
    /\ UNCHANGED <<side, asked, report, saved, accepted>>

\* A producer supplies evidence: a record may also be malformed or repeated.
\* That of the tests comes last: the order of the list makes no difference.
Supply(c) ==
    /\ pc = "supply"
    /\ Len(supplied) <= Cardinality(Component)
    /\ \A i \in 2..Len(supplied) : supplied[i].component \notin {c, "tests"} /\ supplied[i].valid
    /\ \E tool \in Tool, s \in Subject, d \in Decision, whole \in BOOLEAN :
          \/ /\ c # side
             /\ c \in {"ci", "review"} => (tool = PinOf[c] /\ s = Candidate)
             /\ supplied' = Append(supplied, Evidence(c, tool, s, d, whole))
          \/ /\ Len(supplied) = 1
             /\ supplied' = Append(supplied,
                   [Evidence(c, PinOf[c], Candidate, "PASS", TRUE)
                       EXCEPT !.valid = (c = side)])
    /\ UNCHANGED <<pc, hostedVars, earned, asked, report, saved, accepted>>

ComposeReport ==
    /\ pc = "supply"
    /\ \E stage \in Stage, policy \in Policy, unpinned \in SUBSET {"tests"} :
          LET trusted == [c \in Component \ unpinned |-> PinOf[c]] IN
          /\ asked' = [subject |-> Candidate, trusted |-> trusted,
                       policy |-> policy, stage |-> stage]
          /\ report' = Compose(Candidate, supplied, trusted, policy, stage)
    /\ pc' = IF report' = Refused THEN "refused" ELSE "composed"
    /\ UNCHANGED <<hostedVars, supplied, earned, saved, accepted>>

(***************************************************************************)
(* External: what may happen to a saved report.  A payload is edited, with *)
(* the receipt it had or one made to fit.                                  *)
(***************************************************************************)
EditedPayloads(p) ==
    {[p EXCEPT !.decision = d] : d \in Decision}
    \cup {[p EXCEPT !.stage = s] : s \in Stage}
    \cup {[p EXCEPT !.findings = {}], [p EXCEPT !.trusted = <<>>]}
    \cup {[p EXCEPT !.sections[c] =
              IF p.sections[c] = NoEvidence THEN NoEvidence
              ELSE [@ EXCEPT !.producer.decision = "PASS",
                             !.producer.complete = TRUE]] : c \in Component}

Save ==
    /\ pc = "composed"
    /\ \E payload \in EditedPayloads(report.payload), resealed \in BOOLEAN :
          saved' = [payload |-> payload,
                    receipt |-> IF resealed THEN Digest(payload)
                                ELSE report.receipt]
    /\ pc' = "saved"
    /\ UNCHANGED <<hostedVars, supplied, earned, asked, report, accepted>>

Verify ==
    /\ pc = "saved"
    /\ pc' = "verified"
    /\ accepted' = Verified(saved)
    /\ UNCHANGED <<hostedVars, supplied, earned, asked, report, saved>>

Over == pc \in {"rejected", "refused", "verified"} /\ UNCHANGED vars

Next ==
    \/ Normalize \/ Submit
    \/ \E c \in Component : Supply(c)
    \/ ComposeReport \/ Save \/ Verify \/ Over

Spec == Init /\ [][Next]_vars

-----------------------------------------------------------------------------
TypeOK ==
    /\ pc \in {"begin", "loop", "judged", "rejected", "supply", "composed",
               "refused", "saved", "verified"}
    /\ side \in {"ci", "review"}
    /\ Len(records) <= MaxChecks + MaxReviews
    /\ seen \subseteq 1..(MaxChecks + MaxReviews)
    /\ verdict.decision \in Decision \cup {"none"} /\ verdict.complete \in BOOLEAN
    /\ earned \in BOOLEAN /\ accepted \in BOOLEAN
    /\ report # Refused => report.payload.decision \in Decision
    /\ (pc = "refused") = (asked # <<>> /\ report = Refused)

Supplied(c) == {i \in DOMAIN supplied : supplied[i].component = c}

\* Complete evidence of a pinned producer about the subject, with a decision.
Stands(c, decision) ==
    \E i \in Supplied(c) :
        /\ supplied[i].subject = asked.subject /\ supplied[i].decision = decision
        /\ c \in DOMAIN asked.trusted /\ asked.trusted[c] = supplied[i].tool

Whole(c) == \A i \in Supplied(c) : supplied[i].complete

(***************************************************************************)
(* A report says PASS only if every component, in every stage, has exactly *)
(* one piece of evidence that is complete, passes, is about the subject    *)
(* and comes from the pinned producer, and the hosted evidence among them  *)
(* deserved it ("without upgrading unknown, incomplete or mismatched       *)
(* evidence", safe_delivery.py:139).                                       *)
(***************************************************************************)
PassIsWarranted ==
    report # Refused /\ report.payload.decision = "PASS" =>
        /\ earned
        /\ \A c \in Component :
              Cardinality(Supplied(c)) = 1 /\ Stands(c, "PASS") /\ Whole(c)

(***************************************************************************)
(* A report that only asks for review leaves nothing else to be done: all  *)
(* that is not complete and passing is evidence that itself asks for       *)
(* review, or hosted evidence not yet collected for a pull request         *)
(* (safe_delivery.py:178-214).                                             *)
(***************************************************************************)
ReviewIsAllThatIsLeft ==
    report # Refused /\ report.payload.decision = "REVIEW_REQUIRED" =>
        \A c \in Component :
            \/ Stands(c, "REVIEW_REQUIRED")
            \/ Stands(c, "PASS") /\ Whole(c)
            \/ /\ Supplied(c) = {}
               /\ c \in {"ci", "review"} /\ asked.stage = "pr"

\* A report that was composed is read back: verification, with its budget of
\* findings, refuses none (safe_delivery.py:307-317).
UntouchedIsAccepted == pc = "verified" /\ saved = report => accepted

(***************************************************************************)
(* None of the edits of a saved report listed in EditedPayloads, resealed  *)
(* or not, changes what an accepted report decides, as a whole or for a    *)
(* component (safe_delivery.py:310-318).                                   *)
(***************************************************************************)
EditsDoNotDecide ==
    accepted =>
        /\ saved.payload.decision = report.payload.decision
        /\ \A c \in Component : saved.payload.sections[c].decision
                                 = report.payload.sections[c].decision

(***************************************************************************)
(* The SARIF form of an accepted report, which is all a code scanner sees, *)
(* is empty exactly for a PASS and shows an error exactly for a FAIL       *)
(* (safe_delivery.py:323-331).                                             *)
(***************************************************************************)
SarifAgrees ==
    accepted =>
        /\ SarifResults(saved) = {} <=> saved.payload.decision = "PASS"
        /\ (\E r \in SarifResults(saved) : r.level = "error")
              <=> saved.payload.decision = "FAIL"
=============================================================================
