--------------------------- MODULE HostedEvidence ---------------------------
(***************************************************************************)
(* hosted_evidence.py: a snapshot of GitHub check runs (normalize_ci) or   *)
(* reviews (normalize_review) becomes one piece of evidence.  The records  *)
(* of a snapshot come in any order and are taken one by one; `newest` and  *)
(* `seen` are the loop's dictionaries.                                     *)
(*                                                                         *)
(* Names, applications, authors and revisions are opaque.  A login is      *)
(* <<person, spelling>>, and casefold forgets the spelling.                *)
(***************************************************************************)
EXTENDS Integers, FiniteSets, Sequences

CONSTANTS
    Required,    \* name/application pairs the reviewer requires
    Other,       \* pairs nobody requires
    Author,      \* the author of the pull request
    Login,       \* logins of reviewers, <<person, spelling>>
    MaxChecks,   \* bound of the model: check runs of a snapshot
    MaxReviews   \* bound of the model: reviews of a snapshot

ASSUME HostedAssumption ==
    /\ Required # {} /\ Required \cap Other = {}
    /\ MaxChecks \in Nat \ {0} /\ MaxReviews \in Nat \ {0}

VARIABLES
    pc,         \* "begin", "loop", "judged", then what the client does
    side,       \* which normalizer runs, "ci" or "review"
    snapshot,   \* the fields of the snapshot beside its records
    records,    \* the records taken so far, in order
    newest,     \* latest record of each key seen so far
    seen,       \* identifiers taken so far
    reasons,    \* the set `reasons`
    complete,   \* the flag `complete`
    verdict     \* decision and completeness of the evidence

hostedVars == <<side, snapshot, records, newest, seen, reasons, complete, verdict>>

\* "unfinished" is also a run completed without a conclusion, "neutral" any
\* conclusion that is neither a failure nor a success, COMMENTED also PENDING.
CheckState  == {"unfinished", "failed", "neutral", "success"}
ReviewState == {"APPROVED", "CHANGES_REQUESTED", "DISMISSED", "COMMENTED"}
Undecided   == [decision |-> "none", complete |-> FALSE]

(***************************************************************************)
(* A record lacks a field, or has all of them.  The head is the subject's  *)
(* ("same") or another revision.  A record for another revision, or of a   *)
(* check nobody requires, stands for all of them.                          *)
(***************************************************************************)
Partial == [partial |-> TRUE]
CheckRun ==
    [pair : Required, id : 1..MaxChecks, head : {"same"}, state : CheckState]
      \cup [pair : Other, id : 1..MaxChecks, head : {"same"}, state : {"failed"}]
      \cup [pair : Required, id : {1}, head : {"other"}, state : {"success"}]
Review ==
    [author : Login, id : 1..MaxReviews, head : {"same"}, state : ReviewState]
      \cup [author : Login, id : {1}, head : {"other"}, state : {"APPROVED"}]

(***************************************************************************)
(* whole: every base field is present, complete and not truncated.         *)
(* missing: which of the fields beside those is not there, at most one.    *)
(* At most one of whole, head and policy is off in one snapshot.           *)
(* github and unresolved are read after the loop over reviews; approvals   *)
(* is the number of approvals the reviewer's policy asks for.              *)
(***************************************************************************)
Base ==
    {[whole |-> off # "whole",
      head   |-> IF off = "head" THEN "other" ELSE "same",
      policy |-> IF off = "policy" THEN "other" ELSE "same"] :
        off \in {"nothing", "whole", "head", "policy"}}
Fields ==
    [missing : {"nothing", "records", "author", "decision", "threads"},
     github : {"APPROVED", "CHANGES_REQUESTED", "REVIEW_REQUIRED"},
     unresolved : BOOLEAN, approvals : 1..2]
Snapshot ==
    {[whole |-> b.whole, head |-> b.head, policy |-> b.policy, missing |-> f.missing,
      github |-> f.github, unresolved |-> f.unresolved, approvals |-> f.approvals] :
        b \in Base, f \in Fields}

\* The fields only one of the normalizers reads have one value for the other.
Plain(s) ==
    /\ s.github = "APPROVED" /\ ~s.unresolved /\ s.approvals = 1
    /\ s.missing \in {"nothing", "records"}

HostedInit ==
    /\ side \in {"ci", "review"}
    /\ snapshot = <<>> /\ records = <<>> /\ newest = <<>> /\ seen = {}
    /\ reasons = {} /\ complete = FALSE /\ verdict = Undecided

-----------------------------------------------------------------------------
\* _base and the field checks at the start of both normalizers.
Begin ==
    /\ pc = "begin"
    /\ \E s \in Snapshot :
          /\ side = "ci" => Plain(s)
          /\ snapshot' = s
          /\ complete' = (s.whole /\ s.missing = "nothing")
          /\ reasons' = (IF s.whole /\ s.missing = "nothing" THEN {} ELSE {"HE001"})
                          \cup (IF s.head = "same" THEN {} ELSE {"HE002"})
                          \cup (IF s.policy = "same" THEN {} ELSE {"HE003"})
    /\ pc' = "loop"
    /\ UNCHANGED <<side, records, newest, seen, verdict>>

\* The normalizer is over, and what it held is gone.
Forget ==
    /\ snapshot' = <<>> /\ records' = <<>> /\ newest' = <<>> /\ seen' = {}
    /\ reasons' = {} /\ complete' = FALSE /\ verdict' = Undecided

\* A malformed field or record raises ValueError: there is no evidence.
Malformed ==
    /\ pc \in {"begin", "loop"}
    /\ pc' = "rejected"
    /\ Forget
    /\ UNCHANGED side

Listing(bound) == snapshot.missing # "records" /\ Len(records) < bound

\* A record that lacks a field makes the snapshot incomplete.
TakePartial ==
    /\ pc = "loop"
    /\ Listing(IF side = "ci" THEN MaxChecks ELSE MaxReviews)
    /\ records' = Append(records, Partial)
    /\ reasons' = reasons \cup {"HE001"}
    /\ complete' = FALSE
    /\ UNCHANGED <<pc, side, snapshot, newest, seen, verdict>>

\* Mutant: the last attempt listed counts, not the newest.
Later_Listed(key, r) == TRUE

\* r supersedes what is known of its key.
Later(key, r) == key \notin DOMAIN newest \/ newest[key].id < r.id

Supersede(key, r) ==
    newest' = IF Later(key, r)
              THEN [k \in DOMAIN newest \cup {key} |->
                       IF k = key THEN r ELSE newest[k]]
              ELSE newest

\* An identifier that was taken before is ambiguous.
Repeated(r) == r.id \in seen

TakeCheck(r) ==
    /\ pc = "loop" /\ side = "ci" /\ Listing(MaxChecks)
    /\ records' = Append(records, r)
    /\ reasons' = reasons \cup (IF r.head = "same" THEN {} ELSE {"HE002"})
                          \cup (IF Repeated(r) THEN {"HE008"} ELSE {})
    /\ complete' = (complete /\ ~Repeated(r))
    /\ seen' = seen \cup {r.id}
    /\ IF r.pair \in Required THEN Supersede(r.pair, r) ELSE UNCHANGED newest
    /\ UNCHANGED <<pc, side, snapshot, verdict>>

Fold(login) == login[1]
ByAuthor(r) == snapshot.missing # "author" /\ Fold(r.author) = Author

\* Mutant: a later comment withdraws what its author said before.
Substantive_Any(r) == r.head = "same" /\ ~ByAuthor(r)

\* The record says something about the head, and not by the author.
Substantive(r) ==
    /\ r.head = "same"
    /\ ~ByAuthor(r)
    /\ r.state # "COMMENTED"

TakeReview(r) ==
    /\ pc = "loop" /\ side = "review" /\ Listing(MaxReviews)
    /\ records' = Append(records, r)
    /\ reasons' = reasons \cup (IF r.head = "same" THEN {} ELSE {"HE010"})
                          \cup (IF Repeated(r) THEN {"HE008"} ELSE {})
    /\ complete' = (complete /\ ~Repeated(r))
    /\ seen' = seen \cup {r.id}
    /\ IF Substantive(r) THEN Supersede(Fold(r.author), r) ELSE UNCHANGED newest
    /\ UNCHANGED <<pc, side, snapshot, verdict>>

-----------------------------------------------------------------------------
CheckReason(pair) ==
    IF pair \notin DOMAIN newest THEN {"HE004"}
    ELSE CASE newest[pair].state = "unfinished" -> {"HE005"}
           [] newest[pair].state = "failed"  -> {"HE006"}
           [] newest[pair].state = "neutral" -> {"HE007"}
           [] newest[pair].state = "success" -> {}

Approvals == Cardinality({k \in DOMAIN newest : newest[k].state = "APPROVED"})

\* A field the snapshot lacks is no approval and no request for changes.
Github == IF snapshot.missing = "decision" THEN "none" ELSE snapshot.github

ReviewReasons ==
    (IF \/ Github = "CHANGES_REQUESTED"
        \/ \E k \in DOMAIN newest : newest[k].state = "CHANGES_REQUESTED"
     THEN {"HE013"} ELSE {})
    \cup (IF snapshot.missing # "threads" /\ snapshot.unresolved THEN {"HE011"} ELSE {})
    \cup (IF Approvals < snapshot.approvals \/ Github # "APPROVED"
          THEN {"HE012"} ELSE {})

\* _evidence: what the reasons amount to.
DecisionFor(why) ==
    IF why \cap {"HE002", "HE003", "HE006", "HE013"} # {} THEN "FAIL"
    ELSE IF why \cap {"HE001", "HE004", "HE005", "HE007", "HE008", "HE010"} # {}
    THEN "UNKNOWN"
    ELSE IF why # {} THEN "REVIEW_REQUIRED" ELSE "PASS"

Conclude ==
    /\ pc = "loop"
    /\ reasons' = reasons \cup (IF side = "ci"
                                THEN UNION {CheckReason(p) : p \in Required}
                                ELSE ReviewReasons)
    /\ verdict' = [decision |-> DecisionFor(reasons'), complete |-> complete]
    /\ pc' = "judged"
    /\ UNCHANGED <<side, snapshot, records, newest, seen, complete>>

HostedNext ==
    \/ Begin \/ Malformed \/ TakePartial
    \/ \E r \in CheckRun : TakeCheck(r)
    \/ \E r \in Review : TakeReview(r)
    \/ Conclude

-----------------------------------------------------------------------------
(***************************************************************************)
(* What the verdict should say, in terms of the set of records and without *)
(* the loop.                                                               *)
(***************************************************************************)
Taken == {records[i] : i \in DOMAIN records} \ {Partial}

Trustworthy ==
    /\ snapshot.whole /\ snapshot.missing = "nothing"
    /\ snapshot.head = "same" /\ snapshot.policy = "same"
    /\ \A r \in Taken : r.head = "same"
    /\ Cardinality({r.id : r \in Taken}) = Len(records)

\* The state of the run with the largest identifier of a required pair.
LastRun(pair, state) ==
    \E r \in Taken :
        /\ r.pair = pair /\ r.state = state
        /\ \A q \in Taken : q.pair = pair => q.id <= r.id

\* The last thing a person said beside comments.
LastWord(person, state) ==
    \E r \in Taken :
        /\ Fold(r.author) = person /\ r.state = state
        /\ \A q \in Taken :
              Fold(q.author) = person /\ q.state # "COMMENTED"
                => q.id <= r.id

Reviewer == {Fold(l) : l \in Login} \ {Author}

ReviewersAgree ==
    /\ snapshot.github = "APPROVED" /\ ~snapshot.unresolved
    /\ \A p \in Reviewer : ~LastWord(p, "CHANGES_REQUESTED")
    /\ Cardinality({p \in Reviewer : LastWord(p, "APPROVED")}) >= snapshot.approvals

Deserved ==
    /\ Trustworthy
    /\ IF side = "ci" THEN \A p \in Required : LastRun(p, "success")
       ELSE ReviewersAgree

(***************************************************************************)
(* Whatever order the collector lists check runs or reviews in, a snapshot *)
(* passes exactly if it is whole, about this head and policy and without   *)
(* repeated identifiers, and the newest run of every required check        *)
(* succeeded, or enough people other than the author (in whatever          *)
(* spelling) last approved, none last asked for changes, and GitHub agrees *)
(* (hosted_evidence.py:135-140, 211-218).                                  *)
(***************************************************************************)
HostedPassIsDeserved ==
    pc = "judged" => (verdict.decision = "PASS" <=> Deserved)

(***************************************************************************)
(* A failure is somebody's: the identities differ, or the newest run of a  *)
(* required check failed, or a reviewer or GitHub asked for changes.  In a *)
(* snapshot without repeated identifiers an older failed attempt or a      *)
(* withdrawn request does not fail it.                                     *)
(***************************************************************************)
HostedFailIsDeserved ==
    pc = "judged" /\ verdict.decision = "FAIL" /\ Trustworthy =>
        IF side = "ci" THEN \E p \in Required : LastRun(p, "failed")
        ELSE \/ snapshot.github = "CHANGES_REQUESTED"
             \/ \E p \in Reviewer : LastWord(p, "CHANGES_REQUESTED")
=============================================================================
