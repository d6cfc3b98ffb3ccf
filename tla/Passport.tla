------------------------------ MODULE Passport ------------------------------
(***************************************************************************)
(* passport.py: composing a passport for the candidate a developer keeps   *)
(* working on.  Every Git command reads the repository at its own moment;  *)
(* the handoff is read once.  Commits are immutable, so the ancestor test, *)
(* the manifest and the policy at a revision are functions of commits.     *)
(***************************************************************************)
EXTENDS TaskToPR

CONSTANTS
    Commit,      \* revisions of the repository
    Ancestor,    \* pairs <<a, b>>: a is b or an ancestor of b
    Base,        \* --base, an exact revision
    WithPolicy,  \* revisions that hold a readable reviewer policy
    Handoff,     \* what the handoff file may hold
    Pins,        \* [revision, version, schema] of the reviewer
    MaxMoves     \* bound of the model: what the developer does

ASSUME PassportAssumption ==
    /\ Base \in Commit /\ Ancestor \subseteq Commit \X Commit
    /\ \A c \in Commit : <<c, c>> \in Ancestor
    /\ MaxMoves \in Nat
    /\ "execution" \in Component /\ WithPolicy \subseteq Policy
    /\ \A h \in Handoff : h.schema = "v2" => h.approval.edited \in BOOLEAN

VARIABLES
    head, dirty,   \* HEAD and whether git status shows anything
    left,          \* commits HEAD has left
    cleanAt,       \* commits the tree was clean at while it was HEAD
    moves,
    pc, args,      \* the command: its state and its arguments
    resolved,      \* resolved_head, then the subject's head
    handoff,       \* the handoff that was read
    report

repo == <<head, dirty, left, cleanAt, moves>>
vars == <<repo, pc, args, resolved, handoff, report>>

NoCommit == "no commit"

Init ==
    /\ head \in Commit /\ dirty \in BOOLEAN
    /\ left = {} /\ cleanAt = (IF dirty THEN {} ELSE {head}) /\ moves = 0
    /\ pc = "clean" /\ resolved = NoCommit /\ handoff = <<>> /\ report = Refused
    /\ args \in [head : {"HEAD"} \cup Commit, policyRef : Commit, pins : Pins,
                 approval : BOOLEAN]

-----------------------------------------------------------------------------
(***************************************************************************)
(* External: the developer edits, undoes, commits or checks out.  A        *)
(* checkout keeps local changes.                                           *)
(***************************************************************************)
Moves(c, d) ==
    /\ moves < MaxMoves /\ moves' = moves + 1
    /\ head' = c /\ dirty' = d
    /\ left' = IF c = head THEN left ELSE left \cup {head}
    /\ cleanAt' = IF d THEN cleanAt ELSE cleanAt \cup {c}
    /\ UNCHANGED <<pc, args, resolved, handoff, report>>

Touch    == ~dirty /\ Moves(head, TRUE)
Undo     == dirty /\ Moves(head, FALSE)
CommitAs(c)   == dirty /\ c # head /\ <<head, c>> \in Ancestor /\ Moves(c, FALSE)
Checkout(c) == c # head /\ Moves(c, dirty)

Developer == Touch \/ Undo \/ \E c \in Commit : CommitAs(c) \/ Checkout(c)

-----------------------------------------------------------------------------
\* Mutant: the report outlives the error.
Refuse_KeepsReport ==
    pc' = "refused" /\ UNCHANGED <<repo, args, resolved, handoff, report>>

Refuse ==
    /\ pc' = "refused" /\ report' = Refused
    /\ UNCHANGED <<repo, args, resolved, handoff>>

GoTo(there) == pc' = there /\ UNCHANGED <<repo, args, resolved, handoff, report>>

RequireClean ==
    /\ pc = "clean"
    /\ IF dirty THEN Refuse ELSE GoTo("resolve")

\* resolve_revision of base, head and policy; only "HEAD" moves.
Resolve ==
    /\ pc = "resolve"
    /\ resolved' = (IF args.head = "HEAD" THEN head ELSE args.head)
    /\ pc' = "current"
    /\ UNCHANGED <<repo, args, handoff, report>>

RequireCurrent ==
    /\ pc = "current"
    /\ IF resolved # head THEN Refuse ELSE GoTo("objects")

\* _require_ancestor, the policy at its revision, the manifest.
ReadObjects ==
    /\ pc = "objects"
    /\ IF <<Base, resolved>> \in Ancestor /\ args.policyRef \in WithPolicy
       THEN GoTo("handoff") ELSE Refuse

ChangeSubject ==
    [repository |-> "here", base |-> Base, head |-> resolved,
     manifest |-> <<Base, resolved>>, policy |-> args.policyRef]

\* load_tasktopr_handoff, adapt, compose and verify: the file is read once,
\* what follows depends on nothing that moves.
ReadHandoff ==
    /\ pc = "handoff"
    /\ \E h \in Handoff :
          LET execution == Adapt(h, ChangeSubject, args.pins)
              composed  == Compose(ChangeSubject, <<execution>>,
                              [c \in {"execution"} |->
                                 <<"tasktopr", args.pins.revision>>],
                              args.policyRef, "pr")
          IN /\ handoff' = h
             /\ IF execution = Refused THEN pc' = "refused" /\ report' = Refused
                ELSE IF composed = Refused \/ ~Verified(composed)
                THEN pc' = "refused" /\ report' = Refused
                ELSE pc' = "reclean" /\ report' = composed
    /\ UNCHANGED <<repo, args, resolved>>

LoadFails == pc = "handoff" /\ Refuse

\* Mutant: only HEAD is compared after the composition.
StillClean_Unasked == TRUE

\* The second is_dirty.
StillClean == ~dirty

RecheckClean ==
    /\ pc = "reclean"
    /\ IF StillClean THEN GoTo("rehead") ELSE Refuse

RecheckHead ==
    /\ pc = "rehead"
    /\ IF head # resolved THEN Refuse
       ELSE GoTo(IF args.approval THEN "approval" ELSE "composed")

RequireApproval ==
    /\ pc = "approval"
    /\ IF PlanApproved(report) THEN GoTo("composed") ELSE Refuse

\* Any Git command fails or takes longer than its timeout.
GitFails ==
    /\ pc \in {"clean", "resolve", "current", "objects", "reclean", "rehead"}
    /\ Refuse

Over == pc \in {"refused", "composed"} /\ UNCHANGED vars

Next ==
    \/ RequireClean \/ Resolve \/ RequireCurrent \/ ReadObjects \/ ReadHandoff
    \/ LoadFails \/ RecheckClean \/ RecheckHead \/ RequireApproval \/ GitFails
    \/ Developer \/ Over

Spec == Init /\ [][Next]_vars
-----------------------------------------------------------------------------
TypeOK ==
    /\ head \in Commit /\ dirty \in BOOLEAN
    /\ left \subseteq Commit /\ cleanAt \subseteq Commit /\ moves \in 0..MaxMoves
    /\ resolved \in Commit \cup {NoCommit}
    /\ (report # Refused) = (pc \in {"reclean", "rehead", "approval", "composed"})
    /\ report # Refused => report.payload.subject.head = resolved

(***************************************************************************)
(* A passport names a candidate that existed: unless HEAD came back to a   *)
(* commit it had left, the passport's head was checked out with nothing    *)
(* uncommitted at one moment of the run.  Each of the four reads that      *)
(* establish this is at another moment (passport.py:176, 185, 243).        *)
(***************************************************************************)
CleanCandidate == pc = "composed" /\ resolved \notin left => resolved \in cleanAt

(***************************************************************************)
(* Execution evidence alone is never an authorization, nor a mere request  *)
(* for review ("this command never upgrades execution evidence into merge  *)
(* or release authorization", passport.py:3-6).                            *)
(***************************************************************************)
NeverAuthorizes ==
    pc = "composed" =>
        /\ report.payload.decision \notin {"PASS", "REVIEW_REQUIRED"}
        /\ report.payload.stage = "pr"

(***************************************************************************)
(* Where the reviewer requires it, a human decided on the very plan that   *)
(* was executed: approved as it was, or edited into another                *)
(* (tasktopr_policy.py:14-20, tasktopr.py:110-119).                        *)
(***************************************************************************)
ApprovalIsHuman ==
    pc = "composed" /\ args.approval =>
        /\ handoff.schema = "v2" /\ handoff.approval.mode = "prompt"
        /\ \/ /\ handoff.approval.decision = "approve"
              /\ handoff.approval.final = handoff.approval.original
           \/ handoff.approval.decision = "edit"

(***************************************************************************)
(* A handoff of either schema that the producer can write about this very  *)
(* candidate, with the pinned producer, is never refused unless somebody   *)
(* disturbs the repository or Git fails (tasktopr.py:178-192, 269-273).    *)
(***************************************************************************)
Genuine(h) ==
    /\ h.fits /\ h.wellFormed /\ h.verified
    /\ h.repository = "here" /\ h.base = Base /\ h.head = resolved
    /\ h.files \in 0..MaxChangedFiles /\ h.tests \in 1..MaxTests
    /\ <<h.schema, h.source>> \in {<<"v1", 1>>, <<"v2", 2>>}
    /\ h.revision = args.pins.revision
    /\ args.pins.version \in {h.version, "none"}
    /\ args.pins.schema \in {h.schema, "none"}

Honest(a) ==
    \/ a = [mode |-> "off", decision |-> "not_required", edited |-> FALSE,
            original |-> "none", final |-> "none", record |-> "none"]
    \/ /\ a.mode = "prompt" /\ a.record # "none"
       /\ a.original # "none" /\ a.final # "none"
       /\ \/ a.decision = "approve" /\ ~a.edited /\ a.original = a.final
          \/ a.decision = "edit" /\ a.edited = (a.original # a.final)

GenuineIsComposed ==
    [][/\ pc = "handoff" /\ handoff' # handoff
       /\ Genuine(handoff') /\ (handoff'.schema = "v2" => Honest(handoff'.approval))
       => pc' = "reclean"]_vars
=============================================================================
