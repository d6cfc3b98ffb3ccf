----------------------------- MODULE MCPassport -----------------------------
(***************************************************************************)
(* A base, a candidate and a commit after it, and a branch that does not   *)
(* contain the base.  A handoff is a genuine one with any plan approval    *)
(* and any head, or departs from it in one field.                          *)
(***************************************************************************)
EXTENDS Passport

MCAncestor ==
    {<<"base", "base">>, <<"base", "work">>, <<"base", "next">>,
     <<"work", "work">>, <<"work", "next">>, <<"next", "next">>,
     <<"stray", "stray">>}

Approval ==
    [mode : {"prompt"}, decision : {"approve", "edit", "reject"}, edited : BOOLEAN,
     original : {"p", "none"}, final : {"p", "q"}, record : {"r", "none"}]
    \cup [mode : {"off"}, decision : {"not_required", "approve"}, edited : BOOLEAN,
          original : {"none"}, final : {"p", "none"}, record : {"none"}]

Good(schema, approval, tested) ==
    [fits |-> TRUE, wellFormed |-> TRUE, schema |-> schema, approval |-> approval,
     version |-> "1.0", revision |-> "pinned", repository |-> "here",
     base |-> "base", head |-> tested, files |-> 0, tests |-> MaxTests,
     verified |-> TRUE, source |-> IF schema = "v1" THEN 1 ELSE 2]

NoApproval == [mode |-> "off", decision |-> "not_required", edited |-> FALSE,
               original |-> "none", final |-> "none", record |-> "none"]

MCHandoff ==
    {Good("v1", NoApproval, c) : c \in Commit}
    \cup {Good("v2", a, "work") : a \in Approval}
    \cup UNION {{[h EXCEPT !.fits = FALSE], [h EXCEPT !.wellFormed = FALSE],
                 [h EXCEPT !.schema = "v3"], [h EXCEPT !.version = "2.0"],
                 [h EXCEPT !.revision = "another"], [h EXCEPT !.repository = "fork"],
                 [h EXCEPT !.base = "work"], [h EXCEPT !.files = MaxChangedFiles + 1],
                 [h EXCEPT !.tests = 0], [h EXCEPT !.tests = MaxTests + 1],
                 [h EXCEPT !.verified = FALSE], [h EXCEPT !.source = 3 - @]} :
                    h \in {Good(s, NoApproval, "work") : s \in Schemas}}

MCPins == [revision : {"pinned"}, version : {"1.0", "none"}, schema : {"v2", "none"}]
=============================================================================
