-------------------------------- MODULE MCGate --------------------------------
(***************************************************************************)
(* Three families of tasks: one pattern in each role against every short   *)
(* path, with and without a rename; budgets; and checks, up to three.      *)
(***************************************************************************)
EXTENDS Gate

UpTo(S, n) == UNION {[1..k -> S] : k \in 0..n}

Dependencies == {"lock"}

Plain == [command |-> "gate", contract |-> <<>>, detected |-> <<>>,
          changes |-> <<>>, noChecks |-> FALSE,
          options |-> [parallel |-> TRUE, workers |-> 2, untrusted |-> FALSE],
          base |-> FALSE, dirty |-> TRUE, parent |-> TRUE, conflict |-> FALSE,
          errors |-> FALSE]

Open == [DefaultContract EXCEPT !.denied = {}, !.protected = {}, !.requireTests = FALSE]

Patterns == [tokens : UpTo({"a", "*", "**"}, 3), slash : BOOLEAN]
            \ {[tokens |-> <<>>, slash |-> FALSE]}

Change(path, previous, lines, binary) ==
    [path |-> path, previous |-> previous, lines |-> lines, binary |-> binary]

PathTasks ==
    {[Plain EXCEPT !.contract = c, !.changes = <<Change(path, previous, 1, FALSE)>>] :
        c \in UNION {{[Open EXCEPT !.allowed = {p}], [Open EXCEPT !.denied = {p}],
                      [Open EXCEPT !.protected = {p}]} : p \in Patterns},
        path \in UpTo({"a", "b"}, 3) \ {<<>>}, previous \in {<<>>, <<"b">>, <<"b", "a">>}}

BudgetTasks ==
    {[Plain EXCEPT !.contract = [Open EXCEPT !.maxFiles = f, !.maxLines = l, !.binary = b,
                                             !.dependencies = d, !.requireTests = r],
                   !.changes = ch, !.errors = e] :
        f \in 0..2, l \in 1..2, b \in BOOLEAN, d \in BOOLEAN, r \in BOOLEAN, e \in BOOLEAN,
        ch \in {<<>>, <<Change(<<"a">>, <<>>, 1, FALSE)>>, <<Change(<<"a">>, <<>>, 1, TRUE)>>,
                <<Change(<<"a">>, <<>>, 1, FALSE), Change(<<"b">>, <<>>, 1, FALSE)>>,
                <<Change(<<"a">>, <<>>, 2, FALSE), Change(<<"b">>, <<>>, 1, FALSE)>>,
                <<Change(<<"a", "lock">>, <<>>, 0, FALSE)>>,
                <<Change(<<"a">>, <<"lock">>, 0, FALSE)>>}}

Check(id, required, tool) == [id |-> id, required |-> required, tool |-> tool]

CheckTasks ==
    {[Plain EXCEPT !.command = k, !.contract = c, !.detected = s, !.noChecks = n,
                   !.base = b, !.dirty = d, !.parent = p, !.conflict = x,
                   !.changes = <<Change(<<"a">>, <<>>, 1, FALSE)>>] :
        k \in {"scan", "capture", "gate"},
        c \in {<<>>, DefaultContract,
               [DefaultContract EXCEPT !.checks = <<Check("t", TRUE, "outside")>>]},
        s \in {<<>>, <<Check("t", TRUE, "outside")>>},
        n \in BOOLEAN, b \in BOOLEAN, d \in BOOLEAN, p \in BOOLEAN, x \in BOOLEAN}

PoolTasks ==
    {[Plain EXCEPT !.contract = [Open EXCEPT !.checks = s], !.options = o] :
        s \in {<<Check("t", TRUE, "outside"), Check("u", FALSE, "outside")>>,
               <<Check("t", TRUE, "inside"), Check("u", TRUE, "outside")>>},
        o \in [parallel : BOOLEAN, workers : {1, 2}, untrusted : BOOLEAN]}
    \cup
    {[Plain EXCEPT !.contract = [Open EXCEPT !.checks =
        <<Check("t", TRUE, "outside"), Check("u", TRUE, "outside"), Check("v", FALSE, "outside")>>]]}

Tasks == PathTasks
         \cup BudgetTasks
         \cup {t \in CheckTasks : t.command = "scan" \/ t.contract # <<>>}
         \cup PoolTasks
=============================================================================
