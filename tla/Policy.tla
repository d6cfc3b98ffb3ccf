-------------------------------- MODULE Policy --------------------------------
(***************************************************************************)
(* evaluate_policy (policy.py): what a contract has to say about a set of  *)
(* changes and the results of its checks.                                  *)
(*                                                                         *)
(* A path is the sequence of its segments.  A pattern is the sequence of   *)
(* its tokens and whether it ends with a slash, after the normalisation    *)
(* that turns backslashes into slashes and strips leading "./"; a token is *)
(* a segment, "*" or "**".  A finding is its rule and what it is about.    *)
(***************************************************************************)
EXTENDS Integers, Sequences, FiniteSets

CONSTANT DependencyFile   \* the names in DEPENDENCY_FILES

Path    == Seq(STRING) \ {<<>>}
Pattern == [tokens : Seq(STRING), slash : BOOLEAN]

Wild == {"*", "**"}
Literal(tokens) == \A i \in DOMAIN tokens : tokens[i] \notin Wild

\* fnmatchcase of one segment.
Fits(segment, token) == token \in {segment, "*"}

(***************************************************************************)
(* _glob_match.  After k tokens, ends[k] holds the numbers of segments     *)
(* that these tokens match.                                                *)
(***************************************************************************)
\* Mutant: "**" spans one or more segments.
Spanned_Some(ends, path) == {i \in 0..Len(path) : \E j \in ends : j < i}

Spanned(ends, path) == {i \in 0..Len(path) : \E j \in ends : j <= i}

Stepped(ends, path, token) ==
    {i \in 1..Len(path) : i - 1 \in ends /\ Fits(path[i], token)}

Ends(path, tokens) ==
    LET ends[k \in 0..Len(tokens)] ==
            IF k = 0 THEN {0}
            ELSE IF tokens[k] = "**" THEN Spanned(ends[k - 1], path)
            ELSE Stepped(ends[k - 1], path, tokens[k])
    IN ends

GlobMatch(path, tokens) == Len(path) \in Ends(path, tokens)[Len(tokens)]

(***************************************************************************)
(* _matches: patterns for everything, directories, exact paths and globs.  *)
(***************************************************************************)
Everything(p) == ~p.slash /\ p.tokens \in {<<"*">>, <<"**">>, <<"**", "*">>}

\* Ends with "/**" or "/".
Directory(p) == p.slash \/ (Len(p.tokens) > 1 /\ p.tokens[Len(p.tokens)] = "**")
Prefix(p)    == IF p.slash THEN p.tokens ELSE SubSeq(p.tokens, 1, Len(p.tokens) - 1)

\* path == prefix or path.startswith(prefix + "/")
Below(path, prefix) ==
    Len(prefix) <= Len(path) /\ SubSeq(path, 1, Len(prefix)) = prefix

Matches(path, p) ==
    \/ Everything(p)
    \/ /\ p.tokens = <<>> /\ p.slash
    \/ /\ ~Everything(p) /\ p.tokens # <<>>
       /\ LET stem == Prefix(p) IN
          IF Directory(p)
          THEN IF Literal(stem) THEN Below(path, stem)
               ELSE GlobMatch(path, Append(stem, "**"))
          ELSE IF Literal(p.tokens) THEN Below(path, p.tokens)
               ELSE GlobMatch(path, p.tokens)

MatchesAny(path, patterns) == \E p \in patterns : Matches(path, p)

-----------------------------------------------------------------------------
Subtree(path) == [tokens |-> Append(path, "**"), slash |-> FALSE]

CheckSpec  == [id : STRING, required : BOOLEAN, tool : STRING]
FileChange == [path : Path, previous : Path \cup {<<>>}, lines : Nat, binary : BOOLEAN]
Contract ==
    [allowed : SUBSET Pattern, denied : SUBSET Pattern, protected : SUBSET Pattern,
     maxFiles : Nat, maxLines : Nat, binary : BOOLEAN, dependencies : BOOLEAN,
     requireTests : BOOLEAN, checks : Seq(CheckSpec)]

\* No two checks have one id.
Distinct(checkSpecs) ==
    \A i, j \in DOMAIN checkSpecs : checkSpecs[i].id = checkSpecs[j].id => i = j

\* The defaults of a Contract.
DefaultContract ==
    [allowed |-> {Subtree(<<>>)},
     denied |-> {Subtree(<<".git">>), Subtree(<<".patchwitness", "evidence">>)},
     protected |-> {Subtree(<<".github", "workflows">>),
                    Subtree(<<".patchwitness", "contracts">>),
                    [tokens |-> <<".patchwitness.toml">>, slash |-> FALSE]},
     maxFiles |-> 50, maxLines |-> 2000, binary |-> FALSE, dependencies |-> FALSE,
     requireTests |-> TRUE, checks |-> <<>>]

Finding(rule, about) == [rule |-> rule, about |-> about]

\* A rename concerns both its paths.
PolicyPaths(change) == {change.path} \cup ({change.previous} \ {<<>>})

Rule(rule, about, broken) == IF broken THEN {Finding(rule, about)} ELSE {}

PathFindings(contract, path) ==
    Rule("PW001", path, MatchesAny(path, contract.denied))
    \cup Rule("PW002", path, contract.allowed # {} /\ ~MatchesAny(path, contract.allowed))
    \cup Rule("PW003", path, MatchesAny(path, contract.protected))
    \cup Rule("PW005", path, ~contract.dependencies /\ path[Len(path)] \in DependencyFile)

ChangeFindings(contract, change) ==
    (UNION {PathFindings(contract, path) : path \in PolicyPaths(change)})
    \cup Rule("PW004", change.path, change.binary /\ ~contract.binary)

Lines(changes) ==
    LET sum[k \in 0..Len(changes)] == IF k = 0 THEN 0 ELSE sum[k - 1] + changes[k].lines
    IN sum[Len(changes)]

BudgetFindings(contract, changes) ==
    Rule("PW010", <<>>, Len(changes) > contract.maxFiles)
    \cup Rule("PW011", <<>>, Lines(changes) > contract.maxLines)

\* CheckResult.passed
Passed(result) == ~result.timed /\ result.exit = "0"

CheckFindings(contract, results) ==
    LET Of(spec) == {k \in DOMAIN results : results[k].id = spec.id} IN
    UNION {LET spec == contract.checks[i] IN
           Rule("PW020", <<spec.id>>, spec.required /\ Of(spec) = {})
           \cup Rule("PW021", <<spec.id>>,
                     spec.required /\ \E k \in Of(spec) : ~Passed(results[k])) :
           i \in DOMAIN contract.checks}

\* All of them are errors.
PolicyFindings(contract, changes, results) ==
    (UNION {ChangeFindings(contract, changes[k]) : k \in DOMAIN changes})
    \cup BudgetFindings(contract, changes)
    \cup CheckFindings(contract, results)
    \cup Rule("PW022", <<>>, contract.requireTests /\ contract.checks = <<>>)

-----------------------------------------------------------------------------
(***************************************************************************)
(* What the docstring of _matches says of a pattern, without rows: its     *)
(* tokens can be laid over the path, or over a directory above it when the *)
(* pattern is a directory or literal.                                      *)
(***************************************************************************)
LaidOver(path, tokens) ==
    \E end \in [0..Len(tokens) -> 0..Len(path)] :
        /\ end[0] = 0 /\ end[Len(tokens)] = Len(path)
        /\ \A i \in 1..Len(tokens) :
              IF tokens[i] = "**" THEN end[i - 1] <= end[i]
              ELSE end[i] = end[i - 1] + 1 /\ Fits(path[end[i]], tokens[i])

Covers(p, path) ==
    \/ p.tokens = <<"*">> /\ ~p.slash
    \/ /\ p.tokens # <<>> \/ p.slash
       /\ LET tree == Directory(p) \/ Literal(p.tokens)
              stem == IF Directory(p) THEN Prefix(p) ELSE p.tokens
          IN \E n \in 0..Len(path) :
                (n = Len(path) \/ tree) /\ LaidOver(SubSeq(path, 1, n), stem)
=============================================================================
