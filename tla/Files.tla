------------------------------- MODULE Files -------------------------------
(***************************************************************************)
(* The two protocols on files shared by processes: the output file of      *)
(* captures and passports, and the impact cache.  They share nothing, so a *)
(* behavior has one of them.                                               *)
(***************************************************************************)
EXTENDS OutputFile, Impact

vars == <<outputVars, impactVars>>

Init ==
    /\ ImpactInit
    /\ IF mode = "output" THEN OutputInit ELSE OutputIdle

Next ==
    \/ OutputNext /\ UNCHANGED impactVars
    \/ ImpactNext /\ UNCHANGED outputVars

Spec == Init /\ [][Next]_vars
=============================================================================
