------------------------------ MODULE GitReaders ------------------------------
(***************************************************************************)
(* The two clients of `git cat-file --batch`: the hashes of a capture, and *)
(* the sources of a safe delivery.  A behavior has one of them.            *)
(***************************************************************************)
EXTENDS BatchGit, SourceGit

CONSTANTS Object,     \* the objects requests may be for: [kind, size]
          MaxObjects, \* bound of the model: requests
          Division    \* how the sources are divided into pins

\* There is a pin, and a request is a number.
ASSUME RequestAssumption ==
    /\ Object \subseteq [kind : {"blob", "tree", "missing", "submodule"}, size : Nat]
    /\ MaxObjects \in Nat
    /\ Division \subseteq Seq(Seq(Nat)) \ {<<>>}

VARIABLE client       \* "batch" or "sources"

vars == <<client, objects, gitVars, batchVars, sourceVars>>

Init ==
    /\ NoGit
    /\ \/ /\ client = "batch"
          /\ objects \in UNION {[1..n -> Object] : n \in 1..MaxObjects}
          /\ BatchInit /\ SourceIdle
       \/ /\ client = "sources"
          /\ \E division \in Division :
                /\ objects \in [UNION {{p[k] : k \in DOMAIN p} :
                                       p \in {division[n] : n \in DOMAIN division}} -> Object]
                /\ SourceInit(division)
          /\ BatchIdle

Finished == pc \in {"returned", "raised"} \/ step \in {"returned", "raised"}

\* The wait of the hashes for a reply has no deadline.
Hangs == git = "stalled" /\ pc \in {"ask", "header", "body"}

Next ==
    \/ BatchNext /\ UNCHANGED <<client, sourceVars>>
    \/ SourceNext /\ UNCHANGED <<client, batchVars>>
    \/ (GitWorks \/ GitFails) /\ UNCHANGED <<client, batchVars, sourceVars>>
    \/ (Finished \/ Hangs) /\ UNCHANGED vars

(***************************************************************************)
(* Git is scheduled and so are the threads; a deadline comes at the latest *)
(* when Git stalls.  Nothing obliges Git to fail or not to.                *)
(***************************************************************************)
Spec ==
    /\ Init /\ [][Next]_vars
    /\ WF_vars(BatchStep /\ UNCHANGED <<client, sourceVars>>)
    /\ WF_vars(SourceStep /\ UNCHANGED <<client, batchVars>>)
    /\ WF_vars(GitWorks /\ UNCHANGED <<client, batchVars, sourceVars>>)
    /\ WF_vars(git = "stalled" /\ WaitTimesOut /\ UNCHANGED <<client, sourceVars>>)
    /\ WF_vars(git = "stalled" /\ Deadline /\ UNCHANGED <<client, batchVars>>)
-----------------------------------------------------------------------------
Bodies(i) == [n \in 1..objects[i].size |-> Unit("body", i)]

(***************************************************************************)
(* Every path gets the hash of its own blob, whatever precedes it in the   *)
(* list (git.py:425-427), and every file of a materialised source is the   *)
(* one that was listed; an error means that something outside the code     *)
(* went wrong.                                                             *)
(***************************************************************************)
AnswersAreTheirs ==
    /\ pc = "returned" =>
          \A i \in DOMAIN objects :
              output[i] = IF objects[i].kind = "blob" THEN Hash(Bodies(i)) ELSE NoBlob
    /\ step = "returned" =>
          /\ files = DOMAIN objects
          /\ \A i \in files : objects[i] = [kind |-> "blob", size |-> claimed[i]]
    /\ pc = "raised" => trouble
    /\ step = "raised" =>
          trouble \/ \E i \in DOMAIN objects :
                        objects[i] # [kind |-> "blob", size |-> claimed[i]]

(***************************************************************************)
(* Neither client leaves anything behind: the Git process is gone and was  *)
(* waited for, and sources that could not all be materialised leave not    *)
(* one file (git.py:430-437, safe_delivery_sources.py:391-397).            *)
(***************************************************************************)
NothingLeftBehind ==
    /\ Finished => Gone /\ reaped
    /\ step = "raised" => ~staged /\ files = {}

(***************************************************************************)
(* The call ends, though either pipe may fill up: requests and replies are *)
(* alternated, or handled by two threads (git.py:393-394,                  *)
(* safe_delivery_sources.py:91).  The only wait without a deadline is that *)
(* of the hashes for the reply of a Git that stalls.                       *)
(***************************************************************************)
CallEnds == <>(Finished \/ Hangs)
=============================================================================
