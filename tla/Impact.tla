------------------------------- MODULE Impact -------------------------------
(***************************************************************************)
(* impact.py: analyze_impact by several captures of one checkout, while    *)
(* sources are edited.  Each call stats the sources one by one for its     *)
(* fingerprint, uses the cached graph of that fingerprint or reads the     *)
(* sources one by one and writes the cache through one shared temporary    *)
(* name, and searches the reversed graph from the changed sources.         *)
(*                                                                         *)
(* Sources are 1..N in the order of os.walk.  A version of a source is one *)
(* of its contents; its stamp is what _fingerprint learns of it: size and  *)
(* modification time, or nothing where stat fails.  Two versions may have  *)
(* one stamp.  The graph a call holds is, per source, the version its      *)
(* imports were read from; the list of a source that could not be read is  *)
(* empty.                                                                  *)
(***************************************************************************)
EXTENDS Integers, FiniteSets, Sequences

CONSTANTS
    Call,       \* calls of analyze_impact
    N,          \* number of sources
    NCached,    \* number of sources where the cache is used
    MaxDepth,   \* max_depth
    Changes,    \* the sets of changed sources to search from
    MaxEdits    \* bound of the model: edits of sources

ASSUME ImpactAssumption ==
    /\ Call # {} /\ N \in Nat /\ NCached \in 1..N /\ MaxDepth \in Nat \ {0}
    /\ Changes \subseteq SUBSET (1..N) /\ MaxEdits \in Nat

Source    == 1..N
Searching == CHOOSE c \in Call : TRUE

VARIABLES
    version,     \* of each source
    stamp,       \* of each source, named after the first version that had it
    alike,       \* sources of which a stamp came back with another version
    began,       \* per call, the versions when it began
    step,        \* per call, where it is
    prints,      \* per call, the stamps stat has told so far
    graph,       \* per call, the versions its graph comes from, so far
    blank,       \* per call, the sources whose list is empty as they were unread
    failed,      \* reads that failed, as <<source, version>>
    tmp, cache,  \* the file each of the two paths names, "none" if absent
    file,        \* per call, the content of the file it created
    handle,      \* per call, the file it has open
    mode,        \* "cache": calls with the cache; "search": one without it;
                 \* "output": none
    imports,     \* the sources each source imports
    changed,     \* the changed sources
    todo, queue, direct, transitive, visited   \* of the search

edited     == <<version, stamp, alike>>
read       == <<graph, blank, failed>>
cacheVars  == <<edited, began, prints, read, tmp, cache, file, handle>>
given      == <<mode, imports, changed>>
searchVars == <<todo, queue, direct, transitive, visited>>
impactVars == <<cacheVars, step, given, searchVars>>

Empty   == <<>>
Garbled == <<"garbled">>

LastSource == IF mode = "search" THEN N ELSE NCached

\* Calls that use the cache, for which the search does not matter; or one
\* call without the cache, on any graph.
ImpactInit ==
    /\ \/ mode \in {"cache", "output"} /\ imports = <<>> /\ changed = {}
       \/ /\ mode = "search" /\ changed \in Changes
          /\ imports \in [Source -> SUBSET Source]
          /\ \A s \in Source : s \notin imports[s]
    /\ version = [s \in 1..LastSource |-> 0] /\ began = [c \in Call |-> version]
    /\ stamp = version /\ alike = {}
    /\ step = [c \in Call |-> IF mode = "cache" \/ (mode = "search" /\ c = Searching)
                             THEN "fingerprint" ELSE "done"]
    /\ prints = [c \in Call |-> <<>>] /\ graph = [c \in Call |-> <<>>]
    /\ blank = [c \in Call |-> {}] /\ failed = {}
    /\ tmp = "none" /\ cache = "none"
    /\ file = [c \in Call |-> Empty] /\ handle = [c \in Call |-> "none"]
    /\ todo = changed /\ queue = <<>>
    /\ direct = {} /\ transitive = {} /\ visited = changed

-----------------------------------------------------------------------------
\* External: a source is edited, removed or put back.  Its stamp is new, or one
\* that it had: a write within one tick of the clock, or restored times.
Edit(s) ==
    /\ mode = "cache" /\ \E c \in Call : step[c] # "done"
    /\ version[s] < MaxEdits
    /\ version' = [version EXCEPT ![s] = @ + 1]
    /\ \E mark \in 0..version'[s] :
          /\ stamp' = [stamp EXCEPT ![s] = mark]
          /\ alike' = IF mark = version'[s] THEN alike ELSE alike \cup {s}
    /\ UNCHANGED <<began, step, prints, read, tmp, cache, file, handle, given, searchVars>>

\* _fingerprint: the next source is looked at.
Fingerprint(c) ==
    /\ step[c] = "fingerprint"
    /\ LET s == Len(prints[c]) + 1 IN
       /\ prints' = [prints EXCEPT ![c] = Append(@, stamp[s])]
       /\ began' = IF s = 1 THEN [began EXCEPT ![c] = version] ELSE began
       /\ step' = [step EXCEPT ![c] = IF s < LastSource THEN @
                                      ELSE IF mode = "cache" THEN "lookup" ELSE "build"]
    /\ UNCHANGED <<edited, read, tmp, cache, file, handle, given, searchVars>>

\* Mutant: any cached graph will do.
Hit_Any(entry, print) == entry \notin {Empty, Garbled}

\* The cached entry is readable and of this fingerprint.
Hit(entry, print) == entry \notin {Empty, Garbled} /\ entry[1] = print

LookUp(c) ==
    /\ step[c] = "lookup"
    /\ IF cache # "none" /\ Hit(file[cache], prints[c])
       THEN /\ graph' = [graph EXCEPT ![c] = file[cache][2]]
            /\ blank' = [blank EXCEPT ![c] = file[cache][3]]
            /\ step' = [step EXCEPT ![c] = "done"]
       ELSE step' = [step EXCEPT ![c] = "build"] /\ UNCHANGED <<graph, blank>>
    /\ UNCHANGED <<edited, failed, began, prints, tmp, cache, file, handle, given, searchVars>>

\* _build_graph: the next source is read, or an OSError leaves its list empty.
Build(c) ==
    /\ step[c] = "build"
    /\ LET s == Len(graph[c]) + 1 IN
       /\ graph' = [graph EXCEPT ![c] = Append(@, version[s])]
       /\ \/ UNCHANGED <<blank, failed>>
          \/ /\ mode = "cache"
             /\ blank' = [blank EXCEPT ![c] = @ \cup {s}]
             /\ failed' = failed \cup {<<s, version[s]>>}
       /\ step' = [step EXCEPT ![c] = IF s < LastSource THEN @
                                      ELSE IF mode = "cache" THEN "create" ELSE "seed"]
    /\ UNCHANGED <<edited, began, prints, tmp, cache, file, handle, given, searchVars>>

\* write_text opens the shared name: it makes the file or empties the one there.
OpenShared(c) ==
    /\ step[c] = "create"
    /\ LET f == IF tmp = "none" THEN c ELSE tmp IN
       /\ tmp' = f
       /\ handle' = [handle EXCEPT ![c] = f]
       /\ file' = [file EXCEPT ![f] = Empty]
    /\ step' = [step EXCEPT ![c] = "write"]
    /\ UNCHANGED <<edited, began, prints, read, cache, given, searchVars>>

\* The file may have been written since it was emptied: a shorter text leaves
\* the end of the longer one behind.
WriteShared(c) ==
    /\ step[c] = "write"
    /\ \E text \in {<<prints[c], graph[c], blank[c]>>}
                    \cup (IF file[handle[c]] = Empty THEN {} ELSE {Garbled}) :
          file' = [file EXCEPT ![handle[c]] = text]
    /\ step' = [step EXCEPT ![c] = "rename"]
    /\ UNCHANGED <<edited, began, prints, read, tmp, cache, handle, given, searchVars>>

\* os.replace; the shared name may be gone, which is swallowed.
RenameShared(c) ==
    /\ step[c] = "rename"
    /\ cache' = (IF tmp = "none" THEN cache ELSE tmp)
    /\ tmp' = "none"
    /\ step' = [step EXCEPT ![c] = "done"]
    /\ UNCHANGED <<edited, began, prints, read, file, handle, given, searchVars>>

\* Any other OSError while the cache is written is swallowed as well.
CacheFails(c) ==
    /\ step[c] \in {"create", "write", "rename"}
    /\ step' = [step EXCEPT ![c] = "done"]
    /\ UNCHANGED <<cacheVars, given, searchVars>>

-----------------------------------------------------------------------------
Dependents(s) == {d \in Source : s \in imports[d]}

\* The ways to iterate over a set.
Orders(S) ==
    {order \in [1..Cardinality(S) -> S] : \A s \in S : \E k \in DOMAIN order : order[k] = s}

AtDepth(order, depth) == [k \in DOMAIN order |-> <<order[k], depth>>]

\* The dependents of one changed source start the search, in any order.
Seed(c) ==
    /\ step[c] = "seed"
    /\ IF todo = {}
       THEN step' = [step EXCEPT ![c] = "visit"] /\ UNCHANGED searchVars
       ELSE LET s == CHOOSE t \in todo : \A r \in todo : t <= r IN
            \E order \in Orders(Dependents(s)) :
              /\ todo' = todo \ {s}
              /\ direct' = direct \cup Dependents(s)
              /\ visited' = visited \cup Dependents(s)
              /\ queue' = queue \o AtDepth(order, 1)
              /\ UNCHANGED <<step, transitive>>
    /\ UNCHANGED <<cacheVars, given>>

\* Mutant: one level too many.
Expands_OneMore(depth) == depth <= MaxDepth

Expands(depth) == depth < MaxDepth

Visit(c) ==
    /\ step[c] = "visit" /\ queue # <<>>
    /\ LET depth == queue[1][2]
           found == IF Expands(depth) THEN Dependents(queue[1][1]) \ visited ELSE {}
       IN \E order \in Orders(found) :
            /\ visited' = visited \cup found
            /\ transitive' = transitive \cup found
            /\ queue' = Tail(queue) \o AtDepth(order, depth + 1)
    /\ UNCHANGED <<cacheVars, step, given, todo, direct>>

Found(c) ==
    /\ step[c] = "visit" /\ queue = <<>>
    /\ step' = [step EXCEPT ![c] = "done"]
    /\ UNCHANGED <<cacheVars, given, searchVars>>

ImpactNext ==
    \/ \E s \in 1..LastSource : Edit(s)
    \/ \E c \in Call :
          \/ Fingerprint(c) \/ LookUp(c) \/ Build(c) \/ OpenShared(c)
          \/ WriteShared(c) \/ RenameShared(c) \/ CacheFails(c)
          \/ Seed(c) \/ Visit(c) \/ Found(c)

-----------------------------------------------------------------------------
(***************************************************************************)
(* The graph a call works with is current, from the cache or not: what it  *)
(* says of a source is from a version the source had at some moment of     *)
(* this very call, or nothing if that very version could not be read once, *)
(* whoever wrote the cache entry, and however the shared temporary file    *)
(* was overwritten (impact.py:44-57, 149-155, 245-260).  Excepted are the  *)
(* sources of which size and modification time once came back with other   *)
(* contents: they are the key of the cache.                                *)
(***************************************************************************)
GraphIsCurrent ==
    \A c \in Call : step[c] = "done" /\ graph[c] # <<>> =>
        \A s \in 1..LastSource :
            /\ s \in alike \/ graph[c][s] \in began[c][s]..version[s]
            /\ s \in blank[c] => <<s, graph[c][s]>> \in failed

\* Sources from which a changed one is reached by at most k imports.
Within[k \in 0..MaxDepth] ==
    IF k = 0 THEN changed
    ELSE Within[k - 1] \cup UNION {Dependents(s) : s \in Within[k - 1]}

(***************************************************************************)
(* The search finds exactly the sources within max_depth imports of a      *)
(* changed one, each only as near as it is, in whatever order sets are     *)
(* iterated and although changed sources import each other                 *)
(* (impact.py:69-88).                                                      *)
(***************************************************************************)
ImpactIsExact ==
    mode = "search" /\ step[Searching] = "done" =>
        /\ (direct \cup transitive) \ changed = Within[MaxDepth] \ changed
        /\ direct = UNION {Dependents(s) : s \in changed}
        /\ direct \cap transitive = {}
=============================================================================
