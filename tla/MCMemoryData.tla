---------------------------- MODULE MCMemoryData ----------------------------
(***************************************************************************)
(* Small instances of MemoryData.                                          *)
(***************************************************************************)
EXTENDS MemoryData, FiniteSets, TLC

Symmetry == Permutations(Write)

\* A Temporal append, an append from the API, a merge and an overwrite.
FewJobs ==
    [doc : Doc, how : {"APPEND"}, by : {"temporal", "update"}] \cup
    [doc : Doc, how : {"MERGE", "OVERWRITE"}, by : {"create"}]

AllJobs == Job

\* Bounds: the attempts, deletes and wipes that start, and how many end early.
FewActors  == Cardinality({a \in Actor \ Edit : pc'[a] # "idle"}) <= 3
FewCrashes == Cardinality({a \in Actor : pc'[a] = "crashed"}) <= 1

RaceSpec == Init /\ [][Next /\ FewActors /\ FewCrashes]_vars

\* Requests come one at a time, nothing fails, and every change of a row is
\* queued and handed to Qdrant.
Undisturbed ==
    /\ raced' = {}
    /\ adrift' = adrift \/ \E u \in Wipe : pc[u] = "idle" /\ pc'[u] # "idle"
    /\ \A a \in Actor : pc'[a] # "crashed"

CalmSpec == Init /\ [][Next /\ Undisturbed]_vars
=============================================================================
