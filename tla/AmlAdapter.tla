----------------------------- MODULE AmlAdapter -----------------------------
(***************************************************************************)
(* The AML adapter, services/aml_adapter.py over integrations/aml_store.py *)
(* and the AML points of integrations/qdrant_store.py, for one user.       *)
(*                                                                         *)
(* An add reserves its request id in a ledger, stores one evidence unit    *)
(* per message, indexes them and completes the ledger row: each is an      *)
(* await of its own, and the add may be cut off at any of them.  Clients   *)
(* repeat an add that failed, and may repeat one that is still running.    *)
(* A clear deletes units, ledger rows and points in three awaits.  A       *)
(* search reads units and points in two or three awaits.                   *)
(*                                                                         *)
(* Text is data: in which order a search ranks units, and which of them    *)
(* only a neighbour or a lexical channel finds, is left open.              *)
(***************************************************************************)
EXTENDS Naturals, SequencesExt

CONSTANTS
    Add,            \* add requests as clients send them
    Id,             \* their request ids
    Payload,        \* what _payload_hash tells apart
    None,
    IdOf, PayloadOf,    \* of each add
    Size,               \* messages of each payload
    RequireVector,      \* aml_require_vector_index
    Listed,         \* aml_max_user_units
    TopK,
    PerSession,     \* aml_session_max_items
    MaxTries,       \* bound on the attempts of all adds
    MaxClears       \* bound on the clears

AmlConstantsOK ==
    /\ None \notin Payload
    /\ IdOf \in [Add -> Id] /\ PayloadOf \in [Add -> Payload]
    /\ Size \in [Payload -> Nat \ {0}]     \* 1 .. 100 in schemas/aml.py
    /\ \E p \in Payload : \A q \in Payload : Size[q] <= Size[p]
    /\ TopK \in Nat

VARIABLES
    ledger,     \* aml_add_request: payload hash and status of each request id
    units,      \* aml_memory_unit: whose message is stored under each unit id
    points,     \* unit ids with a Qdrant point
    step,       \* where each add is
    next,       \* the message an add stores next
    tries, clears,
    clearing,   \* where the clear is
    searching,  \* where the search is
    byId,       \* the units a search has read
    hits,       \* the unit ids that vector search returned
    result,     \* ids in the order of the answer
    torn,       \* history: request ids with an add in progress beside a clear
    half,       \* history: a clear ended with the units gone and the rows left
    alive       \* history: units stored at some time since the search began

store  == <<ledger, units, points>>
adds   == <<step, next, tries>>
search == <<searching, byId, hits, result, alive>>
past   == <<torn, half>>
vars   == <<store, adds, clears, clearing, search, past>>

Largest   == CHOOSE n \in {Size[p] : p \in Payload} : \A p \in Payload : Size[p] <= n
Unit      == Id \X (1 .. Largest)
Free      == [payload |-> None, status |-> "none"]
Row       == [payload : Payload \cup {None}, status : {"none", "processing", "complete"}]
Running   == {"store", "index", "complete"}
Searching == searching \in {"vector", "hydrate", "rank"}
Stored    == {u \in Unit : units[u] # None}

\* _unit_id: the ids of an add's units, the same in every attempt.
UnitsOf(a) == {<<IdOf[a], n>> : n \in 1 .. Size[PayloadOf[a]]}

-----------------------------------------------------------------------------
(* add *)

\* Mutant of Accepts: a request id is taken for the payload it was used with.
AcceptsAny(row, a) == TRUE

Accepts(row, a) == row.payload = PayloadOf[a]

\* reserve_add_request inserts the row or returns the one there is.
Reserve(a) ==
    /\ step[a] = "start"
    /\ LET id  == IdOf[a]
           row == IF ledger[id].status = "none"
                  THEN [payload |-> PayloadOf[a], status |-> "processing"] ELSE ledger[id] IN
        /\ ledger' = [ledger EXCEPT ![id] = row]
        /\ step' = [step EXCEPT ![a] = IF ~Accepts(row, a) THEN "conflict"
                                       ELSE IF row.status = "complete" THEN "ok" ELSE "store"]
    /\ torn' = IF clearing = "idle" THEN torn ELSE torn \cup {IdOf[a]}
    /\ UNCHANGED <<units, points, next, tries, clears, clearing, search, half>>

Stores(a, u) == units' = [units EXCEPT ![u] = IF @ = None THEN PayloadOf[a] ELSE @]

\* upsert_units, one message at a time: $setOnInsert.
StoreUnit(a) ==
    /\ step[a] = "store"
    /\ Stores(a, <<IdOf[a], next[a]>>)
    /\ alive' = IF Searching THEN alive \cup {<<IdOf[a], next[a]>>} ELSE alive
    /\ IF next[a] = Size[PayloadOf[a]]
       THEN /\ step' = [step EXCEPT ![a] = "index"]
            /\ next' = [next EXCEPT ![a] = 1]
       ELSE /\ next' = [next EXCEPT ![a] = @ + 1]
            /\ UNCHANGED step
    /\ UNCHANGED <<ledger, points, tries, clears, clearing, searching, byId, hits, result, past>>

\* upsert_aml_memory_units, one batch.
IndexUnits(a) ==
    /\ step[a] = "index"
    /\ points' = points \cup UnitsOf(a)
    /\ step' = [step EXCEPT ![a] = "complete"]
    /\ UNCHANGED <<ledger, units, next, tries, clears, clearing, search, past>>

IndexFails(a) ==
    /\ step[a] = "index"
    /\ step' = [step EXCEPT ![a] = IF RequireVector THEN "failed" ELSE "complete"]
    /\ UNCHANGED <<store, next, tries, clears, clearing, search, past>>

\* complete_add_request; a row that a clear took away is a RuntimeError.
Complete(a) ==
    /\ step[a] = "complete"
    /\ IF ledger[IdOf[a]].payload = PayloadOf[a]
       THEN /\ ledger' = [ledger EXCEPT ![IdOf[a]].status = "complete"]
            /\ step' = [step EXCEPT ![a] = "ok"]
       ELSE /\ step' = [step EXCEPT ![a] = "failed"]
            /\ UNCHANGED ledger
    /\ UNCHANGED <<units, points, next, tries, clears, clearing, search, past>>

\* An error of Mongo or of a required LLM, or the end of the process.
Fail(a) ==
    /\ step[a] \in Running
    /\ step' = [step EXCEPT ![a] = "failed"]
    /\ next' = [next EXCEPT ![a] = 1]
    /\ UNCHANGED <<store, tries, clears, clearing, search, past>>

\* The client sends the add, or sends it again.
Send(a) ==
    /\ step[a] \in {"idle", "failed"} /\ tries < MaxTries
    /\ step' = [step EXCEPT ![a] = "start"]
    /\ tries' = tries + 1
    /\ UNCHANGED <<store, next, clears, clearing, search, past>>

-----------------------------------------------------------------------------
(* clear: delete_user_data and delete_aml_memory_for_user *)

ClearUnits ==
    /\ clearing = "idle" /\ clears < MaxClears
    /\ clears' = clears + 1
    /\ units' = [u \in Unit |-> None]
    /\ clearing' = "rows"
    /\ torn' = torn \cup {IdOf[a] : a \in {b \in Add : step[b] \in Running}}
    /\ UNCHANGED <<ledger, points, adds, search, half>>

ClearRows ==
    /\ clearing = "rows"
    /\ ledger' = [i \in Id |-> Free]
    /\ clearing' = "points"
    /\ UNCHANGED <<units, points, adds, clears, search, past>>

ClearPoints ==
    /\ clearing = "points"
    /\ points' = {}
    /\ clearing' = "idle"
    /\ UNCHANGED <<ledger, units, adds, clears, search, past>>

\* Cut off, or Qdrant does not answer.
ClearFails ==
    /\ clearing # "idle"
    /\ clearing' = "idle"
    /\ half' = (half \/ clearing = "rows")
    /\ UNCHANGED <<store, adds, clears, search, torn>>

-----------------------------------------------------------------------------
(* search *)

\* list_units_for_user.
SearchList ==
    /\ searching \in {"idle", "done"}
    /\ \E S \in SUBSET Stored :
        /\ Cardinality(S) = IF Cardinality(Stored) < Listed THEN Cardinality(Stored) ELSE Listed
        /\ byId' = S
    /\ alive' = Stored
    /\ hits' = {} /\ result' = <<>>
    /\ searching' = "vector"
    /\ UNCHANGED <<store, adds, clears, clearing, past>>

\* One or two vector searches; one that fails returns nothing.
SearchVectors ==
    /\ searching = "vector"
    /\ \E H \in SUBSET points : hits' = H
    /\ searching' = "hydrate"
    /\ UNCHANGED <<store, adds, clears, clearing, byId, result, alive, past>>

\* Mutant of Hydrate: a hit is taken for a stored unit.
HydrateTrusts ==
    /\ searching = "hydrate"
    /\ byId' = byId \cup hits
    /\ searching' = "rank"
    /\ UNCHANGED <<store, adds, clears, clearing, hits, result, alive, past>>

\* list_units_by_ids for the hits that are not listed.
Hydrate ==
    /\ searching = "hydrate"
    /\ byId' = byId \cup (hits \cap Stored)
    /\ searching' = "rank"
    /\ UNCHANGED <<store, adds, clears, clearing, hits, result, alive, past>>

Orders(S) == {q \in [1 .. Cardinality(S) -> S] : ToSet(q) = S}

\* _diversify_by_session.
Early(q, i) == Cardinality({j \in 1 .. i - 1 : q[j][1] = q[i][1]}) < PerSession

Picked(q, P) == [k \in 1 .. Cardinality(P) |->
    q[CHOOSE i \in P : Cardinality({j \in P : j <= i}) = k]]

Diversified(q) ==
    LET first == {i \in DOMAIN q : Early(q, i)} IN
    Picked(q, first) \o Picked(q, DOMAIN q \ first)

\* _rerank_candidates: the ids the model names, each once, then the rest by score.
Reranked(q, p) == p \o Picked(q, {i \in DOMAIN q : q[i] \notin ToSet(p)})

\* Every channel ranks units of byId; the ranks are fused, neighbours are added.
Rank ==
    /\ searching = "rank"
    /\ \E S \in SUBSET byId :
        /\ hits \cap byId \subseteq S
        /\ \E q \in Orders(S), P \in SUBSET S :
            \E p \in Orders(P) :
                LET full == IF P = {} THEN Diversified(q) ELSE Reranked(q, p) IN
                result' = SubSeq(full, 1, IF Len(full) < TopK THEN Len(full) ELSE TopK)
    /\ byId' = {} /\ hits' = {}
    /\ searching' = "done"
    /\ UNCHANGED <<store, adds, clears, clearing, alive, past>>

Init ==
    /\ ledger = [i \in Id |-> Free]
    /\ units = [u \in Unit |-> None]
    /\ points = {}
    /\ step = [a \in Add |-> "idle"] /\ next = [a \in Add |-> 1]
    /\ tries = 0 /\ clears = 0
    /\ clearing = "idle" /\ searching = "idle"
    /\ byId = {} /\ hits = {} /\ result = <<>>
    /\ torn = {} /\ half = FALSE /\ alive = {}

AddStep(a) ==
    \/ Send(a) \/ Reserve(a) \/ StoreUnit(a) \/ IndexUnits(a) \/ IndexFails(a)
    \/ Complete(a) \/ Fail(a)

Next ==
    \/ \E a \in Add : AddStep(a)
    \/ ClearUnits \/ ClearRows \/ ClearPoints \/ ClearFails
    \/ SearchList \/ SearchVectors \/ Hydrate \/ Rank

Spec == Init /\ [][Next]_vars

-----------------------------------------------------------------------------
(* Properties *)

\* Every variable stays in its domain.
TypeOK ==
    /\ ledger \in [Id -> Row]
    /\ units \in [Unit -> Payload \cup {None}] /\ points \subseteq Unit
    /\ step \in [Add -> {"idle", "start", "ok", "conflict", "failed"} \cup Running]
    /\ next \in [Add -> Nat] /\ tries \in Nat /\ clears \in Nat
    /\ clearing \in {"idle", "rows", "points"}
    /\ searching \in {"idle", "vector", "hydrate", "rank", "done"}
    /\ byId \subseteq Unit /\ hits \subseteq Unit
    /\ torn \subseteq Id /\ half \in BOOLEAN /\ alive \subseteq Unit

StoredWhole(a) == \A u \in UnitsOf(a) : units[u] = PayloadOf[a]

\* "Every message is persisted before success is returned": whichever attempt of an
\* add answers, first, repeated or beside another one, all its messages are stored
\* as its own, provided no clear overlapped an add of that request id or was left
\* half done.
AckedStep ==
    \A a \in Add :
        step[a] # "ok" /\ step'[a] = "ok" /\ IdOf[a] \notin torn' /\ ~half =>
            StoredWhole(a)

AckedIsStored == [][AckedStep]_vars

\* What a search returns was stored while it ran, although points outlive their
\* units in a clear; no unit twice, and at most top_k.
SearchServesStored ==
    /\ ToSet(result) \subseteq alive
    /\ Cardinality(ToSet(result)) = Len(result) /\ Len(result) <= TopK
=============================================================================
