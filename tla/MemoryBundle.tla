---------------------------- MODULE MemoryBundle ----------------------------
(***************************************************************************)
(* Retrieval and use of V2 memory: services/memory_v2_retrieve.py with the *)
(* policy filter of services/memory_policy.py, over the claims that the    *)
(* claim engine keeps changing meanwhile.                                  *)
(*                                                                         *)
(* A retrieve reads the claims of one user and namespace several times,    *)
(* one await per read, filters what each read returned, ranks it, and      *)
(* stores a bundle.  A call takes a stored bundle, reads the claims again, *)
(* and hands the bundle's items to the prompt if all of them still pass.   *)
(*                                                                         *)
(* Scores, texts and query patterns are data: which claims a recall path   *)
(* matches, in which order they rank and which of them reach their minimum *)
(* score is left open.  What a claim's text has to do with the request     *)
(* (its relation to current_context, its signature, its evidence group,    *)
(* its length) is a constant of the claim.                                 *)
(***************************************************************************)
EXTENDS Integers, SequencesExt

CONSTANTS
    Request,        \* the requests considered, see Requests
    Claim,
    Initial,        \* the claims there are at first, newest first
    Identity,       \* the identity each claim belongs to
    Relation,       \* of each claim to the current_context of a request
    Signature,      \* dimension, claim_type and value of each claim
    Group,          \* meeting or source each claim's evidence comes from
    Tokens,         \* _estimate_tokens of each claim's text
    NoLLM,          \* claims whose access_policy has allow_llm = False
    Sensitive,      \* claims that need memory:retrieve:sensitive
    TopK, ProfileMax, ExpandedMax,  \* top_k and the limits on increments
    MaxTokens,
    PerGroup,       \* memory_retrieve_session_max_items
    AggregationRerank,  \* memory_retrieve_aggregation_rerank_enabled
    CandidateLimit, \* of the first read of a retrieve
    CallLimit,      \* of the read of a call, 200 in the code
    MaxChanges      \* bound on the changes of claims

VARIABLES
    status,     \* what a read sees of each claim
    recent,     \* the claims by updated_at, newest first
    changes,    \* how many changes there were
    granted,    \* the sensitive permission, which may be withdrawn
    pc,         \* where the retrieve or the call is
    req,        \* the request, its profile applied
    found,      \* candidates so far
    dropped,    \* left out by composition, by relation
    facet,      \* the query facets that hit each claim
    ranked,     \* candidates in order
    sent,       \* claims whose text went to an LLM
    bundle,     \* the stored bundle
    caller,     \* permissions and use of the call
    live        \* history: claims that were usable since the request began

world  == <<status, recent, changes, granted>>
locals == <<found, dropped, facet, ranked, sent>>
vars   == <<world, pc, req, locals, bundle, caller, live>>

Statuses  == {"absent", "current", "expired", "past", "gone"}
NoDrops   == [duplicate |-> {}, conflict |-> {}, redundant |-> {}]
NoFacets  == [c \in Claim |-> {}]
NoBundle  == [items |-> <<>>, open |-> FALSE]
NoCaller  == [llm |-> FALSE, history |-> FALSE, sensitive |-> FALSE]
NoRequest ==
    [method |-> "EXACT", llm |-> FALSE, history |-> FALSE, compose |-> FALSE,
     aggregate |-> FALSE, facets |-> 1, sensitive |-> FALSE]

Goto(l)   == pc' = l

Least(a, b)   == IF a < b THEN a ELSE b
Largest(a, b) == IF a < b THEN b ELSE a

\* The places P of a sequence, in its order.
Picked(q, P) == [k \in 1 .. Cardinality(P) |->
    q[CHOOSE i \in P : Cardinality({j \in P : j <= i}) = k]]

-----------------------------------------------------------------------------
(* The claims *)

Occupied(c) == \E d \in Claim \ {c} :
    Identity[d] = Identity[c] /\ status[d] \in {"current", "expired"}

\* What the claim engine may do to a claim between two reads; a claim's document
\* is current for at most one claim of an identity (uk_current_claim).
Moves ==
    {<<"absent", "current">>, <<"current", "past">>, <<"past", "current">>,
     <<"expired", "gone">>, <<"current", "gone">>, <<"past", "gone">>}

Usable == {c \in Claim : status[c] = "current"}

ClaimChanges(c, s) ==
    /\ changes < MaxChanges
    /\ <<status[c], s>> \in Moves
    /\ s = "current" => ~Occupied(c)
    /\ status' = [status EXCEPT ![c] = s]
    /\ recent' = <<c>> \o Picked(recent, {i \in DOMAIN recent : recent[i] # c})
    /\ changes' = changes + 1
    /\ live' = IF s = "current" THEN live \cup {c} ELSE live
    /\ UNCHANGED <<granted, pc, req, locals, bundle, caller>>

\* Time passes expires_at: the document stays as it is.
ClaimExpires(c) ==
    /\ changes < MaxChanges
    /\ status[c] = "current"
    /\ status' = [status EXCEPT ![c] = "expired"]
    /\ changes' = changes + 1
    /\ UNCHANGED <<recent, granted, pc, req, locals, bundle, caller, live>>

Withdraw ==
    /\ granted /\ granted' = FALSE
    /\ UNCHANGED <<status, recent, changes, pc, req, locals, bundle, caller, live>>

-----------------------------------------------------------------------------
(* Reading and filtering *)

\* The lifecycle part of every query of the claim store.
Visible(history) ==
    {c \in Claim : \/ status[c] \in {"current", "expired"}
                   \/ history /\ status[c] = "past"}

\* list_current_claims: the newest of them.
Newest(n, history) ==
    LET listed == {i \in DOMAIN recent : recent[i] \in Visible(history)} IN
    {recent[i] : i \in {j \in listed : Cardinality({k \in listed : k < j}) < n}}

\* list_current_claims_by_ids.
ById(S, history) == S \cap Visible(history)

\* What list_current_claims_matching_phrases and _terms may return: which claims
\* match is left open, and a query that fails matches none.
Matches(history) == SUBSET Visible(history)

\* list_current_claim_evidence_neighbors of the seeds among S.
Neighbors(S, history) ==
    SUBSET {c \in Visible(history) : \E d \in S : d # c /\ Group[d] = Group[c]}

\* filter_claims, for one claim.
Allowed(c, use) ==
    /\ status[c] = "current" \/ (use.history /\ status[c] = "past")
    /\ c \in Sensitive => use.sensitive
    /\ use.llm => c \notin NoLLM

Filtered(S, use) == {c \in S : Allowed(c, use)}

-----------------------------------------------------------------------------
(* retrieve *)

\* _resolve_profile, the permission check and the switches of the request.  What
\* filter_claims is told of an LLM is the method of the request.
Begin(r) ==
    /\ pc = "idle"
    /\ req' = r
    /\ r.sensitive => granted
    /\ live' = Usable
    /\ Goto("list")
    /\ UNCHANGED <<world, locals, bundle, caller>>

\* An unknown profile, an invalid one, or a missing permission.
BeginRefused ==
    /\ pc = "idle"
    /\ Goto("refused")
    /\ UNCHANGED <<world, req, locals, bundle, caller, live>>

ListCandidates ==
    /\ pc = "list"
    /\ found' = Filtered(Newest(CandidateLimit, req.history), req)
    /\ Goto("recall")
    /\ UNCHANGED <<world, req, dropped, facet, ranked, sent, bundle, caller, live>>

\* Recall of claims by the action phrases of the query: any of those visible, and
\* none when the query fails.
RecallActions ==
    /\ pc = "recall"
    /\ \E S \in Matches(req.history) :
        found' = found \cup Filtered(S, req)
    /\ Goto("lexical")
    /\ UNCHANGED <<world, req, dropped, facet, ranked, sent, bundle, caller, live>>

\* The same by the terms of the query, and by nothing in between.
RecallTerms ==
    /\ pc = "lexical"
    /\ \E S \in Matches(req.history) :
        found' = found \cup Filtered(S, req)
    /\ Goto(IF req.compose THEN "compose" ELSE "vector")
    /\ UNCHANGED <<world, req, dropped, facet, ranked, sent, bundle, caller, live>>

\* One claim of each signature stays.
Compose ==
    /\ pc = "compose"
    /\ LET increments == {c \in found : Relation[c] = "increment"} IN
       \E keep \in SUBSET increments :
        /\ \A c \in increments : \E d \in keep : Signature[d] = Signature[c]
        /\ \A c, d \in keep : Signature[c] = Signature[d] => c = d
        /\ found' = keep
        /\ dropped' = [duplicate |-> {c \in found : Relation[c] = "duplicate"},
                       conflict  |-> {c \in found : Relation[c] = "conflict"},
                       redundant |-> increments \ keep]
    /\ Goto("vector")
    /\ UNCHANGED <<world, req, facet, ranked, sent, bundle, caller, live>>

\* Every facet of the query searches the index, which may be behind the claims;
\* EXACT does not search.
SearchFacets ==
    /\ pc = "vector"
    /\ \E hits \in [0 .. req.facets - 1 -> SUBSET Claim] :
        /\ req.method = "EXACT" => \A f \in DOMAIN hits : hits[f] = {}
        /\ facet' = [c \in Claim |-> {f \in DOMAIN hits : c \in hits[f]}]
    /\ Goto("hydrate")
    /\ UNCHANGED <<world, req, found, dropped, ranked, sent, bundle, caller, live>>

Hit == {c \in Claim : facet[c] # {}}

\* Mutant of Hydrate: the documents of the hits are not filtered.
HydrateUnfiltered ==
    /\ pc = "hydrate"
    /\ found' = found \cup ById(Hit, req.history)
    /\ Goto("neighbors")
    /\ UNCHANGED <<world, req, dropped, facet, ranked, sent, bundle, caller, live>>

\* list_current_claims_by_ids of the hits that are not candidates: what composition
\* left out is no candidate.
Hydrate ==
    /\ pc = "hydrate"
    /\ found' = found \cup Filtered(ById(Hit \ found, req.history), req)
    /\ Goto("neighbors")
    /\ UNCHANGED <<world, req, dropped, facet, ranked, sent, bundle, caller, live>>

\* That read fails, and with it the scores of all hits are gone.
HydrateFails ==
    /\ pc = "hydrate" /\ Hit \ found # {}
    /\ Goto("neighbors")
    /\ UNCHANGED <<world, req, locals, bundle, caller, live>>

\* Claims that share their evidence with a candidate, unless the switch
\* memory_retrieve_evidence_neighbor_enabled is off.
RecallNeighbors ==
    /\ pc = "neighbors"
    /\ \E S \in Neighbors(found, req.history) : found' = found \cup Filtered(S, req)
    /\ Goto("rank")
    /\ UNCHANGED <<world, req, dropped, facet, ranked, sent, bundle, caller, live>>

\* The scores leave any order open.
Orders(S) == {q \in [1 .. Cardinality(S) -> S] : ToSet(q) = S}

\* A dated question leaves out versions from outside its snapshot; the rest is
\* sorted by score and importance.
Rank ==
    /\ pc = "rank"
    /\ \E S \in SUBSET found :
        /\ req.history \/ S = found
        /\ ranked' \in Orders(S)
        /\ Goto(IF S # {} /\ (req.method = "LLM" \/ (req.aggregate /\ AggregationRerank))
                THEN "rerank" ELSE "select")
    /\ UNCHANGED <<world, req, found, dropped, facet, sent, bundle, caller, live>>

\* _rerank_with_llm sends the first candidate_limit candidates and keeps those that
\* the model names, in its order; whatever fails on the way leaves them as they are.
Rerank ==
    /\ pc = "rerank"
    /\ sent' = ToSet(SubSeq(ranked, 1, Least(CandidateLimit, Len(ranked))))
    /\ \/ \E S \in SUBSET ToSet(ranked) : ranked' \in Orders(S)
       \/ UNCHANGED ranked
    /\ Goto("select")
    /\ UNCHANGED <<world, req, found, dropped, facet, bundle, caller, live>>

-----------------------------------------------------------------------------
(* Selection *)

\* _diversify_by_evidence_group: the first PerGroup claims of each group, then the rest.
Early(q, i) == Cardinality({j \in 1 .. i - 1 : Group[q[j]] = Group[q[i]]}) < PerGroup

Diversified(q) ==
    LET first == {i \in DOMAIN q : Early(q, i)} IN
    Picked(q, first) \o Picked(q, DOMAIN q \ first)

\* _prioritize_query_facet_coverage: the best claim of each facet comes first.
CoreUpTo(q) ==
    LET core[f \in 0 .. req.facets] ==
          IF f = 0 THEN <<>>
          ELSE LET before == core[f - 1]
                   best == {i \in DOMAIN q : f - 1 \in facet[q[i]] /\ q[i] \notin ToSet(before)} IN
               IF best = {} THEN before
               ELSE Append(before, q[CHOOSE i \in best : \A j \in best : i <= j])
    IN core[req.facets]

Covered(q) ==
    IF req.facets <= 1 THEN q
    ELSE CoreUpTo(q) \o Picked(q, {i \in DOMAIN q : q[i] \notin ToSet(CoreUpTo(q))})

\* max_increment_items: that of the profile, or what an aggregation or a question
\* of several facets extends it to.
Room ==
    LET base == Largest(1, Least(TopK, ProfileMax)) IN
    IF req.aggregate \/ req.facets > 1
    THEN Largest(base, Largest(1, Least(TopK, ExpandedMax))) ELSE base

Weight(q) ==
    LET sum[i \in 0 .. Len(q)] == IF i = 0 THEN 0 ELSE sum[i - 1] + Tokens[q[i]] IN
    sum[Len(q)]

Admits(q, c) == Len(q) < Room /\ Weight(q) + Tokens[c] <= MaxTokens

\* The loop over the candidates that reach their minimum score.
Selected(q, enough) ==
    LET among[i \in 0 .. Len(q)] ==
          IF i = 0 THEN <<>>
          ELSE LET before == among[i - 1] IN
               IF q[i] \in enough /\ Admits(before, q[i]) THEN Append(before, q[i]) ELSE before
    IN among[Len(q)]

\* save_bundle ends the request.
Select ==
    /\ pc = "select"
    /\ \E enough \in SUBSET ToSet(ranked) :
        /\ bundle' = [items |-> Selected(Covered(Diversified(ranked)), enough), open |-> TRUE]
    /\ found' = {} /\ facet' = NoFacets /\ ranked' = <<>> /\ sent' = {}
    /\ Goto("stored")
    /\ UNCHANGED <<world, req, dropped, caller, live>>

-----------------------------------------------------------------------------
(* call *)

\* The TTL index, or the check of expires_at.
BundleExpires ==
    /\ bundle.open
    /\ bundle' = [bundle EXCEPT !.open = FALSE]
    /\ UNCHANGED <<world, pc, req, locals, caller, live>>

CallBegin(u) ==
    /\ pc \in {"stored", "answered", "refused"}
    /\ u.sensitive => granted
    /\ caller' = u
    /\ live' = Usable
    /\ req' = NoRequest /\ dropped' = NoDrops
    /\ Goto(IF bundle.open THEN "check" ELSE "refused")
    /\ UNCHANGED <<world, found, facet, ranked, sent, bundle>>

\* Mutant of CallCheck: the bundle is taken as it was stored.
CallCheckTrusts ==
    /\ pc = "check"
    /\ Goto("answered")
    /\ UNCHANGED <<world, req, locals, bundle, caller, live>>

\* The claims are read again, without history, and every item must pass.
CallCheck ==
    /\ pc = "check"
    /\ LET n == Largest(CallLimit, Len(bundle.items))
           now == Filtered(Newest(n, FALSE), caller) IN
       Goto(IF ToSet(bundle.items) \subseteq now THEN "answered" ELSE "refused")
    /\ UNCHANGED <<world, req, locals, bundle, caller, live>>

Requests ==
    [method : {"EXACT", "SEMANTIC", "LLM"}, llm : BOOLEAN, history : BOOLEAN,
     compose : BOOLEAN, aggregate : BOOLEAN, facets : 1 .. 2, sensitive : BOOLEAN]

Callers == [llm : BOOLEAN, history : {FALSE}, sensitive : BOOLEAN]

RequestsOK ==
    /\ \A r \in Request : r \in Requests /\ r.llm = (r.method = "LLM")
    /\ Initial \in Seq(Claim)
    /\ \A i, j \in DOMAIN Initial : Identity[Initial[i]] = Identity[Initial[j]] => i = j
    /\ Tokens \in [Claim -> Nat] /\ MaxTokens \in Nat
    /\ TopK \in Nat \ {0} /\ ProfileMax \in Int /\ ExpandedMax \in Int
    /\ CandidateLimit \in Nat /\ MaxChanges \in Nat

Init ==
    /\ status = [c \in Claim |-> IF c \in ToSet(Initial) THEN "current" ELSE "absent"]
    /\ recent = Initial /\ changes = 0 /\ granted = TRUE
    /\ pc = "idle"
    /\ req = NoRequest
    /\ found = {} /\ dropped = NoDrops /\ facet = NoFacets
    /\ ranked = <<>> /\ sent = {}
    /\ bundle = NoBundle
    /\ caller = NoCaller
    /\ live = {}

Retrieve ==
    \/ \E r \in Request : Begin(r)
    \/ BeginRefused \/ ListCandidates \/ RecallActions \/ RecallTerms \/ Compose
    \/ SearchFacets \/ Hydrate \/ HydrateFails \/ RecallNeighbors
    \/ Rank \/ Rerank \/ Select

Call == (\E u \in Callers : CallBegin(u)) \/ CallCheck

World ==
    \/ \E c \in Claim, s \in Statuses : ClaimChanges(c, s)
    \/ \E c \in Claim : ClaimExpires(c)
    \/ Withdraw \/ BundleExpires

Next == Retrieve \/ Call \/ World

Spec == Init /\ [][Next]_vars
-----------------------------------------------------------------------------
(* Properties *)

\* Every variable stays in its domain.
TypeOK ==
    /\ status \in [Claim -> Statuses] /\ recent \in Seq(Claim)
    /\ changes \in 0 .. MaxChanges /\ granted \in BOOLEAN
    /\ pc \in {"idle", "list", "recall", "lexical", "compose", "vector", "hydrate",
               "neighbors", "rank", "rerank", "select", "stored", "check", "answered",
               "refused"}
    /\ req \in Requests /\ caller \in Callers
    /\ found \subseteq Claim /\ sent \subseteq Claim /\ live \subseteq Claim
    /\ dropped \in [{"duplicate", "conflict", "redundant"} -> SUBSET Claim]
    /\ facet \in [Claim -> SUBSET Nat]
    /\ ranked \in Seq(Claim) /\ bundle \in [items : Seq(Claim), open : BOOLEAN]

Permitted(q, use) ==
    /\ ~use.sensitive => ToSet(q) \cap Sensitive = {}
    /\ use.llm => ToSet(q) \cap NoLLM = {}

\* Whatever recall path a claim came by, and although each path reads the claims at
\* another moment, a bundle keeps its limits, names no claim twice, and holds only
\* claims that passed the filter while the retrieve ran; and a request of method LLM
\* sends the model no claim that is barred from it.
BundleSound ==
    /\ req.method = "LLM" => sent \cap NoLLM = {}
    /\ pc = "stored" =>
        /\ Len(bundle.items) <= TopK /\ Weight(bundle.items) <= MaxTokens
        /\ Cardinality(ToSet(bundle.items)) = Len(bundle.items)
        /\ Permitted(bundle.items, req)
        /\ req.history \/ ToSet(bundle.items) \subseteq live

\* "A bundle is an audit snapshot, not a capability token": a call answers only
\* with claims that were still current after it began, however long ago the
\* bundle was stored and whatever was revoked, replaced or expired since.
AnsweredIsLive ==
    pc = "answered" =>
        /\ ToSet(bundle.items) \subseteq live
        /\ Permitted(bundle.items, caller)

\* A retrieve that straddles an update may store the old and the new claim of one
\* identity; no call ever answers with both.
AnsweredOnce ==
    pc = "answered" =>
        \A c, d \in ToSet(bundle.items) : Identity[c] = Identity[d] => c = d

\* What a call answers with is live, permitted and of one claim per identity,
\* whatever became of the claims since the bundle was stored.
CallSound == AnsweredIsLive /\ AnsweredOnce

\* "Conflicts are deliberately not injected in P0."
NoConflictInjected ==
    pc = "stored" => ToSet(bundle.items) \cap dropped.conflict = {}
=============================================================================
