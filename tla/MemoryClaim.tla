---------------------------- MODULE MemoryClaim ----------------------------
(***************************************************************************)
(* The V2 claim engine: services/memory_claim.py over the Mongo collection *)
(* of integrations/memory_claim_store.py and the derived vector index of   *)
(* integrations/qdrant_store.py.                                           *)
(*                                                                         *)
(* The module describes ONE identity (tenant, org, user, namespace,        *)
(* dimension, claim_key): no operation reads or writes the claims of two   *)
(* identities, so identities do not interact.  Every request runs in its   *)
(* own coroutine and gives up control at each await; each Mongo or Qdrant  *)
(* call is one atomic step, and between two steps any other request may    *)
(* run, or the request may be cut off (worker killed, Mongo unreachable).  *)
(*                                                                         *)
(* An ingest request stores at most one claim, so the claim's uuid is the  *)
(* name of the request that stores it.                                     *)
(***************************************************************************)
EXTENDS ClaimFacts

CONSTANTS
    Ingest,             \* ingest requests, one per atomic claim of a body
    Revoke,             \* revoke requests
    Review,             \* resolve_conflict requests
    None

VARIABLES
    events,     \* memory_source_event: the event ids saved
    claims,     \* memory_claim: the document of each claim id
    head,       \* memory_claim_head.revision
    vector,     \* the Qdrant point of each claim id
    qdrant,     \* "up" or "flaky" for the whole behaviour
    pc,         \* where each request is
    doc,        \* the document an ingest request is building
    decision,   \* the action of its MemoryUpdateDecision
    prev,       \* the claim id that get_latest_claim returned to a request
    target,     \* the claim id a revoke or a review is about
    resolution  \* ACCEPT or REJECT

index  == <<vector, qdrant>>
locals == <<doc, decision, prev, target, resolution>>
vars   == <<events, claims, head, index, pc, locals>>

Reviewer == Revoke \cup Review
Request  == Ingest \cup Reviewer

-----------------------------------------------------------------------------
Life     == {"active", "superseded", "conflicted", "revoked"}
ClaimId  == Ingest \cup {None}

NoDocument ==
    [life |-> "absent", current |-> FALSE, rev |-> 0, value |-> {},
     status |-> "stated", conf |-> 0, eff |-> 0, prov |-> {},
     supersedes |-> None, supersededBy |-> None, conflictsWith |-> None]

Document ==
    [life : Life \cup {"absent"}, current : BOOLEAN, rev : Nat,
     value : SUBSET Datum, status : DOMAIN FactAuthority,
     conf : Nat, eff : Nat, prov : SUBSET Evidence,
     supersedes : ClaimId, supersededBy : ClaimId, conflictsWith : ClaimId]

ASSUME ConstantsOK ==
    /\ Ingest \cap Reviewer = {} /\ Revoke \cap Review = {}
    /\ None \notin Request

ClaimDoc(i) ==
    [NoDocument EXCEPT
        !.life = "active", !.value = i.value, !.status = i.status,
        !.conf = i.conf, !.eff = i.eff,
        !.prov = {[event |-> i.event, at |-> i.at]}]

Stored  == {c \in Ingest : claims[c].life # "absent"}
Current == {c \in Ingest : claims[c].current}

\* get_latest_claim: the current claim of the highest revision.
Latest ==
    IF Current = {} THEN None
    ELSE CHOOSE c \in Current : \A d \in Current : claims[d].rev <= claims[c].rev

\* The claims an ordinary retrieval may return.
Served == {c \in Current : claims[c].life = "active"}

Goto(r, l) == pc' = [pc EXCEPT ![r] = l]

-----------------------------------------------------------------------------
(* POST /api/v2/memory/ingest *)

\* save_source_event, an idempotent upsert, then the checks that need no claim.
IngestStart(r, i) ==
    /\ pc[r] = "idle"
    /\ events' = events \cup {i.event}
    /\ \/ /\ Admissible(i)
          /\ doc' = [doc EXCEPT ![r] = ClaimDoc(i)]
          /\ Goto(r, "read")
          /\ UNCHANGED decision
       \/ /\ ~Admissible(i)
          /\ decision' = [decision EXCEPT ![r] = "REJECT"]
          /\ Goto(r, "done")
          /\ UNCHANGED doc
    /\ UNCHANGED <<claims, head, index, prev, target, resolution>>

Decide(d, c) ==
    IF c = None THEN "ADD"
    ELSE IF claims[c].value = d.value THEN "CONFIRM"
    ELSE IF AllowFill /\ NonConflicting(claims[c].value, d.value) THEN "UPDATE"
    ELSE IF Outranks(d, claims[c]) THEN "SUPERSEDE"
    ELSE "CONFLICT"

\* Mutant of MakeCurrent: a conflicting claim is inserted as current too.
MakeCurrentAlways == {"ADD", "UPDATE", "SUPERSEDE", "CONFLICT"}

MakeCurrent == {"ADD", "UPDATE", "SUPERSEDE"}
Replaces    == {"UPDATE", "SUPERSEDE"}

\* Mutant of Prepared: the completing object replaces the current one.
PreparedOverwrites(d, c, what) ==
    [d EXCEPT
        !.life = IF what = "CONFLICT" THEN "conflicted" ELSE @,
        !.supersedes = IF what \in Replaces THEN c ELSE @,
        !.conflictsWith = IF what = "CONFLICT" THEN c ELSE @]

\* What the decision adds to the document before it is stored.
Prepared(d, c, what) ==
    [d EXCEPT
        !.value = IF what = "UPDATE" THEN Filled(claims[c].value, @) ELSE @,
        !.life = IF what = "CONFLICT" THEN "conflicted" ELSE @,
        !.supersedes = IF what \in Replaces THEN c ELSE @,
        !.conflictsWith = IF what = "CONFLICT" THEN c ELSE @]

\* Read the current claim; everything decided here is acted on later.
IngestRead(r) ==
    /\ pc[r] = "read"
    /\ LET what == Decide(doc[r], Latest) IN
        /\ decision' = [decision EXCEPT ![r] = what]
        /\ prev' = [prev EXCEPT ![r] = Latest]
        /\ doc' = [doc EXCEPT ![r] = Prepared(@, Latest, what)]
        /\ Goto(r, IF what = "CONFIRM" THEN "confirm"
                   ELSE IF what = "CONFLICT" THEN "allocate" ELSE "demote")
    /\ UNCHANGED <<events, claims, head, index, target, resolution>>

\* Mutant of IngestConfirm: a confirmed claim is reactivated.
IngestConfirmRevives(r) ==
    /\ pc[r] = "confirm"
    /\ claims' = [claims EXCEPT ![prev[r]].life = "active", ![prev[r]].current = TRUE]
    /\ Goto(r, "done")
    /\ UNCHANGED <<events, head, index, locals>>

\* confirm_claim: $addToSet provenance, $max confidence, by id only.
Confirmed(d, e) ==
    [d EXCEPT !.prov = @ \cup e.prov, !.conf = IF e.conf > @ THEN e.conf ELSE @]

IngestConfirm(r) ==
    /\ pc[r] = "confirm"
    /\ claims' = [claims EXCEPT ![prev[r]] = Confirmed(@, doc[r])]
    /\ Goto(r, "done")
    /\ UNCHANGED <<events, head, index, locals>>

\* insert_claim(make_current=True), first await: update_many is_current = False.
InsertDemote(r) ==
    /\ pc[r] = "demote"
    /\ claims' = [c \in Ingest |-> [claims[c] EXCEPT !.current = FALSE]]
    /\ Goto(r, "allocate")
    /\ UNCHANGED <<events, head, index, locals>>

\* Mutant of InsertAllocate: the revision is counted from the collection.
InsertAllocateCounts(r) ==
    /\ pc[r] = "allocate"
    /\ head' = head + 1
    /\ doc' = [doc EXCEPT ![r].rev = Cardinality(Stored) + 1]
    /\ Goto(r, "insert")
    /\ UNCHANGED <<events, claims, index, decision, prev, target, resolution>>

\* allocate_revision: $inc on the identity's head document.
InsertAllocate(r) ==
    /\ pc[r] = "allocate"
    /\ head' = head + 1
    /\ doc' = [doc EXCEPT ![r].rev = head + 1]
    /\ Goto(r, "insert")
    /\ UNCHANGED <<events, claims, index, decision, prev, target, resolution>>

\* Mutant of DuplicateCurrent: the index was never created.
DuplicateNever(c) == FALSE

\* The unique partial index uk_current_claim refuses a second current claim.
DuplicateCurrent(c) == Current \ {c} # {}

InsertStore(r) ==
    /\ pc[r] = "insert"
    /\ \/ /\ decision[r] \notin MakeCurrent
          /\ claims' = [claims EXCEPT ![r] = doc[r]]
          /\ Goto(r, "done")
       \/ /\ decision[r] \in MakeCurrent /\ ~DuplicateCurrent(r)
          /\ claims' = [claims EXCEPT ![r] = [doc[r] EXCEPT !.current = TRUE]]
          /\ Goto(r, IF decision[r] \in Replaces THEN "mark" ELSE "index")
       \/ /\ decision[r] \in MakeCurrent /\ DuplicateCurrent(r)
          /\ Goto(r, "failed")
          /\ UNCHANGED claims
    /\ UNCHANGED <<events, head, index, locals>>

\* Mutant of IngestMark: the replaced claim is updated in place.
IngestMarkRewrites(r) ==
    /\ pc[r] = "mark"
    /\ claims' = [claims EXCEPT ![prev[r]].life = "superseded",
                                ![prev[r]].value = doc[r].value]
    /\ Goto(r, "unindex")
    /\ UNCHANGED <<events, head, index, locals>>

\* mark_claim_status(current, "superseded", superseded_by=stored): by id only.
IngestMark(r) ==
    /\ pc[r] = "mark"
    /\ claims' = [claims EXCEPT ![prev[r]] =
                    [@ EXCEPT !.life = "superseded", !.supersededBy = r]]
    /\ Goto(r, "unindex")
    /\ UNCHANGED <<events, head, index, locals>>

\* Best effort: when Qdrant fails, or its circuit breaker skips the call, the
\* point keeps its state.  set_payload on a point that is not there does nothing.
HideVector(c) ==
    \/ vector' = [vector EXCEPT ![c] = IF @ = "none" THEN @ ELSE "hidden"]
    \/ qdrant = "flaky" /\ UNCHANGED vector

UpsertVector(c, life) ==
    \/ vector' = [vector EXCEPT ![c] = IF life = "active" THEN "hit" ELSE "hidden"]
    \/ qdrant = "flaky" /\ UNCHANGED vector

IngestUnindex(r) ==
    /\ pc[r] = "unindex"
    /\ HideVector(prev[r])
    /\ Goto(r, "index")
    /\ UNCHANGED <<events, claims, head, qdrant, locals>>

IngestIndex(r) ==
    /\ pc[r] = "index"
    /\ UpsertVector(r, "active")
    /\ Goto(r, "done")
    /\ UNCHANGED <<events, claims, head, qdrant, locals>>

-----------------------------------------------------------------------------
(* POST /api/v2/memory/claims/{claim_id}/revoke *)

RevokeStart(v, c) ==
    /\ pc[v] = "idle"
    /\ c \in Stored
    /\ target' = [target EXCEPT ![v] = c]
    /\ Goto(v, "mark")
    /\ UNCHANGED <<events, claims, head, index, doc, decision, prev, resolution>>

\* Mutant of RevokeMark: the status is misspelt.
RevokeMarkMisspelt(v) ==
    /\ pc[v] = "mark"
    /\ claims' = [claims EXCEPT ![target[v]].life = "revoke",
                                ![target[v]].current = FALSE]
    /\ Goto(v, "unindex")
    /\ UNCHANGED <<events, head, index, locals>>

RevokeMark(v) ==
    /\ pc[v] = "mark"
    /\ claims' = [claims EXCEPT ![target[v]] =
                    [@ EXCEPT !.life = "revoked", !.current = FALSE]]
    /\ Goto(v, "unindex")
    /\ UNCHANGED <<events, head, index, locals>>

RevokeUnindex(v) ==
    /\ pc[v] = "unindex"
    /\ HideVector(target[v])
    /\ Goto(v, "done")
    /\ UNCHANGED <<events, claims, head, qdrant, locals>>

-----------------------------------------------------------------------------
(* POST /api/v2/memory/claims/{claim_id}/resolve *)

ReviewStart(w, c, res) ==
    /\ pc[w] = "idle"
    /\ claims[c].life = "conflicted"
    /\ target' = [target EXCEPT ![w] = c]
    /\ resolution' = [resolution EXCEPT ![w] = res]
    /\ Goto(w, IF res = "REJECT" THEN "reject" ELSE "read")
    /\ UNCHANGED <<events, claims, head, index, doc, decision, prev>>

ReviewReject(w) ==
    /\ pc[w] = "reject"
    /\ claims' = [claims EXCEPT ![target[w]] =
                    [@ EXCEPT !.life = "revoked", !.current = FALSE]]
    /\ Goto(w, "done")
    /\ UNCHANGED <<events, head, index, locals>>

ReviewRead(w) ==
    /\ pc[w] = "read"
    /\ prev' = [prev EXCEPT ![w] = Latest]
    /\ Goto(w, IF Latest \in {None, target[w]} THEN "activate" ELSE "demote")
    /\ UNCHANGED <<events, claims, head, index, doc, decision, target, resolution>>

ReviewDemote(w) ==
    /\ pc[w] = "demote"
    /\ claims' = [claims EXCEPT ![prev[w]] =
                    [@ EXCEPT !.life = "superseded", !.current = FALSE,
                              !.supersededBy = target[w]]]
    /\ Goto(w, "activate")
    /\ UNCHANGED <<events, head, index, locals>>

ReviewActivate(w) ==
    /\ pc[w] = "activate"
    /\ \/ /\ ~DuplicateCurrent(target[w])
          /\ claims' = [claims EXCEPT ![target[w]] =
                          [@ EXCEPT !.life = "active", !.current = TRUE]]
          /\ Goto(w, "index")
       \/ /\ DuplicateCurrent(target[w])
          /\ Goto(w, "failed")
          /\ UNCHANGED claims
    /\ UNCHANGED <<events, head, index, locals>>

\* Mutant of ReviewRefresh: the document read before the resolution is indexed.
ReviewRefreshStale(w) ==
    /\ pc[w] = "index"
    /\ Goto(w, "indexOther")
    /\ UNCHANGED <<events, claims, head, index, locals>>

\* get_claim again, then index the document as it was read.
ReviewRefresh(w) ==
    /\ pc[w] = "index"
    /\ Goto(w, IF claims[target[w]].life = "active" THEN "indexActive" ELSE "indexOther")
    /\ UNCHANGED <<events, claims, head, index, locals>>

ReviewIndex(w) ==
    /\ pc[w] \in {"indexActive", "indexOther"}
    /\ UpsertVector(target[w], IF pc[w] = "indexActive" THEN "active" ELSE "other")
    /\ Goto(w, "done")
    /\ UNCHANGED <<events, claims, head, qdrant, locals>>

-----------------------------------------------------------------------------
Finished == {"done", "failed", "crashed"}

\* The worker is killed or a Mongo call raises: the rest is never run.
Crash(r) ==
    /\ pc[r] \notin Finished \cup {"idle"}
    /\ Goto(r, "crashed")
    /\ UNCHANGED <<events, claims, head, index, locals>>

Init ==
    /\ events = {}
    /\ claims = [c \in Ingest |-> NoDocument]
    /\ head = 0
    /\ vector = [c \in Ingest |-> "none"]
    /\ qdrant \in {"up", "flaky"}
    /\ pc = [r \in Request |-> "idle"]
    /\ doc = [r \in Ingest |-> NoDocument]
    /\ decision = [r \in Ingest |-> "none"]
    /\ prev = [r \in Request |-> None]
    /\ target = [r \in Reviewer |-> None]
    /\ resolution = [r \in Review |-> "none"]

IngestStep(r) ==
    \/ \E i \in Input : IngestStart(r, i)
    \/ IngestRead(r) \/ IngestConfirm(r)
    \/ InsertDemote(r) \/ InsertAllocate(r) \/ InsertStore(r)
    \/ IngestMark(r) \/ IngestUnindex(r) \/ IngestIndex(r)

RevokeStep(v) ==
    \/ \E c \in Ingest : RevokeStart(v, c)
    \/ RevokeMark(v) \/ RevokeUnindex(v)

ReviewStep(w) ==
    \/ \E c \in Ingest, res \in {"ACCEPT", "REJECT"} : ReviewStart(w, c, res)
    \/ ReviewReject(w) \/ ReviewRead(w) \/ ReviewDemote(w)
    \/ ReviewActivate(w) \/ ReviewRefresh(w) \/ ReviewIndex(w)

Next ==
    \/ \E r \in Ingest : IngestStep(r)
    \/ \E v \in Revoke : RevokeStep(v)
    \/ \E w \in Review : ReviewStep(w)
    \/ \E r \in Request : Crash(r)

Spec == Init /\ [][Next]_vars
-----------------------------------------------------------------------------
(* Properties *)

IngestPc == {"idle", "read", "confirm", "demote", "allocate", "insert", "mark",
             "unindex", "index"} \cup Finished
RevokePc == {"idle", "mark", "unindex"} \cup Finished
ReviewPc == {"idle", "reject", "read", "demote", "activate", "index",
             "indexActive", "indexOther"} \cup Finished
Decision == MakeCurrent \cup {"CONFIRM", "CONFLICT", "REJECT", "none"}

\* Every variable stays in its domain, and a request that is past a read holds
\* what that read returned.
TypeOK ==
    /\ events \subseteq Event
    /\ claims \in [Ingest -> Document]
    /\ head \in Nat
    /\ vector \in [Ingest -> {"none", "hit", "hidden"}]
    /\ qdrant \in {"up", "flaky"}
    /\ pc \in [Request -> IngestPc \cup RevokePc \cup ReviewPc]
    /\ \A r \in Ingest : pc[r] \in IngestPc
    /\ \A v \in Revoke : pc[v] \in RevokePc
    /\ \A w \in Review : pc[w] \in ReviewPc
    /\ doc \in [Ingest -> Document]
    /\ decision \in [Ingest -> Decision]
    /\ prev \in [Request -> ClaimId]
    /\ target \in [Reviewer -> ClaimId]
    /\ resolution \in [Review -> {"none", "ACCEPT", "REJECT"}]

\* However ingests and reviews interleave, at most one claim of the identity is
\* current: what uk_current_claim is for, through both writers that set the flag.
AtMostOneCurrent == \A c, d \in Current : c = d

\* No two claims of the identity have the same revision, so that history sorts
\* them, although the number is allocated in one await and used in another.
RevisionsDistinct ==
    \A c, d \in Stored : claims[c].rev = claims[d].rev => c = d

\* A claim that was stored against another one (supersedes, conflicts_with)
\* names a stored claim of a lower revision: lineage never loops and never
\* dangles, although the claim it was decided against may be long replaced.
LineageDescends ==
    \A c \in Stored :
        \A d \in {claims[c].supersedes, claims[c].conflictsWith} \ {None} :
            d \in Stored /\ claims[d].rev < claims[c].rev

\* A claim marked superseded names another stored claim as its successor: the
\* mark follows the insert, so no crash leaves it pointing at nothing.
SupersededHasSuccessor ==
    \A c \in Stored :
        claims[c].life = "superseded" =>
            claims[c].supersededBy \in Stored \ {c}

\* The history of an identity is a well-founded order: revisions tell claims apart,
\* lineage leads down them, and a superseded claim has its successor.
LineageSound == RevisionsDistinct /\ LineageDescends /\ SupersededHasSuccessor

\* A claim that ingest stored as conflicting is current only if some reviewer
\* asked to ACCEPT it ("conflict data does not enter retrieval by itself").
ConflictNeedsReview ==
    \A c \in Current :
        decision[c] = "CONFLICT" =>
            \E w \in Review : target[w] = c /\ resolution[w] = "ACCEPT"

Quiet == \A r \in Request : pc[r] \in Finished \cup {"idle"}

\* No request that takes claims out of service on purpose has done so.
NothingWithdrawn ==
    /\ \A v \in Revoke : pc[v] \in {"idle", "mark"}
    /\ \A w \in Review : resolution[w] = "REJECT" => pc[w] # "done"

NobodyCrashed == \A r \in Request : pc[r] # "crashed"

\* Once the identity has a claim, and nobody crashed or withdrew one, it has a
\* current claim again when the requests have ended, whichever of them lost the
\* race for uk_current_claim.
NoLostCurrent ==
    /\ Quiet /\ NothingWithdrawn /\ NobodyCrashed
    /\ Stored # {}
    => Current # {}

OneReviewPerClaim ==
    \A w, x \in Review : target[w] = target[x] /\ target[w] # None => w = x

\* A current claim is active, hence retrievable, unless two reviews of the same
\* claim overlap: ingest marks the claim it replaced superseded by id, and must
\* not hit a claim that has become current again.
CurrentIsActive ==
    OneReviewPerClaim => \A c \in Current : claims[c].life = "active"

\* An identity has one current claim, not two and not none, and it is an active one,
\* under the provisos of the three.
CurrentSound == AtMostOneCurrent /\ NoLostCurrent /\ CurrentIsActive

\* A stored claim is never rewritten: revision, value, fact status, effective
\* time and lineage stay; evidence only grows and confidence only rises.
HistoryAppendOnly ==
    [][\A c \in Stored :
        /\ \A f \in {"rev", "value", "status", "eff", "supersedes", "conflictsWith"} :
                claims'[c][f] = claims[c][f]
        /\ claims[c].prov \subseteq claims'[c].prov
        /\ claims[c].conf <= claims'[c].conf]_claims

\* Revoked means withdrawn: with no review in play, a claim that a finished
\* revoke named is never served again, whatever ingests were in flight.
RevokedNotServed ==
    \A v \in Revoke :
        pc[v] \in {"unindex", "done"} /\ (\A w \in Review : target[w] # target[v])
            => target[v] \notin Served

\* "An older replay must not roll the current value back": a stated fact that
\* replaced the current claim is newer than every stated fact of a lower
\* revision that was ever made current.
OlderReplayKeepsCurrent ==
    \A c, d \in Stored :
        /\ claims[d].current /\ decision[d] = "SUPERSEDE"
        /\ decision[c] \in MakeCurrent /\ claims[c].rev < claims[d].rev
        /\ claims[c].status = "stated" /\ claims[d].status = "stated"
        /\ FactTime(claims[c]) # 0 /\ FactTime(claims[d]) # 0
        => FactTime(claims[d]) > FactTime(claims[c])

\* "only conflicted claims can be resolved": a stored claim becomes active only
\* from the conflicted state.
OnlyConflictedResolved ==
    [][\A c \in Stored :
        claims'[c].life = "active" => claims[c].life \in {"active", "conflicted"}]_claims

\* When every request has ended and Qdrant took every write, what retrieval may
\* serve is found by vector recall: a late delete of a replaced claim's point,
\* or the index step of a loser, does not hide the served claim.  Two reviews of
\* one claim break it: one of them serves again what an ingest is about to hide.
ServedIsIndexed ==
    qdrant = "up" /\ Quiet /\ NobodyCrashed /\ OneReviewPerClaim =>
        \A c \in Served :
            vector[c] = "hit" \/ \E v \in Revoke : target[v] = c
=============================================================================
