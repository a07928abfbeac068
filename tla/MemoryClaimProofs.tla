------------------------- MODULE MemoryClaimProofs -------------------------
(***************************************************************************)
(* Proofs about MemoryClaim for any number of requests and any inputs.     *)
(***************************************************************************)
EXTENDS MemoryClaim, TLAPS

Base == TypeOK /\ AtMostOneCurrent

-----------------------------------------------------------------------------
(* Facts about the operators the steps are built from. *)

\* What get_latest_claim returns: nothing, or the current claim.
LEMMA LatestFact ==
    ASSUME Base
    PROVE  /\ Latest \in ClaimId
           /\ Latest # None => Latest \in Current
           /\ Latest = None => Current = {}
<1>1. CASE Current = {}
  BY <1>1 DEF Latest, ClaimId
<1>2. CASE Current # {}
  <2>1. PICK c \in Current : TRUE
    BY <1>2
  <2>2. \A d \in Current : d = c
    BY <2>1 DEF Base, AtMostOneCurrent
  <2>3. claims[c].rev <= claims[c].rev
    BY <2>1 DEF Base, TypeOK, Document, Current
  <2>4. \E e \in Current : \A d \in Current : claims[d].rev <= claims[e].rev
    BY <2>1, <2>2, <2>3
  <2>5. Latest \in Current
    BY <1>2, <2>4 DEF Latest
  <2>6. QED
    BY <2>5, ConstantsOK DEF Current, ClaimId, Request
<1>3. QED
  BY <1>1, <1>2

\* A request's claim is a well-formed document.
LEMMA ClaimDocType ==
    ASSUME NEW i \in Input
    PROVE  ClaimDoc(i) \in Document
<1>1. i \in InputType
  BY PolicyOK
<1>2. [event |-> i.event, at |-> i.at] \in Evidence
  BY DEF Evidence, Event
<1>3. i.value \in SUBSET Datum /\ i.status \in DOMAIN FactAuthority
      /\ i.conf \in Nat /\ i.eff \in Nat
  BY <1>1 DEF InputType
<1>4. QED
  BY <1>2, <1>3 DEF ClaimDoc, NoDocument, Document, Life, ClaimId

LEMMA NoDocumentType == NoDocument \in Document
  BY DEF NoDocument, Document, ClaimId, FactAuthority

\* A request's document stays well formed when its decision is entered.
LEMMA PreparedType ==
    ASSUME Base, NEW r \in Ingest,
           NEW what, what = Decide(doc[r], Latest)
    PROVE  Prepared(doc[r], Latest, what) \in Document /\ what \in Decision
<1>1. doc[r] \in Document /\ Latest \in ClaimId
  BY LatestFact DEF Base, TypeOK
<1>2. what \in Decision
  BY DEF Decide, Decision, MakeCurrent
<1>3. what = "UPDATE" => Latest \in Ingest
  BY LatestFact DEF Decide, Current
<1>4. what = "UPDATE" => claims[Latest].value \subseteq Datum
  BY <1>3 DEF Base, TypeOK, Document
<1>5. QED
  BY <1>1, <1>2, <1>4 DEF Prepared, Filled, Document, Life

LEMMA RequestKinds ==
    /\ Ingest \subseteq Request /\ Review \subseteq Request /\ Revoke \subseteq Request
    /\ Review \subseteq Reviewer /\ Revoke \subseteq Reviewer
    /\ Ingest \cap Review = {} /\ Ingest \cap Revoke = {} /\ Revoke \cap Review = {}
    /\ None \notin Ingest
BY ConstantsOK DEF Request, Reviewer

\* The edits the store applies to a document keep it well formed.
LEMMA EditType ==
    ASSUME NEW d \in Document
    PROVE  /\ [d EXCEPT !.current = FALSE] \in Document
           /\ \A b \in BOOLEAN : [d EXCEPT !.current = b] \in Document
           /\ \A n \in Nat : [d EXCEPT !.rev = n] \in Document
           /\ \A c \in ClaimId :
                [d EXCEPT !.life = "superseded", !.supersededBy = c] \in Document
           /\ \A c \in ClaimId :
                [d EXCEPT !.life = "superseded", !.current = FALSE,
                          !.supersededBy = c] \in Document
           /\ [d EXCEPT !.life = "revoked", !.current = FALSE] \in Document
           /\ [d EXCEPT !.life = "active", !.current = TRUE] \in Document
           /\ \A e \in Document : Confirmed(d, e) \in Document
<1>1. d.conf \in Nat
  BY DEF Document
<1>2. \A e \in Document : e.conf \in Nat /\ d.prov \cup e.prov \in SUBSET Evidence
  BY DEF Document
<1>3. QED
  BY <1>1, <1>2 DEF Confirmed, Document, Life

-----------------------------------------------------------------------------
(* Type correctness and AtMostOneCurrent. *)

LEMMA InitBase == Init => Base
<1> SUFFICES ASSUME Init PROVE Base
  OBVIOUS
<1>1. Current = {}
  BY DEF Init, Current, NoDocument
<1>2. TypeOK
  BY NoDocumentType, RequestKinds
     DEF Init, TypeOK, IngestPc, RevokePc, ReviewPc, Finished, Decision, ClaimId
<1>3. QED
  BY <1>1, <1>2 DEF Base, AtMostOneCurrent

\* The program counters: what a step of one request does to their type.
LEMMA GotoType ==
    ASSUME TypeOK, NEW r \in Request, NEW l, Goto(r, l),
           r \in Ingest => l \in IngestPc,
           r \in Revoke => l \in RevokePc,
           r \in Review => l \in ReviewPc
    PROVE  /\ pc' \in [Request -> IngestPc \cup RevokePc \cup ReviewPc]
           /\ \A x \in Ingest : pc'[x] \in IngestPc
           /\ \A x \in Revoke : pc'[x] \in RevokePc
           /\ \A x \in Review : pc'[x] \in ReviewPc
BY RequestKinds DEF TypeOK, Goto, Request, Reviewer

\* The steps of an ingest request.
LEMMA IngestType ==
    ASSUME Base, NEW r \in Ingest, IngestStep(r)
    PROVE  TypeOK'
<1> USE RequestKinds DEF Base, index, locals
<1>r. r \in Request
  OBVIOUS
<1>1. ASSUME NEW i \in Input, IngestStart(r, i) PROVE TypeOK'
  <2>1. i.event \in Event /\ ClaimDoc(i) \in Document
    BY ClaimDocType DEF Event
  <2>2. PICK l \in {"read", "done"} : Goto(r, l)
    BY <1>1 DEF IngestStart
  <2>3. l \in IngestPc /\ r \notin Revoke /\ r \notin Review
    BY DEF IngestPc, Finished
  <2>4. QED
    BY <1>r, <1>1, <2>1, <2>2, <2>3, GotoType
       DEF IngestStart, TypeOK, Decision
<1>2. CASE IngestRead(r)
  <2> DEFINE what == Decide(doc[r], Latest)
  <2>1. Prepared(doc[r], Latest, what) \in Document /\ what \in Decision
    BY PreparedType
  <2>2. Latest \in ClaimId
    BY LatestFact
  <2>3. PICK l \in {"confirm", "allocate", "demote"} : Goto(r, l)
    BY <1>2 DEF IngestRead
  <2>4. l \in IngestPc /\ r \notin Revoke /\ r \notin Review
    BY DEF IngestPc
  <2>5. QED
    BY <1>r, <1>2, <2>1, <2>2, <2>3, <2>4, GotoType DEF IngestRead, TypeOK
<1>3. CASE IngestConfirm(r)
  <2>1. claims' \in [Ingest -> Document]
    <3>1. doc[r] \in Document
      BY DEF TypeOK
    <3>2. \A d \in Document : Confirmed(d, doc[r]) \in Document
      BY <3>1, EditType
    <3>3. QED
      BY <1>3, <3>2 DEF IngestConfirm, TypeOK
  <2>2. "done" \in IngestPc /\ r \notin Revoke /\ r \notin Review
    BY DEF IngestPc, Finished
  <2>3. QED
    BY <1>r, <1>3, <2>1, <2>2, GotoType DEF IngestConfirm, TypeOK
<1>4. CASE InsertDemote(r)
  <2>1. claims' \in [Ingest -> Document]
    BY <1>4, EditType DEF InsertDemote, TypeOK
  <2>2. "allocate" \in IngestPc /\ r \notin Revoke /\ r \notin Review
    BY DEF IngestPc
  <2>3. QED
    BY <1>r, <1>4, <2>1, <2>2, GotoType DEF InsertDemote, TypeOK
<1>5. CASE InsertAllocate(r)
  <2>1. doc' \in [Ingest -> Document]
    <3>1. head + 1 \in Nat
      BY DEF TypeOK
    <3>2. \A d \in Document : [d EXCEPT !.rev = head + 1] \in Document
      BY <3>1, EditType
    <3>3. QED
      BY <1>5, <3>2 DEF InsertAllocate, TypeOK
  <2>2. "insert" \in IngestPc /\ r \notin Revoke /\ r \notin Review
    BY DEF IngestPc
  <2>3. QED
    BY <1>r, <1>5, <2>1, <2>2, GotoType DEF InsertAllocate, TypeOK
<1>6. CASE InsertStore(r)
  <2>1. claims' \in [Ingest -> Document]
    <3>1. doc[r] \in Document
      BY DEF TypeOK
    <3>2. [doc[r] EXCEPT !.current = TRUE] \in Document
      BY <3>1, EditType
    <3>3. \/ claims' = [claims EXCEPT ![r] = doc[r]]
          \/ claims' = [claims EXCEPT ![r] = [doc[r] EXCEPT !.current = TRUE]]
          \/ claims' = claims
      BY <1>6 DEF InsertStore
    <3>4. QED
      BY <3>1, <3>2, <3>3 DEF TypeOK
  <2>2. PICK l \in {"done", "index", "mark", "failed"} : Goto(r, l)
    BY <1>6 DEF InsertStore
  <2>3. l \in IngestPc /\ r \notin Revoke /\ r \notin Review
    BY DEF IngestPc, Finished
  <2>4. QED
    BY <1>r, <1>6, <2>1, <2>2, <2>3, GotoType DEF InsertStore, TypeOK
<1>7. CASE IngestMark(r)
  <2>1. claims' \in [Ingest -> Document]
    <3>1. r \in ClaimId
      BY DEF ClaimId
    <3>2. QED
      BY <1>7, <3>1, EditType DEF IngestMark, TypeOK
  <2>2. "unindex" \in IngestPc /\ r \notin Revoke /\ r \notin Review
    BY DEF IngestPc
  <2>3. QED
    BY <1>r, <1>7, <2>1, <2>2, GotoType DEF IngestMark, TypeOK
<1>8. CASE IngestUnindex(r)
  <2>1. "index" \in IngestPc /\ r \notin Revoke /\ r \notin Review
    BY DEF IngestPc
  <2>2. QED
    BY <1>r, <1>8, <2>1, GotoType DEF IngestUnindex, HideVector, TypeOK
<1>9. CASE IngestIndex(r)
  <2>1. "done" \in IngestPc /\ r \notin Revoke /\ r \notin Review
    BY DEF IngestPc, Finished
  <2>2. QED
    BY <1>r, <1>9, <2>1, GotoType DEF IngestIndex, UpsertVector, TypeOK
<1>10. QED
  BY <1>1, <1>2, <1>3, <1>4, <1>5, <1>6, <1>7, <1>8, <1>9 DEF IngestStep

\* The steps of a revoke.
LEMMA RevokeType ==
    ASSUME Base, NEW v \in Revoke, RevokeStep(v)
    PROVE  TypeOK'
<1> USE RequestKinds DEF Base, index, locals
<1>v. v \in Request /\ v \notin Ingest /\ v \notin Review
  OBVIOUS
<1>1. ASSUME NEW c \in Ingest, RevokeStart(v, c) PROVE TypeOK'
  <2>1. "mark" \in RevokePc
    BY DEF RevokePc
  <2>2. QED
    BY <1>v, <1>1, <2>1, GotoType DEF RevokeStart, TypeOK, ClaimId
<1>2. CASE RevokeMark(v)
  <2>1. claims' = [claims EXCEPT ![target[v]] =
                    [@ EXCEPT !.life = "revoked", !.current = FALSE]]
    BY <1>2 DEF RevokeMark
  <2>2. claims' \in [Ingest -> Document]
    BY <2>1, EditType DEF TypeOK
  <2>3. "unindex" \in RevokePc
    BY DEF RevokePc
  <2>4. QED
    BY <1>v, <1>2, <2>2, <2>3, GotoType DEF RevokeMark, TypeOK
<1>3. CASE RevokeUnindex(v)
  <2>1. "done" \in RevokePc
    BY DEF RevokePc, Finished
  <2>2. QED
    BY <1>v, <1>3, <2>1, GotoType DEF RevokeUnindex, HideVector, TypeOK
<1>4. QED
  BY <1>1, <1>2, <1>3 DEF RevokeStep

\* The steps of a review.
LEMMA ReviewType ==
    ASSUME Base, NEW w \in Review, ReviewStep(w)
    PROVE  TypeOK'
<1> USE RequestKinds DEF Base, index, locals
<1>w. w \in Request /\ w \notin Ingest /\ w \notin Revoke
  OBVIOUS
<1>1. ASSUME NEW c \in Ingest, NEW res \in {"ACCEPT", "REJECT"}, ReviewStart(w, c, res)
      PROVE  TypeOK'
  <2>1. PICK l \in {"reject", "read"} : Goto(w, l)
    BY <1>1 DEF ReviewStart
  <2>2. l \in ReviewPc
    BY DEF ReviewPc
  <2>3. QED
    BY <1>w, <1>1, <2>1, <2>2, GotoType DEF ReviewStart, TypeOK, ClaimId
<1>2. CASE ReviewReject(w)
  <2>1. claims' = [claims EXCEPT ![target[w]] =
                    [@ EXCEPT !.life = "revoked", !.current = FALSE]]
    BY <1>2 DEF ReviewReject
  <2>2. claims' \in [Ingest -> Document]
    BY <2>1, EditType DEF TypeOK
  <2>3. "done" \in ReviewPc
    BY DEF ReviewPc, Finished
  <2>4. QED
    BY <1>w, <1>2, <2>2, <2>3, GotoType DEF ReviewReject, TypeOK
<1>3. CASE ReviewRead(w)
  <2>1. PICK l \in {"activate", "demote"} : Goto(w, l)
    BY <1>3 DEF ReviewRead
  <2>2. l \in ReviewPc
    BY DEF ReviewPc
  <2>3. QED
    BY <1>w, <1>3, <2>1, <2>2, GotoType, LatestFact DEF ReviewRead, TypeOK
<1>4. CASE ReviewDemote(w)
  <2>1. claims' = [claims EXCEPT ![prev[w]] =
                    [@ EXCEPT !.life = "superseded", !.current = FALSE,
                              !.supersededBy = target[w]]]
    BY <1>4 DEF ReviewDemote
  <2>2. target[w] \in ClaimId
    BY DEF TypeOK
  <2>3. claims' \in [Ingest -> Document]
    BY <2>1, <2>2, EditType DEF TypeOK
  <2>4. "activate" \in ReviewPc
    BY DEF ReviewPc
  <2>5. QED
    BY <1>w, <1>4, <2>3, <2>4, GotoType DEF ReviewDemote, TypeOK
<1>5. CASE ReviewActivate(w)
  <2>1. \A d \in Document : [d EXCEPT !.life = "active", !.current = TRUE] \in Document
    BY EditType
  <2>2. claims' \in [Ingest -> Document]
    <3>1. CASE DuplicateCurrent(target[w])
      BY <1>5, <3>1 DEF ReviewActivate, TypeOK
    <3>2. CASE ~DuplicateCurrent(target[w])
      <4>1. claims' = [claims EXCEPT ![target[w]] =
                        [@ EXCEPT !.life = "active", !.current = TRUE]]
        BY <1>5, <3>2 DEF ReviewActivate
      <4>2. claims \in [Ingest -> Document]
        BY DEF TypeOK
      <4>3. QED
        BY <2>1, <4>1, <4>2
    <3>3. QED
      BY <3>1, <3>2
  <2>3. PICK l \in {"index", "failed"} : Goto(w, l)
    BY <1>5 DEF ReviewActivate
  <2>4. l \in ReviewPc
    BY DEF ReviewPc, Finished
  <2>5. QED
    BY <1>w, <1>5, <2>2, <2>3, <2>4, GotoType DEF ReviewActivate, TypeOK
<1>6. CASE ReviewRefresh(w)
  <2>1. PICK l \in {"indexActive", "indexOther"} : Goto(w, l)
    BY <1>6 DEF ReviewRefresh
  <2>2. l \in ReviewPc
    BY DEF ReviewPc
  <2>3. QED
    BY <1>w, <1>6, <2>1, <2>2, GotoType DEF ReviewRefresh, TypeOK
<1>7. CASE ReviewIndex(w)
  <2>1. "done" \in ReviewPc
    BY DEF ReviewPc, Finished
  <2>2. QED
    BY <1>w, <1>7, <2>1, GotoType DEF ReviewIndex, UpsertVector, TypeOK
<1>8. QED
  BY <1>1, <1>2, <1>3, <1>4, <1>5, <1>6, <1>7 DEF ReviewStep

LEMMA CrashType ==
    ASSUME Base, NEW r \in Request, Crash(r)
    PROVE  TypeOK'
<1>1. "crashed" \in IngestPc /\ "crashed" \in RevokePc /\ "crashed" \in ReviewPc
  BY DEF IngestPc, RevokePc, ReviewPc, Finished
<1>2. QED
  BY <1>1, GotoType DEF Base, Crash, TypeOK, index, locals

LEMMA StutterType ==
    ASSUME TypeOK, UNCHANGED vars
    PROVE  TypeOK'
BY DEF TypeOK, vars, index, locals

LEMMA NextType ==
    ASSUME Base, [Next]_vars
    PROVE  TypeOK'
BY IngestType, RevokeType, ReviewType, CrashType, StutterType DEF Next, Base

-----------------------------------------------------------------------------
(***************************************************************************)
(* The inductive invariant.  A request acts on what it read some steps     *)
(* ago, so each property needs to be known not only of the stored claims   *)
(* but of the document, the claim and the decision a request still holds.  *)
(***************************************************************************)
Building == {"read", "confirm", "demote", "allocate", "insert"}

\* A claim is stored by its own request's insert, and by nothing else.
BornAtInsert ==
    \A r \in Ingest :
        /\ pc[r] \in Building \cup {"idle"} => r \notin Stored
        /\ pc[r] \in Building => doc[r].life \in {"active", "conflicted"}
        /\ pc[r] = "mark" => r \in Stored

\* The document under construction is never current: only insert sets the flag.
DocNotCurrent == \A r \in Ingest : ~doc[r].current

\* What a request holds on to exists, and no request replaces a claim by itself.
CurrentStored == Current \subseteq Stored
IngestHeld == \A r \in Ingest : prev[r] # r /\ (prev[r] # None => prev[r] \in Stored)
ReviewHeld ==
    \A x \in Reviewer :
        /\ prev[x] # None => prev[x] \in Stored
        /\ target[x] # None => target[x] \in Stored
        /\ x \in Review /\ pc[x] = "demote" => prev[x] # target[x]

\* A revision number between its allocation and its use is above those stored
\* before and reserved for one request.
RevisionReserved ==
    /\ \A c \in Stored : claims[c].rev <= head
    /\ \A r \in Ingest : pc[r] = "insert" =>
          /\ doc[r].rev <= head
          /\ \A c \in Stored : claims[c].rev # doc[r].rev
          /\ \A q \in Ingest : pc[q] = "insert" /\ doc[q].rev = doc[r].rev => q = r

\* The claims an unstored document refers to are stored, below its revision.
DocLineage ==
    \A r \in Ingest :
        \A d \in {doc[r].supersedes, doc[r].conflictsWith} \ {None} :
            /\ d \in Stored
            /\ pc[r] = "insert" => claims[d].rev < doc[r].rev

\* Only a reviewer who asked to ACCEPT comes near activation, and a target is
\* chosen once, when the request starts.
AcceptOnly ==
    /\ \A w \in Review : pc[w] \in {"read", "demote", "activate"} => resolution[w] = "ACCEPT"
    /\ \A x \in Reviewer : pc[x] = "idle" <=> target[x] = None

IInv ==
    /\ Base
    /\ BornAtInsert /\ DocNotCurrent
    /\ CurrentStored /\ IngestHeld /\ ReviewHeld
    /\ RevisionReserved /\ RevisionsDistinct
    /\ DocLineage /\ LineageDescends
    /\ SupersededHasSuccessor
    /\ AcceptOnly /\ ConflictNeedsReview

-----------------------------------------------------------------------------
(***************************************************************************)
(* Four actions build, number and store a document.  Each of the others is *)
(* a Frame step: it edits stored claims without touching the fact they     *)
(* state, and takes no ingest request closer to its insert.                *)
(***************************************************************************)
SameFact(d, e) ==
    /\ e.rev = d.rev /\ e.value = d.value /\ e.status = d.status /\ e.eff = d.eff
    /\ e.supersedes = d.supersedes /\ e.conflictsWith = d.conflictsWith
    /\ d.prov \subseteq e.prov /\ d.conf <= e.conf
    /\ d.life = "absent" <=> e.life = "absent"

SuccessorKept(c, d, e) ==
    \/ e.life = d.life /\ e.supersededBy = d.supersededBy
    \/ e.life # "superseded"
    \/ e.supersededBy \in Stored \ {c}

Activating(c) == \E w \in Review : pc[w] = "activate" /\ target[w] = c

\* The document e may take the place of the stored one of c.
Edit(c, e) ==
    /\ SameFact(claims[c], e)
    /\ SuccessorKept(c, claims[c], e)
    /\ e.current => claims[c].current \/ Activating(c)

ClaimsFrame ==
    /\ \A c \in Ingest : Edit(c, claims'[c])
    /\ AtMostOneCurrent'

LocalsFrame ==
    /\ head' = head /\ doc' = doc /\ decision' = decision
    /\ \A r \in Ingest :
          /\ prev'[r] = prev[r]
          /\ pc'[r] \in Building => pc[r] \in Building
          /\ \A l \in {"idle", "insert", "mark"} : pc'[r] = l => pc[r] = l

Frame == ClaimsFrame /\ LocalsFrame

\* Leaving a document alone is an edit.
LEMMA NoEdit ==
    ASSUME TypeOK
    PROVE  \A c \in Ingest : Edit(c, claims[c])
<1> SUFFICES ASSUME NEW c \in Ingest PROVE Edit(c, claims[c])
  OBVIOUS
<1>1. claims[c].conf \in Nat
  BY DEF TypeOK, Document
<1>2. QED
  BY <1>1 DEF Edit, SameFact, SuccessorKept

LEMMA UnchangedFrame ==
    ASSUME Base, claims' = claims
    PROVE  ClaimsFrame
<1>1. \A c \in Ingest : claims'[c] = claims[c]
  OBVIOUS
<1>2. \A c \in Ingest : Edit(c, claims'[c])
  BY <1>1, NoEdit DEF Base
<1>3. QED
  BY <1>2 DEF ClaimsFrame, Base, AtMostOneCurrent, Current

\* An edit of one claim that does not make it current.
LEMMA EditFrame ==
    ASSUME Base, NEW c, NEW e, claims' = [claims EXCEPT ![c] = e],
           c \in Ingest => Edit(c, e) /\ (e.current => claims[c].current)
    PROVE  ClaimsFrame
<1>1. claims \in [Ingest -> Document]
  BY DEF Base, TypeOK
<1>2. \A d \in Ingest : claims'[d] = IF d = c THEN e ELSE claims[d]
  BY <1>1
<1>3. \A d \in Ingest : Edit(d, claims'[d])
  BY <1>2, NoEdit DEF Base
<1>4. Current' \subseteq Current
  BY <1>2 DEF Current
<1>5. QED
  BY <1>3, <1>4 DEF ClaimsFrame, Base, AtMostOneCurrent

\* A step of one request that goes to l: what LocalsFrame needs of l.
LEMMA GotoFrame ==
    ASSUME TypeOK, NEW r \in Request, NEW l, Goto(r, l),
           head' = head, doc' = doc, decision' = decision,
           \A q \in Ingest : prev'[q] = prev[q],
           r \in Ingest => /\ l \notin {"idle", "insert", "mark"}
                           /\ l \in Building => pc[r] \in Building
    PROVE  LocalsFrame
<1>1. \A q \in Ingest : pc'[q] = IF q = r THEN l ELSE pc[q]
  BY RequestKinds DEF Goto, TypeOK
<1>2. QED
  BY <1>1 DEF LocalsFrame

LEMMA IngestFrame ==
    ASSUME IInv, NEW r \in Ingest,
           \/ IngestConfirm(r) \/ InsertDemote(r)
           \/ IngestMark(r) \/ IngestUnindex(r) \/ IngestIndex(r)
    PROVE  Frame
<1> USE RequestKinds DEF IInv, Base, index, locals
<1>r. r \in Request
  OBVIOUS
<1>t. claims \in [Ingest -> Document] /\ doc[r] \in Document
  BY DEF TypeOK
<1>1. CASE IngestConfirm(r)
  <2>1. ASSUME prev[r] \in Ingest
        PROVE  LET e == Confirmed(claims[prev[r]], doc[r])
               IN  Edit(prev[r], e) /\ e.current = claims[prev[r]].current
    <3>1. claims[prev[r]] \in Document
      BY <1>t, <2>1
    <3>2. QED
      BY <1>t, <3>1 DEF Edit, SameFact, SuccessorKept, Confirmed, Document
  <2>2. ClaimsFrame
    BY <1>1, <2>1, <1>t, EditFrame DEF IngestConfirm
  <2>3. LocalsFrame
    BY <1>1, <1>r, GotoFrame DEF IngestConfirm, Building
  <2>4. QED
    BY <2>2, <2>3 DEF Frame
<1>2. CASE InsertDemote(r)
  <2>1. ASSUME NEW c \in Ingest
        PROVE  LET e == [claims[c] EXCEPT !.current = FALSE]
               IN  Edit(c, e) /\ ~e.current
    <3>1. claims[c] \in Document
      BY <1>t
    <3>2. QED
      BY <3>1 DEF Edit, SameFact, SuccessorKept, Document
  <2>2. \A c \in Ingest : Edit(c, claims'[c]) /\ ~claims'[c].current
    BY <1>2, <2>1 DEF InsertDemote
  <2>3. ClaimsFrame
    BY <2>2 DEF ClaimsFrame, AtMostOneCurrent, Current
  <2>4. LocalsFrame
    BY <1>2, <1>r, GotoFrame DEF InsertDemote, Building
  <2>5. QED
    BY <2>3, <2>4 DEF Frame
<1>3. CASE IngestMark(r)
  <2>1. r \in Stored /\ prev[r] # r
    BY <1>3 DEF IngestMark, BornAtInsert, IngestHeld
  <2>2. ASSUME prev[r] \in Ingest
        PROVE  LET e == [claims[prev[r]] EXCEPT !.life = "superseded", !.supersededBy = r]
               IN  Edit(prev[r], e) /\ e.current = claims[prev[r]].current
    <3>1. claims[prev[r]] \in Document /\ claims[prev[r]].life # "absent"
      BY <1>t, <2>2 DEF IngestHeld, Stored
    <3>2. QED
      BY <2>1, <3>1 DEF Edit, SameFact, SuccessorKept, Document
  <2>3. ClaimsFrame
    BY <1>3, <2>2, EditFrame DEF IngestMark
  <2>4. LocalsFrame
    BY <1>3, <1>r, GotoFrame DEF IngestMark, Building
  <2>5. QED
    BY <2>3, <2>4 DEF Frame
<1>4. CASE IngestUnindex(r) \/ IngestIndex(r)
  <2>1. ClaimsFrame
    BY <1>4, UnchangedFrame DEF IngestUnindex, IngestIndex
  <2>2. LocalsFrame
    BY <1>4, <1>r, GotoFrame DEF IngestUnindex, IngestIndex, Building
  <2>3. QED
    BY <2>1, <2>2 DEF Frame
<1>5. QED
  BY <1>1, <1>2, <1>3, <1>4

LEMMA RevokeFrame ==
    ASSUME IInv, NEW v \in Revoke, RevokeStep(v)
    PROVE  Frame
<1> USE RequestKinds DEF IInv, Base, index, locals
<1>v. v \in Request /\ v \notin Ingest
  OBVIOUS
<1>1. CASE \E c \in Ingest : RevokeStart(v, c)
  <2>1. ClaimsFrame
    BY <1>1, UnchangedFrame DEF RevokeStart
  <2>2. LocalsFrame
    BY <1>1, <1>v, GotoFrame DEF RevokeStart
  <2>3. QED
    BY <2>1, <2>2 DEF Frame
<1>2. CASE RevokeMark(v)
  <2>1. ASSUME target[v] \in Ingest
        PROVE  LET e == [claims[target[v]] EXCEPT !.life = "revoked", !.current = FALSE]
               IN  Edit(target[v], e) /\ ~e.current
    <3>1. claims[target[v]] \in Document /\ claims[target[v]].life # "absent"
      BY <2>1 DEF TypeOK, ReviewHeld, Stored
    <3>2. QED
      BY <3>1 DEF Edit, SameFact, SuccessorKept, Document
  <2>2. ClaimsFrame
    BY <1>2, <2>1, EditFrame DEF RevokeMark
  <2>3. LocalsFrame
    BY <1>2, <1>v, GotoFrame DEF RevokeMark
  <2>4. QED
    BY <2>2, <2>3 DEF Frame
<1>3. CASE RevokeUnindex(v)
  <2>1. ClaimsFrame
    BY <1>3, UnchangedFrame DEF RevokeUnindex
  <2>2. LocalsFrame
    BY <1>3, <1>v, GotoFrame DEF RevokeUnindex
  <2>3. QED
    BY <2>1, <2>2 DEF Frame
<1>4. QED
  BY <1>1, <1>2, <1>3 DEF RevokeStep

LEMMA ReviewFrame ==
    ASSUME IInv, NEW w \in Review, ReviewStep(w)
    PROVE  Frame
<1> USE RequestKinds DEF IInv, Base, index, locals
<1>w. w \in Request /\ w \notin Ingest
  OBVIOUS
<1>t. claims \in [Ingest -> Document]
  BY DEF TypeOK
<1>1. CASE \/ \E c \in Ingest, res \in {"ACCEPT", "REJECT"} : ReviewStart(w, c, res)
           \/ ReviewRead(w) \/ ReviewRefresh(w) \/ ReviewIndex(w)
  <2>1. ClaimsFrame
    BY <1>1, UnchangedFrame DEF ReviewStart, ReviewRead, ReviewRefresh, ReviewIndex
  <2>2. LocalsFrame
    <3>1. PICK l : Goto(w, l)
      BY <1>1 DEF ReviewStart, ReviewRead, ReviewRefresh, ReviewIndex
    <3>2. head' = head /\ doc' = doc /\ decision' = decision
      BY <1>1 DEF ReviewStart, ReviewRead, ReviewRefresh, ReviewIndex
    <3>3. \A q \in Ingest : prev'[q] = prev[q]
      BY <1>1, <1>w DEF ReviewStart, ReviewRead, ReviewRefresh, ReviewIndex, TypeOK
    <3>4. QED
      BY <1>w, <3>1, <3>2, <3>3, GotoFrame
  <2>3. QED
    BY <2>1, <2>2 DEF Frame
<1>2. CASE ReviewReject(w)
  <2>1. ASSUME target[w] \in Ingest
        PROVE  LET e == [claims[target[w]] EXCEPT !.life = "revoked", !.current = FALSE]
               IN  Edit(target[w], e) /\ ~e.current
    <3>1. claims[target[w]] \in Document /\ claims[target[w]].life # "absent"
      BY <1>t, <2>1 DEF ReviewHeld, Stored
    <3>2. QED
      BY <3>1 DEF Edit, SameFact, SuccessorKept, Document
  <2>2. ClaimsFrame
    BY <1>2, <2>1, EditFrame DEF ReviewReject
  <2>3. LocalsFrame
    BY <1>2, <1>w, GotoFrame DEF ReviewReject
  <2>4. QED
    BY <2>2, <2>3 DEF Frame
<1>3. CASE ReviewDemote(w)
  <2>1. target[w] \in Stored /\ prev[w] # target[w]
    BY <1>3 DEF ReviewDemote, ReviewHeld, AcceptOnly
  <2>2. ASSUME prev[w] \in Ingest
        PROVE  LET e == [claims[prev[w]] EXCEPT !.life = "superseded", !.current = FALSE,
                                                !.supersededBy = target[w]]
               IN  Edit(prev[w], e) /\ ~e.current
    <3>1. claims[prev[w]] \in Document /\ claims[prev[w]].life # "absent"
      BY <1>t, <2>2 DEF ReviewHeld, Stored
    <3>2. QED
      BY <2>1, <3>1 DEF Edit, SameFact, SuccessorKept, Document
  <2>3. ClaimsFrame
    BY <1>3, <2>2, EditFrame DEF ReviewDemote
  <2>4. LocalsFrame
    BY <1>3, <1>w, GotoFrame DEF ReviewDemote
  <2>5. QED
    BY <2>3, <2>4 DEF Frame
<1>4. CASE ReviewActivate(w)
  <2>1. target[w] \in Stored /\ Activating(target[w])
    BY <1>4 DEF ReviewActivate, ReviewHeld, AcceptOnly, Activating
  <2>2. LocalsFrame
    <3>1. PICK l : Goto(w, l)
      BY <1>4 DEF ReviewActivate
    <3>2. QED
      BY <1>4, <1>w, <3>1, GotoFrame DEF ReviewActivate
  <2>3. CASE DuplicateCurrent(target[w])
    <3>1. ClaimsFrame
      BY <1>4, <2>3, UnchangedFrame DEF ReviewActivate
    <3>2. QED
      BY <2>2, <3>1 DEF Frame
  <2>4. CASE ~DuplicateCurrent(target[w])
    <3> DEFINE e == [claims[target[w]] EXCEPT !.life = "active", !.current = TRUE]
    <3>1. claims' = [claims EXCEPT ![target[w]] = e]
      BY <1>4, <2>4 DEF ReviewActivate
    <3>2. claims[target[w]] \in Document /\ claims[target[w]].life # "absent"
      BY <1>t, <2>1 DEF Stored
    <3>3. Edit(target[w], e)
      BY <2>1, <3>2 DEF Edit, SameFact, SuccessorKept, Document
    <3> HIDE DEF e
    <3>4. \A d \in Ingest : claims'[d] = IF d = target[w] THEN e ELSE claims[d]
      BY <1>t, <3>1
    <3>5. \A d \in Ingest : Edit(d, claims'[d])
      BY <3>3, <3>4, NoEdit
    <3>6. Current' \subseteq {target[w]}
      BY <2>4, <3>4 DEF DuplicateCurrent, Current
    <3>7. QED
      BY <2>2, <3>5, <3>6 DEF Frame, ClaimsFrame, AtMostOneCurrent
  <2>5. QED
    BY <2>3, <2>4
<1>5. QED
  BY <1>1, <1>2, <1>3, <1>4 DEF ReviewStep

LEMMA CrashFrame ==
    ASSUME IInv, NEW r \in Request, Crash(r)
    PROVE  Frame
<1> USE DEF IInv, Base, index, locals
<1>1. ClaimsFrame
  BY UnchangedFrame DEF Crash
<1>2. LocalsFrame
  BY GotoFrame DEF Crash, Building
<1>3. QED
  BY <1>1, <1>2 DEF Frame

LEMMA StutterFrame ==
    ASSUME IInv, UNCHANGED vars
    PROVE  Frame
<1>1. ClaimsFrame
  BY UnchangedFrame DEF IInv, vars
<1>2. LocalsFrame
  BY DEF LocalsFrame, vars, locals
<1>3. QED
  BY <1>1, <1>2 DEF Frame

\* Every step is one of the four that bring a claim into the store, or a frame.
LEMMA NextCases ==
    ASSUME IInv, [Next]_vars
    PROVE  \/ \E r \in Ingest, i \in Input : IngestStart(r, i)
           \/ \E r \in Ingest : IngestRead(r)
           \/ \E r \in Ingest : InsertAllocate(r)
           \/ \E r \in Ingest : InsertStore(r)
           \/ Frame
<1>1. CASE UNCHANGED vars
  BY <1>1, StutterFrame
<1>2. ASSUME NEW r \in Ingest, IngestStep(r)
      PROVE  \/ \E i \in Input : IngestStart(r, i)
             \/ IngestRead(r) \/ InsertAllocate(r) \/ InsertStore(r) \/ Frame
  BY <1>2, IngestFrame DEF IngestStep
<1>3. QED
  BY <1>1, <1>2, RevokeFrame, ReviewFrame, CrashFrame DEF Next

-----------------------------------------------------------------------------
(* The inductive invariant is preserved. *)

\* What a reviewer holds: no step of another request changes it, its target is
\* chosen once, and every claim in the store stays there.
ReviewerKept ==
    /\ \A x \in Reviewer :
          /\ target[x] # None => target'[x] = target[x]
          /\ target'[x] # None => target'[x] \in Stored
          /\ prev'[x] # None => prev'[x] \in Stored
    /\ \A w \in Review :
          /\ target[w] # None => resolution'[w] = resolution[w]
          /\ pc'[w] = "demote" => prev'[w] # target'[w]
    /\ AcceptOnly'

LEMMA OthersKeepReviewers ==
    ASSUME IInv, UNCHANGED <<target, resolution>>, NEW r \in Request \ Reviewer, NEW l,
           Goto(r, l), \A x \in Reviewer : prev'[x] = prev[x]
    PROVE  ReviewerKept
<1>1. \A x \in Reviewer : pc'[x] = pc[x]
  BY DEF Goto, IInv, Base, TypeOK
<1>2. QED
  BY <1>1 DEF ReviewerKept, IInv, AcceptOnly, ReviewHeld, Reviewer

LEMMA ReviewersKept ==
    ASSUME IInv, [Next]_vars
    PROVE  ReviewerKept
<1> USE RequestKinds DEF IInv, Base, index, locals
<1>t. /\ pc \in [Request -> IngestPc \cup RevokePc \cup ReviewPc]
      /\ prev \in [Request -> ClaimId] /\ target \in [Reviewer -> ClaimId]
      /\ resolution \in [Review -> {"none", "ACCEPT", "REJECT"}]
      /\ Reviewer \subseteq Request
  BY DEF TypeOK, Request
<1>1. CASE UNCHANGED vars
  BY <1>1 DEF vars, ReviewerKept, AcceptOnly, ReviewHeld, Reviewer
<1>2. ASSUME NEW r \in Ingest, IngestStep(r)
      PROVE  ReviewerKept
  <2>1. r \in Request \ Reviewer
    BY ConstantsOK
  <2>2. UNCHANGED <<target, resolution>>
    BY <1>2 DEF IngestStep, IngestStart, IngestRead, IngestConfirm, InsertDemote,
                InsertAllocate, InsertStore, IngestMark, IngestUnindex, IngestIndex
  <2>3. \E l : Goto(r, l)
    BY <1>2 DEF IngestStep, IngestStart, IngestRead, IngestConfirm, InsertDemote,
                InsertAllocate, InsertStore, IngestMark, IngestUnindex, IngestIndex
  <2>4. \A x \in Reviewer : prev'[x] = prev[x]
    BY <1>2, <1>t, <2>1
       DEF IngestStep, IngestStart, IngestRead, IngestConfirm, InsertDemote,
           InsertAllocate, InsertStore, IngestMark, IngestUnindex, IngestIndex
  <2>5. QED
    BY <2>1, <2>2, <2>3, <2>4, OthersKeepReviewers
<1>3. ASSUME NEW v \in Revoke, RevokeStep(v)
      PROVE  ReviewerKept
  <2>1. ASSUME NEW c \in Ingest, RevokeStart(v, c) PROVE ReviewerKept
    <3>1. \A x \in Reviewer :
            /\ target'[x] = IF x = v THEN c ELSE target[x]
            /\ pc'[x] = IF x = v THEN "mark" ELSE pc[x]
      BY <2>1, <1>t DEF RevokeStart, Goto
    <3>2. prev' = prev /\ resolution' = resolution /\ c \in Stored /\ c # None
          /\ target[v] = None
      BY <2>1 DEF RevokeStart, Stored, AcceptOnly
    <3>3. QED
      BY <3>1, <3>2 DEF ReviewerKept, AcceptOnly, ReviewHeld
  <2>2. CASE RevokeMark(v) \/ RevokeUnindex(v)
    <3>1. PICK l \in {"unindex", "done"} : \A x \in Reviewer :
            pc'[x] = IF x = v THEN l ELSE pc[x]
      BY <2>2, <1>t DEF RevokeMark, RevokeUnindex, Goto
    <3>2. UNCHANGED <<prev, target, resolution>> /\ pc[v] # "idle"
      BY <2>2 DEF RevokeMark, RevokeUnindex
    <3>3. QED
      BY <3>1, <3>2 DEF ReviewerKept, AcceptOnly, ReviewHeld
  <2>3. QED
    BY <1>3, <2>1, <2>2 DEF RevokeStep
<1>4. ASSUME NEW w \in Review, ReviewStep(w)
      PROVE  ReviewerKept
  <2>1. ASSUME NEW c \in Ingest, NEW res \in {"ACCEPT", "REJECT"}, ReviewStart(w, c, res)
        PROVE  ReviewerKept
    <3>1. \A x \in Reviewer :
            /\ target'[x] = IF x = w THEN c ELSE target[x]
            /\ pc'[x] = IF x = w THEN (IF res = "REJECT" THEN "reject" ELSE "read")
                        ELSE pc[x]
      BY <2>1, <1>t DEF ReviewStart, Goto
    <3>2. \A x \in Review : resolution'[x] = IF x = w THEN res ELSE resolution[x]
      BY <2>1, <1>t DEF ReviewStart
    <3>3. prev' = prev /\ c \in Stored /\ c # None /\ target[w] = None
      BY <2>1 DEF ReviewStart, Stored, AcceptOnly
    <3>4. QED
      BY <3>1, <3>2, <3>3 DEF ReviewerKept, AcceptOnly, ReviewHeld
  <2>2. CASE ReviewRead(w)
    <3>1. \A x \in Reviewer :
            /\ prev'[x] = IF x = w THEN Latest ELSE prev[x]
            /\ pc'[x] = IF x # w THEN pc[x]
                        ELSE IF Latest \in {None, target[w]} THEN "activate" ELSE "demote"
      BY <2>2, <1>t DEF ReviewRead, Goto
    <3>2. UNCHANGED <<target, resolution>> /\ pc[w] = "read"
      BY <2>2 DEF ReviewRead
    <3>3. Latest # None => Latest \in Stored
      BY LatestFact DEF CurrentStored
    <3>4. QED
      BY <3>1, <3>2, <3>3 DEF ReviewerKept, AcceptOnly, ReviewHeld
  <2>3. CASE ReviewDemote(w)
    <3>1. \A x \in Reviewer : pc'[x] = IF x = w THEN "activate" ELSE pc[x]
      BY <2>3, <1>t DEF ReviewDemote, Goto
    <3>2. UNCHANGED <<prev, target, resolution>> /\ pc[w] = "demote"
      BY <2>3 DEF ReviewDemote
    <3>3. QED
      BY <3>1, <3>2 DEF ReviewerKept, AcceptOnly, ReviewHeld
  <2>4. CASE ReviewReject(w) \/ ReviewActivate(w) \/ ReviewRefresh(w) \/ ReviewIndex(w)
    <3>1. PICK l \in {"done", "index", "failed", "indexActive", "indexOther"} :
            \A x \in Reviewer : pc'[x] = IF x = w THEN l ELSE pc[x]
      BY <2>4, <1>t DEF ReviewReject, ReviewActivate, ReviewRefresh, ReviewIndex, Goto
    <3>2. UNCHANGED <<prev, target, resolution>> /\ pc[w] # "idle"
      BY <2>4 DEF ReviewReject, ReviewActivate, ReviewRefresh, ReviewIndex
    <3>3. QED
      BY <3>1, <3>2 DEF ReviewerKept, AcceptOnly, ReviewHeld
  <2>5. QED
    BY <1>4, <2>1, <2>2, <2>3, <2>4 DEF ReviewStep
<1>5. ASSUME NEW r \in Request, Crash(r)
      PROVE  ReviewerKept
  <2>1. \A x \in Reviewer : pc'[x] = IF x = r THEN "crashed" ELSE pc[x]
    BY <1>5, <1>t DEF Crash, Goto
  <2>2. UNCHANGED <<prev, target, resolution>> /\ pc[r] # "idle"
    BY <1>5 DEF Crash
  <2>3. QED
    BY <2>1, <2>2 DEF ReviewerKept, AcceptOnly, ReviewHeld
<1>6. QED
  BY <1>1, <1>2, <1>3, <1>4, <1>5 DEF Next

\* All of IInv but its reviewers' part, which ReviewersKept carries over.
ClaimInv ==
    /\ AtMostOneCurrent
    /\ BornAtInsert /\ DocNotCurrent
    /\ CurrentStored /\ IngestHeld
    /\ RevisionReserved /\ RevisionsDistinct
    /\ DocLineage /\ LineageDescends
    /\ SupersededHasSuccessor /\ ConflictNeedsReview

\* A claim in the store stays there.
LEMMA FrameStored ==
    ASSUME Frame
    PROVE  Stored' = Stored
BY DEF Frame, ClaimsFrame, Edit, SameFact, Stored

LEMMA FrameInv ==
    ASSUME IInv, Frame, ReviewerKept
    PROVE  ClaimInv'
<1> USE RequestKinds DEF IInv, Base
<1>1. Stored' = Stored
  BY FrameStored
<1>2. ASSUME NEW c \in Ingest
      PROVE  /\ claims'[c].rev = claims[c].rev
             /\ claims'[c].supersedes = claims[c].supersedes
             /\ claims'[c].conflictsWith = claims[c].conflictsWith
             /\ SuccessorKept(c, claims[c], claims'[c])
             /\ claims'[c].current => claims[c].current \/ Activating(c)
  BY DEF Frame, ClaimsFrame, Edit, SameFact
<1>3. /\ head' = head /\ doc' = doc /\ decision' = decision
      /\ \A r \in Ingest :
            /\ prev'[r] = prev[r]
            /\ pc'[r] \in Building => pc[r] \in Building
            /\ pc'[r] = "idle" => pc[r] = "idle"
            /\ pc'[r] = "insert" => pc[r] = "insert"
            /\ pc'[r] = "mark" => pc[r] = "mark"
  BY DEF Frame, LocalsFrame
<1>4. AtMostOneCurrent'
  BY DEF Frame, ClaimsFrame
<1>5. BornAtInsert' /\ DocNotCurrent' /\ IngestHeld'
  BY <1>1, <1>3 DEF BornAtInsert, DocNotCurrent, IngestHeld, Building
<1>6. CurrentStored'
  <2>1. \A c \in Ingest : Activating(c) => c \in Stored
    BY DEF Activating, ReviewHeld
  <2>2. QED
    BY <1>1, <1>2, <2>1 DEF CurrentStored, Current
<1>7. RevisionReserved' /\ RevisionsDistinct'
  BY <1>1, <1>2, <1>3 DEF RevisionReserved, RevisionsDistinct, Stored
<1>8. DocLineage' /\ LineageDescends'
  BY <1>1, <1>2, <1>3 DEF DocLineage, LineageDescends, Stored
<1>9. SupersededHasSuccessor'
  BY <1>1, <1>2 DEF SupersededHasSuccessor, SuccessorKept, Stored
<1>10. ConflictNeedsReview'
  <2> SUFFICES ASSUME NEW c \in Current', decision'[c] = "CONFLICT"
               PROVE  \E w \in Review : target'[w] = c /\ resolution'[w] = "ACCEPT"
    BY DEF ConflictNeedsReview
  <2>1. \E w \in Review : target[w] = c /\ resolution[w] = "ACCEPT"
    BY <1>2, <1>3 DEF Current, Activating, AcceptOnly, ConflictNeedsReview
  <2>2. c # None
    BY DEF Current
  <2>3. QED
    BY <2>1, <2>2 DEF ReviewerKept
<1>11. QED
  BY <1>4, <1>5, <1>6, <1>7, <1>8, <1>9, <1>10 DEF ClaimInv

\* The three steps that build a document leave every stored claim alone.
LEMMA BuildInv ==
    ASSUME IInv, ReviewerKept, NEW r \in Ingest,
           \/ \E i \in Input : IngestStart(r, i)
           \/ IngestRead(r) \/ InsertAllocate(r)
    PROVE  ClaimInv'
<1> USE RequestKinds DEF IInv, Base, index
<1>t. /\ claims \in [Ingest -> Document] /\ doc \in [Ingest -> Document]
      /\ pc \in [Request -> IngestPc \cup RevokePc \cup ReviewPc]
      /\ decision \in [Ingest -> Decision] /\ prev \in [Request -> ClaimId]
      /\ head \in Nat
  BY DEF TypeOK
<1>1. claims' = claims /\ Stored' = Stored /\ Current' = Current
  BY DEF IngestStart, IngestRead, InsertAllocate, Stored, Current
<1>2. r \notin Stored /\ pc[r] \in Building \cup {"idle"}
  BY DEF IngestStart, IngestRead, InsertAllocate, BornAtInsert, Building
<1>3. \A q \in Ingest \ {r} :
        /\ pc'[q] = pc[q] /\ doc'[q] = doc[q] /\ prev'[q] = prev[q]
        /\ decision'[q] = decision[q]
  BY <1>t DEF IngestStart, IngestRead, InsertAllocate, Goto
<1>4. AtMostOneCurrent' /\ CurrentStored' /\ RevisionsDistinct' /\ LineageDescends'
      /\ SupersededHasSuccessor'
  BY <1>1 DEF AtMostOneCurrent, CurrentStored, RevisionsDistinct, LineageDescends,
              SupersededHasSuccessor
<1>5. ConflictNeedsReview'
  <2>1. \A c \in Current : c # r /\ c # None
    BY <1>2 DEF CurrentStored, Stored
  <2>2. QED
    BY <1>1, <1>3, <2>1 DEF ConflictNeedsReview, ReviewerKept, Current
<1>6. ASSUME NEW i \in Input, IngestStart(r, i)
      PROVE  /\ BornAtInsert' /\ DocNotCurrent' /\ IngestHeld'
             /\ RevisionReserved' /\ DocLineage'
  <2>1. head' = head /\ prev' = prev
    BY <1>6 DEF IngestStart
  <2>2. \/ doc'[r] = ClaimDoc(i) /\ pc'[r] = "read"
        \/ doc'[r] = doc[r] /\ pc'[r] = "done"
    BY <1>6, <1>t DEF IngestStart, Goto
  <2>3. ClaimDoc(i).life = "active" /\ ~ClaimDoc(i).current
        /\ ClaimDoc(i).supersedes = None /\ ClaimDoc(i).conflictsWith = None
    BY DEF ClaimDoc, NoDocument
  <2>4. BornAtInsert' /\ DocNotCurrent' /\ IngestHeld'
    BY <1>1, <1>2, <1>3, <2>1, <2>2, <2>3
       DEF BornAtInsert, DocNotCurrent, IngestHeld, Building
  <2>5. RevisionReserved' /\ DocLineage'
    BY <1>1, <1>2, <1>3, <2>1, <2>2, <2>3 DEF RevisionReserved, DocLineage
  <2>6. QED
    BY <2>4, <2>5
<1>7. CASE IngestRead(r)
  <2> DEFINE what == Decide(doc[r], Latest)
             d == Prepared(doc[r], Latest, what)
  <2>1. head' = head /\ doc'[r] = d /\ prev'[r] = Latest
        /\ pc'[r] \in {"confirm", "allocate", "demote"}
    BY <1>7, <1>t DEF IngestRead, Goto
  <2>2. pc[r] \in Building
    BY <1>7 DEF IngestRead, Building
  <2>3. Latest # None => Latest \in Stored
    BY LatestFact DEF CurrentStored
  <2>4. doc[r] \in Document
    BY <1>t
  <2>5. d.life \in {"active", "conflicted"} /\ ~d.current
    BY <2>2, <2>4 DEF Prepared, Document, BornAtInsert, DocNotCurrent
  <2>6. d.supersedes \in {doc[r].supersedes, Latest}
        /\ d.conflictsWith \in {doc[r].conflictsWith, Latest}
    BY <2>4 DEF Prepared, Document
  <2> HIDE DEF what, d
  <2>7. BornAtInsert' /\ DocNotCurrent' /\ IngestHeld'
    BY <1>1, <1>2, <1>3, <2>1, <2>3, <2>5
       DEF BornAtInsert, DocNotCurrent, IngestHeld, Building
  <2>8. RevisionReserved' /\ DocLineage'
    BY <1>1, <1>3, <2>1, <2>3, <2>6 DEF RevisionReserved, DocLineage
  <2>9. QED
    BY <1>4, <1>5, <2>7, <2>8 DEF ClaimInv
<1>8. CASE InsertAllocate(r)
  <2>1. doc[r] \in Document
    BY <1>t
  <2>2. head' = head + 1 /\ prev' = prev /\ pc'[r] = "insert"
    BY <1>8, <1>t DEF InsertAllocate, Goto
  <2>3. /\ doc'[r].rev = head + 1 /\ doc'[r].life = doc[r].life
        /\ doc'[r].current = doc[r].current /\ doc'[r].supersedes = doc[r].supersedes
        /\ doc'[r].conflictsWith = doc[r].conflictsWith
    <3>1. doc' = [doc EXCEPT ![r].rev = head + 1]
      BY <1>8 DEF InsertAllocate
    <3>2. doc'[r] = [doc[r] EXCEPT !.rev = head + 1]
      BY <1>t, <3>1
    <3>3. QED
      BY <2>1, <3>2 DEF Document
  <2>4. \A c \in Ingest : claims[c].rev \in Nat /\ doc[c].rev \in Nat
    BY <1>t DEF Document
  <2>5. pc[r] \in Building
    BY <1>8 DEF InsertAllocate, Building
  <2>6. BornAtInsert' /\ DocNotCurrent' /\ IngestHeld'
    BY <1>1, <1>2, <1>3, <2>2, <2>3, <2>5
       DEF BornAtInsert, DocNotCurrent, IngestHeld, Building
  <2>7. RevisionReserved'
    <3>1. \A c \in Stored : claims[c].rev <= head + 1 /\ claims[c].rev # head + 1
      BY <1>t, <2>4 DEF RevisionReserved, Stored
    <3>2. \A q \in Ingest \ {r} : pc[q] = "insert" =>
            doc[q].rev <= head + 1 /\ doc[q].rev # head + 1
      BY <1>t, <2>4 DEF RevisionReserved
    <3>3. QED
      BY <1>1, <1>3, <1>t, <2>2, <2>3, <3>1, <3>2 DEF RevisionReserved
  <2>8. DocLineage'
    <3>1. \A c \in Stored : claims[c].rev < head + 1
      BY <1>t, <2>4 DEF RevisionReserved, Stored
    <3>2. QED
      BY <1>1, <1>3, <2>2, <2>3, <3>1 DEF DocLineage
  <2>9. QED
    BY <1>4, <1>5, <2>6, <2>7, <2>8 DEF ClaimInv
<1>9. QED
  BY <1>4, <1>5, <1>6, <1>7, <1>8 DEF ClaimInv

\* Only a document whose insert was not refused reaches the store, whole.
LEMMA StoreEffect ==
    ASSUME IInv, NEW r \in Ingest, InsertStore(r)
    PROVE  /\ pc[r] = "insert" /\ pc'[r] \in {"done", "index", "mark", "failed"}
           /\ \A q \in Ingest \ {r} : pc'[q] = pc[q]
           /\ UNCHANGED <<head, doc, decision, prev>>
           /\ \/ claims' = claims /\ pc'[r] # "mark"
              \/ \E b \in BOOLEAN :
                    /\ claims' = [claims EXCEPT ![r] = [doc[r] EXCEPT !.current = b]]
                    /\ b => decision[r] \in MakeCurrent /\ ~DuplicateCurrent(r)
<1> USE RequestKinds DEF IInv, Base, locals
<1>t. doc[r] \in Document /\ pc \in [Request -> IngestPc \cup RevokePc \cup ReviewPc]
  BY DEF TypeOK
<1>1. /\ pc[r] = "insert" /\ pc'[r] \in {"done", "index", "mark", "failed"}
      /\ \A q \in Ingest \ {r} : pc'[q] = pc[q]
      /\ UNCHANGED <<head, doc, decision, prev>>
  BY <1>t DEF InsertStore, Goto
<1>2. CASE decision[r] \notin MakeCurrent
  <2>1. claims' = [claims EXCEPT ![r] = doc[r]]
    BY <1>2 DEF InsertStore
  <2>2. doc[r] = [doc[r] EXCEPT !.current = FALSE]
    BY <1>t DEF DocNotCurrent, Document
  <2>3. claims' = [claims EXCEPT ![r] = [doc[r] EXCEPT !.current = FALSE]]
    BY <2>1, <2>2
  <2>4. QED
    BY <1>1, <2>3
<1>3. CASE decision[r] \in MakeCurrent /\ ~DuplicateCurrent(r)
  <2>1. claims' = [claims EXCEPT ![r] = [doc[r] EXCEPT !.current = TRUE]]
    BY <1>3 DEF InsertStore
  <2>2. QED
    BY <1>1, <1>3, <2>1
<1>4. CASE decision[r] \in MakeCurrent /\ DuplicateCurrent(r)
  BY <1>1, <1>4, <1>t DEF InsertStore, Goto
<1>5. QED
  BY <1>2, <1>3, <1>4

LEMMA StoreInv ==
    ASSUME IInv, ReviewerKept, NEW r \in Ingest, InsertStore(r)
    PROVE  ClaimInv'
<1> USE RequestKinds DEF IInv, Base
<1>t. /\ claims \in [Ingest -> Document] /\ doc \in [Ingest -> Document]
  BY DEF TypeOK
<1>1. /\ pc[r] = "insert" /\ pc'[r] \in {"done", "index", "mark", "failed"}
      /\ \A q \in Ingest \ {r} : pc'[q] = pc[q]
      /\ head' = head /\ doc' = doc /\ decision' = decision /\ prev' = prev
  BY StoreEffect
<1>2. r \notin Stored /\ doc[r].life \in {"active", "conflicted"}
  BY <1>1 DEF BornAtInsert, Building
<1>3. \A c \in Stored : c \in Ingest /\ c # r /\ c # None
  BY <1>2 DEF Stored
<1>c. \A c \in Current : c \in Stored
  BY DEF CurrentStored
<1>4. CASE claims' = claims /\ pc'[r] # "mark"
  <2>1. Stored' = Stored /\ Current' = Current /\ claims' = claims
    BY <1>4 DEF Stored, Current
  <2>2. AtMostOneCurrent' /\ CurrentStored' /\ RevisionsDistinct' /\ LineageDescends'
        /\ SupersededHasSuccessor'
    BY <2>1 DEF AtMostOneCurrent, CurrentStored, RevisionsDistinct, LineageDescends,
                SupersededHasSuccessor
  <2>3. BornAtInsert' /\ DocNotCurrent' /\ IngestHeld'
    BY <1>1, <1>4, <2>1 DEF BornAtInsert, DocNotCurrent, IngestHeld, Building
  <2>4. RevisionReserved' /\ DocLineage'
    BY <1>1, <2>1 DEF RevisionReserved, DocLineage
  <2>5. ConflictNeedsReview'
    BY <1>1, <1>3, <1>c, <2>1 DEF ConflictNeedsReview, ReviewerKept
  <2>6. QED
    BY <2>2, <2>3, <2>4, <2>5 DEF ClaimInv
<1>5. ASSUME NEW b \in BOOLEAN,
             claims' = [claims EXCEPT ![r] = [doc[r] EXCEPT !.current = b]],
             b => decision[r] \in MakeCurrent /\ ~DuplicateCurrent(r)
      PROVE  ClaimInv'
  <2> DEFINE e == [doc[r] EXCEPT !.current = b]
  <2>1. /\ e.rev = doc[r].rev /\ e.life = doc[r].life /\ e.current = b
        /\ e.supersedes = doc[r].supersedes /\ e.conflictsWith = doc[r].conflictsWith
    BY <1>t DEF Document
  <2>2. claims'[r] = e /\ \A c \in Ingest \ {r} : claims'[c] = claims[c]
    BY <1>t, <1>5
  <2> HIDE DEF e
  <2>3. Stored' = Stored \cup {r}
    BY <1>2, <2>1, <2>2 DEF Stored
  <2>4. Current' = IF b THEN Current \cup {r} ELSE Current
    BY <1>3, <1>c, <2>1, <2>2 DEF Current
  <2>5. AtMostOneCurrent' /\ CurrentStored'
    <3>1. b => Current = {}
      BY <1>3, <1>5, <1>c DEF DuplicateCurrent
    <3>2. QED
      BY <2>3, <2>4, <3>1 DEF AtMostOneCurrent, CurrentStored
  <2>6. BornAtInsert' /\ DocNotCurrent' /\ IngestHeld'
    BY <1>1, <2>3 DEF BornAtInsert, DocNotCurrent, IngestHeld, Building
  <2>7. RevisionReserved' /\ RevisionsDistinct'
    BY <1>1, <1>3, <2>1, <2>2, <2>3 DEF RevisionReserved, RevisionsDistinct
  <2>8. DocLineage' /\ LineageDescends'
    BY <1>1, <1>3, <2>1, <2>2, <2>3 DEF DocLineage, LineageDescends
  <2>9. SupersededHasSuccessor'
    BY <1>2, <1>3, <2>1, <2>2, <2>3 DEF SupersededHasSuccessor
  <2>10. ConflictNeedsReview'
    <3>1. b => decision[r] # "CONFLICT"
      BY <1>5 DEF MakeCurrent
    <3>2. QED
      BY <1>1, <1>3, <1>c, <2>4, <3>1 DEF ConflictNeedsReview, ReviewerKept
  <2>11. QED
    BY <2>5, <2>6, <2>7, <2>8, <2>9, <2>10 DEF ClaimInv
<1>6. QED
  BY <1>4, <1>5, StoreEffect

LEMMA InitInv == Init => IInv
<1> SUFFICES ASSUME Init PROVE IInv
  OBVIOUS
<1>1. Base
  BY InitBase
<1>2. Stored = {} /\ Current = {}
  BY DEF Init, Stored, Current, NoDocument
<1>3. ClaimInv
  BY <1>1, <1>2, RequestKinds
     DEF Init, ClaimInv, Base, BornAtInsert, DocNotCurrent, CurrentStored, IngestHeld,
         RevisionReserved, RevisionsDistinct, DocLineage, LineageDescends,
         SupersededHasSuccessor, ConflictNeedsReview, Building, NoDocument
<1>4. ReviewHeld /\ AcceptOnly
  BY RequestKinds DEF Init, ReviewHeld, AcceptOnly, Reviewer, Request
<1>5. QED
  BY <1>1, <1>3, <1>4 DEF IInv, ClaimInv

LEMMA NextInv ==
    ASSUME IInv, [Next]_vars
    PROVE  IInv'
<1>1. TypeOK'
  BY NextType DEF IInv
<1>2. ReviewerKept
  BY ReviewersKept
<1>3. ClaimInv' /\ Stored \subseteq Stored'
  <2>1. CASE \/ \E r \in Ingest, i \in Input : IngestStart(r, i)
             \/ \E r \in Ingest : IngestRead(r) \/ InsertAllocate(r)
    <3>1. ClaimInv'
      BY <1>2, <2>1, BuildInv
    <3>2. claims' = claims
      BY <2>1 DEF IngestStart, IngestRead, InsertAllocate
    <3>3. QED
      BY <3>1, <3>2 DEF Stored
  <2>2. ASSUME NEW r \in Ingest, InsertStore(r)
        PROVE  ClaimInv' /\ Stored \subseteq Stored'
    <3>1. ClaimInv'
      BY <1>2, <2>2, StoreInv
    <3>2. r \notin Stored
      BY <2>2 DEF InsertStore, IInv, BornAtInsert, Building
    <3>3. \A c \in Stored : claims'[c] = claims[c]
      BY <2>2, <3>2, StoreEffect DEF IInv, Base, TypeOK, Stored
    <3>4. QED
      BY <3>1, <3>3 DEF Stored
  <2>3. CASE Frame
    BY <1>2, <2>3, FrameInv, FrameStored
  <2>4. QED
    BY <2>1, <2>2, <2>3, NextCases
<1>4. ReviewHeld' /\ AcceptOnly'
  BY <1>2, <1>3 DEF ReviewerKept, ReviewHeld
<1>5. QED
  BY <1>1, <1>3, <1>4 DEF IInv, ClaimInv, Base
-----------------------------------------------------------------------------
(* The theorems. *)

\* IInv holds in every state of every behaviour, for any number of ingests,
\* revokes and reviews, any inputs, and crashes at any await.
THEOREM Invariance == Spec => []IInv
<1>1. IInv /\ [Next]_vars => IInv'
  BY NextInv
<1>2. QED
  BY <1>1, InitInv, PTL DEF Spec

\* Every document, counter and request local stays in its domain.
THEOREM TypeCorrect == Spec => []TypeOK
<1>1. IInv => TypeOK
  BY DEF IInv, Base
<1>2. QED
  BY <1>1, Invariance, PTL

\* At most one claim of the identity is current, although two different
\* requests set the flag and each demotes and sets in separate awaits.
THEOREM OneCurrent == Spec => []AtMostOneCurrent
<1>1. IInv => AtMostOneCurrent
  BY DEF IInv, Base
<1>2. QED
  BY <1>1, Invariance, PTL

\* A revision allocated in one await and stored in another is used once.
THEOREM DistinctRevisions == Spec => []RevisionsDistinct
<1>1. IInv => RevisionsDistinct
  BY DEF IInv
<1>2. QED
  BY <1>1, Invariance, PTL

\* Lineage points to stored claims of lower revisions, so it has no loop.
THEOREM LineageWellFounded == Spec => []LineageDescends
<1>1. IInv => LineageDescends
  BY DEF IInv
<1>2. QED
  BY <1>1, Invariance, PTL

\* A superseded claim names a stored successor, whatever crashed in between.
THEOREM SuccessorExists == Spec => []SupersededHasSuccessor
<1>1. IInv => SupersededHasSuccessor
  BY DEF IInv
<1>2. QED
  BY <1>1, Invariance, PTL

\* A conflicting claim becomes current only for a reviewer who asked for it.
THEOREM ConflictsReviewed == Spec => []ConflictNeedsReview
<1>1. IInv => ConflictNeedsReview
  BY DEF IInv
<1>2. QED
  BY <1>1, Invariance, PTL

\* A stored claim is never rewritten: the fact it states and its lineage stay,
\* its evidence grows and its confidence rises.
THEOREM HistoryKept == Spec => HistoryAppendOnly
<1> DEFINE Kept ==
        \A c \in Stored :
            /\ \A f \in {"rev", "value", "status", "eff", "supersedes", "conflictsWith"} :
                    claims'[c][f] = claims[c][f]
            /\ claims[c].prov \subseteq claims'[c].prov
            /\ claims[c].conf <= claims'[c].conf
<1>1. ASSUME IInv, [Next]_vars
      PROVE  Kept
  <2>1. ASSUME NEW c \in Stored, claims'[c] = claims[c]
        PROVE  claims[c].prov \subseteq claims'[c].prov /\ claims[c].conf <= claims'[c].conf
    BY <1>1, <2>1 DEF IInv, Base, TypeOK, Document, Stored
  <2>2. CASE claims' = claims
    BY <2>1, <2>2
  <2>3. CASE \/ \E r \in Ingest, i \in Input : IngestStart(r, i)
             \/ \E r \in Ingest : IngestRead(r) \/ InsertAllocate(r)
    BY <2>2, <2>3 DEF IngestStart, IngestRead, InsertAllocate
  <2>4. ASSUME NEW r \in Ingest, InsertStore(r)
        PROVE  Kept
    <3>1. r \notin Stored
      BY <1>1, <2>4 DEF InsertStore, IInv, BornAtInsert, Building
    <3>2. \A c \in Stored : claims'[c] = claims[c]
      BY <1>1, <2>4, <3>1, StoreEffect DEF IInv, Base, TypeOK, Stored
    <3>3. QED
      BY <2>1, <3>2
  <2>5. CASE Frame
    BY <2>5 DEF Frame, ClaimsFrame, Edit, SameFact, Stored
  <2>6. QED
    BY <1>1, <2>3, <2>4, <2>5, NextCases
<1>2. QED
  BY <1>1, Invariance, PTL DEF Spec, HistoryAppendOnly

\* The history of an identity is a well-founded order that survives every race.
THEOREM LineageAlwaysSound == Spec => []LineageSound
<1>1. IInv => LineageSound
  BY DEF IInv, LineageSound
<1>2. QED
  BY <1>1, Invariance, PTL
=============================================================================
