---------------------- MODULE MemoryClaimCurrentProofs ----------------------
(***************************************************************************)
(* Proofs about which claim is served: an identity keeps a current claim,  *)
(* it is active, and a revoked claim stays away; and that requests served  *)
(* one at a time are the operations of ClaimLedger.  They stand on the     *)
(* inductive invariant IInv of MemoryClaimProofs.                          *)
(***************************************************************************)
EXTENDS MemoryClaimProofs, ClaimSerial

Accepting == {"read", "demote", "activate"}
Holding   == {"allocate", "insert", "mark"}

\* What a request's place says of what it holds.
LocalsAgree ==
    /\ \A r \in Ingest :
          /\ pc[r] = "read" => doc[r].life = "active"
          /\ pc[r] = "demote" => decision[r] \in MakeCurrent
          /\ pc[r] \in {"allocate", "insert"} => decision[r] \in MakeCurrent \/ prev[r] # None
          /\ pc[r] \in {"demote", "allocate", "insert"} /\ decision[r] \in MakeCurrent
                => doc[r].life = "active"
          /\ pc[r] = "mark" => decision[r] \in Replaces
    /\ \A w \in Review : pc[w] = "reject" => resolution[w] = "REJECT"

\* A conflicted claim has never been current: no request read it as such.
ConflictedUnread ==
    \A c \in Ingest : claims[c].life = "conflicted" =>
        c \notin Current /\ \A x \in Request : prev[x] # c

\* Neither has the claim a reviewer is about to activate, if he is alone.
TargetUnread ==
    OneReviewPerClaim =>
        \A w \in Review : pc[w] \in Accepting =>
            target[w] \notin Current /\ \A x \in Request : prev[x] # target[w]

\* Between the demotion of a claim and its mark, the claim stays demoted.
ReplacedStaysDown ==
    OneReviewPerClaim =>
        \A r \in Ingest : pc[r] \in Holding /\ decision[r] \in Replaces => prev[r] \notin Current

\* Somebody is about to make a claim current.
Pending ==
    \/ \E r \in Ingest : pc[r] \in {"allocate", "insert"} /\ decision[r] \in MakeCurrent
    \/ \E w \in Review : pc[w] = "activate"

\* An identity without a current claim has a request that brings one.
CurrentOrPending ==
    NothingWithdrawn /\ NobodyCrashed /\ Stored # {} => Current # {} \/ Pending

\* What a revoke took away is not current unless a review names it.
RevokedGone ==
    \A v \in Revoke :
        pc[v] \in {"unindex", "done"} /\ (\A w \in Review : target[w] # target[v])
            => target[v] \notin Current

CurrentInv ==
    /\ LocalsAgree /\ ConflictedUnread /\ TargetUnread /\ ReplacedStaysDown
    /\ CurrentIsActive /\ CurrentOrPending /\ RevokedGone

-----------------------------------------------------------------------------
(***************************************************************************)
(* Two steps make a claim current.  Each of the others is Calm: no claim   *)
(* becomes current or conflicted, a claim that stays current keeps its     *)
(* state, and a request that reads gets the current claim.                 *)
(***************************************************************************)
Calm ==
    /\ \A c \in Ingest :
          /\ claims'[c].current => claims[c].current
          /\ claims'[c].life = "conflicted" => claims[c].life = "conflicted"
          /\ OneReviewPerClaim /\ claims'[c].current => claims'[c].life = claims[c].life
    /\ \A x \in Request : prev'[x] = prev[x] \/ prev'[x] \in Current \cup {None}

\* The steps that leave every claim alone.
LEMMA IdleCalm ==
    ASSUME CurrentInv, claims' = claims,
           \A x \in Request : prev'[x] = prev[x] \/ prev'[x] \in Current \cup {None}
    PROVE  Calm
BY DEF Calm

LEMMA IngestCalm ==
    ASSUME IInv, CurrentInv, NEW r \in Ingest, IngestStep(r)
    PROVE  Calm \/ InsertStore(r)
<1> USE RequestKinds DEF index, locals
<1>t. claims \in [Ingest -> Document] /\ prev \in [Request -> ClaimId]
  BY DEF IInv, Base, TypeOK
<1>l. Latest \in Current \cup {None}
  BY LatestFact DEF IInv
<1>1. ASSUME NEW i \in Input, IngestStart(r, i) PROVE Calm
  BY <1>1, IdleCalm DEF IngestStart
<1>2. CASE IngestRead(r)
  BY <1>2, <1>t, <1>l, IdleCalm DEF IngestRead
<1>3. CASE IngestConfirm(r)
  <2>1. \A c \in Ingest :
          claims'[c].life = claims[c].life /\ claims'[c].current = claims[c].current
    BY <1>3, <1>t DEF IngestConfirm, Confirmed, Document
  <2>2. prev' = prev
    BY <1>3 DEF IngestConfirm
  <2>3. QED
    BY <2>1, <2>2 DEF Calm
<1>4. CASE InsertDemote(r)
  <2>1. \A c \in Ingest : claims'[c].life = claims[c].life /\ ~claims'[c].current
    BY <1>4, <1>t DEF InsertDemote, Document
  <2>2. prev' = prev
    BY <1>4 DEF InsertDemote
  <2>3. QED
    BY <2>1, <2>2 DEF Calm
<1>5. CASE InsertAllocate(r)
  BY <1>5, IdleCalm DEF InsertAllocate
<1>6. CASE IngestMark(r)
  <2>1. /\ \A c \in Ingest \ {prev[r]} : claims'[c] = claims[c]
        /\ prev[r] \in Ingest =>
              /\ claims'[prev[r]].life = "superseded"
              /\ claims'[prev[r]].current = claims[prev[r]].current
    BY <1>6, <1>t DEF IngestMark, Document
  <2>2. prev' = prev /\ pc[r] = "mark"
    BY <1>6 DEF IngestMark
  <2>3. OneReviewPerClaim => prev[r] \notin Current
    BY <2>2 DEF CurrentInv, ReplacedStaysDown, LocalsAgree, Holding
  <2>4. QED
    BY <2>1, <2>2, <2>3 DEF Calm, Current
<1>7. CASE IngestUnindex(r) \/ IngestIndex(r)
  BY <1>7, IdleCalm DEF IngestUnindex, IngestIndex
<1>8. QED
  BY <1>1, <1>2, <1>3, <1>4, <1>5, <1>6, <1>7 DEF IngestStep

\* A revoke, a rejection and a demotion take one claim out of service.
LEMMA WithdrawCalm ==
    ASSUME IInv, CurrentInv, prev' = prev, NEW d,
           NEW l \in {"revoked", "superseded"}, NEW s,
           claims' = [claims EXCEPT ![d] =
               [@ EXCEPT !.life = l, !.current = FALSE, !.supersededBy = s]]
    PROVE  Calm
<1>1. claims \in [Ingest -> Document]
  BY DEF IInv, Base, TypeOK
<1>2. \A c \in Ingest : claims'[c] = claims[c] \/ (claims'[c].life = l /\ ~claims'[c].current)
  BY <1>1 DEF Document
<1>3. QED
  BY <1>2 DEF Calm

LEMMA RevokedCalm ==
    ASSUME IInv, CurrentInv, prev' = prev, NEW d,
           claims' = [claims EXCEPT ![d] =
               [@ EXCEPT !.life = "revoked", !.current = FALSE]]
    PROVE  Calm
<1>1. claims \in [Ingest -> Document]
  BY DEF IInv, Base, TypeOK
<1>2. \A c \in Ingest :
        claims'[c] = claims[c] \/ (claims'[c].life = "revoked" /\ ~claims'[c].current)
  BY <1>1 DEF Document
<1>3. QED
  BY <1>2 DEF Calm

LEMMA RevokeCalm ==
    ASSUME IInv, CurrentInv, NEW v \in Revoke, RevokeStep(v)
    PROVE  Calm
<1> USE DEF index, locals
<1>1. ASSUME NEW c \in Ingest, RevokeStart(v, c) PROVE Calm
  BY <1>1, IdleCalm DEF RevokeStart
<1>2. CASE RevokeMark(v)
  BY <1>2, RevokedCalm DEF RevokeMark
<1>3. CASE RevokeUnindex(v)
  BY <1>3, IdleCalm DEF RevokeUnindex
<1>4. QED
  BY <1>1, <1>2, <1>3 DEF RevokeStep

LEMMA ReviewCalm ==
    ASSUME IInv, CurrentInv, NEW w \in Review, ReviewStep(w)
    PROVE  Calm \/ ReviewActivate(w)
<1> USE RequestKinds DEF index, locals
<1>t. prev \in [Request -> ClaimId]
  BY DEF IInv, Base, TypeOK
<1>l. Latest \in Current \cup {None}
  BY LatestFact DEF IInv
<1>1. ASSUME NEW c \in Ingest, NEW res \in {"ACCEPT", "REJECT"}, ReviewStart(w, c, res)
      PROVE  Calm
  BY <1>1, IdleCalm DEF ReviewStart
<1>2. CASE ReviewReject(w)
  BY <1>2, RevokedCalm DEF ReviewReject
<1>3. CASE ReviewRead(w)
  BY <1>3, <1>t, <1>l, IdleCalm DEF ReviewRead
<1>4. CASE ReviewDemote(w)
  BY <1>4, WithdrawCalm DEF ReviewDemote
<1>5. CASE ReviewRefresh(w) \/ ReviewIndex(w)
  BY <1>5, IdleCalm DEF ReviewRefresh, ReviewIndex
<1>6. QED
  BY <1>1, <1>2, <1>3, <1>4, <1>5 DEF ReviewStep

LEMMA StepCalm ==
    ASSUME IInv, CurrentInv, [Next]_vars
    PROVE  \/ Calm
           \/ \E r \in Ingest : InsertStore(r)
           \/ \E w \in Review : ReviewActivate(w)
<1>1. CASE UNCHANGED vars
  BY <1>1, IdleCalm DEF vars, locals
<1>2. ASSUME NEW r \in Request, Crash(r) PROVE Calm
  BY <1>2, IdleCalm DEF Crash, locals
<1>3. QED
  BY <1>1, <1>2, IngestCalm, RevokeCalm, ReviewCalm DEF Next

-----------------------------------------------------------------------------
(* What a request holds agrees with its place. *)

LEMMA IngestLocals ==
    ASSUME IInv, LocalsAgree, NEW r \in Ingest, IngestStep(r)
    PROVE  LocalsAgree'
<1> USE RequestKinds DEF index, locals
<1>t. /\ pc \in [Request -> IngestPc \cup RevokePc \cup ReviewPc]
      /\ doc \in [Ingest -> Document] /\ decision \in [Ingest -> Decision]
      /\ prev \in [Request -> ClaimId]
  BY DEF IInv, Base, TypeOK
<1>r. \A w \in Review : w \in Request /\ w # r
  BY ConstantsOK DEF Request, Reviewer
<1>w. resolution' = resolution /\ \A w \in Review : pc'[w] = pc[w]
  BY <1>t, <1>r DEF IngestStep, IngestStart, IngestRead, IngestConfirm, InsertDemote,
                InsertAllocate, InsertStore, IngestMark, IngestUnindex, IngestIndex, Goto
<1>1. ASSUME NEW i \in Input, IngestStart(r, i) PROVE LocalsAgree'
  <2>1. /\ \A q \in Ingest \ {r} : /\ pc'[q] = pc[q] /\ decision'[q] = decision[q]
                                   /\ doc'[q] = doc[q] /\ prev'[q] = prev[q]
        /\ \/ pc'[r] = "read" /\ doc'[r] = ClaimDoc(i)
           \/ pc'[r] = "done"
    BY <1>1, <1>t DEF IngestStart, Goto
  <2>2. ClaimDoc(i).life = "active"
    BY DEF ClaimDoc, NoDocument
  <2>3. QED
    BY <1>w, <2>1, <2>2 DEF LocalsAgree
<1>2. CASE IngestRead(r)
  <2> DEFINE what == Decide(doc[r], Latest)
  <2>1. /\ \A q \in Ingest \ {r} : /\ pc'[q] = pc[q] /\ decision'[q] = decision[q]
                                   /\ doc'[q] = doc[q] /\ prev'[q] = prev[q]
        /\ pc[r] = "read" /\ decision'[r] = what /\ prev'[r] = Latest
        /\ doc'[r] = Prepared(doc[r], Latest, what)
        /\ pc'[r] = IF what = "CONFIRM" THEN "confirm"
                    ELSE IF what = "CONFLICT" THEN "allocate" ELSE "demote"
    BY <1>2, <1>t DEF IngestRead, Goto
  <2>2. what \in {"ADD", "CONFIRM", "UPDATE", "SUPERSEDE", "CONFLICT"}
        /\ (what = "CONFLICT" => Latest # None)
    BY DEF Decide
  <2>3. what # "CONFLICT" => doc'[r].life = "active"
    <3>1. doc[r].life = "active" /\ doc[r] \in Document
      BY <1>t, <2>1 DEF LocalsAgree
    <3>2. QED
      BY <2>1, <3>1 DEF Prepared, Document
  <2> HIDE DEF what
  <2>4. QED
    BY <1>w, <2>1, <2>2, <2>3 DEF LocalsAgree, MakeCurrent
<1>3. CASE InsertAllocate(r)
  <2>1. /\ \A q \in Ingest \ {r} : pc'[q] = pc[q] /\ doc'[q] = doc[q]
        /\ pc[r] = "allocate" /\ pc'[r] = "insert" /\ UNCHANGED <<decision, prev>>
    BY <1>3, <1>t DEF InsertAllocate, Goto
  <2>2. doc'[r].life = doc[r].life
    BY <1>3, <1>t DEF InsertAllocate, Document
  <2>3. QED
    BY <1>w, <2>1, <2>2 DEF LocalsAgree
<1>4. CASE \/ IngestConfirm(r) \/ InsertDemote(r) \/ InsertStore(r)
           \/ IngestMark(r) \/ IngestUnindex(r) \/ IngestIndex(r)
  <2>1. UNCHANGED <<doc, decision, prev>> /\ \A q \in Ingest \ {r} : pc'[q] = pc[q]
    BY <1>4, <1>t DEF IngestConfirm, InsertDemote, InsertStore, IngestMark,
                      IngestUnindex, IngestIndex, Goto
  <2>2. \/ pc'[r] \in {"done", "failed", "unindex", "index"}
        \/ pc[r] = "demote" /\ pc'[r] = "allocate"
        \/ pc'[r] = "mark" /\ decision[r] \in Replaces
    BY <1>4, <1>t DEF IngestConfirm, InsertDemote, InsertStore, IngestMark,
                      IngestUnindex, IngestIndex, Goto
  <2>3. QED
    BY <1>w, <2>1, <2>2 DEF LocalsAgree
<1>5. QED
  BY <1>1, <1>2, <1>3, <1>4 DEF IngestStep

\* The steps of a reviewer, and a crash.
LEMMA OtherLocals ==
    ASSUME IInv, LocalsAgree, NEW x \in Request, NEW l,
           Goto(x, l), l \notin {"read", "demote", "allocate", "insert", "mark", "reject"},
           UNCHANGED <<doc, decision, prev, resolution>>
    PROVE  LocalsAgree'
<1>1. \A y \in Request : pc'[y] = IF y = x THEN l ELSE pc[y]
  BY DEF Goto, IInv, Base, TypeOK
<1>2. QED
  BY <1>1, RequestKinds DEF LocalsAgree

LEMMA ReviewerLocals ==
    ASSUME IInv, LocalsAgree, NEW x \in Reviewer,
           \/ x \in Revoke /\ RevokeStep(x)
           \/ x \in Review /\ ReviewStep(x)
    PROVE  LocalsAgree'
<1> USE RequestKinds DEF index, locals
<1>t. /\ pc \in [Request -> IngestPc \cup RevokePc \cup ReviewPc]
      /\ prev \in [Request -> ClaimId]
      /\ resolution \in [Review -> {"none", "ACCEPT", "REJECT"}]
  BY DEF IInv, Base, TypeOK
<1>r. \A r \in Ingest : r \in Request /\ r # x
  BY ConstantsOK DEF Request, Reviewer
<1>p. PICK l : Goto(x, l)
  BY DEF RevokeStep, RevokeStart, RevokeMark, RevokeUnindex, ReviewStep, ReviewStart,
         ReviewReject, ReviewRead, ReviewDemote, ReviewActivate, ReviewRefresh, ReviewIndex
<1>q. x \in Request /\ \A y \in Request : pc'[y] = IF y = x THEN l ELSE pc[y]
  BY <1>p, <1>t DEF Goto, Request
<1>i. /\ UNCHANGED <<doc, decision>>
      /\ \A r \in Ingest : pc'[r] = pc[r] /\ prev'[r] = prev[r]
  <2>1. UNCHANGED <<doc, decision>>
    BY DEF RevokeStep, RevokeStart, RevokeMark, RevokeUnindex, ReviewStep, ReviewStart,
           ReviewReject, ReviewRead, ReviewDemote, ReviewActivate, ReviewRefresh, ReviewIndex
  <2>2. \A r \in Ingest : prev'[r] = prev[r]
    BY <1>t, <1>r DEF RevokeStep, RevokeStart, RevokeMark, RevokeUnindex, ReviewStep,
           ReviewStart, ReviewReject, ReviewRead, ReviewDemote, ReviewActivate,
           ReviewRefresh, ReviewIndex
  <2>3. QED
    BY <1>q, <1>r, <2>1, <2>2
<1>1. \A w \in Review : pc'[w] = "reject" => resolution'[w] = "REJECT"
  <2>1. CASE x \in Revoke
    <3>1. resolution' = resolution /\ \A w \in Review : pc'[w] = pc[w]
      BY <1>q, <2>1, ConstantsOK
         DEF RevokeStep, RevokeStart, RevokeMark, RevokeUnindex, ReviewStep
    <3>2. QED
      BY <3>1 DEF LocalsAgree
  <2>2. ASSUME x \in Review, NEW c \in Ingest, NEW res \in {"ACCEPT", "REJECT"},
               ReviewStart(x, c, res)
        PROVE  \A w \in Review : pc'[w] = "reject" => resolution'[w] = "REJECT"
    BY <1>t, <2>2 DEF ReviewStart, Goto, LocalsAgree
  <2>3. CASE x \in Review /\ (\/ ReviewReject(x) \/ ReviewRead(x) \/ ReviewDemote(x)
                              \/ ReviewActivate(x) \/ ReviewRefresh(x) \/ ReviewIndex(x))
    BY <1>t, <2>3 DEF ReviewReject, ReviewRead, ReviewDemote, ReviewActivate,
                      ReviewRefresh, ReviewIndex, Goto, LocalsAgree
  <2>4. QED
    BY <2>1, <2>2, <2>3, ConstantsOK DEF ReviewStep
<1>2. QED
  BY <1>i, <1>1 DEF LocalsAgree

LEMMA StepLocals ==
    ASSUME IInv, LocalsAgree, [Next]_vars
    PROVE  LocalsAgree'
<1>1. CASE UNCHANGED vars
  BY <1>1 DEF vars, locals, LocalsAgree
<1>2. ASSUME NEW r \in Request, Crash(r) PROVE LocalsAgree'
  BY <1>2, OtherLocals DEF Crash, locals
<1>3. QED
  BY <1>1, <1>2, IngestLocals, ReviewerLocals DEF Next, Reviewer

-----------------------------------------------------------------------------
(* How requests come to hold a claim. *)

TargetsKept ==
    /\ OneReviewPerClaim' => OneReviewPerClaim
    /\ \A w \in Review : pc'[w] \in Accepting =>
          \/ pc[w] \in Accepting /\ target'[w] = target[w]
          \/ target'[w] \in Ingest /\ claims[target'[w]].life = "conflicted"

HoldersKept ==
    \A r \in Ingest : pc'[r] \in Holding /\ decision'[r] \in Replaces =>
        \/ pc[r] \in Holding /\ decision'[r] = decision[r] /\ prev'[r] = prev[r]
        \/ Current' = {}

LEMMA IngestHolds ==
    ASSUME IInv, ReviewerKept, NEW r \in Ingest, IngestStep(r)
    PROVE  TargetsKept /\ HoldersKept
<1> USE RequestKinds DEF index, locals
<1>t. /\ pc \in [Request -> IngestPc \cup RevokePc \cup ReviewPc]
      /\ claims \in [Ingest -> Document]
      /\ decision \in [Ingest -> Decision] /\ prev \in [Request -> ClaimId]
  BY DEF IInv, Base, TypeOK
<1>r. \A w \in Review : w \in Request /\ w # r
  BY ConstantsOK DEF Request, Reviewer
<1>w. target' = target /\ \A w \in Review : pc'[w] = pc[w]
  BY <1>t, <1>r DEF IngestStep, IngestStart, IngestRead, IngestConfirm, InsertDemote,
                InsertAllocate, InsertStore, IngestMark, IngestUnindex, IngestIndex, Goto
<1>1. TargetsKept
  BY <1>w DEF TargetsKept, OneReviewPerClaim
<1>2. \A q \in Ingest \ {r} :
        pc'[q] = pc[q] /\ decision'[q] = decision[q] /\ prev'[q] = prev[q]
  BY <1>t DEF IngestStep, IngestStart, IngestRead, IngestConfirm, InsertDemote,
              InsertAllocate, InsertStore, IngestMark, IngestUnindex, IngestIndex, Goto
<1>3. ASSUME pc'[r] \in Holding, decision'[r] \in Replaces
      PROVE  \/ pc[r] \in Holding /\ decision'[r] = decision[r] /\ prev'[r] = prev[r]
             \/ Current' = {}
  <2>1. ASSUME NEW i \in Input, IngestStart(r, i) PROVE FALSE
    BY <1>3, <1>t, <2>1 DEF IngestStart, Goto, Holding
  <2>2. CASE IngestRead(r)
    BY <1>3, <1>t, <2>2 DEF IngestRead, Goto, Holding, Replaces
  <2>3. CASE InsertDemote(r)
    <3>1. \A c \in Ingest : ~claims'[c].current
      BY <1>t, <2>3 DEF InsertDemote, Document
    <3>2. QED
      BY <3>1 DEF Current
  <2>4. CASE InsertAllocate(r) \/ InsertStore(r)
    BY <1>t, <2>4 DEF InsertAllocate, InsertStore, Holding
  <2>5. CASE IngestConfirm(r) \/ IngestMark(r) \/ IngestUnindex(r) \/ IngestIndex(r)
    BY <1>3, <1>t, <2>5
       DEF IngestConfirm, IngestMark, IngestUnindex, IngestIndex, Goto, Holding
  <2>6. QED
    BY <2>1, <2>2, <2>3, <2>4, <2>5 DEF IngestStep
<1>4. QED
  BY <1>1, <1>2, <1>3 DEF HoldersKept

LEMMA ReviewerHolds ==
    ASSUME IInv, ReviewerKept, NEW x \in Reviewer,
           \/ x \in Revoke /\ RevokeStep(x)
           \/ x \in Review /\ ReviewStep(x)
    PROVE  TargetsKept /\ HoldersKept
<1> USE RequestKinds DEF index, locals
<1>t. /\ pc \in [Request -> IngestPc \cup RevokePc \cup ReviewPc]
      /\ prev \in [Request -> ClaimId] /\ target \in [Reviewer -> ClaimId]
  BY DEF IInv, Base, TypeOK
<1>r. \A r \in Ingest : r \in Request /\ r # x
  BY ConstantsOK DEF Request, Reviewer
<1>1. HoldersKept
  <2>1. UNCHANGED decision
    BY DEF RevokeStep, RevokeStart, RevokeMark, RevokeUnindex, ReviewStep, ReviewStart,
           ReviewReject, ReviewRead, ReviewDemote, ReviewActivate, ReviewRefresh, ReviewIndex
  <2>2. \A r \in Ingest : prev'[r] = prev[r] /\ pc'[r] = pc[r]
    BY <1>t, <1>r DEF RevokeStep, RevokeStart, RevokeMark, RevokeUnindex, ReviewStep,
           ReviewStart, ReviewReject, ReviewRead, ReviewDemote, ReviewActivate,
           ReviewRefresh, ReviewIndex, Goto
  <2>3. QED
    BY <2>1, <2>2 DEF HoldersKept
<1>2. OneReviewPerClaim' => OneReviewPerClaim
  BY DEF ReviewerKept, OneReviewPerClaim
<1>3. \A w \in Review \ {x} : pc'[w] = pc[w] /\ target'[w] = target[w]
  BY <1>t DEF RevokeStep, RevokeStart, RevokeMark, RevokeUnindex, ReviewStep,
         ReviewStart, ReviewReject, ReviewRead, ReviewDemote, ReviewActivate,
         ReviewRefresh, ReviewIndex, Goto, Reviewer, Request
<1>4. ASSUME x \in Review, pc'[x] \in Accepting
      PROVE  \/ pc[x] \in Accepting /\ target'[x] = target[x]
             \/ target'[x] \in Ingest /\ claims[target'[x]].life = "conflicted"
  <2>1. ASSUME NEW c \in Ingest, NEW res \in {"ACCEPT", "REJECT"}, ReviewStart(x, c, res)
        PROVE  target'[x] \in Ingest /\ claims[target'[x]].life = "conflicted"
    BY <1>t, <2>1 DEF ReviewStart
  <2>2. CASE \/ ReviewReject(x) \/ ReviewRead(x) \/ ReviewDemote(x)
             \/ ReviewActivate(x) \/ ReviewRefresh(x) \/ ReviewIndex(x)
    BY <1>4, <1>t, <2>2 DEF ReviewReject, ReviewRead, ReviewDemote, ReviewActivate,
                      ReviewRefresh, ReviewIndex, Goto, Accepting, Request
  <2>3. QED
    BY <1>4, <2>1, <2>2 DEF ReviewStep
<1>5. QED
  BY <1>1, <1>2, <1>3, <1>4 DEF TargetsKept

LEMMA StepHolds ==
    ASSUME IInv, ReviewerKept, [Next]_vars
    PROVE  TargetsKept /\ HoldersKept
<1>1. CASE UNCHANGED vars
  BY <1>1 DEF vars, locals, TargetsKept, HoldersKept, OneReviewPerClaim
<1>2. ASSUME NEW r \in Request, Crash(r) PROVE TargetsKept /\ HoldersKept
  <2>1. UNCHANGED <<decision, prev, target>>
        /\ \A y \in Request : pc'[y] = IF y = r THEN "crashed" ELSE pc[y]
    BY <1>2 DEF Crash, locals, Goto, IInv, Base, TypeOK
  <2>2. QED
    BY <2>1, RequestKinds
       DEF TargetsKept, HoldersKept, OneReviewPerClaim, Holding, Accepting
<1>3. QED
  BY <1>1, <1>2, IngestHolds, ReviewerHolds DEF Next, Reviewer

-----------------------------------------------------------------------------
(* What is current stays in order. *)

Orderly == ConflictedUnread /\ TargetUnread /\ ReplacedStaysDown /\ CurrentIsActive

LEMMA CalmOrderly ==
    ASSUME IInv, CurrentInv, Calm, TargetsKept, HoldersKept
    PROVE  Orderly'
<1> USE DEF CurrentInv
<1>1. Current' \subseteq Current
  BY DEF Calm, Current
<1>n. None \notin Ingest /\ Current \subseteq Ingest
  BY RequestKinds DEF Current
<1>2. ConflictedUnread'
  BY <1>1, <1>n DEF Calm, ConflictedUnread
<1>3. TargetUnread'
  <2> SUFFICES ASSUME OneReviewPerClaim', NEW w \in Review, pc'[w] \in Accepting
               PROVE  target'[w] \notin Current' /\ \A x \in Request : prev'[x] # target'[w]
    BY DEF TargetUnread
  <2>1. CASE pc[w] \in Accepting /\ target'[w] = target[w]
    <3>1. target[w] \notin Current /\ \A x \in Request : prev[x] # target[w]
      BY <2>1 DEF TargetsKept, TargetUnread
    <3>2. target[w] # None
      BY <2>1, RequestKinds DEF IInv, AcceptOnly, Accepting
    <3>3. QED
      BY <1>1, <2>1, <3>1, <3>2 DEF Calm
  <2>2. CASE target'[w] \in Ingest /\ claims[target'[w]].life = "conflicted"
    BY <1>1, <1>n, <2>2 DEF ConflictedUnread, Calm
  <2>3. QED
    BY <2>1, <2>2 DEF TargetsKept
<1>4. ReplacedStaysDown'
  BY <1>1 DEF TargetsKept, HoldersKept, ReplacedStaysDown
<1>5. CurrentIsActive'
  BY <1>1, <1>n DEF TargetsKept, Calm, CurrentIsActive, Current
<1>6. QED
  BY <1>2, <1>3, <1>4, <1>5 DEF Orderly

LEMMA StoreOrderly ==
    ASSUME IInv, CurrentInv, NEW r \in Ingest, InsertStore(r), TargetsKept, HoldersKept
    PROVE  Orderly'
<1> USE DEF CurrentInv
<1>t. claims \in [Ingest -> Document] /\ doc[r] \in Document
  BY DEF IInv, Base, TypeOK
<1>1. r \notin Stored /\ r # None /\ pc[r] = "insert"
  BY RequestKinds DEF InsertStore, IInv, BornAtInsert, Building
<1>2. \A x \in Request : prev[x] # r
  BY <1>1 DEF IInv, IngestHeld, ReviewHeld, Request
<1>3. \A w \in Review : target[w] # r
  BY <1>1, RequestKinds DEF IInv, ReviewHeld
<1>4. prev' = prev /\ target' = target
  BY DEF InsertStore, locals
<1>5. PICK e \in Document :
        /\ \A c \in Ingest \ {r} : claims'[c] = claims[c]
        /\ claims'[r] = e
        /\ e.current => e.life = "active"
        /\ e.life = "conflicted" => ~e.current
  <2>1. CASE claims' = claims
    <3>1. claims[r].life = "absent" /\ ~claims[r].current
      BY <1>1 DEF Stored, IInv, CurrentStored, Current
    <3>2. QED
      BY <1>t, <2>1, <3>1
  <2>2. ASSUME NEW b \in BOOLEAN,
               claims' = [claims EXCEPT ![r] = [doc[r] EXCEPT !.current = b]],
               b => decision[r] \in MakeCurrent
        PROVE  \E e \in Document :
                 /\ \A c \in Ingest \ {r} : claims'[c] = claims[c]
                 /\ claims'[r] = e
                 /\ e.current => e.life = "active"
                 /\ e.life = "conflicted" => ~e.current
    <3>1. b => doc[r].life = "active"
      BY <1>1, <2>2 DEF LocalsAgree
    <3>2. /\ [doc[r] EXCEPT !.current = b] \in Document
          /\ [doc[r] EXCEPT !.current = b].current = b
          /\ [doc[r] EXCEPT !.current = b].life = doc[r].life
      BY <1>t DEF Document
    <3>3. QED
      BY <1>t, <2>2, <3>1, <3>2
  <2>3. QED
    BY <2>1, <2>2, StoreEffect
<1>6. Current' \subseteq Current \cup {r}
  BY <1>5 DEF Current
<1>7. ConflictedUnread'
  BY <1>2, <1>4, <1>5 DEF ConflictedUnread, Current
<1>8. TargetUnread'
  <2>1. \A w \in Review : pc'[w] \in Accepting => pc[w] \in Accepting
    BY RequestKinds DEF InsertStore, Goto, IInv, Base, TypeOK
  <2>2. QED
    BY <1>3, <1>4, <1>6, <2>1, RequestKinds DEF TargetUnread, TargetsKept
<1>9. ReplacedStaysDown'
  <2> SUFFICES ASSUME OneReviewPerClaim', NEW q \in Ingest, pc'[q] \in Holding,
                      decision'[q] \in Replaces
               PROVE  prev'[q] \notin Current'
    BY DEF ReplacedStaysDown
  <2>1. CASE Current' = {}
    BY <2>1
  <2>2. CASE pc[q] \in Holding /\ decision'[q] = decision[q] /\ prev'[q] = prev[q]
    <3>1. prev[q] \notin Current /\ prev[q] # r
      BY <1>2, <2>2, RequestKinds DEF TargetsKept, ReplacedStaysDown
    <3>2. QED
      BY <1>6, <2>2, <3>1
  <2>3. QED
    BY <2>1, <2>2 DEF HoldersKept
<1>10. CurrentIsActive'
  BY <1>5 DEF TargetsKept, CurrentIsActive, Current
<1>11. QED
  BY <1>7, <1>8, <1>9, <1>10 DEF Orderly

LEMMA ActivateOrderly ==
    ASSUME IInv, CurrentInv, NEW w \in Review, ReviewActivate(w), TargetsKept, HoldersKept
    PROVE  Orderly'
<1> USE DEF CurrentInv
<1>t. claims \in [Ingest -> Document]
  BY DEF IInv, Base, TypeOK
<1>1. prev' = prev /\ target' = target /\ pc[w] \in Accepting /\ pc'[w] \notin Accepting
      /\ \A x \in Review \ {w} : pc'[x] = pc[x]
  BY RequestKinds
     DEF ReviewActivate, locals, Accepting, Goto, IInv, Base, TypeOK
<1>c. target[w] # None /\ target[w] \in Ingest
  BY <1>1, RequestKinds DEF IInv, AcceptOnly, ReviewHeld, Accepting, Stored
<1>2. CASE claims' = claims
  <2>1. Calm
    BY <1>1, <1>2, IdleCalm
  <2>2. QED
    BY <2>1, CalmOrderly
<1>3. CASE claims' = [claims EXCEPT ![target[w]] = [@ EXCEPT !.life = "active", !.current = TRUE]]
  <2>1. /\ \A c \in Ingest \ {target[w]} : claims'[c] = claims[c]
        /\ claims'[target[w]].life = "active" /\ claims'[target[w]].current
    BY <1>t, <1>c, <1>3 DEF Document
  <2>2. Current' = Current \cup {target[w]}
    BY <1>c, <2>1 DEF Current
  <2>3. OneReviewPerClaim =>
          /\ \A x \in Request : prev[x] # target[w]
          /\ \A x \in Review \ {w} : target[x] # target[w]
    BY <1>1, <1>c DEF TargetUnread, OneReviewPerClaim
  <2>4. ConflictedUnread'
    BY <1>1, <2>1, <2>2 DEF ConflictedUnread
  <2>5. TargetUnread'
    <3> SUFFICES ASSUME OneReviewPerClaim', NEW x \in Review, pc'[x] \in Accepting
                 PROVE  target[x] \notin Current' /\ \A y \in Request : prev[y] # target[x]
      BY <1>1 DEF TargetUnread
    <3>1. x # w /\ pc[x] \in Accepting
      BY <1>1
    <3>2. QED
      BY <2>2, <2>3, <3>1 DEF TargetsKept, TargetUnread
  <2>6. ReplacedStaysDown'
    <3> SUFFICES ASSUME OneReviewPerClaim', NEW q \in Ingest, pc'[q] \in Holding,
                        decision'[q] \in Replaces
                 PROVE  prev'[q] \notin Current'
      BY DEF ReplacedStaysDown
    <3>1. pc[q] \in Holding /\ decision[q] \in Replaces
      BY <2>2 DEF HoldersKept
    <3>2. QED
      BY <1>1, <2>2, <2>3, <3>1, RequestKinds DEF TargetsKept, ReplacedStaysDown
  <2>7. CurrentIsActive'
    <3>1. \A c \in Current : c = target[w] \/ claims'[c] = claims[c]
      BY <2>1 DEF Current
    <3> SUFFICES ASSUME OneReviewPerClaim, NEW c \in Current'
                 PROVE  claims'[c].life = "active"
      BY DEF TargetsKept, CurrentIsActive
    <3>2. c = target[w] \/ c \in Current
      BY <2>2
    <3>3. QED
      BY <2>1, <3>1, <3>2 DEF CurrentIsActive
  <2>8. QED
    BY <2>4, <2>5, <2>6, <2>7 DEF Orderly
<1>4. QED
  BY <1>2, <1>3 DEF ReviewActivate

-----------------------------------------------------------------------------
(* An identity does not lose its current claim. *)

\* A request that has ended stays ended, and a revoke never goes back.
PlacesKept ==
    /\ \A x \in Request : pc[x] \in Finished => pc'[x] = pc[x]
    /\ \A v \in Revoke : pc'[v] \in {"idle", "mark"} => pc[v] \in {"idle", "mark"}

LEMMA StepPlaces ==
    ASSUME IInv, [Next]_vars
    PROVE  PlacesKept
<1> USE RequestKinds
<1>t. pc \in [Request -> IngestPc \cup RevokePc \cup ReviewPc]
      /\ \A v \in Revoke : pc[v] \in RevokePc
  BY DEF IInv, Base, TypeOK
<1>1. CASE UNCHANGED vars
  BY <1>1 DEF vars, PlacesKept
<1>2. ASSUME NEW r \in Ingest, IngestStep(r) PROVE PlacesKept
  <2>1. pc[r] \notin Finished /\ \A x \in Request \ {r} : pc'[x] = pc[x]
    BY <1>2, <1>t DEF IngestStep, IngestStart, IngestRead, IngestConfirm, InsertDemote,
         InsertAllocate, InsertStore, IngestMark, IngestUnindex, IngestIndex, Goto, Finished
  <2>2. QED
    BY <2>1 DEF PlacesKept
<1>3. ASSUME NEW v \in Revoke, RevokeStep(v) PROVE PlacesKept
  <2>1. /\ pc[v] \notin Finished /\ \A x \in Request \ {v} : pc'[x] = pc[x]
        /\ pc'[v] \in {"idle", "mark"} => pc[v] \in {"idle", "mark"}
    BY <1>3, <1>t DEF RevokeStep, RevokeStart, RevokeMark, RevokeUnindex, Goto, Finished
  <2>2. QED
    BY <2>1 DEF PlacesKept
<1>4. ASSUME NEW w \in Review, ReviewStep(w) PROVE PlacesKept
  <2>1. pc[w] \notin Finished /\ \A x \in Request \ {w} : pc'[x] = pc[x]
    BY <1>4, <1>t DEF ReviewStep, ReviewStart, ReviewReject, ReviewRead, ReviewDemote,
         ReviewActivate, ReviewRefresh, ReviewIndex, Goto, Finished
  <2>2. QED
    BY <2>1 DEF PlacesKept
<1>5. ASSUME NEW r \in Request, Crash(r) PROVE PlacesKept
  <2>1. pc[r] \notin Finished /\ pc'[r] = "crashed"
        /\ \A x \in Request \ {r} : pc'[x] = pc[x]
    BY <1>5, <1>t DEF Crash, Goto
  <2>2. QED
    BY <2>1 DEF PlacesKept
<1>6. QED
  BY <1>1, <1>2, <1>3, <1>4, <1>5 DEF Next

LEMMA StillUndisturbed ==
    ASSUME IInv, ReviewerKept, PlacesKept, NothingWithdrawn', NobodyCrashed'
    PROVE  NothingWithdrawn /\ NobodyCrashed
<1> USE RequestKinds
<1>1. NobodyCrashed
  BY DEF NobodyCrashed, PlacesKept, Finished
<1>2. \A v \in Revoke : pc[v] \in {"idle", "mark"}
  <2> SUFFICES ASSUME NEW v \in Revoke PROVE pc[v] \in {"idle", "mark"}
    OBVIOUS
  <2>1. pc'[v] \in {"idle", "mark"}
    BY DEF NothingWithdrawn
  <2>2. QED
    BY <2>1 DEF PlacesKept
<1>3. \A w \in Review : resolution[w] = "REJECT" => pc[w] # "done"
  <2> SUFFICES ASSUME NEW w \in Review, pc[w] = "done" PROVE resolution[w] # "REJECT"
    OBVIOUS
  <2>1. pc'[w] = "done" /\ target[w] # None
    BY DEF PlacesKept, Finished, IInv, AcceptOnly
  <2>2. QED
    BY <2>1 DEF ReviewerKept, NothingWithdrawn
<1>4. QED
  BY <1>1, <1>2, <1>3 DEF NothingWithdrawn

\* A step that leaves the flags alone and ends nobody's attempt to set one.
LEMMA FlagsKept ==
    ASSUME CurrentInv, NEW x, \A y \in Request \ {x} : pc'[y] = pc[y],
           UNCHANGED decision \/ (x \in Ingest /\ \A y \in Ingest \ {x} : decision'[y] = decision[y]),
           Current' = Current, Stored' = Stored,
           NothingWithdrawn, NobodyCrashed, Stored' # {},
           x \in Ingest /\ pc[x] \in {"allocate", "insert"} /\ decision[x] \in MakeCurrent
               => pc'[x] \in {"allocate", "insert"} /\ decision' = decision,
           x \in Review => pc[x] # "activate"
    PROVE  Current' # {} \/ Pending'
<1>1. CASE Current # {}
  BY <1>1
<1>2. CASE Pending
  BY <1>2, RequestKinds DEF Pending
<1>3. QED
  BY <1>1, <1>2 DEF CurrentInv, CurrentOrPending

LEMMA IngestBrings ==
    ASSUME IInv, CurrentInv, NEW r \in Ingest, IngestStep(r),
           NothingWithdrawn, NobodyCrashed, Stored' # {}
    PROVE  Current' # {} \/ Pending'
<1> USE RequestKinds DEF index, locals
<1>t. /\ pc \in [Request -> IngestPc \cup RevokePc \cup ReviewPc]
      /\ claims \in [Ingest -> Document] /\ doc[r] \in Document
      /\ decision \in [Ingest -> Decision] /\ prev \in [Request -> ClaimId]
  BY DEF IInv, Base, TypeOK
<1>o. \A y \in Request \ {r} : pc'[y] = pc[y]
  BY <1>t DEF IngestStep, IngestStart, IngestRead, IngestConfirm, InsertDemote,
         InsertAllocate, InsertStore, IngestMark, IngestUnindex, IngestIndex, Goto
<1>n. r \notin Review
  OBVIOUS
<1>1. ASSUME \/ \E i \in Input : IngestStart(r, i)
             \/ IngestRead(r) \/ IngestUnindex(r) \/ IngestIndex(r)
      PROVE  Current' # {} \/ Pending'
  <2>1. claims' = claims
    BY <1>1 DEF IngestStart, IngestRead, IngestUnindex, IngestIndex
  <2>2. Current' = Current /\ Stored' = Stored
    BY <2>1 DEF Current, Stored
  <2>3. pc[r] \notin {"allocate", "insert"}
    BY <1>1 DEF IngestStart, IngestRead, IngestUnindex, IngestIndex
  <2>4. \A y \in Ingest \ {r} : decision'[y] = decision[y]
    BY <1>1, <1>t DEF IngestStart, IngestRead, IngestUnindex, IngestIndex
  <2>5. QED
    BY <1>o, <1>n, <2>2, <2>3, <2>4, FlagsKept
<1>2. ASSUME IngestConfirm(r) \/ IngestMark(r)
      PROVE  Current' # {} \/ Pending'
  <2>1. \A c \in Ingest : claims'[c].current = claims[c].current
    <3>1. CASE IngestConfirm(r)
      BY <3>1, <1>t DEF IngestConfirm, Confirmed, Document
    <3>2. CASE IngestMark(r)
      BY <3>2, <1>t DEF IngestMark, Document
    <3>3. QED
      BY <1>2, <3>1, <3>2
  <2>2. prev[r] # None => prev[r] \in Stored
    BY DEF IInv, IngestHeld
  <2>3. \A c \in Ingest : c \notin Stored => c \notin Stored'
    <3>1. \A c \in Ingest \ {prev[r]} : claims'[c] = claims[c]
      BY <1>2, <1>t DEF IngestConfirm, IngestMark
    <3>2. QED
      BY <2>2, <3>1 DEF Stored
  <2>4. Current' = Current
    BY <2>1 DEF Current
  <2>5. Stored # {} /\ decision' = decision /\ pc[r] \notin {"allocate", "insert"}
    BY <1>2, <2>3 DEF IngestConfirm, IngestMark, Stored
  <2>6. CASE Current # {}
    BY <2>4, <2>6
  <2>7. CASE Pending
    BY <1>o, <1>n, <2>5, <2>7 DEF Pending
  <2>8. QED
    BY <2>5, <2>6, <2>7 DEF CurrentInv, CurrentOrPending
<1>3. ASSUME InsertDemote(r)
      PROVE  Current' # {} \/ Pending'
  <2>1. pc'[r] = "allocate" /\ decision'[r] \in MakeCurrent
    BY <1>3, <1>t DEF InsertDemote, Goto, CurrentInv, LocalsAgree
  <2>2. QED
    BY <2>1 DEF Pending
<1>4. ASSUME InsertAllocate(r)
      PROVE  Current' # {} \/ Pending'
  <2>1. claims' = claims /\ decision' = decision /\ pc'[r] = "insert"
    BY <1>4, <1>t DEF InsertAllocate, Goto
  <2>2. Current' = Current /\ Stored' = Stored
    BY <2>1 DEF Current, Stored
  <2>3. QED
    BY <1>o, <1>n, <2>1, <2>2, FlagsKept
<1>5. ASSUME InsertStore(r)
      PROVE  Current' # {} \/ Pending'
  <2>0. r \notin Stored /\ r \notin Current /\ decision' = decision /\ pc[r] = "insert"
    BY <1>5 DEF InsertStore, IInv, BornAtInsert, Building, CurrentStored
  <2>1. CASE decision[r] \notin MakeCurrent
    <3>1. claims' = [claims EXCEPT ![r] = doc[r]]
      BY <1>5, <2>1 DEF InsertStore
    <3>2. Current \subseteq Current'
      BY <1>t, <2>0, <3>1 DEF Current
    <3>3. Stored # {}
      BY <2>0, <2>1 DEF CurrentInv, LocalsAgree, IInv, IngestHeld
    <3>4. Pending => Pending'
      BY <1>o, <2>0, <2>1 DEF Pending
    <3>5. QED
      BY <3>2, <3>3, <3>4 DEF CurrentInv, CurrentOrPending
  <2>2. CASE decision[r] \in MakeCurrent /\ ~DuplicateCurrent(r)
    <3>1. claims' = [claims EXCEPT ![r] = [doc[r] EXCEPT !.current = TRUE]]
      BY <1>5, <2>2 DEF InsertStore
    <3>2. claims'[r].current
      BY <1>t, <3>1 DEF Document
    <3>3. QED
      BY <3>2 DEF Current
  <2>3. CASE decision[r] \in MakeCurrent /\ DuplicateCurrent(r)
    <3>1. claims' = claims
      BY <1>5, <2>3 DEF InsertStore
    <3>2. QED
      BY <2>3, <3>1 DEF DuplicateCurrent, Current
  <2>4. QED
    BY <2>1, <2>2, <2>3
<1>6. QED
  BY <1>1, <1>2, <1>3, <1>4, <1>5 DEF IngestStep

LEMMA ReviewBrings ==
    ASSUME IInv, CurrentInv, NEW w \in Review, ReviewStep(w),
           NothingWithdrawn, NobodyCrashed, NothingWithdrawn', Stored' # {}
    PROVE  Current' # {} \/ Pending'
<1> USE RequestKinds DEF index, locals
<1>t. /\ pc \in [Request -> IngestPc \cup RevokePc \cup ReviewPc]
      /\ claims \in [Ingest -> Document]
  BY DEF IInv, Base, TypeOK
<1>o. \A y \in Request \ {w} : pc'[y] = pc[y]
  BY <1>t DEF ReviewStep, ReviewStart, ReviewReject, ReviewRead, ReviewDemote,
         ReviewActivate, ReviewRefresh, ReviewIndex, Goto
<1>1. ASSUME \/ \E c \in Ingest, res \in {"ACCEPT", "REJECT"} : ReviewStart(w, c, res)
             \/ ReviewRead(w) \/ ReviewRefresh(w) \/ ReviewIndex(w)
      PROVE  Current' # {} \/ Pending'
  <2>1. claims' = claims /\ decision' = decision /\ pc[w] # "activate"
    BY <1>1 DEF ReviewStart, ReviewRead, ReviewRefresh, ReviewIndex
  <2>2. Current' = Current /\ Stored' = Stored
    BY <2>1 DEF Current, Stored
  <2>3. w \notin Ingest
    OBVIOUS
  <2>4. QED
    BY <1>o, <2>1, <2>2, <2>3, FlagsKept
<1>2. CASE ReviewReject(w)
  <2>1. pc'[w] = "done" /\ resolution'[w] = "REJECT"
    BY <1>2, <1>t DEF ReviewReject, Goto, CurrentInv, LocalsAgree
  <2>2. QED
    BY <2>1 DEF NothingWithdrawn
<1>3. CASE ReviewDemote(w)
  <2>1. pc'[w] = "activate"
    BY <1>3, <1>t DEF ReviewDemote, Goto
  <2>2. QED
    BY <2>1 DEF Pending
<1>4. CASE ReviewActivate(w)
  <2>1. CASE DuplicateCurrent(target[w]) /\ claims' = claims
    BY <2>1 DEF DuplicateCurrent, Current
  <2>2. CASE claims' = [claims EXCEPT ![target[w]] = [@ EXCEPT !.life = "active", !.current = TRUE]]
    <3>1. target[w] \in Ingest
      BY <1>4 DEF ReviewActivate, IInv, AcceptOnly, ReviewHeld, Stored
    <3>2. claims'[target[w]].current
      BY <1>t, <2>2, <3>1 DEF Document
    <3>3. QED
      BY <3>1, <3>2 DEF Current
  <2>3. QED
    BY <1>4, <2>1, <2>2 DEF ReviewActivate
<1>5. QED
  BY <1>1, <1>2, <1>3, <1>4 DEF ReviewStep

LEMMA RevokeBrings ==
    ASSUME IInv, CurrentInv, NEW v \in Revoke, RevokeStep(v),
           NothingWithdrawn, NobodyCrashed, NothingWithdrawn', Stored' # {}
    PROVE  Current' # {} \/ Pending'
<1> USE RequestKinds DEF index, locals
<1>t. pc \in [Request -> IngestPc \cup RevokePc \cup ReviewPc]
  BY DEF IInv, Base, TypeOK
<1>1. CASE RevokeMark(v)
  <2>1. pc'[v] = "unindex"
    BY <1>1, <1>t DEF RevokeMark, Goto
  <2>2. QED
    BY <2>1 DEF NothingWithdrawn
<1>2. ASSUME \/ \E c \in Ingest : RevokeStart(v, c)
             \/ RevokeUnindex(v)
      PROVE  Current' # {} \/ Pending'
  <2>1. claims' = claims /\ decision' = decision /\ \A y \in Request \ {v} : pc'[y] = pc[y]
    BY <1>2, <1>t DEF RevokeStart, RevokeUnindex, Goto
  <2>2. Current' = Current /\ Stored' = Stored
    BY <2>1 DEF Current, Stored
  <2>3. v \notin Ingest /\ v \notin Review
    OBVIOUS
  <2>4. QED
    BY <2>1, <2>2, <2>3, FlagsKept
<1>3. QED
  BY <1>1, <1>2 DEF RevokeStep

LEMMA StepBrings ==
    ASSUME IInv, ReviewerKept, CurrentInv, [Next]_vars
    PROVE  CurrentOrPending'
<1> SUFFICES ASSUME NothingWithdrawn', NobodyCrashed', Stored' # {}
             PROVE  Current' # {} \/ Pending'
  BY DEF CurrentOrPending
<1>1. NothingWithdrawn /\ NobodyCrashed
  BY StepPlaces, StillUndisturbed
<1>2. CASE UNCHANGED vars
  BY <1>1, <1>2 DEF vars, locals, Current, Stored, Pending, CurrentInv, CurrentOrPending
<1>3. ASSUME NEW r \in Request, Crash(r) PROVE FALSE
  BY <1>3 DEF Crash, Goto, NobodyCrashed, IInv, Base, TypeOK
<1>4. QED
  BY <1>1, <1>2, <1>3, IngestBrings, ReviewBrings, RevokeBrings DEF Next

-----------------------------------------------------------------------------
(* A revoked claim stays away. *)

LEMMA StepRevoked ==
    ASSUME IInv, ReviewerKept, CurrentInv, [Next]_vars
    PROVE  RevokedGone'
<1> USE RequestKinds DEF index, locals
<1>t. /\ pc \in [Request -> IngestPc \cup RevokePc \cup ReviewPc]
      /\ claims \in [Ingest -> Document] /\ target \in [Reviewer -> ClaimId]
      /\ doc \in [Ingest -> Document] /\ \A r \in Ingest : pc[r] \in IngestPc
  BY DEF IInv, Base, TypeOK
<1> SUFFICES ASSUME NEW v \in Revoke, pc'[v] \in {"unindex", "done"},
                    \A w \in Review : target'[w] # target'[v]
             PROVE  target'[v] \notin Current'
  BY DEF RevokedGone
<1>1. CASE RevokeMark(v)
  <2>1. target'[v] = target[v]
        /\ (target[v] \in Ingest => ~claims'[target[v]].current)
    BY <1>1, <1>t DEF RevokeMark, Document
  <2>2. QED
    BY <2>1 DEF Current
<1>2. CASE ~RevokeMark(v)
  <2>1. pc[v] \in {"unindex", "done"}
    <3>1. CASE UNCHANGED vars
      BY <3>1 DEF vars
    <3>2. ASSUME NEW r \in Ingest, IngestStep(r) PROVE pc'[v] = pc[v]
      BY <3>2, <1>t DEF IngestStep, IngestStart, IngestRead, IngestConfirm, InsertDemote,
         InsertAllocate, InsertStore, IngestMark, IngestUnindex, IngestIndex, Goto
    <3>3. ASSUME NEW w \in Review, ReviewStep(w) PROVE pc'[v] = pc[v]
      BY <3>3, <1>t DEF ReviewStep, ReviewStart, ReviewReject, ReviewRead, ReviewDemote,
         ReviewActivate, ReviewRefresh, ReviewIndex, Goto
    <3>4. ASSUME NEW u \in Revoke, RevokeStep(u)
          PROVE  pc'[v] = pc[v] \/ pc[v] = "unindex"
      BY <3>4, <1>2, <1>t DEF RevokeStep, RevokeStart, RevokeMark, RevokeUnindex, Goto
    <3>5. ASSUME NEW r \in Request, Crash(r) PROVE pc'[v] = pc[v]
      BY <3>5, <1>t DEF Crash, Goto
    <3>6. QED
      BY <3>1, <3>2, <3>3, <3>4, <3>5 DEF Next
  <2>2. target'[v] = target[v] /\ target[v] \in Stored
    BY <2>1 DEF ReviewerKept, IInv, AcceptOnly, ReviewHeld
  <2>3. \A w \in Review : target[w] # target[v]
    BY <2>2 DEF ReviewerKept, Stored
  <2>4. target[v] \notin Current
    BY <2>1, <2>3 DEF CurrentInv, RevokedGone
  <2>5. CASE Calm
    BY <2>2, <2>4, <2>5 DEF Calm, Current
  <2>6. ASSUME NEW r \in Ingest, InsertStore(r) PROVE target[v] \notin Current'
    <3>1. r \notin Stored
      BY <2>6 DEF InsertStore, IInv, BornAtInsert, Building
    <3>2. claims'[target[v]] = claims[target[v]]
      BY <1>t, <2>2, <2>6, <3>1 DEF InsertStore, Stored
    <3>3. QED
      BY <2>4, <3>2 DEF Current
  <2>7. ASSUME NEW w \in Review, ReviewActivate(w) PROVE target[v] \notin Current'
    <3>1. claims'[target[v]] = claims[target[v]]
      BY <1>t, <2>2, <2>3, <2>7 DEF ReviewActivate, Stored
    <3>2. QED
      BY <2>4, <3>1 DEF Current
  <2>8. QED
    BY <2>2, <2>5, <2>6, <2>7, StepCalm
<1>3. QED
  BY <1>1, <1>2

-----------------------------------------------------------------------------
(***************************************************************************)
(* What is served is in the vector index.  A point is written and hidden   *)
(* in awaits of its own, long after the claim changed.                     *)
(***************************************************************************)

\* The claim whose point an ingest is about to hide stays out of service.
HidesUnserved ==
    OneReviewPerClaim =>
        \A r \in Ingest : pc[r] \in {"mark", "unindex"} => prev[r] \notin Current

\* So does the claim that a reviewer read back as no longer active.
RefreshedUnserved ==
    OneReviewPerClaim =>
        \A w \in Review : pc[w] = "indexOther" => target[w] \notin Served

\* Somebody has indexed the claim, is going to, or withdraws it.
Found(c) ==
    \/ vector[c] = "hit"
    \/ \E v \in Revoke : target[v] = c
    \/ pc[c] \in {"mark", "unindex", "index"}
    \/ \E w \in Review : target[w] = c /\ pc[w] \in {"index", "indexActive"}

ServedFound ==
    qdrant = "up" /\ NobodyCrashed /\ OneReviewPerClaim => \A c \in Served : Found(c)

VectorInv == HidesUnserved /\ RefreshedUnserved /\ ServedFound

\* What every step keeps of a request's own course.
LEMMA StepHides ==
    ASSUME IInv, ReviewerKept, CurrentInv, VectorInv, TargetsKept, [Next]_vars
    PROVE  HidesUnserved'
<1> USE RequestKinds DEF index, locals
<1>t. /\ pc \in [Request -> IngestPc \cup RevokePc \cup ReviewPc]
      /\ claims \in [Ingest -> Document] /\ prev \in [Request -> ClaimId]
  BY DEF IInv, Base, TypeOK
<1> SUFFICES ASSUME OneReviewPerClaim', NEW r \in Ingest, pc'[r] \in {"mark", "unindex"}
             PROVE  prev'[r] \notin Current'
  BY DEF HidesUnserved
<1>1. OneReviewPerClaim
  BY DEF TargetsKept
<1>2. \/ InsertStore(r)
      \/ pc[r] \in {"mark", "unindex"} /\ prev'[r] = prev[r]
  <2>1. CASE UNCHANGED vars
    BY <2>1 DEF vars
  <2>2. ASSUME NEW q \in Ingest, q # r, IngestStep(q)
        PROVE  pc'[r] = pc[r] /\ prev'[r] = prev[r]
    BY <2>2, <1>t DEF IngestStep, IngestStart, IngestRead, IngestConfirm, InsertDemote,
         InsertAllocate, InsertStore, IngestMark, IngestUnindex, IngestIndex, Goto
  <2>3. ASSUME IngestStep(r), ~InsertStore(r)
        PROVE  pc[r] \in {"mark", "unindex"} /\ prev'[r] = prev[r]
    <3>1. CASE IngestRead(r)
      BY <3>1, <1>t DEF IngestRead, Goto
    <3>2. CASE ~IngestRead(r)
      BY <2>3, <3>2, <1>t DEF IngestStep, IngestStart, IngestConfirm, InsertDemote,
           InsertAllocate, IngestMark, IngestUnindex, IngestIndex, Goto
    <3>3. QED
      BY <3>1, <3>2
  <2>4. ASSUME NEW v \in Revoke, RevokeStep(v)
        PROVE  pc'[r] = pc[r] /\ prev'[r] = prev[r]
    BY <2>4, <1>t DEF RevokeStep, RevokeStart, RevokeMark, RevokeUnindex, Goto
  <2>5. ASSUME NEW w \in Review, ReviewStep(w)
        PROVE  pc'[r] = pc[r] /\ prev'[r] = prev[r]
    BY <2>5, <1>t DEF ReviewStep, ReviewStart, ReviewReject, ReviewRead, ReviewDemote,
         ReviewActivate, ReviewRefresh, ReviewIndex, Goto
  <2>6. ASSUME NEW x \in Request, Crash(x)
        PROVE  pc'[r] = pc[r] /\ prev'[r] = prev[r]
    BY <2>6, <1>t DEF Crash, Goto
  <2>7. QED
    BY <2>1, <2>2, <2>3, <2>4, <2>5, <2>6 DEF Next
<1>3. CASE InsertStore(r)
  <2>1. pc[r] = "insert" /\ pc'[r] = "mark" /\ decision'[r] = decision[r]
        /\ decision[r] \in Replaces /\ prev'[r] = prev[r]
    BY <1>3, <1>t DEF InsertStore, Goto
  <2>2. ReplacedStaysDown'
    <3>1. HoldersKept
      BY StepHolds
    <3>2. QED
      BY <1>3, <3>1, StoreOrderly DEF Orderly
  <2>3. QED
    BY <2>1, <2>2 DEF ReplacedStaysDown, Holding
<1>4. CASE pc[r] \in {"mark", "unindex"} /\ prev'[r] = prev[r]
  <2>1. prev[r] \notin Current /\ (prev[r] # None => prev[r] \in Stored)
    BY <1>1, <1>4 DEF VectorInv, HidesUnserved, IInv, IngestHeld
  <2>2. CASE Calm
    BY <1>4, <2>1, <2>2 DEF Calm, Current
  <2>3. ASSUME NEW q \in Ingest, InsertStore(q) PROVE prev[r] \notin Current'
    <3>1. q \notin Stored
      BY <2>3 DEF InsertStore, IInv, BornAtInsert, Building
    <3>2. prev[r] \in Ingest => claims'[prev[r]] = claims[prev[r]]
      BY <1>t, <2>1, <2>3, <3>1 DEF InsertStore
    <3>3. QED
      BY <2>1, <3>2 DEF Current
  <2>4. ASSUME NEW w \in Review, ReviewActivate(w) PROVE prev[r] \notin Current'
    <3>1. prev[r] # target[w]
      BY <1>1, <2>4 DEF ReviewActivate, CurrentInv, TargetUnread, Accepting
    <3>2. prev[r] \in Ingest => claims'[prev[r]] = claims[prev[r]]
      BY <1>t, <2>4, <3>1 DEF ReviewActivate
    <3>3. QED
      BY <2>1, <3>2 DEF Current
  <2>5. QED
    BY <1>4, <2>2, <2>3, <2>4, StepCalm
<1>5. QED
  BY <1>2, <1>3, <1>4

\* No step serves a claim again but the acceptance of a review that names it.
LEMMA StepServes ==
    ASSUME IInv, CurrentInv, OneReviewPerClaim, [Next]_vars, NEW c \in Served'
    PROVE  \/ c \in Served
           \/ InsertStore(c) /\ c \notin Stored /\ pc'[c] \in {"mark", "index"}
           \/ \E w \in Review : ReviewActivate(w) /\ target[w] = c
<1> USE RequestKinds DEF index, locals
<1>t. /\ pc \in [Request -> IngestPc \cup RevokePc \cup ReviewPc]
      /\ claims \in [Ingest -> Document]
      /\ doc \in [Ingest -> Document]
  BY DEF IInv, Base, TypeOK
<1>c. c \in Ingest /\ claims'[c].current /\ claims'[c].life = "active"
  BY DEF Served, Current
<1>1. CASE Calm
  BY <1>1, <1>c DEF Calm, Served, Current
<1>2. ASSUME NEW r \in Ingest, InsertStore(r)
      PROVE  c \in Served \/ (InsertStore(c) /\ c \notin Stored /\ pc'[c] \in {"mark", "index"})
  <2>1. CASE c # r
    <3>1. claims'[c] = claims[c]
      BY <1>t, <1>c, <1>2, <2>1 DEF InsertStore
    <3>2. QED
      BY <1>c, <3>1 DEF Served, Current
  <2>2. CASE c = r
    <3>1. r \notin Stored /\ ~doc[r].current
      BY <1>2 DEF InsertStore, IInv, BornAtInsert, Building, DocNotCurrent
    <3>2. pc'[r] \in {"mark", "index"}
      <4>1. CASE decision[r] \notin MakeCurrent
        BY <1>t, <1>c, <1>2, <2>2, <3>1, <4>1 DEF InsertStore
      <4>2. CASE DuplicateCurrent(r) /\ decision[r] \in MakeCurrent
        BY <1>t, <1>c, <1>2, <2>2, <3>1, <4>2 DEF InsertStore, IInv, CurrentStored, Current
      <4>3. QED
        BY <1>t, <1>2, <4>1, <4>2 DEF InsertStore, Goto
    <3>3. QED
      BY <1>2, <2>2, <3>1, <3>2
  <2>3. QED
    BY <2>1, <2>2
<1>3. ASSUME NEW w \in Review, ReviewActivate(w), target[w] # c
      PROVE  c \in Served
  <2>1. claims'[c] = claims[c]
    BY <1>t, <1>c, <1>3 DEF ReviewActivate
  <2>2. QED
    BY <1>c, <2>1 DEF Served, Current
<1>4. QED
  BY <1>1, <1>2, <1>3, StepCalm

LEMMA StepRefreshed ==
    ASSUME IInv, ReviewerKept, CurrentInv, VectorInv, TargetsKept, [Next]_vars
    PROVE  RefreshedUnserved'
<1> USE RequestKinds DEF index, locals
<1>t. /\ pc \in [Request -> IngestPc \cup RevokePc \cup ReviewPc]
      /\ claims \in [Ingest -> Document] /\ target \in [Reviewer -> ClaimId]
  BY DEF IInv, Base, TypeOK
<1> SUFFICES ASSUME OneReviewPerClaim', NEW w \in Review, pc'[w] = "indexOther"
             PROVE  target'[w] \notin Served'
  BY DEF RefreshedUnserved
<1>1. OneReviewPerClaim
  BY DEF TargetsKept
<1>2. \/ pc[w] = "indexOther"
      \/ ReviewRefresh(w) /\ claims[target[w]].life # "active"
  <2>1. CASE UNCHANGED vars
    BY <2>1 DEF vars
  <2>2. ASSUME NEW q \in Ingest, IngestStep(q) PROVE pc'[w] = pc[w]
    BY <2>2, <1>t DEF IngestStep, IngestStart, IngestRead, IngestConfirm, InsertDemote,
         InsertAllocate, InsertStore, IngestMark, IngestUnindex, IngestIndex, Goto
  <2>3. ASSUME NEW v \in Revoke, RevokeStep(v) PROVE pc'[w] = pc[w]
    BY <2>3, <1>t DEF RevokeStep, RevokeStart, RevokeMark, RevokeUnindex, Goto
  <2>4. ASSUME NEW x \in Review, ReviewStep(x), x # w PROVE pc'[w] = pc[w]
    BY <2>4, <1>t DEF ReviewStep, ReviewStart, ReviewReject, ReviewRead, ReviewDemote,
         ReviewActivate, ReviewRefresh, ReviewIndex, Goto
  <2>5. CASE ReviewRefresh(w)
    BY <2>5, <1>t DEF ReviewRefresh, Goto
  <2>6. ASSUME ReviewStep(w), ~ReviewRefresh(w) PROVE FALSE
    BY <2>6, <1>t DEF ReviewStep, ReviewStart, ReviewReject, ReviewRead, ReviewDemote,
         ReviewActivate, ReviewIndex, Goto
  <2>7. ASSUME NEW x \in Request, Crash(x) PROVE pc'[w] = pc[w]
    BY <2>7, <1>t DEF Crash, Goto
  <2>8. QED
    BY <2>1, <2>2, <2>3, <2>4, <2>5, <2>6, <2>7 DEF Next
<1>3. pc[w] \in {"index", "indexOther"} /\ target'[w] = target[w] /\ target[w] \in Stored
      /\ target[w] \notin Served
  <2>1. pc[w] \in {"index", "indexOther"}
    BY <1>2 DEF ReviewRefresh
  <2>2. target'[w] = target[w] /\ target[w] \in Stored
    BY <2>1 DEF ReviewerKept, IInv, AcceptOnly, ReviewHeld
  <2>3. QED
    BY <1>1, <1>2, <2>1, <2>2 DEF Served, VectorInv, RefreshedUnserved
<1>4. ASSUME NEW x \in Review, ReviewActivate(x) PROVE target[x] # target[w]
  <2>1. pc[x] = "activate"
    BY <1>4 DEF ReviewActivate
  <2>2. x # w
    BY <1>3, <2>1
  <2>3. QED
    BY <1>1, <1>3, <2>2, RequestKinds DEF OneReviewPerClaim, Stored
<1>5. QED
  BY <1>1, <1>3, <1>4, StepServes

\* A claim stays found if each of the reasons for it lasts or the point is written.
LEMMA FoundKept ==
    ASSUME NEW c, Found(c),
           \A x \in Reviewer : target[x] = c => target'[x] = c,
           vector[c] = "hit" => vector'[c] = "hit" \/ \E v \in Revoke : target[v] = c,
           pc[c] \in {"mark", "unindex", "index"}
               => pc'[c] \in {"mark", "unindex", "index"} \/ vector'[c] = "hit",
           \A w \in Review : target[w] = c /\ pc[w] \in {"index", "indexActive"}
               => pc'[w] \in {"index", "indexActive"} \/ vector'[c] = "hit"
    PROVE  Found(c)'
<1>1. CASE \E v \in Revoke : target[v] = c
  BY <1>1, RequestKinds DEF Found
<1>2. CASE ~ \E v \in Revoke : target[v] = c
  BY <1>2, RequestKinds DEF Found
<1>3. QED
  BY <1>1, <1>2

LEMMA IngestFinds ==
    ASSUME IInv, VectorInv, OneReviewPerClaim, NEW r \in Ingest, IngestStep(r),
           NEW c \in Served, Found(c), qdrant = "up"
    PROVE  qdrant' = qdrant /\ Found(c)'
<1> USE RequestKinds DEF index, locals
<1>t. /\ pc \in [Request -> IngestPc \cup RevokePc \cup ReviewPc]
      /\ vector \in [Ingest -> {"none", "hit", "hidden"}]
  BY DEF IInv, Base, TypeOK
<1>c. c \in Ingest /\ c \in Current
  BY DEF Served, Current
<1>r. \A w \in Review : w # r
  OBVIOUS
<1>o. target' = target /\ \A x \in Request \ {r} : pc'[x] = pc[x]
  BY <1>t DEF IngestStep, IngestStart, IngestRead, IngestConfirm, InsertDemote,
         InsertAllocate, InsertStore, IngestMark, IngestUnindex, IngestIndex, Goto
<1>1. CASE IngestUnindex(r)
  <2>1. prev[r] # c
    BY <1>1, <1>c DEF IngestUnindex, VectorInv, HidesUnserved
  <2>2. qdrant' = qdrant /\ vector'[c] = vector[c] /\ pc'[r] = "index"
    BY <1>1, <1>t, <1>c, <2>1 DEF IngestUnindex, HideVector, Goto
  <2>3. QED
    BY <1>c, <1>o, <1>r, <2>2, FoundKept
<1>2. CASE IngestIndex(r)
  <2>1. qdrant' = qdrant /\ vector'[r] = "hit" /\ (c # r => vector'[c] = vector[c])
    BY <1>2, <1>t, <1>c DEF IngestIndex, UpsertVector
  <2>2. QED
    BY <1>c, <1>o, <1>r, <2>1, FoundKept
<1>3. CASE IngestMark(r)
  <2>1. UNCHANGED <<vector, qdrant>> /\ pc'[r] = "unindex"
    BY <1>3, <1>t DEF IngestMark, Goto
  <2>2. QED
    BY <1>c, <1>o, <1>r, <2>1, FoundKept
<1>4. ASSUME \/ \E i \in Input : IngestStart(r, i)
             \/ IngestRead(r) \/ IngestConfirm(r) \/ InsertDemote(r)
             \/ InsertAllocate(r) \/ InsertStore(r)
      PROVE  qdrant' = qdrant /\ Found(c)'
  <2>1. UNCHANGED <<vector, qdrant>> /\ pc[r] \notin {"mark", "unindex", "index"}
    BY <1>4 DEF IngestStart, IngestRead, IngestConfirm, InsertDemote, InsertAllocate,
                InsertStore
  <2>2. QED
    BY <1>c, <1>o, <1>r, <2>1, FoundKept
<1>5. QED
  BY <1>1, <1>2, <1>3, <1>4 DEF IngestStep

LEMMA RevokeFinds ==
    ASSUME IInv, ReviewerKept, NEW v \in Revoke, RevokeStep(v),
           NEW c \in Served, Found(c), qdrant = "up"
    PROVE  qdrant' = qdrant /\ Found(c)'
<1> USE RequestKinds DEF index, locals
<1>t. /\ pc \in [Request -> IngestPc \cup RevokePc \cup ReviewPc]
      /\ vector \in [Ingest -> {"none", "hit", "hidden"}]
      /\ target \in [Reviewer -> ClaimId]
  BY DEF IInv, Base, TypeOK
<1>c. c \in Ingest /\ c # None
  BY DEF Served, Current
<1>r. c # v /\ \A w \in Review : w # v
  BY <1>c
<1>1. \A x \in Request \ {v} : pc'[x] = pc[x]
  BY <1>t DEF RevokeStep, RevokeStart, RevokeMark, RevokeUnindex, Goto
<1>2. \A x \in Reviewer : target[x] = c => target'[x] = c
  BY <1>c DEF ReviewerKept
<1>3. qdrant' = qdrant /\ (vector'[c] = vector[c] \/ target[v] = c)
  <2>1. CASE RevokeUnindex(v)
    BY <1>t, <1>c, <2>1 DEF RevokeUnindex, HideVector
  <2>2. ASSUME RevokeMark(v) \/ \E d \in Ingest : RevokeStart(v, d)
        PROVE  UNCHANGED <<vector, qdrant>>
    BY <2>2 DEF RevokeStart, RevokeMark
  <2>3. QED
    BY <2>1, <2>2 DEF RevokeStep
<1>4. QED
  BY <1>1, <1>2, <1>3, <1>c, <1>r, FoundKept

LEMMA ReviewFinds ==
    ASSUME IInv, ReviewerKept, VectorInv, OneReviewPerClaim,
           NEW w \in Review, ReviewStep(w),
           NEW c \in Served, Found(c), qdrant = "up"
    PROVE  qdrant' = qdrant /\ Found(c)'
<1> USE RequestKinds DEF index, locals
<1>t. /\ pc \in [Request -> IngestPc \cup RevokePc \cup ReviewPc]
      /\ vector \in [Ingest -> {"none", "hit", "hidden"}]
      /\ target \in [Reviewer -> ClaimId]
  BY DEF IInv, Base, TypeOK
<1>c. c \in Ingest /\ c # None /\ claims[c].life = "active"
  BY DEF Served, Current
<1>r. c # w
  BY <1>c
<1>1. \A x \in Request \ {w} : pc'[x] = pc[x]
  BY <1>t DEF ReviewStep, ReviewStart, ReviewReject, ReviewRead, ReviewDemote,
         ReviewActivate, ReviewRefresh, ReviewIndex, Goto
<1>2. \A x \in Reviewer : target[x] = c => target'[x] = c
  BY <1>c DEF ReviewerKept
<1>3. CASE ReviewIndex(w)
  <2>1. target[w] = c => pc[w] = "indexActive"
    BY <1>3 DEF ReviewIndex, VectorInv, RefreshedUnserved
  <2>2. qdrant' = qdrant /\ vector'[c] = IF target[w] = c THEN "hit" ELSE vector[c]
    BY <1>t, <1>c, <1>3, <2>1 DEF ReviewIndex, UpsertVector
  <2>3. QED
    BY <1>c, <1>1, <1>2, <1>r, <2>2, FoundKept
<1>4. CASE ReviewRefresh(w)
  <2>1. UNCHANGED <<vector, qdrant>> /\ (target[w] = c => pc'[w] = "indexActive")
    BY <1>t, <1>c, <1>4 DEF ReviewRefresh, Goto
  <2>2. QED
    BY <1>c, <1>1, <1>2, <1>r, <2>1, FoundKept
<1>5. ASSUME \/ \E d \in Ingest, res \in {"ACCEPT", "REJECT"} : ReviewStart(w, d, res)
             \/ ReviewReject(w) \/ ReviewRead(w) \/ ReviewDemote(w) \/ ReviewActivate(w)
      PROVE  qdrant' = qdrant /\ Found(c)'
  <2>1. UNCHANGED <<vector, qdrant>> /\ pc[w] \notin {"index", "indexActive"}
    BY <1>5 DEF ReviewStart, ReviewReject, ReviewRead, ReviewDemote, ReviewActivate
  <2>2. QED
    BY <1>c, <1>1, <1>2, <1>r, <2>1, FoundKept
<1>6. QED
  BY <1>3, <1>4, <1>5 DEF ReviewStep

LEMMA StepFound ==
    ASSUME IInv, ReviewerKept, CurrentInv, VectorInv, TargetsKept, [Next]_vars
    PROVE  ServedFound'
<1> USE RequestKinds
<1>t. pc \in [Request -> IngestPc \cup RevokePc \cup ReviewPc]
      /\ claims \in [Ingest -> Document]
  BY DEF IInv, Base, TypeOK
<1>q. qdrant' = qdrant
  BY DEF Next, vars, index, Crash, IngestStep, IngestStart, IngestRead, IngestConfirm,
         InsertDemote, InsertAllocate, InsertStore, IngestMark, IngestUnindex, IngestIndex,
         RevokeStep, RevokeStart, RevokeMark, RevokeUnindex, ReviewStep, ReviewStart,
         ReviewReject, ReviewRead, ReviewDemote, ReviewActivate, ReviewRefresh, ReviewIndex
<1> SUFFICES ASSUME qdrant' = "up", NobodyCrashed', OneReviewPerClaim', NEW c \in Served'
             PROVE  Found(c)'
  BY DEF ServedFound
<1>1. qdrant = "up" /\ NobodyCrashed /\ OneReviewPerClaim
  BY <1>q, StepPlaces DEF TargetsKept, NobodyCrashed, PlacesKept, Finished
<1>2. ASSUME c \in Served
      PROVE  Found(c)'
  <2>1. Found(c)
    BY <1>1, <1>2 DEF VectorInv, ServedFound
  <2>2. CASE UNCHANGED vars
    BY <2>1, <2>2 DEF vars, index, locals, Found
  <2>3. ASSUME NEW x \in Request, Crash(x) PROVE FALSE
    BY <1>t, <2>3 DEF Crash, Goto, NobodyCrashed
  <2>4. QED
    BY <1>1, <1>2, <2>1, <2>2, <2>3, IngestFinds, RevokeFinds, ReviewFinds DEF Next
<1>3. CASE InsertStore(c) /\ pc'[c] \in {"mark", "index"}
  BY <1>3 DEF Found
<1>4. ASSUME NEW w \in Review, ReviewActivate(w), target[w] = c, c \notin Served
      PROVE  Found(c)'
  <2>1. claims' # claims
    BY <1>4 DEF Served, Current
  <2>2. pc'[w] = "index" /\ target' = target
    BY <1>t, <1>4, <2>1 DEF ReviewActivate, Goto, locals
  <2>3. QED
    BY <1>4, <2>2 DEF Found
<1>5. QED
  BY <1>1, <1>2, <1>3, <1>4, StepServes

-----------------------------------------------------------------------------
(* The theorems. *)

LEMMA InitCurrent == Init => CurrentInv
<1> SUFFICES ASSUME Init PROVE CurrentInv
  OBVIOUS
<1>1. Stored = {} /\ Current = {}
  BY DEF Init, Stored, Current, NoDocument
<1>2. /\ \A r \in Request : pc[r] = "idle"
      /\ \A c \in Ingest : claims[c].life = "absent"
  BY DEF Init, NoDocument
<1>3. QED
  BY <1>1, <1>2, RequestKinds
     DEF CurrentInv, LocalsAgree, ConflictedUnread, TargetUnread, ReplacedStaysDown,
         CurrentIsActive, CurrentOrPending, RevokedGone, Accepting, Holding

LEMMA NextCurrent ==
    ASSUME IInv, CurrentInv, [Next]_vars
    PROVE  CurrentInv'
<1>1. ReviewerKept
  BY ReviewersKept
<1>2. TargetsKept /\ HoldersKept
  BY <1>1, StepHolds
<1>3. Orderly'
  BY <1>2, StepCalm, CalmOrderly, StoreOrderly, ActivateOrderly
<1>4. LocalsAgree'
  BY StepLocals DEF CurrentInv
<1>5. CurrentOrPending' /\ RevokedGone'
  BY <1>1, StepBrings, StepRevoked
<1>6. QED
  BY <1>3, <1>4, <1>5 DEF Orderly, CurrentInv

\* Whatever requests interleave and crash: what is current or about to be is in order.
THEOREM CurrentInvariance == Spec => []CurrentInv
<1>1. IInv /\ CurrentInv /\ [Next]_vars => CurrentInv'
  BY NextCurrent
<1>2. QED
  BY <1>1, InitCurrent, Invariance, PTL DEF Spec

\* One current claim, not two and not none, and an active one: demotion, insertion
\* and mark are separate awaits of requests that race for uk_current_claim.
THEOREM CurrentAlwaysSound == Spec => []CurrentSound
<1>1. CurrentInv => NoLostCurrent
  BY RequestKinds
     DEF CurrentInv, CurrentOrPending, NoLostCurrent, Pending, Quiet, Finished
<1>2. IInv /\ CurrentInv => CurrentSound
  BY <1>1 DEF CurrentSound, CurrentInv, IInv, Base
<1>3. QED
  BY <1>2, Invariance, CurrentInvariance, PTL

\* A claim that a revoke withdrew, and no review names, is not served again by any
\* ingest that read it before.
THEOREM RevokedStaysAway == Spec => []RevokedNotServed
<1>1. CurrentInv => RevokedNotServed
  BY DEF CurrentInv, RevokedGone, RevokedNotServed, Served
<1>2. QED
  BY <1>1, CurrentInvariance, PTL

LEMMA InitVector == Init => VectorInv
<1> SUFFICES ASSUME Init PROVE VectorInv
  OBVIOUS
<1>1. Current = {} /\ Served = {}
  BY DEF Init, Current, Served, NoDocument
<1>2. QED
  BY <1>1 DEF VectorInv, HidesUnserved, RefreshedUnserved, ServedFound

LEMMA NextVector ==
    ASSUME IInv, CurrentInv, VectorInv, [Next]_vars
    PROVE  VectorInv'
<1>1. ReviewerKept
  BY ReviewersKept
<1>2. TargetsKept
  BY <1>1, StepHolds
<1>3. QED
  BY <1>1, <1>2, StepHides, StepRefreshed, StepFound DEF VectorInv

\* When the requests have ended and Qdrant took every write, what is served is found
\* by vector recall, although the point is written and hidden long after the claim
\* changed: for any number of ingests and revokes, and one review per claim.
THEOREM ServedAlwaysIndexed == Spec => []ServedIsIndexed
<1>1. IInv /\ CurrentInv /\ VectorInv /\ [Next]_vars => VectorInv'
  BY NextVector
<1>2. Spec => []VectorInv
  BY <1>1, InitVector, Invariance, CurrentInvariance, PTL DEF Spec
<1>3. VectorInv => ServedIsIndexed
  <2> SUFFICES ASSUME VectorInv, qdrant = "up", Quiet, NobodyCrashed, OneReviewPerClaim,
                      NEW c \in Served
               PROVE  vector[c] = "hit" \/ \E v \in Revoke : target[v] = c
    BY DEF ServedIsIndexed
  <2>1. Found(c)
    BY DEF VectorInv, ServedFound
  <2>2. c \in Request
    BY RequestKinds DEF Served, Current
  <2>3. QED
    BY <2>1, <2>2, RequestKinds DEF Found, Quiet, Finished
<1>4. QED
  BY <1>2, <1>3, PTL

-----------------------------------------------------------------------------
(***************************************************************************)
(* One request at a time.  What a request in flight has decided on is      *)
(* still true when it acts, and it alone hides something from the ledger.  *)
(***************************************************************************)
\* d carries what e states.
States(d, e) ==
    /\ d.life = e.life /\ d.value = e.value /\ d.status = e.status
    /\ d.conf = e.conf /\ d.eff = e.eff /\ d.prov = e.prov

\* The document of r is that of the input i, and the decision still stands.
Decided(r, i) ==
    /\ decision[r] = Decide(ClaimDoc(i), prev[r])
    /\ decision[r] # "CONFIRM"
    /\ States(doc[r], Prepared(ClaimDoc(i), prev[r], decision[r]))

IngestStands(r) ==
    /\ pc[r] \in {"read", "confirm"} =>
            \E i \in Input : Admissible(i) /\ States(doc[r], ClaimDoc(i))
    /\ pc[r] = "confirm" => prev[r] \in Current /\ claims[prev[r]].value = doc[r].value
    /\ pc[r] \in {"demote", "allocate", "insert"} =>
            \E i \in Input : Admissible(i) /\ Decided(r, i)
    /\ pc[r] = "demote" =>
            /\ decision[r] \in MakeCurrent
            /\ IF prev[r] = None THEN Current = {} ELSE prev[r] \in Current
    /\ pc[r] \in {"allocate", "insert"} =>
            IF decision[r] = "CONFLICT" THEN prev[r] \in Current
            ELSE Current = {} /\ (prev[r] # None => claims[prev[r]].life = "active")
    /\ pc[r] = "mark" =>
            prev[r] \in Ingest /\ ~claims[prev[r]].current /\ claims[prev[r]].life = "active"

ReviewStands(w) ==
    /\ pc[w] \in {"reject", "read", "demote", "activate"} =>
            target[w] \in Ingest /\ claims[target[w]].life = "conflicted"
    /\ pc[w] = "demote" => prev[w] \in Current
    /\ pc[w] = "activate" => Current = {}

Lone == \A r, s \in InFlight(pc) : r = s

CurrentActive == \A c \in Current : claims[c].life = "active"

SerialInv ==
    /\ IInv /\ Lone /\ CurrentActive
    /\ \A r \in Ingest : IngestStands(r)
    /\ \A w \in Review : ReviewStands(w)

Resting == Finished \cup {"idle"}

\* Nobody else is in flight before or after the step of a request in flight.
LEMMA OthersRest ==
    ASSUME Lone, OneAtATime, NEW x \in Request, NEW l, Goto(x, l), TypeOK,
           pc[x] \notin Resting \/ l \notin Resting
    PROVE  /\ pc'[x] = l
           /\ \A y \in Request : y # x => pc[y] \in Resting /\ pc'[y] = pc[y]
<1>1. pc'[x] = l /\ \A y \in Request : y # x => pc'[y] = pc[y]
  BY DEF Goto, TypeOK
<1>2. ASSUME NEW y \in Request, y # x PROVE pc[y] \in Resting
  BY <1>1, <1>2 DEF Lone, OneAtATime, InFlight, Resting
<1>3. QED
  BY <1>1, <1>2

LEMMA RestStands ==
    /\ \A r \in Ingest : pc'[r] \in Resting => IngestStands(r)'
    /\ \A w \in Review : pc'[w] \in Resting => ReviewStands(w)'
BY DEF IngestStands, ReviewStands, Resting, Finished

\* So the invariant holds after the step if it holds of that request.
LEMMA LoneStep ==
    ASSUME SerialInv, IInv', OneAtATime, NEW x \in Request, NEW l, Goto(x, l),
           pc[x] \notin Resting \/ l \notin Resting,
           CurrentActive',
           x \in Ingest => IngestStands(x)', x \in Review => ReviewStands(x)'
    PROVE  SerialInv'
<1>1. \A y \in Request : y # x => pc'[y] \in Resting
  BY OthersRest DEF SerialInv, IInv, Base
<1>2. Lone'
  BY DEF OneAtATime, Lone
<1>3. QED
  BY <1>1, <1>2, RestStands, RequestKinds DEF SerialInv

\* A decision does not depend on what a demotion or a revision number changes.
LEMMA DecisionStands ==
    ASSUME NEW r \in Ingest, NEW i, Decided(r, i),
           decision'[r] = decision[r], prev'[r] = prev[r], States(doc'[r], doc[r]),
           prev[r] # None =>
              LET c == claims[prev[r]]
                  e == claims'[prev[r]]
              IN  e.value = c.value /\ e.status = c.status /\ e.conf = c.conf
                    /\ e.eff = c.eff /\ e.prov = c.prov
    PROVE  Decided(r, i)'
<1> DEFINE d == ClaimDoc(i)
<1>1. CASE prev[r] = None
  <2>1. Decide(d, prev[r]) = "ADD" /\ Decide(d, prev[r])' = "ADD"
    BY <1>1 DEF Decide
  <2>2. decision[r] = "ADD"
    BY <2>1 DEF Decided
  <2>3. QED
    BY <1>1, <2>1, <2>2 DEF Decided, Prepared, States, Decide, Replaces
<1>2. CASE prev[r] # None
  <2>1. Outranks(d, claims'[prev[r]]) = Outranks(d, claims[prev[r]])
    BY <1>2 DEF Outranks, NewerSameAuthority, FactTime
  <2> HIDE DEF d
  <2>2. Decide(d, prev[r])' = Decide(d, prev[r])
    BY <1>2, <2>1 DEF Decide
  <2>3. Prepared(d, prev[r], decision[r])' = Prepared(d, prev[r], decision[r])
    BY <1>2 DEF Prepared
  <2>4. QED
    BY <2>2, <2>3 DEF Decided, States, d
<1>3. QED
  BY <1>1, <1>2

LEMMA IngestSerial ==
    ASSUME SerialInv, IInv', SerialNext, NEW r \in Ingest, IngestStep(r)
    PROVE  SerialInv'
<1> USE RequestKinds DEF index, locals
<1>t. /\ pc \in [Request -> IngestPc \cup RevokePc \cup ReviewPc]
      /\ doc \in [Ingest -> Document] /\ decision \in [Ingest -> Decision]
      /\ prev \in [Request -> ClaimId] /\ claims \in [Ingest -> Document]
      /\ Base /\ OneAtATime /\ r \in Request /\ r \notin Review /\ CurrentActive
  BY DEF SerialInv, IInv, Base, TypeOK, SerialNext
<1>h. IngestStands(r)
  BY DEF SerialInv
<1>1. ASSUME NEW i \in Input, IngestStart(r, i) PROVE SerialInv'
  <2>0. CurrentActive'
    BY <1>1, <1>t DEF IngestStart, CurrentActive, Current
  <2>1. CASE Admissible(i)
    <3>1. Goto(r, "read") /\ doc'[r] = ClaimDoc(i)
      BY <1>1, <1>t, <2>1 DEF IngestStart
    <3>2. pc'[r] = "read"
      BY <1>t, <3>1 DEF Goto
    <3>3. IngestStands(r)'
      BY <2>1, <3>1, <3>2 DEF IngestStands, States
    <3>4. QED
      BY <1>t, <2>0, <3>1, <3>3, LoneStep DEF Resting, Finished
  <2>2. CASE ~Admissible(i)
    <3>1. /\ UNCHANGED <<claims, doc, prev, target>> /\ pc' = [pc EXCEPT ![r] = "done"]
          /\ decision' = [decision EXCEPT ![r] = "REJECT"] /\ pc[r] = "idle"
      BY <1>1, <2>2 DEF IngestStart, Goto
    <3>2. /\ pc'[r] = "done" /\ \A q \in Request : q # r => pc'[q] = pc[q]
          /\ \A q \in Ingest : q # r => decision'[q] = decision[q]
      BY <1>t, <3>1
    <3>3. \A q \in Ingest : q # r => IngestStands(q)'
      BY <3>1, <3>2
         DEF SerialInv, IngestStands, Decided, Decide, Prepared, States, Current
    <3>4. IngestStands(r)'
      BY <3>2, RestStands DEF Resting, Finished
    <3>5. \A w \in Review : ReviewStands(w)'
      BY <3>1, <3>2 DEF SerialInv, ReviewStands, Current
    <3>6. Lone'
      BY <1>t DEF Lone, OneAtATime
    <3>7. QED
      BY <2>0, <3>3, <3>4, <3>5, <3>6 DEF SerialInv
  <2>3. QED
    BY <2>1, <2>2
<1>2. CASE IngestRead(r)
  <2> DEFINE what == Decide(doc[r], Latest)
  <2>1. /\ pc[r] = "read" /\ UNCHANGED claims
        /\ decision'[r] = what /\ prev'[r] = Latest
        /\ doc'[r] = Prepared(doc[r], Latest, what)
        /\ Goto(r, IF what = "CONFIRM" THEN "confirm"
                   ELSE IF what = "CONFLICT" THEN "allocate" ELSE "demote")
    BY <1>2, <1>t DEF IngestRead
  <2>2. PICK i \in Input : Admissible(i) /\ States(doc[r], ClaimDoc(i))
    BY <1>h, <2>1 DEF IngestStands
  <2>3. what = Decide(ClaimDoc(i), Latest)
    BY <2>2 DEF Decide, States, Outranks, NewerSameAuthority, FactTime
  <2>4. States(Prepared(doc[r], Latest, what), Prepared(ClaimDoc(i), Latest, what))
    BY <1>t, <2>2, ClaimDocType DEF Prepared, States, Document
  <2>5. what = "CONFIRM" => States(Prepared(doc[r], Latest, what), ClaimDoc(i))
    BY <1>t, <2>2, ClaimDocType DEF Prepared, States, Document, Replaces
  <2>6. what = "CONFIRM" => Latest # None /\ claims[Latest].value = doc[r].value
    BY DEF Decide
  <2>7. /\ what \in {"CONFIRM", "CONFLICT"} \cup MakeCurrent
        /\ (what = "CONFLICT" => Latest # None)
    BY DEF Decide, MakeCurrent
  <2> HIDE DEF what
  <2>8. /\ Latest # None => Latest \in Current
        /\ Latest = None => Current = {}
    BY <1>t, LatestFact
  <2>9. CASE what = "CONFIRM"
    <3>1. Goto(r, "confirm")
      BY <2>1, <2>9
    <3>2. pc'[r] = "confirm"
      BY <1>t, <3>1 DEF Goto
    <3>3. States(doc'[r], ClaimDoc(i)) /\ Latest \in Current
      BY <2>1, <2>5, <2>6, <2>8, <2>9
    <3>4. claims[Latest].value = doc'[r].value
      BY <2>1, <2>6, <2>9, <1>t DEF Prepared, Document
    <3>5. IngestStands(r)'
      BY <2>1, <2>2, <3>2, <3>3, <3>4 DEF IngestStands, Current
    <3>6. QED
      BY <1>t, <2>1, <3>1, <3>5, LoneStep DEF Resting, Finished, CurrentActive, Current
  <2>10. CASE what # "CONFIRM"
    <3>1. Decided(r, i)'
      BY <2>1, <2>3, <2>4, <2>10 DEF Decided, Decide, Prepared
    <3>2. PICK l \in {"allocate", "demote"} : Goto(r, l) /\ (l = "allocate" <=> what = "CONFLICT")
      BY <2>1, <2>10
    <3>3. pc'[r] = l
      BY <1>t, <3>2 DEF Goto
    <3>4. IngestStands(r)'
      BY <2>1, <2>2, <2>7, <2>8, <2>10, <3>1, <3>2, <3>3 DEF IngestStands, Current
    <3>5. QED
      BY <1>t, <2>1, <3>2, <3>4, LoneStep DEF Resting, Finished, CurrentActive, Current
  <2>11. QED
    BY <2>9, <2>10
<1>3. CASE IngestConfirm(r)
  <2>1. /\ pc[r] = "confirm" /\ Goto(r, "done")
        /\ claims' = [claims EXCEPT ![prev[r]] = Confirmed(@, doc[r])]
    BY <1>3 DEF IngestConfirm
  <2>2. \A c \in Ingest : /\ claims'[c].current = claims[c].current
                          /\ claims'[c].life = claims[c].life
    BY <1>t, <2>1 DEF Confirmed, Document
  <2>3. CurrentActive'
    BY <1>t, <2>2 DEF CurrentActive, Current
  <2>4. pc'[r] = "done"
    BY <1>t, <2>1 DEF Goto
  <2>5. QED
    BY <1>t, <2>1, <2>3, <2>4, LoneStep, RestStands DEF Resting, Finished
<1>4. CASE InsertDemote(r)
  <2>1. /\ pc[r] = "demote" /\ Goto(r, "allocate") /\ UNCHANGED <<doc, decision, prev>>
        /\ claims' = [c \in Ingest |-> [claims[c] EXCEPT !.current = FALSE]]
    BY <1>4 DEF InsertDemote
  <2>2. \A c \in Ingest :
          LET e == claims'[c] IN
            /\ ~e.current /\ e.life = claims[c].life /\ e.value = claims[c].value
            /\ e.status = claims[c].status /\ e.conf = claims[c].conf
            /\ e.eff = claims[c].eff /\ e.prov = claims[c].prov
    BY <1>t, <2>1 DEF Document
  <2>3. Current' = {} /\ CurrentActive'
    BY <2>2 DEF CurrentActive, Current
  <2>4. pc'[r] = "allocate"
    BY <1>t, <2>1 DEF Goto
  <2>5. PICK i \in Input : Admissible(i) /\ Decided(r, i)
    BY <1>h, <2>1 DEF IngestStands
  <2>6. prev[r] # None => prev[r] \in Current /\ prev[r] \in Ingest
    BY <1>h, <2>1 DEF IngestStands, Current
  <2>7. Decided(r, i)'
    BY <2>1, <2>2, <2>5, <2>6, DecisionStands DEF States
  <2>8. decision'[r] # "CONFLICT"
    BY <1>h, <2>1 DEF IngestStands, MakeCurrent
  <2>9. prev'[r] # None => claims'[prev'[r]].life = "active"
    BY <1>t, <2>1, <2>2, <2>6 DEF CurrentActive
  <2>10. IngestStands(r)'
    BY <2>3, <2>4, <2>5, <2>7, <2>8, <2>9 DEF IngestStands
  <2>11. QED
    BY <1>t, <2>1, <2>3, <2>10, LoneStep DEF Resting, Finished
<1>5. CASE InsertAllocate(r)
  <2>1. /\ pc[r] = "allocate" /\ Goto(r, "insert") /\ UNCHANGED <<claims, decision, prev>>
        /\ doc' = [doc EXCEPT ![r].rev = head + 1]
    BY <1>5 DEF InsertAllocate
  <2>2. States(doc'[r], doc[r])
    BY <1>t, <2>1 DEF States, Document
  <2>3. pc'[r] = "insert"
    BY <1>t, <2>1 DEF Goto
  <2>4. PICK i \in Input : Admissible(i) /\ Decided(r, i)
    BY <1>h, <2>1 DEF IngestStands
  <2>5. Decided(r, i)'
    BY <2>1, <2>2, <2>4, DecisionStands
  <2>6. Current' = Current /\ CurrentActive'
    BY <1>t, <2>1 DEF Current, CurrentActive
  <2>7. IngestStands(r)'
    BY <1>h, <2>1, <2>3, <2>4, <2>5, <2>6 DEF IngestStands
  <2>8. QED
    BY <1>t, <2>1, <2>6, <2>7, LoneStep DEF Resting, Finished
<1>6. CASE InsertStore(r)
  <2>0. pc[r] = "insert" /\ r \notin Stored
    BY <1>6 DEF InsertStore, SerialInv, IInv, BornAtInsert, Building
  <2>1. CASE decision[r] \notin MakeCurrent
    <3>1. Goto(r, "done") /\ claims' = [claims EXCEPT ![r] = doc[r]]
      BY <1>6, <2>1 DEF InsertStore
    <3>2. ~doc[r].current
      BY DEF SerialInv, IInv, DocNotCurrent
    <3>3. CurrentActive'
      BY <1>t, <3>1, <3>2 DEF CurrentActive, Current
    <3>4. pc'[r] = "done"
      BY <1>t, <3>1 DEF Goto
    <3>5. QED
      BY <1>t, <3>1, <3>3, <3>4, <2>0, LoneStep, RestStands DEF Resting, Finished
  <2>2. CASE decision[r] \in MakeCurrent
    <3>1. PICK i \in Input : Admissible(i) /\ Decided(r, i)
      BY <1>h, <2>0 DEF IngestStands
    <3>2. doc[r].life = "active"
      BY <2>2, <3>1 DEF Decided, States, Prepared, ClaimDoc, NoDocument, MakeCurrent
    <3>3. Current = {} /\ (prev[r] # None => claims[prev[r]].life = "active")
      BY <1>h, <2>0, <2>2 DEF IngestStands, MakeCurrent
    <3>4. /\ claims' = [claims EXCEPT ![r] = [doc[r] EXCEPT !.current = TRUE]]
          /\ Goto(r, IF decision[r] \in Replaces THEN "mark" ELSE "index")
          /\ UNCHANGED <<decision, prev>>
      BY <1>6, <2>2, <3>3 DEF InsertStore, DuplicateCurrent
    <3>5. claims'[r].life = "active" /\ \A c \in Ingest : c # r => claims'[c] = claims[c]
      BY <1>t, <3>2, <3>4 DEF Document
    <3>6. CurrentActive'
      BY <3>3, <3>5 DEF CurrentActive, Current
    <3>7. CASE decision[r] \in Replaces
      <4>1. prev[r] # None
        BY <3>1, <3>7 DEF Decided, Decide, Replaces
      <4>2. prev[r] \in Ingest /\ prev[r] # r
        BY <1>t, <4>1 DEF SerialInv, IInv, IngestHeld, ClaimId
      <4>3. claims'[prev[r]].life = "active" /\ ~claims'[prev[r]].current
        BY <3>3, <3>5, <4>1, <4>2 DEF Current
      <4>4. Goto(r, "mark")
        BY <3>4, <3>7
      <4>5. pc'[r] = "mark"
        BY <1>t, <4>4 DEF Goto
      <4>6. IngestStands(r)'
        BY <3>4, <4>2, <4>3, <4>5 DEF IngestStands
      <4>7. QED
        BY <1>t, <2>0, <3>6, <4>4, <4>6, LoneStep DEF Resting, Finished
    <3>8. CASE decision[r] \notin Replaces
      <4>1. Goto(r, "index")
        BY <3>4, <3>8
      <4>2. pc'[r] = "index"
        BY <1>t, <4>1 DEF Goto
      <4>3. IngestStands(r)'
        BY <4>2 DEF IngestStands
      <4>4. QED
        BY <1>t, <2>0, <3>6, <4>1, <4>3, LoneStep DEF Resting, Finished
    <3>9. QED
      BY <3>7, <3>8
  <2>3. QED
    BY <2>1, <2>2
<1>7. CASE IngestMark(r)
  <2>1. /\ pc[r] = "mark" /\ Goto(r, "unindex")
        /\ claims' = [claims EXCEPT ![prev[r]] =
                        [@ EXCEPT !.life = "superseded", !.supersededBy = r]]
    BY <1>7 DEF IngestMark
  <2>2. ~claims[prev[r]].current /\ prev[r] \in Ingest
    BY <1>h, <2>1 DEF IngestStands
  <2>3. /\ ~claims'[prev[r]].current
        /\ \A c \in Ingest : c # prev[r] => claims'[c] = claims[c]
    BY <1>t, <2>1, <2>2 DEF Document
  <2>4. CurrentActive'
    BY <1>t, <2>2, <2>3 DEF CurrentActive, Current
  <2>5. pc'[r] = "unindex"
    BY <1>t, <2>1 DEF Goto
  <2>6. IngestStands(r)'
    BY <2>5 DEF IngestStands
  <2>7. QED
    BY <1>t, <2>1, <2>4, <2>6, LoneStep DEF Resting, Finished
<1>8. CASE IngestUnindex(r) \/ IngestIndex(r)
  <2>1. PICK l \in {"index", "done"} : Goto(r, l) /\ UNCHANGED claims /\ pc[r] \notin Resting
    BY <1>8 DEF IngestUnindex, IngestIndex, Resting, Finished
  <2>2. pc'[r] = l /\ CurrentActive'
    BY <1>t, <2>1 DEF Goto, CurrentActive, Current
  <2>3. IngestStands(r)'
    BY <2>2 DEF IngestStands
  <2>4. QED
    BY <1>t, <2>1, <2>2, <2>3, LoneStep
<1>9. QED
  BY <1>1, <1>2, <1>3, <1>4, <1>5, <1>6, <1>7, <1>8 DEF IngestStep

LEMMA RevokeSerial ==
    ASSUME SerialInv, IInv', SerialNext, NEW v \in Revoke, RevokeStep(v)
    PROVE  SerialInv'
<1> USE RequestKinds DEF index, locals
<1>t. /\ claims \in [Ingest -> Document]
      /\ Base /\ OneAtATime /\ v \in Request /\ v \notin Review /\ v \notin Ingest
      /\ CurrentActive
  BY DEF SerialInv, IInv, Base, TypeOK, SerialNext
<1>1. CurrentActive'
  <2>1. CASE UNCHANGED claims
    BY <1>t, <2>1 DEF CurrentActive, Current
  <2>2. CASE RevokeMark(v)
    <3>1. \A c \in Ingest : claims'[c] = claims[c] \/ ~claims'[c].current
      BY <1>t, <2>2 DEF RevokeMark, Document
    <3>2. QED
      BY <1>t, <3>1 DEF CurrentActive, Current
  <2>3. QED
    BY <2>1, <2>2 DEF RevokeStep, RevokeStart, RevokeUnindex
<1>2. PICK l : Goto(v, l) /\ (pc[v] \notin Resting \/ l \notin Resting)
  BY DEF RevokeStep, RevokeStart, RevokeMark, RevokeUnindex, Resting, Finished
<1>3. QED
  BY <1>t, <1>1, <1>2, LoneStep

LEMMA ReviewSerial ==
    ASSUME SerialInv, IInv', SerialNext, NEW w \in Review, ReviewStep(w)
    PROVE  SerialInv'
<1> USE RequestKinds DEF index, locals
<1>t. /\ pc \in [Request -> IngestPc \cup RevokePc \cup ReviewPc]
      /\ prev \in [Request -> ClaimId] /\ claims \in [Ingest -> Document]
      /\ target \in [Reviewer -> ClaimId] /\ w \in Reviewer
      /\ Base /\ OneAtATime /\ w \in Request /\ w \notin Ingest /\ CurrentActive
      /\ ReviewStands(w)
  BY DEF SerialInv, IInv, Base, TypeOK, SerialNext
<1>1. ASSUME NEW c \in Ingest, NEW res \in {"ACCEPT", "REJECT"}, ReviewStart(w, c, res)
      PROVE  SerialInv'
  <2>1. PICK l \in {"reject", "read"} : Goto(w, l)
    BY <1>1 DEF ReviewStart
  <2>2. pc'[w] = l /\ target'[w] = c /\ claims[c].life = "conflicted" /\ UNCHANGED claims
    BY <1>1, <1>t, <2>1 DEF ReviewStart, Goto
  <2>3. ReviewStands(w)' /\ CurrentActive'
    BY <1>t, <2>2 DEF ReviewStands, CurrentActive, Current
  <2>4. QED
    BY <1>t, <2>1, <2>3, LoneStep DEF Resting, Finished
<1>2. CASE ReviewReject(w)
  <2>1. /\ pc[w] = "reject" /\ Goto(w, "done")
        /\ claims' = [claims EXCEPT ![target[w]] =
                        [@ EXCEPT !.life = "revoked", !.current = FALSE]]
    BY <1>2 DEF ReviewReject
  <2>2. CurrentActive'
    BY <1>t, <2>1 DEF CurrentActive, Current, Document
  <2>3. pc'[w] = "done"
    BY <1>t, <2>1 DEF Goto
  <2>4. ReviewStands(w)'
    BY <2>3 DEF ReviewStands
  <2>5. QED
    BY <1>t, <2>1, <2>2, <2>4, LoneStep DEF Resting, Finished
<1>3. CASE ReviewRead(w)
  <2>1. /\ pc[w] = "read" /\ UNCHANGED <<claims, target>> /\ prev'[w] = Latest
        /\ Goto(w, IF Latest \in {None, target[w]} THEN "activate" ELSE "demote")
    BY <1>3, <1>t DEF ReviewRead
  <2>2. target[w] \in Ingest /\ claims[target[w]].life = "conflicted"
    BY <1>t, <2>1 DEF ReviewStands
  <2>3. /\ Latest # None => Latest \in Current
        /\ Latest = None => Current = {}
    BY <1>t, LatestFact
  <2>4. Latest # target[w]
    BY <1>t, <2>2, <2>3 DEF CurrentActive
  <2>5. CurrentActive'
    BY <1>t, <2>1 DEF CurrentActive, Current
  <2>6. PICK l \in {"activate", "demote"} : Goto(w, l) /\ (l = "activate" <=> Latest = None)
    BY <2>1, <2>4
  <2>7. pc'[w] = l
    BY <1>t, <2>6 DEF Goto
  <2>8. ReviewStands(w)'
    BY <2>1, <2>2, <2>3, <2>6, <2>7 DEF ReviewStands, Current
  <2>9. QED
    BY <1>t, <2>1, <2>5, <2>6, <2>8, LoneStep DEF Resting, Finished
<1>4. CASE ReviewDemote(w)
  <2>1. /\ pc[w] = "demote" /\ Goto(w, "activate") /\ UNCHANGED target
        /\ claims' = [claims EXCEPT ![prev[w]] =
                        [@ EXCEPT !.life = "superseded", !.current = FALSE,
                                  !.supersededBy = target[w]]]
    BY <1>4 DEF ReviewDemote
  <2>2. target[w] \in Ingest /\ claims[target[w]].life = "conflicted" /\ prev[w] \in Current
    BY <1>t, <2>1 DEF ReviewStands
  <2>3. prev[w] # target[w] /\ prev[w] \in Ingest
    BY <1>t, <2>2 DEF CurrentActive, Current
  <2>4. /\ ~claims'[prev[w]].current
        /\ \A c \in Ingest : c # prev[w] => claims'[c] = claims[c]
    BY <1>t, <2>1, <2>3 DEF Document
  <2>5. Current' = {}
    BY <1>t, <2>2, <2>4 DEF Base, AtMostOneCurrent, Current
  <2>6. pc'[w] = "activate"
    BY <1>t, <2>1 DEF Goto
  <2>7. ReviewStands(w)' /\ CurrentActive'
    BY <2>1, <2>2, <2>3, <2>4, <2>5, <2>6 DEF ReviewStands, CurrentActive
  <2>8. QED
    BY <1>t, <2>1, <2>7, LoneStep DEF Resting, Finished
<1>5. CASE ReviewActivate(w)
  <2>1. PICK l \in {"index", "failed"} : Goto(w, l) /\ pc[w] = "activate"
    BY <1>5 DEF ReviewActivate
  <2>2. CurrentActive'
    <3>1. CASE UNCHANGED claims
      BY <1>t, <3>1 DEF CurrentActive, Current
    <3>2. CASE claims' = [claims EXCEPT ![target[w]] =
                            [@ EXCEPT !.life = "active", !.current = TRUE]]
      <4>1. \A c \in Ingest : claims'[c] = claims[c] \/ claims'[c].life = "active"
        BY <1>t, <3>2 DEF Document
      <4>2. QED
        BY <1>t, <4>1 DEF CurrentActive, Current
    <3>3. QED
      BY <1>5, <3>1, <3>2 DEF ReviewActivate
  <2>3. pc'[w] = l
    BY <1>t, <2>1 DEF Goto
  <2>4. ReviewStands(w)'
    BY <2>3 DEF ReviewStands
  <2>5. QED
    BY <1>t, <2>1, <2>2, <2>4, LoneStep DEF Resting, Finished
<1>6. CASE ReviewRefresh(w) \/ ReviewIndex(w)
  <2>1. PICK l \in {"indexActive", "indexOther", "done"} :
            Goto(w, l) /\ UNCHANGED claims /\ pc[w] \notin Resting
    BY <1>6 DEF ReviewRefresh, ReviewIndex, Resting, Finished
  <2>2. pc'[w] = l /\ CurrentActive'
    BY <1>t, <2>1 DEF Goto, CurrentActive, Current
  <2>3. ReviewStands(w)'
    BY <2>2 DEF ReviewStands
  <2>4. QED
    BY <1>t, <2>1, <2>2, <2>3, LoneStep
<1>7. QED
  BY <1>1, <1>2, <1>3, <1>4, <1>5, <1>6 DEF ReviewStep

LEMMA InitSerial == Init => SerialInv
<1> SUFFICES ASSUME Init PROVE SerialInv
  OBVIOUS
<1>1. IInv
  BY InitInv
<1>2. \A r \in Request : pc[r] = "idle"
  BY DEF Init
<1>3. Lone
  BY <1>2 DEF Lone, InFlight
<1>4. CurrentActive
  BY DEF Init, CurrentActive, Current, NoDocument
<1>5. \A r \in Ingest : IngestStands(r)
  BY <1>2, RequestKinds DEF IngestStands
<1>6. \A w \in Review : ReviewStands(w)
  BY <1>2, RequestKinds DEF ReviewStands
<1>7. QED
  BY <1>1, <1>3, <1>4, <1>5, <1>6 DEF SerialInv

LEMMA NextSerial ==
    ASSUME SerialInv, [SerialNext]_vars
    PROVE  SerialInv'
<1>1. IInv'
  BY NextInv DEF SerialInv, SerialNext
<1>2. CASE UNCHANGED vars
  BY <1>1, <1>2 DEF SerialInv, Lone, InFlight, CurrentActive, Current, IngestStands,
         ReviewStands, Decided, Decide, Prepared, States, vars, locals
<1>3. ASSUME NEW r \in Request, Crash(r), NoCrash PROVE FALSE
  <2>1. pc'[r] = "crashed"
    BY <1>3 DEF Crash, Goto, SerialInv, IInv, Base, TypeOK
  <2>2. QED
    BY <1>3, <2>1 DEF NoCrash
<1>4. QED
  BY <1>1, <1>2, <1>3, IngestSerial, RevokeSerial, ReviewSerial DEF SerialNext, Next

-----------------------------------------------------------------------------
(* The steps of the ledger. *)

\* The rules of the ledger are those of the engine.
LEMMA SameRules ==
    ASSUME NEW d, NEW e, NEW x, NEW y,
           d.status = x.status, d.conf = x.conf, d.eff = x.eff, d.prov = x.prov,
           e.status = y.status, e.conf = y.conf, e.eff = y.eff, e.prov = y.prov
    PROVE  Ledger!Outranks(d, e) <=> Outranks(x, y)
<1>1. Ledger!FactTime(d) = FactTime(x) /\ Ledger!FactTime(e) = FactTime(y)
  BY DEF Ledger!FactTime, FactTime, Ledger!Max, Max
<1>2. QED
  BY <1>1 DEF Ledger!Outranks, Outranks, Ledger!NewerSameAuthority, NewerSameAuthority,
              Ledger!FactAuthority, FactAuthority

LEMMA SameFill ==
    /\ \A v, w : Ledger!NonConflicting(v, w) <=> NonConflicting(v, w)
    /\ \A v, w : Ledger!Filled(v, w) = Filled(v, w)
    /\ \A i : Ledger!Admissible(i) <=> Admissible(i)
BY DEF Ledger!NonConflicting, NonConflicting, Ledger!IsObject, IsObject, Ledger!Plain, Plain,
       Ledger!Filled, Filled, Ledger!Admissible, Admissible

\* Two ledgers that show the same of every claim are the same.
LEMMA SeenNext ==
    ASSUME NEW f, f = [c \in Ingest |-> f[c]], \A c \in Ingest : Seen(c)' = f[c]
    PROVE  seen' = f
BY DEF seen

LEMMA SeenFact ==
    /\ \A c \in Ingest : seen[c] = Seen(c)
    /\ seen = [c \in Ingest |-> seen[c]] /\ DOMAIN seen = Ingest
BY DEF seen

\* Only the request in flight hides something.
LEMMA Hiding ==
    ASSUME TypeOK, NEW x \in Request, \A y \in Request : y # x => pc[y] \in Resting,
           NEW c \in Ingest
    PROVE  /\ BeingReplaced(c) <=> /\ x \in Ingest /\ pc[x] \in {"allocate", "insert"}
                                   /\ decision[x] \in Replaces /\ prev[x] = c
           /\ BeingActivated(c) <=> x \in Review /\ pc[x] = "activate" /\ target[x] = c
BY RequestKinds DEF BeingReplaced, BeingActivated, Resting, Finished

LEMMA HidingNext ==
    ASSUME TypeOK', NEW x \in Request, \A y \in Request : y # x => pc'[y] \in Resting,
           NEW c \in Ingest
    PROVE  /\ BeingReplaced(c)' <=> /\ x \in Ingest /\ pc'[x] \in {"allocate", "insert"}
                                    /\ decision'[x] \in Replaces /\ prev'[x] = c
           /\ BeingActivated(c)' <=> x \in Review /\ pc'[x] = "activate" /\ target'[x] = c
BY RequestKinds DEF BeingReplaced, BeingActivated, Resting, Finished

\* A claim shows what it showed: its document tells the same, and who hides what
\* has not changed.
LEMMA SeenSame ==
    ASSUME NEW c \in Ingest, claims'[c].life = claims[c].life,
           claims'[c].current = claims[c].current,
           claims'[c].value = claims[c].value, claims'[c].status = claims[c].status,
           claims'[c].conf = claims[c].conf, claims'[c].eff = claims[c].eff,
           claims'[c].prov = claims[c].prov,
           BeingReplaced(c)' <=> BeingReplaced(c), BeingActivated(c)' <=> BeingActivated(c)
    PROVE  Seen(c)' = Seen(c)
BY DEF Seen, SeenLife

\* An ingest step that leaves the claims alone and hides the same as before.
LEMMA IngestQuiet ==
    ASSUME SerialInv, IInv', OneAtATime, NEW r \in Ingest, NEW l, Goto(r, l),
           pc[r] \notin Resting \/ l \notin Resting, UNCHANGED claims,
           l \in {"allocate", "insert"} /\ decision'[r] \in Replaces =>
                pc[r] \in {"allocate", "insert"} /\ decision[r] \in Replaces,
           pc[r] \in {"allocate", "insert"} /\ decision[r] \in Replaces =>
                /\ l \in {"allocate", "insert"} /\ decision'[r] \in Replaces
                /\ prev'[r] = prev[r]
    PROVE  UNCHANGED seen
<1>1. TypeOK /\ TypeOK' /\ r \in Request /\ r \notin Review
  BY RequestKinds DEF SerialInv, IInv, Base
<1>2. /\ pc'[r] = l
      /\ \A y \in Request : y # r => pc[y] \in Resting /\ pc'[y] \in Resting
  BY <1>1, OthersRest DEF SerialInv
<1>3. ASSUME NEW c \in Ingest PROVE Seen(c)' = Seen(c)
  <2>1. BeingReplaced(c)' <=> BeingReplaced(c)
    BY <1>1, <1>2, Hiding, HidingNext
  <2>2. BeingActivated(c)' <=> BeingActivated(c)
    BY <1>1, <1>2, Hiding, HidingNext
  <2>3. QED
    BY <2>1, <2>2, SeenSame
<1>4. QED
  BY <1>3 DEF seen

LEMMA ConfirmSeen ==
    ASSUME SerialInv, IInv', OneAtATime, NEW r \in Ingest, IngestConfirm(r)
    PROVE  \E i \in Input : Ledger!Receive(r, i)
<1> USE RequestKinds DEF index, locals
<1>t. /\ TypeOK /\ TypeOK' /\ r \in Request /\ r \notin Review
      /\ claims \in [Ingest -> Document] /\ pc[r] = "confirm" /\ Goto(r, "done")
      /\ claims' = [claims EXCEPT ![prev[r]] = Confirmed(@, doc[r])]
      /\ IngestStands(r)
  BY DEF SerialInv, IInv, Base, TypeOK, IngestConfirm
<1>1. PICK a \in Ingest : a = prev[r] /\ a \in Current /\ claims[a].value = doc[r].value
  BY <1>t DEF IngestStands, Current
<1>2. PICK i \in Input : Admissible(i) /\ States(doc[r], ClaimDoc(i))
  BY <1>t DEF IngestStands
<1>3. /\ pc'[r] = "done"
      /\ \A y \in Request : y # r => pc[y] \in Resting /\ pc'[y] \in Resting
  BY <1>t, OthersRest DEF SerialInv, Resting, Finished
<1>4. \A c \in Ingest : ~BeingReplaced(c) /\ ~BeingActivated(c)
  BY <1>t, <1>3, Hiding
<1>5. \A c \in Ingest : ~BeingReplaced(c)' /\ ~BeingActivated(c)'
  BY <1>t, <1>3, HidingNext
<1>6. r \notin Stored
  BY <1>t DEF SerialInv, IInv, BornAtInsert, Building
<1>7. Seen(r).life = "absent"
  BY <1>4, <1>6 DEF Seen, SeenLife, Stored
<1>8. Seen(a).life = "active" /\ Seen(a).value = i.value
  <2>1. claims[a].life = "active" /\ claims[a].current
    BY <1>1 DEF SerialInv, CurrentActive, Current
  <2>2. i.value = doc[r].value
    BY <1>2 DEF States, ClaimDoc, NoDocument
  <2>3. QED
    BY <1>1, <1>4, <2>1, <2>2 DEF Seen, SeenLife
<1>9. /\ doc[r].prov = Ledger!Entry(i).prov /\ doc[r].conf = i.conf
  BY <1>2 DEF States, ClaimDoc, NoDocument, Ledger!Entry
<1>10. ASSUME NEW c \in Ingest, c # a PROVE Seen(c)' = Seen(c)
  <2>1. claims'[c] = claims[c]
    BY <1>t, <1>1, <1>10
  <2>2. QED
    BY <1>4, <1>5, <2>1, SeenSame
<1>11. Seen(a)' = [Seen(a) EXCEPT !.prov = @ \cup Ledger!Entry(i).prov,
                                  !.conf = IF i.conf > @ THEN i.conf ELSE @]
  <2>0. claims[a] \in Document
    BY <1>t
  <2>1. claims'[a] = Confirmed(claims[a], doc[r])
    BY <1>t, <1>1
  <2>2. claims'[a] = [claims[a] EXCEPT !.prov = @ \cup Ledger!Entry(i).prov,
                                       !.conf = IF i.conf > @ THEN i.conf ELSE @]
    BY <1>9, <2>1 DEF Confirmed
  <2> DEFINE ev == Ledger!Entry(i).prov
  <2> HIDE DEF ev
  <2>3. /\ claims'[a].life = claims[a].life /\ claims'[a].current = claims[a].current
        /\ claims'[a].value = claims[a].value /\ claims'[a].status = claims[a].status
        /\ claims'[a].eff = claims[a].eff /\ claims'[a].prov = claims[a].prov \cup ev
        /\ claims'[a].conf = IF i.conf > claims[a].conf THEN i.conf ELSE claims[a].conf
    BY <2>0, <2>2 DEF Document, ev
  <2>4. SeenLife(a)' = SeenLife(a)
    BY <1>1, <1>4, <1>5, <2>3 DEF SeenLife
  <2> DEFINE b == [life |-> SeenLife(a), value |-> claims[a].value,
                   status |-> claims[a].status,
                   conf |-> IF i.conf > claims[a].conf THEN i.conf ELSE claims[a].conf,
                   eff |-> claims[a].eff, prov |-> claims[a].prov \cup ev]
  <2>5. Seen(a)' = b
    BY <2>3, <2>4 DEF Seen
  <2>6. b = [Seen(a) EXCEPT !.prov = @ \cup ev,
                            !.conf = IF i.conf > @ THEN i.conf ELSE @]
    <3>1. Seen(a) = [life |-> SeenLife(a), value |-> claims[a].value,
                     status |-> claims[a].status, conf |-> claims[a].conf,
                     eff |-> claims[a].eff, prov |-> claims[a].prov]
      BY DEF Seen
    <3>2. PICK l, v, s, c, e, p, q, g, n :
              /\ l = SeenLife(a) /\ v = claims[a].value /\ s = claims[a].status
              /\ c = claims[a].conf /\ e = claims[a].eff /\ p = claims[a].prov
              /\ q = ev /\ g = Seen(a) /\ n = i.conf
      OBVIOUS
    <3>3. g = [life |-> l, value |-> v, status |-> s, conf |-> c, eff |-> e, prov |-> p]
      BY <3>1, <3>2
    <3> DEFINE h == [g EXCEPT !.prov = @ \cup q, !.conf = IF n > @ THEN n ELSE @]
    <3>4. h \in [life : {l}, value : {v}, status : {s}, conf : {IF n > c THEN n ELSE c},
                 eff : {e}, prov : {p \cup q}]
      BY <3>3
    <3> HIDE DEF h
    <3>5. h = [life |-> l, value |-> v, status |-> s, conf |-> IF n > c THEN n ELSE c,
               eff |-> e, prov |-> p \cup q]
      BY <3>4
    <3>6. QED
      BY <3>2, <3>5 DEF h
  <2>7. QED
    BY <2>5, <2>6 DEF ev
<1>12. Ledger!Confirm(i, a)
  <2> DEFINE f == [seen EXCEPT ![a].prov = @ \cup Ledger!Entry(i).prov,
                               ![a].conf = IF i.conf > @ THEN i.conf ELSE @]
  <2>1. f = [c \in Ingest |-> f[c]]
    BY SeenFact
  <2>2. f[a] = [Seen(a) EXCEPT !.prov = @ \cup Ledger!Entry(i).prov,
                               !.conf = IF i.conf > @ THEN i.conf ELSE @]
    BY <1>1, SeenFact DEF Seen
  <2>3. \A c \in Ingest : c # a => f[c] = Seen(c)
    BY SeenFact
  <2> HIDE DEF f
  <2>4. \A c \in Ingest : Seen(c)' = f[c]
    BY <1>10, <1>11, <2>2, <2>3
  <2>5. seen' = f
    BY <2>1, <2>4, SeenNext
  <2>6. QED
    BY <1>1, <1>8, <2>5, SeenFact DEF Ledger!Confirm, f
<1>13. a \in Ledger!Active /\ seen[r].life = "absent" /\ Ledger!Admissible(i)
  BY <1>1, <1>2, <1>7, <1>8, SeenFact, SameFill DEF Ledger!Active
<1>14. QED
  BY <1>12, <1>13 DEF Ledger!Receive

\* What the store of a claim does to what the ledger shows: the claim is new, and
\* the one it replaces, if any, shows its demotion.
LEMMA StoreShows ==
    ASSUME SerialInv, IInv', OneAtATime, NEW r \in Ingest, InsertStore(r),
           NEW i \in Input, Decided(r, i), NEW a, a = prev[r]
    PROVE  /\ Seen(r).life = "absent"
           /\ Seen(r)' = [life |-> IF decision[r] = "CONFLICT" THEN "conflicted" ELSE "active",
                          value |-> Prepared(ClaimDoc(i), a, decision[r]).value,
                          status |-> i.status, conf |-> i.conf, eff |-> i.eff,
                          prov |-> {[event |-> i.event, at |-> i.at]}]
           /\ \A c \in Ingest \ {r} :
                IF decision[r] \in Replaces /\ a = c
                THEN /\ Seen(c).life = "active"
                     /\ Seen(c)' = [Seen(c) EXCEPT !.life = "superseded"]
                ELSE Seen(c)' = Seen(c)
           /\ \A c \in Ingest :
                Seen(c).life = "active" <=>
                    \/ decision[r] \in Replaces /\ a = c
                    \/ decision[r] = "CONFLICT" /\ c \in Current
<1> USE RequestKinds DEF index, locals
<1>t. /\ TypeOK /\ TypeOK' /\ r \in Request /\ r \notin Review
      /\ claims \in [Ingest -> Document] /\ doc \in [Ingest -> Document]
      /\ pc[r] = "insert" /\ IngestStands(r) /\ r \notin Stored
      /\ prev \in [Request -> ClaimId]
      /\ UNCHANGED <<decision, prev>> /\ CurrentActive
  BY DEF SerialInv, IInv, Base, TypeOK, InsertStore, BornAtInsert, Building
<1>c. decision[r] \in {"ADD", "UPDATE", "SUPERSEDE", "CONFLICT"}
  BY DEF Decided, Decide
<1>p. decision[r] \in MakeCurrent <=> decision[r] # "CONFLICT"
  BY <1>c DEF MakeCurrent
<1>1. /\ decision[r] = "CONFLICT" => a \in Current
      /\ decision[r] # "CONFLICT" =>
            Current = {} /\ (a # None => claims[a].life = "active")
      /\ decision[r] \in Replaces => a \in Ingest
  <2>1. decision[r] \in Replaces => a # None
    BY DEF Decided, Decide, Replaces
  <2>2. QED
    BY <1>t, <2>1 DEF IngestStands, ClaimId
<1>2. PICK l \in {"done", "mark", "index"} : Goto(r, l)
  BY <1>t, <1>1, <1>p DEF InsertStore, DuplicateCurrent
<1>3. /\ pc'[r] = l
      /\ \A y \in Request : y # r => pc[y] \in Resting /\ pc'[y] \in Resting
  BY <1>t, <1>2, OthersRest DEF SerialInv, Resting, Finished
<1>4. \A c \in Ingest : /\ BeingReplaced(c) <=> decision[r] \in Replaces /\ a = c
                        /\ ~BeingActivated(c)
  BY <1>t, <1>3, Hiding
<1>5. \A c \in Ingest : ~BeingReplaced(c)' /\ ~BeingActivated(c)'
  BY <1>t, <1>2, <1>3, HidingNext
<1>6. /\ claims' = [claims EXCEPT ![r] = claims'[r]]
      /\ claims'[r] = IF decision[r] = "CONFLICT" THEN doc[r]
                      ELSE [doc[r] EXCEPT !.current = TRUE]
  BY <1>t, <1>1, <1>p DEF InsertStore, DuplicateCurrent
<1>7. Seen(r).life = "absent"
  BY <1>t, <1>4 DEF Seen, SeenLife, Stored
<1>8. Seen(r)' = [life |-> IF decision[r] = "CONFLICT" THEN "conflicted" ELSE "active",
                  value |-> Prepared(ClaimDoc(i), a, decision[r]).value,
                  status |-> i.status, conf |-> i.conf, eff |-> i.eff,
                  prov |-> {[event |-> i.event, at |-> i.at]}]
  <2>1. LET e == Prepared(ClaimDoc(i), a, decision[r]) IN
          /\ e.life = IF decision[r] = "CONFLICT" THEN "conflicted" ELSE "active"
          /\ e.status = i.status /\ e.conf = i.conf /\ e.eff = i.eff
          /\ e.prov = {[event |-> i.event, at |-> i.at]}
    BY DEF Prepared, ClaimDoc, NoDocument
  <2>2. LET e == Prepared(ClaimDoc(i), a, decision[r]) IN
          /\ doc[r].life = e.life /\ doc[r].value = e.value /\ doc[r].status = e.status
          /\ doc[r].conf = e.conf /\ doc[r].eff = e.eff /\ doc[r].prov = e.prov
    BY DEF Decided, States
  <2>3. LET e == claims'[r] IN
          /\ e.life = doc[r].life /\ e.value = doc[r].value /\ e.status = doc[r].status
          /\ e.conf = doc[r].conf /\ e.eff = doc[r].eff /\ e.prov = doc[r].prov
          /\ decision[r] # "CONFLICT" => e.current
    BY <1>t, <1>6 DEF Document
  <2>4. SeenLife(r)' = doc[r].life
    BY <1>5, <2>1, <2>2, <2>3 DEF SeenLife
  <2>5. QED
    BY <2>1, <2>2, <2>3, <2>4 DEF Seen
<1>9. ASSUME NEW c \in Ingest \ {r}
      PROVE  IF decision[r] \in Replaces /\ a = c
             THEN /\ Seen(c).life = "active"
                  /\ Seen(c)' = [Seen(c) EXCEPT !.life = "superseded"]
             ELSE Seen(c)' = Seen(c)
  <2>1. claims'[c] = claims[c]
    BY <1>t, <1>6
  <2>2. CASE decision[r] \in Replaces /\ a = c
    <3>1. claims[c].life = "active" /\ ~claims[c].current
      BY <1>1, <2>2, <1>t DEF Replaces, Current, ClaimId
    <3>2. SeenLife(c) = "active" /\ SeenLife(c)' = "superseded"
      BY <1>4, <1>5, <2>1, <2>2, <3>1 DEF SeenLife
    <3>3. QED
      BY <2>1, <2>2, <3>2 DEF Seen
  <2>3. CASE ~(decision[r] \in Replaces /\ a = c)
    <3>1. Seen(c)' = Seen(c)
      BY <1>4, <1>5, <2>1, <2>3, SeenSame
    <3>2. QED
      BY <2>3, <3>1
  <2>4. QED
    BY <2>2, <2>3
<1>10. ASSUME NEW c \in Ingest
       PROVE  Seen(c).life = "active" <=> \/ decision[r] \in Replaces /\ a = c
                                          \/ decision[r] = "CONFLICT" /\ c \in Current
  <2>1. Seen(c).life = "active" <=>
            claims[c].life = "active" /\ (claims[c].current \/ BeingReplaced(c))
    BY <1>4 DEF Seen, SeenLife
  <2>2. decision[r] \in Replaces /\ a = c => claims[c].life = "active"
    BY <1>t, <1>1 DEF Replaces
  <2>3. QED
    BY <1>t, <1>1, <1>4, <1>c, <2>1, <2>2 DEF CurrentActive, Current
<1>11. QED
  BY <1>7, <1>8, <1>9, <1>10

\* The same document with another value, or another life.
LEMMA EntryAs ==
    ASSUME NEW i, NEW v, NEW l
    PROVE  /\ [Ledger!Entry(i) EXCEPT !.value = v] =
                [life |-> "active", value |-> v, status |-> i.status, conf |-> i.conf,
                 eff |-> i.eff, prov |-> {[event |-> i.event, at |-> i.at]}]
           /\ [Ledger!Entry(i) EXCEPT !.life = l] =
                [life |-> l, value |-> i.value, status |-> i.status, conf |-> i.conf,
                 eff |-> i.eff, prov |-> {[event |-> i.event, at |-> i.at]}]
<1>1. PICK d, s, c, e, p : /\ d = i.value /\ s = i.status /\ c = i.conf /\ e = i.eff
                           /\ p = {[event |-> i.event, at |-> i.at]}
  OBVIOUS
<1>2. Ledger!Entry(i) = [life |-> "active", value |-> d, status |-> s, conf |-> c,
                         eff |-> e, prov |-> p]
  BY <1>1 DEF Ledger!Entry
<1> DEFINE g == [Ledger!Entry(i) EXCEPT !.value = v]
           h == [Ledger!Entry(i) EXCEPT !.life = l]
<1>3. g \in [life : {"active"}, value : {v}, status : {s}, conf : {c}, eff : {e}, prov : {p}]
  BY <1>2
<1>4. h \in [life : {l}, value : {d}, status : {s}, conf : {c}, eff : {e}, prov : {p}]
  BY <1>2
<1> HIDE DEF g, h
<1>5. g = [life |-> "active", value |-> v, status |-> s, conf |-> c, eff |-> e, prov |-> p]
  BY <1>3
<1>6. h = [life |-> l, value |-> d, status |-> s, conf |-> c, eff |-> e, prov |-> p]
  BY <1>4
<1>7. QED
  BY <1>1, <1>5, <1>6 DEF g, h

LEMMA StoreSeen ==
    ASSUME SerialInv, IInv', OneAtATime, NEW r \in Ingest, InsertStore(r)
    PROVE  \E i \in Input : Ledger!Receive(r, i)
<1>1. PICK i \in Input : Admissible(i) /\ Decided(r, i)
  BY DEF SerialInv, IngestStands, InsertStore
<1>2. PICK a : a = prev[r]
  OBVIOUS
<1> DEFINE what == decision[r]
           new == [life |-> IF what = "CONFLICT" THEN "conflicted" ELSE "active",
                   value |-> Prepared(ClaimDoc(i), a, what).value,
                   status |-> i.status, conf |-> i.conf, eff |-> i.eff,
                   prov |-> {[event |-> i.event, at |-> i.at]}]
<1>3. /\ Seen(r).life = "absent"
      /\ Seen(r)' = new
      /\ \A c \in Ingest \ {r} :
            IF what \in Replaces /\ a = c
            THEN /\ Seen(c).life = "active"
                 /\ Seen(c)' = [Seen(c) EXCEPT !.life = "superseded"]
            ELSE Seen(c)' = Seen(c)
      /\ \A c \in Ingest :
            Seen(c).life = "active" <=> \/ what \in Replaces /\ a = c
                                        \/ what = "CONFLICT" /\ c \in Current
  BY <1>1, <1>2, StoreShows
<1>4. what = Decide(ClaimDoc(i), a) /\ what # "CONFIRM"
  BY <1>1, <1>2 DEF Decided
<1>5. what \in {"ADD", "UPDATE", "SUPERSEDE", "CONFLICT"}
  BY <1>4 DEF Decide
<1>6. what # "ADD" => a \in Ingest \ {r} /\ Seen(a).life = "active"
  <2>1. what \in Replaces \cup {"CONFLICT"} => a # None
    BY <1>4 DEF Decide, Replaces
  <2>2. a \in Ingest \cup {None} /\ a # r
    BY <1>2, RequestKinds DEF SerialInv, IInv, Base, TypeOK, ClaimId, IngestHeld
  <2>3. what = "CONFLICT" => a \in Current
    BY <1>2 DEF SerialInv, IngestStands, InsertStore
  <2>4. QED
    BY <1>3, <1>5, <2>1, <2>2, <2>3 DEF Replaces
<1>7. what = "ADD" => Ledger!Active = {}
  BY <1>3, SeenFact DEF Replaces, Ledger!Active
<1>8. what # "ADD" =>
        /\ seen[a].value = claims[a].value /\ a \in Ledger!Active
        /\ Ledger!Outranks(Ledger!Entry(i), seen[a]) <=> Outranks(ClaimDoc(i), claims[a])
  <2>1. ASSUME what # "ADD"
        PROVE  /\ seen[a].value = claims[a].value /\ a \in Ledger!Active
               /\ Ledger!Outranks(Ledger!Entry(i), seen[a])
                    <=> Outranks(ClaimDoc(i), claims[a])
    <3>1. seen[a] = Seen(a)
      BY <1>6, <2>1, SeenFact
    <3>2. /\ seen[a].value = claims[a].value /\ seen[a].status = claims[a].status
          /\ seen[a].conf = claims[a].conf /\ seen[a].eff = claims[a].eff
          /\ seen[a].prov = claims[a].prov
      BY <3>1 DEF Seen
    <3> DEFINE d == Ledger!Entry(i)
               e == ClaimDoc(i)
    <3>3. d.status = e.status /\ d.conf = e.conf /\ d.eff = e.eff /\ d.prov = e.prov
      BY DEF Ledger!Entry, ClaimDoc, NoDocument
    <3> HIDE DEF d, e
    <3>4. Ledger!Outranks(d, seen[a]) <=> Outranks(e, claims[a])
      BY <3>2, <3>3, SameRules
    <3>5. QED
      BY <1>6, <2>1, <3>1, <3>2, <3>4 DEF Ledger!Active, d, e
  <2>2. QED
    BY <2>1
<1>9. ClaimDoc(i).value = i.value
  BY DEF ClaimDoc, NoDocument
<1>10. new.value = IF what = "UPDATE" THEN Filled(claims[a].value, i.value) ELSE i.value
  BY <1>9 DEF Prepared, ClaimDoc, NoDocument
<1>11. ASSUME NEW f, f = [c \in Ingest |-> f[c]], f[r] = Seen(r)',
              \A c \in Ingest \ {r} :
                 f[c] = IF what \in Replaces /\ a = c
                        THEN [Seen(c) EXCEPT !.life = "superseded"] ELSE Seen(c)
       PROVE  seen' = f
  <2>1. \A c \in Ingest : Seen(c)' = f[c]
    BY <1>3, <1>11
  <2>2. QED
    BY <1>11, <2>1, SeenNext
<1>12. seen[r].life = "absent" /\ Ledger!Admissible(i)
  BY <1>1, <1>3, SeenFact, SameFill
<1> HIDE DEF what, new
<1>13. CASE what = "ADD"
  <2> DEFINE f == [seen EXCEPT ![r] = Ledger!Entry(i)]
  <2>1. Ledger!Entry(i) = new
    BY <1>10, <1>13 DEF new, Ledger!Entry
  <2>2. f = [c \in Ingest |-> f[c]] /\ f[r] = new /\ \A c \in Ingest \ {r} : f[c] = Seen(c)
    BY <2>1, SeenFact
  <2> HIDE DEF f
  <2>3. seen' = f
    BY <1>3, <1>11, <1>13, <2>2 DEF Replaces
  <2>4. QED
    BY <1>7, <1>12, <1>13, <2>3 DEF f, Ledger!Receive, Ledger!Add
<1>14. CASE what = "UPDATE"
  <2> DEFINE e == [Ledger!Entry(i) EXCEPT !.value = Filled(seen[a].value, i.value)]
             f == [seen EXCEPT ![r] = e, ![a].life = "superseded"]
  <2>1. e = new
    <3>1. PICK v : v = Filled(seen[a].value, i.value)
      OBVIOUS
    <3>2. new.value = v /\ new.life = "active"
      BY <1>8, <1>10, <1>14, <3>1 DEF new
    <3>3. new = [life |-> "active", value |-> v, status |-> i.status, conf |-> i.conf,
                 eff |-> i.eff, prov |-> {[event |-> i.event, at |-> i.at]}]
      BY <3>2 DEF new
    <3>4. e = [Ledger!Entry(i) EXCEPT !.value = v]
      BY <3>1
    <3>5. QED
      BY <3>3, <3>4, EntryAs
  <2> HIDE DEF e
  <2>2. /\ f = [c \in Ingest |-> f[c]] /\ f[r] = new
        /\ \A c \in Ingest \ {r} :
              f[c] = IF a = c THEN [Seen(c) EXCEPT !.life = "superseded"] ELSE Seen(c)
    BY <1>6, <1>14, <2>1, SeenFact
  <2>3. seen' = f
    <3> HIDE DEF f
    <3>1. QED
      BY <1>3, <1>11, <1>14, <2>2 DEF Replaces
  <2>4. Ledger!Completes(i, a)
    <3>1. /\ a # None /\ claims[a].value # i.value
          /\ AllowFill /\ NonConflicting(claims[a].value, i.value)
      BY <1>4, <1>9, <1>14 DEF Decide
    <3>2. QED
      BY <1>8, <1>14, <3>1, SameFill DEF Ledger!Completes
  <2>5. seen' = [seen EXCEPT
                   ![r] = [Ledger!Entry(i) EXCEPT !.value = Ledger!Filled(seen[a].value, @)],
                   ![a].life = "superseded"]
    <3>1. Ledger!Entry(i).value = i.value /\ "value" \in DOMAIN Ledger!Entry(i)
      BY DEF Ledger!Entry
    <3>2. Ledger!Filled(seen[a].value, i.value) = Filled(seen[a].value, i.value)
      BY SameFill
    <3>3. [Ledger!Entry(i) EXCEPT !.value = Ledger!Filled(seen[a].value, @)] = e
      BY <3>1, <3>2 DEF e
    <3>4. QED
      BY <2>3, <3>3
  <2>6. Ledger!Update(r, i, a)
    BY <2>4, <2>5 DEF Ledger!Update
  <2>7. QED
    BY <1>8, <1>12, <1>14, <2>6 DEF Ledger!Receive
<1>15. CASE what \in {"SUPERSEDE", "CONFLICT"}
  <2>1. /\ claims[a].value # i.value
        /\ ~(AllowFill /\ NonConflicting(claims[a].value, i.value))
        /\ what = "SUPERSEDE" <=> Outranks(ClaimDoc(i), claims[a])
    BY <1>4, <1>9, <1>15 DEF Decide
  <2>2. Ledger!Contradicts(i, a)
    BY <1>8, <1>15, <2>1, SameFill DEF Ledger!Contradicts, Ledger!Completes
  <2>3. CASE what = "SUPERSEDE"
    <3> DEFINE f == [seen EXCEPT ![r] = Ledger!Entry(i), ![a].life = "superseded"]
    <3>1. Ledger!Entry(i) = new
      BY <1>10, <2>3 DEF new, Ledger!Entry
    <3>2. /\ f = [c \in Ingest |-> f[c]] /\ f[r] = new
          /\ \A c \in Ingest \ {r} :
                f[c] = IF a = c THEN [Seen(c) EXCEPT !.life = "superseded"] ELSE Seen(c)
      BY <1>6, <2>3, <3>1, SeenFact
    <3> HIDE DEF f
    <3>3. seen' = f
      BY <1>3, <1>11, <2>3, <3>2 DEF Replaces
    <3>4. Ledger!Supersede(r, i, a)
      BY <1>8, <2>1, <2>2, <2>3, <3>3 DEF f, Ledger!Supersede
    <3>5. QED
      BY <1>8, <1>12, <2>3, <3>4 DEF Ledger!Receive
  <2>4. CASE what = "CONFLICT"
    <3> DEFINE f == [seen EXCEPT ![r] = [Ledger!Entry(i) EXCEPT !.life = "conflicted"]]
    <3>1. [Ledger!Entry(i) EXCEPT !.life = "conflicted"] = new
      BY <1>10, <2>4, EntryAs DEF new
    <3>2. /\ f = [c \in Ingest |-> f[c]] /\ f[r] = new
          /\ \A c \in Ingest \ {r} : f[c] = Seen(c)
      BY <3>1, SeenFact
    <3> HIDE DEF f
    <3>3. seen' = f
      BY <1>3, <1>11, <2>4, <3>2 DEF Replaces
    <3>4. Ledger!Conflict(r, i, a)
      BY <1>8, <2>1, <2>2, <2>4, <3>3 DEF f, Ledger!Conflict
    <3>5. QED
      BY <1>8, <1>12, <2>4, <3>4 DEF Ledger!Receive
  <2>5. QED
    BY <1>15, <2>3, <2>4
<1>16. QED
  BY <1>5, <1>13, <1>14, <1>15

\* The steps of an ingest a caller does not see.
LEMMA IngestHidden ==
    ASSUME SerialInv, IInv', SerialNext, NEW r \in Ingest, IngestStep(r),
           ~IngestConfirm(r), ~InsertStore(r)
    PROVE  UNCHANGED seen
<1> USE RequestKinds DEF index, locals
<1>t. /\ TypeOK /\ TypeOK' /\ r \in Request /\ r \notin Review /\ OneAtATime
      /\ pc \in [Request -> IngestPc \cup RevokePc \cup ReviewPc]
      /\ claims \in [Ingest -> Document] /\ decision \in [Ingest -> Decision]
      /\ prev \in [Request -> ClaimId] /\ CurrentActive /\ AtMostOneCurrent
      /\ IngestStands(r)
  BY DEF SerialInv, IInv, Base, TypeOK, SerialNext
<1>1. ASSUME NEW i \in Input, IngestStart(r, i) PROVE UNCHANGED seen
  <2>1. CASE Admissible(i)
    <3>1. Goto(r, "read") /\ UNCHANGED claims /\ pc[r] = "idle"
      BY <1>1, <2>1 DEF IngestStart
    <3>2. QED
      BY <1>t, <3>1, IngestQuiet DEF Resting, Finished
  <2>2. CASE ~Admissible(i)
    <3>1. /\ UNCHANGED <<claims, prev, target>> /\ pc' = [pc EXCEPT ![r] = "done"]
          /\ decision' = [decision EXCEPT ![r] = "REJECT"] /\ pc[r] = "idle"
      BY <1>1, <2>2 DEF IngestStart, Goto
    <3>2. /\ pc'[r] = "done" /\ \A q \in Request : q # r => pc'[q] = pc[q]
          /\ \A q \in Ingest : q # r => decision'[q] = decision[q]
      BY <1>t, <3>1
    <3>3. ASSUME NEW c \in Ingest PROVE Seen(c)' = Seen(c)
      <4>1. BeingReplaced(c)' <=> BeingReplaced(c)
        BY <3>1, <3>2 DEF BeingReplaced
      <4>2. BeingActivated(c)' <=> BeingActivated(c)
        BY <3>1, <3>2 DEF BeingActivated
      <4>3. QED
        BY <3>1, <4>1, <4>2, SeenSame
    <3>4. QED
      BY <3>3 DEF seen
  <2>3. QED
    BY <2>1, <2>2
<1>2. CASE IngestRead(r)
  <2>1. PICK what : /\ decision'[r] = what /\ UNCHANGED claims /\ pc[r] = "read"
                    /\ Goto(r, IF what = "CONFIRM" THEN "confirm"
                               ELSE IF what = "CONFLICT" THEN "allocate" ELSE "demote")
    BY <1>2, <1>t DEF IngestRead
  <2>2. PICK l \in {"confirm", "allocate", "demote"} :
           Goto(r, l) /\ (l = "allocate" => what = "CONFLICT")
    BY <2>1
  <2>3. QED
    BY <1>t, <2>1, <2>2, IngestQuiet DEF Resting, Finished, Replaces
<1>3. CASE InsertDemote(r)
  <2>1. /\ pc[r] = "demote" /\ Goto(r, "allocate") /\ UNCHANGED <<decision, prev>>
        /\ claims' = [c \in Ingest |-> [claims[c] EXCEPT !.current = FALSE]]
    BY <1>3 DEF InsertDemote
  <2>2. /\ pc'[r] = "allocate"
        /\ \A y \in Request : y # r => pc[y] \in Resting /\ pc'[y] \in Resting
    BY <1>t, <2>1, OthersRest DEF SerialInv, Resting, Finished
  <2>3. PICK a : a = prev[r]
    OBVIOUS
  <2>4. PICK i \in Input : Decided(r, i)
    BY <1>t, <2>1 DEF IngestStands
  <2>5. decision[r] \in MakeCurrent /\ (IF a = None THEN Current = {} ELSE a \in Current)
    BY <1>t, <2>1, <2>3 DEF IngestStands
  <2>6. decision[r] \in Replaces <=> a # None
    BY <2>3, <2>4, <2>5 DEF Decided, Decide, Replaces, MakeCurrent
  <2>7. \A c \in Ingest : ~BeingReplaced(c) /\ ~BeingActivated(c)
    BY <1>t, <2>1, <2>2, Hiding
  <2>8. \A c \in Ingest : (BeingReplaced(c)' <=> a # None /\ a = c) /\ ~BeingActivated(c)'
    BY <1>t, <2>1, <2>2, <2>3, <2>6, HidingNext
  <2>9. ASSUME NEW c \in Ingest PROVE Seen(c)' = Seen(c)
    <3>1. LET e == claims'[c] IN
            /\ ~e.current /\ e.life = claims[c].life /\ e.value = claims[c].value
            /\ e.status = claims[c].status /\ e.conf = claims[c].conf
            /\ e.eff = claims[c].eff /\ e.prov = claims[c].prov
      BY <1>t, <2>1 DEF Document
    <3>2. claims[c].current <=> a # None /\ a = c
      BY <1>t, <2>5, RequestKinds, ConstantsOK DEF Current, AtMostOneCurrent
    <3>3. claims[c].current => claims[c].life = "active"
      BY <1>t DEF CurrentActive, Current
    <3>4. SeenLife(c)' = SeenLife(c)
      BY <2>7, <2>8, <3>1, <3>2, <3>3 DEF SeenLife
    <3>5. QED
      BY <3>1, <3>4 DEF Seen
  <2>10. QED
    BY <2>9 DEF seen
<1>4. CASE InsertAllocate(r)
  BY <1>4, <1>t, IngestQuiet DEF InsertAllocate, Resting, Finished
<1>5. CASE IngestMark(r)
  <2>1. /\ pc[r] = "mark" /\ Goto(r, "unindex")
        /\ claims' = [claims EXCEPT ![prev[r]] =
                        [@ EXCEPT !.life = "superseded", !.supersededBy = r]]
    BY <1>5 DEF IngestMark
  <2>2. /\ pc'[r] = "unindex"
        /\ \A y \in Request : y # r => pc[y] \in Resting /\ pc'[y] \in Resting
    BY <1>t, <2>1, OthersRest DEF SerialInv, Resting, Finished
  <2>3. PICK a \in Ingest : a = prev[r] /\ ~claims[a].current /\ claims[a].life = "active"
    BY <1>t, <2>1 DEF IngestStands
  <2>4. \A c \in Ingest : ~BeingReplaced(c) /\ ~BeingActivated(c)
    BY <1>t, <2>1, <2>2, Hiding
  <2>5. \A c \in Ingest : ~BeingReplaced(c)' /\ ~BeingActivated(c)'
    BY <1>t, <2>2, HidingNext
  <2>6. ASSUME NEW c \in Ingest, c # a PROVE Seen(c)' = Seen(c)
    <3>1. claims'[c] = claims[c]
      BY <1>t, <2>1, <2>3, <2>6
    <3>2. QED
      BY <2>4, <2>5, <3>1, SeenSame
  <2>7. Seen(a)' = Seen(a)
    <3>1. claims'[a] = [claims[a] EXCEPT !.life = "superseded", !.supersededBy = r]
      BY <1>t, <2>1, <2>3
    <3>2. LET e == claims'[a] IN
            /\ e.life = "superseded" /\ e.value = claims[a].value
            /\ e.status = claims[a].status /\ e.conf = claims[a].conf
            /\ e.eff = claims[a].eff /\ e.prov = claims[a].prov
      BY <1>t, <3>1 DEF Document
    <3>3. SeenLife(a)' = SeenLife(a)
      BY <2>3, <2>4, <2>5, <3>2 DEF SeenLife
    <3>4. QED
      BY <3>2, <3>3 DEF Seen
  <2>8. QED
    BY <2>6, <2>7 DEF seen
<1>6. CASE IngestUnindex(r)
  BY <1>6, <1>t, IngestQuiet DEF IngestUnindex, Resting, Finished
<1>7. CASE IngestIndex(r)
  BY <1>7, <1>t, IngestQuiet DEF IngestIndex, Resting, Finished
<1>8. QED
  BY <1>1, <1>2, <1>3, <1>4, <1>5, <1>6, <1>7 DEF IngestStep

\* Claims, and what hides them, are as they were, but for one claim whose life
\* shows differently.
LEMMA SeenOne ==
    ASSUME NEW t \in Ingest, NEW l, Seen(t)' = [Seen(t) EXCEPT !.life = l],
           \A c \in Ingest : c # t => Seen(c)' = Seen(c)
    PROVE  seen' = [seen EXCEPT ![t].life = l]
<1> DEFINE f == [seen EXCEPT ![t].life = l]
<1>1. f = [c \in Ingest |-> f[c]]
  BY SeenFact
<1>2. f[t] = [Seen(t) EXCEPT !.life = l] /\ \A c \in Ingest : c # t => f[c] = Seen(c)
  BY SeenFact
<1> HIDE DEF f
<1>3. \A c \in Ingest : Seen(c)' = f[c]
  BY <1>2
<1>4. seen' = f
  BY <1>1, <1>3, SeenNext
<1>5. QED
  BY <1>4 DEF f

\* A request in flight that is not an ingest and does not activate hides nothing.
LEMMA NothingHidden ==
    ASSUME SerialInv, IInv', OneAtATime, NEW x \in Reviewer, NEW l, Goto(x, l),
           pc[x] \notin Resting \/ l \notin Resting
    PROVE  \A c \in Ingest :
              /\ ~BeingReplaced(c) /\ ~BeingReplaced(c)'
              /\ BeingActivated(c) <=> x \in Review /\ pc[x] = "activate" /\ target[x] = c
              /\ BeingActivated(c)' <=> x \in Review /\ l = "activate" /\ target'[x] = c
<1>1. TypeOK /\ TypeOK' /\ x \in Request /\ x \notin Ingest
  BY ConstantsOK DEF SerialInv, IInv, Base, Reviewer, Request
<1>2. /\ pc'[x] = l
      /\ \A y \in Request : y # x => pc[y] \in Resting /\ pc'[y] \in Resting
  BY <1>1, OthersRest DEF SerialInv
<1>3. QED
  BY <1>1, <1>2, Hiding, HidingNext

LEMMA WithdrawnDoc ==
    \A d \in Document :
        LET e == [d EXCEPT !.life = "revoked", !.current = FALSE] IN
            /\ e.life = "revoked" /\ e.value = d.value /\ e.status = d.status
            /\ e.conf = d.conf /\ e.eff = d.eff /\ e.prov = d.prov
BY DEF Document

\* A withdrawn claim shows its withdrawal.
LEMMA WithdrawSeen ==
    ASSUME SerialInv, IInv', OneAtATime, NEW x \in Reviewer, NEW l, Goto(x, l),
           pc[x] \in {"mark", "reject"}, l # "activate", target[x] \in Stored,
           claims' = [claims EXCEPT ![target[x]] =
                        [@ EXCEPT !.life = "revoked", !.current = FALSE]]
    PROVE  Ledger!Withdraw(target[x])
<1>1. PICK t \in Ingest : t = target[x]
  BY DEF Stored
<1>2. \A c \in Ingest : ~BeingReplaced(c) /\ ~BeingReplaced(c)'
                        /\ ~BeingActivated(c) /\ ~BeingActivated(c)'
  BY NothingHidden DEF Resting, Finished
<1>3. claims \in [Ingest -> Document]
  BY DEF SerialInv, IInv, Base, TypeOK
<1>4. ASSUME NEW c \in Ingest, c # t PROVE Seen(c)' = Seen(c)
  <2>1. claims'[c] = claims[c]
    BY <1>1, <1>3, <1>4
  <2>2. QED
    BY <1>2, <2>1, SeenSame
<1>5. Seen(t)' = [Seen(t) EXCEPT !.life = "revoked"]
  <2>1. claims'[t] = [claims[t] EXCEPT !.life = "revoked", !.current = FALSE]
    BY <1>1, <1>3
  <2>2. /\ claims'[t].life = "revoked" /\ claims'[t].value = claims[t].value
        /\ claims'[t].status = claims[t].status /\ claims'[t].conf = claims[t].conf
        /\ claims'[t].eff = claims[t].eff /\ claims'[t].prov = claims[t].prov
    <3>1. PICK d, e : d = claims[t] /\ e = claims'[t]
      OBVIOUS
    <3>2. d \in Document
      BY <1>3, <3>1
    <3>3. e = [d EXCEPT !.life = "revoked", !.current = FALSE]
      BY <2>1, <3>1
    <3>4. /\ e.life = "revoked" /\ e.value = d.value /\ e.status = d.status
          /\ e.conf = d.conf /\ e.eff = d.eff /\ e.prov = d.prov
      BY <3>2, <3>3, WithdrawnDoc
    <3>5. QED
      BY <3>1, <3>4, Zenon
  <2>3. SeenLife(t)' = "revoked"
    BY <1>2, <2>2 DEF SeenLife
  <2>4. QED
    BY <2>2, <2>3 DEF Seen
<1>6. Seen(t).life # "absent"
  BY <1>1, <1>2 DEF Seen, SeenLife, Stored
<1>7. seen' = [seen EXCEPT ![t].life = "revoked"]
  BY <1>4, <1>5, SeenOne
<1>8. QED
  BY <1>1, <1>6, <1>7, SeenFact DEF Ledger!Withdraw

LEMMA RevokeSeen ==
    ASSUME SerialInv, IInv', SerialNext, NEW v \in Revoke, RevokeStep(v)
    PROVE  \/ UNCHANGED seen
           \/ \E c \in Ingest : Ledger!Withdraw(c)
<1> USE RequestKinds DEF index, locals
<1>t. OneAtATime /\ v \in Reviewer /\ v \notin Review
  BY DEF SerialNext, Reviewer
<1>1. CASE RevokeMark(v)
  <2>1. target[v] \in Stored
    BY <1>1, <1>t DEF RevokeMark, SerialInv, IInv, ReviewHeld, AcceptOnly, Base, TypeOK
  <2>2. Ledger!Withdraw(target[v])
    BY <1>1, <1>t, <2>1, WithdrawSeen DEF RevokeMark
  <2>3. QED
    BY <2>1, <2>2 DEF Stored
<1>2. CASE ~RevokeMark(v)
  <2>1. PICK l \in {"mark", "done"} :
          /\ Goto(v, l) /\ UNCHANGED claims
          /\ pc[v] \notin Resting \/ l \notin Resting
    BY <1>2 DEF RevokeStep, RevokeStart, RevokeUnindex, Resting, Finished
  <2>2. \A c \in Ingest : ~BeingReplaced(c) /\ ~BeingReplaced(c)'
                          /\ ~BeingActivated(c) /\ ~BeingActivated(c)'
    BY <1>t, <2>1, NothingHidden
  <2>3. \A c \in Ingest : Seen(c)' = Seen(c)
    BY <2>1, <2>2, SeenSame
  <2>4. QED
    BY <2>3 DEF seen
<1>3. QED
  BY <1>1, <1>2

\* An accepted claim shows at once, and with it the demotion of the current one.
LEMMA AcceptSeen ==
    ASSUME NEW t \in Ingest, Seen(t).life = "conflicted",
           Seen(t)' = [Seen(t) EXCEPT !.life = "active"],
           \A c \in Ingest : c # t =>
               Seen(c)' = IF Seen(c).life = "active"
                          THEN [Seen(c) EXCEPT !.life = "superseded"] ELSE Seen(c)
    PROVE  Ledger!Accept(t)
<1> DEFINE f == [d \in Ingest |->
                   IF d = t THEN [seen[d] EXCEPT !.life = "active"]
                   ELSE IF d \in Ledger!Active THEN [seen[d] EXCEPT !.life = "superseded"]
                   ELSE seen[d]]
<1>1. f = [c \in Ingest |-> f[c]]
  OBVIOUS
<1>2. /\ f[t] = [Seen(t) EXCEPT !.life = "active"]
      /\ \A c \in Ingest : c # t =>
           f[c] = IF Seen(c).life = "active"
                  THEN [Seen(c) EXCEPT !.life = "superseded"] ELSE Seen(c)
  BY SeenFact DEF Ledger!Active
<1> HIDE DEF f
<1>3. \A c \in Ingest : Seen(c)' = f[c]
  BY <1>2
<1>4. seen' = f
  BY <1>1, <1>3, SeenNext
<1>5. QED
  BY <1>4, SeenFact DEF f, Ledger!Accept

LEMMA ReviewSeen ==
    ASSUME SerialInv, IInv', SerialNext, NEW w \in Review, ReviewStep(w)
    PROVE  \/ UNCHANGED seen
           \/ \E c \in Ingest : Ledger!Withdraw(c) \/ Ledger!Accept(c)
<1> USE RequestKinds DEF index, locals
<1>t. /\ OneAtATime /\ w \in Reviewer /\ CurrentActive /\ AtMostOneCurrent
      /\ claims \in [Ingest -> Document] /\ target \in [Reviewer -> ClaimId]
      /\ prev \in [Request -> ClaimId]
      /\ ReviewStands(w)
  BY DEF SerialNext, SerialInv, IInv, Base, TypeOK
<1>1. CASE ReviewReject(w)
  <2>1. target[w] \in Stored
    BY <1>1, <1>t DEF ReviewReject, ReviewStands, Stored
  <2>2. Ledger!Withdraw(target[w])
    BY <1>1, <1>t, <2>1, WithdrawSeen DEF ReviewReject
  <2>3. QED
    BY <2>1, <2>2 DEF Stored
<1>2. CASE ReviewDemote(w) \/ (ReviewRead(w) /\ Latest \in {None, target[w]})
  <2>1. /\ Goto(w, "activate") /\ pc[w] \in {"read", "demote"} /\ UNCHANGED target
    BY <1>2 DEF ReviewDemote, ReviewRead
  <2>2. PICK t \in Ingest : t = target[w] /\ claims[t].life = "conflicted"
    BY <1>t, <2>1 DEF ReviewStands
  <2>3. \A c \in Ingest : /\ ~BeingReplaced(c) /\ ~BeingReplaced(c)' /\ ~BeingActivated(c)
                          /\ BeingActivated(c)' <=> c = t
    BY <1>t, <2>1, <2>2, NothingHidden DEF Resting, Finished
  <2>4. \A c \in Ingest : Seen(c).life = "active" <=> c \in Current
    BY <1>t, <2>3 DEF Seen, SeenLife, CurrentActive, Current
  <2>5. Seen(t).life = "conflicted" /\ t \notin Current
    BY <1>t, <2>2, <2>3, <2>4 DEF Seen, SeenLife
  <2>6. ASSUME NEW c \in Ingest, claims'[c] = claims[c], c \notin Current \/ c = t
        PROVE  Seen(c)' = IF c = t THEN [Seen(c) EXCEPT !.life = "active"] ELSE Seen(c)
    <3>1. CASE c = t
      <4>1. SeenLife(c)' = "active"
        BY <2>3, <3>1 DEF SeenLife
      <4>2. QED
        BY <2>6, <3>1, <4>1 DEF Seen
    <3>2. CASE c # t
      BY <2>3, <2>6, <3>2, SeenSame
    <3>3. QED
      BY <3>1, <3>2
  <2>7. CASE ReviewRead(w) /\ Latest \in {None, target[w]}
    <3>1. Current = {}
      BY <1>t, <2>2, <2>5, <2>7, LatestFact DEF SerialInv, IInv, Base
    <3>2. UNCHANGED claims
      BY <2>7 DEF ReviewRead
    <3>3. \A c \in Ingest :
            Seen(c)' = IF c = t THEN [Seen(c) EXCEPT !.life = "active"] ELSE Seen(c)
      BY <2>6, <3>1, <3>2
    <3>4. \A c \in Ingest : Seen(c).life # "active"
      BY <2>4, <3>1
    <3>5. Ledger!Accept(t)
      BY <2>5, <3>3, <3>4, AcceptSeen
    <3>6. QED
      BY <3>5
  <2>8. CASE ReviewDemote(w)
    <3>1. /\ pc[w] = "demote"
          /\ claims' = [claims EXCEPT ![prev[w]] =
                          [@ EXCEPT !.life = "superseded", !.current = FALSE,
                                    !.supersededBy = target[w]]]
      BY <2>8 DEF ReviewDemote
    <3>2. PICK a \in Ingest : a = prev[w] /\ Current = {a}
      BY <1>t, <3>1 DEF ReviewStands, AtMostOneCurrent, Current
    <3>3. \A c \in Ingest : c # a => claims'[c] = claims[c]
      BY <1>t, <3>1, <3>2
    <3>4. Seen(a)' = [Seen(a) EXCEPT !.life = "superseded"]
      <4>1. PICK d, e, g : d = claims[a] /\ e = claims'[a] /\ g = target[w]
        OBVIOUS
      <4>2. d \in Document
        BY <1>t, <4>1
      <4>3. e = [d EXCEPT !.life = "superseded", !.current = FALSE, !.supersededBy = g]
        BY <1>t, <3>1, <3>2, <4>1
      <4>4. /\ e.life = "superseded" /\ e.value = d.value /\ e.status = d.status
            /\ e.conf = d.conf /\ e.eff = d.eff /\ e.prov = d.prov
        BY <4>2, <4>3 DEF Document
      <4>5. SeenLife(a)' = "superseded"
        BY <2>3, <2>5, <3>2, <4>1, <4>4 DEF SeenLife
      <4>6. QED
        BY <4>1, <4>4, <4>5 DEF Seen
    <3>5. Seen(t)' = [Seen(t) EXCEPT !.life = "active"]
      BY <2>5, <2>6, <3>2, <3>3
    <3>6. \A c \in Ingest : c # t =>
             Seen(c)' = IF Seen(c).life = "active"
                        THEN [Seen(c) EXCEPT !.life = "superseded"] ELSE Seen(c)
      BY <2>4, <2>6, <3>2, <3>3, <3>4
    <3>7. Ledger!Accept(t)
      BY <2>5, <3>5, <3>6, AcceptSeen
    <3>8. QED
      BY <3>7
  <2>9. QED
    BY <1>2, <2>7, <2>8
<1>3. CASE ReviewActivate(w)
  <2>1. pc[w] = "activate" /\ Current = {}
    BY <1>3, <1>t DEF ReviewActivate, ReviewStands
  <2>2. PICK t \in Ingest : t = target[w]
    BY <1>t, <2>1 DEF ReviewStands
  <2>3. /\ Goto(w, "index") /\ UNCHANGED target
        /\ claims' = [claims EXCEPT ![t] = [@ EXCEPT !.life = "active", !.current = TRUE]]
    BY <1>3, <2>1, <2>2 DEF ReviewActivate, DuplicateCurrent
  <2>4. \A c \in Ingest : /\ ~BeingReplaced(c) /\ ~BeingReplaced(c)' /\ ~BeingActivated(c)'
                          /\ BeingActivated(c) <=> c = t
    BY <1>t, <2>1, <2>2, <2>3, NothingHidden DEF Resting, Finished
  <2>5. ASSUME NEW c \in Ingest, c # t PROVE Seen(c)' = Seen(c)
    <3>1. claims'[c] = claims[c]
      BY <1>t, <2>3, <2>5
    <3>2. QED
      BY <2>4, <2>5, <3>1, SeenSame
  <2>6. Seen(t)' = Seen(t)
    <3>1. PICK d, e : d = claims[t] /\ e = claims'[t]
      OBVIOUS
    <3>2. d \in Document
      BY <1>t, <3>1
    <3>3. e = [d EXCEPT !.life = "active", !.current = TRUE]
      BY <1>t, <2>3, <3>1
    <3>4. /\ e.life = "active" /\ e.current /\ e.value = d.value /\ e.status = d.status
          /\ e.conf = d.conf /\ e.eff = d.eff /\ e.prov = d.prov
      BY <3>2, <3>3 DEF Document
    <3>5. SeenLife(t) = "active" /\ SeenLife(t)' = "active"
      BY <2>4, <3>1, <3>4 DEF SeenLife
    <3>6. QED
      BY <3>1, <3>4, <3>5 DEF Seen
  <2>7. QED
    BY <2>5, <2>6 DEF seen
<1>4. ASSUME ~ReviewReject(w), ~ReviewDemote(w), ~ReviewActivate(w),
             ~(ReviewRead(w) /\ Latest \in {None, target[w]})
      PROVE  UNCHANGED seen
  <2>1. PICK l \in {"reject", "read", "demote", "indexActive", "indexOther", "done"} :
          /\ Goto(w, l) /\ UNCHANGED claims
          /\ pc[w] \notin Resting \/ l \notin Resting
          /\ pc[w] # "activate"
    BY <1>4 DEF ReviewStep, ReviewStart, ReviewRead, ReviewRefresh, ReviewIndex,
                Resting, Finished
  <2>2. \A c \in Ingest : ~BeingReplaced(c) /\ ~BeingReplaced(c)'
                          /\ ~BeingActivated(c) /\ ~BeingActivated(c)'
    BY <1>t, <2>1, NothingHidden
  <2>3. \A c \in Ingest : Seen(c)' = Seen(c)
    BY <2>1, <2>2, SeenSame
  <2>4. QED
    BY <2>3 DEF seen
<1>5. QED
  BY <1>1, <1>2, <1>3, <1>4

LEMMA InitSeen == Init => Ledger!Init
<1> SUFFICES ASSUME Init PROVE Ledger!Init
  OBVIOUS
<1>1. \A c \in Ingest : Seen(c) = Ledger!Absent
  BY RequestKinds
     DEF Init, Seen, SeenLife, NoDocument, Ledger!Absent, BeingReplaced, BeingActivated
<1>2. QED
  BY <1>1 DEF seen, Ledger!Init

LEMMA StepSeen == SerialInv /\ IInv' /\ [SerialNext]_vars => [Ledger!Next]_seen
<1> SUFFICES ASSUME SerialInv, IInv', [SerialNext]_vars PROVE [Ledger!Next]_seen
  OBVIOUS
<1> USE RequestKinds
<1>1. CASE UNCHANGED vars
  BY <1>1 DEF vars, locals, index, seen, Seen, SeenLife, BeingReplaced, BeingActivated
<1>2. CASE SerialNext
  <2>1. ASSUME NEW r \in Ingest, IngestStep(r) PROVE [Ledger!Next]_seen
    <3>1. CASE IngestConfirm(r) \/ InsertStore(r)
      <4>1. \E i \in Input : Ledger!Receive(r, i)
        BY <1>2, <3>1, ConfirmSeen, StoreSeen DEF SerialNext
      <4>2. QED
        BY <4>1 DEF Ledger!Next
    <3>2. QED
      BY <1>2, <2>1, <3>1, IngestHidden
  <2>2. ASSUME NEW v \in Revoke, RevokeStep(v) PROVE [Ledger!Next]_seen
    BY <1>2, <2>2, RevokeSeen DEF Ledger!Next
  <2>3. ASSUME NEW w \in Review, ReviewStep(w) PROVE [Ledger!Next]_seen
    BY <1>2, <2>3, ReviewSeen DEF Ledger!Next
  <2>4. ASSUME NEW r \in Request, Crash(r) PROVE FALSE
    BY <1>2, <2>4 DEF Crash, Goto, SerialNext, NoCrash, SerialInv, IInv, Base, TypeOK
  <2>5. QED
    BY <1>2, <2>1, <2>2, <2>3, <2>4 DEF SerialNext, Next
<1>3. QED
  BY <1>1, <1>2

\* Requests served one at a time and to the end are the atomic operations of the
\* ledger, whatever their number, their inputs and the policy: the demotion, the
\* insert and the mark of a replacement, and the two writes of an acceptance, show
\* as one change each.
THEOREM RefinesLedger == SerialSpec => ImplementsLedger
<1>1. Init => SerialInv
  BY InitSerial
<1>2. SerialInv /\ [SerialNext]_vars => SerialInv'
  BY NextSerial
<1>3. SerialInv => IInv
  BY DEF SerialInv
<1>4. QED
  BY <1>1, <1>2, <1>3, InitSeen, StepSeen, PTL DEF SerialSpec, ImplementsLedger, Ledger!Spec
=============================================================================
