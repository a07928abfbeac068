-------------------------- MODULE GovernanceProofs --------------------------
(***************************************************************************)
(* Theorems about Governance.  The invariant says what an application in   *)
(* flight may rely on, proposal by proposal: on one that no two requests   *)
(* touched at the same time the status is still what the request read.     *)
(***************************************************************************)
EXTENDS Governance, FiniteSetTheorems, TLAPS

\* A request that is under way has a proposal that exists, a review a verdict;
\* reviews and applications keep to their own steps.
InFlightTyped ==
    /\ \A r \in Request : InFlight(r) => on[r] \in Proposal /\ status[on[r]] # "absent"
    /\ \A v \in Reviewer : /\ pc[v] \notin {"write", "record"}
                          /\ pc[v] = "decide" => held[v] \in Verdict
    /\ \A a \in Applier : pc[a] # "decide"

\* A run that may fail once more has not failed MaxAttempts times.
RunTyped ==
    /\ run \in {"none", "analyse", "auto"} => attempt < MaxAttempts
    /\ run = "auto" => made \in Proposal

\* Whatever is approved, is being applied or was applied, was granted.
GrantedFirst ==
    \A p \in Proposal :
        (\/ status[p] \in {"approved", "applied"}
         \/ effects[p] > 0
         \/ \E a \in Applier : pc[a] \in {"write", "record"} /\ on[a] = p) => Granted(p)

\* Without overlap a proposal has one request at a time ...
OneRequest ==
    \A q, r \in Request :
        InFlight(q) /\ InFlight(r) /\ on[q] = on[r] /\ on[q] \notin raced => q = r

\* ... whose reading of the status is still right.
StatusStill ==
    \A r \in Request :
        InFlight(r) /\ on[r] \notin raced =>
            status[on[r]] = IF pc[r] = "decide" THEN "pending_review" ELSE "approved"

\* Without overlap nothing is decided on a proposal that waits for it.
Undecided ==
    \A p \in Proposal \ raced : status[p] \in {"absent", "pending_review"} => decisions[p] = {}

IInv ==
    /\ TypeOK /\ InFlightTyped /\ RunTyped
    /\ GrantedFirst /\ OneRequest /\ StatusStill /\ Undecided
    /\ AuditComplete /\ AppliedOnce /\ DecisionStands

-----------------------------------------------------------------------------
(* Types *)

LEMMA InitInv == Init => IInv
<1> SUFFICES ASSUME Init PROVE IInv
  OBVIOUS
<1> USE GovernanceConstantsOK DEF Init
<1>1. TypeOK
  BY DEF TypeOK, Target, Action, Verdict
<1>2. InFlightTyped /\ OneRequest /\ StatusStill
  BY DEF InFlightTyped, OneRequest, StatusStill, InFlight, Request
<1>3. RunTyped
  BY DEF RunTyped
<1>4. GrantedFirst /\ Undecided /\ DecisionStands
  BY DEF GrantedFirst, Undecided, DecisionStands, Granted, Request
<1>5. \A p \in Proposal : Recording(p) = {}
  BY DEF Recording, Request
<1>6. AuditComplete
  <2>1. Cardinality({}) = 0
    BY FS_EmptySet
  <2>2. \A p \in Proposal : Cardinality(Recording(p)) = 0
    BY <1>5, <2>1
  <2> QED
    BY <2>2 DEF AuditComplete
<1>7. AppliedOnce
  BY <1>5 DEF AppliedOnce
<1> QED
  BY <1>1, <1>2, <1>3, <1>4, <1>6, <1>7 DEF IInv

\* Reviewers and appliers are requests, and no request is both.
LEMMA Kinds ==
    /\ Reviewer \subseteq Request /\ Applier \subseteq Request
    /\ \A v \in Reviewer : v \notin Applier
    /\ \A r \in Request : r \in Reviewer \/ r \in Applier
  BY GovernanceConstantsOK DEF Request

LEMMA TypeStep == IInv /\ [Next]_vars => TypeOK'
<1> SUFFICES ASSUME IInv, [Next]_vars PROVE TypeOK'
  OBVIOUS
<1> USE Kinds, GovernanceConstantsOK DEF Action, Verdict, Target
<1>1. TypeOK /\ InFlightTyped /\ RunTyped
  BY DEF IInv
<1>2. ASSUME NEW p \in Proposal, NEW a \in Action, CreateProposal(p, a) PROVE TypeOK'
  BY <1>1, <1>2 DEF CreateProposal, Propose, TypeOK, records, requests, dreaming
<1>3. ASSUME NEW l \in Lock, TakeLock(l) \/ DropLock(l) PROVE TypeOK'
  BY <1>1, <1>3 DEF TakeLock, DropLock, TypeOK, proposals, records, requests, dreaming
<1>4. ASSUME NEW t \in Target, EditTarget(t) PROVE TypeOK'
  BY <1>1, <1>4 DEF EditTarget, Moved, TypeOK, proposals, records, dreaming
<1>5. ASSUME NEW v \in Reviewer, NEW p \in Proposal, NEW d \in Verdict, ReviewRead(v, p, d)
      PROVE TypeOK'
  BY <1>1, <1>5 DEF ReviewRead, Start, TypeOK, proposals, records, dreaming
<1>6. ASSUME NEW v \in Reviewer, ReviewCommit(v) PROVE TypeOK'
  <2>1. on[v] \in Proposal /\ held[v] \in Verdict
    BY <1>1, <1>6 DEF ReviewCommit, InFlightTyped, InFlight
  <2> QED
    BY <1>1, <1>6, <2>1 DEF ReviewCommit, End, TypeOK, dreaming
<1>7. ASSUME NEW a \in Applier, NEW p \in Proposal, ApplyCheck(a, p) PROVE TypeOK'
  BY <1>1, <1>7 DEF ApplyCheck, Start, TypeOK, proposals, records, dreaming
<1>8. ASSUME NEW a \in Applier, ApplyWrite(a) PROVE TypeOK'
  <2>1. on[a] \in Proposal
    BY <1>1, <1>8 DEF ApplyWrite, InFlightTyped, InFlight
  <2>2. Outcomes(action[on[a]], held[a]) \subseteq Target
    BY <1>1, <2>1 DEF Outcomes, TypeOK
  <2> QED
    BY <1>1, <1>8, <2>1, <2>2 DEF ApplyWrite, Moved, TypeOK, proposals, dreaming
<1>9. ASSUME NEW a \in Applier, ApplyRefused(a) PROVE TypeOK'
  BY <1>1, <1>9 DEF ApplyRefused, End, TypeOK, proposals, records, dreaming
<1>10. ASSUME NEW a \in Applier, ApplyRecord(a) PROVE TypeOK'
  <2>1. on[a] \in Proposal
    BY <1>1, <1>10 DEF ApplyRecord, InFlightTyped, InFlight
  <2> QED
    BY <1>1, <1>10, <2>1 DEF ApplyRecord, End, TypeOK, dreaming
<1>11. ASSUME NEW r \in Request, Crash(r) PROVE TypeOK'
  <2>1. on[r] \in Proposal
    BY <1>1, <1>11 DEF Crash, InFlightTyped
  <2> QED
    BY <1>1, <1>11, <2>1 DEF Crash, End, TypeOK, proposals, records, dreaming
<1>12. CASE RunStart \/ AnalyseNothing
  BY <1>1, <1>12 DEF RunStart, AnalyseNothing, TypeOK, proposals, records, requests
<1>13. CASE AutoApprove \/ AnalyseFails
  BY <1>1, <1>13 DEF AutoApprove, AnalyseFails, AttemptFailed, RunTyped, TypeOK, proposals,
                     records, requests
<1>14. ASSUME NEW p \in Proposal, AnalysePropose(p) PROVE TypeOK'
  BY <1>1, <1>14 DEF AnalysePropose, Propose, TypeOK, records, requests
<1>15. CASE UNCHANGED vars
  BY <1>1, <1>15 DEF TypeOK, vars, proposals, records, requests, dreaming
<1> QED
  BY <1>2, <1>3, <1>4, <1>5, <1>6, <1>7, <1>8, <1>9, <1>10, <1>11, <1>12, <1>13, <1>14, <1>15
  DEF Next, Review, Apply, Dream

LEMMA RunStep == IInv /\ [Next]_vars => RunTyped'
<1> SUFFICES ASSUME IInv, [Next]_vars PROVE RunTyped'
  OBVIOUS
<1> USE GovernanceConstantsOK
<1>1. TypeOK /\ RunTyped
  BY DEF IInv
<1>2. CASE RunStart \/ AnalyseNothing
  BY <1>1, <1>2 DEF RunStart, AnalyseNothing, RunTyped
<1>3. CASE AutoApprove \/ AnalyseFails
  BY <1>1, <1>3 DEF AutoApprove, AnalyseFails, AttemptFailed, RunTyped, TypeOK
<1>4. ASSUME NEW p \in Proposal, AnalysePropose(p) PROVE RunTyped'
  BY <1>1, <1>4 DEF AnalysePropose, RunTyped
<1>5. CASE UNCHANGED dreaming
  BY <1>1, <1>5 DEF RunTyped, dreaming
<1> QED
  BY <1>2, <1>3, <1>4, <1>5
  DEF Next, Review, Apply, Dream, CreateProposal, TakeLock, DropLock, EditTarget, ReviewRead,
      ReviewCommit, ApplyCheck, ApplyWrite, ApplyRefused, ApplyRecord, Crash, vars, dreaming
-----------------------------------------------------------------------------
(* The other parts of the invariant *)

\* What the other parts speak of.
Spoken == <<status, auto, decisions, audits, effects, pc, on, raced, cut>>

LEMMA QuietKeeps ==
    ASSUME IInv, [Next]_vars, UNCHANGED Spoken,
           \A v \in Reviewer : pc[v] = "decide" => held'[v] = held[v]
    PROVE  IInv'
<1>1. TypeOK' /\ RunTyped'
  BY TypeStep, RunStep
<1>2. \A p : Recording(p)' = Recording(p)
  BY DEF Recording, Spoken
<1>3. \A p : Granted(p)' = Granted(p)
  BY DEF Granted, Spoken
<1>4. \A r : InFlight(r)' = InFlight(r)
  BY DEF InFlight, Spoken
<1>5. InFlightTyped'
  BY <1>4 DEF IInv, InFlightTyped, Spoken
<1>6. OneRequest' /\ StatusStill' /\ Undecided' /\ DecisionStands'
  BY <1>4 DEF IInv, OneRequest, StatusStill, Undecided, DecisionStands, Spoken
<1>7. GrantedFirst'
  BY <1>3 DEF IInv, GrantedFirst, Spoken
<1>8. AuditComplete' /\ AppliedOnce'
  BY <1>2 DEF IInv, AuditComplete, AppliedOnce, Spoken
<1> QED
  BY <1>1, <1>5, <1>6, <1>7, <1>8 DEF IInv

LEMMA ProposeKeeps ==
    ASSUME IInv, [Next]_vars, UNCHANGED <<records, requests>>,
           NEW p \in Proposal, NEW a, NEW s \in {"pending_review", "approved"},
           Propose(p, a, s)
    PROVE  IInv'
<1> USE DEF IInv, records, requests
<1>1. TypeOK' /\ RunTyped'
  BY TypeStep, RunStep
<1>2. \A q : Recording(q)' = Recording(q)
  BY DEF Recording
<1>3. \A r : InFlight(r)' = InFlight(r)
  BY DEF InFlight
<1>4. \A r \in Request : InFlight(r) => on[r] # p
  BY DEF InFlightTyped, Propose
<1>5. \A q \in Proposal : status'[q] = IF q = p THEN s ELSE status[q]
  BY DEF TypeOK, Propose
<1>6. InFlightTyped'
  BY <1>3, <1>4, <1>5 DEF InFlightTyped
<1>7. OneRequest'
  BY <1>3 DEF OneRequest
<1>8. StatusStill'
  BY <1>3, <1>4, <1>5 DEF StatusStill, InFlightTyped
<1>9. Undecided'
  <2>1. p \notin raced => decisions[p] = {}
    BY DEF Undecided, Propose
  <2> QED
    BY <1>5, <2>1 DEF Undecided
<1>10. DecisionStands'
  <2>1. p \notin raced => decisions[p] = {}
    BY DEF Undecided, Propose
  <2> QED
    BY <1>5, <2>1 DEF DecisionStands
<1>11. GrantedFirst'
  <2>1. \A q \in Proposal : Granted(q) => Granted(q)'
    BY DEF Granted, Propose
  <2>2. s = "approved" => Granted(p)'
    BY DEF Granted, Propose
  <2> QED
    BY <1>5, <2>1, <2>2 DEF GrantedFirst
<1>12. AuditComplete'
  BY <1>2 DEF AuditComplete
<1>13. AppliedOnce'
  BY <1>2, <1>5 DEF AppliedOnce, Propose
<1> QED
  BY <1>1, <1>6, <1>7, <1>8, <1>9, <1>10, <1>11, <1>12, <1>13

\* A request that starts: a review of a proposal that waits, or an application of one
\* that is approved.
LEMMA StartKeeps ==
    ASSUME IInv, [Next]_vars, UNCHANGED <<proposals, records, cut>>,
           NEW r \in Request, NEW p \in Proposal, NEW l, NEW h, Start(r, p, l, h),
           \/ l = "decide" /\ r \in Reviewer /\ h \in Verdict /\ status[p] = "pending_review"
           \/ l = "write" /\ r \in Applier /\ status[p] = "approved"
    PROVE  IInv'
<1> USE DEF IInv, records, proposals
<1>1. TypeOK' /\ RunTyped'
  BY TypeStep, RunStep
<1>2. \A q \in Request : /\ pc'[q] = IF q = r THEN l ELSE pc[q]
                         /\ on'[q] = IF q = r THEN p ELSE on[q]
                         /\ held'[q] = IF q = r THEN h ELSE held[q]
  BY DEF Start, TypeOK
<1>3. ~InFlight(r) /\ pc[r] = "idle"
  BY DEF Start, InFlight
<1>4. \A q \in Request : q # r => InFlight(q)' = InFlight(q)
  BY <1>2 DEF InFlight
<1>5. \A q \in Proposal : Recording(q)' = Recording(q)
  BY <1>2, <1>3, Kinds DEF Recording
<1>6. raced \subseteq raced' /\ \A q \in Request : InFlight(q) /\ on[q] = p => p \in raced'
  BY DEF Start
<1>7. InFlightTyped'
  <2>1. \A q \in Request : InFlight(q)' => on'[q] \in Proposal /\ status'[on'[q]] # "absent"
    BY <1>2, <1>4 DEF InFlightTyped
  <2>2. \A v \in Reviewer : /\ pc'[v] \notin {"write", "record"}
                             /\ pc'[v] = "decide" => held'[v] \in Verdict
    BY <1>2, Kinds DEF InFlightTyped
  <2>3. \A a \in Applier : pc'[a] # "decide"
    BY <1>2, Kinds DEF InFlightTyped
  <2> QED
    BY <2>1, <2>2, <2>3 DEF InFlightTyped
<1>8. OneRequest'
  <2> SUFFICES ASSUME NEW q \in Request, NEW t \in Request, InFlight(q)', InFlight(t)',
                      on'[q] = on'[t], on'[q] \notin raced', q # t
               PROVE  FALSE
    BY DEF OneRequest
  <2>1. CASE q # r /\ t # r
    BY <1>2, <1>4, <1>6, <2>1 DEF OneRequest
  <2>2. CASE q = r
    BY <1>2, <1>4, <1>6, <2>2
  <2>3. CASE t = r
    BY <1>2, <1>4, <1>6, <2>3
  <2> QED
    BY <2>1, <2>2, <2>3
<1>9. StatusStill'
  BY <1>2, <1>4, <1>6 DEF StatusStill
<1>10. Undecided' /\ DecisionStands'
  BY <1>6 DEF Undecided, DecisionStands
<1>11. GrantedFirst'
  <2>1. \A q \in Proposal : Granted(q)' = Granted(q)
    BY DEF Granted
  <2>2. l = "write" => Granted(p)
    BY DEF GrantedFirst
  <2>3. ASSUME NEW q \in Proposal, NEW a \in Applier, pc'[a] \in {"write", "record"}, on'[a] = q
        PROVE  Granted(q)
    <3>1. CASE a = r
      BY <1>2, <2>2, <2>3, <3>1, Kinds
    <3>2. CASE a # r
      BY <1>2, <2>3, <3>2, Kinds DEF GrantedFirst
    <3> QED
      BY <3>1, <3>2
  <2> QED
    BY <2>1, <2>3 DEF GrantedFirst
<1>12. AuditComplete'
  BY <1>5 DEF AuditComplete
<1>13. AppliedOnce'
  BY <1>5, <1>6 DEF AppliedOnce
<1> QED
  BY <1>1, <1>7, <1>8, <1>9, <1>10, <1>11, <1>12, <1>13
\* What the end of a request leaves of the others.
LEMMA EndLeaves ==
    ASSUME TypeOK, NEW r \in Request, NEW l \in {"done", "failed"}, End(r, l)
    PROVE  /\ \A q \in Request : q # r => /\ pc'[q] = pc[q] /\ on'[q] = on[q]
                                          /\ held'[q] = held[q] /\ InFlight(q)' = InFlight(q)
           /\ ~InFlight(r)' /\ pc'[r] = l
           /\ \A p : Recording(p)' = Recording(p) \ {r}
<1>1. \A q \in Request : /\ pc'[q] = IF q = r THEN l ELSE pc[q]
                         /\ q # r => on'[q] = on[q] /\ held'[q] = held[q]
  BY DEF End, TypeOK
<1>2. /\ \A q \in Request : q # r => InFlight(q)' = InFlight(q)
      /\ ~InFlight(r)'
  BY <1>1 DEF InFlight
<1>3. \A p : Recording(p)' = Recording(p) \ {r}
  BY <1>1, Kinds DEF Recording
<1> QED
  BY <1>1, <1>2, <1>3

\* After the end of r, for a proposal that has no other request.
LEMMA EndKeeps ==
    ASSUME IInv, NEW r \in Request, NEW l \in {"done", "failed"}, End(r, l), UNCHANGED raced
    PROVE  /\ OneRequest'
           /\ \A p \in Proposal :
                 status'[p] = status[p] \/ (on[r] = p /\ InFlight(r)) =>
                     \A q \in Request :
                         InFlight(q)' /\ on'[q] = p /\ p \notin raced =>
                             /\ InFlight(q) /\ on[q] = p
                             /\ status'[p] = IF pc'[q] = "decide" THEN "pending_review"
                                                                 ELSE "approved"
<1>1. TypeOK
  BY DEF IInv
<1>2. OneRequest'
  BY <1>1, EndLeaves DEF IInv, OneRequest
<1>3. ASSUME NEW p \in Proposal, status'[p] = status[p] \/ (on[r] = p /\ InFlight(r)),
             NEW q \in Request, InFlight(q)', on'[q] = p, p \notin raced
      PROVE  /\ InFlight(q) /\ on[q] = p
             /\ status'[p] = IF pc'[q] = "decide" THEN "pending_review" ELSE "approved"
  <2>1. q # r /\ InFlight(q) /\ on[q] = p /\ pc'[q] = pc[q]
    BY <1>1, <1>3, EndLeaves
  <2>2. ~(on[r] = p /\ InFlight(r))
    BY <1>3, <2>1 DEF IInv, OneRequest
  <2> QED
    BY <1>3, <2>1, <2>2 DEF IInv, StatusStill
<1> QED
  BY <1>2, <1>3

LEMMA ReviewCommitKeeps ==
    ASSUME IInv, [Next]_vars, NEW v \in Reviewer, ReviewCommit(v)
    PROVE  IInv'
<1> USE DEF ReviewCommit
<1>0. v \in Request /\ v \notin Applier /\ TypeOK /\ End(v, "done") /\ InFlight(v)
  BY Kinds DEF IInv, InFlight
<1>1. TypeOK' /\ RunTyped'
  BY TypeStep, RunStep
<1>2. PICK p \in Proposal : on[v] = p /\ held[v] \in Verdict
  BY <1>0 DEF IInv, InFlightTyped
<1>3. \A q \in Proposal :
          /\ status'[q] = IF q = p THEN held[v] ELSE status[q]
          /\ decisions'[q] = IF q = p THEN decisions[q] \cup {<<v, held[v]>>} ELSE decisions[q]
  BY <1>0, <1>2 DEF TypeOK
<1>4. \A q : Recording(q)' = Recording(q)
  BY <1>0, EndLeaves DEF Recording
<1>5. InFlightTyped'
  BY <1>0, <1>2, <1>3, EndLeaves, Kinds DEF IInv, InFlightTyped, Verdict
<1>6. OneRequest' /\ StatusStill'
  <2>1. \A q \in Proposal : status'[q] = status[q] \/ (on[v] = q /\ InFlight(v))
    BY <1>0, <1>2, <1>3
  <2> QED
    BY <1>0, <1>5, <2>1, EndKeeps DEF StatusStill, InFlightTyped
<1>7. p \notin raced => status[p] = "pending_review" /\ decisions[p] = {}
  BY <1>0, <1>2 DEF IInv, StatusStill, Undecided
<1>8. Undecided'
  BY <1>2, <1>3 DEF IInv, Undecided, Verdict
<1>9. DecisionStands'
  <2> SUFFICES ASSUME NEW q \in Proposal \ raced
               PROVE  /\ \A x, y \in decisions'[q] : x = y
                      /\ \A x \in decisions'[q] :
                             status'[q] \in (IF x[2] = "approved" THEN {"approved", "applied"}
                                                                 ELSE {x[2]})
    BY DEF DecisionStands
  <2>1. CASE q = p
    <3>1. decisions'[q] = {<<v, held[v]>>} /\ status'[q] = held[v]
      BY <1>2, <1>3, <1>7, <2>1
    <3> QED
      BY <3>1
  <2>2. CASE q # p
    <3>1. decisions'[q] = decisions[q] /\ status'[q] = status[q]
      BY <1>3, <2>2
    <3> QED
      BY <3>1 DEF IInv, DecisionStands
  <2> QED
    BY <2>1, <2>2
<1>10. GrantedFirst'
  <2>1. \A q \in Proposal : Granted(q) => Granted(q)'
    BY <1>3 DEF Granted
  <2>2. held[v] = "approved" => Granted(p)'
    BY <1>2, <1>3 DEF Granted
  <2>3. \A q \in Proposal : status'[q] \in {"approved", "applied"} => Granted(q)'
    BY <1>2, <1>3, <2>1, <2>2 DEF IInv, GrantedFirst, Verdict
  <2>4. \A a \in Applier : pc'[a] = pc[a] /\ on'[a] = on[a]
    BY <1>0, EndLeaves, Kinds
  <2> QED
    BY <2>1, <2>3, <2>4 DEF IInv, GrantedFirst
<1>11. AuditComplete'
  BY <1>4 DEF IInv, AuditComplete
<1>12. AppliedOnce'
  BY <1>2, <1>3, <1>4, <1>7 DEF IInv, AppliedOnce, Verdict
<1> QED
  BY <1>1, <1>5, <1>6, <1>8, <1>9, <1>10, <1>11, <1>12 DEF IInv
LEMMA ApplyWriteKeeps ==
    ASSUME IInv, [Next]_vars, NEW a \in Applier, ApplyWrite(a)
    PROVE  IInv'
<1> USE DEF ApplyWrite, proposals
<1>0. a \in Request /\ a \notin Reviewer /\ TypeOK /\ InFlight(a) /\ InFlight(a)'
  BY Kinds DEF IInv, InFlight, TypeOK
<1>1. TypeOK' /\ RunTyped'
  BY TypeStep, RunStep
<1>2. PICK p \in Proposal : on[a] = p
  BY <1>0 DEF IInv, InFlightTyped
<1>3. /\ \A q \in Request : pc'[q] = IF q = a THEN "record" ELSE pc[q]
      /\ \A q \in Proposal : effects'[q] = IF q = p THEN effects[q] + 1 ELSE effects[q]
      /\ \A q \in Reviewer : pc[q] = "decide" => held'[q] = held[q]
  BY <1>0, <1>2, Kinds DEF TypeOK, Moved
<1>4. \A q \in Request : InFlight(q)' = InFlight(q)
  BY <1>0, <1>3 DEF InFlight
<1>5. \A q \in Proposal : /\ Recording(q)' = IF q = p THEN Recording(q) \cup {a} ELSE Recording(q)
                          /\ a \notin Recording(q)
  <2>1. pc[a] = "write"
    OBVIOUS
  <2>2. ASSUME NEW q \in Proposal, NEW b \in Applier
        PROVE  (pc'[b] = "record" /\ on'[b] = q)
                   <=> ((pc[b] = "record" /\ on[b] = q) \/ (b = a /\ q = p))
    <3>1. CASE b = a
      BY <1>2, <1>3, <2>1, <3>1, Kinds
    <3>2. CASE b # a
      BY <1>3, <3>2, Kinds
    <3> QED
      BY <3>1, <3>2
  <2>3. \A q \in Proposal : Recording(q)' = IF q = p THEN Recording(q) \cup {a} ELSE Recording(q)
    BY <2>2 DEF Recording
  <2> QED
    BY <2>1, <2>3 DEF Recording
<1>6. InFlightTyped'
  BY <1>0, <1>3, <1>4, Kinds DEF IInv, InFlightTyped
<1>7. OneRequest' /\ StatusStill' /\ Undecided' /\ DecisionStands'
  <2>1. StatusStill'
    BY <1>0, <1>3, <1>4 DEF IInv, StatusStill
  <2> QED
    BY <1>4, <2>1 DEF IInv, OneRequest, Undecided, DecisionStands
<1>8. GrantedFirst'
  <2>1. \A q \in Proposal : Granted(q)' = Granted(q)
    BY DEF Granted
  <2>2. Granted(p)
    BY <1>2 DEF IInv, GrantedFirst
  <2>3. \A b \in Applier : pc'[b] \in {"write", "record"} => pc[b] \in {"write", "record"}
    BY <1>3, Kinds
  <2> QED
    BY <1>3, <2>1, <2>2, <2>3 DEF IInv, GrantedFirst
<1>9. AuditComplete'
  <2>1. IsFiniteSet(Recording(p))
    BY FS_Subset, GovernanceConstantsOK DEF Recording
  <2>2. Cardinality(Recording(p) \cup {a}) = Cardinality(Recording(p)) + 1
    BY <1>5, <2>1, FS_AddElement
  <2>3. Cardinality(Recording(p)) \in Nat
    BY <2>1, FS_CardinalityType
  <2>4. ASSUME NEW q \in Proposal \ cut
        PROVE  effects'[q] = audits[q] + Cardinality(Recording(q)')
    <3>1. effects[q] = audits[q] + Cardinality(Recording(q)) /\ audits[q] \in Nat
      BY <1>0 DEF IInv, AuditComplete, TypeOK
    <3>2. CASE q = p
      <4>1. effects'[q] = effects[q] + 1
        BY <1>3, <3>2
      <4>2. Cardinality(Recording(q)') = Cardinality(Recording(q)) + 1
        BY <1>5, <2>2, <3>2
      <4> QED
        BY <2>3, <3>1, <3>2, <4>1, <4>2
    <3>3. CASE q # p
      BY <1>3, <1>5, <3>1, <3>3
    <3> QED
      BY <3>2, <3>3
  <2> QED
    BY <2>4 DEF AuditComplete
<1>10. AppliedOnce'
  <2>1. p \notin raced => status[p] = "approved" /\ Recording(p) = {}
    <3>1. \A b \in Recording(p) : p \notin raced => b = a
      BY <1>0, <1>2, Kinds DEF IInv, OneRequest, Recording, InFlight
    <3>2. p \notin raced => status[p] = "approved"
      BY <1>0, <1>2 DEF IInv, StatusStill
    <3>3. a \notin Recording(p)
      BY <1>5
    <3> QED
      BY <3>1, <3>2, <3>3
  <2>2. ASSUME NEW q \in Proposal \ (raced \cup cut)
        PROVE  effects'[q] = IF status[q] = "applied" \/ Recording(q)' # {} THEN 1 ELSE 0
    <3>1. effects[q] = IF status[q] = "applied" \/ Recording(q) # {} THEN 1 ELSE 0
      BY DEF IInv, AppliedOnce
    <3>2. CASE q = p
      <4>1. effects[q] = 0
        BY <2>1, <2>2, <3>1, <3>2
      <4> QED
        BY <1>3, <1>5, <3>2, <4>1
    <3>3. CASE q # p
      BY <1>3, <1>5, <3>1, <3>3
    <3> QED
      BY <3>2, <3>3
  <2> QED
    BY <2>2 DEF AppliedOnce
<1> QED
  BY <1>1, <1>6, <1>7, <1>8, <1>9, <1>10 DEF IInv

LEMMA ApplyRecordKeeps ==
    ASSUME IInv, [Next]_vars, NEW a \in Applier, ApplyRecord(a)
    PROVE  IInv'
<1> USE DEF ApplyRecord
<1>0. a \in Request /\ a \notin Reviewer /\ TypeOK /\ InFlight(a) /\ End(a, "done")
  BY Kinds DEF IInv, InFlight
<1>1. TypeOK' /\ RunTyped'
  BY TypeStep, RunStep
<1>2. PICK p \in Proposal : on[a] = p
  BY <1>0 DEF IInv, InFlightTyped
<1>3. \A q \in Proposal :
          /\ status'[q] = IF q = p THEN "applied" ELSE status[q]
          /\ audits'[q] = IF q = p THEN audits[q] + 1 ELSE audits[q]
  BY <1>0, <1>2 DEF TypeOK
<1>4. \A q \in Proposal :
          /\ Recording(q)' = IF q = p THEN Recording(q) \ {a} ELSE Recording(q)
          /\ a \in Recording(q) <=> q = p
  <2>1. \A q : Recording(q)' = Recording(q) \ {a}
    BY <1>0, EndLeaves
  <2>2. \A q \in Proposal : a \in Recording(q) <=> q = p
    BY <1>2 DEF Recording
  <2> QED
    BY <2>1, <2>2
<1>5. InFlightTyped'
  BY <1>0, <1>2, <1>3, EndLeaves, Kinds DEF IInv, InFlightTyped
<1>6. OneRequest' /\ StatusStill'
  <2>1. \A q \in Proposal : status'[q] = status[q] \/ (on[a] = q /\ InFlight(a))
    BY <1>0, <1>2, <1>3
  <2> QED
    BY <1>0, <1>5, <2>1, EndKeeps DEF StatusStill, InFlightTyped
<1>7. p \notin raced => status[p] = "approved" /\ Recording(p) = {a}
  <2>1. \A b \in Recording(p) : p \notin raced => b = a
    BY <1>0, <1>2, Kinds DEF IInv, OneRequest, Recording, InFlight
  <2> QED
    BY <1>0, <1>2, <1>4, <2>1 DEF IInv, StatusStill
<1>8. Undecided'
  BY <1>3 DEF IInv, Undecided
<1>9. DecisionStands'
  <2> SUFFICES ASSUME NEW q \in Proposal \ raced
               PROVE  /\ \A x, y \in decisions[q] : x = y
                      /\ \A x \in decisions[q] :
                             status'[q] \in (IF x[2] = "approved" THEN {"approved", "applied"}
                                                                 ELSE {x[2]})
    BY DEF DecisionStands
  <2>1. CASE q = p
    <3>1. \A x \in decisions[q] : x[2] = "approved"
      <4>1. \A x \in decisions[q] : x[2] # "approved" => status[q] = x[2]
        BY DEF IInv, DecisionStands
      <4> QED
        BY <1>7, <2>1, <4>1
    <3> QED
      BY <1>3, <2>1, <3>1 DEF IInv, DecisionStands
  <2>2. CASE q # p
    BY <1>3, <2>2 DEF IInv, DecisionStands
  <2> QED
    BY <2>1, <2>2
<1>10. GrantedFirst'
  <2>1. \A q \in Proposal : Granted(q)' = Granted(q)
    BY DEF Granted
  <2>2. Granted(p)
    BY <1>2 DEF IInv, GrantedFirst
  <2>3. \A b \in Applier : pc'[b] \in {"write", "record"} => pc'[b] = pc[b] /\ on'[b] = on[b]
    BY <1>0, EndLeaves, Kinds
  <2> QED
    BY <1>3, <2>1, <2>2, <2>3 DEF IInv, GrantedFirst
<1>11. AuditComplete'
  <2>1. IsFiniteSet(Recording(p))
    BY FS_Subset, GovernanceConstantsOK DEF Recording
  <2>2. Cardinality(Recording(p) \ {a}) = Cardinality(Recording(p)) - 1
    BY <1>4, <2>1, FS_RemoveElement
  <2>3. Cardinality(Recording(p)) \in Nat
    BY <2>1, FS_CardinalityType
  <2>4. ASSUME NEW q \in Proposal \ cut
        PROVE  effects[q] = audits'[q] + Cardinality(Recording(q)')
    <3>1. effects[q] = audits[q] + Cardinality(Recording(q)) /\ audits[q] \in Nat
      BY <1>0 DEF IInv, AuditComplete, TypeOK
    <3>2. CASE q = p
      <4>1. audits'[q] = audits[q] + 1
        BY <1>3, <3>2
      <4>2. Cardinality(Recording(q)') = Cardinality(Recording(q)) - 1
        BY <1>4, <2>2, <3>2
      <4> QED
        BY <2>3, <3>1, <3>2, <4>1, <4>2
    <3>3. CASE q # p
      BY <1>3, <1>4, <3>1, <3>3
    <3> QED
      BY <3>2, <3>3
  <2> QED
    BY <2>4 DEF AuditComplete
<1>12. AppliedOnce'
  <2> SUFFICES ASSUME NEW q \in Proposal \ (raced \cup cut)
               PROVE  effects[q] = IF status'[q] = "applied" \/ Recording(q)' # {} THEN 1 ELSE 0
    BY DEF AppliedOnce
  <2> QED
    BY <1>3, <1>4, <1>7 DEF IInv, AppliedOnce
<1> QED
  BY <1>1, <1>5, <1>6, <1>8, <1>9, <1>10, <1>11, <1>12 DEF IInv

\* An application that is refused, and a request that is cut off.
LEMMA LeaveKeeps ==
    ASSUME IInv, [Next]_vars, NEW r \in Request, InFlight(r), End(r, "failed"),
           cut' = IF pc[r] = "record" THEN cut \cup {on[r]} ELSE cut,
           UNCHANGED <<proposals, records, raced>>
    PROVE  IInv'
<1> USE DEF proposals, records
<1>0. TypeOK
  BY DEF IInv
<1>1. TypeOK' /\ RunTyped'
  BY TypeStep, RunStep
<1>2. PICK p \in Proposal : on[r] = p
  BY DEF IInv, InFlightTyped
<1>3. \A q \in Proposal \ cut' : Recording(q)' = Recording(q)
  <2>1. \A q : Recording(q)' = Recording(q) \ {r}
    BY <1>0, EndLeaves
  <2>2. \A q \in Proposal \ cut' : r \notin Recording(q)
    BY <1>2 DEF Recording
  <2> QED
    BY <2>1, <2>2
<1>4. InFlightTyped'
  BY <1>0, EndLeaves, Kinds DEF IInv, InFlightTyped
<1>5. OneRequest' /\ StatusStill'
  BY <1>4, EndKeeps DEF StatusStill, InFlightTyped
<1>6. Undecided' /\ DecisionStands'
  BY DEF IInv, Undecided, DecisionStands
<1>7. GrantedFirst'
  <2>1. \A q \in Proposal : Granted(q)' = Granted(q)
    BY DEF Granted
  <2>2. \A b \in Applier : pc'[b] \in {"write", "record"} => pc'[b] = pc[b] /\ on'[b] = on[b]
    BY <1>0, EndLeaves, Kinds
  <2> QED
    BY <2>1, <2>2 DEF IInv, GrantedFirst
<1>8. AuditComplete' /\ AppliedOnce'
  BY <1>3 DEF IInv, AuditComplete, AppliedOnce
<1> QED
  BY <1>1, <1>4, <1>5, <1>6, <1>7, <1>8 DEF IInv

-----------------------------------------------------------------------------
(* The invariant and the theorems *)

LEMMA NextKeeps == IInv /\ [Next]_vars => IInv'
<1> SUFFICES ASSUME IInv, [Next]_vars PROVE IInv'
  OBVIOUS
<1>1. ASSUME NEW p \in Proposal, NEW a \in Action, CreateProposal(p, a) PROVE IInv'
  BY <1>1, ProposeKeeps DEF CreateProposal
<1>2. ASSUME NEW l \in Lock, TakeLock(l) \/ DropLock(l) PROVE IInv'
  BY <1>2, QuietKeeps DEF TakeLock, DropLock, Spoken, proposals, records, requests
<1>3. ASSUME NEW t \in Target, EditTarget(t) PROVE IInv'
  <2>1. \A v \in Reviewer : pc[v] = "decide" => held'[v] = held[v]
    BY <1>3, Kinds DEF EditTarget, Moved
  <2> QED
    BY <1>3, <2>1, QuietKeeps DEF EditTarget, Spoken, proposals, records
<1>4. ASSUME NEW v \in Reviewer, NEW p \in Proposal, NEW d \in Verdict, ReviewRead(v, p, d)
      PROVE IInv'
  <2>1. status[p] = "pending_review"
    BY <1>4 DEF ReviewRead, Reviewable, IInv, TypeOK, Verdict
  <2>2. Start(v, p, "decide", d) /\ UNCHANGED <<proposals, records, cut>>
    BY <1>4 DEF ReviewRead
  <2> QED
    BY <2>1, <2>2, StartKeeps, Kinds
<1>5. ASSUME NEW v \in Reviewer, ReviewCommit(v) PROVE IInv'
  BY <1>5, ReviewCommitKeeps
<1>6. ASSUME NEW a \in Applier, NEW p \in Proposal, ApplyCheck(a, p) PROVE IInv'
  <2>1. PICK h : Start(a, p, "write", h)
    BY <1>6 DEF ApplyCheck
  <2>2. status[p] = "approved" /\ UNCHANGED <<proposals, records, cut>>
    BY <1>6 DEF ApplyCheck, Applicable
  <2> QED
    BY <2>1, <2>2, StartKeeps, Kinds
<1>7. ASSUME NEW a \in Applier, ApplyWrite(a) PROVE IInv'
  BY <1>7, ApplyWriteKeeps
<1>8. ASSUME NEW a \in Applier, ApplyRefused(a) PROVE IInv'
  BY <1>8, LeaveKeeps, Kinds DEF ApplyRefused, InFlight
<1>9. ASSUME NEW a \in Applier, ApplyRecord(a) PROVE IInv'
  BY <1>9, ApplyRecordKeeps
<1>10. ASSUME NEW r \in Request, Crash(r) PROVE IInv'
  BY <1>10, LeaveKeeps DEF Crash
<1>11. CASE RunStart \/ AnalyseNothing \/ AutoApprove \/ AnalyseFails
  BY <1>11, QuietKeeps
  DEF RunStart, AnalyseNothing, AutoApprove, AnalyseFails, AttemptFailed, Spoken, proposals,
      records, requests
<1>12. ASSUME NEW p \in Proposal, AnalysePropose(p) PROVE IInv'
  BY <1>12, ProposeKeeps DEF AnalysePropose
<1>13. CASE UNCHANGED vars
  BY <1>13, QuietKeeps DEF vars, Spoken, proposals, records, requests
<1> QED
  BY <1>1, <1>2, <1>3, <1>4, <1>5, <1>6, <1>7, <1>8, <1>9, <1>10, <1>11, <1>12, <1>13
  DEF Next, Review, Apply, Dream

\* The invariant holds throughout: approve_proposal, apply_proposal, locks and runs.
THEOREM Invariant == Spec => []IInv
<1> QED
  BY InitInv, NextKeeps, PTL DEF Spec

\* Proposals, their records, requests and run stay in their domains.
THEOREM TypeCorrect == Spec => []TypeOK
<1>1. IInv => TypeOK
  BY DEF IInv
<1> QED
  BY <1>1, Invariant, PTL

\* However reviews and applications overlap and end, nothing changes the target
\* without an approval on record or the policy's.
THEOREM ApprovedOnly == Spec => []NothingUnapproved
<1>1. IInv => NothingUnapproved
  BY DEF IInv, GrantedFirst, NothingUnapproved
<1> QED
  BY <1>1, Invariant, PTL

\* Every change of the target by a proposal has its audit row, is about to have it, or
\* belongs to a proposal whose application was cut off between its two commits.
THEOREM Audited == Spec => []AuditComplete
<1>1. IInv => AuditComplete
  BY DEF IInv
<1> QED
  BY <1>1, Invariant, PTL

\* Without overlap and without a cut, a proposal changes the target at most once, and
\* its status tells whether it did.
THEOREM OnceOnly == Spec => []AppliedOnce
<1>1. IInv => AppliedOnce
  BY DEF IInv
<1> QED
  BY <1>1, Invariant, PTL

\* Without overlap a proposal has at most one decision, and its status follows it.
THEOREM DecisionFinal == Spec => []DecisionStands
<1>1. IInv => DecisionStands
  BY DEF IInv
<1> QED
  BY <1>1, Invariant, PTL

\* The records of a proposal (status, decisions, audit, target) agree with each other.
THEOREM RecordsAlwaysAgree == Spec => []RecordsAgree
<1>1. AuditComplete /\ AppliedOnce /\ DecisionStands => RecordsAgree
  BY DEF RecordsAgree
<1>2. QED
  BY <1>1, Audited, OnceOnly, DecisionFinal, PTL
=============================================================================
