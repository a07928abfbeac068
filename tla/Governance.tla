----------------------------- MODULE Governance -----------------------------
(***************************************************************************)
(* Proposals for one target (a memory field), from creation to writeback:  *)
(* services/governance_apply.py, and the dreaming run that makes proposals *)
(* by itself: temporal/activities/dreaming_activities.py, run by           *)
(* temporal/workflows/dreaming_workflow.py.                                *)
(*                                                                         *)
(* A review reads a proposal in one await and writes its status in a later *)
(* one; applying it commits the change of the target first, and audit and  *)
(* status in a transaction of their own.  Nothing is locked between, and   *)
(* what a request reads is a snapshot fixed when it was authenticated.     *)
(***************************************************************************)
EXTENDS Naturals, FiniteSets

CONSTANTS
    Proposal, Reviewer, Applier,
    Lock,           \* memory locks on the target
    None,
    MaxAttempts     \* of the analytics activity (RetryPolicy)

VARIABLES
    status,         \* governance_proposal.status, "absent" before it is created
    action, auto,   \* action and auto_apply of each proposal
    decisions,      \* proposal_approval: who decided what on each proposal
    audits,         \* the number of writeback_audit rows of each proposal
    effects,        \* how many times each proposal changed the target
    target,         \* the memory field: absent, active or deprecated
    locks,          \* the locks that are neither released nor expired
    pc, on,         \* of each review and application: its step and its proposal
    held,           \* the verdict of a review; what an application saw of the target
    raced, cut,     \* history: proposals on which requests overlapped, and those
                    \* whose application ended between its two commits
    run, attempt,   \* the analytics activity of a dreaming run, its failed attempts
    made            \* the proposal it has just stored

proposals == <<status, action, auto>>
records   == <<decisions, audits, effects>>
requests  == <<pc, on, held, raced, cut>>
dreaming  == <<run, attempt, made>>
vars      == <<proposals, records, target, locks, requests, dreaming>>

Action  == {"create", "update", "delete"}
Target  == {"absent", "active", "deprecated"}
Verdict == {"approved", "rejected"}
Request == Reviewer \cup Applier

ASSUME GovernanceConstantsOK ==
    /\ Reviewer \cap Applier = {} /\ IsFiniteSet(Applier)
    /\ None \notin Proposal /\ MaxAttempts \in Nat \ {0}

InFlight(r) == pc[r] \in {"decide", "write", "record"}

-----------------------------------------------------------------------------
(* Proposals, locks and the target *)

Propose(p, a, s) ==
    /\ status[p] = "absent"
    /\ status' = [status EXCEPT ![p] = s]
    /\ action' = [action EXCEPT ![p] = a]
    /\ auto' = IF s = "approved" THEN auto \cup {p} ELSE auto

CreateProposal(p, a) ==
    /\ Propose(p, a, "pending_review")
    /\ UNCHANGED <<records, target, locks, requests, dreaming>>

TakeLock(l) ==
    /\ l \notin locks /\ locks' = locks \cup {l}
    /\ UNCHANGED <<proposals, records, target, requests, dreaming>>

\* Released, or expired.
DropLock(l) ==
    /\ l \in locks /\ locks' = locks \ {l}
    /\ UNCHANGED <<proposals, records, target, requests, dreaming>>

\* What a snapshot is worth after the target has changed: a create finds its version
\* taken; an update may publish over a deletion; a delete may miss the newest version.
Moved(r) == IF pc'[r] # "write" THEN held[r]
            ELSE IF held[r] \in {"present", "moved"} THEN "moved" ELSE "lost"

\* The target also changes through the schema API.
EditTarget(t) ==
    /\ target # "absent" \/ t # "absent"
    /\ target' = t
    /\ pc' = pc
    /\ held' = [r \in Request |-> Moved(r)]
    /\ UNCHANGED <<proposals, records, locks, on, raced, cut, dreaming>>

-----------------------------------------------------------------------------
(* approve_proposal *)

Start(r, p, l, h) ==
    /\ pc[r] = "idle"
    /\ pc' = [pc EXCEPT ![r] = l]
    /\ on' = [on EXCEPT ![r] = p]
    /\ held' = [held EXCEPT ![r] = h]
    /\ raced' = IF \E q \in Request : InFlight(q) /\ on[q] = p
                THEN raced \cup {p} ELSE raced

End(r, l) ==
    /\ pc' = [pc EXCEPT ![r] = l]
    /\ on' = [on EXCEPT ![r] = None]
    /\ held' = [held EXCEPT ![r] = "none"]

Reviewable(s) == s \in {"pending_review", "draft"}

ReviewRead(v, p, d) ==
    /\ Reviewable(status[p])
    /\ Start(v, p, "decide", d)
    /\ UNCHANGED <<proposals, records, target, locks, cut, dreaming>>

\* Mutant of ReviewCommit: a rejection is written as another word.
ReviewCommitMisspelt(v) ==
    /\ pc[v] = "decide"
    /\ decisions' = [decisions EXCEPT ![on[v]] = @ \cup {<<v, held[v]>>}]
    /\ status' = [status EXCEPT ![on[v]] = IF held[v] = "approved" THEN held[v] ELSE "reject"]
    /\ End(v, "done")
    /\ UNCHANGED <<action, auto, audits, effects, target, locks, raced, cut, dreaming>>

ReviewCommit(v) ==
    /\ pc[v] = "decide"
    /\ decisions' = [decisions EXCEPT ![on[v]] = @ \cup {<<v, held[v]>>}]
    /\ status' = [status EXCEPT ![on[v]] = held[v]]
    /\ End(v, "done")
    /\ UNCHANGED <<action, auto, audits, effects, target, locks, raced, cut, dreaming>>

-----------------------------------------------------------------------------
(* apply_proposal *)

\* Mutant of Applicable: whatever was not rejected may be applied.
ApplicableUnlessRejected(s) == s \notin {"absent", "rejected"}

Applicable(s) == s = "approved"

\* Status, locks and target are read in one snapshot.
ApplyCheck(a, p) ==
    /\ Applicable(status[p])
    /\ locks = {}
    /\ Start(a, p, "write", IF target = "absent" THEN "absent" ELSE "present")
    /\ UNCHANGED <<proposals, records, target, locks, cut, dreaming>>

\* What the registry may make of the target for an application that saw h of it.
Outcomes(act, h) ==
    CASE act = "create" -> IF h = "absent" THEN {"active"} ELSE {}
      [] act = "update" -> IF h \in {"present", "moved"} THEN {"active", "deprecated"} ELSE {}
      [] act = "delete" -> IF h = "present" THEN {"absent"}
                           ELSE IF h = "moved" THEN {"absent", target} ELSE {}

\* The call of the schema service, which commits.
ApplyWrite(a) ==
    /\ pc[a] = "write"
    /\ target' \in Outcomes(action[on[a]], held[a])
    /\ effects' = [effects EXCEPT ![on[a]] = @ + 1]
    /\ pc' = [pc EXCEPT ![a] = "record"]
    /\ held' = [r \in Request |-> Moved(r)]
    /\ UNCHANGED <<proposals, decisions, audits, locks, on, raced, cut, dreaming>>

\* NotFoundError, ConflictError, validation: the proposal stays approved.
ApplyRefused(a) ==
    /\ pc[a] = "write"
    /\ End(a, "failed")
    /\ UNCHANGED <<proposals, records, target, locks, raced, cut, dreaming>>

\* Mutant of ApplyRecord: the audit row is forgotten.
ApplyRecordAuditless(a) ==
    /\ pc[a] = "record"
    /\ status' = [status EXCEPT ![on[a]] = "applied"]
    /\ End(a, "done")
    /\ UNCHANGED <<action, auto, records, target, locks, raced, cut, dreaming>>

ApplyRecord(a) ==
    /\ pc[a] = "record"
    /\ audits' = [audits EXCEPT ![on[a]] = @ + 1]
    /\ status' = [status EXCEPT ![on[a]] = "applied"]
    /\ End(a, "done")
    /\ UNCHANGED <<action, auto, decisions, effects, target, locks, raced, cut, dreaming>>

\* Also what the schema service raises after its commit.
Crash(r) ==
    /\ InFlight(r)
    /\ cut' = IF pc[r] = "record" THEN cut \cup {on[r]} ELSE cut
    /\ End(r, "failed")
    /\ UNCHANGED <<proposals, records, target, locks, raced, dreaming>>

-----------------------------------------------------------------------------
(* dreaming_execute_analytics *)

RunStart ==
    /\ run = "none" /\ run' = "analyse"
    /\ UNCHANGED <<proposals, records, target, locks, requests, attempt, made>>

\* Nothing deprecated, nothing to propose.  No name has two active rows.
AnalyseNothing ==
    /\ run = "analyse" /\ target # "deprecated"
    /\ run' = "succeeded"
    /\ UNCHANGED <<proposals, records, target, locks, requests, attempt, made>>

\* create_proposal_from_dreaming: confidence 0.95 and low risk, so it is approved.
AnalysePropose(p) ==
    /\ run = "analyse" /\ target = "deprecated"
    /\ Propose(p, "delete", "approved")
    /\ run' = "auto" /\ made' = p
    /\ UNCHANGED <<records, target, locks, requests, attempt>>

AttemptFailed ==
    /\ attempt' = attempt + 1
    /\ run' = IF attempt + 1 < MaxAttempts THEN "analyse" ELSE "failed"
    /\ made' = None
    /\ UNCHANGED <<proposals, records, target, locks, requests>>

\* approve_proposal raises ConflictError, and the activity fails, as it would if it
\* were cut off here.
AutoApprove == run = "auto" /\ ~Reviewable(status[made]) /\ AttemptFailed

AnalyseFails == run = "analyse" /\ AttemptFailed

-----------------------------------------------------------------------------
Init ==
    /\ status = [p \in Proposal |-> "absent"]
    /\ action = [p \in Proposal |-> "update"] /\ auto = {}
    /\ decisions = [p \in Proposal |-> {}]
    /\ audits = [p \in Proposal |-> 0] /\ effects = [p \in Proposal |-> 0]
    /\ target \in Target /\ locks = {}
    /\ pc = [r \in Request |-> "idle"] /\ on = [r \in Request |-> None]
    /\ held = [r \in Request |-> "none"]
    /\ raced = {} /\ cut = {}
    /\ run = "none" /\ attempt = 0 /\ made = None

Review(v) ==
    \/ \E p \in Proposal, d \in Verdict : ReviewRead(v, p, d)
    \/ ReviewCommit(v)

Apply(a) ==
    \/ \E p \in Proposal : ApplyCheck(a, p)
    \/ ApplyWrite(a) \/ ApplyRefused(a) \/ ApplyRecord(a)

Dream ==
    \/ RunStart \/ AnalyseNothing \/ AutoApprove \/ AnalyseFails
    \/ \E p \in Proposal : AnalysePropose(p)

Next ==
    \/ \E p \in Proposal, a \in Action : CreateProposal(p, a)
    \/ \E l \in Lock : TakeLock(l) \/ DropLock(l)
    \/ \E t \in Target : EditTarget(t)
    \/ \E v \in Reviewer : Review(v)
    \/ \E a \in Applier : Apply(a)
    \/ \E r \in Request : Crash(r)
    \/ Dream

Spec == Init /\ [][Next]_vars

-----------------------------------------------------------------------------
(* Properties *)

\* Proposals, their records and the steps of requests and run stay in their
\* domains; a run ends after at most MaxAttempts failures.
TypeOK ==
    /\ status \in [Proposal -> {"absent", "pending_review", "applied"} \cup Verdict]
    /\ action \in [Proposal -> Action] /\ auto \subseteq Proposal
    /\ decisions \in [Proposal -> SUBSET (Reviewer \X Verdict)]
    /\ audits \in [Proposal -> Nat] /\ effects \in [Proposal -> Nat]
    /\ target \in Target /\ locks \subseteq Lock
    /\ pc \in [Request -> {"idle", "decide", "write", "record", "done", "failed"}]
    /\ on \in [Request -> Proposal \cup {None}]
    /\ held \in [Request -> Verdict \cup {"none", "absent", "present", "moved", "lost"}]
    /\ raced \subseteq Proposal /\ cut \subseteq Proposal
    /\ run \in {"none", "analyse", "auto", "succeeded", "failed"}
    /\ attempt \in 0 .. MaxAttempts
    /\ made \in Proposal \cup {None}

Granted(p) == p \in auto \/ \E v \in Reviewer : <<v, "approved">> \in decisions[p]

\* Nothing changes the target that no reviewer approved and no policy approved
\* beforehand, whatever reviews and applications overlap.
NothingUnapproved == \A p \in Proposal : effects[p] > 0 => Granted(p)

Recording(p) == {a \in Applier : pc[a] = "record" /\ on[a] = p}

\* The audit trail is complete: every change of the target by a proposal has its
\* row, but for those an application is about to record or was cut off before.
AuditComplete ==
    \A p \in Proposal \ cut : effects[p] = audits[p] + Cardinality(Recording(p))

\* A proposal that no two requests touched at the same time, and no application of
\* which was cut off, is applied at most once, and applied is what its status says.
AppliedOnce ==
    \A p \in Proposal \ (raced \cup cut) :
        effects[p] = IF status[p] = "applied" \/ Recording(p) # {} THEN 1 ELSE 0

\* Every decision on a proposal is on record and stands: without overlap there is
\* one, and the status is that decision or its application.
DecisionStands ==
    \A p \in Proposal \ raced :
        /\ \A x, y \in decisions[p] : x = y
        /\ \A x \in decisions[p] :
               status[p] \in (IF x[2] = "approved" THEN {"approved", "applied"} ELSE {x[2]})

\* The three records of a proposal agree: its audit rows with its effects, its status
\* with both, and its decisions with its status.
RecordsAgree == AuditComplete /\ AppliedOnce /\ DecisionStands

\* "produces proposals for review or auto-apply": what dreaming proposes for
\* automatic application is applied before the activity goes on.
AutoApplied ==
    run # "auto" => \A p \in auto : status[p] = "applied"
=============================================================================
