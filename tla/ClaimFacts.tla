----------------------------- MODULE ClaimFacts -----------------------------
(***************************************************************************)
(* When one statement about an identity may replace, complete or only      *)
(* contradict another: the pure part of services/memory_claim.py.          *)
(***************************************************************************)
EXTENDS Naturals, FiniteSets, FiniteSetsExt

CONSTANTS
    Input,              \* the claims an ingest request may carry
    MinConfidence,      \* update_policy min_confidence
    AllowFill,          \* update_policy allow_non_conflicting_object_fill
    AllowChronological, \* update_policy allow_chronological_supersede
    AutoSupersede       \* update_policy auto_supersede_fact_statuses

(***************************************************************************)
(* A structured value is the set of its <<key, datum>> pairs, a plain one  *)
(* is a single pair under the key Plain.  Confidence and event times are   *)
(* small naturals, and the time 0 stands for "no usable stamp".            *)
(***************************************************************************)
FactAuthority == [opinion |-> 1, proposal |-> 2, forecast |-> 2, stated |-> 3,
                  commitment |-> 4, decision |-> 5, correction |-> 6]

Plain == "plain"
IsObject(v) == \A b \in v : b[1] # Plain

\* The new object merely fills keys that the old one lacks.
NonConflicting(old, new) ==
    /\ IsObject(old) /\ IsObject(new)
    /\ \A b \in old, n \in new : b[1] = n[1] => b[2] = n[2]

FactTime(c) ==
    IF c.eff # 0 THEN c.eff ELSE Max({p.at : p \in c.prov} \cup {0})

NewerSameAuthority(new, old) ==
    /\ new.status = "stated" /\ old.status = "stated"
    /\ FactTime(new) # 0 /\ FactTime(old) # 0
    /\ FactTime(new) > FactTime(old)
    /\ new.conf >= old.conf

\* When a different value may replace the current one.
Outranks(new, old) ==
    \/ FactAuthority[new.status] > FactAuthority[old.status]
    \/ AllowChronological /\ NewerSameAuthority(new, old)
    \/ new.status \in AutoSupersede /\ new.conf >= old.conf

\* A request is refused before it reads the store.
Admissible(i) == i.valid /\ i.conf >= MinConfidence

\* The value of a claim that completes the current one.
Filled(old, new) == old \cup new

-----------------------------------------------------------------------------
Event    == {i.event : i \in Input}
Datum    == UNION {i.value : i \in Input}
Evidence == [event : Event, at : {i.at : i \in Input}]

\* An input as a request carries it; at is the event's occurred_at.
InputType ==
    [valid : BOOLEAN, value : SUBSET Datum, status : DOMAIN FactAuthority,
     conf : Nat, eff : Nat, event : Event, at : Nat]

ASSUME PolicyOK ==
    /\ Input \subseteq InputType
    /\ AllowFill \in BOOLEAN /\ AllowChronological \in BOOLEAN
    /\ AutoSupersede \subseteq DOMAIN FactAuthority
    /\ MinConfidence \in Nat
=============================================================================
