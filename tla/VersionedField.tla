--------------------------- MODULE VersionedField ---------------------------
(***************************************************************************)
(* What the registry promises of one field to those who read memory_field: *)
(* versions are published one after the other and never reused, each takes *)
(* the place of the one before it, and the active one may be withdrawn.    *)
(* There are no requests, views, locks or caches here.                     *)
(***************************************************************************)
EXTENDS Naturals, FiniteSetsExt

VARIABLE field      \* the versions stored, and the active ones of them

Newest == IF field.rows = {} THEN 0 ELSE Max(field.rows)

Publish ==
    field' = [rows |-> field.rows \cup {Newest + 1}, active |-> {Newest + 1}]

Withdraw == field' = [rows |-> field.rows, active |-> {}]

Init == field = [rows |-> {}, active |-> {}]

Next == Publish \/ Withdraw

Spec == Init /\ [][Next]_field
=============================================================================
