------------------------------ MODULE RuleStore ------------------------------
(***************************************************************************)
(* The rules of services/rules.py: the rows of one rule name, of the kinds *)
(* parse, merge, retrieve and call, for one memory field.                  *)
(*                                                                         *)
(* A rule is versioned: a write retires the row it found and inserts one   *)
(* with the next version.  Every request is one MySQL transaction with     *)
(* REPEATABLE READ: what it reads is the snapshot of its first read, what  *)
(* it writes meets the rows there are, and only the unique keys of the     *)
(* tables stop two requests that read the same snapshot.  The memory field *)
(* a rule is bound to is versioned too: an update of the field gives it    *)
(* another id under the same name.                                         *)
(***************************************************************************)
EXTENDS Integers, Sequences, FiniteSets

CONSTANTS
    Txn,            \* requests
    Op,             \* what they may ask for
    MaxFields       \* bound on the updates of the memory field

VARIABLES
    rows,       \* the rows in the order of their insertion
    field,      \* the id of the memory field's current row
    step,       \* where each request is
    op,         \* what it asks for
    snap,       \* the rows it sees
    bound,      \* the memory field it found
    crowded     \* history: requests that were open beside another write

vars == <<rows, field, step, op, snap, bound, crowded>>

Kinds    == {"parse", "merge", "retrieve", "call"}
Retiring == {"parse", "merge"}      \* kinds whose create retires the row there is
Scopes   == {"field", "implicit", "any"}
Slots    == {"none", "s1", "s2"}
Implicit == -1                      \* memory_field_id IS NULL

Ops == [do : {"create", "update", "delete"}, kind : Kinds, scope : Scopes, slot : Slots]

Row == [kind : Kinds, field : Int, slot : Slots, version : Nat, active : BOOLEAN]

OpsOK == \A o \in Op : o \in Ops /\ (o.kind # "retrieve" => o.scope = "field")

Open == {t \in Txn : step[t] = "open"}

-----------------------------------------------------------------------------
(* Reading *)

InScope(r, s) ==
    \/ s = "any"
    \/ s = "implicit" /\ r.field = Implicit
    \/ s = "field" /\ r.field # Implicit

Actives(q, o) == {i \in DOMAIN q : q[i].kind = o.kind /\ q[i].active /\ InScope(q[i], o.scope)}

\* get_active_parse, _merge, _retrieve, _call: the highest version; the database
\* chooses among equals.
Served(q, o) == {i \in Actives(q, o) : \A j \in Actives(q, o) : q[j].version <= q[i].version}

\* Mutant of Counted: a version number is free again when its rule is deleted.
CountedActive(q, k, f, s) ==
    {i \in DOMAIN q : /\ q[i].kind = k /\ q[i].active
                      /\ k # "retrieve" => q[i].field = f
                      /\ k = "call" => q[i].slot = s}

\* The rows whose versions _next_version looks at: deleted ones included, and those
\* of every field for a retrieve rule.
Counted(q, k, f, s) ==
    {i \in DOMAIN q : /\ q[i].kind = k
                      /\ k # "retrieve" => q[i].field = f
                      /\ k = "call" => q[i].slot = s}

IsNext(v, q, k, f, s) ==
    LET versions == {q[i].version : i \in Counted(q, k, f, s)} IN
    /\ \A w \in versions : w < v
    /\ v = 1 \/ v - 1 \in versions

-----------------------------------------------------------------------------
(* Writing *)

\* uk_parse_rule_version, uk_retrieve_rule_version and uk_call_rule_version; a NULL
\* in a key never clashes.
Clashes(r) ==
    /\ r.field # Implicit
    /\ \E i \in DOMAIN rows :
        /\ rows[i].kind = r.kind /\ rows[i].field = r.field
        /\ rows[i].version = r.version /\ rows[i].slot = r.slot

Retired(S) == [i \in DOMAIN rows |-> [rows[i] EXCEPT !.active = @ /\ i \notin S]]

Done(t, s) == step' = [step EXCEPT ![t] = s]

Stays == UNCHANGED <<field, op, snap, bound, crowded>>

\* One transaction: retire, insert, commit; a clash rolls all of it back.
Replace(t, S, r) ==
    IF Clashes(r) THEN /\ Done(t, "clash")
                       /\ UNCHANGED rows
    ELSE /\ Done(t, "done")
         /\ rows' = Append(Retired(S), r)

NewRow(k, f, s, v) == [kind |-> k, field |-> f, slot |-> s, version |-> v, active |-> TRUE]

Asks(t, do, k) == t \in Open /\ op[t].do = do /\ op[t].kind = k

\* Mutant of CreateRetiring: the row there is stays active.
CreateBeside(t, k) ==
    /\ Asks(t, "create", k)
    /\ \E v \in 1 .. Len(snap[t]) + 1 :
        /\ IsNext(v, snap[t], k, bound[t], "none")
        /\ Replace(t, {}, NewRow(k, bound[t], "none", v))
    /\ Stays

CreateRetiring(t, k) ==
    /\ Asks(t, "create", k)
    /\ \E S \in SUBSET Served(snap[t], op[t]), v \in 1 .. Len(snap[t]) + 1 :
        /\ IF Served(snap[t], op[t]) = {} THEN S = {} ELSE Cardinality(S) = 1
        /\ IsNext(v, snap[t], k, bound[t], "none")
        /\ Replace(t, S, NewRow(k, bound[t], "none", v))
    /\ Stays

CreateParse(t) == CreateRetiring(t, "parse")

\* Only for a field with match_method MERGE and a valid prompt, see Refuse.
CreateMerge(t) == CreateRetiring(t, "merge")

CreateRetrieve(t) ==
    /\ Asks(t, "create", "retrieve")
    /\ LET f == IF op[t].scope = "implicit" THEN Implicit ELSE bound[t] IN
       \E v \in 1 .. Len(snap[t]) + 1 :
        /\ IsNext(v, snap[t], "retrieve", f, "none")
        /\ Replace(t, {}, NewRow("retrieve", f, "none", v))
    /\ Stays

CreateCall(t) ==
    /\ Asks(t, "create", "call")
    /\ \E v \in 1 .. Len(snap[t]) + 1 :
        /\ IsNext(v, snap[t], "call", bound[t], op[t].slot)
        /\ Replace(t, {}, NewRow("call", bound[t], op[t].slot, v))
    /\ Stays

\* update_parse and update_retrieve: the row found is retired, the new one keeps its
\* memory field.
Update(t, k) ==
    /\ Asks(t, "update", k)
    /\ \E i \in Served(snap[t], op[t]), v \in 1 .. Len(snap[t]) + 1 :
        /\ IsNext(v, snap[t], k, snap[t][i].field, "none")
        /\ Replace(t, {i}, NewRow(k, snap[t][i].field, "none", v))
    /\ Stays

UpdateParse(t)    == Update(t, "parse")
UpdateRetrieve(t) == Update(t, "retrieve")

\* The new version is that of the old slot, though the row may go to another one.
UpdateCall(t) ==
    /\ Asks(t, "update", "call")
    /\ \E i \in Served(snap[t], op[t]), v \in 1 .. Len(snap[t]) + 1 :
        LET slot == IF op[t].slot = "none" THEN snap[t][i].slot ELSE op[t].slot IN
        /\ IsNext(v, snap[t], "call", snap[t][i].field, snap[t][i].slot)
        /\ Replace(t, {i}, NewRow("call", snap[t][i].field, slot, v))
    /\ Stays

\* delete_parse_soft and its like: the row found, even if it was replaced since.
Delete(t) ==
    /\ t \in Open /\ op[t].do = "delete"
    /\ \E i \in Served(snap[t], op[t]) : rows' = Retired({i})
    /\ Done(t, "done")
    /\ Stays

\* Not found, not valid, or an error of the database: nothing is written.
Refuse(t) ==
    /\ t \in Open
    /\ op[t].do # "create" => Served(snap[t], op[t]) = {}
    /\ Done(t, "refused")
    /\ UNCHANGED rows
    /\ Stays

-----------------------------------------------------------------------------
(* Requests and fields *)

Begin(t, o) ==
    /\ step[t] = "idle"
    /\ Done(t, "open")
    /\ op' = [op EXCEPT ![t] = o]
    /\ snap' = [snap EXCEPT ![t] = rows]
    /\ bound' = [bound EXCEPT ![t] = field]
    /\ crowded' = IF Open = {} THEN crowded ELSE crowded \cup Open \cup {t}
    /\ UNCHANGED <<rows, field>>

\* resolve_capability_id registers the capability, and its commit ends the snapshot:
\* the rules are read in a new one, after the field.
Resolve(t) ==
    /\ t \in Open /\ op[t].do = "create" /\ op[t].kind \in {"parse", "call"}
    /\ snap[t] # rows
    /\ snap' = [snap EXCEPT ![t] = rows]
    /\ UNCHANGED <<rows, field, step, op, bound, crowded>>

\* memory_field: an update gives the name a row of another id.
FieldChanges ==
    /\ field < MaxFields
    /\ field' = field + 1
    /\ crowded' = crowded \cup Open
    /\ UNCHANGED <<rows, step, op, snap, bound>>

NoOp == [do |-> "create", kind |-> "parse", scope |-> "field", slot |-> "none"]

Init ==
    /\ rows = <<>> /\ field = 0
    /\ step = [t \in Txn |-> "idle"]
    /\ op = [t \in Txn |-> NoOp]
    /\ snap = [t \in Txn |-> <<>>]
    /\ bound = [t \in Txn |-> 0]
    /\ crowded = {}

Commit(t) ==
    \/ CreateParse(t) \/ CreateMerge(t) \/ CreateRetrieve(t) \/ CreateCall(t)
    \/ UpdateParse(t) \/ UpdateRetrieve(t) \/ UpdateCall(t)
    \/ Delete(t)

Next ==
    \/ \E t \in Txn : \/ \E o \in Op : Begin(t, o)
                      \/ Resolve(t) \/ Commit(t) \/ Refuse(t)
    \/ FieldChanges

Spec == Init /\ [][Next]_vars

-----------------------------------------------------------------------------
(* Properties *)

\* Every variable stays in its domain.
TypeOK ==
    /\ rows \in Seq(Row) /\ field \in Nat
    /\ step \in [Txn -> {"idle", "open", "done", "clash", "refused"}]
    /\ op \in [Txn -> Ops]
    /\ snap \in [Txn -> Seq(Row)]
    /\ bound \in [Txn -> Nat]
    /\ crowded \subseteq Txn

\* While the memory field keeps its id, at most one parse rule and one merge rule of
\* a name is active, whatever creates, updates and deletes run beside each other:
\* two that read the same rules want the same version, and the key stops one.
OneActive ==
    field = 0 =>
        \A i, j \in DOMAIN rows :
            /\ rows[i].active /\ rows[j].active
            /\ rows[i].kind = rows[j].kind /\ rows[i].kind \in Retiring
            => i = j

\* What a lone request can rely on: at most one active rule to retire, and call
\* rules that are all bound to the current field and to one slot.
Tidy(o) ==
    /\ o.kind \in Retiring =>
        \A i, j \in Actives(rows, o) : i = j
    /\ o.kind = "call" =>
        \A i \in Actives(rows, o) : rows[i].field = field /\ rows[i].slot = o.slot

\* A create or update that ran alone is never turned away by the key of versions, and
\* what it wrote is what is served then, not a rule of an older field or version; a
\* deleted parse or merge rule leaves none.
LoneWriteStep ==
    \A t \in Txn :
        /\ step[t] = "open" /\ step'[t] \in {"done", "clash"}
        /\ t \notin crowded /\ Tidy(op[t])
        => /\ step'[t] = "done"
           /\ op[t].do # "delete" => Served(rows', op[t]) = {Len(rows')}
           /\ op[t].do = "delete" /\ op[t].kind \in Retiring => Actives(rows', op[t]) = {}

LoneWriteServed == [][LoneWriteStep]_vars

\* "A memory field has at most one active retrieve rule at a time, and so has the
\* tenant for implicit retrieval; the application sees to it."
OneRetrieveRule ==
    \A i, j \in DOMAIN rows :
        /\ rows[i].active /\ rows[j].active
        /\ rows[i].kind = "retrieve" /\ rows[j].kind = "retrieve"
        /\ rows[i].field = rows[j].field
        => i = j
=============================================================================
