--------------------------- MODULE CapabilityStore ---------------------------
(***************************************************************************)
(* services/capability_registry.py for one capability name and rule kind:  *)
(* register, heartbeat and delete over the versioned rows of MySQL and one *)
(* entry of the Redis cache.                                               *)
(*                                                                         *)
(* The check of a request's API key takes the snapshot of its transaction; *)
(* then it reads the cache, and the rows in that snapshot, writes, commits *)
(* and refreshes the cache last.  Requests are cut into these awaits.      *)
(* Versions are allocated as the highest plus one under a unique key, so   *)
(* that the version of a row is its place in rows.  The changelog          *)
(* consumers write the same cache entry.                                   *)
(***************************************************************************)
EXTENDS Naturals, Sequences

CONSTANTS
    Request,
    Body        \* module, service, config and enabled of a registration

Op == [do : {"register"}, body : Body] \cup [do : {"heartbeat", "delete"}, body : {"none"}]

VARIABLES
    rows,       \* the rows by version: body, active, heartbeat_version
    cache,      \* the version the cache entry names, 0 when there is none
    step, op,   \* of each request
    cached,     \* what it found in the cache
    snap,       \* the rows it sees
    cur         \* the capability it took for the current one

vars == <<rows, cache, step, op, cached, snap, cur>>

Active(q) == {i \in DOMAIN q : q[i].active}

\* Mutant of Pick: a cached capability is not looked up.
PickCached(q, c) ==
    IF c \in DOMAIN q THEN {c}
    ELSE IF Active(q) = {} THEN {0} ELSE {i \in Active(q) : \A j \in Active(q) : j <= i}

\* get_active: the cached row if it is there and not deleted, else the newest.
Pick(q, c) ==
    IF c \in Active(q) THEN {c}
    ELSE IF Active(q) = {} THEN {0} ELSE {i \in Active(q) : \A j \in Active(q) : j <= i}

Goto(t, s) == step' = [step EXCEPT ![t] = s]

\* get_request_context, whose query opens the transaction that the service reads in.
Begin(t, o) ==
    /\ step[t] = "idle"
    /\ op' = [op EXCEPT ![t] = o]
    /\ snap' = [snap EXCEPT ![t] = rows]
    /\ Goto(t, IF o.do = "delete" THEN "list" ELSE "cache")
    /\ UNCHANGED <<rows, cache, cached, cur>>

ReadCache(t) ==
    /\ step[t] = "cache"
    /\ cached' = [cached EXCEPT ![t] = cache]
    /\ Goto(t, "read")
    /\ UNCHANGED <<rows, cache, op, snap, cur>>

ReadRows(t) ==
    /\ step[t] = "read"
    /\ \E i \in Pick(snap[t], cached[t]) : cur' = [cur EXCEPT ![t] = i]
    /\ Goto(t, op[t].do)
    /\ UNCHANGED <<rows, cache, op, cached, snap>>

Same(t) == cur[t] # 0 /\ snap[t][cur[t]].body = op[t].body

\* The body is that of the current row: register becomes a heartbeat, which reads
\* the cache again and the rows in the same snapshot.
RegisterSame(t) ==
    /\ step[t] = "register"
    /\ Same(t)
    /\ cached' = [cached EXCEPT ![t] = cache]
    /\ \E i \in Pick(snap[t], cache) : cur' = [cur EXCEPT ![t] = i]
    /\ Goto(t, "heartbeat")
    /\ UNCHANGED <<rows, cache, op, snap>>

Retired(S) == [i \in DOMAIN rows |-> [rows[i] EXCEPT !.active = @ /\ i \notin S]]

\* Another request took the version that this one allocated.
Clashes(t) == Len(rows) # Len(snap[t])

\* Retire and insert in one transaction, under the unique key of versions.
Register(t) ==
    /\ step[t] = "register"
    /\ ~Same(t)
    /\ IF Clashes(t)
       THEN /\ Goto(t, "failed")
            /\ UNCHANGED <<rows, cur>>
       ELSE /\ rows' = Append(Retired({cur[t]}),
                              [body |-> op[t].body, active |-> TRUE, beat |-> 1])
            /\ cur' = [cur EXCEPT ![t] = Len(rows) + 1]
            /\ Goto(t, "publish")
    /\ UNCHANGED <<cache, op, cached, snap>>

\* heartbeat_version is written as read plus one, and whether or not the row was
\* retired meanwhile.
Heartbeat(t) ==
    /\ step[t] = "heartbeat"
    /\ IF cur[t] = 0
       THEN /\ Goto(t, "failed")
            /\ UNCHANGED rows
       ELSE /\ rows' = [rows EXCEPT ![cur[t]].beat = snap[t][cur[t]].beat + 1]
            /\ Goto(t, "publish")
    /\ UNCHANGED <<cache, op, cached, snap, cur>>

List(t) ==
    /\ step[t] = "list"
    /\ Goto(t, IF Active(snap[t]) = {} THEN "failed" ELSE "delete")
    /\ UNCHANGED <<rows, cache, op, cached, snap, cur>>

Delete(t) ==
    /\ step[t] = "delete"
    /\ rows' = Retired(Active(snap[t]))
    /\ Goto(t, "drop")
    /\ UNCHANGED <<cache, op, cached, snap, cur>>

\* set_capability_cache and delete_capability_cache; an error of Redis is the
\* request's, but the rows are committed.
Publish(t) ==
    /\ step[t] \in {"publish", "drop"}
    /\ \/ cache' = IF step[t] = "publish" THEN cur[t] ELSE 0
       \/ UNCHANGED cache
    /\ Goto(t, "done")
    /\ UNCHANGED <<rows, op, cached, snap, cur>>

\* The changelog consumers store or drop the entry for any change there was.
Feed ==
    /\ \E c \in 0 .. Len(rows) : c # cache /\ cache' = c
    /\ UNCHANGED <<rows, step, op, cached, snap, cur>>

Init ==
    /\ rows = <<>> /\ cache = 0
    /\ step = [t \in Request |-> "idle"]
    /\ op = [t \in Request |-> [do |-> "delete", body |-> "none"]]
    /\ cached = [t \in Request |-> 0]
    /\ snap = [t \in Request |-> <<>>]
    /\ cur = [t \in Request |-> 0]

Serve(t) ==
    \/ \E o \in Op : Begin(t, o)
    \/ ReadCache(t) \/ ReadRows(t) \/ RegisterSame(t) \/ Register(t) \/ Heartbeat(t)
    \/ List(t) \/ Delete(t) \/ Publish(t)

Next == (\E t \in Request : Serve(t)) \/ Feed

Spec == Init /\ [][Next]_vars

-----------------------------------------------------------------------------
(* Properties *)

Row == [body : Body, active : BOOLEAN, beat : Nat]

\* Every variable stays in its domain.
TypeOK ==
    /\ rows \in Seq(Row) /\ cache \in Nat
    /\ step \in [Request -> {"idle", "cache", "read", "register", "heartbeat", "list",
                             "delete", "publish", "drop", "done", "failed"}]
    /\ op \in [Request -> Op]
    /\ cached \in [Request -> Nat] /\ cur \in [Request -> Nat]
    /\ snap \in [Request -> Seq(Row)]

\* However late a cache entry was written, and by whom: what register and heartbeat
\* take for the current capability is the only active row they can see, so that no
\* interleaving of registrations leaves two versions active.
CapabilityServed ==
    /\ \A i, j \in Active(rows) : i = j
    /\ \A t \in Request :
        step[t] \in {"register", "heartbeat"} =>
            Active(snap[t]) = IF cur[t] = 0 THEN {} ELSE {cur[t]}
=============================================================================
