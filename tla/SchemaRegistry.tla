--------------------------- MODULE SchemaRegistry ---------------------------
(***************************************************************************)
(* The versions of ONE memory field: services/memory_field.py over the     *)
(* MySQL table memory_field, with the Redis cache that the consumers of    *)
(* the schema changelog keep.                                              *)
(*                                                                         *)
(* A row is named by its version.  MySQL runs at its default, REPEATABLE   *)
(* READ: the SELECTs of a transaction see the rows committed before its    *)
(* first one, its UPDATEs and INSERTs act on the latest rows.  GET_LOCK is *)
(* neither: it belongs to the pooled connection that ran it, outlives      *)
(* commit and rollback, and may be taken again on the same connection.     *)
(***************************************************************************)
EXTENDS Naturals, FiniteSetsExt

CONSTANTS
    Request,
    Conn,       \* pooled connections to MySQL
    None,
    Canal       \* canal_enabled: row changes reach Kafka through the binlog too

VARIABLES
    field,      \* the committed rows, and those of them with deleted = 0
    holder,     \* the connection that owns the named lock
    depth,      \* how many times it took it
    conn,       \* the connection of each request
    pc, op,
    early,      \* history: requests whose view is older than their lock
    view,       \* the read view of each open transaction
    hint,       \* the id each request found in the cache
    current,    \* the version get_active_by_name returned, 0 for none
    gone, new,  \* the versions a transaction has set deleted and inserted
    events,     \* changelog events in Kafka: a version, or 0 for a deletion
    cache       \* the id under the field's cache key, 0 for none

lock   == <<holder, depth>>
tx     == <<view, hint, current, gone, new>>
caches == <<events, cache>>
vars   == <<field, lock, conn, pc, op, early, tx, caches>>

Op     == {"create", "update", "upsert", "delete"}
NoRows == [rows |-> {}, active |-> {}]
NoView == [open |-> FALSE, rows |-> {}, active |-> {}]
Now    == [open |-> TRUE, rows |-> field.rows, active |-> field.active]

ASSUME RegistryConstantsOK == None \notin Conn /\ Canal \in BOOLEAN

Top(S) == IF S = {} THEN 0 ELSE Max(S)

Idle == {c \in Conn : \A r \in Request : conn[r] # c}
Goto(r, l) == pc' = [pc EXCEPT ![r] = l]

\* The transaction of r holds changes that are not committed.
Changing(r) == pc[r] \in {"insert", "commit"}

-----------------------------------------------------------------------------
FirstStop(o) ==
    IF o = "upsert" THEN "hint" ELSE IF o = "delete" THEN "read" ELSE "lock"

\* An API request has read MySQL before it asks for the lock (its API key, and for
\* a create a look for the name that not every mode finds), a Temporal activity not.
Begin(r, o, e) ==
    /\ pc[r] = "idle"
    /\ o = "upsert" => ~e
    /\ \E c \in Idle : conn' = [conn EXCEPT ![r] = c]
    /\ op' = [op EXCEPT ![r] = o]
    /\ view' = IF e THEN [view EXCEPT ![r] = Now] ELSE view
    /\ early' = IF e THEN early \cup {r} ELSE early
    /\ Goto(r, FirstStop(o))
    /\ UNCHANGED <<field, lock, hint, current, gone, new, caches>>

\* Mutant of Acquire: the outcome of GET_LOCK is not looked at.
AcquireUnchecked(r) ==
    /\ pc[r] = "lock"
    /\ \/ holder \in {None, conn[r]} /\ holder' = conn[r] /\ depth' = depth + 1
       \/ holder \notin {None, conn[r]} /\ UNCHANGED lock
    /\ Goto(r, "hint")
    /\ UNCHANGED <<field, conn, op, early, tx, caches>>

\* _acquire_name_lock, and its timeout.
Acquire(r) ==
    /\ pc[r] = "lock" /\ holder \in {None, conn[r]}
    /\ holder' = conn[r] /\ depth' = depth + 1
    /\ Goto(r, "hint")
    /\ UNCHANGED <<field, conn, op, early, tx, caches>>

Close(r, l) ==
    /\ Goto(r, l)
    /\ conn' = [conn EXCEPT ![r] = None]
    /\ view' = [view EXCEPT ![r] = NoView]

AcquireTimeout(r) ==
    /\ pc[r] = "lock" /\ holder \notin {None, conn[r]}
    /\ Close(r, "failed")
    /\ UNCHANGED <<field, lock, op, early, hint, current, gone, new, caches>>

-----------------------------------------------------------------------------
(* get_active_by_name *)

ReadCache(r) ==
    /\ pc[r] = "hint"
    /\ hint' = [hint EXCEPT ![r] = cache]
    /\ Goto(r, "read")
    /\ UNCHANGED <<field, lock, conn, op, early, view, current, gone, new, caches>>

\* Mutant of Lookup: the cached row is taken whether deleted or not.
LookupDeleted(v, cached) ==
    IF cached \in v.rows THEN cached ELSE Top(v.active)

Lookup(v, cached) == IF cached \in v.active THEN cached ELSE Top(v.active)

\* Mutant of Released: the lock is counted down wherever the release runs.
ReleasedAnywhere(c) ==
    /\ depth' = depth - 1
    /\ holder' = IF depth = 1 THEN None ELSE holder

\* RELEASE_LOCK on connection c: it takes effect only where the lock is.
Released(c) ==
    IF holder = c
    THEN /\ depth' = depth - 1
         /\ holder' = IF depth = 1 THEN None ELSE holder
    ELSE UNCHANGED lock

\* What the first SELECT of a transaction fixes.
ViewOf(r) == IF view[r].open THEN view[r] ELSE Now

\* schema_upsert looks before it asks for the lock, and may find nothing to do.
ReadUpsert(r) ==
    /\ pc[r] = "read" /\ op[r] = "upsert"
    /\ view' = [view EXCEPT ![r] = ViewOf(r)]
    /\ early' = early \cup {r}
    /\ op' = [op EXCEPT ![r] =
                 IF Lookup(ViewOf(r), hint[r]) = 0 THEN "create" ELSE "update"]
    /\ Goto(r, "lock")
    /\ UNCHANGED <<field, lock, conn, hint, current, gone, new, caches>>

UpsertNothing(r) ==
    /\ pc[r] = "read" /\ op[r] = "upsert"
    /\ Lookup(ViewOf(r), hint[r]) # 0
    /\ Close(r, "done")
    /\ UNCHANGED <<field, lock, op, early, hint, current, gone, new, caches>>

\* create wants no active row, update wants one.
Wanted(r, v) == (op[r] = "update") = (v # 0)

ReadLocked(r) ==
    /\ pc[r] = "read" /\ op[r] \in {"create", "update"}
    /\ LET v == Lookup(ViewOf(r), hint[r]) IN
        /\ Wanted(r, v)
        /\ current' = [current EXCEPT ![r] = v]
        /\ Goto(r, IF v = 0 THEN "insert" ELSE "retire")
    /\ view' = [view EXCEPT ![r] = ViewOf(r)]
    /\ UNCHANGED <<field, lock, conn, op, early, hint, gone, new, caches>>

\* ConflictError or NotFoundError: the lock is released on its own connection.
Refuse(r) ==
    /\ pc[r] = "read" /\ op[r] \in {"create", "update"}
    /\ ~Wanted(r, Lookup(ViewOf(r), hint[r]))
    /\ Released(conn[r])
    /\ Close(r, "failed")
    /\ UNCHANGED <<field, op, early, hint, current, gone, new, caches>>

\* delete_soft reads all active rows, and takes no lock.
ReadDelete(r) ==
    /\ pc[r] = "read" /\ op[r] = "delete"
    /\ \/ /\ ViewOf(r).active # {}
          /\ view' = [view EXCEPT ![r] = ViewOf(r)]
          /\ Goto(r, "retire")
          /\ UNCHANGED conn
       \/ /\ ViewOf(r).active = {}
          /\ Close(r, "failed")
    /\ UNCHANGED <<field, lock, op, early, hint, current, gone, new, caches>>

-----------------------------------------------------------------------------
\* UPDATE ... SET deleted = 1 waits for the row locks of other transactions.
Retire(r) ==
    /\ pc[r] = "retire"
    /\ LET D == IF op[r] = "delete" THEN view[r].active ELSE {current[r]} IN
        /\ \A q \in Request : Changing(q) => gone[q] \cap D = {}
        /\ gone' = [gone EXCEPT ![r] = D]
    /\ Goto(r, IF op[r] = "delete" THEN "commit" ELSE "insert")
    /\ UNCHANGED <<field, lock, conn, op, early, view, hint, current, new, caches>>

\* Mutant of NextVersion: INSERT ... SELECT counts the latest rows instead of
\* those of the view.
NextVersionLatest(r) == Top(field.rows) + 1

NextVersion(r) == Top(view[r].rows) + 1

\* flush: uk_memory_field_version waits for an uncommitted row of that version.
Insert(r) ==
    /\ pc[r] = "insert"
    /\ NextVersion(r) \notin field.rows
    /\ \A q \in Request : Changing(q) => NextVersion(r) \notin new[q]
    /\ new' = [new EXCEPT ![r] = {NextVersion(r)}]
    /\ Goto(r, "commit")
    /\ UNCHANGED <<field, lock, conn, op, early, view, hint, current, gone, caches>>

\* The version is taken.  The failed flush rolls back, and the session refuses
\* the RELEASE_LOCK of the finally clause: the connection keeps the lock.
InsertDuplicate(r) ==
    /\ pc[r] = "insert"
    /\ NextVersion(r) \in field.rows
    /\ gone' = [gone EXCEPT ![r] = {}]
    /\ Close(r, "failed")
    /\ UNCHANGED <<field, lock, op, early, hint, current, new, caches>>

\* Mutant of After: a delete removes the row.
AfterErasing(r) ==
    [rows |-> (IF new[r] = {} THEN field.rows \ gone[r] ELSE field.rows) \cup new[r],
     active |-> (field.active \ gone[r]) \cup new[r]]

After(r) ==
    [rows |-> field.rows \cup new[r], active |-> (field.active \ gone[r]) \cup new[r]]

BinlogEvents(r) ==
    IF Canal THEN new[r] \cup (IF gone[r] = {} THEN {} ELSE {0}) ELSE {}

\* The connection goes back to the pool.
Commit(r) ==
    /\ pc[r] = "commit"
    /\ field' = After(r)
    /\ events' = events \cup BinlogEvents(r)
    /\ Close(r, "publish")
    /\ UNCHANGED <<lock, op, early, hint, current, gone, new, cache>>

\* publish_memory_field_change is best effort.
Publish(r) ==
    /\ pc[r] = "publish"
    /\ \/ events' = events \cup (IF new[r] = {} THEN {0} ELSE new[r])
       \/ UNCHANGED events
    /\ Goto(r, IF op[r] = "delete" THEN "done" ELSE "release")
    /\ UNCHANGED <<field, lock, conn, op, early, tx, cache>>

\* The session takes whatever connection the pool has for its RELEASE_LOCK.
Release(r) ==
    /\ pc[r] = "release"
    /\ \E c \in Idle : Released(c)
    /\ Goto(r, "done")
    /\ UNCHANGED <<field, conn, op, early, tx, caches>>

-----------------------------------------------------------------------------
\* The consumers of the changelog: events are handled late, twice, in any order
\* or never, and the cache takes what the event says.
HandleEvent(v) ==
    /\ v \in events
    /\ cache' = v
    /\ UNCHANGED <<field, lock, conn, pc, op, early, tx, events>>

Unlocked(c) ==
    IF holder = c THEN holder' = None /\ depth' = 0 ELSE UNCHANGED lock

\* An idle connection is closed: by MySQL, or as overflow of the pool.
CloseIdle(c) ==
    /\ c \in Idle /\ holder = c
    /\ Unlocked(c)
    /\ UNCHANGED <<field, conn, pc, op, early, tx, caches>>

Finished == {"done", "failed", "crashed"}

\* The request ends early; its transaction is rolled back, its connection closed
\* or returned to the pool as it is.
Crash(r) ==
    /\ pc[r] \notin Finished \cup {"idle"}
    /\ Close(r, "crashed")
    /\ gone' = [gone EXCEPT ![r] = {}] /\ new' = [new EXCEPT ![r] = {}]
    /\ \/ conn[r] # None /\ Unlocked(conn[r])
       \/ UNCHANGED lock
    /\ UNCHANGED <<field, op, early, hint, current, caches>>

Init ==
    /\ field = NoRows
    /\ holder = None /\ depth = 0
    /\ conn = [r \in Request |-> None]
    /\ pc = [r \in Request |-> "idle"]
    /\ op = [r \in Request |-> "none"]
    /\ early = {}
    /\ view = [r \in Request |-> NoView]
    /\ hint = [r \in Request |-> 0] /\ current = [r \in Request |-> 0]
    /\ gone = [r \in Request |-> {}] /\ new = [r \in Request |-> {}]
    /\ events = {} /\ cache = 0

Step(r) ==
    \/ \E o \in Op, e \in BOOLEAN : Begin(r, o, e)
    \/ Acquire(r) \/ AcquireTimeout(r)
    \/ ReadCache(r) \/ ReadUpsert(r) \/ UpsertNothing(r)
    \/ ReadLocked(r) \/ Refuse(r) \/ ReadDelete(r)
    \/ Retire(r) \/ Insert(r) \/ InsertDuplicate(r)
    \/ Commit(r) \/ Publish(r) \/ Release(r)

Next ==
    \/ \E r \in Request : Step(r) \/ Crash(r)
    \/ \E v \in events : HandleEvent(v)
    \/ \E c \in Conn : CloseIdle(c)

Spec == Init /\ [][Next]_vars

-----------------------------------------------------------------------------
(* Properties *)

Rows == [rows : SUBSET Nat, active : SUBSET Nat]

\* Rows, views, locks and request locals stay in their domains.
TypeOK ==
    /\ field \in Rows
    /\ holder \in Conn \cup {None} /\ depth \in Nat
    /\ conn \in [Request -> Conn \cup {None}]
    /\ pc \in [Request -> {"idle", "lock", "hint", "read", "retire", "insert",
                          "commit", "publish", "release"} \cup Finished]
    /\ op \in [Request -> Op \cup {"none"}]
    /\ early \subseteq Request
    /\ view \in [Request -> [open : BOOLEAN, rows : SUBSET Nat, active : SUBSET Nat]]
    /\ hint \in [Request -> Nat] /\ current \in [Request -> Nat]
    /\ gone \in [Request -> SUBSET Nat] /\ new \in [Request -> SUBSET Nat]
    /\ events \subseteq Nat /\ cache \in Nat

\* Only the newest version of a field is ever active, although a create or an
\* update decides on a view that may be older than its lock, and a delete takes
\* no lock: the unique version key refuses whoever missed a version.
OnlyNewestActive == field.active \subseteq {Top(field.rows)}

\* An update is built on the newest version there is when it commits: none is
\* lost, whatever was committed between its read and its write.
NoUpdateLost ==
    [][\A r \in Request :
        op[r] = "update" /\ pc[r] = "commit" /\ pc'[r] = "publish" =>
            current[r] = Top(field.rows) /\ Top(field'.rows) = current[r] + 1]_vars

\* What get_active_by_name returns does not depend on the cache: a stale, missing
\* or out-of-order entry never makes it return another row than the table has.
CacheTransparent ==
    \A r \in Request :
        pc[r] \in {"retire", "insert"} /\ op[r] \in {"create", "update"} =>
            current[r] = Top(view[r].active)

\* memory_field seen from outside is a VersionedField: however creates, updates and
\* deletes overlap, versions follow each other and are published one at a time.
Abstract == INSTANCE VersionedField
ImplementsVersionedField == Abstract!Spec

Locked(r) ==
    \/ pc[r] = "hint" /\ op[r] # "upsert"
    \/ pc[r] \in {"read", "retire", "insert", "commit"} /\ op[r] \in {"create", "update"}

\* "Serialize memory_field mutations": no two creates or updates are between
\* GET_LOCK and commit, although the lock is left on pooled connections and taken
\* again by whoever gets them.
OneInside == \A r, q \in Request : Locked(r) /\ Locked(q) => r = q

\* What the lock is good for: a create or update that reads after it got the lock
\* never fails on the unique key.
LockedReadNeverCollides ==
    \A r \in Request \ early : pc[r] = "insert" => NextVersion(r) \notin field.rows

\* The versions of a field: at most the newest is active, and whoever reads under the
\* lock never wants one that is taken.
VersionsSound == OnlyNewestActive /\ LockedReadNeverCollides
=============================================================================
