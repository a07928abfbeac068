----------------------------- MODULE SdkCatalog -----------------------------
(***************************************************************************)
(* The Python SDK's view of the schema: class Schema of client.py with its *)
(* two process-wide caches, filled by application threads and emptied by   *)
(* the changelog watcher's thread.                                         *)
(*                                                                         *)
(* A call is a few HTTP requests; what the server answers is put into a    *)
(* cache some time after it was read; a step is one request with what the  *)
(* thread does after it.  A request that writes is two: it reads in the    *)
(* view of the database that it opened with the check of the API key, and  *)
(* inserts in the end, where the unique key of versions turns it away if   *)
(* another one came between.  The server is the table of active fields,    *)
(* whose ids tell the order of their updates; how locks, its own cache and *)
(* the changelog bring a change about is SchemaRegistry, RuleStore and     *)
(* SchemaChangelog.                                                        *)
(***************************************************************************)
EXTENDS Naturals, Sequences, FiniteSets

CONSTANTS
    Thread,
    Name,       \* field names, and names that callers ask for
    None,
    Calls,      \* the calls the application makes
    PageSize,   \* 200 in the code
    MaxRows,    \* bound on the rows ever inserted
    MaxDeletes  \* bound on the deletions

Call == [op : {"getOrCreate"}, name : Name, mode : {"EXACT", "LLM"}, rule : BOOLEAN]
    \cup [op : {"get"}, name : Name, mode : {"EXACT", "LLM"}, rule : {FALSE}]
    \cup [op : {"list"}, name : Name, mode : {"EXACT"}, rule : {FALSE}]

Row == [name : Name, id : 1 .. MaxRows]

SdkOK ==
    /\ None \notin Row
    /\ Calls \subseteq Call /\ Calls # {}
    /\ PageSize \in Nat \ {0} /\ MaxRows \in Nat /\ MaxDeletes \in Nat

VARIABLES
    rows,       \* active fields; an update is a new row with the next id
    ids,        \* rows inserted so far
    deletes,
    newest,     \* the last version of each name, deleted ones included
    rules,      \* the last version of each row's merge rule
    events,     \* changelog events the watcher has not seen
    cache,      \* _schema_local_cache
    catalog,    \* _active_schema_catalog
    pc, call,   \* where each thread is, and what it was asked
    got,        \* the row it holds
    acc, offset,    \* the catalog it is reading
    seen,       \* what the request that it makes read before it writes
    refused,    \* the reason of the 409 that its create got
    torn,       \* history: names changed while a thread held an answer on them
    steady      \* history: threads that began from a right cache with no change since

server  == <<rows, ids, deletes, newest, rules, events>>
caches  == <<cache, catalog>>
thread  == <<pc, call, got, acc, offset, seen, refused>>
history == <<torn, steady>>
vars    == <<server, caches, thread, history>>

Empty     == [n \in Name |-> None]
Nothing   == [row |-> None, version |-> 0]
Named(n)  == {r \in rows : r.name = n}
Of(n)     == IF Named(n) = {} THEN None ELSE CHOOSE r \in Named(n) : TRUE
Ended     == {"done", "lost", "failed"}    \* "lost": raised, a race with another caller
InFlight(t) == pc[t] \notin {"idle"} \cup Ended

\* Threads with an answer on n that is not in the cache yet.
Listing    == {t \in Thread : pc[t] \in {"page", "store"}}
Holding(n) ==
    {t \in Thread : got[t] # None /\ got[t].name = n /\ pc[t] \in {"keep", "kept"}}
        \cup {t \in Listing : acc[t][n] # None}

Goto(t, l) == pc' = [pc EXCEPT ![t] = l]

-----------------------------------------------------------------------------
(* The server *)

\* search_by_mode: the field of that name, or in the other modes any active field
\* or none.
Answers(mode, n) == IF mode = "EXACT" THEN {Of(n)} ELSE rows \cup {None}

Changed(n, by) ==
    /\ events' = Append(events, n)
    /\ torn' = IF Holding(n) \ by # {} THEN torn \cup {n} ELSE torn

\* Another client, or the dashboard, creates or updates a field.
Upsert(n) ==
    /\ ids < MaxRows
    /\ rows' = (rows \ Named(n)) \cup {[name |-> n, id |-> ids + 1]}
    /\ ids' = ids + 1 /\ newest' = [newest EXCEPT ![n] = @ + 1]
    /\ Changed(n, {})
    /\ steady' = {}
    /\ UNCHANGED <<deletes, rules, caches, thread>>

Delete(n) ==
    /\ Of(n) # None /\ deletes < MaxDeletes
    /\ rows' = rows \ Named(n)
    /\ deletes' = deletes + 1
    /\ Changed(n, {})
    /\ steady' = {}
    /\ UNCHANGED <<ids, newest, rules, caches, thread>>

\* Mutant of Watch: the catalog stays.
WatchNamed ==
    /\ events # <<>>
    /\ cache' = [cache EXCEPT ![Head(events)] = None]
    /\ events' = Tail(events)
    /\ torn' = IF Holding(Head(events)) = {} THEN torn \ {Head(events)} ELSE torn
    /\ UNCHANGED <<rows, ids, deletes, newest, rules, catalog, thread, steady>>

\* _invalidate_schema_cache in the watcher's thread.
Watch ==
    /\ events # <<>>
    /\ cache' = [cache EXCEPT ![Head(events)] = None]
    /\ catalog' = None
    /\ events' = Tail(events)
    /\ torn' = IF Holding(Head(events)) = {} THEN torn \ {Head(events)} ELSE torn
    /\ UNCHANGED <<rows, ids, deletes, newest, rules, thread, steady>>

-----------------------------------------------------------------------------
(* Schema.get and Schema.list_active_by_name *)

Begin(t, op, n, mode, rule) ==
    /\ pc[t] = "idle"
    /\ call' = [call EXCEPT ![t] = [op |-> op, name |-> n, mode |-> mode, rule |-> rule]]
    /\ Goto(t, IF op # "list" THEN "look" ELSE IF catalog # None THEN "done" ELSE "page")
    /\ steady' = IF /\ cache[n] \in rows \cup {None}
                    /\ \A u \in Thread : InFlight(u) => u \in steady
                 THEN steady \cup {t} ELSE steady
    /\ UNCHANGED <<server, caches, got, acc, offset, seen, refused, torn>>

Found(t) ==
    Goto(t, IF call[t].op = "getOrCreate" /\ call[t].rule THEN "rule" ELSE "done")

\* A hit in the local cache.
Look(t) ==
    /\ pc[t] = "look"
    /\ got' = [got EXCEPT ![t] = cache[call[t].name]]
    /\ IF got'[t] # None THEN Found(t) ELSE Goto(t, "ask")
    /\ UNCHANGED <<server, caches, call, acc, offset, seen, refused, history>>

\* GET /schema/get.
Ask(t) ==
    /\ pc[t] = "ask"
    /\ \E r \in Answers(call[t].mode, call[t].name) : got' = [got EXCEPT ![t] = r]
    /\ Goto(t, "keep")
    /\ UNCHANGED <<server, caches, call, acc, offset, seen, refused, history>>

\* The answer is cached under the name that was asked for.
Keep(t) ==
    /\ pc[t] = "keep"
    /\ IF got[t] # None
       THEN /\ cache' = [cache EXCEPT ![call[t].name] = got[t]]
            /\ Found(t)
       ELSE /\ Goto(t, IF call[t].op = "get" THEN "done" ELSE "page")
            /\ UNCHANGED cache
    /\ UNCHANGED <<server, catalog, call, got, acc, offset, seen, refused, history>>

\* Of the rows of one name the catalog keeps the one with the highest id.
Merged(a, page) ==
    [n \in Name |-> IF \E r \in page : r.name = n /\ (a[n] = None \/ a[n].id < r.id)
                   THEN CHOOSE r \in page : r.name = n ELSE a[n]]

\* GET /schema/list, one page of the rows, last updated first: the offset counts rows
\* of another moment.
Page(t) ==
    /\ pc[t] = "page"
    /\ LET Place(r) == Cardinality({s \in rows : s.id > r.id})
           page == {r \in rows : Place(r) \in offset[t] .. offset[t] + PageSize - 1} IN
       /\ acc' = [acc EXCEPT ![t] = Merged(@, page)]
       /\ IF Cardinality(page) < PageSize
          THEN /\ offset' = [offset EXCEPT ![t] = 0]
               /\ Goto(t, "store")
          ELSE /\ offset' = [offset EXCEPT ![t] = @ + PageSize]
               /\ UNCHANGED pc
    /\ UNCHANGED <<server, caches, call, got, seen, refused, history>>

\* The list becomes the catalog; getOrCreate takes its field from it.
Store(t) ==
    /\ pc[t] = "store"
    /\ LET n == call[t].name IN
       /\ catalog' = acc[t]
       /\ IF call[t].op = "list" THEN Goto(t, "done") /\ UNCHANGED <<cache, got>>
          ELSE /\ got' = [got EXCEPT ![t] = acc[t][n]]
               /\ IF got'[t] # None
                  THEN Found(t) /\ cache' = [cache EXCEPT ![n] = got'[t]]
                  ELSE Goto(t, IF refused[t] = "no" THEN "post" ELSE "failed") /\ UNCHANGED cache
    /\ acc' = [acc EXCEPT ![t] = Empty]
    /\ UNCHANGED <<server, call, offset, seen, refused, history>>

-----------------------------------------------------------------------------
(* Schema.getOrCreate, when neither finds the field *)

\* POST /schema/create: a field that is found, by the caller's mode or by name, is a
\* conflict.
Post(t) ==
    /\ pc[t] = "post"
    /\ LET n == call[t].name IN
       \E r \in Answers(call[t].mode, n) :
        IF r # None \/ Of(n) # None
        THEN /\ refused' = [refused EXCEPT ![t] = "found"]
             /\ Goto(t, "again")
             /\ UNCHANGED seen
        ELSE /\ seen' = [seen EXCEPT ![t] = [row |-> None, version |-> newest[n]]]
             /\ Goto(t, "create")
             /\ UNCHANGED refused
    /\ UNCHANGED <<server, caches, call, got, acc, offset, history>>

\* It has the lock of the name, but still the old view: if there is a newer version,
\* the unique key refuses the row, the server answers 500 and raise_for_status raises.
Create(t) ==
    /\ pc[t] = "create"
    /\ LET n == call[t].name
           new == [name |-> n, id |-> ids + 1] IN
       IF seen[t].version # newest[n]
       THEN Goto(t, "lost") /\ UNCHANGED <<server, got, torn>>
       ELSE /\ ids < MaxRows
            /\ rows' = rows \cup {new} /\ ids' = ids + 1
            /\ newest' = [newest EXCEPT ![n] = @ + 1]
            /\ got' = [got EXCEPT ![t] = new]
            /\ Changed(n, {t})
            /\ Goto(t, "kept")
            /\ UNCHANGED <<deletes, rules>>
    /\ seen' = [seen EXCEPT ![t] = Nothing]
    /\ UNCHANGED <<caches, call, acc, offset, refused, steady>>

\* It waits in vain for the lock, which is a conflict too.
Blocked(t) ==
    /\ pc[t] = "create"
    /\ refused' = [refused EXCEPT ![t] = "blocked"]
    /\ seen' = [seen EXCEPT ![t] = Nothing]
    /\ Goto(t, "again")
    /\ UNCHANGED <<server, caches, call, got, acc, offset, history>>

\* Mutant of Again: the refusal is an error.
AgainRaises(t) ==
    /\ pc[t] = "again"
    /\ Goto(t, "failed")
    /\ UNCHANGED <<server, caches, call, got, acc, offset, seen, refused, history>>

\* Somebody else created it: invalidate_cache(name) and look again.
Again(t) ==
    /\ pc[t] = "again"
    /\ cache' = [cache EXCEPT ![call[t].name] = None]
    /\ catalog' = IF catalog = None THEN None ELSE [catalog EXCEPT ![call[t].name] = None]
    /\ Goto(t, "look")
    /\ UNCHANGED <<server, call, got, acc, offset, seen, refused, history>>

Kept(t) ==
    /\ pc[t] = "kept"
    /\ cache' = [cache EXCEPT ![call[t].name] = got[t]]
    /\ catalog' = IF catalog = None THEN None ELSE [catalog EXCEPT ![call[t].name] = got[t]]
    /\ Found(t)
    /\ UNCHANGED <<server, call, got, acc, offset, seen, refused, history>>

\* ensure_merge_rule: get, then create unless the rule is there.
Rule(t) ==
    /\ pc[t] = "rule"
    /\ LET r == Of(call[t].name) IN
       Goto(t, IF r = None THEN "failed" ELSE IF rules[r.id] > 0 THEN "done" ELSE "newRule")
    /\ UNCHANGED <<server, caches, call, got, acc, offset, seen, refused, history>>

\* POST /schema/merge/create, without a lock: the field and its rules as it sees them.
NewRule(t) ==
    /\ pc[t] = "newRule"
    /\ LET r == Of(call[t].name) IN
       IF r = None THEN Goto(t, "failed") /\ UNCHANGED seen
       ELSE /\ seen' = [seen EXCEPT ![t] = [row |-> r, version |-> rules[r.id]]]
            /\ Goto(t, "addRule")
    /\ UNCHANGED <<server, caches, call, got, acc, offset, refused, history>>

\* Another one may have inserted that version.
AddRule(t) ==
    /\ pc[t] = "addRule"
    /\ LET i == seen[t].row.id IN
       IF seen[t].version # rules[i]
       THEN Goto(t, "lost") /\ UNCHANGED rules
       ELSE Goto(t, "done") /\ rules' = [rules EXCEPT ![i] = @ + 1]
    /\ seen' = [seen EXCEPT ![t] = Nothing]
    /\ UNCHANGED <<rows, ids, deletes, newest, events, caches, call, got, acc, offset,
                    refused, history>>

\* raise_for_status, a timeout.  What a request that timed out still writes is a step
\* of somebody else.
Fail(t) ==
    /\ pc[t] \in {"ask", "page", "post", "create", "rule", "newRule", "addRule"}
    /\ Goto(t, "failed")
    /\ acc' = [acc EXCEPT ![t] = Empty] /\ offset' = [offset EXCEPT ![t] = 0]
    /\ seen' = [seen EXCEPT ![t] = Nothing]
    /\ steady' = steady \ {t}
    /\ UNCHANGED <<server, caches, call, got, refused, torn>>

Init ==
    /\ rows = {} /\ ids = 0 /\ deletes = 0 /\ events = <<>>
    /\ newest = [n \in Name |-> 0] /\ rules = [i \in 1 .. MaxRows |-> 0]
    /\ cache = Empty /\ catalog = None
    /\ pc = [t \in Thread |-> "idle"]
    /\ call \in [Thread -> {CHOOSE c \in Calls : TRUE}]
    /\ got = [t \in Thread |-> None] /\ acc = [t \in Thread |-> Empty]
    /\ offset = [t \in Thread |-> 0]
    /\ seen = [t \in Thread |-> Nothing] /\ refused = [t \in Thread |-> "no"]
    /\ torn = {} /\ steady = {}

Next ==
    \/ \E n \in Name : Upsert(n) \/ Delete(n)
    \/ Watch
    \/ \E t \in Thread :
        \/ \E c \in Calls : Begin(t, c.op, c.name, c.mode, c.rule)
        \/ Look(t) \/ Ask(t) \/ Keep(t) \/ Page(t) \/ Store(t)
        \/ Post(t) \/ Create(t) \/ Blocked(t) \/ Again(t) \/ Kept(t)
        \/ Rule(t) \/ NewRule(t) \/ AddRule(t) \/ Fail(t)

Spec == Init /\ [][Next]_vars

-----------------------------------------------------------------------------
(* Properties *)

\* Every variable stays in its domain.
TypeOK ==
    /\ rows \subseteq Row /\ ids \in 0 .. MaxRows /\ deletes \in 0 .. MaxDeletes
    /\ newest \in [Name -> Nat] /\ rules \in [1 .. MaxRows -> Nat]
    /\ events \in Seq(Name)
    /\ cache \in [Name -> Row \cup {None}]
    /\ catalog \in [Name -> Row \cup {None}] \cup {None}
    /\ pc \in [Thread -> {"idle", "look", "ask", "keep", "page", "store", "post", "create",
                          "again", "kept", "rule", "newRule", "addRule"} \cup Ended]
    /\ call \in [Thread -> Call] /\ got \in [Thread -> Row \cup {None}]
    /\ acc \in [Thread -> [Name -> Row \cup {None}]]
    /\ offset \in [Thread -> Nat]
    /\ seen \in [Thread -> [row : Row \cup {None}, version : Nat]]
    /\ refused \in [Thread -> {"no", "found", "blocked"}]
    /\ torn \subseteq Name /\ steady \subseteq Thread

\* "Background poller: invalidate local schema cache on binlog changes": when the
\* watcher has seen every event, a field cached under its own name is the active one
\* and the catalog lists active fields, whatever the threads are doing, unless the last
\* change of the field fell between a call's read and its caching of the answer.
CacheFollows ==
    events = <<>> =>
        \A n \in Name \ torn :
            /\ cache[n] # None /\ cache[n].name = n => cache[n] \in rows
            /\ catalog # None => catalog[n] \in rows \cup {None}

\* However many threads and processes getOrCreate a field and its merge rule by the
\* field's exact name at once, while nobody else changes it and no request fails for
\* another reason: who returns has the active field.  Who raises either lost a race at a
\* unique key, and then the field, or the rule, that it wanted is there for the next
\* call; or was kept from the lock and found no field yet; or holds the field under
\* another name, while a merge rule is looked for under the name that was asked for.
\* Whoever the server refuses because the field is there gets it.  (In LLM mode a second
\* answer may differ from the one that led to the refusal.)
CallersAgree ==
    \A t \in steady : call[t].op = "getOrCreate" /\ call[t].mode = "EXACT" =>
        LET r == Of(call[t].name) IN
        /\ pc[t] = "done" => got[t] \in rows
        /\ pc[t] = "lost" => r # None /\ (got[t] # None => rules[r.id] > 0)
        /\ pc[t] = "failed" =>
              \/ refused[t] = "blocked"
              \/ call[t].rule /\ got[t] # None /\ got[t].name # call[t].name
=============================================================================
