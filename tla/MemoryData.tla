----------------------------- MODULE MemoryData -----------------------------
(***************************************************************************)
(* The V1 memory data of one user: the rows of the Mongo collection        *)
(* memory_data (services/memory_data.py, services/user_memory_list.py over *)
(* integrations/mongo_store.py) and their vectors in Qdrant, written by    *)
(* the in-process queue of integrations/qdrant_index_queue.py.             *)
(*                                                                         *)
(* A value is abstracted to what it was made of: how many times what each  *)
(* attempt of a write, or each edit, contributed went into it.  Each Mongo *)
(* or Qdrant call is one step.  Writes run in the API process or as a      *)
(* Temporal activity, which is retried, possibly while the attempt that    *)
(* timed out still runs.                                                   *)
(***************************************************************************)
EXTENDS Naturals, Sequences

CONSTANTS
    Doc,            \* document ids: memory fields, with their source
    Vectored,       \* those whose storage_type has VECTOR in it
    Write,          \* create and update requests
    Jobs,           \* what they ask for
    MaxAttempts,    \* RetryPolicy.maximum_attempts
    Edit,           \* item edits
    Delete,         \* deletes of one field
    Wipe,           \* delete-all requests
    QueueMax,       \* maxsize of the index queue
    MaxRestarts     \* bound: restarts of the API process

VARIABLES
    row,        \* memory_data: what is stored under each document id
    vector,     \* the Qdrant point at each document's point id
    orphans,    \* documents with a searchable point of an earlier process
    queue,      \* the index queue
    working,    \* the task the index worker holds, as a sequence of at most one
    restarts,
    job,        \* what each write asks for
    pc,         \* where each actor is
    work,       \* the locals of each attempt: the match method it will use, the
                \* value it will store or has stored, the row it has read
    target,     \* the document of a delete
    raced,      \* history: documents on which two requests overlapped
    adrift,     \* history: documents with a change that never got to the queue
    erased,     \* history: what a document held when it was last deleted
    across      \* history: documents being written at that moment

index   == <<vector, orphans, queue, working>>
locals  == <<job, work, target>>
history == <<raced, adrift, erased, across>>
vars    == <<row, index, restarts, pc, locals, history>>

Attempt == Write \X (1 .. MaxAttempts)
Piece   == Attempt \cup Edit
Actor   == Attempt \cup Delete \cup Wipe \cup Edit
Text    == [Piece -> Nat]

Method == {"OVERWRITE", "APPEND", "MERGE"}

\* data_create, data_create through Temporal, and data_update.
Job   == [doc : Doc, how : Method, by : {"create", "temporal", "update"}]

ASSUME DataConstantsOK ==
    /\ Vectored \subseteq Doc /\ Jobs \subseteq Job
    /\ MaxAttempts \in Nat \ {0} /\ QueueMax \in Nat \ {0} /\ MaxRestarts \in Nat
    /\ Attempt \cap Delete = {} /\ Attempt \cap Wipe = {} /\ Delete \cap Wipe = {}
    /\ Edit \cap (Attempt \cup Delete \cup Wipe) = {}

-----------------------------------------------------------------------------
Nothing == [p \in Piece |-> 0]
Only(p) == [Nothing EXCEPT ![p] = 1]
NoRow   == [life |-> "absent", text |-> Nothing, used |-> FALSE]
NoWork  == [how |-> "none", text |-> Nothing, seen |-> NoRow]
NoPoint == [state |-> "none", text |-> Nothing]

NoJob == [doc |-> "none", how |-> "none", by |-> "none"]

Live(d) == row[d].life = "live"

Finished  == {"done", "crashed"}
InFlight  == {a \in Actor : pc[a] \notin Finished \cup {"idle"}}
DocOf(a)  == job[a[1]].doc
Writing(d)  == {a \in Attempt \cap InFlight : DocOf(a) = d}
Deleting(d) == {x \in Delete \cap InFlight : target[x] = d}
Busy(d)     == Writing(d) \cup Deleting(d) \cup (Wipe \cap InFlight)

Backlog(d) == \E i \in DOMAIN queue : queue[i].doc = d
Holding(d) == \E i \in DOMAIN working : working[i].doc = d

Goto(a, l) == pc' = [pc EXCEPT ![a] = l]

\* Bookkeeping of the properties: a request begins on the documents D.
Begins(D) == raced' = raced \cup {d \in D : Busy(d) # {}}

Erases(D) ==
    /\ erased' = [d \in Doc |-> IF d \in D /\ Live(d)
                                THEN {p \in Piece : row[d].text[p] > 0} ELSE erased[d]]
    /\ across' = {d \in Doc : IF d \in D /\ Live(d) THEN Writing(d) # {} ELSE d \in across}

-----------------------------------------------------------------------------
(* services/memory_data.py: create and update *)

FirstStep(j) ==
    IF j.by # "update" THEN "read" ELSE IF j.how = "MERGE" THEN "updateMerge" ELSE "find"

Starts(a, j) ==
    /\ pc[a] = "idle"
    /\ Goto(a, FirstStep(j))
    /\ work' = [work EXCEPT ![a] = [NoWork EXCEPT !.how = j.how, !.text = Only(a)]]
    /\ Begins({j.doc})
    /\ UNCHANGED <<row, index, restarts, target, adrift, erased, across>>

WriteStart(w, j) ==
    /\ job[w] = NoJob
    /\ job' = [job EXCEPT ![w] = j]
    /\ Starts(<<w, 1>>, j)

\* Temporal runs the activity again when an attempt failed or timed out; one
\* that timed out goes on by itself.
WriteRetry(w, n) ==
    /\ job[w].by = "temporal" /\ n < MaxAttempts
    /\ pc[<<w, n>>] \notin {"idle", "done"}
    /\ UNCHANGED job
    /\ Starts(<<w, n + 1>>, job[w])

\* An unparsable query ends here and writes nothing, like a Crash.
CreateRead(a) ==
    /\ pc[a] = "read"
    /\ Goto(a, IF Live(DocOf(a)) /\ work[a].how = "MERGE" THEN "createMerge" ELSE "find")
    /\ UNCHANGED <<row, index, restarts, locals, history>>

\* The strategy reads the row once more; create goes on to update, which applies
\* the strategy again if the row has gone in between.
MergeRead(a) ==
    /\ pc[a] \in {"createMerge", "updateMerge"}
    /\ work' = [work EXCEPT ![a].seen = row[DocOf(a)]]
    /\ Goto(a, IF Live(DocOf(a)) THEN "fuse"
               ELSE IF pc[a] = "createMerge" THEN "updateMerge" ELSE "find")
    /\ UNCHANGED <<row, index, restarts, job, target, history>>

\* The LLM's fusion is made of the old value and the new one.  Where it comes to
\* nothing, create ends here, like a Crash.
Fuse(a) ==
    /\ pc[a] = "fuse"
    /\ work' = [work EXCEPT ![a] =
                  [how |-> "OVERWRITE", seen |-> NoRow,
                   text |-> [p \in Piece |-> work[a].seen.text[p] + work[a].text[p]]]]
    /\ Goto(a, "find")
    /\ UNCHANGED <<row, index, restarts, job, target, history>>

\* upsert_memory_data, first await: find_one, deleted or not.
UpsertFind(a) ==
    /\ pc[a] = "find"
    /\ work' = [work EXCEPT ![a].seen = row[DocOf(a)]]
    /\ Goto(a, "replace")
    /\ UNCHANGED <<row, index, restarts, job, target, history>>

\* Mutants of Upserted: a deleted row is appended to; the value is replaced
\* whatever the method.
UpsertedOntoDeleted(old, value, method) ==
    [life |-> "live",
     text |-> IF method = "APPEND" THEN [p \in Piece |-> old.text[p] + value[p]]
              ELSE value,
     used |-> old.life = "live" /\ old.used]

UpsertedOver(old, value, method) ==
    [life |-> "live", text |-> value, used |-> old.life = "live" /\ old.used]

\* Mutant of Upserted: the old value is appended to itself.
UpsertedTwice(old, value, method) ==
    [life |-> "live",
     text |-> IF old.life = "live" /\ method = "APPEND"
              THEN [p \in Piece |-> 2 * old.text[p] + value[p]] ELSE value,
     used |-> old.life = "live" /\ old.used]

Upserted(old, value, method) ==
    [life |-> "live",
     text |-> IF old.life = "live" /\ method = "APPEND"
              THEN [p \in Piece |-> old.text[p] + value[p]] ELSE value,
     used |-> old.life = "live" /\ old.used]

\* Mutant of UpsertReplace: what was asked for is indexed, not what was stored.
UpsertReplaceIndexesInput(a) ==
    /\ pc[a] = "replace"
    /\ row' = [row EXCEPT ![DocOf(a)] = Upserted(work[a].seen, work[a].text, work[a].how)]
    /\ Goto(a, "enqueue")
    /\ UNCHANGED <<index, restarts, locals, history>>

\* Second await: replace_one(upsert=True) with a document built from the first.
UpsertReplace(a) ==
    /\ pc[a] = "replace"
    /\ LET new == Upserted(work[a].seen, work[a].text, work[a].how) IN
        /\ row' = [row EXCEPT ![DocOf(a)] = new]
        /\ work' = [work EXCEPT ![a] = [NoWork EXCEPT !.text = new.text]]
    /\ Goto(a, "enqueue")
    /\ UNCHANGED <<index, restarts, job, target, history>>

Task(d, action, value) == [doc |-> d, action |-> action, text |-> value]

\* Mutant of Enqueue: the queue has no limit.
EnqueueUnlimited(d, action, value) ==
    \/ /\ d \notin Vectored
       /\ UNCHANGED <<queue, adrift>>
    \/ /\ d \in Vectored
       /\ queue' = Append(queue, Task(d, action, value))
       /\ UNCHANGED adrift

\* enqueue_vector_index: put_nowait, and a full queue drops the task.
Enqueue(d, action, value) ==
    \/ /\ d \notin Vectored
       /\ UNCHANGED <<queue, adrift>>
    \/ /\ d \in Vectored /\ Len(queue) < QueueMax
       /\ queue' = Append(queue, Task(d, action, value))
       /\ UNCHANGED adrift
    \/ /\ d \in Vectored /\ Len(queue) = QueueMax
       /\ adrift' = adrift \cup {d}
       /\ UNCHANGED queue

\* An update may have stored a fusion that parse_result_is_empty, which create refuses.
FusedEmpty(a) == job[a[1]].how = "MERGE" /\ work[a].text # Only(a)

\* _index_vector_async passes over an empty result, and the Temporal worker never
\* starts the index queue: there it is a no-op.
WriteEnqueue(a) ==
    /\ pc[a] = "enqueue"
    /\ \/ /\ job[a[1]].by # "temporal"
          /\ Enqueue(DocOf(a), "upsert", work[a].text)
       \/ /\ job[a[1]].by = "temporal" \/ FusedEmpty(a)
          /\ adrift' = adrift \cup {DocOf(a)}
          /\ UNCHANGED queue
    /\ Goto(a, "done")
    /\ work' = [work EXCEPT ![a] = NoWork]
    /\ UNCHANGED <<row, vector, orphans, working, restarts, job, target,
                   raced, erased, across>>

-----------------------------------------------------------------------------
(* services/memory_data.py: delete_soft, mark_used, delete_all_for_user *)

Deleted(r) == IF r.life = "live" THEN [r EXCEPT !.life = "deleted"] ELSE r

DeleteRow(x, d) ==
    /\ pc[x] = "idle" /\ Live(d)
    /\ row' = [row EXCEPT ![d] = Deleted(@)]
    /\ target' = [target EXCEPT ![x] = d]
    /\ Goto(x, "enqueue")
    /\ Begins({d}) /\ Erases({d})
    /\ UNCHANGED <<index, restarts, job, work, adrift>>

DeleteEnqueue(x) ==
    /\ pc[x] = "enqueue"
    /\ Enqueue(target[x], "delete", Nothing)
    /\ Goto(x, "done")
    /\ UNCHANGED <<row, vector, orphans, working, restarts, locals,
                   raced, erased, across>>

MarkUsed(D) ==
    /\ \E d \in D : Live(d) /\ ~row[d].used
    /\ row' = [d \in Doc |-> IF d \in D /\ Live(d) THEN [row[d] EXCEPT !.used = TRUE]
                             ELSE row[d]]
    /\ Begins(D)
    /\ UNCHANGED <<index, restarts, pc, locals, adrift, erased, across>>

\* Tasks of earlier writes may still be on their way to Qdrant.
WipeRows(u) ==
    /\ pc[u] = "idle"
    /\ row' = [d \in Doc |-> Deleted(row[d])]
    /\ adrift' = adrift \cup {d \in Doc : Backlog(d) \/ Holding(d)}
    /\ Goto(u, "scan")
    /\ Begins(Doc) /\ Erases(Doc)
    /\ UNCHANGED <<index, restarts, locals>>

Searchable == {d \in Doc : vector[d].state = "hit"} \cup orphans

\* mark_vectors_deleted_for_user scrolls before it writes, and gives up quietly.
WipeScan(u) ==
    /\ pc[u] = "scan"
    /\ \/ Searchable # {} /\ Goto(u, "mark")
       \/ Searchable = {} /\ Goto(u, "done")
    /\ UNCHANGED <<row, index, restarts, locals, history>>

Hidden(v) == [v EXCEPT !.state = IF @ = "hit" THEN "hidden" ELSE @]

WipeMark(u) ==
    /\ pc[u] = "mark"
    /\ vector' = [d \in Doc |-> Hidden(vector[d])]
    /\ orphans' = {}
    /\ Goto(u, "done")
    /\ UNCHANGED <<row, queue, working, restarts, locals, history>>

\* Qdrant fails or its circuit is open: nothing is marked, the request succeeds.
WipeSkip(u) ==
    /\ pc[u] \in {"scan", "mark"}
    /\ adrift' = adrift \cup Searchable
    /\ Goto(u, "done")
    /\ UNCHANGED <<row, index, restarts, locals, raced, erased, across>>

-----------------------------------------------------------------------------
(* services/user_memory_list.py: one Mongo call each, and no index task *)

EditItem(e, d) ==
    /\ pc[e] = "idle" /\ Live(d)
    /\ row' = [row EXCEPT ![d].text = Only(e)]
    /\ Goto(e, "done")
    /\ adrift' = adrift \cup {d}
    /\ Begins({d})
    /\ UNCHANGED <<index, restarts, locals, erased, across>>

RemoveItem(d) ==
    /\ Live(d)
    /\ row' = [row EXCEPT ![d] = Deleted(@)]
    /\ adrift' = adrift \cup {d}
    /\ Begins({d}) /\ Erases({d})
    /\ UNCHANGED <<index, restarts, pc, locals>>

-----------------------------------------------------------------------------
(* integrations/qdrant_index_queue.py: _worker_loop *)

WorkerTake ==
    /\ working = <<>> /\ queue # <<>>
    /\ working' = <<Head(queue)>>
    /\ queue' = Tail(queue)
    /\ UNCHANGED <<row, vector, orphans, restarts, pc, locals, history>>

WorkerApply ==
    /\ working # <<>>
    /\ LET t == working[1] IN
        \/ /\ t.action = "upsert"
           /\ vector' = [vector EXCEPT ![t.doc] = [state |-> "hit", text |-> t.text]]
        \/ /\ t.action = "delete"
           /\ vector' = [vector EXCEPT ![t.doc] = Hidden(@)]
    /\ working' = <<>>
    /\ UNCHANGED <<row, orphans, queue, restarts, pc, locals, history>>

\* A task that Qdrant or the embedding model refuses is logged and forgotten, and
\* so is a delete while the circuit breaker of qdrant_store is open.
WorkerSkip ==
    /\ working # <<>>
    /\ adrift' = adrift \cup {working[1].doc}
    /\ working' = <<>>
    /\ UNCHANGED <<row, vector, orphans, queue, restarts, pc, locals,
                   raced, erased, across>>

-----------------------------------------------------------------------------
InTemporal(a) == a \in Attempt /\ job[a[1]].by = "temporal"

\* The API process starts again: its requests and its queue are gone, and
\* hash() is salted anew, so that it finds none of the points written before.
Restart ==
    /\ restarts < MaxRestarts
    /\ restarts' = restarts + 1
    /\ pc' = [a \in Actor |-> IF a \in InFlight /\ ~InTemporal(a) THEN "crashed" ELSE pc[a]]
    /\ queue' = <<>> /\ working' = <<>>
    /\ orphans' = Searchable
    /\ vector' = [d \in Doc |-> NoPoint]
    /\ work' = [a \in Attempt |-> IF InTemporal(a) THEN work[a] ELSE NoWork]
    /\ adrift' = Doc
    /\ UNCHANGED <<row, job, target, raced, erased, across>>

\* The rest of a request is never run: an exception, a cancelled client, a kill.
Crash(a) ==
    /\ a \in InFlight
    /\ Goto(a, "crashed")
    /\ work' = [b \in Attempt |-> IF b = a THEN NoWork ELSE work[b]]
    /\ adrift' = adrift \cup
                 (IF a \in Wipe THEN Doc
                  ELSE IF pc[a] # "enqueue" THEN {}
                  ELSE IF a \in Delete THEN {target[a]} ELSE {DocOf(a)})
    /\ UNCHANGED <<row, index, restarts, job, target, raced, erased, across>>

Init ==
    /\ row = [d \in Doc |-> NoRow]
    /\ vector = [d \in Doc |-> NoPoint] /\ orphans = {}
    /\ queue = <<>> /\ working = <<>>
    /\ restarts = 0
    /\ job = [w \in Write |-> NoJob]
    /\ pc = [a \in Actor |-> "idle"]
    /\ work = [a \in Attempt |-> NoWork]
    /\ target = [x \in Delete |-> "none"]
    /\ raced = {} /\ adrift = {}
    /\ erased = [d \in Doc |-> {}] /\ across = {}

WriteStep(a) ==
    \/ CreateRead(a) \/ MergeRead(a) \/ Fuse(a)
    \/ UpsertFind(a) \/ UpsertReplace(a) \/ WriteEnqueue(a)

Worker == WorkerTake \/ WorkerApply \/ WorkerSkip

Next ==
    \/ \E w \in Write, j \in Jobs : WriteStart(w, j)
    \/ \E w \in Write, n \in 1 .. MaxAttempts : WriteRetry(w, n)
    \/ \E a \in Attempt : WriteStep(a)
    \/ \E x \in Delete, d \in Doc : DeleteRow(x, d)
    \/ \E x \in Delete : DeleteEnqueue(x)
    \/ \E D \in SUBSET Doc : MarkUsed(D)
    \/ \E u \in Wipe : WipeRows(u) \/ WipeScan(u) \/ WipeMark(u) \/ WipeSkip(u)
    \/ \E e \in Edit, d \in Doc : EditItem(e, d)
    \/ \E d \in Doc : RemoveItem(d)
    \/ Worker
    \/ Restart
    \/ \E a \in Actor : Crash(a)

Spec == Init /\ [][Next]_vars

-----------------------------------------------------------------------------
(* Properties *)

Row   == [life : {"absent", "live", "deleted"}, text : Text, used : BOOLEAN]
Point == [state : {"none", "hit", "hidden"}, text : Text]
Tasks == [doc : Vectored, action : {"upsert", "delete"}, text : Text]

\* Rows, points, tasks and request locals stay in their domains.
TypeOK ==
    /\ row \in [Doc -> Row]
    /\ vector \in [Doc -> Point] /\ orphans \subseteq Doc
    /\ queue \in Seq(Tasks) /\ Len(queue) <= QueueMax
    /\ working \in Seq(Tasks) /\ Len(working) <= 1
    /\ restarts \in Nat
    /\ job \in [Write -> Job \cup {NoJob}]
    /\ pc \in [Actor -> {"idle", "read", "createMerge", "updateMerge", "fuse", "find",
                        "replace", "enqueue", "scan", "mark"} \cup Finished]
    /\ work \in [Attempt -> [how : Method \cup {"none"}, text : Text, seen : Row]]
    /\ target \in [Delete -> Doc \cup {"none"}]
    /\ raced \subseteq Doc /\ adrift \subseteq Doc /\ across \subseteq Doc
    /\ erased \in [Doc -> SUBSET Piece]

\* A replayed or concurrent APPEND or MERGE repeats a payload at most once per
\* attempt: nothing multiplies what an attempt contributed, although writes store
\* whole values made from what they read before.
StoredOnce == \A d \in Doc, p \in Piece : row[d].text[p] <= 1

\* Deleted content comes back only through a write that was under way on the
\* document when it was deleted (or is written anew, by a retry for example).
ErasedStaysErased ==
    \A d \in Doc : Live(d) /\ d \notin across => \A p \in erased[d] : row[d].text[p] = 0

\* On a document that no two requests touched at the same time, an APPEND keeps
\* all that the row held.
AppendLosesNothing ==
    [][\A a \in Attempt :
        /\ pc[a] = "replace" /\ pc'[a] = "enqueue" /\ work[a].how = "APPEND"
        /\ Live(DocOf(a)) /\ DocOf(a) \notin raced
        => \A p \in Piece : row'[DocOf(a)].text[p] >= row[DocOf(a)].text[p]]_vars

\* Nor does a write take the recently-used label from a row it finds alive.
UsedLabelKept ==
    [][\A d \in Doc :
        Live(d) /\ Live(d)' /\ row[d].used /\ d \notin raced' => row'[d].used]_row

\* A write that nothing overlapped keeps what it does not replace.
LoneWriteKeeps == AppendLosesNothing /\ UsedLabelKept

Drained == queue = <<>> /\ working = <<>>

\* "Mongo primary, vector index eventual consistency": when the queue is empty,
\* a document whose requests did not overlap and all reached the queue is found
\* by its current value if it is live, and is not found if it is deleted.
IndexAgrees ==
    Drained =>
        \A d \in Vectored \ (raced \cup adrift) :
            Busy(d) = {} =>
                IF Live(d) THEN vector[d] = [state |-> "hit", text |-> row[d].text]
                ELSE vector[d].state # "hit"

\* What a delete-all deleted is not searchable once the queue has drained.
WipedNotFound ==
    Drained /\ InFlight = {} =>
        \A u \in Wipe, d \in Doc :
            pc[u] = "done" /\ row[d].life = "deleted" => vector[d].state # "hit"
=============================================================================
