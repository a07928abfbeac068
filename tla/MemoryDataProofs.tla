-------------------------- MODULE MemoryDataProofs --------------------------
(***************************************************************************)
(* Proofs about MemoryData for any documents, requests, retries and queue. *)
(***************************************************************************)
EXTENDS MemoryData, SequenceTheorems, TLAPS

Unstored == {"read", "createMerge", "updateMerge", "fuse", "find", "replace"}

\* What nobody has stored yet.
Unborn == {p \in Piece : pc[p] \in Unstored \cup {"idle"}}

(***************************************************************************)
(* The inductive invariant: where each request is and what it holds there; *)
(* a contribution that is not stored yet is nowhere but in its own attempt *)
(* (so that storing it cannot make a second copy); and neither the row nor *)
(* any attempt on a document carries content across its deletion, unless   *)
(* the attempt was under way then.                                         *)
(***************************************************************************)
Places ==
    /\ \A a \in Attempt : pc[a] \in Unstored \cup Finished \cup {"idle", "enqueue"}
    /\ \A e \in Edit : pc[e] \in {"idle", "done"}
    /\ \A x \in Delete : /\ pc[x] \in Finished \cup {"idle", "enqueue"}
                         /\ pc[x] = "enqueue" => target[x] \in Doc
    /\ \A u \in Wipe : pc[u] \in Finished \cup {"idle", "scan", "mark"}
    /\ \A a \in Attempt : pc[a] # "idle" => job[a[1]] \in Job

Held ==
    \A a \in Attempt :
        /\ pc[a] = "fuse" => work[a].seen.life = "live"
        /\ pc[a] \in {"read", "createMerge", "updateMerge", "fuse"} =>
                work[a].text = Only(a)
        /\ pc[a] \in {"find", "replace"} /\ work[a].how = "APPEND" =>
                work[a].text = Only(a)

HeldOnce ==
    \A b \in Attempt, p \in Piece : work[b].text[p] <= 1 /\ work[b].seen.text[p] <= 1

Fresh ==
    \A p \in Unborn :
        /\ \A d \in Doc : row[d].text[p] = 0 /\ p \notin erased[d]
        /\ \A b \in Attempt : /\ work[b].seen.text[p] = 0
                              /\ b # p => work[b].text[p] = 0

NotCarried ==
    \A d \in Doc \ across : \A a \in Writing(d), p \in erased[d] :
        /\ work[a].text[p] = 0
        /\ work[a].seen.life = "live" => work[a].seen.text[p] = 0

Contents == Held /\ HeldOnce /\ StoredOnce /\ Fresh /\ NotCarried /\ ErasedStaysErased

IInv == TypeOK /\ Places /\ Contents

-----------------------------------------------------------------------------
(* The actors and the pieces. *)

LEMMA Kinds ==
    /\ Attempt \subseteq Actor /\ Edit \subseteq Actor
    /\ Delete \subseteq Actor /\ Wipe \subseteq Actor
    /\ Attempt \subseteq Piece /\ Edit \subseteq Piece /\ Piece \subseteq Actor
    /\ Attempt \cap Edit = {} /\ Attempt \cap Delete = {} /\ Attempt \cap Wipe = {}
    /\ Edit \cap Delete = {} /\ Edit \cap Wipe = {} /\ Delete \cap Wipe = {}
BY DataConstantsOK DEF Actor, Piece

LEMMA AttemptParts ==
    /\ \A a \in Attempt : a[1] \in Write
    /\ \A w \in Write, n \in 1 .. MaxAttempts :
            <<w, n>> \in Attempt /\ <<w, n>>[1] = w
BY DEF Attempt

LEMMA Texts ==
    /\ Nothing \in Text
    /\ \A p \in Piece : /\ Only(p) \in Text /\ Only(p)[p] = 1
                        /\ \A q \in Piece : q # p => Only(p)[q] = 0
    /\ \A p \in Piece : Nothing[p] = 0
BY DEF Nothing, Only, Text

LEMMA Sums ==
    ASSUME NEW s \in Text, NEW t \in Text
    PROVE  [p \in Piece |-> s[p] + t[p]] \in Text
BY DEF Text

Locals == [how : Method \cup {"none"}, text : Text, seen : Row]

LEMMA Empties ==
    /\ NoRow \in Row /\ NoPoint \in Point
    /\ NoWork \in Locals
BY Texts DEF NoRow, NoPoint, NoWork, Row, Point, Locals

LEMMA NoJobFact == NoJob \notin Job
BY DEF Job, NoJob

LEMMA UnbornParts ==
    /\ Unborn \subseteq Piece
    /\ \A p \in Piece : pc[p] \in Unstored \cup {"idle"} => p \in Unborn
BY DEF Unborn

LEMMA InitInv == Init => IInv
<1> SUFFICES ASSUME Init PROVE IInv
  OBVIOUS
<1>1. TypeOK
  BY Empties, DataConstantsOK DEF Init, TypeOK, Finished, Job, Locals
<1>2. Places /\ Held
  BY Kinds DEF Init, Places, Held, Unstored
<1>3. \A b \in Attempt, p \in Piece : work[b].text[p] = 0 /\ work[b].seen.text[p] = 0
  BY Texts DEF Init, NoWork, NoRow
<1>4. \A d \in Doc : (\A p \in Piece : row[d].text[p] = 0) /\ erased[d] = {}
  BY Texts DEF Init, NoRow
<1>5. HeldOnce /\ StoredOnce /\ Fresh /\ ErasedStaysErased /\ NotCarried
  BY <1>3, <1>4, UnbornParts
     DEF HeldOnce, StoredOnce, Fresh, ErasedStaysErased, NotCarried
<1>6. QED
  BY <1>1, <1>2, <1>5 DEF IInv, Contents

-----------------------------------------------------------------------------
(* Type correctness. *)

\* What upsert_memory_data stores is a row.
LEMMA UpsertedType ==
    ASSUME NEW old \in Row, NEW value \in Text, NEW method
    PROVE  Upserted(old, value, method) \in Row
<1>1. [p \in Piece |-> old.text[p] + value[p]] \in Text
  BY Sums DEF Row
<1>2. QED
  BY <1>1 DEF Upserted, Row

LEMMA DeletedType == \A r \in Row : Deleted(r) \in Row
BY DEF Deleted, Row

\* The queue after a request's last step.
LEMMA EnqueueType ==
    ASSUME TypeOK, NEW d \in Doc, NEW action \in {"upsert", "delete"}, NEW value \in Text,
           Enqueue(d, action, value)
    PROVE  queue' \in Seq(Tasks) /\ Len(queue') <= QueueMax /\ adrift' \subseteq Doc
<1>1. CASE d \in Vectored /\ Len(queue) < QueueMax
  <2>1. Task(d, action, value) \in Tasks
    BY <1>1 DEF Task, Tasks
  <2> DEFINE t == Task(d, action, value)
  <2>2. queue' = Append(queue, t) /\ UNCHANGED adrift
    BY <1>1 DEF Enqueue
  <2> HIDE DEF t
  <2>3. Append(queue, t) \in Seq(Tasks) /\ Len(Append(queue, t)) = Len(queue) + 1
    BY <2>1 DEF TypeOK, t
  <2>4. QED
    BY <1>1, <2>2, <2>3, DataConstantsOK DEF TypeOK
<1>2. CASE ~(d \in Vectored /\ Len(queue) < QueueMax)
  BY <1>2, DataConstantsOK DEF TypeOK, Enqueue
<1>3. QED
  BY <1>1, <1>2

LEMMA BeginsType ==
    ASSUME TypeOK, NEW D \in SUBSET Doc, Begins(D)
    PROVE  raced' \subseteq Doc
BY DEF Begins, TypeOK

LEMMA ErasesType ==
    ASSUME TypeOK, NEW D \in SUBSET Doc, Erases(D)
    PROVE  erased' \in [Doc -> SUBSET Piece] /\ across' \subseteq Doc
BY DEF Erases, TypeOK

\* A request is in flight on the document of its job.
LEMMA DocOfType ==
    ASSUME Places, NEW a \in Attempt, pc[a] # "idle"
    PROVE  DocOf(a) \in Doc /\ job[a[1]].how \in Method
BY DEF Places, DocOf, Job

Stages == {"idle", "read", "createMerge", "updateMerge", "fuse", "find",
           "replace", "enqueue", "scan", "mark"} \cup Finished

LEMMA StartType ==
    ASSUME TypeOK, NEW a \in Attempt, NEW j \in Job, Starts(a, j)
    PROVE  /\ pc' \in [Actor -> Stages]
           /\ work' \in [Attempt -> Locals]
           /\ raced' \subseteq Doc
<1>1. FirstStep(j) \in Stages
  BY DEF FirstStep, Stages
<1>2. [NoWork EXCEPT !.how = j.how, !.text = Only(a)]
        \in Locals
  BY Empties, Texts, Kinds DEF NoWork, Job, Locals
<1>3. j.doc \in Doc
  BY DEF Job
<1>4. QED
  BY <1>1, <1>2, <1>3, Kinds, BeginsType DEF Starts, Goto, TypeOK, Stages, Locals

LEMMA WriteType ==
    ASSUME TypeOK, Places, NEW a \in Attempt, WriteStep(a)
    PROVE  TypeOK'
<1> USE Kinds, AttemptParts DEF index, locals, history, Goto, Finished, Locals
<1>r. /\ row \in [Doc -> Row]
      /\ work[a] \in Locals
      /\ work[a].text \in Text /\ work[a].seen \in Row
  BY DEF TypeOK
<1>1. CASE CreateRead(a)
  BY <1>1 DEF CreateRead, TypeOK
<1>2. CASE MergeRead(a)
  <2>1. DocOf(a) \in Doc
    BY <1>2, DocOfType DEF MergeRead
  <2>2. row[DocOf(a)] \in Row
    BY <2>1, <1>r
  <2>3. [work[a] EXCEPT !.seen = row[DocOf(a)]] \in Locals
    BY <1>r, <2>2
  <2>4. work' \in [Attempt -> Locals]
    BY <1>2, <2>3 DEF MergeRead, TypeOK
  <2>5. QED
    BY <1>2, <2>4 DEF MergeRead, TypeOK
<1>3. CASE Fuse(a)
  <2>1. [p \in Piece |-> work[a].seen.text[p] + work[a].text[p]] \in Text
    BY <1>r, Sums DEF Row
  <2>2. [how |-> "OVERWRITE", seen |-> NoRow,
         text |-> [p \in Piece |-> work[a].seen.text[p] + work[a].text[p]]]
            \in Locals
    BY <2>1, Empties DEF Method, Locals
  <2>3. work' \in [Attempt -> Locals]
    BY <1>3, <2>2 DEF Fuse, TypeOK
  <2>4. QED
    BY <1>3, <2>3 DEF Fuse, TypeOK
<1>4. CASE UpsertFind(a)
  <2>1. DocOf(a) \in Doc
    BY <1>4, DocOfType DEF UpsertFind
  <2>2. [work[a] EXCEPT !.seen = row[DocOf(a)]] \in Locals
    BY <2>1, <1>r
  <2>3. work' \in [Attempt -> Locals]
    BY <1>4, <2>2 DEF UpsertFind, TypeOK
  <2>4. QED
    BY <1>4, <2>3 DEF UpsertFind, TypeOK
<1>5. CASE UpsertReplace(a)
  <2>1. DocOf(a) \in Doc
    BY <1>5, DocOfType DEF UpsertReplace
  <2> DEFINE new == Upserted(work[a].seen, work[a].text, work[a].how)
  <2>2. new \in Row /\ new.text \in Text
    BY <1>r, UpsertedType DEF Row
  <2>3. [NoWork EXCEPT !.text = new.text]
            \in Locals
    BY <2>2, Empties DEF NoWork, Locals
  <2>4. row' = [row EXCEPT ![DocOf(a)] = new]
        /\ work' = [work EXCEPT ![a] = [NoWork EXCEPT !.text = new.text]]
    BY <1>5 DEF UpsertReplace
  <2> HIDE DEF new
  <2>5. row' \in [Doc -> Row]
        /\ work' \in [Attempt -> Locals]
    BY <2>1, <2>2, <2>3, <2>4 DEF TypeOK
  <2>6. QED
    BY <1>5, <2>5 DEF UpsertReplace, TypeOK
<1>6. CASE WriteEnqueue(a)
  <2>1. DocOf(a) \in Doc
    BY <1>6, DocOfType DEF WriteEnqueue
  <2>2. queue' \in Seq(Tasks) /\ Len(queue') <= QueueMax /\ adrift' \subseteq Doc
    <3>1. CASE Enqueue(DocOf(a), "upsert", work[a].text)
      BY <2>1, <3>1, <1>r, EnqueueType
    <3>2. CASE adrift' = adrift \cup {DocOf(a)} /\ UNCHANGED queue
      BY <2>1, <3>2 DEF TypeOK
    <3>3. QED
      BY <1>6, <3>1, <3>2 DEF WriteEnqueue
  <2>3. QED
    BY <1>6, <2>2, Empties DEF WriteEnqueue, TypeOK
<1>7. QED
  BY <1>1, <1>2, <1>3, <1>4, <1>5, <1>6 DEF WriteStep

\* The worker, and the marking of a user's vectors.
LEMMA IndexType ==
    ASSUME TypeOK,
           Worker \/ \E u \in Wipe : WipeScan(u) \/ WipeMark(u) \/ WipeSkip(u)
    PROVE  TypeOK'
<1> USE Kinds DEF index, locals, history, Goto, Finished
<1>1. CASE WorkerTake
  <2>1. /\ Head(queue) \in Tasks /\ Tail(queue) \in Seq(Tasks)
        /\ Len(Tail(queue)) = Len(queue) - 1 /\ Len(queue) \in Nat
    BY <1>1 DEF WorkerTake, TypeOK
  <2>2. <<Head(queue)>> \in Seq(Tasks) /\ Len(<<Head(queue)>>) = 1
    BY <2>1
  <2>3. QED
    BY <1>1, <2>1, <2>2, DataConstantsOK DEF WorkerTake, TypeOK
<1>2. CASE WorkerApply
  <2>1. working[1] \in Tasks
    BY <1>2 DEF WorkerApply, TypeOK
  <2>2. /\ working[1].doc \in Doc
        /\ [state |-> "hit", text |-> working[1].text] \in Point
        /\ Hidden(vector[working[1].doc]) \in Point
    BY <2>1, DataConstantsOK DEF Tasks, Point, Hidden, TypeOK
  <2>3. vector' \in [Doc -> Point]
    BY <1>2, <2>2 DEF WorkerApply, TypeOK
  <2>4. <<>> \in Seq(Tasks) /\ Len(<<>>) = 0
    OBVIOUS
  <2>5. QED
    BY <1>2, <2>3, <2>4 DEF WorkerApply, TypeOK
<1>3. CASE WorkerSkip
  <2>0. working[1] \in Tasks
    BY <1>3 DEF WorkerSkip, TypeOK
  <2>1. working[1].doc \in Doc
    BY <2>0, DataConstantsOK DEF Tasks
  <2>2. <<>> \in Seq(Tasks) /\ Len(<<>>) = 0
    OBVIOUS
  <2>3. QED
    BY <1>3, <2>1, <2>2 DEF WorkerSkip, TypeOK
<1>4. ASSUME NEW u \in Wipe, WipeScan(u) PROVE TypeOK'
  BY <1>4 DEF WipeScan, TypeOK
<1>5. ASSUME NEW u \in Wipe, WipeMark(u) PROVE TypeOK'
  <2>1. \A d \in Doc : Hidden(vector[d]) \in Point
    BY DEF Hidden, Point, TypeOK
  <2>2. QED
    BY <1>5, <2>1 DEF WipeMark, TypeOK
<1>6. ASSUME NEW u \in Wipe, WipeSkip(u) PROVE TypeOK'
  BY <1>6 DEF WipeSkip, TypeOK, Searchable
<1>7. QED
  BY <1>1, <1>2, <1>3, <1>4, <1>5, <1>6 DEF Worker

\* Deletes, labels and edits.
LEMMA RowType ==
    ASSUME TypeOK, Places,
           \/ \E x \in Delete, d \in Doc : DeleteRow(x, d)
           \/ \E x \in Delete : DeleteEnqueue(x)
           \/ \E D \in SUBSET Doc : MarkUsed(D)
           \/ \E u \in Wipe : WipeRows(u)
           \/ \E e \in Edit, d \in Doc : EditItem(e, d)
           \/ \E d \in Doc : RemoveItem(d)
    PROVE  TypeOK'
<1> USE Kinds DEF index, locals, history, Goto, Finished
<1>r. row \in [Doc -> Row] /\ \A d \in Doc : row[d] \in Row /\ Deleted(row[d]) \in Row
  BY DeletedType DEF TypeOK
<1>1. ASSUME NEW x \in Delete, NEW d \in Doc, DeleteRow(x, d) PROVE TypeOK'
  <2>1. raced' \subseteq Doc /\ erased' \in [Doc -> SUBSET Piece] /\ across' \subseteq Doc
    BY <1>1, BeginsType, ErasesType DEF DeleteRow
  <2>2. row' \in [Doc -> Row]
    BY <1>1, <1>r DEF DeleteRow
  <2>3. QED
    BY <1>1, <2>1, <2>2 DEF DeleteRow, TypeOK
<1>2. ASSUME NEW x \in Delete, DeleteEnqueue(x) PROVE TypeOK'
  <2>1. target[x] \in Doc
    BY <1>2 DEF DeleteEnqueue, Places
  <2>2. queue' \in Seq(Tasks) /\ Len(queue') <= QueueMax /\ adrift' \subseteq Doc
    BY <1>2, <2>1, EnqueueType, Texts DEF DeleteEnqueue
  <2>3. QED
    BY <1>2, <2>2 DEF DeleteEnqueue, TypeOK
<1>3. ASSUME NEW D \in SUBSET Doc, MarkUsed(D) PROVE TypeOK'
  <2>1. \A d \in Doc : [row[d] EXCEPT !.used = TRUE] \in Row
    BY <1>r DEF Row
  <2>2. row' \in [Doc -> Row]
    BY <1>3, <1>r, <2>1 DEF MarkUsed
  <2>3. raced' \subseteq Doc
    BY <1>3, BeginsType DEF MarkUsed
  <2>4. QED
    BY <1>3, <2>2, <2>3 DEF MarkUsed, TypeOK
<1>4. ASSUME NEW u \in Wipe, WipeRows(u) PROVE TypeOK'
  <2>1. raced' \subseteq Doc /\ erased' \in [Doc -> SUBSET Piece] /\ across' \subseteq Doc
    BY <1>4, BeginsType, ErasesType DEF WipeRows
  <2>2. row' \in [Doc -> Row]
    BY <1>4, <1>r DEF WipeRows
  <2>3. adrift' \subseteq Doc
    BY <1>4 DEF WipeRows, TypeOK
  <2>4. QED
    BY <1>4, <2>1, <2>2, <2>3 DEF WipeRows, TypeOK
<1>5. ASSUME NEW e \in Edit, NEW d \in Doc, EditItem(e, d) PROVE TypeOK'
  <2>1. Only(e) \in Text /\ raced' \subseteq Doc
    BY <1>5, Texts, BeginsType DEF EditItem
  <2>2. [row[d] EXCEPT !.text = Only(e)] \in Row
    BY <1>r, <2>1 DEF Row
  <2>3. row' \in [Doc -> Row]
    BY <1>5, <1>r, <2>2 DEF EditItem
  <2>4. QED
    BY <1>5, <2>1, <2>3 DEF EditItem, TypeOK
<1>6. ASSUME NEW d \in Doc, RemoveItem(d) PROVE TypeOK'
  <2>1. raced' \subseteq Doc /\ erased' \in [Doc -> SUBSET Piece] /\ across' \subseteq Doc
    BY <1>6, BeginsType, ErasesType DEF RemoveItem
  <2>2. row' \in [Doc -> Row]
    BY <1>6, <1>r DEF RemoveItem
  <2>3. QED
    BY <1>6, <2>1, <2>2 DEF RemoveItem, TypeOK
<1>7. QED
  BY <1>1, <1>2, <1>3, <1>4, <1>5, <1>6

LEMMA TypeStep == TypeOK /\ Places /\ [Next]_vars => TypeOK'
<1> SUFFICES ASSUME TypeOK, Places, [Next]_vars PROVE TypeOK'
  OBVIOUS
<1> USE Kinds, AttemptParts DEF index, locals, history, Goto, Finished
<1>1. ASSUME NEW w \in Write, NEW j \in Jobs, WriteStart(w, j) PROVE TypeOK'
  <2>1. /\ j \in Job /\ <<w, 1>> \in Attempt /\ Starts(<<w, 1>>, j)
        /\ job' = [job EXCEPT ![w] = j]
    BY <1>1, DataConstantsOK DEF WriteStart
  <2>2. /\ pc' \in [Actor -> Stages] /\ work' \in [Attempt -> Locals]
        /\ raced' \subseteq Doc
    BY <2>1, StartType
  <2>3. QED
    BY <2>1, <2>2 DEF Starts, TypeOK, Stages, Locals
<1>2. ASSUME NEW w \in Write, NEW n \in 1 .. MaxAttempts, WriteRetry(w, n) PROVE TypeOK'
  <2>1. /\ <<w, n>> \in Attempt /\ <<w, n + 1>> \in Attempt
        /\ Starts(<<w, n + 1>>, job[w]) /\ UNCHANGED job
    BY <1>2, DataConstantsOK DEF WriteRetry
  <2>2. job[w] \in Job
    BY <1>2, <2>1 DEF WriteRetry, TypeOK, NoJob
  <2>3. /\ pc' \in [Actor -> Stages] /\ work' \in [Attempt -> Locals]
        /\ raced' \subseteq Doc
    BY <2>1, <2>2, StartType
  <2>4. QED
    BY <2>1, <2>3 DEF Starts, TypeOK, Stages, Locals
<1>3. ASSUME NEW a \in Attempt, WriteStep(a) PROVE TypeOK'
  BY <1>3, WriteType
<1>4. CASE \/ \E x \in Delete, d \in Doc : DeleteRow(x, d)
           \/ \E x \in Delete : DeleteEnqueue(x)
           \/ \E D \in SUBSET Doc : MarkUsed(D)
           \/ \E u \in Wipe : WipeRows(u)
           \/ \E e \in Edit, d \in Doc : EditItem(e, d)
           \/ \E d \in Doc : RemoveItem(d)
  BY <1>4, RowType
<1>5. CASE Worker \/ \E u \in Wipe : WipeScan(u) \/ WipeMark(u) \/ WipeSkip(u)
  BY <1>5, IndexType
<1>6. CASE Restart
  <2>1. \A d \in Doc : NoPoint \in Point
    BY Empties
  <2>2. Searchable \subseteq Doc
    BY DEF Searchable, TypeOK
  <2>3. <<>> \in Seq(Tasks) /\ Len(<<>>) = 0
    OBVIOUS
  <2>4. work' \in [Attempt -> Locals]
    BY <1>6, Empties DEF Restart, TypeOK, Locals
  <2>5. pc' \in [Actor -> Stages]
    BY <1>6 DEF Restart, TypeOK, Stages
  <2>6. QED
    BY <1>6, <2>1, <2>2, <2>3, <2>4, <2>5, DataConstantsOK
       DEF Restart, TypeOK, Stages, Locals
<1>7. ASSUME NEW a \in Actor, Crash(a) PROVE TypeOK'
  <2>1. work' \in [Attempt -> Locals]
    BY <1>7, Empties DEF Crash, TypeOK, Locals
  <2>2. pc' \in [Actor -> Stages]
    BY <1>7 DEF Crash, TypeOK, Stages
  <2>3. adrift' \subseteq Doc
    <3>1. a \in Wipe \/ pc[a] # "enqueue" \/ a \in Delete \/ a \in Attempt
      BY DEF Actor, Places
    <3>2. a \in Attempt => DocOf(a) \in Doc
      BY <1>7, DocOfType DEF Crash, InFlight
    <3>3. a \in Delete /\ pc[a] = "enqueue" => target[a] \in Doc
      BY DEF Places
    <3>4. QED
      BY <1>7, <3>1, <3>2, <3>3 DEF Crash, TypeOK
  <2>4. QED
    BY <1>7, <2>1, <2>2, <2>3 DEF Crash, TypeOK, Stages, Locals
<1>8. CASE UNCHANGED vars
  BY <1>8 DEF vars, TypeOK
<1>9. QED
  BY <1>1, <1>2, <1>3, <1>4, <1>5, <1>6, <1>7, <1>8 DEF Next

-----------------------------------------------------------------------------
(* Where the requests are. *)

LEMMA StartPlaces ==
    ASSUME TypeOK, Places, NEW a \in Attempt, NEW j \in Job, Starts(a, j),
           job' = [job EXCEPT ![a[1]] = j]
    PROVE  Places'
<1>1. FirstStep(j) \in Unstored
  BY DEF FirstStep, Unstored
<1>2. /\ pc' = [pc EXCEPT ![a] = FirstStep(j)] /\ UNCHANGED target
  BY DEF Starts, Goto
<1>3. \A b \in Attempt : pc'[b] \in Unstored \cup Finished \cup {"idle", "enqueue"}
  BY <1>1, <1>2, Kinds DEF Places, TypeOK
<1>4. \A b \in Attempt : pc'[b] # "idle" => job'[b[1]] \in Job
  BY <1>2, Kinds, AttemptParts DEF Places, TypeOK
<1>5. QED
  BY <1>2, <1>3, <1>4, Kinds DEF Places, TypeOK

LEMMA PlacesStep == TypeOK /\ Places /\ [Next]_vars => Places'
<1> SUFFICES ASSUME TypeOK, Places, [Next]_vars PROVE Places'
  OBVIOUS
<1> USE Kinds, AttemptParts DEF index, locals, history, Goto, Finished, Unstored
<1>1. ASSUME NEW w \in Write, NEW j \in Jobs, WriteStart(w, j) PROVE Places'
  <2>1. /\ j \in Job /\ <<w, 1>> \in Attempt /\ Starts(<<w, 1>>, j)
        /\ job' = [job EXCEPT ![w] = j]
    BY <1>1, DataConstantsOK DEF WriteStart
  <2>2. QED
    BY <2>1, StartPlaces
<1>2. ASSUME NEW w \in Write, NEW n \in 1 .. MaxAttempts, WriteRetry(w, n) PROVE Places'
  <2>1. /\ <<w, n>> \in Attempt /\ <<w, n + 1>> \in Attempt
        /\ Starts(<<w, n + 1>>, job[w]) /\ UNCHANGED job
    BY <1>2, DataConstantsOK DEF WriteRetry
  <2>2. job[w] \in Job
    BY <1>2, <2>1 DEF WriteRetry, TypeOK, NoJob
  <2>3. job' = [job EXCEPT ![w] = job[w]]
    BY <2>1 DEF TypeOK
  <2>4. QED
    BY <2>1, <2>2, <2>3, StartPlaces
<1>3. ASSUME NEW a \in Attempt, WriteStep(a) PROVE Places'
  <2>1. PICK l \in {"createMerge", "updateMerge", "fuse", "find", "replace", "enqueue",
                    "done"} : Goto(a, l) /\ UNCHANGED <<job, target>>
    BY <1>3 DEF WriteStep, CreateRead, MergeRead, Fuse, UpsertFind, UpsertReplace,
                WriteEnqueue
  <2>2. pc[a] # "idle"
    BY <1>3 DEF WriteStep, CreateRead, MergeRead, Fuse, UpsertFind, UpsertReplace,
                WriteEnqueue
  <2>3. QED
    BY <2>1, <2>2 DEF Places, TypeOK
<1>4. ASSUME NEW x \in Delete, NEW d \in Doc, DeleteRow(x, d) PROVE Places'
  <2>1. /\ pc' = [pc EXCEPT ![x] = "enqueue"] /\ UNCHANGED job
        /\ target' = [target EXCEPT ![x] = d]
    BY <1>4 DEF DeleteRow
  <2>2. QED
    BY <2>1 DEF Places, TypeOK
<1>5. ASSUME NEW x \in Delete, DeleteEnqueue(x) PROVE Places'
  <2>1. pc' = [pc EXCEPT ![x] = "done"] /\ UNCHANGED <<job, target>>
    BY <1>5 DEF DeleteEnqueue
  <2>2. QED
    BY <2>1 DEF Places, TypeOK
<1>6. ASSUME NEW u \in Wipe, WipeRows(u) \/ WipeScan(u) \/ WipeMark(u) \/ WipeSkip(u)
      PROVE  Places'
  <2>1. PICK l \in {"scan", "mark", "done"} :
            pc' = [pc EXCEPT ![u] = l] /\ UNCHANGED <<job, target>>
    BY <1>6 DEF WipeRows, WipeScan, WipeMark, WipeSkip
  <2>2. QED
    BY <2>1 DEF Places, TypeOK
<1>7. ASSUME NEW e \in Edit, NEW d \in Doc, EditItem(e, d) PROVE Places'
  <2>1. pc' = [pc EXCEPT ![e] = "done"] /\ UNCHANGED <<job, target>>
    BY <1>7 DEF EditItem
  <2>2. QED
    BY <2>1 DEF Places, TypeOK
<1>8. CASE \/ Worker \/ UNCHANGED vars
           \/ \E d \in Doc : RemoveItem(d)
           \/ \E D \in SUBSET Doc : MarkUsed(D)
  <2>1. UNCHANGED <<pc, job, target>>
    BY <1>8 DEF Worker, WorkerTake, WorkerApply, WorkerSkip, RemoveItem, MarkUsed, vars
  <2>2. QED
    BY <2>1 DEF Places
<1>9. CASE Restart
  <2>1. UNCHANGED <<job, target>>
        /\ \A a \in Actor : pc'[a] = pc[a] \/ (a \in InFlight /\ pc'[a] = "crashed")
    BY <1>9 DEF Restart
  <2>2. QED
    BY <2>1 DEF Places, InFlight
<1>10. ASSUME NEW a \in Actor, Crash(a) PROVE Places'
  <2>1. UNCHANGED <<job, target>> /\ a \in InFlight
        /\ \A b \in Actor : pc'[b] = pc[b] \/ (b \in InFlight /\ pc'[b] = "crashed")
    BY <1>10 DEF Crash, TypeOK
  <2>2. QED
    BY <2>1 DEF Places, InFlight
<1>11. QED
  BY <1>1, <1>2, <1>3, <1>4, <1>5, <1>6, <1>7, <1>8, <1>9, <1>10 DEF Next, Worker

-----------------------------------------------------------------------------
(* What the rows and the requests hold. *)

LEMMA WritingFact ==
    \A d, a : a \in Writing(d) <=>
        a \in Attempt /\ pc[a] \notin Finished \cup {"idle"} /\ DocOf(a) = d
BY Kinds DEF Writing, InFlight

\* The numbers behind the texts.
LEMMA Counts ==
    ASSUME TypeOK
    PROVE  /\ \A d \in Doc : row[d] \in Row /\ \A p \in Piece : row[d].text[p] \in Nat
           /\ \A a \in Attempt, p \in Piece :
                    work[a].text[p] \in Nat /\ work[a].seen.text[p] \in Nat
BY DEF TypeOK, Row, Text

\* A step after which the requests hold no more than before.
LEMMA LessHeld ==
    ASSUME IInv, UNCHANGED <<row, job, erased, across>>, Held',
           \A p \in Piece : pc'[p] \in Unstored \cup {"idle"} => pc[p] \in Unstored \cup {"idle"},
           \A a \in Attempt : pc'[a] \notin Finished \cup {"idle"} =>
                                    pc[a] \notin Finished \cup {"idle"},
           \A a \in Attempt : work'[a] = work[a] \/ work'[a] = NoWork
    PROVE  Contents'
<1> USE DEF IInv, Contents
<1>1. Unborn' \subseteq Unborn
  BY DEF Unborn
<1>2. \A p \in Piece : NoWork.text[p] = 0 /\ NoWork.seen.text[p] = 0
  BY Texts DEF NoWork, NoRow
<1>3. HeldOnce'
  BY <1>2 DEF HeldOnce
<1>4. Fresh'
  BY <1>1, <1>2, UnbornParts DEF Fresh
<1>5. \A d \in Doc : Writing(d)' \subseteq Writing(d)
  BY Kinds DEF Writing, InFlight, DocOf
<1>6. \A d \in Doc : erased[d] \subseteq Piece
  BY DEF TypeOK
<1>7. NotCarried'
  <2> SUFFICES ASSUME NEW d \in Doc \ across, NEW a \in Writing(d), NEW p \in erased[d]
      PROVE  /\ work'[a].text[p] = 0
             /\ work'[a].seen.life = "live" => work'[a].seen.text[p] = 0
    BY <1>5 DEF NotCarried
  <2>1. /\ work[a].text[p] = 0 /\ a \in Attempt /\ p \in Piece
        /\ work[a].seen.life = "live" => work[a].seen.text[p] = 0
    BY <1>6, WritingFact DEF NotCarried
  <2>2. QED
    BY <1>2, <2>1
<1>8. StoredOnce' /\ ErasedStaysErased'
  BY DEF StoredOnce, ErasedStaysErased, Live
<1>9. QED
  BY <1>3, <1>4, <1>7, <1>8

\* A step in which one attempt, which has stored nothing yet, works on.
LEMMA OneWorks ==
    ASSUME IInv, UNCHANGED <<row, job, erased, across>>,
           NEW a \in Attempt, NEW w \in Locals, NEW l \in Unstored,
           pc[a] \in Unstored, pc' = [pc EXCEPT ![a] = l],
           work' = [work EXCEPT ![a] = w],
           \A p \in Piece : w.text[p] <= 1 /\ w.seen.text[p] <= 1,
           \A p \in Unborn : w.seen.text[p] = 0 /\ (p # a => w.text[p] = 0),
           DocOf(a) \notin across =>
                \A p \in erased[DocOf(a)] :
                    w.text[p] = 0 /\ (w.seen.life = "live" => w.seen.text[p] = 0),
           l = "fuse" => w.seen.life = "live",
           l \in {"read", "createMerge", "updateMerge", "fuse"} => w.text = Only(a),
           l \in {"find", "replace"} /\ w.how = "APPEND" => w.text = Only(a)
    PROVE  Contents'
<1> USE DEF IInv, Contents
<1>1. /\ work'[a] = w /\ pc'[a] = l
      /\ \A b \in Attempt : b # a => work'[b] = work[b] /\ pc'[b] = pc[b]
      /\ \A p \in Piece : p # a => pc'[p] = pc[p]
  BY Kinds DEF TypeOK
<1>2. Unborn' = Unborn
  BY <1>1, Kinds DEF Unborn
<1>3. HeldOnce'
  BY <1>1 DEF HeldOnce
<1>4. Fresh'
  BY <1>1, <1>2 DEF Fresh
<1>5. Held'
  BY <1>1 DEF Held
<1>6. \A d \in Doc : Writing(d)' = Writing(d)
  <2>1. \A b \in Attempt : pc[b] \in Finished \cup {"idle"} <=>
                           pc'[b] \in Finished \cup {"idle"}
    BY <1>1 DEF Unstored, Finished
  <2>2. QED
    BY <2>1, Kinds DEF Writing, InFlight, DocOf
<1>7. NotCarried'
  <2> SUFFICES ASSUME NEW d \in Doc \ across, NEW b \in Writing(d), NEW p \in erased[d]
      PROVE  /\ work'[b].text[p] = 0
             /\ work'[b].seen.life = "live" => work'[b].seen.text[p] = 0
    BY <1>6 DEF NotCarried
  <2>1. /\ work[b].text[p] = 0 /\ b \in Attempt /\ DocOf(b) = d
        /\ work[b].seen.life = "live" => work[b].seen.text[p] = 0
    BY WritingFact DEF NotCarried
  <2>2. QED
    BY <1>1, <2>1
<1>8. StoredOnce' /\ ErasedStaysErased'
  BY DEF StoredOnce, ErasedStaysErased, Live
<1>9. QED
  BY <1>3, <1>4, <1>5, <1>7, <1>8

\* A step that deletes rows.
LEMMA RowsDeleted ==
    ASSUME IInv, NEW D \in SUBSET Doc, Erases(D), UNCHANGED <<job, work>>,
           row' = [d \in Doc |-> IF d \in D THEN Deleted(row[d]) ELSE row[d]],
           \A p \in Piece : pc'[p] = pc[p]
    PROVE  Contents'
<1> USE DEF IInv, Contents
<1>1. /\ \A d \in Doc : /\ row'[d].text = row[d].text
                        /\ d \in D => row'[d].life # "live"
                        /\ d \notin D => row'[d] = row[d]
  BY Counts DEF Deleted, Row
<1>2. Unborn' = Unborn
  BY DEF Unborn
<1>3. \A d \in Doc : Writing(d)' = Writing(d)
  BY Kinds DEF Writing, InFlight, DocOf
<1>4. \A d \in Doc : d \in D /\ Live(d) =>
            /\ erased'[d] = {p \in Piece : row[d].text[p] > 0}
            /\ d \notin across' => Writing(d) = {}
  BY DEF Erases
<1>5. \A d \in Doc : ~(d \in D /\ Live(d)) =>
            erased'[d] = erased[d] /\ (d \in across' <=> d \in across)
  BY DEF Erases
<1>6. Held'
  BY Kinds DEF Held
<1>7. HeldOnce'
  BY DEF HeldOnce
<1>8. StoredOnce'
  BY <1>1 DEF StoredOnce
<1>9. Fresh'
  <2>1. \A p \in Unborn, d \in Doc : p \notin erased'[d]
    BY <1>4, <1>5, UnbornParts DEF Fresh
  <2>2. QED
    BY <1>1, <1>2, <2>1 DEF Fresh
<1>10. NotCarried'
  <2> SUFFICES ASSUME NEW d \in Doc, d \notin across', NEW a \in Writing(d),
                      NEW p \in erased'[d]
      PROVE  /\ work[a].text[p] = 0
             /\ work[a].seen.life = "live" => work[a].seen.text[p] = 0
    BY <1>3 DEF NotCarried
  <2>1. ~(d \in D /\ Live(d))
    BY <1>4
  <2>2. QED
    BY <1>5, <2>1 DEF NotCarried
<1>11. ErasedStaysErased'
  BY <1>1, <1>5 DEF ErasedStaysErased, Live
<1>12. QED
  BY <1>6, <1>7, <1>8, <1>9, <1>10, <1>11

\* A step in which an attempt begins.
LEMMA AttemptBegins ==
    ASSUME IInv, NEW a \in Attempt, NEW j \in Job, Starts(a, j),
           job' = [job EXCEPT ![a[1]] = j],
           job[a[1]] \in {j, NoJob}
    PROVE  Contents'
<1> USE DEF IInv, Contents
<1> DEFINE w == [NoWork EXCEPT !.how = j.how, !.text = Only(a)]
<1>1. w.text = Only(a) /\ w.seen = NoRow
  BY DEF NoWork
<1>2. /\ pc[a] = "idle" /\ pc' = [pc EXCEPT ![a] = FirstStep(j)]
      /\ work' = [work EXCEPT ![a] = w]
      /\ UNCHANGED <<row, erased, across>>
  BY DEF Starts, Goto
<1> HIDE DEF w
<1>3. FirstStep(j) \in {"read", "updateMerge", "find"}
  BY DEF FirstStep
<1>4. /\ work'[a] = w /\ pc'[a] = FirstStep(j)
      /\ \A b \in Attempt : b # a => work'[b] = work[b] /\ pc'[b] = pc[b]
      /\ \A p \in Piece : p # a => pc'[p] = pc[p]
  BY <1>2, Kinds DEF TypeOK
<1>5. Unborn' = Unborn /\ a \in Unborn
  BY <1>2, <1>3, <1>4, Kinds DEF Unborn, Unstored
<1>6. \A p \in Piece : NoRow.text[p] = 0 /\ (p # a => Only(a)[p] = 0) /\ Only(a)[p] <= 1
  BY Texts, Kinds DEF NoRow
<1>7. HeldOnce'
  BY <1>1, <1>4, <1>6 DEF HeldOnce
<1>8. Fresh'
  BY <1>1, <1>2, <1>4, <1>5, <1>6, UnbornParts DEF Fresh
<1>9. Held'
  BY <1>1, <1>3, <1>4 DEF Held
<1>10. \A d \in Doc : \A b \in Writing(d)' : b = a \/ b \in Writing(d)
  <2> SUFFICES ASSUME NEW d \in Doc, NEW b \in Attempt, b # a,
                      b \in InFlight', DocOf(b)' = d
      PROVE  b \in Writing(d)
    BY DEF Writing
  <2>1. b \in InFlight
    BY <1>4 DEF InFlight
  <2>2. job[b[1]] # NoJob
    BY <2>1, NoJobFact DEF InFlight, Places
  <2>3. job'[b[1]] = job[b[1]]
    BY <2>2, AttemptParts DEF TypeOK
  <2>4. QED
    BY <2>1, <2>3 DEF Writing, DocOf
<1>11. NotCarried'
  <2> SUFFICES ASSUME NEW d \in Doc \ across, NEW b \in Writing(d)', NEW p \in erased[d]
      PROVE  /\ work'[b].text[p] = 0
             /\ work'[b].seen.life = "live" => work'[b].seen.text[p] = 0
    BY <1>2 DEF NotCarried
  <2>0. p \in Piece /\ p # a
    BY <1>5 DEF TypeOK, Fresh
  <2>1. CASE b = a
    BY <1>1, <1>4, <1>6, <2>0, <2>1
  <2>2. CASE b # a
    <3>1. b \in Writing(d) /\ b \in Attempt
      BY <1>10, <2>2, WritingFact
    <3>2. QED
      BY <1>4, <2>2, <3>1 DEF NotCarried
  <2>3. QED
    BY <2>1, <2>2
<1>12. StoredOnce' /\ ErasedStaysErased'
  BY <1>2 DEF StoredOnce, ErasedStaysErased, Live
<1>13. QED
  BY <1>7, <1>8, <1>9, <1>11, <1>12

\* A step that stores: what the attempt has read may be older than the row.
LEMMA Stored ==
    ASSUME IInv, NEW a \in Attempt, UpsertReplace(a)
    PROVE  Contents'
<1> USE DEF IInv, Contents
<1> DEFINE d0  == DocOf(a)
           new == Upserted(work[a].seen, work[a].text, work[a].how)
           w   == [NoWork EXCEPT !.text = new.text]
<1>1. /\ pc[a] = "replace" /\ pc' = [pc EXCEPT ![a] = "enqueue"]
      /\ row' = [row EXCEPT ![d0] = new] /\ work' = [work EXCEPT ![a] = w]
      /\ UNCHANGED <<job, erased, across>>
  BY DEF UpsertReplace, Goto, history
<1>2. d0 \in Doc /\ a \in Writing(d0) /\ a \in Unborn
  BY <1>1, DocOfType, WritingFact, Kinds DEF Unborn, Unstored, Finished
<1>3. w.text = new.text /\ w.seen = NoRow
  BY DEF NoWork
<1>4. \A p \in Piece :
        \/ new.text[p] = work[a].text[p]
        \/ /\ work[a].how = "APPEND" /\ work[a].seen.life = "live"
           /\ new.text[p] = work[a].seen.text[p] + work[a].text[p]
  BY DEF Upserted
<1> HIDE DEF new, w, d0
<1>5. \A p \in Piece : work[a].text[p] \in Nat /\ work[a].seen.text[p] \in Nat
  BY Counts
<1>6. \A p \in Piece : new.text[p] <= 1
  <2> SUFFICES ASSUME NEW p \in Piece PROVE new.text[p] <= 1
    OBVIOUS
  <2>1. work[a].text[p] <= 1 /\ work[a].seen.text[p] <= 1
    BY DEF HeldOnce
  <2>2. work[a].how = "APPEND" => work[a].text = Only(a)
    BY <1>1 DEF Held
  <2>3. work[a].seen.text[a] = 0
    BY <1>2 DEF Fresh
  <2>4. p # a => Only(a)[p] = 0
    BY Texts, Kinds
  <2>5. QED
    BY <1>4, <1>5, <2>1, <2>2, <2>3, <2>4
<1>7. \A p \in Unborn : p # a => new.text[p] = 0
  BY <1>4, UnbornParts DEF Fresh
<1>8. d0 \notin across => \A p \in erased[d0] : new.text[p] = 0
  <2> SUFFICES ASSUME d0 \notin across, NEW p \in erased[d0] PROVE new.text[p] = 0
    OBVIOUS
  <2>1. p \in Piece
    BY <1>2 DEF TypeOK
  <2>2. work[a].text[p] = 0 /\ (work[a].seen.life = "live" => work[a].seen.text[p] = 0)
    BY <1>2 DEF NotCarried
  <2>3. QED
    BY <1>4, <2>1, <2>2
<1>9. /\ work'[a] = w /\ row'[d0] = new /\ pc'[a] = "enqueue"
      /\ \A b \in Attempt : b # a => work'[b] = work[b] /\ pc'[b] = pc[b]
      /\ \A p \in Piece : p # a => pc'[p] = pc[p]
      /\ \A d \in Doc : d # d0 => row'[d] = row[d]
  BY <1>1, <1>2, Kinds DEF TypeOK
<1>10. Unborn' = Unborn \ {a}
  BY <1>9, Kinds DEF Unborn, Unstored
<1>11. \A p \in Piece : NoRow.text[p] = 0
  BY Texts DEF NoRow
<1>12. StoredOnce'
  BY <1>6, <1>9 DEF StoredOnce
<1>13. HeldOnce'
  BY <1>3, <1>6, <1>9, <1>11 DEF HeldOnce
<1>14. Held'
  BY <1>9 DEF Held
<1>15. Fresh'
  BY <1>1, <1>3, <1>7, <1>9, <1>10, <1>11, UnbornParts DEF Fresh
<1>16. \A d \in Doc : Writing(d)' = Writing(d)
  <2>1. \A b \in Attempt : pc[b] \in Finished \cup {"idle"} <=>
                           pc'[b] \in Finished \cup {"idle"}
    BY <1>1, <1>9 DEF Finished
  <2>2. QED
    BY <1>1, <2>1, Kinds DEF Writing, InFlight, DocOf
<1>17. NotCarried'
  <2> SUFFICES ASSUME NEW d \in Doc \ across, NEW b \in Writing(d), NEW p \in erased[d]
      PROVE  /\ work'[b].text[p] = 0
             /\ work'[b].seen.life = "live" => work'[b].seen.text[p] = 0
    BY <1>1, <1>16 DEF NotCarried
  <2>1. b \in Attempt /\ DocOf(b) = d /\ p \in Piece
    BY WritingFact DEF TypeOK
  <2>2. CASE b = a
    BY <1>3, <1>8, <1>9, <1>11, <2>1, <2>2 DEF d0
  <2>3. CASE b # a
    BY <1>9, <2>1, <2>3 DEF NotCarried
  <2>4. QED
    BY <2>2, <2>3
<1>18. ErasedStaysErased'
  BY <1>1, <1>8, <1>9 DEF ErasedStaysErased, Live
<1>19. QED
  BY <1>12, <1>13, <1>14, <1>15, <1>17, <1>18

LEMMA Edited ==
    ASSUME IInv, NEW e \in Edit, NEW d0 \in Doc, EditItem(e, d0)
    PROVE  Contents'
<1> USE DEF IInv, Contents
<1>1. /\ pc[e] = "idle" /\ pc' = [pc EXCEPT ![e] = "done"] /\ Live(d0)
      /\ row' = [row EXCEPT ![d0].text = Only(e)]
      /\ UNCHANGED <<job, work, erased, across>>
  BY DEF EditItem, Goto, locals
<1>2. /\ \A d \in Doc : row'[d].life = row[d].life /\ (d # d0 => row'[d].text = row[d].text)
      /\ row'[d0].text = Only(e)
  BY <1>1, Counts DEF TypeOK, Row
<1>3. \A a \in Actor : a # e => pc'[a] = pc[a]
  BY <1>1 DEF TypeOK
<1>4. e \in Unborn /\ e \in Piece /\ pc'[e] = "done"
  BY <1>1, Kinds DEF Unborn, TypeOK
<1>5. Unborn' = Unborn \ {e}
  BY <1>3, <1>4, Kinds DEF Unborn, Unstored
<1>6. \A p \in Piece : Only(e)[p] <= 1 /\ (p # e => Only(e)[p] = 0)
  BY <1>4, Texts
<1>7. \A a \in Attempt : pc'[a] = pc[a]
  BY <1>3, Kinds
<1>8. \A d \in Doc : Writing(d)' = Writing(d)
  BY <1>1, <1>7, Kinds DEF Writing, InFlight, DocOf
<1>9. StoredOnce' /\ HeldOnce' /\ Held' /\ NotCarried'
  BY <1>1, <1>2, <1>6, <1>7, <1>8 DEF StoredOnce, HeldOnce, Held, NotCarried
<1>10. Fresh'
  BY <1>1, <1>2, <1>5, <1>6, UnbornParts DEF Fresh
<1>11. ErasedStaysErased'
  <2> SUFFICES ASSUME NEW d \in Doc, Live(d)', d \notin across, NEW p \in erased[d]
      PROVE  row'[d].text[p] = 0
    BY <1>1 DEF ErasedStaysErased
  <2>1. p \in Piece /\ p # e
    BY <1>4 DEF TypeOK, Fresh
  <2>2. Live(d)
    BY <1>2 DEF Live
  <2>3. QED
    BY <1>2, <1>6, <2>1, <2>2 DEF ErasedStaysErased
<1>12. QED
  BY <1>9, <1>10, <1>11

LEMMA Labelled ==
    ASSUME IInv, NEW D \in SUBSET Doc, MarkUsed(D)
    PROVE  Contents'
<1> USE DEF IInv, Contents
<1>1. UNCHANGED <<job, work, pc, erased, across>>
  BY DEF MarkUsed, locals
<1>2. \A d \in Doc : row'[d].life = row[d].life /\ row'[d].text = row[d].text
  BY Counts DEF MarkUsed, Row
<1>3. \A d \in Doc : Writing(d)' = Writing(d)
  BY <1>1, Kinds DEF Writing, InFlight, DocOf
<1>4. Unborn' = Unborn
  BY <1>1 DEF Unborn
<1>5. StoredOnce' /\ HeldOnce' /\ Held' /\ NotCarried' /\ Fresh'
  BY <1>1, <1>2, <1>3, <1>4 DEF StoredOnce, HeldOnce, Held, NotCarried, Fresh
<1>6. ErasedStaysErased'
  BY <1>1, <1>2 DEF ErasedStaysErased, Live
<1>7. QED
  BY <1>5, <1>6

\* The steps of an attempt.
LEMMA Worked ==
    ASSUME IInv, NEW a \in Attempt, WriteStep(a)
    PROVE  Contents'
<1> USE DEF IInv, Contents
<1>1. work[a] \in Locals /\ work[a].text \in Text /\ work[a].seen \in Row
  BY DEF TypeOK, Locals
<1>2. \A p \in Piece : work[a].text[p] <= 1 /\ work[a].seen.text[p] <= 1
  BY DEF HeldOnce
<1>3. \A p \in Unborn : work[a].seen.text[p] = 0 /\ (p # a => work[a].text[p] = 0)
  BY DEF Fresh
<1>4. pc[a] \in Unstored /\ DocOf(a) \notin across =>
        \A p \in erased[DocOf(a)] :
            /\ work[a].text[p] = 0
            /\ work[a].seen.life = "live" => work[a].seen.text[p] = 0
  BY WritingFact, DocOfType DEF NotCarried, Unstored, Finished
<1>5. CASE CreateRead(a)
  <2>1. PICK l \in {"createMerge", "find"} : pc' = [pc EXCEPT ![a] = l]
    BY <1>5 DEF CreateRead, Goto
  <2>2. pc[a] = "read" /\ UNCHANGED <<row, job, work, erased, across>>
    BY <1>5 DEF CreateRead, locals, history
  <2>3. work' = [work EXCEPT ![a] = work[a]]
    BY <2>2 DEF TypeOK
  <2>4. work[a].text = Only(a)
    BY <2>2 DEF Held
  <2>5. pc[a] \in Unstored /\ l \in Unstored /\ l # "fuse"
    BY <2>2 DEF Unstored
  <2>6. QED
    BY <1>1, <1>2, <1>3, <1>4, <2>1, <2>2, <2>3, <2>4, <2>5, OneWorks
<1>6. CASE MergeRead(a) \/ UpsertFind(a)
  <2> DEFINE w == [work[a] EXCEPT !.seen = row[DocOf(a)]]
  <2>1. PICK l \in {"updateMerge", "fuse", "find", "replace"} :
            /\ pc' = [pc EXCEPT ![a] = l] /\ (l = "fuse" => Live(DocOf(a)))
            /\ l # "replace" => MergeRead(a)
            /\ l = "replace" => UpsertFind(a)
    <3>1. CASE MergeRead(a)
      BY <3>1 DEF MergeRead, Goto
    <3>2. CASE UpsertFind(a)
      BY <3>2 DEF UpsertFind, Goto
    <3>3. QED
      BY <1>6, <3>1, <3>2
  <2>2. /\ pc[a] \in {"createMerge", "updateMerge", "find"}
        /\ UNCHANGED <<row, job, erased, across>>
        /\ work' = [work EXCEPT ![a].seen = row[DocOf(a)]]
    BY <1>6 DEF MergeRead, UpsertFind, history
  <2>3. DocOf(a) \in Doc /\ row[DocOf(a)] \in Row
    BY <2>2, DocOfType, Counts
  <2>4. /\ w \in Locals /\ w.text = work[a].text /\ w.how = work[a].how
        /\ w.seen = row[DocOf(a)]
    BY <1>1, <2>3 DEF Locals
  <2>5. work' = [work EXCEPT ![a] = w]
    BY <2>2 DEF TypeOK
  <2> HIDE DEF w
  <2>6. \A p \in Piece : w.text[p] <= 1 /\ w.seen.text[p] <= 1
    BY <1>2, <2>3, <2>4 DEF StoredOnce
  <2>7. \A p \in Unborn : w.seen.text[p] = 0 /\ (p # a => w.text[p] = 0)
    BY <1>3, <2>3, <2>4 DEF Fresh
  <2>8. pc[a] \in Unstored /\ l \in Unstored
    BY <2>2 DEF Unstored
  <2>9. DocOf(a) \notin across =>
            \A p \in erased[DocOf(a)] :
                w.text[p] = 0 /\ (w.seen.life = "live" => w.seen.text[p] = 0)
    BY <1>4, <2>3, <2>4, <2>8 DEF ErasedStaysErased, Live
  <2>10. l = "fuse" => w.seen.life = "live"
    BY <2>1, <2>4 DEF Live
  <2>11. l \in {"read", "createMerge", "updateMerge", "fuse"} => w.text = Only(a)
    BY <2>1, <2>4 DEF MergeRead, Held
  <2>12. l \in {"find", "replace"} /\ w.how = "APPEND" => w.text = Only(a)
    BY <2>1, <2>4 DEF MergeRead, UpsertFind, Held
  <2>13. QED
    BY <2>1, <2>2, <2>4, <2>5, <2>6, <2>7, <2>8, <2>9, <2>10, <2>11, <2>12, OneWorks
<1>7. CASE Fuse(a)
  <2> DEFINE fused == [p \in Piece |-> work[a].seen.text[p] + work[a].text[p]]
             w == [how |-> "OVERWRITE", seen |-> NoRow, text |-> fused]
  <2>1. /\ pc[a] = "fuse" /\ pc' = [pc EXCEPT ![a] = "find"]
        /\ work' = [work EXCEPT ![a] = w] /\ UNCHANGED <<row, job, erased, across>>
    BY <1>7 DEF Fuse, Goto, history
  <2>2. fused \in Text
    BY <1>1, Sums DEF Row
  <2>3. w \in Locals /\ w.text = fused /\ w.seen = NoRow /\ w.how = "OVERWRITE"
    BY <2>2, Empties DEF Locals, Method
  <2>4. \A p \in Piece : fused[p] = work[a].seen.text[p] + work[a].text[p]
                         /\ work[a].seen.text[p] \in Nat /\ work[a].text[p] \in Nat
    BY Counts
  <2> HIDE DEF fused, w
  <2>5. work[a].text = Only(a) /\ work[a].seen.life = "live"
        /\ pc[a] \in Unstored /\ a \in Unborn
    BY <2>1, Kinds DEF Held, Unstored, Unborn
  <2>6. \A p \in Piece : NoRow.text[p] = 0 /\ (p # a => Only(a)[p] = 0)
    BY Texts, Kinds DEF NoRow
  <2>7. \A p \in Piece : w.text[p] <= 1 /\ w.seen.text[p] <= 1
    BY <1>2, <1>3, <2>3, <2>4, <2>5, <2>6
  <2>8. \A p \in Unborn : w.seen.text[p] = 0 /\ (p # a => w.text[p] = 0)
    BY <1>3, <2>3, <2>4, <2>6, UnbornParts
  <2>9. DocOf(a) \notin across =>
            \A p \in erased[DocOf(a)] :
                w.text[p] = 0 /\ (w.seen.life = "live" => w.seen.text[p] = 0)
    <3>1. erased[DocOf(a)] \subseteq Piece
      BY <2>1, DocOfType DEF TypeOK
    <3>2. QED
      BY <1>4, <2>3, <2>4, <2>5, <2>6, <3>1
  <2>10. "find" \in Unstored /\ w.how # "APPEND"
    BY <2>3 DEF Unstored
  <2>11. QED
    BY <2>1, <2>3, <2>5, <2>7, <2>8, <2>9, <2>10, OneWorks
<1>8. CASE UpsertReplace(a)
  BY <1>8, Stored
<1>9. CASE WriteEnqueue(a)
  <2>1. /\ pc[a] = "enqueue" /\ pc' = [pc EXCEPT ![a] = "done"]
        /\ work' = [work EXCEPT ![a] = NoWork] /\ UNCHANGED <<row, job, erased, across>>
    BY <1>9 DEF WriteEnqueue, Goto
  <2>2. \A b \in Attempt : b # a => pc'[b] = pc[b] /\ work'[b] = work[b]
    BY <2>1, Kinds DEF TypeOK
  <2>3. work'[a] = NoWork /\ pc'[a] = "done"
    BY <2>1, Kinds DEF TypeOK
  <2>4. Held'
    BY <2>2, <2>3 DEF Held
  <2>5. \A p \in Piece : p # a => pc'[p] = pc[p]
    BY <2>1, Kinds DEF TypeOK
  <2>6. QED
    BY <2>1, <2>2, <2>3, <2>4, <2>5, LessHeld DEF Unstored, Finished
<1>10. QED
  BY <1>5, <1>6, <1>7, <1>8, <1>9 DEF WriteStep

\* The steps that read and write no row.
LEMMA Elsewhere ==
    ASSUME IInv,
           \/ Worker \/ Restart \/ UNCHANGED vars
           \/ \E x \in Delete : DeleteEnqueue(x)
           \/ \E u \in Wipe : WipeScan(u) \/ WipeMark(u) \/ WipeSkip(u)
           \/ \E a \in Actor : Crash(a)
    PROVE  Contents'
<1> USE Kinds DEF IInv, Contents, locals, history, vars, Goto
<1>1. CASE Worker \/ UNCHANGED vars
  <2>1. UNCHANGED <<row, job, pc, work, erased, across>>
    BY <1>1 DEF Worker, WorkerTake, WorkerApply, WorkerSkip
  <2>2. Held'
    BY <2>1 DEF Held
  <2>3. QED
    BY <2>1, <2>2, LessHeld
<1>2. CASE (\E x \in Delete : DeleteEnqueue(x)) \/
           (\E u \in Wipe : WipeScan(u) \/ WipeMark(u) \/ WipeSkip(u))
  <2>1. /\ UNCHANGED <<row, job, work, erased, across>>
        /\ \E x \in Delete \cup Wipe, l \in {"scan", "mark", "done"} :
                pc' = [pc EXCEPT ![x] = l]
    BY <1>2 DEF DeleteEnqueue, WipeScan, WipeMark, WipeSkip
  <2>2. \A p \in Piece : pc'[p] = pc[p]
    BY <2>1 DEF TypeOK, Piece
  <2>3. Held'
    BY <2>1, <2>2 DEF Held
  <2>4. QED
    BY <2>1, <2>2, <2>3, LessHeld
<1>3. CASE Restart
  <2>1. /\ UNCHANGED <<row, job, erased, across>>
        /\ \A a \in Actor : pc'[a] = pc[a] \/ pc'[a] = "crashed"
        /\ \A a \in Attempt : work'[a] = work[a] \/ work'[a] = NoWork
    BY <1>3 DEF Restart
  <2>2. \A a \in Attempt : pc'[a] \in Unstored => work'[a] = work[a]
    BY <1>3 DEF Restart, InFlight, InTemporal, Unstored, Finished
  <2>3. Held'
    BY <2>1, <2>2 DEF Held, Unstored
  <2>4. QED
    BY <2>1, <2>3, LessHeld DEF Unstored, Finished
<1>4. ASSUME NEW a \in Actor, Crash(a) PROVE Contents'
  <2>1. /\ UNCHANGED <<row, job, erased, across>> /\ pc'[a] = "crashed"
        /\ \A b \in Actor : b # a => pc'[b] = pc[b]
        /\ \A b \in Attempt : work'[b] = IF b = a THEN NoWork ELSE work[b]
    BY <1>4 DEF Crash, TypeOK
  <2>2. Held'
    BY <2>1 DEF Held
  <2>3. QED
    BY <2>1, <2>2, LessHeld DEF Unstored, Finished
<1>5. QED
  BY <1>1, <1>2, <1>3, <1>4

LEMMA Step == IInv /\ [Next]_vars => IInv'
<1> SUFFICES ASSUME IInv, [Next]_vars PROVE IInv'
  OBVIOUS
<1>0. TypeOK /\ Places /\ TypeOK' /\ Places'
  BY TypeStep, PlacesStep DEF IInv
<1>1. ASSUME NEW w \in Write, NEW j \in Jobs, WriteStart(w, j) PROVE Contents'
  <2>1. /\ <<w, 1>> \in Attempt /\ <<w, 1>>[1] = w /\ j \in Job
    BY AttemptParts, DataConstantsOK
  <2>2. QED
    BY <1>1, <2>1, AttemptBegins DEF WriteStart
<1>2. ASSUME NEW w \in Write, NEW n \in 1 .. MaxAttempts, WriteRetry(w, n) PROVE Contents'
  <2>1. /\ <<w, n + 1>> \in Attempt /\ <<w, n + 1>>[1] = w
    BY <1>2, AttemptParts, DataConstantsOK DEF WriteRetry
  <2>2. job[w] \in Job /\ job' = [job EXCEPT ![w] = job[w]]
    BY <1>0, <1>2 DEF WriteRetry, TypeOK, NoJob
  <2>3. QED
    BY <1>2, <2>1, <2>2, AttemptBegins DEF WriteRetry
<1>3. ASSUME NEW a \in Attempt, WriteStep(a) PROVE Contents'
  BY <1>3, Worked
<1>4. ASSUME NEW x \in Delete, NEW d0 \in Doc, DeleteRow(x, d0) PROVE Contents'
  <2>1. row' = [d \in Doc |-> IF d \in {d0} THEN Deleted(row[d]) ELSE row[d]]
    BY <1>0, <1>4 DEF DeleteRow, TypeOK
  <2>2. \A p \in Piece : pc'[p] = pc[p]
    BY <1>0, <1>4, Kinds DEF DeleteRow, Goto, TypeOK, Piece
  <2>3. QED
    BY <1>4, <2>1, <2>2, RowsDeleted DEF DeleteRow
<1>5. ASSUME NEW u \in Wipe, WipeRows(u) PROVE Contents'
  <2>1. row' = [d \in Doc |-> IF d \in Doc THEN Deleted(row[d]) ELSE row[d]]
    BY <1>5 DEF WipeRows
  <2>2. \A p \in Piece : pc'[p] = pc[p]
    BY <1>0, <1>5, Kinds DEF WipeRows, Goto, TypeOK, Piece
  <2>3. QED
    BY <1>5, <2>1, <2>2, RowsDeleted DEF WipeRows, locals
<1>6. ASSUME NEW d0 \in Doc, RemoveItem(d0) PROVE Contents'
  <2>1. row' = [d \in Doc |-> IF d \in {d0} THEN Deleted(row[d]) ELSE row[d]]
    BY <1>0, <1>6 DEF RemoveItem, TypeOK
  <2>2. QED
    BY <1>6, <2>1, RowsDeleted DEF RemoveItem, locals
<1>7. ASSUME NEW e \in Edit, NEW d \in Doc, EditItem(e, d) PROVE Contents'
  BY <1>7, Edited
<1>8. ASSUME NEW D \in SUBSET Doc, MarkUsed(D) PROVE Contents'
  BY <1>8, Labelled
<1>9. ASSUME \/ Worker \/ Restart \/ UNCHANGED vars
             \/ \E x \in Delete : DeleteEnqueue(x)
             \/ \E u \in Wipe : WipeScan(u) \/ WipeMark(u) \/ WipeSkip(u)
             \/ \E a \in Actor : Crash(a)
      PROVE  Contents'
  BY <1>9, Elsewhere
<1>10. Contents'
  BY <1>1, <1>2, <1>3, <1>4, <1>5, <1>6, <1>7, <1>8, <1>9 DEF Next
<1>11. QED
  BY <1>0, <1>10 DEF IInv

-----------------------------------------------------------------------------
(* Documents on which no two requests have overlapped: what a request read *)
(* is what it writes over.                                                 *)

Alone == \A d \in Doc \ raced : \A x, y \in Busy(d) : x = y

SeenIsRow ==
    \A a \in Attempt : pc[a] = "replace" /\ DocOf(a) \notin raced =>
        work[a].seen = row[DocOf(a)]

SInv == IInv /\ Alone /\ SeenIsRow

\* A step with which the request z begins on the documents D, or none does.
LEMMA AloneKept ==
    ASSUME Alone, NEW z, NEW D \in SUBSET Doc, Begins(D),
           \A d \in Doc : Busy(d)' \subseteq Busy(d) \cup (IF d \in D THEN {z} ELSE {})
    PROVE  Alone'
<1> SUFFICES ASSUME NEW d \in Doc, d \notin raced', NEW x \in Busy(d)', NEW y \in Busy(d)'
    PROVE  x = y
  BY DEF Alone
<1>1. d \notin raced /\ (d \in D => Busy(d) = {})
  BY DEF Begins
<1>2. QED
  BY <1>1 DEF Alone

LEMMA AloneLess ==
    ASSUME Alone, raced \subseteq raced', UNCHANGED <<job, target>>,
           \A a \in Actor : pc'[a] \notin Finished \cup {"idle"} =>
                                pc[a] \notin Finished \cup {"idle"}
    PROVE  Alone'
<1>1. \A d \in Doc : Busy(d)' \subseteq Busy(d)
  BY DEF Busy, Writing, Deleting, InFlight, DocOf
<1>2. QED
  BY <1>1 DEF Alone

LEMMA SeenKept ==
    ASSUME SeenIsRow, UNCHANGED job, raced \subseteq raced',
           \A a \in Attempt :
                pc'[a] = "replace" =>
                    /\ pc[a] = "replace" /\ work'[a] = work[a]
                    /\ \/ row'[DocOf(a)] = row[DocOf(a)]
                       \/ DocOf(a) \in raced'
    PROVE  SeenIsRow'
BY DEF SeenIsRow, DocOf

\* A request that is about to store is busy on its document.
LEMMA ReplaceBusy ==
    ASSUME Places, NEW a \in Attempt, pc[a] = "replace"
    PROVE  a \in Writing(DocOf(a)) /\ a \in Busy(DocOf(a)) /\ DocOf(a) \in Doc
BY WritingFact, DocOfType DEF Busy, Finished

LEMMA StartAlone ==
    ASSUME SInv, NEW a \in Attempt, NEW j \in Job, Starts(a, j),
           job' = [job EXCEPT ![a[1]] = j], job[a[1]] \in {j, NoJob}
    PROVE  Alone' /\ SeenIsRow'
<1> USE DEF SInv, IInv
<1>1. /\ pc[a] = "idle" /\ pc' = [pc EXCEPT ![a] = FirstStep(j)]
      /\ UNCHANGED <<row, target>> /\ Begins({j.doc}) /\ raced \subseteq raced'
  BY DEF Starts, Goto, Begins
<1>2. /\ FirstStep(j) # "replace"
      /\ \A b \in Actor : b # a => pc'[b] = pc[b]
      /\ pc'[a] = FirstStep(j)
  BY <1>1, Kinds DEF TypeOK, FirstStep
<1>3. \A b \in Attempt : b # a /\ pc[b] # "idle" => DocOf(b)' = DocOf(b)
  <2> SUFFICES ASSUME NEW b \in Attempt, b # a, pc[b] # "idle"
      PROVE  job'[b[1]] = job[b[1]]
    BY DEF DocOf
  <2>1. job[b[1]] # NoJob
    BY NoJobFact DEF Places
  <2>2. QED
    BY <2>1, AttemptParts DEF TypeOK
<1>4. DocOf(a)' = j.doc
  BY AttemptParts DEF DocOf, TypeOK
<1>5. \A d \in Doc : Busy(d)' \subseteq Busy(d) \cup (IF d \in {j.doc} THEN {a} ELSE {})
  <2> SUFFICES ASSUME NEW d \in Doc, NEW x \in Busy(d)', x # a \/ d # j.doc
      PROVE  x \in Busy(d)
    OBVIOUS
  <2>1. x # a
    BY <1>4, Kinds DEF Busy, Writing, Deleting
  <2>2. x \in Actor /\ x \in InFlight
    BY <1>2, <2>1 DEF Busy, Writing, Deleting, InFlight
  <2>3. QED
    BY <1>1, <1>3, <2>1, <2>2 DEF Busy, Writing, Deleting, InFlight
<1>6. Alone'
  <2>1. {j.doc} \in SUBSET Doc
    BY DEF Job
  <2>2. QED
    BY <1>1, <1>5, <2>1, AloneKept
<1>7. SeenIsRow'
  <2> SUFFICES ASSUME NEW b \in Attempt, pc'[b] = "replace", DocOf(b)' \notin raced'
      PROVE  work'[b].seen = row'[DocOf(b)']
    BY DEF SeenIsRow
  <2>1. b # a /\ pc[b] = "replace"
    BY <1>2, Kinds
  <2>2. work'[b] = work[b] /\ DocOf(b)' = DocOf(b)
    BY <1>3, <2>1 DEF Starts, TypeOK
  <2>3. QED
    BY <1>1, <2>1, <2>2 DEF SeenIsRow
<1>8. QED
  BY <1>6, <1>7

LEMMA WriteAlone ==
    ASSUME SInv, NEW a \in Attempt, WriteStep(a)
    PROVE  Alone' /\ SeenIsRow'
<1> USE DEF SInv, IInv
<1>1. PICK l \in {"createMerge", "updateMerge", "fuse", "find", "replace", "enqueue",
                  "done"} : Goto(a, l) /\ UNCHANGED <<job, target, raced>>
  BY DEF WriteStep, CreateRead, MergeRead, Fuse, UpsertFind, UpsertReplace,
         WriteEnqueue, locals, history
<1>2. pc[a] \notin Finished \cup {"idle"}
  BY DEF WriteStep, CreateRead, MergeRead, Fuse, UpsertFind, UpsertReplace,
         WriteEnqueue, Finished
<1>3. \A b \in Actor : b # a => pc'[b] = pc[b]
  BY <1>1 DEF Goto, TypeOK
<1>4. Alone'
  BY <1>1, <1>2, <1>3, AloneLess
<1>5. CASE UpsertFind(a)
  <2>1. /\ UNCHANGED row /\ pc[a] = "find"
        /\ work' = [work EXCEPT ![a].seen = row[DocOf(a)]]
    BY <1>5 DEF UpsertFind
  <2>2. /\ work'[a].seen = row[DocOf(a)]
        /\ \A b \in Attempt : b # a => work'[b] = work[b]
    BY <2>1 DEF TypeOK
  <2>3. QED
    BY <1>1, <1>3, <1>4, <2>1, <2>2, Kinds DEF SeenIsRow, DocOf
<1>6. CASE UpsertReplace(a)
  <2>1. /\ pc[a] = "replace" /\ pc' = [pc EXCEPT ![a] = "enqueue"]
        /\ \A d \in Doc : d # DocOf(a) => row'[d] = row[d]
        /\ \A b \in Attempt : b # a => work'[b] = work[b]
    BY <1>6 DEF UpsertReplace, Goto, TypeOK
  <2>2. pc'[a] # "replace"
    BY <2>1, Kinds DEF TypeOK
  <2>3. ASSUME NEW b \in Attempt, pc'[b] = "replace"
        PROVE  /\ pc[b] = "replace" /\ work'[b] = work[b]
               /\ row'[DocOf(b)] = row[DocOf(b)] \/ DocOf(b) \in raced'
    <3>1. b # a /\ pc[b] = "replace"
      BY <1>3, <2>2, <2>3, Kinds
    <3>2. DocOf(b) # DocOf(a) \/ DocOf(b) \in raced
      BY <2>1, <3>1, ReplaceBusy DEF Alone
    <3>3. QED
      BY <1>1, <2>1, <3>1, <3>2, ReplaceBusy
  <2>4. QED
    BY <1>1, <1>4, <2>3, SeenKept
<1>7. CASE CreateRead(a) \/ MergeRead(a) \/ Fuse(a) \/ WriteEnqueue(a)
  <2>1. /\ UNCHANGED row /\ \A b \in Attempt : b # a => work'[b] = work[b]
        /\ pc'[a] # "replace"
    BY <1>7, Kinds
       DEF CreateRead, MergeRead, Fuse, WriteEnqueue, Goto, TypeOK, locals, history
  <2>2. QED
    BY <1>1, <1>3, <1>4, <2>1, SeenKept, Kinds
<1>8. QED
  BY <1>4, <1>5, <1>6, <1>7 DEF WriteStep

\* The steps of deletes, wipes, edits and labels: those that change rows begin on
\* the documents they change.
LEMMA RowsAlone ==
    ASSUME SInv,
           \/ \E x \in Delete, d \in Doc : DeleteRow(x, d)
           \/ \E u \in Wipe : WipeRows(u)
           \/ \E e \in Edit, d \in Doc : EditItem(e, d)
           \/ \E d \in Doc : RemoveItem(d)
           \/ \E D \in SUBSET Doc : MarkUsed(D)
    PROVE  Alone' /\ SeenIsRow'
<1> USE Kinds DEF SInv, IInv
<1>1. ASSUME NEW D \in SUBSET Doc, Begins(D), UNCHANGED <<job, work>>,
             \A a \in Attempt : pc'[a] = pc[a],
             \A d \in Doc : d \notin D => row'[d] = row[d]
      PROVE  SeenIsRow'
  <2>1. raced \subseteq raced'
    BY <1>1 DEF Begins
  <2>2. ASSUME NEW a \in Attempt, pc'[a] = "replace"
        PROVE  /\ pc[a] = "replace" /\ work'[a] = work[a]
               /\ row'[DocOf(a)] = row[DocOf(a)] \/ DocOf(a) \in raced'
    <3>1. pc[a] = "replace" /\ work'[a] = work[a]
      BY <1>1, <2>2
    <3>2. DocOf(a) \in Doc /\ Busy(DocOf(a)) # {}
      BY <3>1, ReplaceBusy
    <3>3. QED
      BY <1>1, <3>1, <3>2 DEF Begins
  <2>3. QED
    BY <1>1, <2>1, <2>2, SeenKept
<1>2. ASSUME NEW x \in Delete, NEW d0 \in Doc, DeleteRow(x, d0)
      PROVE  Alone' /\ SeenIsRow'
  <2>1. /\ pc[x] = "idle" /\ UNCHANGED <<job, work>> /\ Begins({d0})
        /\ \A b \in Actor : b # x => pc'[b] = pc[b]
        /\ \A y \in Delete : y # x => target'[y] = target[y]
        /\ target'[x] = d0
        /\ \A d \in Doc : d \notin {d0} => row'[d] = row[d]
    BY <1>2 DEF DeleteRow, Goto, TypeOK
  <2>2. \A d \in Doc : Busy(d)' \subseteq Busy(d) \cup (IF d \in {d0} THEN {x} ELSE {})
    BY <2>1 DEF Busy, Writing, Deleting, InFlight, DocOf
  <2>3. Alone'
    BY <2>1, <2>2, AloneKept
  <2>4. SeenIsRow'
    BY <1>1, <2>1
  <2>5. QED
    BY <2>3, <2>4
<1>3. ASSUME NEW u \in Wipe, WipeRows(u) PROVE Alone' /\ SeenIsRow'
  <2>1. /\ pc[u] = "idle" /\ UNCHANGED <<job, work, target>> /\ Begins(Doc)
        /\ \A b \in Actor : b # u => pc'[b] = pc[b]
    BY <1>3 DEF WipeRows, Goto, TypeOK, locals
  <2>2. \A d \in Doc : Busy(d)' \subseteq Busy(d) \cup (IF d \in Doc THEN {u} ELSE {})
    BY <2>1 DEF Busy, Writing, Deleting, InFlight, DocOf
  <2>3. Alone'
    BY <2>1, <2>2, AloneKept
  <2>4. SeenIsRow'
    BY <1>1, <2>1
  <2>5. QED
    BY <2>3, <2>4
<1>4. ASSUME NEW e \in Edit, NEW d0 \in Doc, EditItem(e, d0) PROVE Alone' /\ SeenIsRow'
  <2>1. /\ UNCHANGED <<job, work, target>> /\ Begins({d0}) /\ pc'[e] = "done"
        /\ \A b \in Actor : b # e => pc'[b] = pc[b]
        /\ \A d \in Doc : d \notin {d0} => row'[d] = row[d]
    BY <1>4 DEF EditItem, Goto, TypeOK, locals
  <2>2. raced \subseteq raced'
    BY <2>1 DEF Begins
  <2>3. Alone'
    BY <2>1, <2>2, AloneLess DEF Finished
  <2>4. SeenIsRow'
    BY <1>1, <2>1
  <2>5. QED
    BY <2>3, <2>4
<1>5. ASSUME NEW D \in SUBSET Doc,
             MarkUsed(D) \/ \E d \in Doc : D = {d} /\ RemoveItem(d)
      PROVE  Alone' /\ SeenIsRow'
  <2>1. /\ UNCHANGED <<pc, job, work, target>> /\ Begins(D)
        /\ \A d \in Doc : d \notin D => row'[d] = row[d]
    BY <1>5 DEF MarkUsed, RemoveItem, TypeOK, locals
  <2>2. raced \subseteq raced'
    BY <2>1 DEF Begins
  <2>3. Alone'
    BY <2>1, <2>2, AloneLess
  <2>4. SeenIsRow'
    BY <1>1, <2>1
  <2>5. QED
    BY <2>3, <2>4
<1>6. ASSUME NEW d \in Doc, RemoveItem(d) PROVE Alone' /\ SeenIsRow'
  <2>1. {d} \in SUBSET Doc
    OBVIOUS
  <2>2. QED
    BY <1>5, <1>6, <2>1
<1>7. QED
  BY <1>2, <1>3, <1>4, <1>5, <1>6

LEMMA StepAlone == SInv /\ [Next]_vars => Alone' /\ SeenIsRow'
<1> SUFFICES ASSUME SInv, [Next]_vars PROVE Alone' /\ SeenIsRow'
  OBVIOUS
<1> USE DEF SInv, IInv
<1>1. ASSUME NEW w \in Write, NEW j \in Jobs, WriteStart(w, j)
      PROVE  Alone' /\ SeenIsRow'
  <2>1. /\ <<w, 1>> \in Attempt /\ <<w, 1>>[1] = w /\ j \in Job
    BY AttemptParts, DataConstantsOK
  <2>2. QED
    BY <1>1, <2>1, StartAlone DEF WriteStart
<1>2. ASSUME NEW w \in Write, NEW n \in 1 .. MaxAttempts, WriteRetry(w, n)
      PROVE  Alone' /\ SeenIsRow'
  <2>1. /\ <<w, n + 1>> \in Attempt /\ <<w, n + 1>>[1] = w
    BY <1>2, AttemptParts, DataConstantsOK DEF WriteRetry
  <2>2. job[w] \in Job /\ job' = [job EXCEPT ![w] = job[w]]
    BY <1>2 DEF WriteRetry, TypeOK, NoJob
  <2>3. QED
    BY <1>2, <2>1, <2>2, StartAlone DEF WriteRetry
<1>3. ASSUME NEW a \in Attempt, WriteStep(a) PROVE Alone' /\ SeenIsRow'
  BY <1>3, WriteAlone
<1>4. ASSUME \/ \E x \in Delete, d \in Doc : DeleteRow(x, d)
             \/ \E u \in Wipe : WipeRows(u)
             \/ \E e \in Edit, d \in Doc : EditItem(e, d)
             \/ \E d \in Doc : RemoveItem(d)
             \/ \E D \in SUBSET Doc : MarkUsed(D)
      PROVE  Alone' /\ SeenIsRow'
  BY <1>4, RowsAlone
<1>5. ASSUME \/ Worker \/ Restart \/ UNCHANGED vars
             \/ \E x \in Delete : DeleteEnqueue(x)
             \/ \E u \in Wipe : WipeScan(u) \/ WipeMark(u) \/ WipeSkip(u)
             \/ \E a \in Actor : Crash(a)
      PROVE  Alone' /\ SeenIsRow'
  <2>1. UNCHANGED <<row, job, target, raced>>
    BY <1>5 DEF Worker, WorkerTake, WorkerApply, WorkerSkip, Restart, vars, locals,
                history, DeleteEnqueue, WipeScan, WipeMark, WipeSkip, Crash
  <2>2. \A b \in Actor :
            \/ pc'[b] = pc[b]
            \/ /\ pc[b] \notin Finished \cup {"idle"}
               /\ pc'[b] \in {"mark", "done", "crashed"}
    BY <1>5, Kinds
       DEF Worker, WorkerTake, WorkerApply, WorkerSkip, Restart, vars, locals, history,
           DeleteEnqueue, WipeScan, WipeMark, WipeSkip, Crash, Goto, InFlight, TypeOK,
           Finished
  <2>3. \A b \in Attempt : pc'[b] = "replace" => pc[b] = "replace" /\ work'[b] = work[b]
    <3>1. CASE Restart
      BY <2>2, <3>1, Kinds DEF Restart, InFlight, Finished, InTemporal
    <3>2. CASE \E a \in Actor : Crash(a)
      BY <2>2, <3>2, Kinds DEF Crash, Goto, TypeOK
    <3>3. CASE UNCHANGED work
      BY <2>2, <3>3, Kinds
    <3>4. QED
      BY <1>5, <3>1, <3>2, <3>3
         DEF Worker, WorkerTake, WorkerApply, WorkerSkip, vars, locals,
             DeleteEnqueue, WipeScan, WipeMark, WipeSkip
  <2>4. Alone'
    BY <2>1, <2>2, AloneLess
  <2>5. SeenIsRow'
    BY <2>1, <2>3, SeenKept
  <2>6. QED
    BY <2>4, <2>5
<1>6. QED
  BY <1>1, <1>2, <1>3, <1>4, <1>5 DEF Next

\* Nothing but its own store takes an attempt out of "replace" to "enqueue".
LEMMA WhoStores ==
    ASSUME SInv, [Next]_vars, NEW a \in Attempt, pc[a] = "replace", pc'[a] = "enqueue"
    PROVE  UpsertReplace(a)
<1> USE Kinds DEF SInv, IInv, Goto, TypeOK
<1>1. ASSUME NEW b \in Attempt, NEW j \in Job, Starts(b, j) PROVE FALSE
  BY <1>1 DEF Starts, FirstStep
<1>2. ~\E w \in Write, j \in Jobs : WriteStart(w, j)
  <2>1. ASSUME NEW w \in Write, NEW j \in Jobs, WriteStart(w, j) PROVE FALSE
    <3>1. <<w, 1>> \in Attempt /\ j \in Job
      BY AttemptParts, DataConstantsOK
    <3>2. QED
      BY <1>1, <2>1, <3>1 DEF WriteStart
  <2>2. QED
    BY <2>1
<1>3. ~\E w \in Write, n \in 1 .. MaxAttempts : WriteRetry(w, n)
  <2>1. ASSUME NEW w \in Write, NEW n \in 1 .. MaxAttempts, WriteRetry(w, n) PROVE FALSE
    <3>1. <<w, n + 1>> \in Attempt /\ job[w] \in Job
      BY <2>1, AttemptParts, DataConstantsOK DEF WriteRetry, NoJob
    <3>2. QED
      BY <1>1, <2>1, <3>1 DEF WriteRetry
  <2>2. QED
    BY <2>1
<1>4. ASSUME NEW b \in Attempt, WriteStep(b) PROVE UpsertReplace(a)
  BY <1>4 DEF WriteStep, CreateRead, MergeRead, Fuse, UpsertFind, UpsertReplace,
              WriteEnqueue
<1>5. ~\E x \in Delete, d \in Doc : DeleteRow(x, d) \/ DeleteEnqueue(x)
  BY DEF DeleteRow, DeleteEnqueue
<1>6. ~\E x \in Delete : DeleteEnqueue(x)
  BY DEF DeleteEnqueue
<1>7. ~\E u \in Wipe : WipeRows(u) \/ WipeScan(u) \/ WipeMark(u) \/ WipeSkip(u)
  BY DEF WipeRows, WipeScan, WipeMark, WipeSkip
<1>8. ~\E e \in Edit, d \in Doc : EditItem(e, d)
  BY DEF EditItem
<1>9. ~(\/ Worker \/ UNCHANGED vars
        \/ \E D \in SUBSET Doc : MarkUsed(D)
        \/ \E d \in Doc : RemoveItem(d))
  BY DEF Worker, WorkerTake, WorkerApply, WorkerSkip, MarkUsed, RemoveItem, vars
<1>10. ~Restart /\ ~\E b \in Actor : Crash(b)
  BY DEF Restart, Crash
<1>11. QED
  BY <1>2, <1>3, <1>4, <1>5, <1>6, <1>7, <1>8, <1>9, <1>10 DEF Next

LEMMA AppendStep ==
    ASSUME SInv, [Next]_vars, NEW a \in Attempt, pc[a] = "replace", pc'[a] = "enqueue",
           work[a].how = "APPEND", Live(DocOf(a)), DocOf(a) \notin raced
    PROVE  \A p \in Piece : row'[DocOf(a)].text[p] >= row[DocOf(a)].text[p]
<1> USE DEF SInv, IInv
<1>1. UpsertReplace(a)
  BY WhoStores
<1>2. DocOf(a) \in Doc /\ work[a].seen = row[DocOf(a)]
  BY ReplaceBusy DEF SeenIsRow
<1>3. row'[DocOf(a)] = Upserted(work[a].seen, work[a].text, work[a].how)
  BY <1>1, <1>2 DEF UpsertReplace, TypeOK
<1>4. Upserted(work[a].seen, work[a].text, work[a].how).text =
        [p \in Piece |-> work[a].seen.text[p] + work[a].text[p]]
  BY <1>2 DEF Upserted, Live
<1>5. \A p \in Piece : row'[DocOf(a)].text[p] = row[DocOf(a)].text[p] + work[a].text[p]
  BY <1>2, <1>3, <1>4
<1>6. \A p \in Piece : row[DocOf(a)].text[p] \in Nat /\ work[a].text[p] \in Nat
  BY <1>2, Counts
<1>7. QED
  BY <1>5, <1>6

LEMMA LabelStep ==
    ASSUME SInv, [Next]_vars, NEW d \in Doc,
           Live(d), Live(d)', row[d].used, d \notin raced'
    PROVE  row'[d].used
<1> USE DEF SInv, IInv
<1>1. row[d] \in Row
  BY Counts
<1>2. CASE \E a \in Attempt : WriteStep(a)
  <2>1. PICK a \in Attempt : WriteStep(a)
    BY <1>2
  <2>2. CASE UpsertReplace(a)
    <3>1. /\ pc[a] = "replace" /\ UNCHANGED raced
          /\ row' = [row EXCEPT ![DocOf(a)] =
                        Upserted(work[a].seen, work[a].text, work[a].how)]
      BY <2>2 DEF UpsertReplace, history
    <3>2. CASE DocOf(a) = d
      <4>1. work[a].seen = row[d]
        BY <3>1, <3>2 DEF SeenIsRow
      <4>2. row'[d] = Upserted(row[d], work[a].text, work[a].how)
        BY <3>1, <3>2, <4>1 DEF TypeOK
      <4>3. row'[d].used = (row[d].life = "live" /\ row[d].used)
        BY <4>2 DEF Upserted
      <4>4. QED
        BY <4>3 DEF Live
    <3>3. CASE DocOf(a) # d
      BY <3>1, <3>3 DEF TypeOK
    <3>4. QED
      BY <3>2, <3>3
  <2>3. CASE UNCHANGED row
    BY <2>3
  <2>4. QED
    BY <2>1, <2>2, <2>3
       DEF WriteStep, CreateRead, MergeRead, Fuse, UpsertFind, WriteEnqueue
<1>3. CASE \E x \in Delete, e \in Doc : DeleteRow(x, e)
  BY <1>1, <1>3 DEF DeleteRow, Deleted, Live, TypeOK
<1>4. CASE \E u \in Wipe : WipeRows(u)
  BY <1>1, <1>4 DEF WipeRows, Deleted, Live
<1>5. CASE \E e \in Doc : RemoveItem(e)
  BY <1>1, <1>5 DEF RemoveItem, Deleted, Live, TypeOK
<1>6. CASE \E e \in Edit, f \in Doc : EditItem(e, f)
  BY <1>1, <1>6 DEF EditItem, TypeOK, Row
<1>7. CASE \E D \in SUBSET Doc : MarkUsed(D)
  BY <1>1, <1>7 DEF MarkUsed, Row
<1>8. CASE UNCHANGED row
  BY <1>8
<1>9. QED
  BY <1>2, <1>3, <1>4, <1>5, <1>6, <1>7, <1>8
     DEF Next, WriteStart, WriteRetry, Starts, DeleteEnqueue, WipeScan, WipeMark, WipeSkip,
         Worker, WorkerTake, WorkerApply, WorkerSkip, Restart, Crash, vars

-----------------------------------------------------------------------------
(* Theorems *)

\* The inductive invariant holds of every behaviour.
THEOREM Invariance == Spec => []IInv
<1>1. Init => IInv
  BY InitInv
<1>2. IInv /\ [Next]_vars => IInv'
  BY Step
<1>3. QED
  BY <1>1, <1>2, PTL DEF Spec

\* Rows, vectors, tasks and the locals of requests stay in their domains; the
\* index queue never holds more than QueueMax tasks.
THEOREM TypeCorrect == Spec => []TypeOK
<1>1. IInv => TypeOK
  BY DEF IInv
<1>2. QED
  BY <1>1, Invariance, PTL

\* No row of memory_data ever holds a contribution twice, whatever requests are
\* retried, overlap, crash or read stale rows.
THEOREM NothingStoredTwice == Spec => []StoredOnce
<1>1. IInv => StoredOnce
  BY DEF IInv, Contents
<1>2. QED
  BY <1>1, Invariance, PTL

\* What a delete erased from a row is in it again only if a write was under way
\* on the row when it was deleted.
THEOREM DeletionHolds == Spec => []ErasedStaysErased
<1>1. IInv => ErasedStaysErased
  BY DEF IInv, Contents
<1>2. QED
  BY <1>1, Invariance, PTL

LEMMA Overlaps == Spec => []SInv
<1>1. Init => SInv
  <2> SUFFICES ASSUME Init PROVE SInv
    OBVIOUS
  <2>1. IInv
    BY InitInv
  <2>2. InFlight = {} /\ \A a \in Attempt : pc[a] # "replace"
    BY Kinds DEF Init, InFlight
  <2>3. Alone /\ SeenIsRow
    BY <2>2 DEF Alone, SeenIsRow, Busy, Writing, Deleting
  <2>4. QED
    BY <2>1, <2>3 DEF SInv
<1>2. SInv /\ [Next]_vars => SInv'
  BY Step, StepAlone DEF SInv
<1>3. QED
  BY <1>1, <1>2, PTL DEF Spec

\* On a document that no two requests touched at the same time, an APPEND keeps
\* all that the row held, although it reads and writes the row in two calls.
THEOREM AppendKeeps == Spec => AppendLosesNothing
<1>1. SInv /\ [Next]_vars =>
        [\A a \in Attempt :
            /\ pc[a] = "replace" /\ pc'[a] = "enqueue" /\ work[a].how = "APPEND"
            /\ Live(DocOf(a)) /\ DocOf(a) \notin raced
            => \A p \in Piece : row'[DocOf(a)].text[p] >= row[DocOf(a)].text[p]]_vars
  BY AppendStep
<1>2. QED
  BY <1>1, Overlaps, PTL DEF Spec, AppendLosesNothing

\* On such a document no write takes the recently-used label off a live row.
THEOREM LabelSurvives == Spec => UsedLabelKept
<1>1. SInv /\ [Next]_vars =>
        [\A d \in Doc :
            Live(d) /\ Live(d)' /\ row[d].used /\ d \notin raced' => row'[d].used]_row
  BY LabelStep
<1>2. QED
  BY <1>1, Overlaps, PTL DEF Spec, UsedLabelKept

\* A document that no two requests touched at the same time loses neither text nor
\* label, although every write reads the row in one call and replaces it in another.
THEOREM LoneWriteSafe == Spec => LoneWriteKeeps
<1>1. QED
  BY AppendKeeps, LabelSurvives DEF LoneWriteKeeps

-----------------------------------------------------------------------------
(***************************************************************************)
(* The index follows the rows.  On a document that no two requests touched *)
(* at the same time, and whose changes all reached the queue: the last     *)
(* task for it in the queue, or else the one the worker holds, or else its *)
(* point, says what the row says, unless a request has changed the row and *)
(* has still to tell the index.                                            *)
(***************************************************************************)
HasDoc(q, d) == \E i \in DOMAIN q : q[i].doc = d

LastIn(q, i, d) == q[i].doc = d /\ \A j \in DOMAIN q : q[j].doc = d => j <= i

Says(t, r) ==
    IF r.life = "live" THEN t.action = "upsert" /\ t.text = r.text ELSE t.action = "delete"

Shown(v, r) ==
    IF r.life = "live" THEN v = [state |-> "hit", text |-> r.text] ELSE v.state # "hit"

Follows(q, w, v, r, d) ==
    /\ \A i \in DOMAIN q : LastIn(q, i, d) => Says(q[i], r)
    /\ ~HasDoc(q, d) => \A i \in DOMAIN w : w[i].doc = d => Says(w[i], r)
    /\ ~HasDoc(q, d) /\ ~HasDoc(w, d) => Shown(v, r)

\* Requests that have still to tell the index of d.
Telling(d)  == {a \in Attempt : pc[a] = "enqueue" /\ DocOf(a) = d}
Dropping(d) == {x \in Delete : pc[x] = "enqueue" /\ target[x] = d}
Wiping      == {u \in Wipe : pc[u] \in {"scan", "mark"}}

DocFollowed(d) ==
    /\ \A a \in Telling(d) : row[d].life = "live" /\ work[a].text = row[d].text
    /\ Dropping(d) # {} => row[d].life # "live"
    /\ Wiping # {} => row[d].life # "live" /\ ~HasDoc(queue, d) /\ ~HasDoc(working, d)
    /\ Telling(d) = {} /\ Dropping(d) = {} /\ Wiping = {} =>
            Follows(queue, working, vector[d], row[d], d)

IndexFollows == \A d \in Vectored \ (raced \cup adrift) : DocFollowed(d)

-----------------------------------------------------------------------------
(* The queue. *)

LEMMA AppendHas ==
    ASSUME NEW T, NEW q \in Seq(T), NEW t \in T, NEW p, p = Append(q, t), NEW d, t.doc # d
    PROVE  HasDoc(p, d) <=> HasDoc(q, d)
<1>1. /\ Len(q) \in Nat /\ DOMAIN q = 1 .. Len(q)
      /\ DOMAIN p = 1 .. Len(q) + 1 /\ p[Len(q) + 1] = t
      /\ \A i \in 1 .. Len(q) : p[i] = q[i]
  BY AppendProperties
<1>2. \A i \in DOMAIN p : p[i].doc = d => i \in DOMAIN q /\ p[i] = q[i]
  BY <1>1
<1>3. \A i \in DOMAIN q : i \in DOMAIN p /\ p[i] = q[i]
  BY <1>1
<1>4. QED
  BY <1>2, <1>3 DEF HasDoc

LEMMA AppendOther ==
    ASSUME NEW T, NEW q \in Seq(T), NEW t \in T, NEW p, p = Append(q, t), NEW d, t.doc # d,
           NEW w, NEW v, NEW r, Follows(q, w, v, r, d)
    PROVE  Follows(p, w, v, r, d)
<1>1. /\ Len(q) \in Nat /\ DOMAIN q = 1 .. Len(q)
      /\ DOMAIN p = 1 .. Len(q) + 1 /\ p[Len(q) + 1] = t
      /\ \A i \in 1 .. Len(q) : p[i] = q[i]
  BY AppendProperties
<1>2. \A i \in DOMAIN p : p[i].doc = d => i \in DOMAIN q /\ p[i] = q[i]
  BY <1>1
<1>3. \A i \in DOMAIN q : i \in DOMAIN p /\ p[i] = q[i]
  BY <1>1
<1>4. HasDoc(p, d) <=> HasDoc(q, d)
  BY AppendHas
<1>5. \A i \in DOMAIN p : LastIn(p, i, d) => i \in DOMAIN q /\ p[i] = q[i] /\ LastIn(q, i, d)
  BY <1>2, <1>3 DEF LastIn
<1>6. QED
  BY <1>4, <1>5 DEF Follows

LEMMA AppendOwn ==
    ASSUME NEW T, NEW q \in Seq(T), NEW t \in T, NEW p, p = Append(q, t), NEW d, t.doc = d,
           NEW w, NEW v, NEW r, Says(t, r)
    PROVE  Follows(p, w, v, r, d)
<1>1. /\ Len(q) \in Nat /\ DOMAIN p = 1 .. Len(q) + 1 /\ p[Len(q) + 1] = t
  BY AppendProperties
<1>2. HasDoc(p, d)
  BY <1>1 DEF HasDoc
<1>3. \A i \in DOMAIN p : LastIn(p, i, d) => i = Len(q) + 1
  BY <1>1 DEF LastIn
<1>4. QED
  BY <1>1, <1>2, <1>3 DEF Follows

LEMMA TakeHas ==
    ASSUME NEW T, NEW q \in Seq(T), q # <<>>, NEW d, ~HasDoc(q, d)
    PROVE  ~HasDoc(Tail(q), d) /\ ~HasDoc(<<Head(q)>>, d)
<1>1. /\ Len(q) \in Nat \ {0} /\ DOMAIN q = 1 .. Len(q)
      /\ DOMAIN Tail(q) = 1 .. Len(q) - 1 /\ Head(q) = q[1]
      /\ \A i \in 1 .. Len(q) - 1 : Tail(q)[i] = q[i + 1]
  BY HeadTailProperties, EmptySeq
<1>2. \A i \in DOMAIN Tail(q) : i + 1 \in DOMAIN q /\ Tail(q)[i] = q[i + 1]
  BY <1>1
<1>3. 1 \in DOMAIN q /\ \A i \in DOMAIN <<Head(q)>> : <<Head(q)>>[i] = q[1]
  BY <1>1
<1>4. QED
  BY <1>2, <1>3 DEF HasDoc

\* The worker takes the first task of the queue.
LEMMA TakeFirst ==
    ASSUME NEW T, NEW q \in Seq(T), q # <<>>, NEW d, NEW v, NEW r,
           Follows(q, <<>>, v, r, d)
    PROVE  Follows(Tail(q), <<Head(q)>>, v, r, d)
<1> DEFINE p == Tail(q)
           w == <<Head(q)>>
<1>1. /\ Len(q) \in Nat \ {0} /\ DOMAIN q = 1 .. Len(q)
      /\ p \in Seq(T) /\ Len(p) = Len(q) - 1 /\ DOMAIN p = 1 .. Len(q) - 1
      /\ \A i \in 1 .. Len(q) - 1 : p[i] = q[i + 1]
  BY HeadTailProperties, EmptySeq
<1>2. DOMAIN w = {1} /\ w[1] = q[1]
  OBVIOUS
<1> HIDE DEF p, w
<1>3. \A i \in DOMAIN p : i + 1 \in DOMAIN q /\ p[i] = q[i + 1]
  BY <1>1
<1>4. \A j \in DOMAIN q : j = 1 \/ (j - 1 \in DOMAIN p /\ p[j - 1] = q[j])
  BY <1>1
<1>5. ASSUME NEW i \in DOMAIN p, LastIn(p, i, d)
      PROVE  LastIn(q, i + 1, d)
  <2>1. q[i + 1].doc = d
    BY <1>3, <1>5 DEF LastIn
  <2>2. ASSUME NEW j \in DOMAIN q, q[j].doc = d
        PROVE  j <= i + 1
    <3>1. CASE j = 1
      BY <1>1, <3>1
    <3>2. CASE j - 1 \in DOMAIN p /\ p[j - 1] = q[j]
      <4>1. j - 1 <= i
        BY <1>5, <2>2, <3>2 DEF LastIn
      <4>2. QED
        BY <1>1, <4>1
    <3>3. QED
      BY <1>4, <3>1, <3>2
  <2>3. QED
    BY <2>1, <2>2 DEF LastIn
<1>6. \A i \in DOMAIN p : LastIn(p, i, d) => Says(p[i], r)
  BY <1>3, <1>5 DEF Follows
<1>7. ASSUME ~HasDoc(p, d), w[1].doc = d
      PROVE  Says(w[1], r)
  <2>1. \A j \in DOMAIN q : q[j].doc = d => j = 1
    BY <1>4, <1>7 DEF HasDoc
  <2>2. 1 \in DOMAIN q /\ LastIn(q, 1, d)
    BY <1>1, <1>2, <1>7, <2>1 DEF LastIn
  <2>3. QED
    BY <1>2, <2>2 DEF Follows
<1>8. ASSUME ~HasDoc(p, d), ~HasDoc(w, d)
      PROVE  Shown(v, r)
  <2>1. w[1].doc # d
    BY <1>2, <1>8 DEF HasDoc
  <2>2. ~HasDoc(q, d)
    BY <1>2, <1>4, <1>8, <2>1 DEF HasDoc
  <2>3. ~HasDoc(<<>>, d)
    BY DEF HasDoc
  <2>4. QED
    BY <2>2, <2>3 DEF Follows
<1>9. Follows(p, w, v, r, d)
  BY <1>2, <1>6, <1>7, <1>8 DEF Follows
<1>10. QED
  BY <1>9 DEF p, w

-----------------------------------------------------------------------------
(* One document through one step. *)

LEMMA TellersBusy ==
    ASSUME NEW d \in Doc
    PROVE  /\ Telling(d) \subseteq Busy(d) /\ Dropping(d) \subseteq Busy(d)
           /\ Wiping \subseteq Busy(d)
BY Kinds
   DEF Telling, Dropping, Wiping, Busy, Writing, Deleting, InFlight, Finished

\* On a document nobody raced for, a request that is under way is the only one.
LEMMA Sole ==
    ASSUME Alone, NEW d \in Doc, d \notin raced, NEW x \in Busy(d)
    PROVE  /\ Telling(d) \subseteq {x} /\ Dropping(d) \subseteq {x}
           /\ Wiping \subseteq {x}
BY TellersBusy DEF Alone

\* A step that leaves the requests and the row of d alone, and whatever it does
\* to the queue and the point keeps them in order.
LEMMA DocKept ==
    ASSUME NEW d, DocFollowed(d),
           Telling(d)' = Telling(d), Dropping(d)' = Dropping(d), Wiping' = Wiping,
           row'[d].life = row[d].life, row'[d].text = row[d].text,
           \A a \in Telling(d) : work'[a].text = work[a].text,
           ~HasDoc(queue, d) /\ ~HasDoc(working, d) =>
                ~HasDoc(queue', d) /\ ~HasDoc(working', d),
           Follows(queue, working, vector[d], row[d], d) =>
                Follows(queue', working', vector'[d], row[d], d)
    PROVE  DocFollowed(d)'
<1>1. /\ \A a \in Telling(d) : row'[d].life = "live" /\ work'[a].text = row'[d].text
      /\ Dropping(d) # {} => row'[d].life # "live"
      /\ Wiping # {} => row'[d].life # "live" /\ ~HasDoc(queue', d) /\ ~HasDoc(working', d)
  BY DEF DocFollowed
<1>2. Follows(queue', working', vector'[d], row[d], d) =>
        Follows(queue', working', vector'[d], row'[d], d)
  BY DEF Follows, Says, Shown
<1>3. Telling(d) = {} /\ Dropping(d) = {} /\ Wiping = {} =>
        Follows(queue', working', vector'[d], row'[d], d)
  BY <1>2 DEF DocFollowed
<1>4. QED
  BY <1>1, <1>3 DEF DocFollowed

\* Nor does it touch the queue or the point.
LEMMA DocStill ==
    ASSUME NEW d, DocFollowed(d),
           Telling(d)' = Telling(d), Dropping(d)' = Dropping(d), Wiping' = Wiping,
           row'[d].life = row[d].life, row'[d].text = row[d].text,
           \A a \in Telling(d) : work'[a].text = work[a].text,
           UNCHANGED <<queue, working>>, vector'[d] = vector[d]
    PROVE  DocFollowed(d)'
BY DocKept

\* The step of a request x that neither is nor becomes one with something to tell.
LEMMA TellersStay ==
    ASSUME NEW x, NEW d, UNCHANGED <<job, target>>,
           \A b \in Actor : b # x => pc'[b] = pc[b],
           pc[x] \notin {"enqueue", "scan", "mark"},
           pc'[x] \notin {"enqueue", "scan", "mark"}
    PROVE  Telling(d)' = Telling(d) /\ Dropping(d)' = Dropping(d) /\ Wiping' = Wiping
BY Kinds DEF Telling, Dropping, Wiping, DocOf

-----------------------------------------------------------------------------
(* The steps. *)

LEMMA StartFollowed ==
    ASSUME SInv, NEW a \in Attempt, NEW j \in Job, Starts(a, j),
           job' = [job EXCEPT ![a[1]] = j], job[a[1]] \in {j, NoJob},
           NEW d \in Doc, DocFollowed(d)
    PROVE  DocFollowed(d)'
<1> USE Kinds DEF SInv, IInv
<1>1. /\ pc[a] = "idle" /\ pc' = [pc EXCEPT ![a] = FirstStep(j)]
      /\ UNCHANGED <<row, queue, working, vector, target>>
      /\ \A b \in Attempt : b # a => work'[b] = work[b]
  BY DEF Starts, Goto, index, TypeOK
<1>2. /\ FirstStep(j) # "enqueue"
      /\ \A b \in Actor : b # a => pc'[b] = pc[b]
      /\ pc'[a] = FirstStep(j)
  BY <1>1 DEF TypeOK, FirstStep
<1>3. \A b \in Attempt : b # a /\ pc[b] # "idle" => DocOf(b)' = DocOf(b)
  <2> SUFFICES ASSUME NEW b \in Attempt, b # a, pc[b] # "idle"
      PROVE  job'[b[1]] = job[b[1]]
    BY DEF DocOf
  <2>1. job[b[1]] # NoJob
    BY NoJobFact DEF Places
  <2>2. QED
    BY <2>1, AttemptParts DEF TypeOK
<1>4. Telling(d)' = Telling(d) /\ a \notin Telling(d)
  BY <1>1, <1>2, <1>3 DEF Telling
<1>5. Dropping(d)' = Dropping(d) /\ Wiping' = Wiping
  BY <1>1, <1>2 DEF Dropping, Wiping
<1>6. \A b \in Telling(d) : work'[b].text = work[b].text
  BY <1>1, <1>4 DEF Telling
<1>7. QED
  BY <1>1, <1>4, <1>5, <1>6, DocStill

\* What a write has stored is what it is about to tell.
LEMMA StoreFollowed ==
    ASSUME SInv, NEW a \in Attempt, UpsertReplace(a),
           NEW d \in Doc, d \notin raced, DocFollowed(d)
    PROVE  DocFollowed(d)'
<1> USE Kinds DEF SInv, IInv
<1> DEFINE new == Upserted(work[a].seen, work[a].text, work[a].how)
<1>1. /\ pc[a] = "replace" /\ pc' = [pc EXCEPT ![a] = "enqueue"]
      /\ row' = [row EXCEPT ![DocOf(a)] = new]
      /\ work' = [work EXCEPT ![a] = [NoWork EXCEPT !.text = new.text]]
      /\ UNCHANGED <<queue, working, vector, job, target>>
      /\ new.life = "live"
  BY DEF UpsertReplace, Goto, index, Upserted
<1>2. [NoWork EXCEPT !.text = new.text].text = new.text
  BY DEF NoWork
<1> HIDE DEF new
<1>3. /\ \A b \in Actor : b # a => pc'[b] = pc[b]
      /\ pc'[a] = "enqueue"
      /\ \A b \in Attempt : b # a => work'[b] = work[b]
      /\ work'[a].text = new.text
  BY <1>1, <1>2 DEF TypeOK
<1>4. CASE DocOf(a) = d
  <2>1. a \in Busy(d)
    BY <1>1, <1>4, ReplaceBusy
  <2>2. Telling(d) = {} /\ Dropping(d) = {} /\ Wiping = {}
    BY <1>1, <2>1, Sole DEF Telling, Dropping, Wiping
  <2>3. Telling(d)' = {a}
    BY <1>1, <1>3, <1>4, <2>2 DEF Telling, DocOf
  <2>4. Dropping(d)' = {} /\ Wiping' = {}
    BY <1>1, <1>3, <2>2 DEF Dropping, Wiping
  <2>5. row'[d] = new
    BY <1>1, <1>4 DEF TypeOK
  <2>6. QED
    BY <1>1, <1>3, <2>3, <2>4, <2>5 DEF DocFollowed
<1>5. CASE DocOf(a) # d
  <2>1. Telling(d)' = Telling(d) /\ a \notin Telling(d)
    BY <1>1, <1>3, <1>5 DEF Telling, DocOf
  <2>2. Dropping(d)' = Dropping(d) /\ Wiping' = Wiping
    BY <1>1, <1>3 DEF Dropping, Wiping
  <2>3. row'[d] = row[d] /\ \A b \in Telling(d) : work'[b].text = work[b].text
    BY <1>1, <1>3, <1>5, <2>1 DEF TypeOK, Telling
  <2>4. QED
    BY <1>1, <2>1, <2>2, <2>3, DocStill
<1>6. QED
  BY <1>4, <1>5

\* A task reaches the queue, or its document is adrift.
LEMMA Queued ==
    ASSUME TypeOK, NEW e \in Doc, NEW action \in {"upsert", "delete"}, NEW value \in Text,
           Enqueue(e, action, value), NEW d \in Vectored, d \notin adrift',
           NEW w, NEW v, NEW r
    PROVE  /\ e = d /\ Says(Task(d, action, value), r) => Follows(queue', w, v, r, d)
           /\ e # d /\ Follows(queue, w, v, r, d) => Follows(queue', w, v, r, d)
           /\ e # d => (HasDoc(queue', d) <=> HasDoc(queue, d))
<1> DEFINE t == Task(e, action, value)
<1>1. CASE queue' = Append(queue, t) /\ e \in Vectored
  <2>1. t \in Tasks /\ t.doc = e
    BY <1>1 DEF Task, Tasks
  <2>2. queue \in Seq(Tasks)
    BY DEF TypeOK
  <2>3. e = d /\ Says(t, r) => Follows(queue', w, v, r, d)
    BY <1>1, <2>1, <2>2, AppendOwn
  <2>4. e # d /\ Follows(queue, w, v, r, d) => Follows(queue', w, v, r, d)
    BY <1>1, <2>1, <2>2, AppendOther
  <2>5. e # d => (HasDoc(queue', d) <=> HasDoc(queue, d))
    BY <1>1, <2>1, <2>2, AppendHas
  <2>6. QED
    BY <2>3, <2>4, <2>5
<1>2. CASE UNCHANGED queue /\ e # d
  BY <1>2
<1>3. QED
  BY <1>1, <1>2 DEF Enqueue

LEMMA TellFollowed ==
    ASSUME SInv, NEW a \in Attempt, WriteEnqueue(a),
           NEW d \in Vectored, d \notin raced, d \notin adrift', DocFollowed(d)
    PROVE  DocFollowed(d)'
<1> USE Kinds, DataConstantsOK DEF SInv, IInv
<1>1. /\ pc[a] = "enqueue" /\ pc' = [pc EXCEPT ![a] = "done"]
      /\ work' = [work EXCEPT ![a] = NoWork]
      /\ UNCHANGED <<row, working, vector, job, target>>
  BY DEF WriteEnqueue, Goto
<1>2. /\ \A b \in Actor : b # a => pc'[b] = pc[b]
      /\ pc'[a] = "done"
      /\ \A b \in Attempt : b # a => work'[b] = work[b]
      /\ work[a].text \in Text
      /\ DocOf(a) \in Doc
  BY <1>1, DocOfType DEF TypeOK
<1>3. CASE DocOf(a) = d
  <2>1. a \in Telling(d) /\ a \in Busy(d)
    BY <1>1, <1>3, TellersBusy DEF Telling
  <2>2. Telling(d) \subseteq {a} /\ Dropping(d) = {} /\ Wiping = {}
    BY <2>1, Sole DEF Dropping, Wiping
  <2>3. Telling(d)' = {}
    BY <1>1, <1>2, <2>2 DEF Telling, DocOf
  <2>4. Dropping(d)' = {} /\ Wiping' = {}
    BY <1>1, <1>2, <2>2 DEF Dropping, Wiping
  <2>5. Says(Task(d, "upsert", work[a].text), row[d])
    BY <2>1 DEF DocFollowed, Says, Task
  <2>6. Enqueue(d, "upsert", work[a].text)
    BY <1>3 DEF WriteEnqueue
  <2>7. Follows(queue', working, vector[d], row[d], d)
    BY <1>2, <2>5, <2>6, Queued
  <2>8. QED
    BY <1>1, <2>3, <2>4, <2>7 DEF DocFollowed
<1>4. CASE DocOf(a) # d
  <2>1. Telling(d)' = Telling(d) /\ a \notin Telling(d)
    BY <1>1, <1>2, <1>4 DEF Telling, DocOf
  <2>2. Dropping(d)' = Dropping(d) /\ Wiping' = Wiping
    BY <1>1, <1>2 DEF Dropping, Wiping
  <2>3. \A b \in Telling(d) : work'[b].text = work[b].text
    BY <1>2, <2>1 DEF Telling
  <2>4. /\ Follows(queue, working, vector[d], row[d], d) =>
                Follows(queue', working, vector[d], row[d], d)
        /\ HasDoc(queue', d) => HasDoc(queue, d)
    <3>1. CASE Enqueue(DocOf(a), "upsert", work[a].text)
      BY <1>2, <1>4, <3>1, Queued
    <3>2. CASE UNCHANGED queue
      BY <3>2
    <3>3. QED
      BY <3>1, <3>2 DEF WriteEnqueue
  <2>5. QED
    BY <1>1, <2>1, <2>2, <2>3, <2>4, DocKept
<1>5. QED
  BY <1>3, <1>4

LEMMA DeleteFollowed ==
    ASSUME SInv, NEW x \in Delete, NEW e \in Doc, DeleteRow(x, e) \/ DeleteEnqueue(x),
           NEW d \in Vectored, d \notin raced', d \notin adrift', DocFollowed(d)
    PROVE  DocFollowed(d)'
<1> USE Kinds, DataConstantsOK DEF SInv, IInv
<1>1. CASE DeleteRow(x, e)
  <2>1. /\ pc[x] = "idle" /\ pc' = [pc EXCEPT ![x] = "enqueue"]
        /\ row' = [row EXCEPT ![e] = Deleted(@)]
        /\ target' = [target EXCEPT ![x] = e]
        /\ UNCHANGED <<queue, working, vector, job, work>> /\ Begins({e})
    BY <1>1 DEF DeleteRow, Goto, index
  <2>2. /\ \A b \in Actor : b # x => pc'[b] = pc[b]
        /\ pc'[x] = "enqueue" /\ target'[x] = e
        /\ \A y \in Delete : y # x => target'[y] = target[y]
    BY <2>1 DEF TypeOK
  <2>3. Telling(d)' = Telling(d) /\ Wiping' = Wiping
    BY <2>1, <2>2 DEF Telling, Wiping, DocOf
  <2>4. CASE e = d
    <3>1. Busy(d) = {}
      BY <2>1, <2>4 DEF Begins
    <3>2. Telling(d)' = {} /\ Wiping' = {}
      BY <2>3, <3>1, TellersBusy
    <3>3. x \in Dropping(d)'
      BY <2>2, <2>4 DEF Dropping
    <3>4. row'[d].life # "live"
      BY <2>1, <2>4 DEF TypeOK, Row, Deleted
    <3>5. QED
      BY <3>2, <3>3, <3>4 DEF DocFollowed
  <2>5. CASE e # d
    <3>1. Dropping(d)' = Dropping(d)
      BY <2>1, <2>2, <2>5 DEF Dropping
    <3>2. row'[d] = row[d]
      BY <2>1, <2>5 DEF TypeOK
    <3>3. QED
      BY <2>1, <2>3, <3>1, <3>2, DocStill
  <2>6. QED
    BY <2>4, <2>5
<1>2. CASE DeleteEnqueue(x)
  <2>1. /\ pc[x] = "enqueue" /\ pc' = [pc EXCEPT ![x] = "done"]
        /\ Enqueue(target[x], "delete", Nothing)
        /\ UNCHANGED <<row, working, vector, job, work, target, raced>>
    BY <1>2 DEF DeleteEnqueue, Goto, locals
  <2>2. /\ \A b \in Actor : b # x => pc'[b] = pc[b]
        /\ pc'[x] = "done"
        /\ target[x] \in Doc /\ Nothing \in Text
    BY <2>1, Texts DEF TypeOK, Places
  <2>3. Telling(d)' = Telling(d) /\ Wiping' = Wiping
    BY <2>1, <2>2 DEF Telling, Wiping, DocOf
  <2>4. CASE target[x] = d
    <3>1. x \in Dropping(d) /\ x \in Busy(d) /\ d \notin raced
      BY <2>1, <2>4, TellersBusy DEF Dropping
    <3>2. Dropping(d) \subseteq {x} /\ Telling(d) = {} /\ Wiping = {}
      BY <3>1, Sole DEF Telling, Wiping
    <3>3. Dropping(d)' = {}
      BY <2>1, <2>2, <3>2 DEF Dropping
    <3>4. Says(Task(d, "delete", Nothing), row[d])
      BY <3>1 DEF DocFollowed, Says, Task
    <3>5. Follows(queue', working, vector[d], row[d], d)
      BY <2>1, <2>2, <2>4, <3>4, Queued
    <3>6. QED
      BY <2>1, <2>3, <3>2, <3>3, <3>5 DEF DocFollowed
  <2>5. CASE target[x] # d
    <3>1. Dropping(d)' = Dropping(d)
      BY <2>1, <2>2, <2>5 DEF Dropping
    <3>2. /\ Follows(queue, working, vector[d], row[d], d) =>
                Follows(queue', working, vector[d], row[d], d)
          /\ HasDoc(queue', d) => HasDoc(queue, d)
      BY <2>1, <2>2, <2>5, Queued
    <3>3. QED
      BY <2>1, <2>3, <3>1, <3>2, DocKept
  <2>6. QED
    BY <2>4, <2>5
<1>3. QED
  BY <1>1, <1>2

\* A delete-all finds nothing on its way to the index, and marks what is there.
LEMMA WipeFollowed ==
    ASSUME SInv, NEW u \in Wipe,
           WipeRows(u) \/ WipeScan(u) \/ WipeMark(u) \/ WipeSkip(u),
           NEW d \in Vectored, d \notin raced', d \notin adrift', DocFollowed(d)
    PROVE  DocFollowed(d)'
<1> USE Kinds, DataConstantsOK DEF SInv, IInv
<1>1. PICK l \in {"scan", "mark", "done"} : pc' = [pc EXCEPT ![u] = l]
  BY DEF WipeRows, WipeScan, WipeMark, WipeSkip, Goto
<1>2. /\ \A b \in Actor : b # u => pc'[b] = pc[b]
      /\ pc'[u] = l
      /\ UNCHANGED <<queue, working, job, work, target>>
  BY <1>1 DEF WipeRows, WipeScan, WipeMark, WipeSkip, TypeOK, index, locals
<1>3. Telling(d)' = Telling(d) /\ Dropping(d)' = Dropping(d)
  BY <1>2 DEF Telling, Dropping, DocOf
<1>4. CASE WipeRows(u)
  <2>1. /\ Begins(Doc) /\ row'[d] = Deleted(row[d])
        /\ ~HasDoc(queue, d) /\ ~HasDoc(working, d)
    BY <1>4 DEF WipeRows, Backlog, Holding, HasDoc
  <2>2. Busy(d) = {}
    BY <2>1 DEF Begins
  <2>3. Telling(d)' = {} /\ Dropping(d)' = {}
    BY <1>3, <2>2, TellersBusy
  <2>4. u \in Wiping'
    BY <1>2, <1>4 DEF WipeRows, Goto, TypeOK, Wiping
  <2>5. row'[d].life # "live"
    BY <2>1 DEF TypeOK, Row, Deleted
  <2>6. QED
    BY <1>2, <2>1, <2>3, <2>4, <2>5 DEF DocFollowed
<1>5. CASE WipeScan(u) \/ WipeMark(u) \/ WipeSkip(u)
  <2>1. u \in Wiping /\ UNCHANGED <<row, raced>>
    BY <1>5 DEF WipeScan, WipeMark, WipeSkip, Wiping, history
  <2>2. u \in Busy(d)
    BY <2>1, TellersBusy
  <2>3. Wiping = {u} /\ Telling(d) = {} /\ Dropping(d) = {}
    BY <2>1, <2>2, Sole DEF Telling, Dropping
  <2>4. row[d].life # "live" /\ ~HasDoc(queue, d) /\ ~HasDoc(working, d)
    BY <2>3 DEF DocFollowed
  <2>5. CASE l \in {"scan", "mark"}
    <3>1. Wiping' = Wiping /\ UNCHANGED vector
      BY <1>1, <1>2, <1>5, <2>3, <2>5
         DEF Wiping, WipeScan, WipeMark, WipeSkip, Goto, index, TypeOK
    <3>2. QED
      BY <1>2, <1>3, <2>1, <3>1, DocStill
  <2>6. CASE l = "done"
    <3>1. vector'[d].state # "hit"
      <4>1. CASE WipeMark(u)
        BY <4>1 DEF WipeMark, Hidden, TypeOK, Point
      <4>2. CASE WipeSkip(u)
        BY <4>2 DEF WipeSkip, Searchable, index
      <4>3. CASE WipeScan(u)
        <5>1. pc'[u] = "mark" \/ Searchable = {}
          BY <4>3 DEF WipeScan, Goto, TypeOK
        <5>2. QED
          BY <1>2, <2>6, <4>3, <5>1 DEF WipeScan, Searchable, index
      <4>4. QED
        BY <1>5, <4>1, <4>2, <4>3
    <3>2. Wiping' = {}
      BY <1>2, <2>3, <2>6 DEF Wiping
    <3>3. Follows(queue', working', vector'[d], row'[d], d)
      BY <1>2, <2>1, <2>4, <3>1 DEF Follows, LastIn, Shown, HasDoc
    <3>4. QED
      BY <1>3, <2>3, <3>2, <3>3 DEF DocFollowed
  <2>7. QED
    BY <2>5, <2>6
<1>6. QED
  BY <1>4, <1>5

\* An edited or removed item is adrift; a label changes nothing the index shows.
LEMMA EditFollowed ==
    ASSUME SInv, \/ \E e \in Edit, f \in Doc : EditItem(e, f)
                 \/ \E f \in Doc : RemoveItem(f)
                 \/ \E D \in SUBSET Doc : MarkUsed(D),
           NEW d \in Vectored, d \notin adrift', DocFollowed(d)
    PROVE  DocFollowed(d)'
<1> USE Kinds, DataConstantsOK DEF SInv, IInv
<1>1. /\ UNCHANGED <<queue, working, vector, job, work, target>>
      /\ row'[d].life = row[d].life /\ row'[d].text = row[d].text
  <2>1. UNCHANGED <<queue, working, vector, job, work, target>>
    BY DEF EditItem, RemoveItem, MarkUsed, index, locals
  <2>2. CASE \E D \in SUBSET Doc : MarkUsed(D)
    BY <2>1, <2>2 DEF MarkUsed, TypeOK, Row
  <2>3. CASE \E e \in Edit, f \in Doc : EditItem(e, f)
    BY <2>1, <2>3 DEF EditItem, TypeOK
  <2>4. CASE \E f \in Doc : RemoveItem(f)
    BY <2>1, <2>4 DEF RemoveItem, TypeOK
  <2>5. QED
    BY <2>1, <2>2, <2>3, <2>4
<1>2. Telling(d)' = Telling(d) /\ Dropping(d)' = Dropping(d) /\ Wiping' = Wiping
  <2>1. ASSUME NEW e \in Edit, NEW f \in Doc, EditItem(e, f)
        PROVE  Telling(d)' = Telling(d) /\ Dropping(d)' = Dropping(d) /\ Wiping' = Wiping
    <3>1. pc'[e] = "done" /\ \A b \in Actor : b # e => pc'[b] = pc[b]
      BY <2>1 DEF EditItem, Goto, TypeOK
    <3>2. pc[e] = "idle"
      BY <2>1 DEF EditItem
    <3>3. QED
      BY <1>1, <3>1, <3>2, TellersStay
  <2>2. CASE UNCHANGED pc
    BY <1>1, <2>2 DEF Telling, Dropping, Wiping, DocOf
  <2>3. QED
    BY <2>1, <2>2 DEF RemoveItem, MarkUsed
<1>3. QED
  BY <1>1, <1>2, DocStill

\* The worker does what the last word of the queue, or what it holds, says.
LEMMA WorkerFollowed ==
    ASSUME TypeOK, Worker, NEW d \in Vectored, d \notin adrift', DocFollowed(d)
    PROVE  DocFollowed(d)'
<1>1. /\ UNCHANGED <<row, pc, job, work, target>>
  BY DEF Worker, WorkerTake, WorkerApply, WorkerSkip, locals
<1>2. Telling(d)' = Telling(d) /\ Dropping(d)' = Dropping(d) /\ Wiping' = Wiping
  BY <1>1 DEF Telling, Dropping, Wiping, DocOf
<1>3. CASE WorkerTake
  <2>1. /\ working = <<>> /\ queue # <<>> /\ queue \in Seq(Tasks)
        /\ working' = <<Head(queue)>> /\ queue' = Tail(queue) /\ UNCHANGED vector
    BY <1>3 DEF WorkerTake, TypeOK
  <2>2. ~HasDoc(queue, d) => ~HasDoc(queue', d) /\ ~HasDoc(working', d)
    BY <2>1, TakeHas
  <2>3. Follows(queue, working, vector[d], row[d], d) =>
            Follows(queue', working', vector'[d], row[d], d)
    BY <2>1, TakeFirst
  <2>4. QED
    BY <1>1, <1>2, <2>2, <2>3, DocKept
<1>4. CASE WorkerApply \/ WorkerSkip
  <2> DEFINE t == working[1]
  <2>1. /\ UNCHANGED queue /\ working' = <<>>
        /\ DOMAIN working = {1} /\ t \in Tasks
    <3>1. working # <<>> /\ working \in Seq(Tasks) /\ Len(working) <= 1
      BY <1>4 DEF WorkerApply, WorkerSkip, TypeOK
    <3>2. Len(working) \in Nat /\ DOMAIN working = 1 .. Len(working) /\ Len(working) # 0
      BY <3>1, EmptySeq, LenProperties
    <3>3. Len(working) = 1
      BY <3>1, <3>2
    <3>4. DOMAIN working = {1}
      BY <3>2, <3>3
    <3>5. QED
      BY <1>4, <3>1, <3>3, <3>4, ElementOfSeq DEF WorkerApply, WorkerSkip
  <2>2. ~HasDoc(working', d)
    BY <2>1 DEF HasDoc
  <2>3. CASE t.doc # d
    <3>1. vector'[d] = vector[d]
      BY <1>4, <2>3, DataConstantsOK DEF WorkerApply, WorkerSkip, TypeOK
    <3>2. ~HasDoc(working, d)
      BY <2>1, <2>3 DEF HasDoc
    <3>3. Follows(queue, working, vector[d], row[d], d) =>
            Follows(queue', working', vector'[d], row[d], d)
      BY <2>1, <2>2, <3>1, <3>2 DEF Follows
    <3>4. QED
      BY <1>1, <1>2, <2>1, <2>2, <3>3, DocKept
  <2>4. CASE t.doc = d
    <3>1. WorkerApply
      BY <1>4, <2>4 DEF WorkerSkip
    <3>2. HasDoc(working, d)
      BY <2>1, <2>4 DEF HasDoc
    <3>3. vector[d] \in Point
      BY DataConstantsOK DEF TypeOK
    <3>4. vector'[d] = IF t.action = "upsert" THEN [state |-> "hit", text |-> t.text]
                       ELSE Hidden(vector[d])
      BY <2>1, <2>4, <3>1, DataConstantsOK DEF WorkerApply, TypeOK, Tasks
    <3>5. Says(t, row[d]) => Shown(vector'[d], row[d])
      BY <3>3, <3>4 DEF Says, Shown, Hidden, Point
    <3>6. ASSUME Follows(queue, working, vector[d], row[d], d)
          PROVE  Follows(queue', working', vector'[d], row[d], d)
      <4>1. ~HasDoc(queue, d) => Says(t, row[d])
        BY <2>1, <2>4, <3>6 DEF Follows
      <4>2. QED
        BY <2>1, <3>5, <3>6, <4>1 DEF Follows
    <3>7. QED
      BY <1>1, <1>2, <2>1, <2>2, <3>6, DocKept
  <2>5. QED
    BY <2>3, <2>4
<1>5. QED
  BY <1>3, <1>4 DEF Worker

LEMMA CrashFollowed ==
    ASSUME SInv, NEW a \in Actor, Crash(a),
           NEW d \in Vectored, d \notin adrift', DocFollowed(d)
    PROVE  DocFollowed(d)'
<1> USE Kinds, DataConstantsOK DEF SInv, IInv
<1>1. /\ UNCHANGED <<row, queue, working, vector, job, target>>
      /\ a \in InFlight /\ a \notin Wipe
      /\ pc' = [pc EXCEPT ![a] = "crashed"]
      /\ work' = [b \in Attempt |-> IF b = a THEN NoWork ELSE work[b]]
  BY DEF Crash, Goto, index
<1>2. pc'[a] = "crashed" /\ \A b \in Actor : b # a => pc'[b] = pc[b]
  BY <1>1 DEF TypeOK
<1>3. a \notin Telling(d) /\ a \notin Dropping(d)
  BY <1>1 DEF Crash, Telling, Dropping
<1>4. Telling(d)' = Telling(d) /\ Dropping(d)' = Dropping(d) /\ Wiping' = Wiping
  BY <1>1, <1>2, <1>3 DEF Telling, Dropping, Wiping, DocOf
<1>5. \A b \in Telling(d) : work'[b].text = work[b].text
  BY <1>1, <1>3 DEF Telling
<1>6. QED
  BY <1>1, <1>4, <1>5, DocStill


\* The documents on which requests overlapped, and those adrift, only grow.
LEMMA HistoryGrows ==
    TypeOK /\ [Next]_vars => raced \subseteq raced' /\ adrift \subseteq adrift'
<1> SUFFICES ASSUME TypeOK, [Next]_vars
    PROVE  raced \subseteq raced' /\ adrift \subseteq adrift'
  OBVIOUS
<1> USE DEF Begins, history, TypeOK
<1>1. CASE \/ \E w \in Write, j \in Jobs : WriteStart(w, j)
           \/ \E w \in Write, n \in 1 .. MaxAttempts : WriteRetry(w, n)
  BY <1>1 DEF WriteStart, WriteRetry, Starts
<1>2. CASE \E a \in Attempt : WriteStep(a)
  BY <1>2 DEF WriteStep, CreateRead, MergeRead, Fuse, UpsertFind, UpsertReplace,
              WriteEnqueue, Enqueue
<1>3. CASE \/ \E x \in Delete, d \in Doc : DeleteRow(x, d)
           \/ \E x \in Delete : DeleteEnqueue(x)
  BY <1>3 DEF DeleteRow, DeleteEnqueue, Enqueue
<1>4. CASE \E u \in Wipe : WipeRows(u) \/ WipeScan(u) \/ WipeMark(u) \/ WipeSkip(u)
  BY <1>4 DEF WipeRows, WipeScan, WipeMark, WipeSkip
<1>5. CASE \/ \E D \in SUBSET Doc : MarkUsed(D)
           \/ \E e \in Edit, d \in Doc : EditItem(e, d)
           \/ \E d \in Doc : RemoveItem(d)
  BY <1>5 DEF MarkUsed, EditItem, RemoveItem
<1>6. CASE Worker \/ Restart \/ (\E a \in Actor : Crash(a)) \/ UNCHANGED vars
  BY <1>6 DEF Worker, WorkerTake, WorkerApply, WorkerSkip, Restart, Crash, vars
<1>7. QED
  BY <1>1, <1>2, <1>3, <1>4, <1>5, <1>6 DEF Next

LEMMA StepFollowed == SInv /\ IndexFollows /\ [Next]_vars => IndexFollows'
<1> SUFFICES ASSUME SInv, IndexFollows, [Next]_vars,
                    NEW d \in Vectored, d \notin raced', d \notin adrift'
    PROVE  DocFollowed(d)'
  BY DEF IndexFollows
<1>1. d \in Doc /\ d \notin raced /\ DocFollowed(d) /\ TypeOK
  BY HistoryGrows, DataConstantsOK DEF IndexFollows, SInv, IInv
<1>2. ASSUME NEW w \in Write, NEW j \in Jobs, WriteStart(w, j) PROVE DocFollowed(d)'
  <2>1. /\ <<w, 1>> \in Attempt /\ <<w, 1>>[1] = w /\ j \in Job
    BY AttemptParts, DataConstantsOK
  <2>2. QED
    BY <1>1, <1>2, <2>1, StartFollowed DEF WriteStart
<1>3. ASSUME NEW w \in Write, NEW n \in 1 .. MaxAttempts, WriteRetry(w, n)
      PROVE  DocFollowed(d)'
  <2>1. /\ <<w, n + 1>> \in Attempt /\ <<w, n + 1>>[1] = w
    BY <1>3, AttemptParts, DataConstantsOK DEF WriteRetry
  <2>2. job[w] \in Job /\ job' = [job EXCEPT ![w] = job[w]]
    BY <1>1, <1>3 DEF WriteRetry, TypeOK, NoJob
  <2>3. QED
    BY <1>1, <1>3, <2>1, <2>2, StartFollowed DEF WriteRetry
<1>4. ASSUME NEW a \in Attempt, WriteStep(a) PROVE DocFollowed(d)'
  <2>1. CASE UpsertReplace(a)
    BY <1>1, <2>1, StoreFollowed
  <2>2. CASE WriteEnqueue(a)
    BY <1>1, <2>2, TellFollowed
  <2>3. CASE CreateRead(a) \/ MergeRead(a) \/ Fuse(a) \/ UpsertFind(a)
    <3>1. /\ UNCHANGED <<row, queue, working, vector, job, target>>
          /\ pc[a] \notin {"enqueue", "scan", "mark"}
          /\ pc'[a] \notin {"enqueue", "scan", "mark"}
          /\ \A b \in Actor : b # a => pc'[b] = pc[b]
          /\ \A b \in Attempt : b # a => work'[b] = work[b]
      BY <1>1, <2>3, Kinds
         DEF CreateRead, MergeRead, Fuse, UpsertFind, Goto, index, locals, TypeOK
    <3>2. Telling(d)' = Telling(d) /\ Dropping(d)' = Dropping(d) /\ Wiping' = Wiping
      BY <3>1, TellersStay
    <3>3. \A b \in Telling(d) : work'[b].text = work[b].text
      BY <3>1 DEF Telling
    <3>4. QED
      BY <1>1, <3>1, <3>2, <3>3, DocStill
  <2>4. QED
    BY <1>4, <2>1, <2>2, <2>3 DEF WriteStep
<1>5. ASSUME NEW x \in Delete, NEW e \in Doc, DeleteRow(x, e) PROVE DocFollowed(d)'
  BY <1>1, <1>5, DeleteFollowed
<1>6. ASSUME NEW x \in Delete, DeleteEnqueue(x) PROVE DocFollowed(d)'
  BY <1>1, <1>6, DeleteFollowed
<1>7. ASSUME NEW u \in Wipe, WipeRows(u) \/ WipeScan(u) \/ WipeMark(u) \/ WipeSkip(u)
      PROVE  DocFollowed(d)'
  BY <1>1, <1>7, WipeFollowed
<1>8. ASSUME \/ \E e \in Edit, f \in Doc : EditItem(e, f)
             \/ \E f \in Doc : RemoveItem(f)
             \/ \E D \in SUBSET Doc : MarkUsed(D)
      PROVE  DocFollowed(d)'
  BY <1>1, <1>8, EditFollowed
<1>9. ASSUME Worker PROVE DocFollowed(d)'
  BY <1>1, <1>9, WorkerFollowed
<1>10. ASSUME NEW a \in Actor, Crash(a) PROVE DocFollowed(d)'
  BY <1>1, <1>10, CrashFollowed
<1>11. ~Restart
  BY <1>1 DEF Restart
<1>12. ASSUME UNCHANGED vars PROVE DocFollowed(d)'
  <2>1. UNCHANGED <<row, queue, working, vector, pc, job, work, target>>
    BY <1>12 DEF vars, index, locals
  <2>2. Telling(d)' = Telling(d) /\ Dropping(d)' = Dropping(d) /\ Wiping' = Wiping
    BY <2>1 DEF Telling, Dropping, Wiping, DocOf
  <2>3. QED
    BY <1>1, <2>1, <2>2, DocStill
<1>13. QED
  BY <1>2, <1>3, <1>4, <1>5, <1>6, <1>7, <1>8, <1>9, <1>10, <1>11, <1>12 DEF Next

\* "Mongo primary, vector index eventual consistency": when the queue is drained, a
\* document whose requests did not overlap and all reached the queue is found by its
\* current value if it is live, and is not found if it is deleted, for any queue size.
THEOREM IndexKept == Spec => []IndexAgrees
<1>1. Init => IndexFollows
  <2> SUFFICES ASSUME Init, NEW d \in Vectored PROVE DocFollowed(d)
    BY DEF IndexFollows
  <2>1. /\ queue = <<>> /\ working = <<>> /\ d \in Doc
        /\ vector[d].state = "none" /\ row[d].life = "absent"
    BY DataConstantsOK DEF Init, NoPoint, NoRow
  <2>2. Telling(d) = {} /\ Dropping(d) = {} /\ Wiping = {}
    BY Kinds DEF Init, Telling, Dropping, Wiping
  <2>3. Follows(queue, working, vector[d], row[d], d)
    BY <2>1 DEF Follows, Shown
  <2>4. QED
    BY <2>2, <2>3 DEF DocFollowed
<1>2. SInv /\ IndexFollows /\ [Next]_vars => IndexFollows'
  BY StepFollowed
<1>3. IndexFollows => IndexAgrees
  <2> SUFFICES ASSUME IndexFollows, Drained, NEW d \in Vectored \ (raced \cup adrift),
                      Busy(d) = {}
      PROVE  IF Live(d) THEN vector[d] = [state |-> "hit", text |-> row[d].text]
             ELSE vector[d].state # "hit"
    BY DEF IndexAgrees
  <2>1. Telling(d) = {} /\ Dropping(d) = {} /\ Wiping = {}
    BY TellersBusy, DataConstantsOK
  <2>2. ~HasDoc(queue, d) /\ ~HasDoc(working, d)
    BY DEF Drained, HasDoc
  <2>3. Shown(vector[d], row[d])
    BY <2>1, <2>2 DEF IndexFollows, DocFollowed, Follows
  <2>4. QED
    BY <2>3 DEF Shown, Live
<1>4. QED
  BY <1>1, <1>2, <1>3, Overlaps, PTL DEF Spec
=============================================================================
