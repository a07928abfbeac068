------------------------ MODULE SchemaRegistryProofs ------------------------
(***************************************************************************)
(* Theorems about SchemaRegistry.  The inductive invariant says how a read *)
(* view, which may be older than the lock, relates to the latest rows, and *)
(* that the named lock is held on the connection of whoever is inside.     *)
(***************************************************************************)
EXTENDS SchemaRegistry, TLAPS

\* Versions are 1 .. n without a gap, and at most n is active.
Dense(f) ==
    /\ Top(f.rows) \in Nat
    /\ f.rows = 1 .. Top(f.rows)
    /\ f.active \subseteq {Top(f.rows)} \cap f.rows

\* A view is an older state of the table: fewer rows, or as many and no row
\* active in the table that is not active in the view.
ViewOK(r) ==
    view[r].open =>
        /\ Dense(view[r])
        /\ view[r].rows \subseteq field.rows
        /\ view[r].rows = field.rows => field.active \subseteq view[r].active

\* What a request holds between its steps.
Held(r) ==
    /\ pc[r] \in {"idle", "lock", "hint", "read", "retire", "insert"} => new[r] = {}
    /\ pc[r] \in {"idle", "lock", "hint", "read", "retire"} => gone[r] = {}
    /\ pc[r] = "idle" => ~view[r].open
    /\ pc[r] = "lock" => op[r] \in {"create", "update"}
    /\ pc[r] \in {"retire", "insert", "commit"} => view[r].open
    /\ pc[r] = "retire" => op[r] \in {"update", "delete"}
    /\ pc[r] = "insert" => op[r] \in {"create", "update"}
    /\ pc[r] = "commit" => op[r] \in {"create", "update", "delete"}
    /\ pc[r] \in {"insert", "commit"} /\ op[r] = "create" =>
           view[r].active = {} /\ current[r] = 0 /\ gone[r] = {}
    /\ pc[r] \in {"retire", "insert", "commit"} /\ op[r] = "update" =>
           view[r].active = {current[r]} /\ current[r] = Top(view[r].rows)
    /\ pc[r] \in {"insert", "commit"} /\ op[r] = "update" => gone[r] = {current[r]}
    /\ pc[r] = "commit" /\ op[r] = "delete" => new[r] = {}
    /\ pc[r] = "commit" /\ op[r] # "delete" =>
           new[r] = {Top(view[r].rows) + 1} /\ view[r].rows = field.rows

\* The unique key: two open transactions never insert the same version.
NewOnce ==
    \A r, q \in Request :
        pc[r] = "commit" /\ pc[q] = "commit" /\ r # q => new[r] \cap new[q] = {}

Connected(r) == pc[r] \in {"lock", "hint", "read", "retire", "insert", "commit"}

\* Whoever is inside holds the lock on a connection of its own.
LockOK ==
    /\ holder # None => depth > 0
    /\ \A r \in Request : Connected(r) => conn[r] \in Conn
    /\ \A r, q \in Request : conn[r] = conn[q] /\ conn[r] # None => r = q
    /\ \A r \in Request : Locked(r) => holder = conn[r]

\* A view taken under the lock stays the latest there is.
Fresh(r) ==
    r \notin early =>
        /\ pc[r] \in {"idle", "lock", "hint", "read"} => ~view[r].open
        /\ Locked(r) /\ view[r].open => view[r].rows = field.rows

IInv ==
    /\ TypeOK
    /\ Dense(field)
    /\ \A r \in Request : ViewOK(r)
    /\ \A r \in Request : Held(r)
    /\ NewOnce
    /\ LockOK
    /\ \A r \in Request : Fresh(r)
-----------------------------------------------------------------------------
\* Top of an interval of versions, and of at most one version.
LEMMA TopUpTo == ASSUME NEW n \in Nat PROVE Top(1 .. n) = n
<1>1. CASE n = 0
  BY <1>1 DEF Top
<1>2. CASE n # 0
  <2>1. 1 .. n # {} /\ n \in 1 .. n /\ \A y \in 1 .. n : n >= y
    BY <1>2
  <2>2. \A x \in 1 .. n : (\A y \in 1 .. n : x >= y) => x = n
    BY <2>1
  <2> QED  BY <2>1, <2>2 DEF Top, Max
<1> QED  BY <1>1, <1>2

LEMMA TopMost ==
    ASSUME NEW n \in Nat, NEW S \in SUBSET {n}
    PROVE  Top(S) = IF S = {} THEN 0 ELSE n
<1>1. CASE S = {}
  BY <1>1 DEF Top
<1>2. CASE S = {n}
  <2>1. \A x \in S : (\A y \in S : x >= y) => x = n
    BY <1>2
  <2>2. n \in S /\ \A y \in S : n >= y
    BY <1>2
  <2>3. S # {}
    BY <1>2
  <2> QED  BY <2>1, <2>2, <2>3 DEF Top, Max
<1> QED  BY <1>1, <1>2

\* What get_active_by_name finds in a dense table or view, whatever the cache says.
LEMMA DenseLookup ==
    ASSUME NEW f, Dense(f), NEW c
    PROVE  /\ Top(f.active) \in Nat
           /\ Top(f.active) = 0 => f.active = {}
           /\ Top(f.active) # 0 => f.active = {Top(f.active)} /\ Top(f.active) = Top(f.rows)
           /\ Lookup(f, c) = Top(f.active)
<1>1. Top(f.rows) \in Nat /\ f.active \in SUBSET {Top(f.rows)} /\ 0 \notin f.active
  BY DEF Dense
<1>2. Top(f.active) = IF f.active = {} THEN 0 ELSE Top(f.rows)
  BY <1>1, TopMost
<1>3. Lookup(f, c) = Top(f.active)
  BY <1>1, <1>2 DEF Lookup
<1> QED  BY <1>1, <1>2, <1>3

\* A view whose next version is free has all the rows there are.
LEMMA NextIsFree ==
    ASSUME NEW f, NEW g, Dense(f), Dense(g), g.rows \subseteq f.rows
    PROVE  Top(g.rows) + 1 \notin f.rows <=> g.rows = f.rows
<1> DEFINE n == Top(f.rows)
           m == Top(g.rows)
<1>1. n \in Nat /\ m \in Nat /\ f.rows = 1 .. n /\ g.rows = 1 .. m
  BY DEF Dense
<1> HIDE DEF n, m
<1>2. 1 .. m \subseteq 1 .. n
  BY <1>1
<1>3. m <= n
  <2>1. m = 0 \/ m \in 1 .. m
    BY <1>1
  <2> QED  BY <1>1, <1>2, <2>1
<1>4. m + 1 \notin 1 .. n <=> m = n
  BY <1>1, <1>3
<1>5. 1 .. m = 1 .. n <=> m = n
  <2>1. m < n => n \in 1 .. n /\ n \notin 1 .. m
    BY <1>1
  <2> QED  BY <1>1, <1>3, <2>1
<1>6. m + 1 \notin f.rows <=> g.rows = f.rows
  BY <1>1, <1>4, <1>5
<1> QED  BY <1>6 DEF m

\* Adding the next version, or deleting versions, keeps a table dense.
LEMMA DenseGrows ==
    ASSUME NEW f, NEW g, Dense(f), g.rows = f.rows \cup {Top(f.rows) + 1},
           g.active \subseteq {Top(f.rows) + 1}
    PROVE  Dense(g) /\ Top(g.rows) = Top(f.rows) + 1
<1> DEFINE n == Top(f.rows) + 1
<1>1. n \in Nat /\ g.rows = 1 .. n
  BY DEF Dense
<1>2. Top(1 .. n) = n
  BY <1>1, TopUpTo
<1>3. Top(g.rows) = n
  BY <1>1, <1>2
<1> QED  BY <1>1, <1>3 DEF Dense

LEMMA DenseShrinks ==
    ASSUME NEW f, NEW g, Dense(f), g.rows = f.rows, g.active \subseteq f.active
    PROVE  Dense(g)
BY DEF Dense

-----------------------------------------------------------------------------
LEMMA InitIInv == Init => IInv
<1> SUFFICES ASSUME Init PROVE IInv
  OBVIOUS
<1>1. Dense(field)
  <2>1. Top({}) = 0 /\ 1 .. 0 = {}
    BY DEF Top
  <2> QED  BY <2>1 DEF Init, NoRows, Dense
<1>2. TypeOK
  BY RegistryConstantsOK DEF Init, NoRows, NoView, TypeOK, Rows
<1>3. (\A r \in Request : ViewOK(r) /\ Held(r) /\ Fresh(r)) /\ NewOnce
  BY DEF Init, NoView, ViewOK, Held, Fresh, NewOnce, Locked
<1>4. LockOK
  BY DEF Init, LockOK, Connected, Locked
<1> QED  BY <1>1, <1>2, <1>3, <1>4 DEF IInv

-----------------------------------------------------------------------------
\* The steps that leave the table alone keep what it says about the views.
LEMMA TablePart ==
    ASSUME IInv, field' = field,
           \A q \in Request : view'[q] \in {view[q], Now, NoView}
    PROVE  Dense(field)' /\ \A q \in Request : ViewOK(q)'
<1>1. Dense(field)'
  BY DEF IInv, Dense, Top
<1>2. ASSUME NEW q \in Request PROVE ViewOK(q)'
  <2>1. ViewOK(q) /\ Dense(field)
    BY DEF IInv
  <2>2. CASE view'[q] = view[q]
    BY <2>1, <2>2 DEF ViewOK, Dense, Top
  <2>3. CASE view'[q] = Now
    BY <2>1, <2>3 DEF ViewOK, Dense, Now, Top
  <2>4. CASE view'[q] = NoView
    BY <2>4 DEF ViewOK, NoView
  <2> QED  BY <2>2, <2>3, <2>4
<1> QED  BY <1>1, <1>2

\* A step of r disturbs only what r holds.
LEMMA OthersPart ==
    ASSUME IInv, NEW r \in Request,
           \A q \in Request \ {r} :
               /\ pc'[q] = pc[q] /\ op'[q] = op[q] /\ view'[q] = view[q]
               /\ current'[q] = current[q] /\ gone'[q] = gone[q] /\ new'[q] = new[q],
           field' = field, Held(r)'
    PROVE  \A q \in Request : Held(q)'
<1> SUFFICES ASSUME NEW q \in Request \ {r} PROVE Held(q)'
  OBVIOUS
<1>1. Held(q)
  BY DEF IInv
<1> QED  BY <1>1 DEF Held, Top

LEMMA FirstStops ==
    ASSUME NEW o \in Op
    PROVE  \/ o = "upsert" /\ FirstStop(o) = "hint"
           \/ o = "delete" /\ FirstStop(o) = "read"
           \/ o \in {"create", "update"} /\ FirstStop(o) = "lock"
BY DEF Op, FirstStop

LEMMA BeginStep == ASSUME IInv, NEW r \in Request, NEW o \in Op, NEW e \in BOOLEAN, Begin(r, o, e) PROVE IInv'
<1> USE DEF Begin, Goto, lock, tx, caches
<1>0. pc'[r] = FirstStop(o) /\ \A q \in Request \ {r} : pc'[q] = pc[q]
  BY DEF IInv, TypeOK
<1>1. TypeOK'
  <2>1. Now \in [open : BOOLEAN, rows : SUBSET Nat, active : SUBSET Nat]
    BY DEF IInv, TypeOK, Now, Rows
  <2>2. view' \in [Request -> [open : BOOLEAN, rows : SUBSET Nat, active : SUBSET Nat]]
    BY <2>1 DEF IInv, TypeOK
  <2>3. conn' \in [Request -> Conn \cup {None}]
    BY DEF IInv, TypeOK, Idle
  <2>4. pc'[r] \in {"hint", "read", "lock"}
    BY <1>0, FirstStops
  <2>5. pc' = [pc EXCEPT ![r] = pc'[r]]
    BY DEF IInv, TypeOK
  <2> QED  BY <2>2, <2>3, <2>4, <2>5 DEF IInv, TypeOK, Op, Finished
<1>2. Dense(field)' /\ \A q \in Request : ViewOK(q)'
  BY TablePart DEF IInv, TypeOK
<1>3. Held(r)'
  <2>1. Held(r) /\ gone' = gone /\ new' = new /\ op'[r] = o
    BY DEF IInv, TypeOK
  <2>2. pc'[r] \in {"hint", "read"} \/ (pc'[r] = "lock" /\ o \in {"create", "update"})
    BY <1>0, FirstStops
  <2> QED  BY <2>1, <2>2 DEF Held
<1>4. \A q \in Request : Held(q)'
  BY <1>3, OthersPart DEF IInv, TypeOK
<1>5. NewOnce'
  <2>1. pc'[r] # "commit" /\ new' = new
    BY <1>0, FirstStops
  <2> QED  BY <1>0, <2>1 DEF IInv, NewOnce
<1>6. LockOK'
  <2>1. PICK c \in Idle : conn' = [conn EXCEPT ![r] = c]
    OBVIOUS
  <2>2. ~Locked(r)'
    <3>1. op'[r] = o
      BY DEF IInv, TypeOK
    <3> QED  BY <1>0, <3>1, FirstStops DEF Locked
  <2>3. c \in Conn /\ \A q \in Request : conn[q] # c
    BY DEF Idle
  <2>4. \A q \in Request \ {r} : pc'[q] = pc[q] /\ op'[q] = op[q] /\ conn'[q] = conn[q]
    BY <2>1 DEF IInv, TypeOK
  <2>5. conn'[r] = c
    BY <2>1 DEF IInv, TypeOK
  <2> QED  BY <2>2, <2>3, <2>4, <2>5, RegistryConstantsOK
           DEF IInv, LockOK, Locked, Connected
<1>7. \A q \in Request : Fresh(q)'
  BY DEF IInv, TypeOK, Fresh, Locked
<1> QED  BY <1>1, <1>2, <1>4, <1>5, <1>6, <1>7 DEF IInv

LEMMA AcquireStep == ASSUME IInv, NEW r \in Request, Acquire(r) PROVE IInv'
<1> USE DEF Acquire, Goto, lock, tx, caches
<1>1. TypeOK'
  BY DEF IInv, TypeOK
<1>2. Dense(field)' /\ \A q \in Request : ViewOK(q)'
  BY TablePart DEF IInv, TypeOK
<1>3. Held(r)'
  BY DEF IInv, TypeOK, Held
<1>4. \A q \in Request : Held(q)'
  BY <1>3, OthersPart DEF IInv, TypeOK
<1>5. NewOnce'
  BY DEF IInv, TypeOK, NewOnce
<1>6. LockOK'
  BY RegistryConstantsOK DEF IInv, TypeOK, LockOK, Locked, Connected
<1>7. \A q \in Request : Fresh(q)'
  BY DEF IInv, TypeOK, Fresh, Locked
<1> QED  BY <1>1, <1>2, <1>4, <1>5, <1>6, <1>7 DEF IInv

LEMMA AcquireTimeoutStep == ASSUME IInv, NEW r \in Request, AcquireTimeout(r) PROVE IInv'
<1> USE DEF AcquireTimeout, Close, Goto, lock, tx, caches
<1>1. TypeOK'
  BY DEF IInv, TypeOK, Finished, NoView
<1>2. Dense(field)' /\ \A q \in Request : ViewOK(q)'
  BY TablePart DEF IInv, TypeOK
<1>3. Held(r)'
  BY DEF IInv, TypeOK, Held
<1>4. \A q \in Request : Held(q)'
  BY <1>3, OthersPart DEF IInv, TypeOK
<1>5. NewOnce'
  BY DEF IInv, TypeOK, NewOnce
<1>6. LockOK'
  BY RegistryConstantsOK DEF IInv, TypeOK, LockOK, Locked, Connected
<1>7. \A q \in Request : Fresh(q)'
  BY DEF IInv, TypeOK, Fresh, Locked
<1> QED  BY <1>1, <1>2, <1>4, <1>5, <1>6, <1>7 DEF IInv

LEMMA ReadCacheStep == ASSUME IInv, NEW r \in Request, ReadCache(r) PROVE IInv'
<1> USE DEF ReadCache, Goto, lock, tx, caches
<1>1. TypeOK'
  BY DEF IInv, TypeOK
<1>2. Dense(field)' /\ \A q \in Request : ViewOK(q)'
  BY TablePart DEF IInv, TypeOK
<1>3. Held(r)'
  BY DEF IInv, TypeOK, Held
<1>4. \A q \in Request : Held(q)'
  BY <1>3, OthersPart DEF IInv, TypeOK
<1>5. NewOnce'
  BY DEF IInv, TypeOK, NewOnce
<1>6. LockOK'
  BY RegistryConstantsOK DEF IInv, TypeOK, LockOK, Locked, Connected
<1>7. \A q \in Request : Fresh(q)'
  BY DEF IInv, TypeOK, Fresh, Locked
<1> QED  BY <1>1, <1>2, <1>4, <1>5, <1>6, <1>7 DEF IInv

LEMMA ReadUpsertStep == ASSUME IInv, NEW r \in Request, ReadUpsert(r) PROVE IInv'
<1> USE DEF ReadUpsert, ViewOf, Goto, lock, tx, caches
<1>1. TypeOK'
  BY DEF IInv, TypeOK, Op, Now, Rows
<1>2. Dense(field)' /\ \A q \in Request : ViewOK(q)'
  BY TablePart DEF IInv, TypeOK
<1>3. Held(r)'
  BY DEF IInv, TypeOK, Held
<1>4. \A q \in Request : Held(q)'
  BY <1>3, OthersPart DEF IInv, TypeOK
<1>5. NewOnce'
  BY DEF IInv, TypeOK, NewOnce
<1>6. LockOK'
  BY RegistryConstantsOK DEF IInv, TypeOK, LockOK, Locked, Connected
<1>7. \A q \in Request : Fresh(q)'
  BY DEF IInv, TypeOK, Fresh, Locked
<1> QED  BY <1>1, <1>2, <1>4, <1>5, <1>6, <1>7 DEF IInv

LEMMA UpsertNothingStep == ASSUME IInv, NEW r \in Request, UpsertNothing(r) PROVE IInv'
<1> USE DEF UpsertNothing, Close, Goto, lock, tx, caches
<1>1. TypeOK'
  BY DEF IInv, TypeOK, Finished, NoView
<1>2. Dense(field)' /\ \A q \in Request : ViewOK(q)'
  BY TablePart DEF IInv, TypeOK
<1>3. Held(r)'
  BY DEF IInv, TypeOK, Held
<1>4. \A q \in Request : Held(q)'
  BY <1>3, OthersPart DEF IInv, TypeOK
<1>5. NewOnce'
  BY DEF IInv, TypeOK, NewOnce
<1>6. LockOK'
  BY RegistryConstantsOK DEF IInv, TypeOK, LockOK, Locked, Connected
<1>7. \A q \in Request : Fresh(q)'
  BY DEF IInv, TypeOK, Fresh, Locked
<1> QED  BY <1>1, <1>2, <1>4, <1>5, <1>6, <1>7 DEF IInv

LEMMA ReadLockedStep == ASSUME IInv, NEW r \in Request, ReadLocked(r) PROVE IInv'
<1> USE DEF ReadLocked, ViewOf, Goto, lock, tx, caches
<1> DEFINE v == Lookup(ViewOf(r), hint[r])
<1>0. /\ Dense(ViewOf(r)) /\ v = Top(ViewOf(r).active) /\ v \in Nat
      /\ view' = [view EXCEPT ![r] = ViewOf(r)]
      /\ v = 0 => ViewOf(r).active = {}
      /\ v # 0 => ViewOf(r).active = {v} /\ v = Top(ViewOf(r).rows)
  <2>1. Dense(ViewOf(r))
    BY DEF IInv, ViewOK, ViewOf, Now, Dense
  <2> QED  BY <2>1, DenseLookup
<1> HIDE DEF v
<1>1. TypeOK'
  <2>1. ViewOf(r) \in [open : BOOLEAN, rows : SUBSET Nat, active : SUBSET Nat]
    BY DEF IInv, TypeOK, ViewOf, Now, Rows
  <2>2. current' = [current EXCEPT ![r] = v]
    BY DEF v
  <2>3. pc' = [pc EXCEPT ![r] = IF v = 0 THEN "insert" ELSE "retire"]
    BY DEF v
  <2> QED  BY <1>0, <2>1, <2>2, <2>3 DEF IInv, TypeOK
<1>2. Dense(field)' /\ \A q \in Request : ViewOK(q)'
  BY TablePart DEF IInv, TypeOK
<1>3. Held(r)'
  <2>1. view'[r] = ViewOf(r) /\ ViewOf(r).open /\ current'[r] = v
    BY <1>0 DEF IInv, TypeOK, ViewOf, Now, v
  <2>2. pc'[r] = IF v = 0 THEN "insert" ELSE "retire"
    BY DEF IInv, TypeOK, v
  <2>3. /\ op'[r] = op[r] /\ op[r] \in {"create", "update"} /\ (op[r] = "update") = (v # 0)
        /\ gone'[r] = {} /\ new'[r] = {}
    BY DEF IInv, Held, Wanted, v
  <2>4. Top(view'[r].rows) = Top(ViewOf(r).rows)
    BY <2>1
  <2> QED  BY <1>0, <2>1, <2>2, <2>3, <2>4 DEF Held, Top
<1>4. \A q \in Request : Held(q)'
  BY <1>3, OthersPart DEF IInv, TypeOK
<1>5. NewOnce'
  BY DEF IInv, TypeOK, NewOnce
<1>6. LockOK'
  BY RegistryConstantsOK DEF IInv, TypeOK, LockOK, Locked, Connected
<1>7. \A q \in Request : Fresh(q)'
  <2>1. Fresh(r)'
    <3>1. r \notin early => view'[r].rows = field.rows
      BY <1>0 DEF IInv, TypeOK, Fresh, ViewOf, Now
    <3>2. pc'[r] \in {"insert", "retire"}
      BY DEF IInv, TypeOK
    <3> QED  BY <3>1, <3>2 DEF Fresh
  <2>2. \A q \in Request \ {r} : Fresh(q)'
    BY <1>0 DEF IInv, TypeOK, Fresh, Locked
  <2> QED  BY <2>1, <2>2
<1> QED  BY <1>1, <1>2, <1>4, <1>5, <1>6, <1>7 DEF IInv

LEMMA RefuseStep == ASSUME IInv, NEW r \in Request, Refuse(r) PROVE IInv'
<1> USE DEF Refuse, Close, Released, Goto, lock, tx, caches
<1>1. TypeOK'
  <2>1. holder' \in Conn \cup {None} /\ depth' \in Nat
    BY RegistryConstantsOK DEF IInv, TypeOK, LockOK, Connected
  <2> QED  BY <2>1 DEF IInv, TypeOK, Finished, NoView
<1>2. Dense(field)' /\ \A q \in Request : ViewOK(q)'
  BY TablePart DEF IInv, TypeOK
<1>3. Held(r)'
  BY DEF IInv, TypeOK, Held
<1>4. \A q \in Request : Held(q)'
  BY <1>3, OthersPart DEF IInv, TypeOK
<1>5. NewOnce'
  BY DEF IInv, TypeOK, NewOnce
<1>6. LockOK'
  BY RegistryConstantsOK DEF IInv, TypeOK, LockOK, Locked, Connected
<1>7. \A q \in Request : Fresh(q)'
  BY DEF IInv, TypeOK, Fresh, Locked
<1> QED  BY <1>1, <1>2, <1>4, <1>5, <1>6, <1>7 DEF IInv

LEMMA ReadDeleteStep == ASSUME IInv, NEW r \in Request, ReadDelete(r) PROVE IInv'
<1> USE DEF ReadDelete, ViewOf, Close, Goto, lock, tx, caches
<1>1. TypeOK'
  <2>1. ViewOf(r) \in [open : BOOLEAN, rows : SUBSET Nat, active : SUBSET Nat]
    BY DEF IInv, TypeOK, ViewOf, Now, Rows
  <2>2. CASE view' = [view EXCEPT ![r] = ViewOf(r)] /\ pc' = [pc EXCEPT ![r] = "retire"]
             /\ conn' = conn
    BY <2>1, <2>2 DEF IInv, TypeOK
  <2>3. CASE Close(r, "failed")
    BY <2>3 DEF IInv, TypeOK, Finished, NoView
  <2> QED  BY <2>2, <2>3
<1>2. Dense(field)' /\ \A q \in Request : ViewOK(q)'
  BY TablePart DEF IInv, TypeOK
<1>3. Held(r)'
  <2>1. Held(r) /\ op'[r] = "delete" /\ gone' = gone /\ new' = new
    BY DEF IInv
  <2>2. pc'[r] = "failed" \/ (pc'[r] = "retire" /\ view'[r].open)
    <3>1. ViewOf(r).open
      BY DEF ViewOf, Now
    <3>2. pc' = [pc EXCEPT ![r] = "failed"] => pc'[r] = "failed"
      BY DEF IInv, TypeOK
    <3>3. /\ view' = [view EXCEPT ![r] = ViewOf(r)]
          /\ pc' = [pc EXCEPT ![r] = "retire"]
          => pc'[r] = "retire" /\ view'[r].open
      BY <3>1 DEF IInv, TypeOK
    <3> QED  BY <3>2, <3>3
  <2> QED  BY <2>1, <2>2 DEF Held
<1>4. \A q \in Request : Held(q)'
  BY <1>3, OthersPart DEF IInv, TypeOK
<1>5. NewOnce'
  BY DEF IInv, TypeOK, NewOnce
<1>6. LockOK'
  BY RegistryConstantsOK DEF IInv, TypeOK, LockOK, Locked, Connected
<1>7. \A q \in Request : Fresh(q)'
  BY DEF IInv, TypeOK, Fresh, Locked
<1> QED  BY <1>1, <1>2, <1>4, <1>5, <1>6, <1>7 DEF IInv

LEMMA RetireStep == ASSUME IInv, NEW r \in Request, Retire(r) PROVE IInv'
<1> USE DEF Retire, Goto, lock, tx, caches
<1>1. TypeOK'
  BY DEF IInv, TypeOK
<1>2. Dense(field)' /\ \A q \in Request : ViewOK(q)'
  BY TablePart DEF IInv, TypeOK
<1>3. Held(r)'
  BY DEF IInv, TypeOK, Held
<1>4. \A q \in Request : Held(q)'
  BY <1>3, OthersPart DEF IInv, TypeOK
<1>5. NewOnce'
  <2>1. new' = new /\ new[r] = {}
    BY DEF IInv, Held
  <2>2. \A q \in Request \ {r} : pc'[q] = pc[q]
    BY DEF IInv, TypeOK
  <2> QED  BY <2>1, <2>2 DEF IInv, NewOnce
<1>6. LockOK'
  BY RegistryConstantsOK DEF IInv, TypeOK, LockOK, Locked, Connected
<1>7. \A q \in Request : Fresh(q)'
  BY DEF IInv, TypeOK, Fresh, Locked
<1> QED  BY <1>1, <1>2, <1>4, <1>5, <1>6, <1>7 DEF IInv

LEMMA InsertStep == ASSUME IInv, NEW r \in Request, Insert(r) PROVE IInv'
<1> USE DEF Insert, Goto, lock, tx, caches
<1>0. /\ Dense(view[r]) /\ Top(view[r].rows) \in Nat /\ view[r].rows = field.rows
      /\ new' = [new EXCEPT ![r] = {NextVersion(r)}]
      /\ \A q \in Request : pc[q] = "commit" => NextVersion(r) \notin new[q]
  <2>1. Dense(view[r]) /\ view[r].rows \subseteq field.rows /\ Dense(field)
    BY DEF IInv, ViewOK, Held
  <2>2. view[r].rows = field.rows
    BY <2>1, NextIsFree DEF NextVersion
  <2> QED  BY <2>1, <2>2 DEF Dense, Changing
<1>1. TypeOK'
  <2>1. NextVersion(r) \in Nat
    BY <1>0 DEF NextVersion
  <2> QED  BY <1>0, <2>1 DEF IInv, TypeOK
<1>2. Dense(field)' /\ \A q \in Request : ViewOK(q)'
  BY TablePart DEF IInv, TypeOK
<1>3. Held(r)'
  <2>1. /\ Held(r) /\ pc'[r] = "commit" /\ new'[r] = {Top(view[r].rows) + 1}
        /\ UNCHANGED <<op, view, current, gone, field>>
    BY <1>0 DEF IInv, TypeOK, NextVersion
  <2> QED  BY <1>0, <2>1 DEF Held, Top
<1>4. \A q \in Request : Held(q)'
  BY <1>3, OthersPart DEF IInv, TypeOK
<1>5. NewOnce'
  <2>1. \A q \in Request \ {r} : pc'[q] = pc[q] /\ new'[q] = new[q]
    BY <1>0 DEF IInv, TypeOK
  <2>2. new'[r] = {NextVersion(r)}
    BY <1>0 DEF IInv, TypeOK
  <2> QED  BY <1>0, <2>1, <2>2 DEF IInv, NewOnce
<1>6. LockOK'
  BY RegistryConstantsOK DEF IInv, TypeOK, LockOK, Locked, Connected
<1>7. \A q \in Request : Fresh(q)'
  BY DEF IInv, TypeOK, Fresh, Locked
<1> QED  BY <1>1, <1>2, <1>4, <1>5, <1>6, <1>7 DEF IInv

LEMMA InsertDuplicateStep == ASSUME IInv, NEW r \in Request, InsertDuplicate(r) PROVE IInv'
<1> USE DEF InsertDuplicate, Close, Goto, lock, tx, caches
<1>1. TypeOK'
  BY DEF IInv, TypeOK, Finished, NoView
<1>2. Dense(field)' /\ \A q \in Request : ViewOK(q)'
  BY TablePart DEF IInv, TypeOK
<1>3. Held(r)'
  BY DEF IInv, TypeOK, Held
<1>4. \A q \in Request : Held(q)'
  BY <1>3, OthersPart DEF IInv, TypeOK
<1>5. NewOnce'
  BY DEF IInv, TypeOK, NewOnce
<1>6. LockOK'
  BY RegistryConstantsOK DEF IInv, TypeOK, LockOK, Locked, Connected
<1>7. \A q \in Request : Fresh(q)'
  BY DEF IInv, TypeOK, Fresh, Locked
<1> QED  BY <1>1, <1>2, <1>4, <1>5, <1>6, <1>7 DEF IInv

LEMMA PublishStep == ASSUME IInv, NEW r \in Request, Publish(r) PROVE IInv'
<1> USE DEF Publish, Goto, lock, tx, caches
<1>1. TypeOK'
  <2>1. events' \subseteq Nat
    <3>1. new[r] \subseteq Nat /\ events \subseteq Nat /\ 0 \in Nat
      BY DEF IInv, TypeOK
    <3>2. CASE events' = events \cup (IF new[r] = {} THEN {0} ELSE new[r])
      BY <3>1, <3>2
    <3> QED  BY <3>1, <3>2
  <2> QED  BY <2>1 DEF IInv, TypeOK, Finished
<1>2. Dense(field)' /\ \A q \in Request : ViewOK(q)'
  BY TablePart DEF IInv, TypeOK
<1>3. Held(r)'
  BY DEF IInv, TypeOK, Held
<1>4. \A q \in Request : Held(q)'
  BY <1>3, OthersPart DEF IInv, TypeOK
<1>5. NewOnce'
  BY DEF IInv, TypeOK, NewOnce
<1>6. LockOK'
  BY RegistryConstantsOK DEF IInv, TypeOK, LockOK, Locked, Connected
<1>7. \A q \in Request : Fresh(q)'
  BY DEF IInv, TypeOK, Fresh, Locked
<1> QED  BY <1>1, <1>2, <1>4, <1>5, <1>6, <1>7 DEF IInv

LEMMA ReleaseStep == ASSUME IInv, NEW r \in Request, Release(r) PROVE IInv'
<1> USE DEF Release, Released, Idle, Goto, lock, tx, caches
<1>1. TypeOK'
  <2>1. holder' \in Conn \cup {None} /\ depth' \in Nat
    BY RegistryConstantsOK DEF IInv, TypeOK, LockOK
  <2> QED  BY <2>1 DEF IInv, TypeOK, Finished
<1>2. Dense(field)' /\ \A q \in Request : ViewOK(q)'
  BY TablePart DEF IInv, TypeOK
<1>3. Held(r)'
  BY DEF IInv, TypeOK, Held
<1>4. \A q \in Request : Held(q)'
  BY <1>3, OthersPart DEF IInv, TypeOK
<1>5. NewOnce'
  BY DEF IInv, TypeOK, NewOnce
<1>6. LockOK'
  BY RegistryConstantsOK DEF IInv, TypeOK, LockOK, Locked, Connected
<1>7. \A q \in Request : Fresh(q)'
  BY DEF IInv, TypeOK, Fresh, Locked
<1> QED  BY <1>1, <1>2, <1>4, <1>5, <1>6, <1>7 DEF IInv

LEMMA CrashStep == ASSUME IInv, NEW r \in Request, Crash(r) PROVE IInv'
<1> USE DEF Crash, Close, Unlocked, Finished, Goto, lock, tx, caches
<1>1. TypeOK'
  BY DEF IInv, TypeOK, NoView
<1>2. Dense(field)' /\ \A q \in Request : ViewOK(q)'
  BY TablePart DEF IInv, TypeOK
<1>3. Held(r)'
  BY DEF IInv, TypeOK, Held
<1>4. \A q \in Request : Held(q)'
  BY <1>3, OthersPart DEF IInv, TypeOK
<1>5. NewOnce'
  BY DEF IInv, TypeOK, NewOnce
<1>6. LockOK'
  BY RegistryConstantsOK DEF IInv, TypeOK, LockOK, Locked, Connected
<1>7. \A q \in Request : Fresh(q)'
  BY DEF IInv, TypeOK, Fresh, Locked
<1> QED  BY <1>1, <1>2, <1>4, <1>5, <1>6, <1>7 DEF IInv

\* A commit adds the version above all others and deletes what was active, or
\* deletes versions.
LEMMA CommitEffect ==
    ASSUME IInv, NEW r \in Request, Commit(r)
    PROVE  /\ Dense(field)'
           /\ field.rows \subseteq field'.rows
           /\ \/ op[r] = "delete" /\ field'.rows = field.rows
                /\ field'.active \subseteq field.active
              \/ op[r] # "delete" /\ new[r] = {Top(field.rows) + 1}
                /\ Top(field.rows) + 1 \in field'.rows \ field.rows
                /\ Top(field'.rows) = Top(field.rows) + 1
<1>1. Dense(field) /\ Held(r) /\ pc[r] = "commit" /\ field' = After(r)
  BY DEF IInv, Commit
<1>2. CASE op[r] = "delete"
  <2>1. field'.rows = field.rows /\ field'.active \subseteq field.active
    BY <1>1, <1>2 DEF Held, After
  <2>2. Dense(field')
    BY <1>1, <2>1, DenseShrinks
  <2> QED  BY <1>2, <2>1, <2>2 DEF Dense, Top
<1>3. CASE op[r] # "delete"
  <2>1. ViewOK(r) /\ view[r].open /\ view[r].rows = field.rows
    BY <1>1, <1>3 DEF IInv, Held
  <2>2. field.active \subseteq view[r].active
    BY <2>1 DEF ViewOK
  <2>3. view[r].active = gone[r]
    BY <1>1, <1>3 DEF Held
  <2>4. new[r] = {Top(field.rows) + 1}
    BY <1>1, <1>3, <2>1 DEF Held
  <2>5. /\ field'.rows = field.rows \cup {Top(field.rows) + 1}
        /\ field'.active \subseteq {Top(field.rows) + 1}
    BY <1>1, <2>2, <2>3, <2>4 DEF After
  <2>6. Dense(field') /\ Top(field'.rows) = Top(field.rows) + 1
    BY <1>1, <2>5, DenseGrows
  <2>7. Top(field.rows) + 1 \notin field.rows
    BY <1>1 DEF Dense
  <2> QED  BY <1>3, <2>4, <2>5, <2>6, <2>7 DEF Dense, Top
<1> QED  BY <1>2, <1>3

LEMMA CommitStep == ASSUME IInv, NEW r \in Request, Commit(r) PROVE IInv'
<1>0. /\ pc' = [pc EXCEPT ![r] = "publish"] /\ view' = [view EXCEPT ![r] = NoView]
      /\ conn' = [conn EXCEPT ![r] = None]
      /\ UNCHANGED <<holder, depth, op, early, hint, current, gone, new, cache>>
      /\ pc[r] = "commit" /\ TypeOK
  BY DEF Commit, Close, Goto, lock, IInv
<1>1. TypeOK'
  <2>1. field' \in Rows
    BY <1>0 DEF Commit, After, TypeOK, Rows
  <2>2. events' \subseteq Nat
    <3>1. new[r] \subseteq Nat /\ events \subseteq Nat /\ 0 \in Nat
      BY <1>0 DEF TypeOK
    <3>2. BinlogEvents(r) \subseteq Nat
      BY <3>1 DEF BinlogEvents
    <3> QED  BY <3>1, <3>2 DEF Commit
  <2> QED  BY <1>0, <2>1, <2>2 DEF TypeOK, NoView
<1>2. \A q \in Request \ {r} : pc'[q] = pc[q] /\ view'[q] = view[q] /\ conn'[q] = conn[q]
  BY <1>0 DEF TypeOK
<1>3. ASSUME NEW q \in Request PROVE ViewOK(q)'
  <2>1. CASE q = r
    BY <1>0, <2>1 DEF ViewOK, NoView, TypeOK
  <2>2. CASE q # r
    <3>1. ViewOK(q) /\ view'[q] = view[q]
      BY <1>2, <2>2 DEF IInv
    <3>2. \/ field'.rows = field.rows /\ field'.active \subseteq field.active
          \/ \E x : x \in field'.rows \ field.rows
      BY CommitEffect
    <3>3. field.rows \subseteq field'.rows
      BY CommitEffect
    <3> QED  BY <3>1, <3>2, <3>3 DEF ViewOK, Dense, Top
  <2> QED  BY <2>1, <2>2
<1>4. ASSUME NEW q \in Request PROVE Held(q)'
  <2>1. Held(q)
    BY DEF IInv
  <2>2. CASE q = r
    BY <1>0, <2>1, <2>2 DEF Held, TypeOK
  <2>3. CASE q # r
    <3>1. CASE field'.rows = field.rows
      BY <1>0, <1>2, <2>1, <2>3, <3>1 DEF Held, Top
    <3>2. CASE new[r] = {Top(field.rows) + 1}
      <4>1. ~(pc[q] = "commit" /\ op[q] # "delete")
        <5>1. SUFFICES ASSUME pc[q] = "commit" /\ op[q] # "delete" PROVE FALSE
          OBVIOUS
        <5>2. new[q] = {Top(view[q].rows) + 1} /\ view[q].rows = field.rows
          BY <2>1, <5>1 DEF Held
        <5>3. new[q] \cap new[r] = {}
          BY <1>0, <2>3, <5>1 DEF IInv, NewOnce
        <5> QED  BY <3>2, <5>2, <5>3
      <4> QED  BY <1>0, <1>2, <2>1, <2>3, <4>1 DEF Held, Top
    <3> QED  BY <3>1, <3>2, CommitEffect
  <2> QED  BY <2>2, <2>3
<1>5. NewOnce'
  BY <1>0, <1>2 DEF IInv, NewOnce, TypeOK
<1>6. LockOK'
  BY <1>0, RegistryConstantsOK DEF IInv, TypeOK, LockOK, Locked, Connected
<1>7. ASSUME NEW q \in Request PROVE Fresh(q)'
  <2>1. Fresh(q)
    BY DEF IInv
  <2>2. CASE q = r
    BY <1>0, <2>1, <2>2 DEF Fresh, TypeOK, NoView
  <2>3. CASE q # r
    <3>1. CASE field'.rows = field.rows
      BY <1>0, <1>2, <2>1, <2>3, <3>1 DEF Fresh, Locked
    <3>2. CASE op[r] # "delete"
      <4>1. Locked(r)
        BY <1>0, <3>2 DEF IInv, Held, Locked
      <4>2. ~Locked(q)
        BY <2>3, <4>1, RegistryConstantsOK DEF IInv, LockOK, Locked, Connected
      <4> QED  BY <1>0, <1>2, <2>1, <2>3, <4>2 DEF Fresh, Locked
    <3> QED  BY <3>1, <3>2, CommitEffect
  <2> QED  BY <2>2, <2>3
<1>8. Dense(field)'
  BY CommitEffect
<1> QED  BY <1>1, <1>3, <1>4, <1>5, <1>6, <1>7, <1>8 DEF IInv

\* The consumers write only the cache, the pool only the lock.
LEMMA HandleEventStep == ASSUME IInv, NEW v \in events, HandleEvent(v) PROVE IInv'
<1>1. UNCHANGED <<field, holder, depth, conn, pc, op, early, view, hint, current, gone,
                  new, events>> /\ cache' = v
  BY DEF HandleEvent, lock, tx
<1>2. TypeOK' /\ Dense(field)'
  BY <1>1 DEF IInv, TypeOK, Dense, Top
<1>3. \A q \in Request : ViewOK(q)' /\ Held(q)' /\ Fresh(q)'
  BY <1>1 DEF IInv, ViewOK, Held, Fresh, Locked, Dense, Top
<1>4. NewOnce' /\ LockOK'
  BY <1>1 DEF IInv, NewOnce, LockOK, Locked, Connected
<1> QED  BY <1>2, <1>3, <1>4 DEF IInv

LEMMA CloseIdleStep == ASSUME IInv, NEW c \in Conn, CloseIdle(c) PROVE IInv'
<1>1. /\ UNCHANGED <<field, conn, pc, op, early, view, hint, current, gone, new,
                     events, cache>>
      /\ holder' = None /\ depth' = 0 /\ holder = c /\ \A q \in Request : conn[q] # c
  BY DEF CloseIdle, Unlocked, Idle, tx, caches
<1>2. TypeOK' /\ Dense(field)'
  BY <1>1 DEF IInv, TypeOK, Dense, Top
<1>3. \A q \in Request : ViewOK(q)' /\ Held(q)' /\ Fresh(q)'
  BY <1>1 DEF IInv, ViewOK, Held, Fresh, Locked, Dense, Top
<1>4. NewOnce' /\ LockOK'
  BY <1>1 DEF IInv, NewOnce, LockOK, Locked, Connected
<1> QED  BY <1>2, <1>3, <1>4 DEF IInv

LEMMA StutterStep == ASSUME IInv, UNCHANGED vars PROVE IInv'
<1>1. UNCHANGED <<field, holder, depth, conn, pc, op, early, view, hint, current, gone,
                  new, events, cache>>
  BY DEF vars, lock, tx, caches
<1>2. TypeOK' /\ Dense(field)'
  BY <1>1 DEF IInv, TypeOK, Dense, Top
<1>3. \A q \in Request : ViewOK(q)' /\ Held(q)' /\ Fresh(q)'
  BY <1>1 DEF IInv, ViewOK, Held, Fresh, Locked, Dense, Top
<1>4. NewOnce' /\ LockOK'
  BY <1>1 DEF IInv, NewOnce, LockOK, Locked, Connected
<1> QED  BY <1>2, <1>3, <1>4 DEF IInv

-----------------------------------------------------------------------------
LEMMA NextIInv == IInv /\ [Next]_vars => IInv'
<1> SUFFICES ASSUME IInv, [Next]_vars PROVE IInv'
  OBVIOUS
<1>1. ASSUME NEW r \in Request, Step(r) PROVE IInv'
  <2>1. CASE \E o \in Op, e \in BOOLEAN : Begin(r, o, e)
    BY <2>1, BeginStep
  <2>2. CASE Acquire(r) \/ AcquireTimeout(r)
    BY <2>2, AcquireStep, AcquireTimeoutStep
  <2>3. CASE ReadCache(r) \/ ReadUpsert(r) \/ UpsertNothing(r)
    BY <2>3, ReadCacheStep, ReadUpsertStep, UpsertNothingStep
  <2>4. CASE ReadLocked(r) \/ Refuse(r) \/ ReadDelete(r)
    BY <2>4, ReadLockedStep, RefuseStep, ReadDeleteStep
  <2>5. CASE Retire(r) \/ Insert(r) \/ InsertDuplicate(r)
    BY <2>5, RetireStep, InsertStep, InsertDuplicateStep
  <2>6. CASE Commit(r) \/ Publish(r) \/ Release(r)
    BY <2>6, CommitStep, PublishStep, ReleaseStep
  <2> QED  BY <1>1, <2>1, <2>2, <2>3, <2>4, <2>5, <2>6 DEF Step
<1>2. ASSUME NEW r \in Request, Crash(r) PROVE IInv'
  BY <1>2, CrashStep
<1>3. CASE \E v \in events : HandleEvent(v)
  BY <1>3, HandleEventStep
<1>4. CASE \E c \in Conn : CloseIdle(c)
  BY <1>4, CloseIdleStep
<1>5. CASE UNCHANGED vars
  BY <1>5, StutterStep
<1> QED  BY <1>1, <1>2, <1>3, <1>4, <1>5 DEF Next

LEMMA Inductive == Spec => []IInv
BY InitIInv, NextIInv, PTL DEF Spec

-----------------------------------------------------------------------------
\* Rows, views, locks and request locals stay in their domains.
THEOREM TypeCorrect == Spec => []TypeOK
<1>1. IInv => TypeOK
  BY DEF IInv
<1> QED  BY <1>1, Inductive, PTL

\* Whatever a create or update decided on, only the newest version is ever active.
THEOREM NewestActive == Spec => []OnlyNewestActive
<1>1. IInv => OnlyNewestActive
  BY DEF IInv, Dense, OnlyNewestActive
<1> QED  BY <1>1, Inductive, PTL

\* An update commits on top of the version it read, and it is still the newest.
THEOREM UpdatesKept == Spec => NoUpdateLost
<1>1. ASSUME IInv, [Next]_vars, NEW r \in Request,
             op[r] = "update", pc[r] = "commit", pc'[r] = "publish"
      PROVE  current[r] = Top(field.rows) /\ Top(field'.rows) = current[r] + 1
  <2>1. Commit(r)
    <3>1. DOMAIN pc = Request /\ pc = [q \in DOMAIN pc |-> pc[q]]
      BY <1>1 DEF IInv, TypeOK
    <3>2. Step(r) => Commit(r)
      BY <1>1 DEF Step, Begin, Acquire, AcquireTimeout, ReadCache, ReadUpsert, UpsertNothing,
        ReadLocked, Refuse, ReadDelete, Retire, Insert, InsertDuplicate, Publish, Release
    <3>3. ASSUME NEW q \in Request, q # r, Step(q) PROVE pc'[r] = pc[r]
      BY <3>1, <3>3 DEF Step, Begin, Acquire, AcquireTimeout, ReadCache, ReadUpsert,
        UpsertNothing, ReadLocked, Refuse, ReadDelete, Retire, Insert, InsertDuplicate, Commit,
        Publish, Release, Close, Goto
    <3>4. ASSUME NEW q \in Request, Crash(q) PROVE pc'[r] \in {pc[r], "crashed"}
      BY <3>1, <3>4 DEF Crash, Close, Goto
    <3>5. ASSUME NEW c \in Conn, CloseIdle(c) PROVE pc' = pc
      BY <3>5 DEF CloseIdle
    <3>6. UNCHANGED vars => pc' = pc
      BY DEF vars
    <3>7. ASSUME NEW v \in events, HandleEvent(v) PROVE pc' = pc
      BY <3>7 DEF HandleEvent
    <3> QED  BY <1>1, <3>2, <3>3, <3>4, <3>5, <3>6, <3>7 DEF Next
  <2>2. current[r] = Top(view[r].rows) /\ view[r].rows = field.rows
    BY <1>1 DEF IInv, Held
  <2> QED  BY <1>1, <2>1, <2>2, CommitEffect
<1>2. IInv /\ [Next]_vars =>
        [\A r \in Request : op[r] = "update" /\ pc[r] = "commit" /\ pc'[r] = "publish" =>
            current[r] = Top(field.rows) /\ Top(field'.rows) = current[r] + 1]_vars
  BY <1>1
<1> QED  BY <1>2, Inductive, PTL DEF Spec, NoUpdateLost

\* A stale cache never changes what get_active_by_name returns.
THEOREM CacheHarmless == Spec => []CacheTransparent
<1>1. IInv => CacheTransparent
  <2> SUFFICES ASSUME IInv, NEW r \in Request,
                      pc[r] \in {"retire", "insert"}, op[r] \in {"create", "update"}
               PROVE  current[r] = Top(view[r].active)
    BY DEF CacheTransparent
  <2>1. Held(r) /\ Dense(view[r])
    BY DEF IInv, Held, ViewOK
  <2>2. CASE op[r] = "create"
    BY <2>1, <2>2 DEF Held, Top
  <2>3. CASE op[r] = "update"
    <3>1. view[r].active = {current[r]}
      BY <2>1, <2>3 DEF Held
    <3>2. Top(view[r].active) # 0 => view[r].active = {Top(view[r].active)}
      BY <2>1, DenseLookup
    <3>3. Top(view[r].active) = 0 => view[r].active = {}
      BY <2>1, DenseLookup
    <3> QED  BY <3>1, <3>2, <3>3
  <2> QED  BY <2>2, <2>3
<1> QED  BY <1>1, Inductive, PTL

\* The named lock admits one create or update at a time.
THEOREM LockExcludes == Spec => []OneInside
<1>1. IInv => OneInside
  BY RegistryConstantsOK DEF IInv, LockOK, Locked, Connected, OneInside
<1> QED  BY <1>1, Inductive, PTL

\* Under the lock, a fresh view never runs into the unique key.
THEOREM FreshNeverCollides == Spec => []LockedReadNeverCollides
<1>1. IInv => LockedReadNeverCollides
  <2> SUFFICES ASSUME IInv, NEW r \in Request \ early, pc[r] = "insert"
               PROVE  NextVersion(r) \notin field.rows
    BY DEF LockedReadNeverCollides
  <2>1. Held(r) /\ Fresh(r) /\ ViewOK(r) /\ Dense(field)
    BY DEF IInv
  <2>2. Locked(r) /\ view[r].open
    BY <2>1 DEF Held, Locked
  <2>3. view[r].rows = field.rows
    BY <2>1, <2>2 DEF Fresh
  <2>4. Top(field.rows) + 1 \notin field.rows
    BY <2>1 DEF Dense
  <2> QED  BY <2>3, <2>4 DEF NextVersion
<1> QED  BY <1>1, Inductive, PTL
\* What readers of memory_field see is a versioned register.
THEOREM RefinesVersionedField == Spec => ImplementsVersionedField
<1>1. Init => Abstract!Init
  BY DEF Init, NoRows, Abstract!Init
<1>2. IInv /\ [Next]_vars => [Abstract!Next]_field
  <2> SUFFICES ASSUME IInv, Next, field' # field PROVE Abstract!Next
    BY DEF vars
  <2>1. PICK r \in Request : Commit(r)
    BY DEF Next, Step, Begin, Acquire, AcquireTimeout, ReadCache, ReadUpsert, UpsertNothing,
      ReadLocked, Refuse, ReadDelete, Retire, Insert, InsertDuplicate, Publish, Release,
      HandleEvent, CloseIdle, Crash
  <2>2. field' = [rows |-> field'.rows, active |-> field'.active]
    BY <2>1 DEF Commit, After
  <2>3. Top(field.rows) = Abstract!Newest
    BY DEF Top, Max, Abstract!Newest, Abstract!Max
  <2>4. CASE field'.rows = field.rows
    <3>1. field = [rows |-> field.rows, active |-> field.active]
      BY DEF IInv, TypeOK, Rows
    <3>2. field'.active # field.active
      BY <2>2, <2>4, <3>1
    <3>3. field.active \subseteq {Top(field.rows)} /\ field'.active \subseteq field.active
      BY <2>1, <2>4, CommitEffect DEF IInv, Dense
    <3>4. field'.active = {}
      BY <3>2, <3>3
    <3> QED  BY <2>2, <2>4, <3>4 DEF Abstract!Next, Abstract!Withdraw
  <2>5. CASE new[r] = {Top(field.rows) + 1}
    <3>1. field'.rows = field.rows \cup {Top(field.rows) + 1}
      BY <2>1, <2>5 DEF Commit, After
    <3>2. Top(field.rows) + 1 \in field'.active
      BY <2>1, <2>5 DEF Commit, After
    <3>3. field'.active \subseteq {Top(field'.rows)}
      BY <2>1, CommitEffect DEF Dense, Top
    <3>4. field'.active = {Top(field.rows) + 1}
      BY <3>2, <3>3
    <3> QED  BY <2>2, <2>3, <3>1, <3>4 DEF Abstract!Next, Abstract!Publish
  <2> QED  BY <2>1, <2>4, <2>5, CommitEffect
<1> QED  BY <1>1, <1>2, Inductive, PTL DEF Spec, ImplementsVersionedField, Abstract!Spec

\* Only the newest version of a field is active, and a read under the lock yields a
\* version number that no row has.
THEOREM VersionsAlwaysSound == Spec => []VersionsSound
<1>1. OnlyNewestActive /\ LockedReadNeverCollides => VersionsSound
  BY DEF VersionsSound
<1>2. QED
  BY <1>1, NewestActive, FreshNeverCollides, PTL
=============================================================================
