-------------------------- MODULE RegistriesProofs --------------------------
(***************************************************************************)
(* Theorems about rules, capabilities, the change log and the SDK's cache  *)
(* beside each other: for any numbers of requests, rows, changes and       *)
(* threads, and any bounds.  Each part has an inductive invariant of its   *)
(* own.  What the fields keep is shown in SchemaRegistryProofs.            *)
(***************************************************************************)
EXTENDS Registries, SchemaRegistryProofs, FiniteSetTheorems, SequenceTheorems, TLAPS

-----------------------------------------------------------------------------
(***************************************************************************)
(* Every request works on a snapshot.  While the memory field keeps its    *)
(* id, the rows of a retiring kind are in order, in the table and in every *)
(* snapshot: their versions are 1 up to some n, each there once, so that a *)
(* row a snapshot lacks has the version that the snapshot would give next. *)
(***************************************************************************)
Bound0(q) ==
    \A i \in DOMAIN q : q[i].kind \in Rules!Retiring => q[i].field = 0 /\ q[i].slot = "none"

Closed(q) ==
    \A i \in DOMAIN q : q[i].kind \in Rules!Retiring =>
        /\ 1 <= q[i].version
        /\ \A w \in 1 .. q[i].version :
              \E j \in DOMAIN q : q[j].kind = q[i].kind /\ q[j].version = w

Distinct(q) ==
    \A i, j \in DOMAIN q :
        q[i].kind \in Rules!Retiring /\ q[j].kind = q[i].kind /\ q[j].version = q[i].version
           => i = j

Single(q) ==
    \A i, j \in DOMAIN q :
        q[i].kind \in Rules!Retiring /\ q[j].kind = q[i].kind /\ q[i].active /\ q[j].active
           => i = j

InOrder(q) == Bound0(q) /\ Closed(q) /\ Distinct(q) /\ Single(q)

\* The table has every row of a snapshot, retired or not.
Covers(p, q) ==
    /\ Len(q) <= Len(p)
    /\ \A i \in DOMAIN q :
          /\ p[i].kind = q[i].kind /\ p[i].version = q[i].version
          /\ p[i].active => q[i].active

RuleInv ==
    /\ Rules!TypeOK
    /\ \A t \in Txn : ruleOp[t].kind # "retrieve" => ruleOp[t].scope = "field"
    /\ ruleField = 0 =>
        /\ InOrder(rows)
        /\ \A t \in Txn : bound[t] = 0 /\ InOrder(snap[t]) /\ Covers(rows, snap[t])

-----------------------------------------------------------------------------
(* The table after a write. *)

\* The rows there are, as p shows them after some were retired.
Shows(p, S) ==
    \A i \in 1 .. Len(rows) :
        /\ p[i].kind = rows[i].kind /\ p[i].field = rows[i].field
        /\ p[i].slot = rows[i].slot /\ p[i].version = rows[i].version
        /\ p[i].active = (rows[i].active /\ i \notin S)

\* The instance has its own name for what it takes from FiniteSets.
LEMMA SameCardinality == \A S : Rules!Cardinality(S) = Cardinality(S)
BY DEF Rules!Cardinality, Cardinality

LEMMA RetiredFact ==
    ASSUME rows \in Seq(Rules!Row), NEW S
    PROVE  /\ Rules!Retired(S) \in Seq(Rules!Row) /\ Len(Rules!Retired(S)) = Len(rows)
           /\ DOMAIN Rules!Retired(S) = DOMAIN rows /\ DOMAIN rows = 1 .. Len(rows)
           /\ Shows(Rules!Retired(S), S)
<1>1. DOMAIN rows = 1 .. Len(rows) /\ Len(rows) \in Nat
         /\ \A i \in DOMAIN rows : rows[i] \in Rules!Row
  BY ElementOfSeq
<1>2. \A i \in DOMAIN rows :
        /\ Rules!Retired(S)[i] = [rows[i] EXCEPT !.active = rows[i].active /\ i \notin S]
        /\ Rules!Retired(S)[i] \in Rules!Row
  BY <1>1 DEF Rules!Retired, Rules!Row
<1>3. Rules!Retired(S) \in [1 .. Len(rows) -> Rules!Row]
  BY <1>1, <1>2 DEF Rules!Retired
<1>4. Rules!Retired(S) \in Seq(Rules!Row)
  BY <1>1, <1>3, SeqDef
<1>5. Len(Rules!Retired(S)) = Len(rows) /\ DOMAIN Rules!Retired(S) = DOMAIN rows
  BY <1>1, <1>3, <1>4
<1>6. QED
  BY <1>1, <1>2, <1>4, <1>5 DEF Rules!Row, Shows

LEMMA AppendedFact ==
    ASSUME rows \in Seq(Rules!Row), NEW S, NEW r \in Rules!Row, NEW p,
           p = Append(Rules!Retired(S), r)
    PROVE  /\ p \in Seq(Rules!Row) /\ Len(p) = Len(rows) + 1 /\ Len(rows) \in Nat
           /\ DOMAIN p = 1 .. Len(rows) + 1 /\ DOMAIN rows = 1 .. Len(rows)
           /\ p[Len(rows) + 1] = r
           /\ Shows(p, S)
<1>1. /\ Rules!Retired(S) \in Seq(Rules!Row) /\ Len(Rules!Retired(S)) = Len(rows)
      /\ DOMAIN rows = 1 .. Len(rows)
  BY RetiredFact
<1>2. /\ p \in Seq(Rules!Row) /\ Len(p) = Len(Rules!Retired(S)) + 1
      /\ \A i \in 1 .. Len(Rules!Retired(S)) : p[i] = Rules!Retired(S)[i]
      /\ p[Len(Rules!Retired(S)) + 1] = r
  BY <1>1, AppendProperties
<1>3. DOMAIN p = 1 .. Len(p) /\ Len(rows) \in Nat
  BY <1>2
<1>4. QED
  BY <1>1, <1>2, <1>3, RetiredFact DEF Shows

LEMMA LowerThere ==
    ASSUME NEW q, InOrder(q), NEW i \in DOMAIN q, q[i].kind \in Rules!Retiring,
           NEW w \in 1 .. q[i].version
    PROVE  \E j \in DOMAIN q : q[j].kind = q[i].kind /\ q[j].version = w
  BY DEF InOrder, Closed

\* Rows that are only retired stay in order.
LEMMA RetireKeeps ==
    ASSUME InOrder(rows), DOMAIN rows = 1 .. Len(rows), NEW S, NEW p,
           DOMAIN p = DOMAIN rows, Shows(p, S)
    PROVE  InOrder(p)
<1>1. Bound0(p)
  BY DEF InOrder, Bound0, Shows
<1>2. Closed(p)
  <2> SUFFICES ASSUME NEW i \in DOMAIN p, p[i].kind \in Rules!Retiring
               PROVE  /\ 1 <= p[i].version
                      /\ \A w \in 1 .. p[i].version :
                            \E j \in DOMAIN p : p[j].kind = p[i].kind /\ p[j].version = w
    BY DEF Closed
  <2>1. \A j \in DOMAIN rows : p[j].kind = rows[j].kind /\ p[j].version = rows[j].version
    BY DEF Shows
  <2>2. rows[i].kind \in Rules!Retiring /\ 1 <= rows[i].version
    BY <2>1 DEF InOrder, Closed
  <2>3. ASSUME NEW w \in 1 .. p[i].version
        PROVE  \E j \in DOMAIN p : p[j].kind = p[i].kind /\ p[j].version = w
    <3>1. PICK j \in DOMAIN rows : rows[j].kind = rows[i].kind /\ rows[j].version = w
      BY <2>1, <2>2, LowerThere
    <3>2. QED
      BY <2>1, <3>1
  <2>4. QED
    BY <2>1, <2>2, <2>3
<1>3. \A i \in DOMAIN rows : /\ p[i].kind = rows[i].kind /\ p[i].version = rows[i].version
                             /\ p[i].active => rows[i].active
  BY DEF Shows
<1>4. Distinct(p)
  BY <1>3 DEF InOrder, Distinct
<1>5. Single(p)
  BY <1>3 DEF InOrder, Single
<1>6. QED
  BY <1>1, <1>2, <1>4, <1>5 DEF InOrder

\* So do they when a row of another kind is appended.
LEMMA AppendKeeps ==
    ASSUME InOrder(rows), Len(rows) \in Nat, DOMAIN rows = 1 .. Len(rows), NEW S, NEW p,
           DOMAIN p = 1 .. Len(rows) + 1, Shows(p, S),
           p[Len(rows) + 1].kind \notin Rules!Retiring
    PROVE  InOrder(p)
<1>1. \A i \in DOMAIN p : p[i].kind \in Rules!Retiring => i \in DOMAIN rows
  OBVIOUS
<1>2. \A i \in DOMAIN rows : i \in DOMAIN p
  OBVIOUS
<1>3. Bound0(p)
  BY <1>1 DEF InOrder, Bound0, Shows
<1>4. Closed(p)
  <2> SUFFICES ASSUME NEW i \in DOMAIN p, p[i].kind \in Rules!Retiring
               PROVE  /\ 1 <= p[i].version
                      /\ \A w \in 1 .. p[i].version :
                            \E j \in DOMAIN p : p[j].kind = p[i].kind /\ p[j].version = w
    BY DEF Closed
  <2>1. i \in DOMAIN rows /\ p[i].version = rows[i].version /\ p[i].kind = rows[i].kind
    BY <1>1 DEF Shows
  <2>2. 1 <= p[i].version
    BY <2>1 DEF InOrder, Closed
  <2>3. ASSUME NEW w \in 1 .. p[i].version
        PROVE  \E j \in DOMAIN p : p[j].kind = p[i].kind /\ p[j].version = w
    <3>1. PICK j \in DOMAIN rows : rows[j].kind = rows[i].kind /\ rows[j].version = w
      BY <2>1, <2>3, LowerThere
    <3>2. j \in DOMAIN p /\ p[j].kind = p[i].kind /\ p[j].version = w
      BY <1>2, <2>1, <3>1 DEF Shows
    <3>3. QED
      BY <3>2
  <2>4. QED
    BY <2>2, <2>3
<1>5. Distinct(p)
  BY <1>1 DEF InOrder, Distinct, Shows
<1>6. Single(p)
  BY <1>1 DEF InOrder, Single, Shows
<1>7. QED
  BY <1>3, <1>4, <1>5, <1>6 DEF InOrder

LEMMA ShowsCovers ==
    ASSUME NEW q, Covers(rows, q), Len(q) \in Nat, DOMAIN q = 1 .. Len(q), Len(rows) \in Nat,
           NEW S, NEW p, Len(p) \in Nat, Len(rows) <= Len(p), Shows(p, S)
    PROVE  Covers(p, q)
<1>1. Len(q) <= Len(p)
  BY DEF Covers
<1>2. ASSUME NEW i \in DOMAIN q
      PROVE  /\ p[i].kind = q[i].kind /\ p[i].version = q[i].version
             /\ p[i].active => q[i].active
  <2>1. i \in 1 .. Len(rows)
    BY DEF Covers
  <2>2. QED
    BY <2>1 DEF Covers, Shows
<1>3. QED
  BY <1>1, <1>2 DEF Covers

-----------------------------------------------------------------------------
(* The write of a parse or merge rule. *)

\* A row of the kind that the snapshot lacks makes the next version clash.
LEMMA NothingNew ==
    ASSUME rows \in Seq(Rules!Row), NEW q \in Seq(Rules!Row), InOrder(rows), InOrder(q),
           Covers(rows, q),
           NEW k \in Rules!Retiring, NEW v \in Nat \ {0}, Rules!IsNext(v, q, k, 0, "none"),
           \A i \in DOMAIN rows : rows[i].kind = k => rows[i].version # v,
           NEW i \in DOMAIN rows, rows[i].kind = k
    PROVE  i \in DOMAIN q
<1>1. /\ DOMAIN q = 1 .. Len(q) /\ DOMAIN rows = 1 .. Len(rows)
      /\ Len(q) \in Nat /\ Len(rows) \in Nat /\ Len(q) <= Len(rows)
      /\ \A j \in DOMAIN q : q[j] \in Rules!Row
      /\ \A j \in DOMAIN rows : rows[j] \in Rules!Row
  BY ElementOfSeq DEF Covers
<1> DEFINE w == rows[i].version
<1>2. w \in Nat /\ 1 <= w
  BY <1>1 DEF Rules!Row, InOrder, Closed
<1>3. w < v
  <2>1. SUFFICES ASSUME v <= w PROVE FALSE
    BY <1>2
  <2>2. v \in 1 .. w
    BY <1>2, <2>1
  <2>3. QED
    BY <2>2 DEF InOrder, Closed
<1>4. v # 1
  BY <1>2, <1>3
<1>5. PICK j \in Rules!Counted(q, k, 0, "none") : v - 1 = q[j].version
  BY <1>4 DEF Rules!IsNext
<1>6. j \in DOMAIN q /\ q[j].kind = k
  BY <1>5 DEF Rules!Counted
<1>7. w \in 1 .. q[j].version
  BY <1>2, <1>3, <1>5
<1> HIDE DEF w
<1>8. \E m \in DOMAIN q : q[m].kind = q[j].kind /\ q[m].version = w
  BY <1>6, <1>7, LowerThere
<1>9. PICK m \in DOMAIN q : q[m].kind = k /\ q[m].version = w
  BY <1>6, <1>8
<1>10. m \in DOMAIN rows /\ rows[m].kind = k /\ rows[m].version = w
  BY <1>1, <1>9 DEF Covers
<1>11. i = m
  BY <1>10 DEF InOrder, Distinct, w
<1>12. QED
  BY <1>9, <1>11

\* A request that wants the retired row's kind finds the active one, if there is one.
LEMMA ServedAll ==
    ASSUME NEW q, InOrder(q), NEW o, o.kind \in Rules!Retiring
    PROVE  /\ Rules!Served(q, o) \subseteq Rules!Actives(q, o)
           /\ \A i \in Rules!Actives(q, o) : Rules!Actives(q, o) \subseteq {i}
           /\ Rules!Served(q, o) = {} /\ (\A i \in DOMAIN q : q[i].version \in Nat)
                 => Rules!Actives(q, o) = {}
<1>1. \A i, j \in Rules!Actives(q, o) : i = j
  BY DEF InOrder, Single, Rules!Actives
<1>2. ASSUME NEW i \in Rules!Actives(q, o), \A j \in DOMAIN q : q[j].version \in Nat
      PROVE  i \in Rules!Served(q, o)
  <2>1. i \in DOMAIN q
    BY DEF Rules!Actives
  <2>2. \A j \in Rules!Actives(q, o) : q[j].version <= q[i].version
    BY <1>1, <1>2, <2>1
  <2>3. QED
    BY <2>2 DEF Rules!Served
<1>3. QED
  BY <1>1, <1>2 DEF Rules!Served

LEMMA WriteKeeps ==
    ASSUME rows \in Seq(Rules!Row), NEW q \in Seq(Rules!Row), InOrder(rows), InOrder(q),
           Covers(rows, q),
           NEW k \in Rules!Retiring, NEW o, o.kind = k, o.scope = "field",
           NEW v \in 1 .. Len(q) + 1, Rules!IsNext(v, q, k, 0, "none"),
           ~Rules!Clashes(Rules!NewRow(k, 0, "none", v)),
           NEW S, Rules!Actives(q, o) \subseteq S,
           NEW p, DOMAIN p = 1 .. Len(rows) + 1, Shows(p, S),
           p[Len(rows) + 1] = Rules!NewRow(k, 0, "none", v)
    PROVE  InOrder(p)
<1> DEFINE r == Rules!NewRow(k, 0, "none", v)
           n == Len(rows) + 1
<1>1. /\ DOMAIN q = 1 .. Len(q) /\ DOMAIN rows = 1 .. Len(rows)
      /\ Len(q) \in Nat /\ Len(rows) \in Nat /\ Len(q) <= Len(rows) /\ v \in Nat \ {0}
      /\ \A i \in DOMAIN q : q[i] \in Rules!Row
      /\ \A i \in DOMAIN rows : rows[i] \in Rules!Row
  BY ElementOfSeq DEF Covers
<1>2. /\ r \in Rules!Row /\ r.kind = k /\ r.field = 0 /\ r.slot = "none" /\ r.version = v
  BY <1>1 DEF Rules!NewRow, Rules!Row, Rules!Retiring, Rules!Kinds, Rules!Slots
<1>3. /\ DOMAIN p = 1 .. n /\ p[n] = r /\ Shows(p, S)
  OBVIOUS
<1> HIDE DEF r
<1>4. \A i \in DOMAIN rows : rows[i].kind = k => rows[i].version # v
  <2>1. \A i \in DOMAIN rows : rows[i].kind = k => rows[i].field = 0 /\ rows[i].slot = "none"
    BY DEF InOrder, Bound0
  <2>2. 0 # Rules!Implicit
    BY DEF Rules!Implicit
  <2>3. QED
    BY <1>2, <2>1, <2>2 DEF Rules!Clashes, r
<1>5. \A i \in DOMAIN rows : rows[i].kind = k => i \in DOMAIN q
  BY <1>1, <1>4, NothingNew
<1>6. \A i \in DOMAIN p : i = n \/ i \in DOMAIN rows
  BY <1>1, <1>3
<1>7. Bound0(p)
  BY <1>2, <1>3, <1>6, <1>1 DEF InOrder, Bound0, Shows
<1>8. Closed(p)
  <2> SUFFICES ASSUME NEW i \in DOMAIN p, p[i].kind \in Rules!Retiring
               PROVE  /\ 1 <= p[i].version
                      /\ \A w \in 1 .. p[i].version :
                            \E j \in DOMAIN p : p[j].kind = p[i].kind /\ p[j].version = w
    BY DEF Closed
  <2>1. \A j \in DOMAIN rows :
          j \in DOMAIN p /\ p[j].kind = rows[j].kind /\ p[j].version = rows[j].version
    BY <1>3, <1>1 DEF Shows
  <2>2. CASE i \in DOMAIN rows
    <3>1. 1 <= p[i].version
      BY <2>1, <2>2 DEF InOrder, Closed
    <3>2. ASSUME NEW w \in 1 .. p[i].version
          PROVE  \E j \in DOMAIN p : p[j].kind = p[i].kind /\ p[j].version = w
      <4>1. PICK j \in DOMAIN rows : rows[j].kind = rows[i].kind /\ rows[j].version = w
        BY <2>1, <2>2, <3>2, LowerThere
      <4>2. QED
        BY <2>1, <2>2, <4>1
    <3>3. QED
      BY <3>1, <3>2
  <2>3. CASE i = n
    <3>1. p[i].version = v /\ p[i].kind = k
      BY <1>3, <1>2, <2>3
    <3>2. ASSUME NEW w \in 1 .. v, w # v
          PROVE  \E j \in DOMAIN p : p[j].kind = k /\ p[j].version = w
      <4>1. v # 1
        BY <1>1, <3>2
      <4>2. PICK j \in Rules!Counted(q, k, 0, "none") : v - 1 = q[j].version
        BY <4>1 DEF Rules!IsNext
      <4>3. j \in DOMAIN q /\ q[j].kind = k /\ w \in 1 .. q[j].version
        BY <1>1, <3>2, <4>2 DEF Rules!Counted
      <4>4. PICK m \in DOMAIN q : q[m].kind = k /\ q[m].version = w
        BY <4>3, LowerThere
      <4>5. m \in DOMAIN rows /\ rows[m].kind = k /\ rows[m].version = w
        BY <1>1, <4>4 DEF Covers
      <4>6. QED
        BY <2>1, <4>5
    <3>3. n \in DOMAIN p /\ p[n].kind = k /\ p[n].version = v
      BY <1>3, <1>2, <1>1
    <3>4. \A w \in 1 .. v : \E j \in DOMAIN p : p[j].kind = k /\ p[j].version = w
      BY <3>2, <3>3
    <3>5. 1 <= p[i].version
      BY <1>1, <3>1
    <3>6. QED
      BY <3>1, <3>4, <3>5
  <2>4. QED
    BY <1>6, <2>2, <2>3
<1>9. \A i \in DOMAIN rows : /\ p[i].kind = rows[i].kind /\ p[i].version = rows[i].version
                             /\ p[i].active => rows[i].active
  BY <1>3, <1>1 DEF Shows
<1>10. Distinct(p)
  <2> SUFFICES ASSUME NEW i \in DOMAIN p, NEW j \in DOMAIN p, p[i].kind \in Rules!Retiring,
                      p[j].kind = p[i].kind, p[j].version = p[i].version
               PROVE  i = j
    BY DEF Distinct
  <2>1. CASE i \in DOMAIN rows /\ j \in DOMAIN rows
    BY <1>9, <2>1 DEF InOrder, Distinct
  <2>2. CASE i = n /\ j \in DOMAIN rows
    BY <1>3, <1>4, <1>2, <1>9, <2>2
  <2>3. CASE j = n /\ i \in DOMAIN rows
    BY <1>3, <1>4, <1>2, <1>9, <2>3
  <2>4. QED
    BY <1>6, <2>1, <2>2, <2>3
<1>11. \A i \in DOMAIN rows : p[i].kind = k => ~p[i].active
  <2> SUFFICES ASSUME NEW i \in DOMAIN rows, p[i].kind = k, p[i].active PROVE FALSE
    OBVIOUS
  <2>1. rows[i].kind = k /\ rows[i].active /\ i \notin S
    BY <1>3, <1>1 DEF Shows
  <2>2. i \in DOMAIN q
    BY <1>5, <2>1
  <2>3. q[i].kind = k /\ q[i].active
    BY <2>1, <2>2 DEF Covers
  <2>4. q[i].field = 0
    BY <2>2, <2>3 DEF InOrder, Bound0
  <2>5. i \in Rules!Actives(q, o)
    BY <2>2, <2>3, <2>4 DEF Rules!Actives, Rules!InScope, Rules!Implicit
  <2>6. QED
    BY <2>1, <2>5
<1>12. Single(p)
  <2> SUFFICES ASSUME NEW i \in DOMAIN p, NEW j \in DOMAIN p, p[i].kind \in Rules!Retiring,
                      p[j].kind = p[i].kind, p[i].active, p[j].active
               PROVE  i = j
    BY DEF Single
  <2>1. CASE i \in DOMAIN rows /\ j \in DOMAIN rows
    BY <1>9, <2>1 DEF InOrder, Single
  <2>2. CASE i = n \/ j = n
    <3>1. p[i].kind = k /\ p[j].kind = k
      BY <1>3, <1>2, <2>2
    <3>2. QED
      BY <1>6, <1>11, <2>2, <3>1
  <2>3. QED
    BY <1>6, <2>1, <2>2
<1>13. QED
  BY <1>7, <1>8, <1>10, <1>12 DEF InOrder
-----------------------------------------------------------------------------
(* The invariant. *)

\* What a write does to the table: the row it retires, the row it adds.
LEMMA ReplaceStep ==
    ASSUME rows \in Seq(Rules!Row), NEW t, NEW S, NEW r \in Rules!Row, Rules!Replace(t, S, r)
    PROVE  \/ rows' = rows
           \/ /\ ~Rules!Clashes(r)
              /\ rows' \in Seq(Rules!Row) /\ Len(rows') = Len(rows) + 1
              /\ DOMAIN rows' = 1 .. Len(rows) + 1
              /\ rows'[Len(rows) + 1] = r /\ Shows(rows', S)
<1>1. CASE Rules!Clashes(r)
  BY <1>1 DEF Rules!Replace
<1>2. CASE ~Rules!Clashes(r)
  <2>1. rows' = Append(Rules!Retired(S), r)
    BY <1>2 DEF Rules!Replace
  <2> DEFINE p == Append(Rules!Retired(S), r)
  <2>2. /\ p \in Seq(Rules!Row) /\ Len(p) = Len(rows) + 1
        /\ DOMAIN p = 1 .. Len(rows) + 1
        /\ p[Len(rows) + 1] = r /\ Shows(p, S)
    BY AppendedFact
  <2> HIDE DEF p
  <2>3. QED
    BY <1>2, <2>1, <2>2 DEF p
<1>3. QED
  BY <1>1, <1>2

LEMMA NothingRetired ==
    ASSUME rows \in Seq(Rules!Row)
    PROVE  Shows(rows, {})
<1>1. \A i \in 1 .. Len(rows) : rows[i] \in Rules!Row
  BY ElementOfSeq
<1>2. \A i \in 1 .. Len(rows) : rows[i].active \in BOOLEAN
  BY <1>1 DEF Rules!Row
<1>3. \A i \in 1 .. Len(rows) : rows[i].active = (rows[i].active /\ i \notin {})
  BY <1>2
<1>4. QED
  BY <1>3 DEF Shows

\* A write keeps the invariant if the table it leaves is in order.
LEMMA RowsStep ==
    ASSUME RuleInv, NEW t \in Txn, NEW s \in {"done", "clash", "refused"}, Rules!Done(t, s),
           Rules!Stays,
           rows' \in Seq(Rules!Row), Len(rows) <= Len(rows'), NEW S, Shows(rows', S),
           ruleField = 0 => InOrder(rows')
    PROVE  RuleInv'
<1>1. Rules!TypeOK'
  BY DEF RuleInv, Rules!TypeOK, Rules!Done, Rules!Stays
<1>2. ASSUME ruleField = 0, NEW u \in Txn
      PROVE  bound'[u] = 0 /\ InOrder(snap'[u]) /\ Covers(rows', snap'[u])
  <2>1. snap'[u] = snap[u] /\ bound'[u] = bound[u] /\ bound[u] = 0 /\ InOrder(snap[u])
    BY <1>2 DEF RuleInv, Rules!Stays
  <2>2. Covers(rows, snap[u])
    BY <1>2 DEF RuleInv
  <2>3. /\ Len(snap[u]) \in Nat /\ DOMAIN snap[u] = 1 .. Len(snap[u])
        /\ Len(rows) \in Nat /\ Len(rows') \in Nat
    BY DEF RuleInv, Rules!TypeOK
  <2>4. Covers(rows', snap[u])
    BY <2>2, <2>3, ShowsCovers
  <2>5. QED
    BY <2>1, <2>4
<1>3. \A u \in Txn : ruleOp'[u].kind # "retrieve" => ruleOp'[u].scope = "field"
  BY DEF RuleInv, Rules!Stays
<1>4. ruleField' = ruleField
  BY DEF Rules!Stays
<1>5. QED
  BY <1>1, <1>2, <1>3, <1>4 DEF RuleInv

\* In particular one that leaves the rows, or only adds a row of another kind.
LEMMA OtherStep ==
    ASSUME RuleInv, NEW t \in Txn, Rules!Stays, NEW S, NEW r \in Rules!Row,
           Rules!Replace(t, S, r),
           ruleField = 0 /\ rows' # rows => InOrder(rows')
    PROVE  RuleInv'
<1>1. rows \in Seq(Rules!Row) /\ Len(rows) \in Nat
  BY DEF RuleInv, Rules!TypeOK
<1>2. PICK s \in {"done", "clash", "refused"} : Rules!Done(t, s)
  BY DEF Rules!Replace
<1>3. CASE rows' = rows
  <2>1. Shows(rows', {}) /\ (ruleField = 0 => InOrder(rows'))
    BY <1>3, <1>1, NothingRetired DEF RuleInv
  <2>2. QED
    BY <1>2, <1>3, <1>1, <2>1, RowsStep
<1>4. CASE rows' # rows
  <2>1. rows' \in Seq(Rules!Row) /\ Len(rows') = Len(rows) + 1 /\ Shows(rows', S)
    BY <1>4, <1>1, ReplaceStep
  <2>2. ruleField = 0 => InOrder(rows')
    BY <1>4
  <2>3. QED
    BY <1>2, <1>1, <2>1, <2>2, RowsStep
<1>5. QED
  BY <1>3, <1>4

LEMMA AddStep ==
    ASSUME RuleInv, NEW t \in Txn, Rules!Stays, NEW S, NEW r \in Rules!Row,
           r.kind \notin Rules!Retiring,
           Rules!Replace(t, S, r)
    PROVE  RuleInv'
<1>1. rows \in Seq(Rules!Row) /\ Len(rows) \in Nat /\ DOMAIN rows = 1 .. Len(rows)
  BY DEF RuleInv, Rules!TypeOK
<1>2. ASSUME ruleField = 0, rows' # rows
      PROVE  InOrder(rows')
  <2>1. /\ DOMAIN rows' = 1 .. Len(rows) + 1 /\ rows'[Len(rows) + 1] = r
        /\ Shows(rows', S)
    BY <1>2, <1>1, ReplaceStep
  <2>2. InOrder(rows)
    BY <1>2 DEF RuleInv
  <2>3. QED
    BY <1>1, <2>1, <2>2, AppendKeeps
<1>3. QED
  BY <1>2, OtherStep

\* And one that retires what it saw of a kind before it adds a row.
LEMMA RetiringStep ==
    ASSUME RuleInv, NEW t \in Txn, Rules!Stays, NEW k \in Rules!Retiring, ruleOp[t].kind = k,
           NEW v \in 1 .. Len(snap[t]) + 1, NEW f \in Int, ruleField = 0 => f = 0,
           Rules!IsNext(v, snap[t], k, f, "none"),
           NEW S, InOrder(snap[t]) => Rules!Actives(snap[t], ruleOp[t]) \subseteq S,
           Rules!Replace(t, S, Rules!NewRow(k, f, "none", v))
    PROVE  RuleInv'
<1>1. /\ rows \in Seq(Rules!Row) /\ Len(rows) \in Nat /\ DOMAIN rows = 1 .. Len(rows)
      /\ snap[t] \in Seq(Rules!Row) /\ Len(snap[t]) \in Nat /\ v \in Nat
  BY DEF RuleInv, Rules!TypeOK
<1>2. Rules!NewRow(k, f, "none", v) \in Rules!Row
  BY <1>1 DEF Rules!NewRow, Rules!Row, Rules!Retiring, Rules!Kinds, Rules!Slots
<1>3. ASSUME ruleField = 0, rows' # rows
      PROVE  InOrder(rows')
  <2>1. /\ DOMAIN rows' = 1 .. Len(rows) + 1
        /\ rows'[Len(rows) + 1] = Rules!NewRow(k, f, "none", v)
        /\ Shows(rows', S) /\ ~Rules!Clashes(Rules!NewRow(k, f, "none", v))
    BY <1>3, <1>1, <1>2, ReplaceStep
  <2>2. InOrder(rows) /\ InOrder(snap[t]) /\ Covers(rows, snap[t]) /\ f = 0
    BY <1>3 DEF RuleInv
  <2>3. ruleOp[t].scope = "field"
    BY DEF RuleInv, Rules!Retiring
  <2>4. Rules!Actives(snap[t], ruleOp[t]) \subseteq S
    BY <2>2
  <2>5. /\ rows'[Len(rows) + 1] = Rules!NewRow(k, 0, "none", v)
           /\ ~Rules!Clashes(Rules!NewRow(k, 0, "none", v))
        /\ Rules!IsNext(v, snap[t], k, 0, "none")
    BY <2>1, <2>2
  <2>6. QED
    BY <1>1, <2>1, <2>2, <2>3, <2>4, <2>5, WriteKeeps
<1>4. QED
  BY <1>3, <1>2, OtherStep

LEMMA CreateRetiringStep ==
    ASSUME RuleInv, NEW t \in Txn, NEW k \in Rules!Retiring, Rules!CreateRetiring(t, k)
    PROVE  RuleInv'
<1>1. ruleOp[t].kind = k /\ Rules!Stays /\ snap[t] \in Seq(Rules!Row) /\ bound[t] \in Int
  BY DEF Rules!CreateRetiring, Rules!Asks, RuleInv, Rules!TypeOK
<1>2. PICK S \in SUBSET Rules!Served(snap[t], ruleOp[t]), v \in 1 .. Len(snap[t]) + 1 :
        /\ IF Rules!Served(snap[t], ruleOp[t]) = {} THEN S = {} ELSE Cardinality(S) = 1
        /\ Rules!IsNext(v, snap[t], k, bound[t], "none")
        /\ Rules!Replace(t, S, Rules!NewRow(k, bound[t], "none", v))
  BY SameCardinality DEF Rules!CreateRetiring
<1>3. ruleField = 0 => bound[t] = 0
  BY DEF RuleInv
<1>4. ASSUME InOrder(snap[t])
      PROVE  Rules!Actives(snap[t], ruleOp[t]) \subseteq S
  <2>1. \A i \in DOMAIN snap[t] : snap[t][i] \in Rules!Row
    BY <1>1, ElementOfSeq
  <2>2. \A i \in DOMAIN snap[t] : snap[t][i].version \in Nat
    BY <2>1 DEF Rules!Row
  <2>3. /\ Rules!Served(snap[t], ruleOp[t]) \subseteq Rules!Actives(snap[t], ruleOp[t])
        /\ \A i \in Rules!Actives(snap[t], ruleOp[t]) :
              Rules!Actives(snap[t], ruleOp[t]) \subseteq {i}
        /\ Rules!Served(snap[t], ruleOp[t]) = {} => Rules!Actives(snap[t], ruleOp[t]) = {}
    BY <1>1, <1>4, <2>2, ServedAll
  <2>4. CASE Rules!Served(snap[t], ruleOp[t]) = {}
    BY <2>3, <2>4
  <2>5. CASE Rules!Served(snap[t], ruleOp[t]) # {}
    <3>1. Cardinality(S) = 1
      BY <1>2, <2>5
    <3>2. S # {}
      <4>1. S = {} => Cardinality(S) = 0
        BY FS_EmptySet
      <4>2. QED
        BY <3>1, <4>1
    <3>3. QED
      BY <1>2, <2>3, <3>2
  <2>6. QED
    BY <2>4, <2>5
<1>5. QED
  BY <1>1, <1>2, <1>3, <1>4, RetiringStep

\* What Served returns can be updated.
LEMMA ServedFact ==
    ASSUME RuleInv, NEW t \in Txn, NEW i \in Rules!Served(snap[t], ruleOp[t])
    PROVE  /\ i \in DOMAIN snap[t] /\ snap[t][i] \in Rules!Row
           /\ snap[t][i].kind = ruleOp[t].kind /\ snap[t][i].active
<1>1. snap[t] \in Seq(Rules!Row)
  BY DEF RuleInv, Rules!TypeOK
<1>2. i \in DOMAIN snap[t] /\ snap[t][i].kind = ruleOp[t].kind /\ snap[t][i].active
  BY DEF Rules!Served, Rules!Actives
<1>3. QED
  BY <1>1, <1>2, ElementOfSeq

LEMMA UpdateParseStep ==
    ASSUME RuleInv, NEW t \in Txn, Rules!UpdateParse(t)
    PROVE  RuleInv'
<1>1. ruleOp[t].kind = "parse" /\ Rules!Stays /\ snap[t] \in Seq(Rules!Row)
  BY DEF Rules!UpdateParse, Rules!Update, Rules!Asks, RuleInv, Rules!TypeOK
<1>2. PICK i \in Rules!Served(snap[t], ruleOp[t]), v \in 1 .. Len(snap[t]) + 1 :
        /\ Rules!IsNext(v, snap[t], "parse", snap[t][i].field, "none")
        /\ Rules!Replace(t, {i}, Rules!NewRow("parse", snap[t][i].field, "none", v))
  BY DEF Rules!UpdateParse, Rules!Update
<1>3. i \in DOMAIN snap[t] /\ snap[t][i] \in Rules!Row /\ snap[t][i].kind = "parse"
  BY <1>1, ServedFact
<1>4. snap[t][i].field \in Int
  BY <1>3 DEF Rules!Row
<1>5. "parse" \in Rules!Retiring
  BY DEF Rules!Retiring
<1>6. ruleField = 0 => snap[t][i].field = 0
  BY <1>3, <1>5 DEF RuleInv, InOrder, Bound0
<1>7. ASSUME InOrder(snap[t])
      PROVE  Rules!Actives(snap[t], ruleOp[t]) \subseteq {i}
  BY <1>1, <1>5, <1>7, ServedAll
<1>8. QED
  BY <1>1, <1>2, <1>4, <1>5, <1>6, <1>7, RetiringStep

LEMMA OtherWrites ==
    ASSUME RuleInv, NEW t \in Txn,
           Rules!CreateRetrieve(t) \/ Rules!CreateCall(t) \/ Rules!UpdateRetrieve(t)
              \/ Rules!UpdateCall(t)
    PROVE  RuleInv'
<1>1. /\ snap[t] \in Seq(Rules!Row) /\ Len(snap[t]) \in Nat /\ bound[t] \in Int
         /\ ruleOp[t] \in Rules!Ops
  BY DEF RuleInv, Rules!TypeOK
<1>2. ASSUME NEW k \in {"retrieve", "call"}, NEW f \in Int, NEW s \in Rules!Slots,
             NEW v \in 1 .. Len(snap[t]) + 1
      PROVE  Rules!NewRow(k, f, s, v) \in Rules!Row
             /\ Rules!NewRow(k, f, s, v).kind \notin Rules!Retiring
  BY <1>1 DEF Rules!NewRow, Rules!Row, Rules!Kinds, Rules!Retiring
<1>3. ASSUME Rules!Stays, NEW k \in {"retrieve", "call"}, NEW f \in Int, NEW s \in Rules!Slots,
             NEW v \in 1 .. Len(snap[t]) + 1, NEW S,
             Rules!Replace(t, S, Rules!NewRow(k, f, s, v))
      PROVE  RuleInv'
  BY <1>2, <1>3, AddStep
<1>4. "none" \in Rules!Slots /\ ruleOp[t].slot \in Rules!Slots
  BY <1>1 DEF Rules!Slots, Rules!Ops
<1>5. CASE Rules!CreateRetrieve(t)
  <2> DEFINE f == IF ruleOp[t].scope = "implicit" THEN Rules!Implicit ELSE bound[t]
  <2>1. PICK v \in 1 .. Len(snap[t]) + 1 :
           Rules!Replace(t, {}, Rules!NewRow("retrieve", f, "none", v))
    BY <1>5 DEF Rules!CreateRetrieve
  <2>2. f \in Int /\ Rules!Stays
    BY <1>5, <1>1 DEF Rules!CreateRetrieve, Rules!Implicit
  <2>3. QED
    BY <1>3, <1>4, <2>1, <2>2
<1>6. CASE Rules!CreateCall(t)
  <2>1. PICK v \in 1 .. Len(snap[t]) + 1 :
          Rules!Replace(t, {}, Rules!NewRow("call", bound[t], ruleOp[t].slot, v))
    BY <1>6 DEF Rules!CreateCall
  <2>2. QED
    BY <1>6, <1>3, <1>4, <1>1, <2>1 DEF Rules!CreateCall
<1>7. CASE Rules!UpdateRetrieve(t)
  <2>1. PICK i \in Rules!Served(snap[t], ruleOp[t]), v \in 1 .. Len(snap[t]) + 1 :
          Rules!Replace(t, {i}, Rules!NewRow("retrieve", snap[t][i].field, "none", v))
    BY <1>7 DEF Rules!UpdateRetrieve, Rules!Update
  <2>2. snap[t][i].field \in Int
    BY <2>1, ServedFact DEF Rules!Row
  <2>3. QED
    BY <1>7, <1>3, <1>4, <2>1, <2>2 DEF Rules!UpdateRetrieve, Rules!Update
<1>8. CASE Rules!UpdateCall(t)
  <2>1. PICK i \in Rules!Served(snap[t], ruleOp[t]), v \in 1 .. Len(snap[t]) + 1 :
          LET slot == IF ruleOp[t].slot = "none" THEN snap[t][i].slot ELSE ruleOp[t].slot IN
          Rules!Replace(t, {i}, Rules!NewRow("call", snap[t][i].field, slot, v))
    BY <1>8 DEF Rules!UpdateCall
  <2> DEFINE slot == IF ruleOp[t].slot = "none" THEN snap[t][i].slot ELSE ruleOp[t].slot
  <2>2. snap[t][i].field \in Int /\ snap[t][i].slot \in Rules!Slots
    BY <2>1, ServedFact DEF Rules!Row
  <2>3. slot \in Rules!Slots
    BY <1>4, <2>2
  <2>4. Rules!Replace(t, {i}, Rules!NewRow("call", snap[t][i].field, slot, v))
    BY <2>1
  <2> HIDE DEF slot
  <2>5. QED
    BY <1>8, <1>3, <2>2, <2>3, <2>4 DEF Rules!UpdateCall
<1>9. QED
  BY <1>5, <1>6, <1>7, <1>8

LEMMA DeleteStep ==
    ASSUME RuleInv, NEW t \in Txn, Rules!Delete(t)
    PROVE  RuleInv'
<1>1. rows \in Seq(Rules!Row) /\ Len(rows) \in Nat /\ DOMAIN rows = 1 .. Len(rows)
  BY DEF RuleInv, Rules!TypeOK
<1>2. PICK i \in Rules!Served(snap[t], ruleOp[t]) : rows' = Rules!Retired({i})
  BY DEF Rules!Delete
<1>3. /\ rows' \in Seq(Rules!Row) /\ Len(rows') = Len(rows) /\ DOMAIN rows' = DOMAIN rows
      /\ Shows(rows', {i})
  <2> DEFINE p == Rules!Retired({i})
  <2>1. p \in Seq(Rules!Row) /\ Len(p) = Len(rows) /\ DOMAIN p = DOMAIN rows /\ Shows(p, {i})
    BY <1>1, RetiredFact
  <2> HIDE DEF p
  <2>2. QED
    BY <1>2, <2>1 DEF p
<1>4. ruleField = 0 => InOrder(rows')
  BY <1>1, <1>3, RetireKeeps DEF RuleInv
<1>5. Rules!Done(t, "done") /\ Rules!Stays
  BY DEF Rules!Delete
<1>6. QED
  BY <1>1, <1>3, <1>4, <1>5, RowsStep

LEMMA RuleRefused ==
    ASSUME RuleInv, NEW t \in Txn, Rules!Refuse(t)
    PROVE  RuleInv'
<1>1. rows \in Seq(Rules!Row) /\ Len(rows) \in Nat
  BY DEF RuleInv, Rules!TypeOK
<1>2. Rules!Done(t, "refused") /\ Rules!Stays /\ rows' = rows
  BY DEF Rules!Refuse
<1>3. Shows(rows', {}) /\ (ruleField = 0 => InOrder(rows'))
  BY <1>1, <1>2, NothingRetired DEF RuleInv
<1>4. QED
  BY <1>1, <1>2, <1>3, RowsStep

\* A request that reads the rows, at its start or anew, has all of them.
LEMMA ReadsAll ==
    ASSUME RuleInv, rows' = rows, ruleField' = ruleField, Rules!TypeOK',
           \A u \in Txn : ruleOp'[u].kind # "retrieve" => ruleOp'[u].scope = "field",
           \A u \in Txn : /\ snap'[u] = snap[u] \/ snap'[u] = rows
                          /\ bound'[u] = bound[u] \/ bound'[u] = ruleField
    PROVE  RuleInv'
<1>1. Covers(rows, rows)
  BY DEF Covers, RuleInv, Rules!TypeOK
<1>2. ASSUME ruleField = 0, NEW u \in Txn
      PROVE  bound'[u] = 0 /\ InOrder(snap'[u]) /\ Covers(rows', snap'[u])
  BY <1>1, <1>2 DEF RuleInv
<1>3. QED
  BY <1>2 DEF RuleInv

LEMMA RuleBegun ==
    ASSUME Rules!OpsOK, RuleInv, NEW t \in Txn, NEW o \in RuleOp, Rules!Begin(t, o)
    PROVE  RuleInv'
<1>1. o \in Rules!Ops /\ (o.kind # "retrieve" => o.scope = "field")
  BY DEF Rules!OpsOK
<1>2. Rules!TypeOK'
  BY <1>1 DEF RuleInv, Rules!TypeOK, Rules!Begin, Rules!Done, Rules!Open
<1>3. \A u \in Txn : ruleOp'[u].kind # "retrieve" => ruleOp'[u].scope = "field"
  BY <1>1 DEF RuleInv, Rules!TypeOK, Rules!Begin
<1>4. \A u \in Txn : /\ snap'[u] = snap[u] \/ snap'[u] = rows
                     /\ bound'[u] = bound[u] \/ bound'[u] = ruleField
  BY DEF RuleInv, Rules!TypeOK, Rules!Begin
<1>5. rows' = rows /\ ruleField' = ruleField
  BY DEF Rules!Begin
<1>6. QED
  BY <1>2, <1>3, <1>4, <1>5, ReadsAll

LEMMA ResolveStep ==
    ASSUME RuleInv, NEW t \in Txn, Rules!Resolve(t)
    PROVE  RuleInv'
<1>1. Rules!TypeOK'
  BY DEF RuleInv, Rules!TypeOK, Rules!Resolve
<1>2. \A u \in Txn : ruleOp'[u].kind # "retrieve" => ruleOp'[u].scope = "field"
  BY DEF RuleInv, Rules!Resolve
<1>3. \A u \in Txn : /\ snap'[u] = snap[u] \/ snap'[u] = rows
                     /\ bound'[u] = bound[u] \/ bound'[u] = ruleField
  BY DEF RuleInv, Rules!TypeOK, Rules!Resolve
<1>4. QED
  BY <1>1, <1>2, <1>3, ReadsAll DEF Rules!Resolve

LEMMA RuleInit ==
    ASSUME Rules!Init
    PROVE  RuleInv
<1>1. Rules!TypeOK
  BY DEF Rules!Init, Rules!TypeOK, Rules!NoOp, Rules!Ops, Rules!Kinds, Rules!Scopes, Rules!Slots
<1>2. InOrder(<<>>) /\ Covers(<<>>, <<>>)
  BY DEF InOrder, Bound0, Closed, Distinct, Single, Covers
<1>3. QED
  BY <1>1, <1>2 DEF RuleInv, Rules!Init, Rules!NoOp

LEMMA RuleNext ==
    ASSUME Rules!OpsOK, RuleInv, [Rules!Next]_ruleVars
    PROVE  RuleInv'
<1>1. ASSUME NEW t \in Txn, NEW o \in RuleOp, Rules!Begin(t, o)
      PROVE  RuleInv'
  BY <1>1, RuleBegun
<1>2. ASSUME NEW t \in Txn, Rules!Resolve(t)
      PROVE  RuleInv'
  BY <1>2, ResolveStep
<1>3. ASSUME NEW t \in Txn, Rules!Commit(t)
      PROVE  RuleInv'
  <2>1. "parse" \in Rules!Retiring /\ "merge" \in Rules!Retiring
    BY DEF Rules!Retiring
  <2>2. CASE Rules!CreateParse(t)
    BY <2>2, <2>1, CreateRetiringStep DEF Rules!CreateParse
  <2>3. CASE Rules!CreateMerge(t)
    BY <2>3, <2>1, CreateRetiringStep DEF Rules!CreateMerge
  <2>4. CASE Rules!CreateRetrieve(t) \/ Rules!CreateCall(t) \/ Rules!UpdateRetrieve(t)
                \/ Rules!UpdateCall(t)
    BY <2>4, OtherWrites
  <2>5. CASE Rules!UpdateParse(t)
    BY <2>5, UpdateParseStep
  <2>6. CASE Rules!Delete(t)
    BY <2>6, DeleteStep
  <2>7. QED
    BY <1>3, <2>2, <2>3, <2>4, <2>5, <2>6 DEF Rules!Commit
<1>4. ASSUME NEW t \in Txn, Rules!Refuse(t)
      PROVE  RuleInv'
  BY <1>4, RuleRefused
<1>5. CASE Rules!FieldChanges
  <2>1. Rules!TypeOK' /\ ruleField' # 0
    BY <1>5 DEF RuleInv, Rules!TypeOK, Rules!FieldChanges, Rules!Open
  <2>2. \A u \in Txn : ruleOp'[u].kind # "retrieve" => ruleOp'[u].scope = "field"
    BY <1>5 DEF RuleInv, Rules!FieldChanges
  <2>3. QED
    BY <2>1, <2>2 DEF RuleInv
<1>6. CASE UNCHANGED ruleVars
  BY <1>6 DEF RuleInv, Rules!TypeOK, ruleVars
<1>7. QED
  BY <1>1, <1>2, <1>3, <1>4, <1>5, <1>6 DEF Rules!Next

\* What a step of the registries is while the rules run, and while they do not.
LEMMA RulesPart ==
    ASSUME [RegistriesNext]_allVars
    PROVE  /\ part' = part
           /\ part = "rules" => [Rules!Next]_ruleVars
BY DEF RegistriesNext, allVars, ruleVars

\* Whatever creates, updates and deletes of rules run beside each other, every request
\* sees rows the table has, and while the memory field keeps its id the versions of
\* parse and merge rules are 1 to n, each there once.
THEOREM RuleInvariance == RegistriesSpec => [](part = "rules" => RuleInv)
<1>1. RegistriesInit => (part = "rules" => RuleInv)
  BY RuleInit DEF RegistriesInit
<1>2. (part = "rules" => RuleInv) /\ [RegistriesNext]_allVars => (part = "rules" => RuleInv)'
  BY RegistriesOK, RuleNext, RulesPart
<1>3. QED
  BY <1>1, <1>2, PTL DEF RegistriesSpec

\* At most one parse rule and one merge rule of a name is active while its memory field
\* keeps its id (create_parse, update_parse, create_merge of services/rules.py).
THEOREM OneActiveAlways == RegistriesSpec => []OneActive
<1>1. (part = "rules" => RuleInv) => OneActive
  BY DEF RuleInv, InOrder, Single, OneActive, Rules!OneActive
<1>2. QED
  BY <1>1, RuleInvariance, PTL

-----------------------------------------------------------------------------
(***************************************************************************)
(* A request beside which nothing was written sees the table as it is.     *)
(***************************************************************************)
LoneInv ==
    \A t \in Rules!Open \ crowded : snap[t] = rows /\ bound[t] = ruleField /\ Rules!Open = {t}

LEMMA LoneNext ==
    ASSUME Rules!TypeOK, LoneInv, [Rules!Next]_ruleVars
    PROVE  LoneInv'
<1>1. CASE UNCHANGED ruleVars
  BY <1>1 DEF LoneInv, Rules!Open, ruleVars
<1>2. ASSUME NEW t \in Txn, NEW o \in RuleOp, Rules!Begin(t, o) PROVE LoneInv'
  <2>1. Rules!Open' = Rules!Open \cup {t} /\ t \notin Rules!Open
    BY <1>2 DEF Rules!Begin, Rules!Done, Rules!Open, Rules!TypeOK
  <2>2. CASE Rules!Open = {}
    BY <1>2, <2>1, <2>2 DEF LoneInv, Rules!Begin, Rules!TypeOK
  <2>3. CASE Rules!Open # {}
    BY <1>2, <2>1, <2>3 DEF LoneInv, Rules!Begin
  <2>4. QED
    BY <2>2, <2>3
<1>3. ASSUME NEW t \in Txn, Rules!Resolve(t) PROVE LoneInv'
  <2>1. Rules!Open' = Rules!Open /\ t \in Rules!Open \cap crowded
    BY <1>3 DEF Rules!Resolve, LoneInv, Rules!Open
  <2>2. \A u \in Txn : u # t => snap'[u] = snap[u]
    BY <1>3 DEF Rules!Resolve, Rules!TypeOK
  <2>3. QED
    BY <1>3, <2>1, <2>2 DEF Rules!Resolve, LoneInv, Rules!Open
<1>4. ASSUME NEW t \in Txn, Rules!Commit(t) \/ Rules!Refuse(t) PROVE LoneInv'
  <2>1. PICK s \in {"done", "clash", "refused"} : Rules!Done(t, s) /\ Rules!Stays
                /\ t \in Rules!Open
    BY <1>4
       DEF Rules!Commit, Rules!Refuse, Rules!CreateParse, Rules!CreateMerge,
           Rules!CreateRetiring, Rules!CreateRetrieve, Rules!CreateCall, Rules!UpdateParse,
              Rules!UpdateRetrieve, Rules!UpdateCall, Rules!Update, Rules!Delete, Rules!Replace,
                 Rules!Asks
  <2>2. Rules!Open' = Rules!Open \ {t}
    BY <2>1 DEF Rules!Done, Rules!Open, Rules!TypeOK
  <2>3. QED
    BY <2>1, <2>2 DEF Rules!Stays, LoneInv
<1>5. CASE Rules!FieldChanges
  BY <1>5 DEF Rules!FieldChanges, LoneInv, Rules!Open
<1>6. QED
  BY <1>1, <1>2, <1>3, <1>4, <1>5 DEF Rules!Next

-----------------------------------------------------------------------------
(* What a lone write leaves. *)

LEMMA RowsType ==
    ASSUME rows \in Seq(Rules!Row)
    PROVE  /\ Len(rows) \in Nat /\ DOMAIN rows = 1 .. Len(rows)
           /\ \A i \in DOMAIN rows :
                rows[i] \in Rules!Row /\ rows[i].version \in Nat /\ rows[i].field \in Int
<1>1. /\ Len(rows) \in Nat /\ DOMAIN rows = 1 .. Len(rows)
      /\ \A i \in DOMAIN rows : rows[i] \in Rules!Row
  BY ElementOfSeq
<1>2. QED
  BY <1>1 DEF Rules!Row

\* The row that was added is served if it is in scope and above what is left active.
LEMMA ServedNew ==
    ASSUME rows \in Seq(Rules!Row), NEW p, NEW n, n = Len(rows) + 1, DOMAIN p = 1 .. n,
           NEW S, Shows(p, S), NEW r \in Rules!Row, p[n] = r, r.active,
           NEW o, r.kind = o.kind, Rules!InScope(r, o.scope),
           \A i \in Rules!Actives(rows, o) \ S : rows[i].version < r.version
    PROVE  Rules!Served(p, o) = {n}
<1>1. /\ Len(rows) \in Nat /\ DOMAIN rows = 1 .. Len(rows)
      /\ \A i \in DOMAIN rows : rows[i] \in Rules!Row
  BY ElementOfSeq
<1>2. n \in Rules!Actives(p, o) /\ r.version \in Nat
  BY <1>1 DEF Rules!Actives, Rules!Row
<1>3. ASSUME NEW i \in Rules!Actives(p, o), i # n PROVE p[i].version < r.version
  <2>1. i \in 1 .. Len(rows)
    BY <1>1, <1>3 DEF Rules!Actives
  <2>2. i \in Rules!Actives(rows, o) \ S
    BY <1>1, <1>3, <2>1 DEF Rules!Actives, Shows, Rules!InScope
  <2>3. QED
    BY <2>1, <2>2 DEF Shows
<1>4. \A i \in Rules!Actives(p, o) : p[i].version <= r.version /\ p[i].version \in Nat
  <2>1. ASSUME NEW i \in Rules!Actives(p, o), i # n PROVE p[i].version \in Nat
    <3>1. i \in 1 .. Len(rows)
      BY <1>1, <2>1 DEF Rules!Actives
    <3>2. rows[i].version \in Nat
      BY <1>1, <3>1 DEF Rules!Row
    <3>3. QED
      BY <3>1, <3>2 DEF Shows
  <2>2. QED
    BY <1>2, <1>3, <2>1
<1>5. QED
  <2>1. n \in Rules!Served(p, o)
    BY <1>2, <1>4 DEF Rules!Served
  <2>2. ASSUME NEW i \in Rules!Served(p, o), i # n PROVE FALSE
    <3>1. i \in Rules!Actives(p, o) /\ p[n].version <= p[i].version
      BY <1>2, <2>2 DEF Rules!Served
    <3>2. r.version <= p[i].version /\ p[i].version < r.version
      BY <1>3, <2>2, <3>1
    <3>3. r.version \in Nat /\ p[i].version \in Nat
      BY <1>2, <1>4, <3>1
    <3>4. QED
      BY <3>2, <3>3
  <2>3. QED
    BY <2>1, <2>2

\* A version that is next is above those counted, so no key turns it away.
LEMMA NextRuleVersion ==
    ASSUME rows \in Seq(Rules!Row), NEW k, NEW f, NEW s, NEW v, Rules!IsNext(v, rows, k, f, s),
           NEW g, k = "call" => g = s
    PROVE  /\ ~Rules!Clashes(Rules!NewRow(k, f, g, v))
           /\ \A i \in Rules!Counted(rows, k, f, s) : rows[i].version < v
<1>1. \A i \in Rules!Counted(rows, k, f, s) : rows[i].version < v
  BY DEF Rules!IsNext
<1>2. \A i \in DOMAIN rows : rows[i].version \in Nat
  BY RowsType
<1>3. \A i \in DOMAIN rows :
         rows[i].kind = k /\ rows[i].field = f /\ rows[i].slot = g
            => i \in Rules!Counted(rows, k, f, s)
  BY DEF Rules!Counted
<1>4. QED
  BY <1>1, <1>2, <1>3 DEF Rules!Clashes, Rules!NewRow

LEMMA NewRowFact ==
    ASSUME NEW k \in Rules!Kinds, NEW f \in Int, NEW s \in Rules!Slots, NEW v \in Nat
    PROVE  LET r == Rules!NewRow(k, f, s, v) IN
              r \in Rules!Row /\ r.active /\ r.kind = k /\ r.version = v /\ r.field = f
BY DEF Rules!NewRow, Rules!Row

LEMMA LoneReplace ==
    ASSUME Rules!TypeOK, NEW t \in Txn, NEW S, NEW r \in Rules!Row, r.active,
           Rules!Replace(t, S, r), ~Rules!Clashes(r), NEW o, r.kind = o.kind,
           Rules!InScope(r, o.scope),
           \A i \in Rules!Actives(rows, o) \ S : rows[i].version < r.version
    PROVE  step'[t] = "done" /\ Rules!Served(rows', o) = {Len(rows')}
<1>1. step'[t] = "done" /\ rows' = Append(Rules!Retired(S), r)
  BY DEF Rules!Replace, Rules!Done, Rules!TypeOK
<1>2. PICK p : p = Append(Rules!Retired(S), r)
  OBVIOUS
<1>3. rows \in Seq(Rules!Row)
  BY DEF Rules!TypeOK
<1>4. /\ Len(p) = Len(rows) + 1 /\ DOMAIN p = 1 .. Len(rows) + 1
      /\ p[Len(rows) + 1] = r /\ Shows(p, S)
  BY <1>2, <1>3, AppendedFact
<1>5. Rules!Served(p, o) = {Len(p)}
  BY <1>3, <1>4, ServedNew
<1>6. QED
  BY <1>1, <1>2, <1>5

LEMMA LoneRetiring ==
    ASSUME RuleInv, NEW t \in Txn, snap[t] = rows, bound[t] = ruleField, Rules!Tidy(ruleOp[t]),
           NEW k \in Rules!Retiring, Rules!CreateRetiring(t, k)
    PROVE  step'[t] = "done" /\ Rules!Served(rows', ruleOp[t]) = {Len(rows')}
<1> DEFINE o == ruleOp[t]
<1>1. /\ Rules!TypeOK /\ o.kind = k /\ o.scope = "field" /\ k \in Rules!Kinds
         /\ bound[t] \in Nat
      /\ rows \in Seq(Rules!Row) /\ Len(rows) \in Nat /\ k # "call" /\ k # "retrieve"
  BY DEF Rules!CreateRetiring, Rules!Asks, RuleInv, Rules!TypeOK, Rules!Retiring, Rules!Kinds
<1>2. PICK S \in SUBSET Rules!Served(rows, o), v \in 1 .. Len(rows) + 1 :
        /\ IF Rules!Served(rows, o) = {} THEN S = {} ELSE Cardinality(S) = 1
        /\ Rules!IsNext(v, rows, k, bound[t], "none")
        /\ Rules!Replace(t, S, Rules!NewRow(k, bound[t], "none", v))
  BY SameCardinality DEF Rules!CreateRetiring
<1>3. Rules!Actives(rows, o) \subseteq S
  <2>1. ASSUME NEW i \in Rules!Actives(rows, o) PROVE i \in S
    <3>1. Rules!Actives(rows, o) = {i}
      BY <1>1, <2>1 DEF Rules!Tidy
    <3>2. rows[i].version \in Nat
      BY <1>1, <2>1, RowsType DEF Rules!Actives
    <3>3. Rules!Served(rows, o) = {i}
      BY <3>1, <3>2 DEF Rules!Served
    <3>4. S # {}
      <4>1. Cardinality(S) = 1
        BY <1>2, <3>3
      <4>2. S = {} => Cardinality(S) = 0
        BY FS_EmptySet
      <4>3. QED
        BY <4>1, <4>2
    <3>5. QED
      BY <1>2, <3>3, <3>4
  <2>2. QED
    BY <2>1
<1>4. ~Rules!Clashes(Rules!NewRow(k, bound[t], "none", v))
  BY <1>1, <1>2, NextRuleVersion
<1>5. Rules!InScope(Rules!NewRow(k, bound[t], "none", v), o.scope)
  BY <1>1 DEF Rules!InScope, Rules!NewRow, Rules!Implicit
<1>6. PICK r : r = Rules!NewRow(k, bound[t], "none", v)
  OBVIOUS
<1>7. r \in Rules!Row /\ r.active /\ r.kind = ruleOp[t].kind
  BY <1>1, <1>6, NewRowFact DEF Rules!Slots
<1>8. \A i \in Rules!Actives(rows, ruleOp[t]) \ S : rows[i].version < r.version
  BY <1>3
<1>9. QED
  BY <1>1, <1>2, <1>4, <1>5, <1>6, <1>7, <1>8, LoneReplace

LEMMA LoneUpdate ==
    ASSUME RuleInv, NEW t \in Txn, snap[t] = rows, bound[t] = ruleField, Rules!Tidy(ruleOp[t]),
           Rules!UpdateParse(t) \/ Rules!UpdateRetrieve(t)
    PROVE  step'[t] = "done" /\ Rules!Served(rows', ruleOp[t]) = {Len(rows')}
<1> DEFINE o == ruleOp[t]
<1>1. PICK k \in {"parse", "retrieve"} : Rules!Update(t, k)
  BY DEF Rules!UpdateParse, Rules!UpdateRetrieve
<1>2. /\ Rules!TypeOK /\ o.kind = k /\ k \in Rules!Kinds /\ rows \in Seq(Rules!Row)
         /\ Len(rows) \in Nat
  BY <1>1 DEF Rules!Update, Rules!Asks, RuleInv, Rules!TypeOK, Rules!Kinds
<1>3. PICK i \in Rules!Served(rows, o), v \in 1 .. Len(rows) + 1 :
        /\ Rules!IsNext(v, rows, k, rows[i].field, "none")
        /\ Rules!Replace(t, {i}, Rules!NewRow(k, rows[i].field, "none", v))
  BY <1>1 DEF Rules!Update
<1>4. i \in DOMAIN rows /\ i \in Rules!Actives(rows, o) /\ Rules!InScope(rows[i], o.scope)
  BY DEF Rules!Served, Rules!Actives
<1>5. rows[i].field \in Int
  BY <1>2, <1>4, RowsType
<1>6. /\ ~Rules!Clashes(Rules!NewRow(k, rows[i].field, "none", v))
      /\ \A j \in Rules!Counted(rows, k, rows[i].field, "none") : rows[j].version < v
  BY <1>2, <1>3, NextRuleVersion
<1>7. ASSUME NEW j \in Rules!Actives(rows, o) \ {i} PROVE rows[j].version < v
  <2>1. k = "retrieve"
    BY <1>2, <1>4, <1>7 DEF Rules!Tidy, Rules!Retiring
  <2>2. j \in Rules!Counted(rows, k, rows[i].field, "none")
    BY <1>2, <2>1 DEF Rules!Actives, Rules!Counted
  <2>3. QED
    BY <1>6, <2>2
<1>8. Rules!InScope(Rules!NewRow(k, rows[i].field, "none", v), o.scope)
  BY <1>4 DEF Rules!InScope, Rules!NewRow
<1>9. PICK r : r = Rules!NewRow(k, rows[i].field, "none", v)
  OBVIOUS
<1>10. r \in Rules!Row /\ r.active /\ r.kind = ruleOp[t].kind /\ r.version = v
  BY <1>2, <1>5, <1>9, NewRowFact DEF Rules!Slots
<1>11. QED
  BY <1>2, <1>3, <1>6, <1>7, <1>8, <1>9, <1>10, LoneReplace

LEMMA LoneCreateRetrieve ==
    ASSUME RuleInv, NEW t \in Txn, snap[t] = rows, bound[t] = ruleField, Rules!CreateRetrieve(t)
    PROVE  step'[t] = "done" /\ Rules!Served(rows', ruleOp[t]) = {Len(rows')}
<1> DEFINE o == ruleOp[t]
           f == IF o.scope = "implicit" THEN Rules!Implicit ELSE bound[t]
<1>1. /\ Rules!TypeOK /\ o.kind = "retrieve" /\ o.scope \in Rules!Scopes /\ bound[t] \in Nat
      /\ rows \in Seq(Rules!Row) /\ Len(rows) \in Nat /\ f \in Int
  BY DEF Rules!CreateRetrieve, Rules!Asks, RuleInv, Rules!TypeOK, Rules!Ops, Rules!Implicit
<1>2. PICK v \in 1 .. Len(rows) + 1 :
        /\ Rules!IsNext(v, rows, "retrieve", f, "none")
        /\ Rules!Replace(t, {}, Rules!NewRow("retrieve", f, "none", v))
  BY DEF Rules!CreateRetrieve
<1>3. Rules!InScope(Rules!NewRow("retrieve", f, "none", v), o.scope)
  BY <1>1 DEF Rules!InScope, Rules!NewRow, Rules!Implicit, Rules!Scopes
<1> HIDE DEF f
<1>4. /\ ~Rules!Clashes(Rules!NewRow("retrieve", f, "none", v))
      /\ \A i \in Rules!Counted(rows, "retrieve", f, "none") : rows[i].version < v
  BY <1>1, <1>2, NextRuleVersion
<1>5. \A i \in Rules!Actives(rows, o) : rows[i].version < v
  BY <1>1, <1>4 DEF Rules!Actives, Rules!Counted
<1>6. PICK r : r = Rules!NewRow("retrieve", f, "none", v)
  OBVIOUS
<1>7. r \in Rules!Row /\ r.active /\ r.kind = ruleOp[t].kind /\ r.version = v
  <2>1. "none" \in Rules!Slots /\ "retrieve" \in Rules!Kinds /\ v \in Nat
    BY <1>1 DEF Rules!Slots, Rules!Kinds
  <2>2. r \in Rules!Row /\ r.active /\ r.kind = "retrieve" /\ r.version = v
    BY <1>1, <1>6, <2>1, NewRowFact
  <2>3. QED
    BY <1>1, <2>2
<1>8. QED
  BY <1>1, <1>2, <1>3, <1>4, <1>5, <1>6, <1>7, LoneReplace

LEMMA LoneCall ==
    ASSUME RuleInv, NEW t \in Txn, snap[t] = rows, bound[t] = ruleField, Rules!Tidy(ruleOp[t]),
           Rules!CreateCall(t) \/ Rules!UpdateCall(t)
    PROVE  step'[t] = "done" /\ Rules!Served(rows', ruleOp[t]) = {Len(rows')}
<1> DEFINE o == ruleOp[t]
<1>1. /\ Rules!TypeOK /\ o.kind = "call" /\ o.scope = "field" /\ ruleField \in Nat
      /\ rows \in Seq(Rules!Row) /\ Len(rows) \in Nat /\ o.slot \in Rules!Slots
  BY DEF Rules!CreateCall, Rules!UpdateCall, Rules!Asks, RuleInv, Rules!TypeOK, Rules!Ops
<1>2. \A i \in Rules!Actives(rows, o) :
        rows[i].field = ruleField /\ rows[i].slot = o.slot
        /\ i \in Rules!Counted(rows, "call", ruleField, o.slot)
  BY <1>1 DEF Rules!Tidy, Rules!Actives, Rules!Counted
<1>3. \E S \in SUBSET DOMAIN rows, v \in 1 .. Len(rows) + 1 :
        /\ Rules!IsNext(v, rows, "call", ruleField, o.slot)
        /\ Rules!Replace(t, S, Rules!NewRow("call", ruleField, o.slot, v))
  <2>1. CASE Rules!CreateCall(t)
    <3>1. PICK v \in 1 .. Len(rows) + 1 :
            /\ Rules!IsNext(v, rows, "call", ruleField, o.slot)
            /\ Rules!Replace(t, {}, Rules!NewRow("call", ruleField, o.slot, v))
      BY <2>1 DEF Rules!CreateCall
    <3>2. \E w \in 1 .. Len(rows) + 1 :
            /\ Rules!IsNext(w, rows, "call", ruleField, o.slot)
            /\ Rules!Replace(t, {}, Rules!NewRow("call", ruleField, o.slot, w))
      BY <3>1
    <3>3. QED
      BY <3>2
  <2>2. CASE Rules!UpdateCall(t)
    <3>1. PICK i \in Rules!Served(rows, o), v \in 1 .. Len(rows) + 1 :
            LET slot == IF o.slot = "none" THEN rows[i].slot ELSE o.slot IN
            /\ Rules!IsNext(v, rows, "call", rows[i].field, rows[i].slot)
            /\ Rules!Replace(t, {i}, Rules!NewRow("call", rows[i].field, slot, v))
      BY <2>2 DEF Rules!UpdateCall
    <3>2. rows[i].field = ruleField /\ rows[i].slot = o.slot
      BY <1>2 DEF Rules!Served
    <3>3. /\ Rules!IsNext(v, rows, "call", ruleField, o.slot)
          /\ Rules!Replace(t, {i}, Rules!NewRow("call", ruleField, o.slot, v))
      BY <3>1, <3>2
    <3>4. {i} \in SUBSET DOMAIN rows
      BY DEF Rules!Served, Rules!Actives
    <3>5. QED
      BY <3>3, <3>4
  <2>3. QED
    BY <2>1, <2>2
<1>4. PICK S \in SUBSET DOMAIN rows, v \in 1 .. Len(rows) + 1 :
        /\ Rules!IsNext(v, rows, "call", ruleField, o.slot)
        /\ Rules!Replace(t, S, Rules!NewRow("call", ruleField, o.slot, v))
  BY <1>3
<1>5. /\ ~Rules!Clashes(Rules!NewRow("call", ruleField, o.slot, v))
      /\ \A i \in Rules!Counted(rows, "call", ruleField, o.slot) : rows[i].version < v
  BY <1>1, <1>4, NextRuleVersion
<1>6. Rules!InScope(Rules!NewRow("call", ruleField, o.slot, v), o.scope)
  BY <1>1 DEF Rules!InScope, Rules!NewRow, Rules!Implicit
<1>7. PICK r : r = Rules!NewRow("call", ruleField, o.slot, v)
  OBVIOUS
<1>8. r \in Rules!Row /\ r.active /\ r.kind = ruleOp[t].kind /\ r.version = v
  BY <1>1, <1>7, NewRowFact DEF Rules!Kinds
<1>9. QED
  BY <1>1, <1>2, <1>4, <1>5, <1>6, <1>7, <1>8, LoneReplace

LEMMA LoneDelete ==
    ASSUME RuleInv, NEW t \in Txn, snap[t] = rows, Rules!Tidy(ruleOp[t]), Rules!Delete(t),
           ruleOp[t].kind \in Rules!Retiring
    PROVE  Rules!Actives(rows', ruleOp[t]) = {}
<1> DEFINE o == ruleOp[t]
<1>1. rows \in Seq(Rules!Row)
  BY DEF RuleInv, Rules!TypeOK
<1>2. PICK i \in Rules!Served(rows, o) : rows' = Rules!Retired({i})
  BY DEF Rules!Delete
<1>3. PICK p : p = Rules!Retired({i})
  OBVIOUS
<1>4. DOMAIN p = DOMAIN rows /\ DOMAIN rows = 1 .. Len(rows) /\ Shows(p, {i})
  BY <1>1, <1>3, RetiredFact
<1>5. Rules!Actives(rows, o) = {i}
  BY DEF Rules!Tidy, Rules!Served
<1>6. Rules!Actives(p, o) = {}
  <2>1. ASSUME NEW j \in Rules!Actives(p, o) PROVE FALSE
    <3>1. j \in 1 .. Len(rows) /\ j \in DOMAIN rows
      BY <1>4, <2>1 DEF Rules!Actives
    <3>2. rows[j].active /\ j # i
      BY <1>4, <2>1, <3>1 DEF Rules!Actives, Shows
    <3>3. j \in Rules!Actives(rows, o)
      BY <1>4, <2>1, <3>1, <3>2 DEF Rules!Actives, Shows, Rules!InScope
    <3>4. QED
      BY <1>5, <3>2, <3>3
  <2>2. QED
    BY <2>1
<1>7. QED
  BY <1>2, <1>3, <1>6

\* A create or update beside which nothing else is written is never turned away, and
\* what it wrote is what is served; a lone delete leaves no rule of a retiring kind.
THEOREM LoneWriteAlwaysServed == RegistriesSpec => LoneWriteServed
<1>1. RegistriesInit => (part = "rules" => LoneInv)
  BY DEF RegistriesInit, Rules!Init, LoneInv, Rules!Open
<1>2. (part = "rules" => RuleInv) /\ (part = "rules" => LoneInv) /\ [RegistriesNext]_allVars
        => (part = "rules" => LoneInv)'
  BY LoneNext, RulesPart DEF RuleInv
<1>3. ASSUME RuleInv, LoneInv, Rules!Next PROVE Rules!LoneWriteStep
  <2> SUFFICES ASSUME NEW t \in Txn, step[t] = "open", step'[t] \in {"done", "clash"},
                      t \notin crowded, Rules!Tidy(ruleOp[t])
               PROVE  /\ step'[t] = "done"
                      /\ ruleOp[t].do # "delete"
                         => Rules!Served(rows', ruleOp[t]) = {Len(rows')}
                      /\ ruleOp[t].do = "delete" /\ ruleOp[t].kind \in Rules!Retiring
                            => Rules!Actives(rows', ruleOp[t]) = {}
    BY DEF Rules!LoneWriteStep
  <2>1. snap[t] = rows /\ bound[t] = ruleField
    BY <1>3 DEF LoneInv, Rules!Open
  <2>2. Rules!Commit(t)
    <3>1. ASSUME NEW u \in Txn, u # t, (\E o \in RuleOp : Rules!Begin(u, o)) \/ Rules!Commit(u)
                 \/ Rules!Refuse(u)
          PROVE  FALSE
      <4>1. \E s : Rules!Done(u, s)
        BY <3>1
           DEF Rules!Begin, Rules!Commit, Rules!Refuse, Rules!CreateParse, Rules!CreateMerge,
               Rules!CreateRetiring, Rules!CreateRetrieve, Rules!CreateCall, Rules!UpdateParse,
                  Rules!UpdateRetrieve, Rules!UpdateCall, Rules!Update, Rules!Delete,
                     Rules!Replace
      <4>2. step'[t] = step[t]
        BY <1>3, <3>1, <4>1 DEF Rules!Done, RuleInv, Rules!TypeOK
      <4>3. QED
        BY <4>2
    <3>2. ~Rules!Refuse(t) /\ \A o \in RuleOp : ~Rules!Begin(t, o)
      BY <1>3 DEF Rules!Refuse, Rules!Begin, Rules!Done, RuleInv, Rules!TypeOK
    <3>3. ~Rules!FieldChanges /\ \A u \in Txn : ~Rules!Resolve(u)
      BY DEF Rules!FieldChanges, Rules!Resolve
    <3>4. QED
      BY <1>3, <3>1, <3>2, <3>3 DEF Rules!Next
  <2>3. CASE Rules!CreateParse(t) \/ Rules!CreateMerge(t)
    <3>1. PICK k \in Rules!Retiring : Rules!CreateRetiring(t, k)
      BY <2>3 DEF Rules!CreateParse, Rules!CreateMerge, Rules!Retiring
    <3>2. step'[t] = "done" /\ Rules!Served(rows', ruleOp[t]) = {Len(rows')}
      BY <1>3, <2>1, <3>1, LoneRetiring
    <3>3. QED
      BY <3>1, <3>2 DEF Rules!CreateRetiring, Rules!Asks
  <2>4. CASE Rules!CreateRetrieve(t)
    <3>1. step'[t] = "done" /\ Rules!Served(rows', ruleOp[t]) = {Len(rows')}
      BY <1>3, <2>1, <2>4, LoneCreateRetrieve
    <3>2. QED
      BY <2>4, <3>1 DEF Rules!CreateRetrieve, Rules!Asks
  <2>5. CASE Rules!CreateCall(t) \/ Rules!UpdateCall(t)
    <3>1. step'[t] = "done" /\ Rules!Served(rows', ruleOp[t]) = {Len(rows')}
      BY <1>3, <2>1, <2>5, LoneCall
    <3>2. QED
      BY <2>5, <3>1 DEF Rules!CreateCall, Rules!UpdateCall, Rules!Asks
  <2>6. CASE Rules!UpdateParse(t) \/ Rules!UpdateRetrieve(t)
    <3>1. step'[t] = "done" /\ Rules!Served(rows', ruleOp[t]) = {Len(rows')}
      BY <1>3, <2>1, <2>6, LoneUpdate
    <3>2. QED
      BY <2>6, <3>1 DEF Rules!UpdateParse, Rules!UpdateRetrieve, Rules!Update, Rules!Asks
  <2>7. CASE Rules!Delete(t)
    <3>1. ruleOp[t].kind \in Rules!Retiring => Rules!Actives(rows', ruleOp[t]) = {}
      BY <1>3, <2>1, <2>7, LoneDelete
    <3>2. step'[t] = "done" /\ ruleOp[t].do = "delete"
      BY <1>3, <2>7 DEF Rules!Delete, Rules!Done, RuleInv, Rules!TypeOK
    <3>3. QED
      BY <3>1, <3>2
  <2>8. QED
    BY <2>2, <2>3, <2>4, <2>5, <2>6, <2>7 DEF Rules!Commit
<1>4. (part = "rules" => RuleInv) /\ (part = "rules" => LoneInv) /\ [RegistriesNext]_allVars
        => [part = "rules" => Rules!LoneWriteStep]_ruleVars
  BY <1>3, RulesPart
<1>5. QED
  BY <1>1, <1>2, <1>4, RuleInvariance, PTL DEF RegistriesSpec, LoneWriteServed

-----------------------------------------------------------------------------
(***************************************************************************)
(* Capabilities.  A snapshot may be old, but a row that is active now is   *)
(* active in every snapshot that has it: rows are retired and never        *)
(* activated again, and versions are places.  A registration commits only  *)
(* when its snapshot has every row, and retires what it took for current.  *)
(***************************************************************************)
OneOf(q) == \A i, j \in Caps!Active(q) : i = j

SeenActive(q) ==
    /\ Len(q) <= Len(capRows)
    /\ \A i \in 1 .. Len(q) : capRows[i].active => q[i].active

Takes(q, c) == Caps!Active(q) = IF c = 0 THEN {} ELSE {c}

CapInv ==
    /\ Caps!TypeOK
    /\ OneOf(capRows)
    /\ \A t \in Request : OneOf(capSnap[t]) /\ SeenActive(capSnap[t])
    /\ \A t \in Request :
        /\ capStep[t] \in {"register", "heartbeat"} => Takes(capSnap[t], cur[t])
        /\ capStep[t] = "register" => capOp[t].do = "register"

\* Where one row at most is active, get_active picks that one or none.
LEMMA PickTakes ==
    ASSUME NEW q \in Seq(Caps!Row), OneOf(q), NEW c \in Nat, NEW i \in Caps!Pick(q, c)
    PROVE  i \in Nat /\ Takes(q, i)
<1>1. Caps!Active(q) \subseteq 1 .. Len(q) /\ DOMAIN q = 1 .. Len(q)
  BY DEF Caps!Active
<1>2. CASE c \in Caps!Active(q)
  BY <1>1, <1>2 DEF Caps!Pick, OneOf, Takes
<1>3. CASE c \notin Caps!Active(q) /\ Caps!Active(q) = {}
  BY <1>3 DEF Caps!Pick, Takes
<1>4. CASE c \notin Caps!Active(q) /\ Caps!Active(q) # {}
  BY <1>1, <1>4 DEF Caps!Pick, OneOf, Takes
<1>5. QED
  BY <1>2, <1>3, <1>4

\* What retiring S makes of the rows.
LEMMA RetiredRows ==
    ASSUME Caps!TypeOK, NEW S
    PROVE  /\ Caps!Retired(S) \in Seq(Caps!Row) /\ Len(Caps!Retired(S)) = Len(capRows)
           /\ \A i \in 1 .. Len(capRows) :
                 Caps!Retired(S)[i].active = (capRows[i].active /\ i \notin S)
<1>1. DOMAIN capRows = 1 .. Len(capRows) /\ Len(capRows) \in Nat
      /\ \A i \in 1 .. Len(capRows) : capRows[i] \in Caps!Row
  BY DEF Caps!TypeOK
<1>2. Caps!Retired(S) = [i \in 1 .. Len(capRows) |->
                           [capRows[i] EXCEPT !.active = capRows[i].active /\ i \notin S]]
  BY <1>1 DEF Caps!Retired
<1>3. ASSUME NEW i \in 1 .. Len(capRows)
      PROVE  /\ Caps!Retired(S)[i] \in Caps!Row
             /\ Caps!Retired(S)[i].active = (capRows[i].active /\ i \notin S)
  <2>1. PICK r : r = capRows[i]
    OBVIOUS
  <2>2. PICK b \in BOOLEAN : b = (r.active /\ i \notin S)
    OBVIOUS
  <2>3. Caps!Retired(S)[i] = [r EXCEPT !.active = b]
    BY <1>2, <2>1, <2>2
  <2>4. r \in Caps!Row
    BY <1>1, <2>1
  <2>5. [r EXCEPT !.active = b] \in Caps!Row /\ [r EXCEPT !.active = b].active = b
    BY <2>4 DEF Caps!Row
  <2>6. QED
    BY <2>1, <2>2, <2>3, <2>5
<1>4. Caps!Retired(S) \in Seq(Caps!Row) /\ Len(Caps!Retired(S)) = Len(capRows)
  <2>1. PICK n \in Nat : n = Len(capRows)
    BY <1>1
  <2>2. Caps!Retired(S) \in [1 .. n -> Caps!Row]
    BY <1>2, <1>3, <2>1, Zenon
  <2>3. QED
    BY <2>1, <2>2
<1>5. QED
  BY <1>3, <1>4

LEMMA InitCap == RegistriesInit /\ part = "capabilities" => CapInv
<1> SUFFICES ASSUME Caps!Init PROVE CapInv
  BY DEF RegistriesInit
<1>1. Caps!TypeOK
  BY DEF Caps!Init, Caps!TypeOK, Caps!Op
<1>2. \A t \in Request : capSnap[t] = <<>> /\ capStep[t] = "idle"
  BY DEF Caps!Init
<1>3. capRows = <<>>
  BY DEF Caps!Init
<1>4. QED
  BY <1>1, <1>2, <1>3 DEF CapInv, OneOf, SeenActive, Caps!Active

\* A step that leaves the rows and the snapshots, and takes nothing for current.
LEMMA CapFrame ==
    ASSUME CapInv, Caps!TypeOK', capRows' = capRows, capSnap' = capSnap, cur' = cur,
           \A t \in Request :
              \/ capStep'[t] = capStep[t] /\ capOp'[t] = capOp[t]
              \/ capStep'[t] \notin {"register", "heartbeat"}
    PROVE  CapInv'
<1>1. OneOf(capRows)'
  BY DEF CapInv, OneOf, Caps!Active
<1>2. \A t \in Request : (OneOf(capSnap[t]) /\ SeenActive(capSnap[t]))'
  BY DEF CapInv, OneOf, Caps!Active, SeenActive
<1>3. ASSUME NEW t \in Request
      PROVE  /\ capStep'[t] \in {"register", "heartbeat"} => Takes(capSnap[t], cur[t])'
             /\ capStep'[t] = "register" => capOp'[t].do = "register"
  BY DEF CapInv, Takes, Caps!Active
<1>4. QED
  BY <1>1, <1>2, <1>3 DEF CapInv

LEMMA CapBegin ==
    ASSUME CapInv, NEW t \in Request, NEW o \in Caps!Op, Caps!Begin(t, o)
    PROVE  CapInv'
<1>1. Caps!TypeOK'
  BY DEF Caps!Begin, Caps!Goto, Caps!TypeOK, CapInv
<1>2. /\ capRows' = capRows /\ cur' = cur /\ capSnap'[t] = capRows
      /\ capStep'[t] \in {"list", "cache"}
  BY DEF Caps!Begin, Caps!Goto, Caps!TypeOK, CapInv
<1>3. \A u \in Request \ {t} :
         capSnap'[u] = capSnap[u] /\ capStep'[u] = capStep[u] /\ capOp'[u] = capOp[u]
  BY DEF Caps!Begin, Caps!Goto, Caps!TypeOK, CapInv
<1>4. OneOf(capRows)
  BY DEF CapInv
<1>5. ASSUME NEW u \in Request
      PROVE  /\ OneOf(capSnap'[u]) /\ Len(capSnap'[u]) <= Len(capRows)
             /\ \A j \in 1 .. Len(capSnap'[u]) : capRows[j].active => capSnap'[u][j].active
             /\ capStep'[u] \in {"register", "heartbeat"} => Takes(capSnap'[u], cur[u])
             /\ capStep'[u] = "register" => capOp'[u].do = "register"
  <2>1. CASE u = t
    BY <1>2, <1>4, <2>1 DEF CapInv, Caps!TypeOK
  <2>2. CASE u # t
    BY <1>2, <1>3, <2>2 DEF CapInv, SeenActive
  <2>3. QED
    BY <2>1, <2>2
<1>6. QED
  BY <1>1, <1>2, <1>4, <1>5 DEF CapInv, OneOf, SeenActive, Takes, Caps!Active

LEMMA CapReadRows ==
    ASSUME CapInv, NEW t \in Request, Caps!ReadRows(t)
    PROVE  CapInv'
<1>1. PICK i \in Caps!Pick(capSnap[t], cached[t]) : cur' = [cur EXCEPT ![t] = i]
  BY DEF Caps!ReadRows
<1>2. i \in Nat /\ Takes(capSnap[t], i)
  BY <1>1, PickTakes DEF CapInv, Caps!TypeOK
<1>3. Caps!TypeOK'
  BY <1>1, <1>2 DEF Caps!ReadRows, Caps!Goto, Caps!TypeOK, CapInv, Caps!Op
<1>4. /\ capRows' = capRows /\ capOp' = capOp /\ capSnap' = capSnap /\ cur'[t] = i
      /\ capStep'[t] = capOp[t].do
  BY <1>1 DEF Caps!ReadRows, Caps!Goto, Caps!TypeOK, CapInv
<1>5. \A u \in Request \ {t} : cur'[u] = cur[u] /\ capStep'[u] = capStep[u]
  BY <1>1 DEF Caps!ReadRows, Caps!Goto, Caps!TypeOK, CapInv
<1>6. ASSUME NEW u \in Request
      PROVE  /\ capStep'[u] \in {"register", "heartbeat"} => Takes(capSnap[u], cur'[u])
             /\ capStep'[u] = "register" => capOp'[u].do = "register"
  <2>1. CASE u = t
    BY <1>2, <1>4, <2>1
  <2>2. CASE u # t
    BY <1>4, <1>5, <2>2 DEF CapInv
  <2>3. QED
    BY <2>1, <2>2
<1>7. QED
  BY <1>3, <1>4, <1>6 DEF CapInv, OneOf, SeenActive, Takes, Caps!Active

LEMMA CapRegisterSame ==
    ASSUME CapInv, NEW t \in Request, Caps!RegisterSame(t)
    PROVE  CapInv'
<1>1. PICK i \in Caps!Pick(capSnap[t], capCache) : cur' = [cur EXCEPT ![t] = i]
  BY DEF Caps!RegisterSame
<1>2. i \in Nat /\ Takes(capSnap[t], i)
  BY <1>1, PickTakes DEF CapInv, Caps!TypeOK
<1>3. Caps!TypeOK'
  BY <1>1, <1>2 DEF Caps!RegisterSame, Caps!Goto, Caps!TypeOK, CapInv
<1>4. /\ capRows' = capRows /\ capOp' = capOp /\ capSnap' = capSnap /\ cur'[t] = i
      /\ capStep'[t] = "heartbeat"
  BY <1>1 DEF Caps!RegisterSame, Caps!Goto, Caps!TypeOK, CapInv
<1>5. \A u \in Request \ {t} : cur'[u] = cur[u] /\ capStep'[u] = capStep[u]
  BY <1>1 DEF Caps!RegisterSame, Caps!Goto, Caps!TypeOK, CapInv
<1>6. ASSUME NEW u \in Request
      PROVE  /\ capStep'[u] \in {"register", "heartbeat"} => Takes(capSnap[u], cur'[u])
             /\ capStep'[u] = "register" => capOp'[u].do = "register"
  <2>1. CASE u = t
    BY <1>2, <1>4, <2>1
  <2>2. CASE u # t
    BY <1>4, <1>5, <2>2 DEF CapInv
  <2>3. QED
    BY <2>1, <2>2
<1>7. QED
  BY <1>3, <1>4, <1>6 DEF CapInv, OneOf, SeenActive, Takes, Caps!Active

\* The rows change: what is active now was, or no snapshot has it.
LEMMA CapWrites ==
    ASSUME CapInv, Caps!TypeOK', capSnap' = capSnap, OneOf(capRows'),
           Len(capRows) <= Len(capRows'),
           \A i \in 1 .. Len(capRows) : capRows'[i].active => capRows[i].active,
           \A u \in Request :
              \/ capStep'[u] \notin {"register", "heartbeat"}
              \/ capStep'[u] = capStep[u] /\ capOp'[u] = capOp[u] /\ cur'[u] = cur[u]
    PROVE  CapInv'
<1>1. ASSUME NEW u \in Request
      PROVE  /\ OneOf(capSnap[u]) /\ Len(capSnap[u]) <= Len(capRows')
             /\ \A j \in 1 .. Len(capSnap[u]) : capRows'[j].active => capSnap[u][j].active
  <2>1. OneOf(capSnap[u]) /\ Len(capSnap[u]) <= Len(capRows)
    BY DEF CapInv, SeenActive
  <2>2. Len(capSnap[u]) \in Nat /\ Len(capRows) \in Nat /\ Len(capRows') \in Nat
    BY DEF CapInv, Caps!TypeOK
  <2>3. QED
    BY <2>1, <2>2 DEF CapInv, SeenActive
<1>2. ASSUME NEW u \in Request
      PROVE  /\ capStep'[u] \in {"register", "heartbeat"} => Takes(capSnap[u], cur'[u])
             /\ capStep'[u] = "register" => capOp'[u].do = "register"
  BY DEF CapInv
<1>3. QED
  BY <1>1, <1>2 DEF CapInv, OneOf, SeenActive, Takes, Caps!Active

LEMMA CapRegister ==
    ASSUME CapInv, NEW t \in Request, Caps!Register(t)
    PROVE  CapInv'
<1>1. CASE Caps!Clashes(t)
  <2>1. Caps!TypeOK'
    BY <1>1 DEF Caps!Register, Caps!Goto, Caps!TypeOK, CapInv
  <2>2. /\ UNCHANGED <<capRows, capSnap, cur, capOp>>
        /\ \A u \in Request : capStep'[u] = IF u = t THEN "failed" ELSE capStep[u]
    BY <1>1 DEF Caps!Register, Caps!Goto, Caps!TypeOK, CapInv
  <2>3. QED
    BY <2>1, <2>2, CapFrame
<1>2. CASE ~Caps!Clashes(t)
  <2> DEFINE n == Len(capRows)
  <2>1. PICK p : p = Caps!Retired({cur[t]})
    OBVIOUS
  <2>2. /\ p \in Seq(Caps!Row) /\ Len(p) = n
        /\ \A i \in 1 .. n : p[i].active = (capRows[i].active /\ i \notin {cur[t]})
    BY <2>1, RetiredRows DEF CapInv
  <2>3. PICK r : r = [body |-> capOp[t].body, active |-> TRUE, beat |-> 1]
    OBVIOUS
  <2>4. capStep[t] = "register" /\ capOp[t].do = "register" /\ Takes(capSnap[t], cur[t])
    BY DEF Caps!Register, CapInv
  <2>5. r \in Caps!Row
    <3>1. capOp[t].body \in Body
      BY <2>4 DEF CapInv, Caps!TypeOK, Caps!Op
    <3>2. QED
      BY <2>3, <3>1 DEF Caps!Row
  <2>6. /\ capRows' = Append(p, r) /\ capSnap' = capSnap /\ capOp' = capOp
        /\ cur' = [cur EXCEPT ![t] = n + 1] /\ capStep' = [capStep EXCEPT ![t] = "publish"]
        /\ capCache' = capCache /\ cached' = cached
    BY <1>2, <2>1, <2>3 DEF Caps!Register, Caps!Goto
  <2>7. n \in Nat /\ Len(capSnap[t]) = n
    BY <1>2 DEF Caps!Clashes, CapInv, Caps!TypeOK
  <2>8. /\ capRows' \in Seq(Caps!Row) /\ Len(capRows') = n + 1
        /\ \A i \in 1 .. n : capRows'[i] = p[i]
    BY <2>2, <2>5, <2>6, <2>7
  <2>9. Caps!TypeOK'
    BY <2>6, <2>7, <2>8 DEF CapInv, Caps!TypeOK
  <2>10. \A i \in 1 .. n : ~p[i].active
    <3>1. SUFFICES ASSUME NEW i \in 1 .. n, p[i].active PROVE FALSE
      OBVIOUS
    <3>2. capRows[i].active /\ i # cur[t]
      BY <2>2, <3>1
    <3>3. i \in Caps!Active(capSnap[t])
      BY <2>7, <3>1, <3>2 DEF CapInv, SeenActive, Caps!Active, Caps!TypeOK
    <3>4. QED
      BY <2>4, <3>2, <3>3 DEF Takes
  <2>11. OneOf(capRows')
    <3>1. \A i \in Caps!Active(capRows') : i = n + 1
      <4>1. SUFFICES ASSUME NEW i \in DOMAIN capRows', capRows'[i].active PROVE i = n + 1
        BY DEF Caps!Active
      <4>2. i \in 1 .. n + 1
        BY <2>8
      <4>3. i \notin 1 .. n
        BY <2>8, <2>10, <4>1
      <4>4. QED
        BY <2>7, <4>2, <4>3
    <3>2. QED
      BY <3>1 DEF OneOf
  <2>12. Len(capRows) <= Len(capRows')
         /\ \A i \in 1 .. Len(capRows) : capRows'[i].active => capRows[i].active
    BY <2>7, <2>8, <2>10
  <2>13. \A u \in Request :
            \/ capStep'[u] \notin {"register", "heartbeat"}
            \/ capStep'[u] = capStep[u] /\ capOp'[u] = capOp[u] /\ cur'[u] = cur[u]
    BY <2>6 DEF CapInv, Caps!TypeOK
  <2>14. capSnap' = capSnap
    BY <2>6
  <2> HIDE DEF n
  <2>15. QED
    BY <2>9, <2>11, <2>12, <2>13, <2>14, CapWrites
<1>3. QED
  BY <1>1, <1>2

LEMMA CapHeartbeat ==
    ASSUME CapInv, NEW t \in Request, Caps!Heartbeat(t)
    PROVE  CapInv'
<1>1. CASE cur[t] = 0
  <2>1. Caps!TypeOK'
    BY <1>1 DEF Caps!Heartbeat, Caps!Goto, Caps!TypeOK, CapInv
  <2>2. /\ UNCHANGED <<capRows, capSnap, cur, capOp>>
        /\ \A u \in Request : capStep'[u] = IF u = t THEN "failed" ELSE capStep[u]
    BY <1>1 DEF Caps!Heartbeat, Caps!Goto, Caps!TypeOK, CapInv
  <2>3. QED
    BY <2>1, <2>2, CapFrame
<1>2. CASE cur[t] # 0
  <2>1. PICK c, b : c = cur[t] /\ b = capSnap[t][c].beat + 1
    OBVIOUS
  <2>2. /\ capRows' = [capRows EXCEPT ![c].beat = b]
        /\ capStep' = [capStep EXCEPT ![t] = "publish"]
        /\ UNCHANGED <<capSnap, cur, capOp, capCache, cached>>
    BY <1>2, <2>1 DEF Caps!Heartbeat, Caps!Goto
  <2>3. c \in Caps!Active(capSnap[t])
    BY <1>2, <2>1 DEF Caps!Heartbeat, CapInv, Takes
  <2>4. c \in 1 .. Len(capSnap[t])
    BY <2>3 DEF Caps!Active, CapInv, Caps!TypeOK
  <2>5. capSnap[t][c] \in Caps!Row
    BY <2>4 DEF CapInv, Caps!TypeOK
  <2>6. b \in Nat
    BY <2>1, <2>5 DEF Caps!Row
  <2>7. c \in 1 .. Len(capRows)
    BY <2>4 DEF CapInv, SeenActive, Caps!TypeOK
  <2>8. capRows \in Seq(Caps!Row) /\ capRows[c] \in Caps!Row
    BY <2>7 DEF CapInv, Caps!TypeOK
  <2>9. PICK r : r = [capRows[c] EXCEPT !.beat = b]
    OBVIOUS
  <2>10. r \in Caps!Row /\ r.active = capRows[c].active
    BY <2>6, <2>8, <2>9 DEF Caps!Row
  <2>11. capRows' = [capRows EXCEPT ![c] = r]
    BY <2>2, <2>9
  <2>12. /\ capRows' \in Seq(Caps!Row) /\ Len(capRows') = Len(capRows)
         /\ \A i \in 1 .. Len(capRows) : capRows'[i].active = capRows[i].active
    BY <2>7, <2>8, <2>10, <2>11
  <2>13. Caps!TypeOK'
    BY <2>2, <2>12 DEF CapInv, Caps!TypeOK
  <2>14. OneOf(capRows')
    BY <2>8, <2>12 DEF CapInv, OneOf, Caps!Active
  <2>15. \A u \in Request :
            \/ capStep'[u] \notin {"register", "heartbeat"}
            \/ capStep'[u] = capStep[u] /\ capOp'[u] = capOp[u] /\ cur'[u] = cur[u]
    BY <2>2 DEF CapInv, Caps!TypeOK
  <2>16. Len(capRows) <= Len(capRows') /\ capSnap' = capSnap
    BY <2>2, <2>8, <2>12
  <2>17. QED
    BY <2>12, <2>13, <2>14, <2>15, <2>16, CapWrites
<1>3. QED
  BY <1>1, <1>2

LEMMA CapList ==
    ASSUME CapInv, NEW t \in Request, Caps!List(t)
    PROVE  CapInv'
<1>1. Caps!TypeOK'
  BY DEF Caps!List, Caps!Goto, Caps!TypeOK, CapInv
<1>2. /\ UNCHANGED <<capRows, capSnap, cur, capOp>>
      /\ capStep'[t] \in {"failed", "delete"}
      /\ \A u \in Request \ {t} : capStep'[u] = capStep[u]
  BY DEF Caps!List, Caps!Goto, Caps!TypeOK, CapInv
<1>3. QED
  BY <1>1, <1>2, CapFrame

LEMMA CapDelete ==
    ASSUME CapInv, NEW t \in Request, Caps!Delete(t)
    PROVE  CapInv'
<1>1. PICK S : S = Caps!Active(capSnap[t])
  OBVIOUS
<1>2. PICK p : p = Caps!Retired(S)
  OBVIOUS
<1>3. /\ p \in Seq(Caps!Row) /\ Len(p) = Len(capRows)
      /\ \A i \in 1 .. Len(capRows) : p[i].active = (capRows[i].active /\ i \notin S)
  BY <1>2, RetiredRows DEF CapInv
<1>4. /\ capRows' = p /\ capStep' = [capStep EXCEPT ![t] = "drop"]
      /\ UNCHANGED <<capSnap, cur, capOp, capCache, cached>>
  BY <1>1, <1>2 DEF Caps!Delete, Caps!Goto
<1>5. Caps!TypeOK'
  BY <1>3, <1>4 DEF CapInv, Caps!TypeOK
<1>6. \A i \in 1 .. Len(capRows) : p[i].active => capRows[i].active
  BY <1>3
<1>7. Len(capRows) \in Nat /\ DOMAIN p = DOMAIN capRows /\ DOMAIN p = 1 .. Len(capRows)
  BY <1>3 DEF CapInv, Caps!TypeOK
<1>8. OneOf(p)
  BY <1>6, <1>7 DEF CapInv, OneOf, Caps!Active
<1>9. Len(capRows) <= Len(p) /\ capSnap' = capSnap
  BY <1>3, <1>4, <1>7
<1>10. \A u \in Request :
          \/ capStep'[u] \notin {"register", "heartbeat"}
          \/ capStep'[u] = capStep[u] /\ capOp'[u] = capOp[u] /\ cur'[u] = cur[u]
  BY <1>4 DEF CapInv, Caps!TypeOK
<1>11. QED
  BY <1>4, <1>5, <1>6, <1>8, <1>9, <1>10, CapWrites

LEMMA NextCap == CapInv /\ [Caps!Next]_capVars => CapInv'
<1> SUFFICES ASSUME CapInv, [Caps!Next]_capVars PROVE CapInv'
  OBVIOUS
<1>1. ASSUME NEW t \in Request, Caps!ReadCache(t)
      PROVE  CapInv'
  <2>1. Caps!TypeOK'
    BY <1>1 DEF Caps!ReadCache, Caps!Goto, Caps!TypeOK, CapInv
  <2>2. /\ UNCHANGED <<capRows, capSnap, cur, capOp>>
        /\ \A u \in Request : capStep'[u] = IF u = t THEN "read" ELSE capStep[u]
    BY <1>1 DEF Caps!ReadCache, Caps!Goto, Caps!TypeOK, CapInv
  <2>3. QED
    BY <2>1, <2>2, CapFrame
<1>2. ASSUME NEW t \in Request, Caps!Publish(t)
      PROVE  CapInv'
  <2>1. Caps!TypeOK'
    BY <1>2 DEF Caps!Publish, Caps!Goto, Caps!TypeOK, CapInv
  <2>2. /\ UNCHANGED <<capRows, capSnap, cur, capOp>>
        /\ \A u \in Request : capStep'[u] = IF u = t THEN "done" ELSE capStep[u]
    BY <1>2 DEF Caps!Publish, Caps!Goto, Caps!TypeOK, CapInv
  <2>3. QED
    BY <2>1, <2>2, CapFrame
<1>3. CASE Caps!Feed
  <2>1. Caps!TypeOK' /\ UNCHANGED <<capRows, capStep, capSnap, cur, capOp>>
    BY <1>3 DEF Caps!Feed, Caps!TypeOK, CapInv
  <2>2. QED
    BY <2>1, CapFrame
<1>4. CASE UNCHANGED capVars
  <2>1. Caps!TypeOK' /\ UNCHANGED <<capRows, capStep, capSnap, cur, capOp>>
    BY <1>4 DEF capVars, Caps!TypeOK, CapInv
  <2>2. QED
    BY <2>1, CapFrame
<1>5. QED
  BY <1>1, <1>2, <1>3, <1>4, CapBegin, CapReadRows, CapRegisterSame, CapRegister,
     CapHeartbeat, CapList, CapDelete DEF Caps!Next, Caps!Serve

LEMMA CapsPart ==
    ASSUME [RegistriesNext]_allVars
    PROVE  part' = part /\ (part = "capabilities" => [Caps!Next]_capVars)
BY DEF RegistriesNext, allVars, capVars

\* The invariant of capabilities, for any number of requests and bodies.
THEOREM CapInvariance == RegistriesSpec => [](part = "capabilities" => CapInv)
<1>1. RegistriesInit => (part = "capabilities" => CapInv)
  BY InitCap
<1>2. (part = "capabilities" => CapInv) /\ [RegistriesNext]_allVars
        => (part = "capabilities" => CapInv)'
  BY NextCap, CapsPart
<1>3. QED
  BY <1>1, <1>2, PTL DEF RegistriesSpec

\* Whatever a stale entry of the cache names, what a request takes for the current
\* capability is the only active row of what it reads, and one row at most is active.
THEOREM CapabilityAlwaysServed == RegistriesSpec => []CapabilityServed
<1>1. (part = "capabilities" => CapInv) => CapabilityServed
  BY DEF CapInv, OneOf, Takes, CapabilityServed, Caps!CapabilityServed
<1>2. QED
  BY <1>1, CapInvariance, PTL

-----------------------------------------------------------------------------
(***************************************************************************)
(* The change log.  What the Canal consumer is through with is in the      *)
(* stream, and so is what is marked or forwarded for it, whatever is       *)
(* delivered again.  Without faults the marks are those of the first h     *)
(* changes, and the cache shows the last of them or the one being handled. *)
(***************************************************************************)
CanalEvent(i) == [source |-> "canal", change |-> i]

TopicInv ==
    /\ changes <= MaxChanges
    /\ \A c \in Log!Consumer :
        /\ pos[c] <= Len(topic[c])
        /\ phase[c] # "idle" => pos[c] < Len(topic[c])
    /\ Len(topic["canal"]) = IF Canal THEN changes ELSE 0
    /\ \A i \in 1 .. Len(topic["canal"]) : topic["canal"][i] = CanalEvent(i)

InStream(n) == \E i \in 1 .. Len(stream) : stream[i].change = n

Arrived(e) == e.source = "canal" => InStream(e.change)

ArriveInv ==
    /\ \A e \in marks : Arrived(e)
    /\ \A i \in 1 .. Len(topic["schema"]) : Arrived(topic["schema"][i])
    /\ phase["canal"] \in {"mark", "forward"} => InStream(pos["canal"] + 1)
    /\ \A n \in 1 .. pos["canal"] : n \in failed \/ InStream(n)

Faultless == ~ApiPublish /\ ~expired /\ failed = {}

\* The first h changes are marked; a crash may have put the consumer back.
MarkedTo(h) ==
    /\ \A e : e \in marks <=> \E i \in 1 .. h : e = CanalEvent(i)
    /\ pos["canal"] <= h
    /\ logCache = h \/ (logCache = h + 1 /\ h < Len(topic["canal"]))
    /\ phase["canal"] \in {"cache", "stream", "mark"} => pos["canal"] = h
    /\ phase["canal"] \in {"stream", "mark"} => logCache = h + 1
    /\ phase["canal"] = "forward" => pos["canal"] + 1 = h /\ logCache = h

CacheInv ==
    Faultless =>
        /\ phase["schema"] = "idle"
        /\ \A i \in 1 .. Len(topic["schema"]) : topic["schema"][i] \in marks
        /\ \E h \in 0 .. Len(topic["canal"]) : MarkedTo(h)

LogInv == Log!TypeOK /\ TopicInv /\ ArriveInv /\ CacheInv

LEMMA LogMessage ==
    ASSUME Log!TypeOK, TopicInv, NEW c \in Log!Consumer, pos[c] < Len(topic[c])
    PROVE  /\ pos[c] + 1 \in 1 .. Len(topic[c]) /\ Log!Message(c) = topic[c][pos[c] + 1]
           /\ Log!Message(c) \in Log!Event
           /\ c = "canal" => Log!Message(c) = CanalEvent(pos["canal"] + 1)
           /\ Log!Message(c).change \in 1 .. MaxChanges
<1>1. topic[c] \in Seq(Log!Event) /\ pos[c] \in Nat /\ Len(topic[c]) \in Nat
  BY DEF Log!TypeOK
<1>2. pos[c] + 1 \in 1 .. Len(topic[c])
  BY <1>1
<1>3. Log!Message(c) = topic[c][pos[c] + 1] /\ Log!Message(c) \in Log!Event
  BY <1>1, <1>2 DEF Log!Message
<1>4. c = "canal" => Log!Message(c) = CanalEvent(pos["canal"] + 1)
  BY <1>2, <1>3 DEF TopicInv
<1>5. QED
  BY <1>2, <1>3, <1>4 DEF Log!Event

LEMMA InitLog == ASSUME Log!LogOK, Log!Init PROVE LogInv
<1>1. /\ topic = [c \in Log!Consumer |-> <<>>] /\ pos = [c \in Log!Consumer |-> 0]
      /\ offset = [c \in Log!Consumer |-> 0] /\ phase = [c \in Log!Consumer |-> "idle"]
      /\ marks = {} /\ logCache = 0 /\ stream = <<>> /\ changes = 0 /\ crashes = 0
      /\ errors = 0 /\ failed = {} /\ expired = FALSE
  BY DEF Log!Init
<1>2. Log!TypeOK
  <2>1. client \in [kind : {"poller", "follower"}, cursor : Nat, known : Nat,
                    seen : Seq(Nat), unsent : Seq(Nat)]
    <3>1. client \in [kind : {"poller", "follower"}, cursor : {0}, known : {0},
                      seen : {<<>>}, unsent : {<<>>}]
      BY DEF Log!Init
    <3>2. {<<>>} \subseteq Seq(Nat) /\ {0} \subseteq Nat
      OBVIOUS
    <3>3. QED
      BY <3>1, <3>2
  <2>2. logCache \in 0 .. MaxChanges
    BY <1>1 DEF Log!LogOK
  <2>3. topic \in [Log!Consumer -> Seq(Log!Event)] /\ stream \in Seq(Log!Event)
    BY <1>1
  <2>4. QED
    BY <1>1, <2>1, <2>2, <2>3 DEF Log!TypeOK
<1>3. /\ "canal" \in Log!Consumer /\ "schema" \in Log!Consumer
      /\ \A c \in Log!Consumer : topic[c] = <<>> /\ pos[c] = 0 /\ phase[c] = "idle"
  BY <1>1 DEF Log!Consumer
<1>4. Len(<<>>) = 0
  OBVIOUS
<1>5. TopicInv
  BY <1>1, <1>3, <1>4 DEF TopicInv, Log!LogOK
<1>6. ArriveInv
  BY <1>1, <1>3, <1>4 DEF ArriveInv
<1>7. CacheInv
  <2>1. MarkedTo(0)
    BY <1>1, <1>3, <1>4 DEF MarkedTo
  <2>2. 0 \in 0 .. Len(topic["canal"])
    BY <1>3, <1>4
  <2>3. QED
    BY <1>1, <1>3, <1>4, <2>1, <2>2 DEF CacheInv
<1>8. QED
  BY <1>2, <1>5, <1>6, <1>7 DEF LogInv

LEMMA LogSkip ==
    ASSUME LogInv, NEW c \in Log!Consumer, Log!Skip(c) PROVE LogInv'
<1>1. /\ phase[c] = "idle" /\ pos[c] < Len(topic[c]) /\ Log!Message(c) \in marks
      /\ pos' = [pos EXCEPT ![c] = pos[c] + 1]
      /\ UNCHANGED <<topic, offset, phase, marks, logCache, stream, client, changes,
                     crashes, errors, failed, expired>>
  BY DEF Log!Skip, Log!Waiting, Log!redis, Log!counts
<1>2. Log!TypeOK /\ TopicInv /\ ArriveInv /\ CacheInv
  BY DEF LogInv
<1>3. /\ pos \in [Log!Consumer -> Nat]
      /\ \A d \in Log!Consumer : topic[d] \in Seq(Log!Event) /\ Len(topic[d]) \in Nat
  BY <1>2 DEF Log!TypeOK
<1>4. /\ pos' \in [Log!Consumer -> Nat] /\ pos'[c] = pos[c] + 1
      /\ \A d \in Log!Consumer : d # c => pos'[d] = pos[d]
  BY <1>1, <1>3
<1>5. Log!TypeOK'
  BY <1>1, <1>2, <1>4 DEF Log!TypeOK
<1>6. TopicInv'
  BY <1>1, <1>2, <1>3, <1>4 DEF TopicInv
<1>7. "canal" \in Log!Consumer /\ pos["canal"] \in Nat
  BY <1>3 DEF Log!Consumer
<1>8. CASE c = "canal"
  <2>1. CanalEvent(pos["canal"] + 1) \in marks
    BY <1>1, <1>2, <1>8, LogMessage
  <2>2. InStream(pos["canal"] + 1)
    BY <1>2, <2>1 DEF ArriveInv, Arrived, CanalEvent
  <2>3. \A n \in 1 .. pos["canal"] + 1 : n \in 1 .. pos["canal"] \/ n = pos["canal"] + 1
    BY <1>7
  <2>4. ArriveInv'
    BY <1>1, <1>2, <1>4, <1>8, <2>2, <2>3 DEF ArriveInv, Arrived, InStream
  <2>5. ASSUME Faultless, NEW h \in 0 .. Len(topic["canal"]), MarkedTo(h)
        PROVE  MarkedTo(h)'
    <3>1. PICK i \in 1 .. h : CanalEvent(pos["canal"] + 1) = CanalEvent(i)
      BY <2>1, <2>5 DEF MarkedTo
    <3>2. pos["canal"] + 1 = i
      BY <3>1 DEF CanalEvent
    <3>3. pos["canal"] + 1 <= h
      BY <3>2
    <3>4. QED
      BY <1>1, <1>4, <1>8, <2>5, <3>3 DEF MarkedTo
  <2>6. CacheInv'
    BY <1>1, <1>2, <2>5 DEF CacheInv, Faultless
  <2>7. QED
    BY <1>5, <1>6, <2>4, <2>6 DEF LogInv
<1>9. CASE c # "canal"
  <2>1. pos'["canal"] = pos["canal"]
    BY <1>4, <1>7, <1>9
  <2>2. ArriveInv'
    BY <1>1, <1>2, <2>1 DEF ArriveInv, Arrived, InStream
  <2>3. CacheInv'
    BY <1>1, <1>2, <2>1 DEF CacheInv, Faultless, MarkedTo
  <2>4. QED
    BY <1>5, <1>6, <2>2, <2>3 DEF LogInv
<1>10. QED
  BY <1>8, <1>9

LEMMA LogTake ==
    ASSUME LogInv, NEW c \in Log!Consumer, Log!Take(c) PROVE LogInv'
<1>1. /\ phase[c] = "idle" /\ pos[c] < Len(topic[c]) /\ Log!Message(c) \notin marks
      /\ marks' = IF c = "schema" THEN marks \cup {Log!Message(c)} ELSE marks
      /\ phase' = [phase EXCEPT ![c] = "cache"]
      /\ UNCHANGED <<topic, offset, pos, logCache, stream, client, changes,
                     crashes, errors, failed, expired>>
  BY DEF Log!Take, Log!Waiting, Log!Goto, Log!counts
<1>2. Log!TypeOK /\ TopicInv /\ ArriveInv /\ CacheInv
  BY DEF LogInv
<1>3. /\ "canal" \in Log!Consumer /\ "schema" \in Log!Consumer
      /\ pos \in [Log!Consumer -> Nat]
  BY <1>2 DEF Log!TypeOK, Log!Consumer
<1>4. /\ phase' \in [Log!Consumer -> {"idle", "cache", "stream", "mark", "forward"}]
      /\ phase'[c] = "cache" /\ \A d \in Log!Consumer : d # c => phase'[d] = phase[d]
  BY <1>1, <1>2 DEF Log!TypeOK
<1>5. Log!Message(c) \in Log!Event /\ Log!Message(c) = topic[c][pos[c] + 1]
      /\ pos[c] + 1 \in 1 .. Len(topic[c])
      /\ (c = "canal" => Log!Message(c) = CanalEvent(pos["canal"] + 1))
  BY <1>1, <1>2, LogMessage
<1>6. Log!TypeOK'
  BY <1>1, <1>2, <1>4, <1>5 DEF Log!TypeOK
<1>7. TopicInv'
  BY <1>1, <1>2, <1>4 DEF TopicInv
<1>8. CASE c = "schema"
  <2>1. Arrived(Log!Message(c)) /\ phase'["canal"] = phase["canal"]
    BY <1>2, <1>3, <1>4, <1>5, <1>8 DEF ArriveInv
  <2>2. ArriveInv'
    BY <1>1, <1>2, <1>8, <2>1 DEF ArriveInv, Arrived, InStream
  <2>3. ~Faultless
    BY <1>1, <1>2, <1>5, <1>8 DEF CacheInv
  <2>4. QED
    BY <1>1, <1>6, <1>7, <2>2, <2>3 DEF LogInv, CacheInv, Faultless
<1>9. CASE c = "canal"
  <2>1. ArriveInv'
    BY <1>1, <1>2, <1>4, <1>9 DEF ArriveInv, Arrived, InStream
  <2>2. ASSUME NEW h \in 0 .. Len(topic["canal"]), MarkedTo(h)
        PROVE  MarkedTo(h)'
    <3>1. pos["canal"] <= h /\ ~(pos["canal"] + 1 \in 1 .. h)
      BY <1>1, <1>5, <1>9, <2>2 DEF MarkedTo
    <3>2. pos["canal"] = h
      BY <1>3, <3>1
    <3>3. QED
      BY <1>1, <1>4, <1>9, <2>2, <3>2 DEF MarkedTo
  <2>3. phase'["schema"] = phase["schema"] /\ marks' = marks
    BY <1>1, <1>3, <1>4, <1>9
  <2>4. CacheInv'
    BY <1>1, <1>2, <2>2, <2>3 DEF CacheInv, Faultless
  <2>5. QED
    BY <1>6, <1>7, <2>1, <2>4 DEF LogInv
<1>10. QED
  BY <1>8, <1>9 DEF Log!Consumer

LEMMA LogWriteCache ==
    ASSUME LogInv, NEW c \in Log!Consumer, Log!WriteCache(c) PROVE LogInv'
<1>1. /\ phase[c] = "cache" /\ logCache' = Log!Message(c).change
      /\ phase' = [phase EXCEPT ![c] = "stream"]
      /\ UNCHANGED <<topic, offset, pos, marks, stream, client, changes,
                     crashes, errors, failed, expired>>
  BY DEF Log!WriteCache, Log!Goto, Log!counts
<1>2. Log!TypeOK /\ TopicInv /\ ArriveInv /\ CacheInv
  BY DEF LogInv
<1>3. /\ "canal" \in Log!Consumer /\ "schema" \in Log!Consumer
      /\ pos \in [Log!Consumer -> Nat] /\ pos[c] < Len(topic[c])
      /\ Len(topic[c]) \in Nat
  BY <1>1, <1>2 DEF Log!TypeOK, Log!Consumer, TopicInv
<1>4. /\ phase' \in [Log!Consumer -> {"idle", "cache", "stream", "mark", "forward"}]
      /\ phase'[c] = "stream" /\ \A d \in Log!Consumer : d # c => phase'[d] = phase[d]
  BY <1>1, <1>2 DEF Log!TypeOK
<1>5. /\ Log!Message(c).change \in 1 .. MaxChanges
      /\ (c = "canal" => Log!Message(c) = CanalEvent(pos["canal"] + 1))
  BY <1>2, <1>3, LogMessage
<1>6. Log!TypeOK'
  <2>1. logCache' \in 0 .. MaxChanges
    BY <1>1, <1>5
  <2>2. QED
    BY <1>1, <1>2, <1>4, <2>1 DEF Log!TypeOK
<1>7. TopicInv'
  BY <1>1, <1>2, <1>3, <1>4 DEF TopicInv
<1>8. ArriveInv'
  BY <1>1, <1>2, <1>3, <1>4 DEF ArriveInv, Arrived, InStream
<1>9. CASE c = "schema"
  <2>1. ~Faultless
    BY <1>1, <1>2, <1>9 DEF CacheInv
  <2>2. QED
    BY <1>1, <1>6, <1>7, <1>8, <2>1 DEF LogInv, CacheInv, Faultless
<1>10. CASE c = "canal"
  <2>1. logCache' = pos["canal"] + 1
    BY <1>1, <1>5, <1>10 DEF CanalEvent
  <2>2. ASSUME NEW h \in 0 .. Len(topic["canal"]), MarkedTo(h)
        PROVE  MarkedTo(h)'
    <3>1. pos["canal"] = h /\ h < Len(topic["canal"])
      BY <1>1, <1>3, <1>10, <2>2 DEF MarkedTo
    <3>2. QED
      BY <1>1, <1>4, <1>10, <2>1, <2>2, <3>1 DEF MarkedTo
  <2>3. phase'["schema"] = phase["schema"]
    BY <1>3, <1>4, <1>10
  <2>4. CacheInv'
    BY <1>1, <1>2, <2>2, <2>3 DEF CacheInv, Faultless
  <2>5. QED
    BY <1>6, <1>7, <1>8, <2>4 DEF LogInv
<1>11. QED
  BY <1>9, <1>10 DEF Log!Consumer

\* What is in the stream stays there.
LEMMA LogAppend ==
    ASSUME Log!TypeOK, NEW e \in Log!Event, stream' = Append(stream, e)
    PROVE  /\ stream' \in Seq(Log!Event) /\ Len(stream') = Len(stream) + 1
           /\ InStream(e.change)' /\ \A n : InStream(n) => InStream(n)'
<1>1. stream \in Seq(Log!Event) /\ Len(stream) \in Nat
  BY DEF Log!TypeOK
<1>2. /\ stream' \in Seq(Log!Event) /\ Len(stream') = Len(stream) + 1
      /\ \A i \in 1 .. Len(stream) : stream'[i] = stream[i]
      /\ stream'[Len(stream) + 1] = e
  BY <1>1, AppendProperties
<1>3. 1 .. Len(stream) \subseteq 1 .. Len(stream) + 1
         /\ Len(stream) + 1 \in 1 .. Len(stream) + 1
  BY <1>1
<1>4. InStream(e.change)'
  BY <1>2, <1>3 DEF InStream
<1>5. ASSUME NEW n, InStream(n) PROVE InStream(n)'
  BY <1>2, <1>3, <1>5 DEF InStream
<1>6. QED
  BY <1>2, <1>4, <1>5

LEMMA LogAppendStream ==
    ASSUME LogInv, NEW c \in Log!Consumer, Log!AppendStream(c) PROVE LogInv'
<1>1. /\ phase[c] = "stream" /\ stream' = Append(stream, Log!Message(c))
      /\ UNCHANGED <<topic, offset, marks, logCache, client, changes,
                     crashes, errors, failed, expired>>
  BY DEF Log!AppendStream, Log!counts
<1>2. Log!TypeOK /\ TopicInv /\ ArriveInv /\ CacheInv
  BY DEF LogInv
<1>3. /\ "canal" \in Log!Consumer /\ "schema" \in Log!Consumer
      /\ pos \in [Log!Consumer -> Nat] /\ pos[c] < Len(topic[c])
      /\ Len(topic[c]) \in Nat
  BY <1>1, <1>2 DEF Log!TypeOK, Log!Consumer, TopicInv
<1>4. /\ Log!Message(c) \in Log!Event
      /\ (c = "canal" => Log!Message(c) = CanalEvent(pos["canal"] + 1))
  BY <1>2, <1>3, LogMessage
<1>5. PICK e : e = Log!Message(c)
  OBVIOUS
<1>6. /\ stream' \in Seq(Log!Event) /\ InStream(e.change)'
      /\ \A n : InStream(n) => InStream(n)'
  BY <1>1, <1>2, <1>4, <1>5, LogAppend
<1>7. /\ (\A x \in marks : Arrived(x))'
      /\ (\A i \in 1 .. Len(topic["schema"]) : Arrived(topic["schema"][i]))'
  BY <1>1, <1>2, <1>6 DEF ArriveInv, Arrived
<1>8. CASE c = "schema"
  <2>1. /\ pos' = [pos EXCEPT ![c] = pos[c] + 1] /\ phase' = [phase EXCEPT ![c] = "idle"]
    BY <1>8 DEF Log!AppendStream, Log!Finish, Log!Goto
  <2>2. /\ phase' \in [Log!Consumer -> {"idle", "cache", "stream", "mark", "forward"}]
        /\ pos' \in [Log!Consumer -> Nat] /\ phase'[c] = "idle" /\ pos'[c] = pos[c] + 1
        /\ \A d \in Log!Consumer : d # c => phase'[d] = phase[d] /\ pos'[d] = pos[d]
    BY <1>2, <1>3, <2>1 DEF Log!TypeOK
  <2>3. Log!TypeOK'
    BY <1>1, <1>2, <1>6, <2>2 DEF Log!TypeOK
  <2>4. TopicInv'
    <3>1. \A d \in Log!Consumer : pos'[d] <= Len(topic[d])
                                 /\ (phase'[d] # "idle" => pos'[d] < Len(topic[d]))
      BY <1>2, <1>3, <2>2 DEF TopicInv
    <3>2. QED
      BY <1>1, <1>2, <3>1 DEF TopicInv
  <2>5. phase'["canal"] = phase["canal"] /\ pos'["canal"] = pos["canal"]
    BY <1>3, <1>8, <2>2
  <2>6. ArriveInv'
    BY <1>1, <1>2, <1>6, <1>7, <2>5 DEF ArriveInv
  <2>7. ~Faultless
    BY <1>1, <1>2, <1>8 DEF CacheInv
  <2>8. QED
    BY <1>1, <2>3, <2>4, <2>6, <2>7 DEF LogInv, CacheInv, Faultless
<1>9. CASE c = "canal"
  <2>1. pos' = pos /\ phase' = [phase EXCEPT ![c] = "mark"]
    BY <1>9 DEF Log!AppendStream, Log!Goto
  <2>2. /\ phase' \in [Log!Consumer -> {"idle", "cache", "stream", "mark", "forward"}]
        /\ phase'["canal"] = "mark" /\ phase'["schema"] = phase["schema"]
    BY <1>2, <1>3, <1>9, <2>1 DEF Log!TypeOK
  <2>3. Log!TypeOK'
    BY <1>1, <1>2, <1>6, <2>1, <2>2 DEF Log!TypeOK
  <2>4. TopicInv'
    BY <1>1, <1>2, <1>3, <1>9, <2>1, <2>2 DEF TopicInv, Log!Consumer
  <2>5. InStream(pos["canal"] + 1)'
    <3>1. e.change = pos'["canal"] + 1
      BY <1>4, <1>9, <1>5, <2>1 DEF CanalEvent
    <3>2. QED
      BY <1>6, <3>1
  <2>6. ArriveInv'
    BY <1>1, <1>2, <1>6, <1>7, <2>1, <2>5 DEF ArriveInv
  <2>7. ASSUME NEW h \in 0 .. Len(topic["canal"]), MarkedTo(h)
        PROVE  MarkedTo(h)'
    BY <1>1, <1>9, <2>1, <2>2, <2>7 DEF MarkedTo
  <2>8. CacheInv'
    BY <1>1, <1>2, <2>2, <2>7 DEF CacheInv, Faultless
  <2>9. QED
    BY <2>3, <2>4, <2>6, <2>8 DEF LogInv
<1>10. QED
  BY <1>8, <1>9 DEF Log!Consumer

LEMMA LogMark ==
    ASSUME LogInv, Log!Mark PROVE LogInv'
<1>1. /\ phase["canal"] = "mark" /\ marks' = marks \cup {Log!Message("canal")}
      /\ UNCHANGED <<topic, offset, logCache, stream, client, changes,
                     crashes, errors, failed, expired>>
  BY DEF Log!Mark, Log!counts
<1>2. Log!TypeOK /\ TopicInv /\ ArriveInv /\ CacheInv
  BY DEF LogInv
<1>3. /\ "canal" \in Log!Consumer /\ "schema" \in Log!Consumer
      /\ pos \in [Log!Consumer -> Nat] /\ pos["canal"] < Len(topic["canal"])
      /\ Len(topic["canal"]) \in Nat
  BY <1>1, <1>2 DEF Log!TypeOK, Log!Consumer, TopicInv
<1>4. /\ Log!Message("canal") \in Log!Event
      /\ Log!Message("canal") = CanalEvent(pos["canal"] + 1)
  BY <1>2, <1>3, LogMessage
<1>5. InStream(pos["canal"] + 1)
  BY <1>1, <1>2 DEF ArriveInv
<1>6. /\ phase' \in [Log!Consumer -> {"idle", "cache", "stream", "mark", "forward"}]
      /\ pos' \in [Log!Consumer -> Nat]
      /\ phase'["schema"] = phase["schema"] /\ pos'["schema"] = pos["schema"]
      /\ \/ phase'["canal"] = "forward" /\ pos'["canal"] = pos["canal"]
         \/ phase'["canal"] = "idle" /\ pos'["canal"] = pos["canal"] + 1
  <2>1. CASE Forward
    BY <1>1, <1>2, <1>3, <2>1 DEF Log!TypeOK, Log!Mark, Log!Goto
  <2>2. CASE ~Forward
    <3>1. /\ pos' = [pos EXCEPT !["canal"] = pos["canal"] + 1]
          /\ phase' = [phase EXCEPT !["canal"] = "idle"]
      BY <2>2 DEF Log!Mark, Log!Goto, Log!Finish
    <3>2. QED
      BY <1>2, <1>3, <3>1 DEF Log!TypeOK
  <2>3. QED
    BY <2>1, <2>2
<1>7. Log!TypeOK'
  BY <1>1, <1>2, <1>4, <1>6 DEF Log!TypeOK
<1>8. TopicInv'
  <2>1. \A d \in Log!Consumer : pos'[d] <= Len(topic[d])
                               /\ (phase'[d] # "idle" => pos'[d] < Len(topic[d]))
    BY <1>2, <1>3, <1>6 DEF TopicInv, Log!Consumer
  <2>2. QED
    BY <1>1, <1>2, <2>1 DEF TopicInv
<1>9. ArriveInv'
  <2>1. Arrived(CanalEvent(pos["canal"] + 1))
    BY <1>5 DEF Arrived, CanalEvent
  <2>2. \A n \in 1 .. pos["canal"] + 1 : n \in 1 .. pos["canal"] \/ n = pos["canal"] + 1
    BY <1>3
  <2>3. \A n \in 1 .. pos'["canal"] : n \in failed \/ InStream(n)
    BY <1>2, <1>5, <1>6, <2>2 DEF ArriveInv
  <2>4. QED
    BY <1>1, <1>2, <1>4, <1>5, <1>6, <2>1, <2>3 DEF ArriveInv, Arrived, InStream
<1>10. ASSUME NEW h \in 0 .. Len(topic["canal"]), MarkedTo(h)
       PROVE  h + 1 \in 0 .. Len(topic["canal"]) /\ MarkedTo(h + 1)'
  <2>1. pos["canal"] = h /\ logCache = h + 1 /\ h + 1 \in 0 .. Len(topic["canal"])
    BY <1>1, <1>3, <1>10 DEF MarkedTo
  <2>2. \A e : e \in marks' <=> \E i \in 1 .. h + 1 : e = CanalEvent(i)
    <3>1. \A i \in 1 .. h + 1 : i \in 1 .. h \/ i = h + 1
      OBVIOUS
    <3>2. 1 .. h \subseteq 1 .. h + 1 /\ h + 1 \in 1 .. h + 1
      OBVIOUS
    <3>3. marks' = marks \cup {CanalEvent(h + 1)}
      BY <1>1, <1>4, <2>1
    <3>4. \A e : e \in marks <=> \E i \in 1 .. h : e = CanalEvent(i)
      BY <1>10 DEF MarkedTo
    <3>5. QED
      BY <3>1, <3>2, <3>3, <3>4
  <2>3. QED
    BY <1>1, <1>6, <2>1, <2>2 DEF MarkedTo
<1>11. CacheInv'
  BY <1>1, <1>2, <1>6, <1>10 DEF CacheInv, Faultless
<1>12. QED
  BY <1>7, <1>8, <1>9, <1>11 DEF LogInv

LEMMA LogForwardEvent ==
    ASSUME LogInv, Log!ForwardEvent PROVE LogInv'
<1>1. /\ phase["canal"] = "forward"
      /\ pos' = [pos EXCEPT !["canal"] = pos["canal"] + 1]
      /\ phase' = [phase EXCEPT !["canal"] = "idle"]
      /\ UNCHANGED <<offset, marks, logCache, stream, client, changes,
                     crashes, errors, failed, expired>>
      /\ \/ topic' = [topic EXCEPT !["schema"] = Append(topic["schema"], Log!Message("canal"))]
         \/ topic' = topic
  BY DEF Log!ForwardEvent, Log!Finish, Log!Goto, Log!redis, Log!counts
<1>2. Log!TypeOK /\ TopicInv /\ ArriveInv /\ CacheInv
  BY DEF LogInv
<1>3. /\ "canal" \in Log!Consumer /\ "schema" \in Log!Consumer
      /\ pos \in [Log!Consumer -> Nat] /\ pos["canal"] < Len(topic["canal"])
      /\ topic \in [Log!Consumer -> Seq(Log!Event)]
      /\ \A d \in Log!Consumer : Len(topic[d]) \in Nat
  BY <1>1, <1>2 DEF Log!TypeOK, Log!Consumer, TopicInv
<1>4. PICK e : e = Log!Message("canal")
  OBVIOUS
<1>5. e \in Log!Event /\ e = CanalEvent(pos["canal"] + 1)
  BY <1>2, <1>3, <1>4, LogMessage
<1>6. InStream(pos["canal"] + 1)
  BY <1>1, <1>2 DEF ArriveInv
<1>7. /\ phase' \in [Log!Consumer -> {"idle", "cache", "stream", "mark", "forward"}]
      /\ pos' \in [Log!Consumer -> Nat]
      /\ phase'["schema"] = phase["schema"] /\ pos'["schema"] = pos["schema"]
      /\ phase'["canal"] = "idle" /\ pos'["canal"] = pos["canal"] + 1
  BY <1>1, <1>2, <1>3 DEF Log!TypeOK
<1>8. /\ topic' \in [Log!Consumer -> Seq(Log!Event)] /\ topic'["canal"] = topic["canal"]
      /\ Len(topic'["schema"]) >= Len(topic["schema"])
      /\ Len(topic'["schema"]) \in Nat
      /\ \A i \in 1 .. Len(topic'["schema"]) :
            topic'["schema"][i] = e \/ \E j \in 1 .. Len(topic["schema"]) :
                                            topic'["schema"][i] = topic["schema"][j]
  <2>1. CASE topic' = topic
    BY <1>3, <2>1
  <2>2. CASE topic' = [topic EXCEPT !["schema"] = Append(topic["schema"], e)]
    <3>1. PICK q \in Seq(Log!Event) : q = topic["schema"]
      BY <1>3
    <3>2. PICK r : r = Append(q, e)
      OBVIOUS
    <3>3. /\ r \in Seq(Log!Event) /\ Len(r) = Len(q) + 1 /\ r[Len(q) + 1] = e
          /\ \A i \in 1 .. Len(q) : r[i] = q[i]
      BY <1>5, <3>1, <3>2, AppendProperties
    <3>4. Len(q) \in Nat /\ \A i \in 1 .. Len(q) + 1 : i = Len(q) + 1 \/ i \in 1 .. Len(q)
      BY <3>1
    <3>5. \A i \in 1 .. Len(r) : r[i] = e \/ \E j \in 1 .. Len(q) : r[i] = q[j]
      BY <3>3, <3>4
    <3>6. topic' = [topic EXCEPT !["schema"] = r]
      BY <2>2, <3>1, <3>2
    <3>7. topic' \in [Log!Consumer -> Seq(Log!Event)] /\ topic'["canal"] = topic["canal"]
          /\ topic'["schema"] = r
      BY <1>3, <3>3, <3>6
    <3>8. QED
      BY <3>1, <3>3, <3>4, <3>5, <3>7
  <2>3. QED
    BY <1>1, <1>4, <2>1, <2>2
<1>9. Log!TypeOK'
  BY <1>1, <1>2, <1>7, <1>8 DEF Log!TypeOK
<1>10. TopicInv'
  <2>1. \A d \in Log!Consumer : pos'[d] <= Len(topic'[d])
                               /\ (phase'[d] # "idle" => pos'[d] < Len(topic'[d]))
    <3>1. pos["schema"] <= Len(topic["schema"])
          /\ (phase["schema"] # "idle" => pos["schema"] < Len(topic["schema"]))
      BY <1>2, <1>3 DEF TopicInv
    <3>2. pos["schema"] \in Nat /\ Len(topic["schema"]) \in Nat /\ pos["canal"] \in Nat
      BY <1>3
    <3>3. pos'["schema"] <= Len(topic'["schema"])
          /\ (phase'["schema"] # "idle" => pos'["schema"] < Len(topic'["schema"]))
      BY <1>7, <1>8, <3>1, <3>2
    <3>4. pos'["canal"] <= Len(topic'["canal"]) /\ phase'["canal"] = "idle"
      BY <1>3, <1>7, <1>8, <3>2
    <3>5. QED
      BY <3>3, <3>4 DEF Log!Consumer
  <2>2. QED
    BY <1>1, <1>2, <1>8, <2>1 DEF TopicInv
<1>11. ArriveInv'
  <2>1. Arrived(e)
    BY <1>5, <1>6 DEF Arrived, CanalEvent
  <2>2. \A n \in 1 .. pos["canal"] + 1 : n \in 1 .. pos["canal"] \/ n = pos["canal"] + 1
    BY <1>3
  <2>3. \A n \in 1 .. pos'["canal"] : n \in failed \/ InStream(n)
    BY <1>2, <1>6, <1>7, <2>2 DEF ArriveInv
  <2>4. \A x : Arrived(x) => Arrived(x)'
    BY <1>1 DEF Arrived, InStream
  <2>5. \A i \in 1 .. Len(topic'["schema"]) : Arrived(topic'["schema"][i])
    BY <1>2, <1>8, <2>1 DEF ArriveInv
  <2>6. (\A i \in 1 .. Len(topic["schema"]) : Arrived(topic["schema"][i]))'
    BY <2>4, <2>5
  <2>7. (\A x \in marks : Arrived(x))'
    BY <1>1, <1>2, <2>4 DEF ArriveInv
  <2>8. (\A n \in 1 .. pos["canal"] : n \in failed \/ InStream(n))'
    BY <1>1, <2>3 DEF InStream
  <2>9. QED
    BY <1>7, <2>6, <2>7, <2>8 DEF ArriveInv
<1>12. ASSUME NEW h \in 0 .. Len(topic["canal"]), MarkedTo(h)
       PROVE  MarkedTo(h)' /\ e \in marks
  <2>1. pos["canal"] + 1 = h /\ logCache = h
    BY <1>1, <1>12 DEF MarkedTo
  <2>2. h \in 1 .. h
    BY <1>3, <2>1
  <2>3. e \in marks
    BY <1>5, <1>12, <2>1, <2>2 DEF MarkedTo
  <2>4. MarkedTo(h)'
    BY <1>1, <1>7, <1>12, <2>1 DEF MarkedTo
  <2>5. QED
    BY <2>3, <2>4
<1>13. CacheInv'
  <2>1. SUFFICES ASSUME Faultless'
                 PROVE  /\ phase'["schema"] = "idle"
                        /\ \A i \in 1 .. Len(topic'["schema"]) : topic'["schema"][i] \in marks'
                        /\ \E h \in 0 .. Len(topic'["canal"]) : MarkedTo(h)'
    BY DEF CacheInv
  <2>2. Faultless
    BY <1>1, <2>1 DEF Faultless
  <2>3. PICK h \in 0 .. Len(topic["canal"]) : MarkedTo(h)
    BY <1>2, <2>2 DEF CacheInv
  <2>4. e \in marks /\ MarkedTo(h)'
    BY <1>12, <2>3
  <2>5. \A i \in 1 .. Len(topic["schema"]) : topic["schema"][i] \in marks
    BY <1>2, <2>2 DEF CacheInv
  <2>6. \A i \in 1 .. Len(topic'["schema"]) : topic'["schema"][i] \in marks'
    BY <1>1, <1>8, <2>4, <2>5
  <2>7. phase'["schema"] = "idle"
    BY <1>2, <1>7, <2>2 DEF CacheInv
  <2>8. QED
    BY <1>8, <2>4, <2>6, <2>7
<1>14. QED
  BY <1>9, <1>10, <1>11, <1>13 DEF LogInv

LEMMA LogHandlerFails ==
    ASSUME LogInv, NEW c \in Log!Consumer, Log!HandlerFails(c) PROVE LogInv'
<1>1. /\ phase[c] \in {"cache", "stream", "mark"}
      /\ errors' = errors + 1
      /\ failed' = IF c = "canal" THEN failed \cup {Log!Message(c).change} ELSE failed
      /\ pos' = [pos EXCEPT ![c] = pos[c] + 1] /\ phase' = [phase EXCEPT ![c] = "idle"]
      /\ UNCHANGED <<topic, offset, marks, logCache, stream, client, changes, crashes, expired>>
  BY DEF Log!HandlerFails, Log!Finish, Log!Goto, Log!redis
<1>2. Log!TypeOK /\ TopicInv /\ ArriveInv /\ CacheInv
  BY DEF LogInv
<1>3. /\ "canal" \in Log!Consumer /\ "schema" \in Log!Consumer
      /\ pos \in [Log!Consumer -> Nat] /\ pos[c] < Len(topic[c])
      /\ Len(topic[c]) \in Nat
  BY <1>1, <1>2 DEF Log!TypeOK, Log!Consumer, TopicInv
<1>4. /\ Log!Message(c).change \in 1 .. MaxChanges
      /\ (c = "canal" => Log!Message(c) = CanalEvent(pos["canal"] + 1))
  BY <1>2, <1>3, LogMessage
<1>5. /\ phase' \in [Log!Consumer -> {"idle", "cache", "stream", "mark", "forward"}]
      /\ pos' \in [Log!Consumer -> Nat] /\ phase'[c] = "idle" /\ pos'[c] = pos[c] + 1
      /\ \A d \in Log!Consumer : d # c => phase'[d] = phase[d] /\ pos'[d] = pos[d]
  BY <1>1, <1>2, <1>3 DEF Log!TypeOK
<1>6. Log!TypeOK'
  <2>1. failed' \subseteq 1 .. MaxChanges
    <3>1. failed \subseteq 1 .. MaxChanges
      BY <1>2 DEF Log!TypeOK
    <3>2. CASE c = "canal"
      BY <1>1, <1>4, <3>1, <3>2
    <3>3. CASE c # "canal"
      BY <1>1, <3>1, <3>3
    <3>4. QED
      BY <3>2, <3>3
  <2>2. errors' \in Nat
    BY <1>1, <1>2 DEF Log!TypeOK
  <2>3. QED
    BY <1>1, <1>2, <1>5, <2>1, <2>2 DEF Log!TypeOK
<1>7. TopicInv'
  <2>1. \A d \in Log!Consumer : pos'[d] <= Len(topic[d])
                               /\ (phase'[d] # "idle" => pos'[d] < Len(topic[d]))
    BY <1>2, <1>3, <1>5 DEF TopicInv
  <2>2. QED
    BY <1>1, <1>2, <2>1 DEF TopicInv
<1>8. ~Faultless'
  <2>1. CASE c = "canal"
    BY <1>1, <2>1 DEF Faultless
  <2>2. CASE c # "canal"
    <3>1. ~Faultless
      BY <1>1, <1>2, <2>2 DEF CacheInv, Log!Consumer
    <3>2. QED
      BY <1>1, <2>2, <3>1 DEF Faultless
  <2>3. QED
    BY <2>1, <2>2
<1>9. \A n \in 1 .. pos'["canal"] : n \in failed' \/ InStream(n)
  <2>1. CASE c = "canal"
    <3>1. pos["canal"] + 1 \in failed'
      BY <1>1, <1>4, <2>1 DEF CanalEvent
    <3>2. \A n \in 1 .. pos["canal"] + 1 : n \in 1 .. pos["canal"] \/ n = pos["canal"] + 1
      BY <1>3
    <3>3. failed \subseteq failed'
      BY <1>1
    <3>4. QED
      BY <1>2, <1>5, <2>1, <3>1, <3>2, <3>3 DEF ArriveInv
  <2>2. CASE c # "canal"
    BY <1>1, <1>2, <1>3, <1>5, <2>2 DEF ArriveInv
  <2>3. QED
    BY <2>1, <2>2
<1>10. ArriveInv'
  <2>1. phase'["canal"] \in {"mark", "forward"}
           => phase["canal"] \in {"mark", "forward"} /\ pos'["canal"] = pos["canal"]
    BY <1>3, <1>5
  <2>2. QED
    BY <1>1, <1>2, <1>9, <2>1 DEF ArriveInv, Arrived, InStream
<1>11. QED
  BY <1>6, <1>7, <1>8, <1>10 DEF LogInv, CacheInv

LEMMA LogCrash ==
    ASSUME LogInv, Log!Crash PROVE LogInv'
<1>1. /\ crashes' = crashes + 1 /\ pos' = offset'
      /\ pos' \in [Log!Consumer -> Nat] /\ \A c \in Log!Consumer : pos'[c] <= pos[c]
      /\ phase' = [c \in Log!Consumer |-> "idle"]
      /\ UNCHANGED <<topic, marks, logCache, stream, client, changes, errors, failed, expired>>
  BY DEF Log!Crash, Log!redis
<1>2. Log!TypeOK /\ TopicInv /\ ArriveInv /\ CacheInv
  BY DEF LogInv
<1>3. /\ "canal" \in Log!Consumer /\ "schema" \in Log!Consumer
      /\ pos \in [Log!Consumer -> Nat]
      /\ \A d \in Log!Consumer : Len(topic[d]) \in Nat /\ pos[d] <= Len(topic[d])
  BY <1>2 DEF Log!TypeOK, Log!Consumer, TopicInv
<1>4. Log!TypeOK'
  BY <1>1, <1>2 DEF Log!TypeOK
<1>5. \A c \in Log!Consumer : phase'[c] = "idle" /\ pos'[c] <= Len(topic[c])
  <2>1. SUFFICES ASSUME NEW c \in Log!Consumer PROVE pos'[c] <= Len(topic[c])
    BY <1>1
  <2>2. pos'[c] \in Nat /\ pos[c] \in Nat
    BY <1>1, <1>3
  <2>3. QED
    BY <1>1, <1>3, <2>2
<1>6. TopicInv'
  BY <1>1, <1>2, <1>5 DEF TopicInv
<1>7. pos'["canal"] \in Nat /\ pos["canal"] \in Nat /\ pos'["canal"] <= pos["canal"]
  BY <1>1, <1>3
<1>8. ArriveInv'
  <2>1. \A n \in 1 .. pos'["canal"] : n \in 1 .. pos["canal"]
    BY <1>7
  <2>2. QED
    BY <1>1, <1>2, <1>3, <1>5, <2>1 DEF ArriveInv, Arrived, InStream
<1>9. ASSUME NEW h \in 0 .. Len(topic["canal"]), MarkedTo(h)
      PROVE  MarkedTo(h)'
  <2>1. pos'["canal"] <= h
    BY <1>3, <1>7, <1>9 DEF MarkedTo
  <2>2. QED
    BY <1>1, <1>3, <1>5, <1>9, <2>1 DEF MarkedTo
<1>10. CacheInv'
  BY <1>1, <1>2, <1>3, <1>5, <1>9 DEF CacheInv, Faultless
<1>11. QED
  BY <1>4, <1>6, <1>8, <1>10 DEF LogInv

LEMMA LogExpire ==
    ASSUME LogInv, Log!Expire PROVE LogInv'
<1>1. /\ expired' = TRUE /\ marks' \subseteq marks
      /\ UNCHANGED <<topic, offset, pos, phase, logCache, stream, client, changes, crashes,
                     errors, failed>>
  BY DEF Log!Expire, Log!consumers, Log!counts
<1>2. Log!TypeOK' /\ TopicInv'
  BY <1>1 DEF LogInv, Log!TypeOK, TopicInv
<1>3. ArriveInv'
  BY <1>1 DEF LogInv, ArriveInv, Arrived, InStream
<1>4. QED
  BY <1>1, <1>2, <1>3 DEF LogInv, CacheInv, Faultless

LEMMA LogChange ==
    ASSUME Log!LogOK, LogInv, Log!Change PROVE LogInv'
<1>1. PICK api \in SUBSET {"schema"} :
        /\ ApiPublish \/ api = {}
        /\ topic' = [c \in Log!Consumer |->
             IF (c = "canal" /\ Canal) \/ c \in api
             THEN Append(topic[c], [source |-> c, change |-> changes + 1]) ELSE topic[c]]
  BY DEF Log!Change
<1>2. /\ changes < MaxChanges /\ changes' = changes + 1
      /\ UNCHANGED <<offset, pos, phase, marks, logCache, stream, client, crashes, errors,
                     failed, expired>>
  BY DEF Log!Change, Log!redis
<1>3. Log!TypeOK /\ TopicInv /\ ArriveInv /\ CacheInv
  BY DEF LogInv
<1>4. /\ "canal" \in Log!Consumer /\ "schema" \in Log!Consumer
      /\ topic \in [Log!Consumer -> Seq(Log!Event)] /\ pos \in [Log!Consumer -> Nat]
      /\ changes \in Nat
  BY <1>3 DEF Log!TypeOK, Log!Consumer
<1>5. PICK n : n = changes + 1
  OBVIOUS
<1>6. n \in 1 .. MaxChanges
  BY <1>2, <1>4, <1>5 DEF Log!LogOK
<1>7. ASSUME NEW c \in Log!Consumer
      PROVE  /\ topic'[c] \in Seq(Log!Event) /\ Len(topic'[c]) \in Nat /\ Len(topic[c]) \in Nat
             /\ Len(topic'[c]) >= Len(topic[c])
             /\ \A i \in 1 .. Len(topic[c]) : topic'[c][i] = topic[c][i]
             /\ \/ topic'[c] = topic[c]
                \/ /\ Len(topic'[c]) = Len(topic[c]) + 1
                   /\ topic'[c][Len(topic[c]) + 1] = [source |-> c, change |-> n]
  <2>1. PICK q \in Seq(Log!Event) : q = topic[c]
    BY <1>4
  <2>2. PICK e : e = [source |-> c, change |-> n]
    OBVIOUS
  <2>3. e \in Log!Event
    BY <1>6, <2>2 DEF Log!Event
  <2>4. topic'[c] = q \/ topic'[c] = Append(q, e)
    BY <1>1, <1>5, <2>1, <2>2
  <2>5. CASE topic'[c] = q
    BY <2>1, <2>5
  <2>6. CASE topic'[c] = Append(q, e)
    <3>1. PICK r : r = Append(q, e)
      OBVIOUS
    <3>2. /\ r \in Seq(Log!Event) /\ Len(r) = Len(q) + 1 /\ r[Len(q) + 1] = e
          /\ \A i \in 1 .. Len(q) : r[i] = q[i]
      BY <2>3, <3>1, AppendProperties
    <3>3. Len(q) \in Nat /\ Len(r) \in Nat /\ Len(r) >= Len(q)
      BY <3>2
    <3>4. QED
      BY <2>1, <2>2, <2>6, <3>1, <3>2, <3>3
  <2>7. QED
    BY <2>4, <2>5, <2>6
<1>8. topic' \in [Log!Consumer -> Seq(Log!Event)]
  <2>1. \A c \in Log!Consumer : topic'[c] \in Seq(Log!Event)
    BY <1>7
  <2>2. topic' = [c \in Log!Consumer |-> topic'[c]]
    BY <1>1
  <2>3. QED
    BY <2>1, <2>2
<1>9. Log!TypeOK'
  <2>1. changes' \in Nat
    BY <1>2, <1>4
  <2>2. /\ offset' \in [Log!Consumer -> Nat] /\ pos' \in [Log!Consumer -> Nat]
        /\ phase' \in [Log!Consumer -> {"idle", "cache", "stream", "mark", "forward"}]
        /\ marks' \subseteq Log!Event /\ logCache' \in 0 .. MaxChanges
        /\ stream' \in Seq(Log!Event)
    BY <1>2, <1>3 DEF Log!TypeOK
  <2>3. /\ client' \in [kind : {"poller", "follower"}, cursor : Nat, known : Nat,
                       seen : Seq(Nat), unsent : Seq(Nat)]
        /\ crashes' \in Nat /\ errors' \in Nat
        /\ failed' \subseteq 1 .. MaxChanges /\ expired' \in BOOLEAN
    BY <1>2, <1>3 DEF Log!TypeOK
  <2>4. QED
    BY <1>8, <2>1, <2>2, <2>3 DEF Log!TypeOK
<1>10. /\ ~Canal => topic'["canal"] = topic["canal"]
       /\ Canal => /\ Len(topic'["canal"]) = Len(topic["canal"]) + 1
                   /\ topic'["canal"][Len(topic["canal"]) + 1] = CanalEvent(n)
  <2>1. PICK q \in Seq(Log!Event) : q = topic["canal"]
    BY <1>4
  <2>2. ~Canal => topic'["canal"] = q
    BY <1>1, <1>4, <2>1
  <2>3. Canal => topic'["canal"] = Append(q, CanalEvent(n))
    BY <1>1, <1>4, <1>5, <2>1 DEF CanalEvent
  <2>4. CanalEvent(n) \in Log!Event
    BY <1>6 DEF CanalEvent, Log!Event, Log!Consumer
  <2>5. PICK r : r = Append(q, CanalEvent(n))
    OBVIOUS
  <2>6. Len(r) = Len(q) + 1 /\ r[Len(q) + 1] = CanalEvent(n)
    BY <2>4, <2>5, AppendProperties
  <2>7. QED
    BY <2>1, <2>2, <2>3, <2>5, <2>6
<1>11. TopicInv'
  <2>1. \A c \in Log!Consumer : pos'[c] <= Len(topic'[c])
                               /\ (phase'[c] # "idle" => pos'[c] < Len(topic'[c]))
    <3>1. SUFFICES ASSUME NEW c \in Log!Consumer
                   PROVE  pos[c] <= Len(topic'[c])
                          /\ (phase[c] # "idle" => pos[c] < Len(topic'[c]))
      BY <1>2
    <3>2. pos[c] \in Nat /\ Len(topic[c]) \in Nat /\ Len(topic'[c]) \in Nat
          /\ Len(topic'[c]) >= Len(topic[c])
      BY <1>4, <1>7
    <3>3. pos[c] <= Len(topic[c]) /\ (phase[c] # "idle" => pos[c] < Len(topic[c]))
      BY <1>3 DEF TopicInv
    <3>4. QED
      BY <3>2, <3>3
  <2>2. Len(topic["canal"]) = (IF Canal THEN changes ELSE 0)
        /\ \A i \in 1 .. Len(topic["canal"]) : topic["canal"][i] = CanalEvent(i)
    BY <1>3 DEF TopicInv
  <2>3. CASE ~Canal
    BY <1>2, <1>4, <1>10, <2>1, <2>2, <2>3 DEF TopicInv, Log!LogOK
  <2>4. CASE Canal
    <3>1. Len(topic'["canal"]) = changes + 1
             /\ topic'["canal"][changes + 1] = CanalEvent(changes + 1)
      BY <1>5, <1>10, <2>2, <2>4
    <3>2. \A i \in 1 .. changes : topic'["canal"][i] = CanalEvent(i)
      BY <1>4, <1>7, <2>2, <2>4
    <3>3. \A i \in 1 .. changes + 1 : i \in 1 .. changes \/ i = changes + 1
      BY <1>4
    <3>4. \A i \in 1 .. Len(topic'["canal"]) : topic'["canal"][i] = CanalEvent(i)
      BY <3>1, <3>2, <3>3
    <3>5. changes' <= MaxChanges
      BY <1>2, <1>4 DEF Log!LogOK
    <3>6. QED
      BY <1>2, <2>1, <2>4, <3>1, <3>4, <3>5 DEF TopicInv
  <2>5. QED
    BY <2>3, <2>4
<1>12. (\A i \in 1 .. Len(topic["schema"]) : Arrived(topic["schema"][i]))'
  <2>1. SUFFICES ASSUME NEW i \in 1 .. Len(topic'["schema"])
                 PROVE  Arrived(topic'["schema"][i])
    BY <1>2 DEF Arrived, InStream
  <2>2. \A j \in 1 .. Len(topic["schema"]) : Arrived(topic["schema"][j])
    BY <1>3 DEF ArriveInv
  <2>3. i \in 1 .. Len(topic["schema"]) \/
          (i = Len(topic["schema"]) + 1
           /\ topic'["schema"][i] = [source |-> "schema", change |-> n])
    BY <1>4, <1>7
  <2>4. CASE i \in 1 .. Len(topic["schema"])
    <3>1. topic'["schema"][i] = topic["schema"][i]
      BY <1>4, <1>7, <2>4
    <3>2. QED
      BY <2>2, <2>4, <3>1
  <2>5. CASE topic'["schema"][i] = [source |-> "schema", change |-> n]
    <3>1. topic'["schema"][i].source = "schema"
      BY <2>5
    <3>2. QED
      BY <3>1 DEF Arrived
  <2>6. QED
    BY <2>3, <2>4, <2>5
<1>13. ArriveInv'
  BY <1>2, <1>3, <1>12 DEF ArriveInv, Arrived, InStream
<1>14. CacheInv'
  <2>1. SUFFICES ASSUME Faultless
                 PROVE  /\ phase["schema"] = "idle"
                        /\ \A i \in 1 .. Len(topic'["schema"]) : topic'["schema"][i] \in marks
                        /\ \E h \in 0 .. Len(topic'["canal"]) : MarkedTo(h)'
    BY <1>2 DEF CacheInv, Faultless
  <2>2. PICK h \in 0 .. Len(topic["canal"]) : MarkedTo(h)
    BY <1>3, <2>1 DEF CacheInv
  <2>3. topic'["schema"] = topic["schema"]
    BY <1>1, <1>4, <2>1 DEF Faultless
  <2>4. /\ Len(topic["canal"]) \in Nat /\ Len(topic'["canal"]) \in Nat
        /\ Len(topic'["canal"]) >= Len(topic["canal"])
    BY <1>4, <1>7
  <2>5. h \in 0 .. Len(topic'["canal"])
    BY <2>4
  <2>6. MarkedTo(h)'
    <3>1. h < Len(topic["canal"]) => h < Len(topic'["canal"])
      BY <2>4
    <3>2. QED
      BY <1>2, <2>2, <3>1 DEF MarkedTo
  <2>7. QED
    BY <1>3, <2>1, <2>3, <2>5, <2>6 DEF CacheInv
<1>15. QED
  BY <1>9, <1>11, <1>13, <1>14 DEF LogInv

-----------------------------------------------------------------------------
(* Clients of the stream.  What a client was given and what it still has to *)
(* get is in order, and neither is beyond its cursor.                       *)
Rising(q) == \A i, j \in 1 .. Len(q) : i < j => q[i] < q[j]
UpTo(q, n) == \A i \in 1 .. Len(q) : q[i] <= n

\* An entry is given when it was sent or is about to be, and it is behind one when a
\* batch that holds both was cut off.
Given(k) ==
    \/ \E i \in 1 .. Len(client.seen) : client.seen[i] = k
    \/ \E j \in 1 .. Len(client.unsent) : client.unsent[j] = k

Behind(k) == \E i \in 1 .. Len(client.seen) : client.seen[i] < k /\ k < client.seen[i] + Batch

\* The cursor to resume with is before all that was not sent, or what was not sent is
\* behind an entry of its batch.
ResumeInv ==
    /\ client.known <= client.cursor /\ UpTo(client.seen, client.known)
    /\ \/ \A j \in 1 .. Len(client.unsent) : client.known < client.unsent[j]
       \/ \A j \in 1 .. Len(client.unsent) : Behind(client.unsent[j])

ClientInv ==
    /\ Rising(client.seen) /\ Rising(client.unsent)
    /\ UpTo(client.seen, client.cursor) /\ UpTo(client.unsent, client.cursor)
    /\ \A i \in 1 .. Len(client.seen), j \in 1 .. Len(client.unsent) :
          client.seen[i] < client.unsent[j]
    /\ \A i, j \in 1 .. Len(client.unsent) : client.unsent[j] < client.unsent[i] + Batch
    /\ client.kind = "poller" =>
          /\ client.unsent = <<>>
          /\ \A k \in Log!First .. client.cursor :
                \E i \in 1 .. Len(client.seen) : client.seen[i] = k
    /\ client.kind = "follower" =>
          /\ ResumeInv
          /\ \A k \in Log!First .. client.cursor : Given(k) \/ Behind(k)

LEMMA FirstFact ==
    ASSUME Log!LogOK, Log!TypeOK
    PROVE  /\ Log!First \in Nat /\ Log!First >= 1
           /\ Len(stream') \in Nat /\ Len(stream') >= Len(stream) => Log!First' >= Log!First
                                                           /\ Log!First' \in Nat
BY DEF Log!LogOK, Log!TypeOK, Log!First

\* A poll returns what follows the cursor, as far as the stream still has it.
PollAnswer(c, p) ==
    \E n \in Nat, f \in Nat :
        /\ n <= Batch
        /\ f > c /\ f >= Log!First /\ (f = c + 1 \/ f = Log!First)
        /\ p.ids \in [1 .. n -> Nat] /\ \A i \in 1 .. n : p.ids[i] = f + i - 1
        /\ p.cursor \in Nat /\ p.cursor = IF n = 0 THEN c ELSE f + n - 1

LEMMA PolledFact ==
    ASSUME Log!LogOK, Log!TypeOK, NEW c \in Nat
    PROVE  PollAnswer(c, Log!Polled(c))
<1>1. PICK p : p = Log!Polled(c)
  OBVIOUS
<1>2. Log!First \in Nat /\ Len(stream) \in Nat /\ Batch \in Nat
  BY FirstFact DEF Log!TypeOK, Log!LogOK
<1>3. PICK f : f = Log!Largest(c + 1, Log!First)
  OBVIOUS
<1>4. f \in Nat /\ f > c /\ f >= Log!First /\ (f = c + 1 \/ f = Log!First)
  BY <1>2, <1>3 DEF Log!Largest
<1>5. PICK n : n = Log!Largest(0, Log!Least(Batch, Len(stream) - f + 1))
  OBVIOUS
<1>6. n \in Nat /\ n <= Batch
  BY <1>2, <1>4, <1>5 DEF Log!Largest, Log!Least
<1>7. p = [ids |-> [i \in 1 .. n |-> f + i - 1], cursor |-> IF n = 0 THEN c ELSE f + n - 1]
  BY <1>3, <1>5, <1>1 DEF Log!Polled
<1>8. \A i \in 1 .. n : f + i - 1 \in Nat
  BY <1>4
<1>9. (IF n = 0 THEN c ELSE f + n - 1) \in Nat
  BY <1>4, <1>6
<1>10. PollAnswer(c, p)
  BY <1>4, <1>6, <1>7, <1>8, <1>9 DEF PollAnswer
<1>11. QED
  BY <1>10, <1>1

LEMMA InitClient == ASSUME Log!LogOK, Log!Init PROVE ClientInv
<1>1. /\ client.cursor = 0 /\ client.seen = <<>> /\ client.unsent = <<>>
      /\ client.known = 0 /\ stream = <<>>
  BY DEF Log!Init
<1>2. Log!First >= 1 /\ Log!First \in Nat
  BY <1>1 DEF Log!First, Log!LogOK
<1>3. QED
  BY <1>1, <1>2 DEF ClientInv, ResumeInv, Rising, UpTo

\* Nothing happens to the client, and the stream does not get shorter.
LEMMA BesideClient ==
    ASSUME Log!LogOK, Log!TypeOK, ClientInv, UNCHANGED client,
           Len(stream') \in Nat, Len(stream') >= Len(stream)
    PROVE  ClientInv'
<1>1. Log!First' >= Log!First /\ Log!First \in Nat /\ Log!First' \in Nat
         /\ client.cursor \in Nat
  BY FirstFact DEF Log!TypeOK
<1>2. \A k \in Log!First' .. client.cursor : k \in Log!First .. client.cursor
  BY <1>1
<1>3. QED
  BY <1>2 DEF ClientInv, ResumeInv, Given, Behind

LEMMA ClientRecord ==
    ASSUME Log!TypeOK
    PROVE  /\ client.kind \in {"poller", "follower"}
           /\ client.cursor \in Nat /\ client.known \in Nat
           /\ client.seen \in Seq(Nat) /\ client.unsent \in Seq(Nat)
           /\ Len(client.seen) \in Nat /\ Len(client.unsent) \in Nat
           /\ \A i \in 1 .. Len(client.seen) : client.seen[i] \in Nat
           /\ \A i \in 1 .. Len(client.unsent) : client.unsent[i] \in Nat
<1>1. /\ client.kind \in {"poller", "follower"}
      /\ client.cursor \in Nat /\ client.known \in Nat
      /\ client.seen \in Seq(Nat) /\ client.unsent \in Seq(Nat)
  BY DEF Log!TypeOK
<1>2. QED
  BY <1>1

\* The client's step that a record describes.
LEMMA ClientTypeOK ==
    ASSUME Log!TypeOK, NEW d, client' = d,
           d \in [kind : {"poller", "follower"}, cursor : Nat, known : Nat,
                  seen : Seq(Nat), unsent : Seq(Nat)],
           UNCHANGED <<Log!consumers, Log!redis, Log!counts, failed, expired>>
    PROVE  Log!TypeOK'
BY DEF Log!TypeOK, Log!consumers, Log!redis, Log!counts

LEMMA ClientWatch ==
    ASSUME Log!LogOK, Log!TypeOK, ClientInv, Log!Watch
    PROVE  Log!TypeOK' /\ ClientInv'
<1>1. PICK d : d = client
  OBVIOUS
<1>2. PICK p : p = Log!Polled(client.cursor)
  OBVIOUS
<1>3. PICK n \in Nat, f \in Nat :
              /\ n <= Batch /\ f > d.cursor /\ f >= Log!First
                 /\ (f = d.cursor + 1 \/ f = Log!First)
              /\ p.ids \in [1 .. n -> Nat] /\ \A i \in 1 .. n : p.ids[i] = f + i - 1
              /\ p.cursor \in Nat /\ p.cursor = IF n = 0 THEN d.cursor ELSE f + n - 1
  <2>1. PICK c \in Nat : c = client.cursor
    BY ClientRecord
  <2>2. p = Log!Polled(c)
    BY <1>2, <2>1
  <2>3. PollAnswer(c, p)
    BY <2>2, PolledFact
  <2>4. c = d.cursor
    BY <1>1, <2>1
  <2>5. QED
    BY <2>3, <2>4 DEF PollAnswer
<1>4. /\ d.kind = "poller" /\ client' = [d EXCEPT !.cursor = p.cursor, !.seen = d.seen \o p.ids]
      /\ UNCHANGED <<Log!consumers, Log!redis, Log!counts, failed, expired>> /\ stream' = stream
  BY <1>2, <1>1 DEF Log!Watch, Log!redis
<1>5. /\ d \in [kind : {"poller", "follower"}, cursor : Nat, known : Nat,
                seen : Seq(Nat), unsent : Seq(Nat)]
      /\ d.seen \in Seq(Nat) /\ Len(d.seen) \in Nat
      /\ d.cursor \in Nat /\ \A i \in 1 .. Len(d.seen) : d.seen[i] \in Nat
  BY <1>1, ClientRecord DEF Log!TypeOK
<1>6. PICK w : w = d.seen \o p.ids
  OBVIOUS
<1>7. PICK l \in Nat : l = Len(d.seen)
  BY <1>5
<1>8. /\ w \in Seq(Nat) /\ Len(w) = l + n
      /\ \A i \in 1 .. l : w[i] = d.seen[i]
      /\ \A i \in 1 .. l + n : i > l => w[i] = f + (i - l) - 1
  <2>1. p.ids \in Seq(Nat) /\ Len(p.ids) = n
    <3>1. PICK x : x = p.ids
      OBVIOUS
    <3>2. x \in [1 .. n -> Nat]
      BY <1>3, <3>1
    <3>3. x \in Seq(Nat) /\ Len(x) = n
      BY <3>2
    <3>4. QED
      BY <3>1, <3>3
  <2>2. w \in Seq(Nat) /\ Len(w) = l + n
        /\ \A i \in 1 .. l + n : w[i] = IF i <= l THEN d.seen[i] ELSE p.ids[i - l]
    <3>1. PICK q \in Seq(Nat), x \in Seq(Nat) : q = d.seen /\ x = p.ids
      BY <1>5, <2>1
    <3>2. /\ q \o x \in Seq(Nat) /\ Len(q \o x) = Len(q) + Len(x)
          /\ \A i \in 1 .. Len(q) + Len(x) :
                (q \o x)[i] = IF i <= Len(q) THEN q[i] ELSE x[i - Len(q)]
      BY ConcatProperties
    <3>3. w = q \o x /\ Len(q) = l /\ Len(x) = n
      BY <1>6, <1>7, <2>1, <3>1
    <3>4. QED
      BY <3>1, <3>2, <3>3
  <2>3. \A i \in 1 .. l : i \in 1 .. l + n /\ i <= l
    OBVIOUS
  <2>4. \A i \in 1 .. l + n : i > l => ~(i <= l) /\ i - l \in 1 .. n
    OBVIOUS
  <2>5. \A i \in 1 .. l + n : i > l => w[i] = f + (i - l) - 1
    BY <1>3, <2>2, <2>4
  <2>6. QED
    BY <2>2, <2>3, <2>5
<1>9. /\ [d EXCEPT !.cursor = p.cursor, !.seen = w]
            \in [kind : {"poller", "follower"}, cursor : Nat, known : Nat,
                 seen : Seq(Nat), unsent : Seq(Nat)]
      /\ client' = [d EXCEPT !.cursor = p.cursor, !.seen = w]
  BY <1>3, <1>4, <1>5, <1>6, <1>8
<1>10. Log!TypeOK'
  BY <1>4, <1>9, ClientTypeOK
<1>11. /\ client'.kind = "poller" /\ client'.cursor = p.cursor /\ client'.seen = w
       /\ client'.unsent = d.unsent
  BY <1>4, <1>5, <1>9
<1>12. d.unsent = <<>> /\ Rising(d.seen) /\ UpTo(d.seen, d.cursor)
       /\ \A k \in Log!First .. d.cursor : \E i \in 1 .. l : d.seen[i] = k
  BY <1>4, <1>7, <1>1 DEF ClientInv
<1>13. Rising(w)
  <2>1. SUFFICES ASSUME NEW i \in 1 .. l + n, NEW j \in 1 .. l + n, i < j
                 PROVE  w[i] < w[j]
    BY <1>8 DEF Rising
  <2>2. CASE j <= l
    <3>1. i \in 1 .. l /\ j \in 1 .. l
      BY <2>1, <2>2
    <3>2. QED
      BY <1>7, <1>8, <1>12, <2>1, <3>1 DEF Rising
  <2>3. CASE i > l
    <3>1. j > l /\ w[i] = f + (i - l) - 1
      BY <1>8, <2>1, <2>3
    <3>2. w[j] = f + (j - l) - 1
      BY <1>8, <3>1
    <3>3. QED
      BY <1>3, <2>1, <3>1, <3>2
  <2>4. CASE i <= l /\ j > l
    <3>1. i \in 1 .. l /\ i \in 1 .. Len(d.seen)
      BY <1>7, <2>4
    <3>2. w[i] = d.seen[i] /\ w[i] <= d.cursor /\ w[i] \in Nat
      BY <1>5, <1>8, <1>12, <3>1 DEF UpTo
    <3>3. w[j] = f + (j - l) - 1 /\ j - l >= 1
      BY <1>8, <2>4
    <3>4. QED
      BY <1>3, <1>5, <3>2, <3>3
  <2>5. QED
    BY <2>2, <2>3, <2>4
<1>14. UpTo(w, p.cursor)
  <2>1. SUFFICES ASSUME NEW i \in 1 .. l + n PROVE w[i] <= p.cursor
    BY <1>8 DEF UpTo
  <2>2. CASE i <= l
    <3>1. i \in 1 .. l /\ i \in 1 .. Len(d.seen)
      BY <1>7, <2>2
    <3>2. w[i] <= d.cursor /\ w[i] \in Nat
      BY <1>5, <1>8, <1>12, <3>1 DEF UpTo
    <3>3. d.cursor <= p.cursor
      BY <1>3, <1>5
    <3>4. QED
      BY <1>3, <1>5, <3>2, <3>3
  <2>3. CASE i > l
    BY <1>3, <1>8, <2>3
  <2>4. QED
    BY <2>2, <2>3
<1>15. Log!First' = Log!First /\ Log!First \in Nat
  BY <1>4, FirstFact DEF Log!First
<1>16. ASSUME NEW k \in Log!First .. p.cursor PROVE \E i \in 1 .. l + n : w[i] = k
  <2>1. CASE k <= d.cursor
    <3>1. PICK i \in 1 .. l : d.seen[i] = k
      BY <1>5, <1>12, <1>15, <2>1
    <3>2. i \in 1 .. l + n /\ w[i] = k
      BY <1>8, <3>1
    <3>3. QED
      BY <3>2
  <2>2. CASE k > d.cursor
    <3>1. n # 0 /\ k >= f /\ k <= f + n - 1
      BY <1>3, <1>5, <1>15, <2>2
    <3>2. l + (k - f + 1) \in 1 .. l + n /\ l + (k - f + 1) > l
      BY <1>15, <3>1
    <3>3. w[l + (k - f + 1)] = k
      BY <1>8, <1>15, <3>1, <3>2
    <3>4. QED
      BY <3>2, <3>3
  <2>3. QED
    BY <1>5, <1>15, <2>1, <2>2
<1>17. ClientInv'
  BY <1>8, <1>11, <1>12, <1>13, <1>14, <1>15, <1>16 DEF ClientInv, Rising, UpTo
<1>18. QED
  BY <1>10, <1>17

LEMMA ClientFollow ==
    ASSUME Log!LogOK, Log!TypeOK, ClientInv, Log!Follow
    PROVE  Log!TypeOK' /\ ClientInv'
<1>1. PICK d : d = client
  OBVIOUS
<1>2. PICK p : p = Log!Polled(client.cursor)
  OBVIOUS
<1>3. PICK n \in Nat, f \in Nat :
              /\ n <= Batch /\ f > d.cursor /\ f >= Log!First
                 /\ (f = d.cursor + 1 \/ f = Log!First)
              /\ p.ids \in [1 .. n -> Nat] /\ \A i \in 1 .. n : p.ids[i] = f + i - 1
              /\ p.cursor \in Nat /\ p.cursor = IF n = 0 THEN d.cursor ELSE f + n - 1
  <2>1. PICK c \in Nat : c = client.cursor
    BY ClientRecord
  <2>2. p = Log!Polled(c)
    BY <1>2, <2>1
  <2>3. PollAnswer(c, p)
    BY <2>2, PolledFact
  <2>4. c = d.cursor
    BY <1>1, <2>1
  <2>5. QED
    BY <2>3, <2>4 DEF PollAnswer
<1>4. /\ d.kind = "follower" /\ client' = [d EXCEPT !.cursor = p.cursor, !.unsent = p.ids]
      /\ UNCHANGED <<Log!consumers, Log!redis, Log!counts, failed, expired>> /\ stream' = stream
  BY <1>2, <1>1 DEF Log!Follow, Log!redis
<1>5. /\ d \in [kind : {"poller", "follower"}, cursor : Nat, known : Nat,
                seen : Seq(Nat), unsent : Seq(Nat)]
      /\ d.cursor \in Nat /\ \A i \in 1 .. Len(d.seen) : d.seen[i] \in Nat
  BY <1>1, ClientRecord DEF Log!TypeOK
<1>6. PICK w : w = p.ids
  OBVIOUS
<1>7. w \in Seq(Nat) /\ Len(w) = n /\ \A i \in 1 .. n : w[i] = f + i - 1
  BY <1>3, <1>6
<1>8. /\ [d EXCEPT !.cursor = p.cursor, !.unsent = w]
            \in [kind : {"poller", "follower"}, cursor : Nat, known : Nat,
                 seen : Seq(Nat), unsent : Seq(Nat)]
      /\ client' = [d EXCEPT !.cursor = p.cursor, !.unsent = w]
  BY <1>3, <1>4, <1>5, <1>6, <1>7
<1>9. Log!TypeOK'
  BY <1>4, <1>8, ClientTypeOK
<1>10. /\ client'.kind = "follower" /\ client'.cursor = p.cursor /\ client'.seen = d.seen
      /\ client'.unsent = w /\ client'.known = d.known
  BY <1>4, <1>5, <1>8
<1>11. /\ Rising(d.seen) /\ UpTo(d.seen, d.cursor) /\ UpTo(d.seen, d.known)
       /\ d.known <= d.cursor /\ d.unsent = <<>>
       /\ \A k \in Log!First .. d.cursor :
             \/ \E i \in 1 .. Len(d.seen) : d.seen[i] = k
             \/ \E i \in 1 .. Len(d.seen) : d.seen[i] < k /\ k < d.seen[i] + Batch
  BY <1>4, <1>1 DEF ClientInv, ResumeInv, Given, Behind, Log!Follow
<1>12. Rising(w) /\ UpTo(w, p.cursor)
  BY <1>3, <1>7 DEF Rising, UpTo
<1>13. d.cursor <= p.cursor /\ d.known \in Nat /\ d.known <= p.cursor /\ Batch \in Nat
  BY <1>3, <1>5, <1>11, <1>1, ClientRecord DEF Log!LogOK
<1>14. UpTo(d.seen, p.cursor)
  BY <1>3, <1>5, <1>11, <1>13 DEF UpTo
<1>15. \A i \in 1 .. Len(d.seen), j \in 1 .. n : d.seen[i] < w[j]
  <2>1. SUFFICES ASSUME NEW i \in 1 .. Len(d.seen), NEW j \in 1 .. n PROVE d.seen[i] < w[j]
    OBVIOUS
  <2>2. d.seen[i] <= d.cursor /\ d.seen[i] \in Nat
    BY <1>5, <1>11 DEF UpTo
  <2>3. w[j] = f + j - 1
    BY <1>7
  <2>4. QED
    BY <1>3, <1>5, <2>2, <2>3
<1>16. \A i, j \in 1 .. n : w[j] < w[i] + Batch
  <2>1. SUFFICES ASSUME NEW i \in 1 .. n, NEW j \in 1 .. n PROVE w[j] < w[i] + Batch
    OBVIOUS
  <2>2. w[i] = f + i - 1 /\ w[j] = f + j - 1
    BY <1>7
  <2>3. QED
    BY <1>3, <1>13, <2>2
<1>17. \A j \in 1 .. n : d.known < w[j]
  <2>1. SUFFICES ASSUME NEW j \in 1 .. n PROVE d.known < w[j]
    OBVIOUS
  <2>2. w[j] = f + j - 1
    BY <1>7
  <2>3. QED
    BY <1>3, <1>5, <1>11, <1>13, <2>2
<1>18. Log!First' = Log!First /\ Log!First \in Nat
  BY <1>4, FirstFact DEF Log!First
<1>19. ASSUME NEW k \in Log!First .. p.cursor
       PROVE  \/ \E i \in 1 .. Len(d.seen) : d.seen[i] = k
              \/ \E j \in 1 .. n : w[j] = k
              \/ \E i \in 1 .. Len(d.seen) : d.seen[i] < k /\ k < d.seen[i] + Batch
  <2>1. CASE k <= d.cursor
    BY <1>5, <1>11, <1>18, <2>1
  <2>2. CASE k > d.cursor
    <3>1. n # 0 /\ k >= f /\ k <= f + n - 1
      BY <1>3, <1>5, <1>18, <2>2
    <3>2. k - f + 1 \in 1 .. n
      BY <1>18, <3>1
    <3>3. w[k - f + 1] = f + (k - f + 1) - 1
      BY <1>7, <3>2
    <3>4. w[k - f + 1] = k
      BY <1>18, <3>3
    <3>5. QED
      BY <3>2, <3>4
  <2>3. QED
    BY <1>5, <1>18, <2>1, <2>2
<1>20. ResumeInv'
  BY <1>7, <1>10, <1>11, <1>13, <1>17 DEF ResumeInv
<1>21. ClientInv'
  BY <1>7, <1>10, <1>11, <1>12, <1>14, <1>15, <1>16, <1>18, <1>19, <1>20
     DEF ClientInv, Given, Behind
<1>22. QED
  BY <1>9, <1>21

LEMMA ClientPush ==
    ASSUME Log!LogOK, Log!TypeOK, ClientInv, Log!Push
    PROVE  Log!TypeOK' /\ ClientInv'
<1>1. PICK d : d = client
  OBVIOUS
<1>2. /\ d.unsent # <<>>
      /\ client' = [d EXCEPT !.unsent = Tail(d.unsent),
                             !.seen = Append(d.seen, Head(d.unsent)), !.known = d.cursor]
      /\ UNCHANGED <<Log!consumers, Log!redis, Log!counts, failed, expired>> /\ stream' = stream
  BY <1>1 DEF Log!Push, Log!redis
<1>3. /\ d \in [kind : {"poller", "follower"}, cursor : Nat, known : Nat,
                seen : Seq(Nat), unsent : Seq(Nat)]
      /\ d.kind \in {"poller", "follower"}
      /\ d.cursor \in Nat /\ d.seen \in Seq(Nat) /\ d.unsent \in Seq(Nat)
      /\ Len(d.seen) \in Nat /\ Len(d.unsent) \in Nat
  BY <1>1, ClientRecord DEF Log!TypeOK
<1>4. PICK l \in Nat, m \in Nat : l = Len(d.seen) /\ m = Len(d.unsent)
  BY <1>3
<1>5. PICK u, v, h : u = Tail(d.unsent) /\ v = Append(d.seen, Head(d.unsent))
              /\ h = Head(d.unsent)
  OBVIOUS
<1>6. /\ m >= 1 /\ h \in Nat /\ h = d.unsent[1]
      /\ u \in Seq(Nat) /\ Len(u) = m - 1 /\ \A i \in 1 .. m - 1 : u[i] = d.unsent[i + 1]
  BY <1>2, <1>3, <1>4, <1>5, HeadTailProperties
<1>7. /\ v \in Seq(Nat) /\ Len(v) = l + 1 /\ v[l + 1] = h
      /\ \A i \in 1 .. l : v[i] = d.seen[i]
  BY <1>3, <1>4, <1>5, <1>6, AppendProperties
<1>8. /\ [d EXCEPT !.unsent = u, !.seen = v, !.known = d.cursor]
            \in [kind : {"poller", "follower"}, cursor : Nat, known : Nat,
                 seen : Seq(Nat), unsent : Seq(Nat)]
      /\ client' = [d EXCEPT !.unsent = u, !.seen = v, !.known = d.cursor]
  BY <1>2, <1>3, <1>5, <1>6, <1>7
<1>9. Log!TypeOK'
  BY <1>2, <1>8, ClientTypeOK
<1>10. /\ client'.kind = d.kind /\ client'.cursor = d.cursor /\ client'.seen = v
      /\ client'.unsent = u /\ client'.known = d.cursor
  BY <1>3, <1>8
<1>11. /\ Rising(d.seen) /\ Rising(d.unsent) /\ UpTo(d.seen, d.cursor)
          /\ UpTo(d.unsent, d.cursor)
       /\ \A i \in 1 .. l, j \in 1 .. m : d.seen[i] < d.unsent[j]
       /\ \A i, j \in 1 .. m : d.unsent[j] < d.unsent[i] + Batch
       /\ d.kind = "poller" => d.unsent = <<>>
  BY <1>4, <1>1 DEF ClientInv
<1>12. d.kind # "poller"
  BY <1>2, <1>11
<1>13. 1 \in 1 .. m /\ \A i \in 1 .. m - 1 : i + 1 \in 1 .. m /\ 1 < i + 1
  BY <1>6
<1>14. \A i \in 1 .. l + 1 : i \in 1 .. l \/ i = l + 1
  OBVIOUS
<1>15. Rising(v)
  <2>1. SUFFICES ASSUME NEW i \in 1 .. l + 1, NEW j \in 1 .. l + 1, i < j PROVE v[i] < v[j]
    BY <1>7 DEF Rising
  <2>2. i \in 1 .. l
    BY <2>1
  <2>3. QED
    BY <1>4, <1>6, <1>7, <1>11, <1>13, <1>14, <2>1, <2>2 DEF Rising
<1>16. UpTo(v, d.cursor)
  <2>1. SUFFICES ASSUME NEW i \in 1 .. l + 1 PROVE v[i] <= d.cursor
    BY <1>7 DEF UpTo
  <2>2. QED
    BY <1>4, <1>6, <1>7, <1>11, <1>13, <1>14 DEF UpTo
<1>17. Rising(u)
  <2>1. SUFFICES ASSUME NEW i \in 1 .. m - 1, NEW j \in 1 .. m - 1, i < j PROVE u[i] < u[j]
    BY <1>6 DEF Rising
  <2>2. i + 1 < j + 1 /\ u[i] = d.unsent[i + 1] /\ u[j] = d.unsent[j + 1]
    BY <1>6, <2>1
  <2>3. QED
    BY <1>4, <1>11, <1>13, <2>2 DEF Rising
<1>18. UpTo(u, d.cursor)
  BY <1>4, <1>6, <1>11, <1>13 DEF UpTo
<1>19. \A i \in 1 .. l + 1, j \in 1 .. m - 1 : v[i] < u[j]
  <2>1. SUFFICES ASSUME NEW i \in 1 .. l + 1, NEW j \in 1 .. m - 1 PROVE v[i] < u[j]
    OBVIOUS
  <2>2. CASE i \in 1 .. l
    BY <1>6, <1>7, <1>11, <1>13, <2>2
  <2>3. CASE i = l + 1
    BY <1>4, <1>6, <1>7, <1>11, <1>13, <2>3 DEF Rising
  <2>4. QED
    BY <1>14, <2>2, <2>3
<1>20. Log!First' = Log!First /\ Log!First \in Nat /\ Batch \in Nat
  BY <1>2, FirstFact DEF Log!First, Log!LogOK
<1>21. \A i, j \in 1 .. m - 1 : u[j] < u[i] + Batch
  BY <1>6, <1>11, <1>13
<1>22. \A j \in 1 .. m - 1 : v[l + 1] < u[j] /\ u[j] < v[l + 1] + Batch
  <2>1. l + 1 \in 1 .. l + 1
    BY <1>4
  <2>2. \A j \in 1 .. m - 1 : d.unsent[j + 1] < d.unsent[1] + Batch
    BY <1>11, <1>13
  <2>3. QED
    BY <1>6, <1>7, <1>19, <2>1, <2>2
<1>23. ResumeInv'
  <2>1. \A j \in 1 .. m - 1 : \E i \in 1 .. l + 1 : v[i] < u[j] /\ u[j] < v[i] + Batch
    BY <1>22
  <2>2. QED
    BY <1>3, <1>6, <1>7, <1>10, <1>16, <2>1 DEF ResumeInv, Behind
<1>24. ASSUME NEW k \in Log!First .. d.cursor PROVE Given(k)' \/ Behind(k)'
  <2>1. \/ \E i \in 1 .. l : d.seen[i] = k
        \/ \E j \in 1 .. m : d.unsent[j] = k
        \/ \E i \in 1 .. l : d.seen[i] < k /\ k < d.seen[i] + Batch
    BY <1>3, <1>4, <1>12, <1>24, <1>1 DEF ClientInv, Given, Behind
  <2>2. ASSUME NEW i \in 1 .. l, d.seen[i] = k PROVE Given(k)'
    BY <1>7, <1>10, <1>14, <2>2 DEF Given
  <2>3. ASSUME NEW j \in 1 .. m, d.unsent[j] = k PROVE Given(k)'
    <3>1. CASE j = 1
      BY <1>6, <1>7, <1>10, <2>3, <3>1 DEF Given
    <3>2. CASE j # 1
      <4>1. j - 1 \in 1 .. m - 1 /\ (j - 1) + 1 = j
        BY <3>2
      <4>2. u[j - 1] = k
        BY <1>6, <2>3, <4>1
      <4>3. QED
        BY <1>6, <1>10, <4>1, <4>2 DEF Given
    <3>3. QED
      BY <3>1, <3>2
  <2>4. ASSUME NEW i \in 1 .. l, d.seen[i] < k, k < d.seen[i] + Batch PROVE Behind(k)'
    <3>1. i \in 1 .. l + 1 /\ v[i] = d.seen[i]
      BY <1>7
    <3>2. QED
      BY <1>7, <1>10, <2>4, <3>1 DEF Behind
  <2>5. QED
    BY <2>1, <2>2, <2>3, <2>4
<1>25. ClientInv'
  BY <1>3, <1>6, <1>7, <1>10, <1>12, <1>15, <1>16, <1>17, <1>18, <1>19, <1>20, <1>21, <1>23,
     <1>24 DEF ClientInv
<1>26. QED
  BY <1>9, <1>25

LEMMA ClientReconnect ==
    ASSUME Log!LogOK, Log!TypeOK, ClientInv, Log!Reconnect
    PROVE  Log!TypeOK' /\ ClientInv'
<1>1. PICK d : d = client
  OBVIOUS
<1>2. /\ d.unsent # <<>> /\ client' = [d EXCEPT !.cursor = d.known, !.unsent = <<>>]
      /\ UNCHANGED <<Log!consumers, Log!redis, Log!counts, failed, expired>> /\ stream' = stream
  BY <1>1 DEF Log!Reconnect, Log!redis
<1>3. /\ d \in [kind : {"poller", "follower"}, cursor : Nat, known : Nat,
                seen : Seq(Nat), unsent : Seq(Nat)]
      /\ d.kind \in {"poller", "follower"} /\ <<>> \in Seq(Nat) /\ Len(<<>>) = 0
  BY <1>1, ClientRecord DEF Log!TypeOK
<1>4. /\ [d EXCEPT !.cursor = d.known, !.unsent = <<>>]
            \in [kind : {"poller", "follower"}, cursor : Nat, known : Nat,
                 seen : Seq(Nat), unsent : Seq(Nat)]
  BY <1>3
<1>5. Log!TypeOK'
  BY <1>2, <1>4, ClientTypeOK
<1>6. /\ client'.kind = d.kind /\ client'.cursor = d.known /\ client'.seen = d.seen
      /\ client'.unsent = <<>> /\ client'.known = d.known
  BY <1>2, <1>3
<1>7. d.kind = "follower" /\ Rising(d.seen) /\ UpTo(d.seen, d.known)
      /\ d.known <= d.cursor
  BY <1>2, <1>3, <1>1 DEF ClientInv, ResumeInv
<1>8. Log!First' = Log!First /\ Log!First \in Nat /\ d.cursor \in Nat /\ d.known \in Nat
      /\ \A j \in 1 .. Len(d.unsent) : d.unsent[j] \in Nat
  BY <1>2, <1>1, FirstFact, ClientRecord DEF Log!First
<1>9. ASSUME NEW k \in Log!First .. d.known PROVE Given(k)' \/ Behind(k)'
  <2>1. k \in Log!First .. d.cursor
    BY <1>7, <1>8
  <2>2. Given(k) \/ Behind(k)
    BY <1>7, <1>1, <2>1 DEF ClientInv
  <2>3. CASE \E i \in 1 .. Len(d.seen) : d.seen[i] = k
    BY <1>6, <2>3 DEF Given
  <2>4. CASE Behind(k)
    BY <1>6, <1>1, <2>4 DEF Behind
  <2>5. ASSUME NEW j \in 1 .. Len(d.unsent), d.unsent[j] = k PROVE Behind(k)'
    <3>1. ~(d.known < d.unsent[j])
      BY <1>8, <2>5
    <3>2. Behind(k)
      BY <1>7, <1>1, <2>5, <3>1 DEF ClientInv, ResumeInv
    <3>3. QED
      BY <1>6, <1>1, <3>2 DEF Behind
  <2>6. QED
    BY <1>1, <2>2, <2>3, <2>4, <2>5 DEF Given
<1>10. ResumeInv'
  BY <1>3, <1>6, <1>7, <1>8 DEF ResumeInv
<1>11. ClientInv'
  BY <1>3, <1>6, <1>7, <1>8, <1>9, <1>10 DEF ClientInv, Rising, UpTo
<1>12. QED
  BY <1>5, <1>11

LEMMA NextLog ==
    ASSUME Log!LogOK, LogInv, ClientInv, [Log!Next]_logVars
    PROVE  LogInv' /\ ClientInv'
<1>1. Log!TypeOK /\ stream \in Seq(Log!Event) /\ Len(stream) \in Nat
  BY DEF LogInv, Log!TypeOK
<1>2. CASE UNCHANGED logVars
  <2>1. LogInv'
    BY <1>2 DEF logVars, LogInv, Log!TypeOK, TopicInv, ArriveInv, Arrived, InStream, CacheInv,
                Faultless, MarkedTo
  <2>2. QED
    BY <1>1, <1>2, <2>1, BesideClient DEF logVars
<1>3. CASE Log!Change \/ Log!Crash \/ Log!Expire \/ Log!Mark \/ Log!ForwardEvent
           \/ \E c \in Log!Consumer : Log!Handle(c)
  <2>1. LogInv'
    BY <1>3, LogChange, LogCrash, LogExpire, LogMark, LogForwardEvent, LogSkip, LogTake,
       LogWriteCache, LogAppendStream, LogHandlerFails DEF Log!Handle
  <2>2. UNCHANGED client /\ Len(stream') \in Nat /\ Len(stream') >= Len(stream)
    <3>1. CASE UNCHANGED <<client, stream>>
      BY <1>1, <3>1
    <3>2. ASSUME NEW c \in Log!Consumer, Log!AppendStream(c)
          PROVE  UNCHANGED client /\ Len(stream') \in Nat /\ Len(stream') >= Len(stream)
      <4>1. PICK e : e = Log!Message(c)
        OBVIOUS
      <4>2. UNCHANGED client /\ stream' = Append(stream, e)
        BY <3>2, <4>1 DEF Log!AppendStream
      <4>3. Len(stream') = Len(stream) + 1
        BY <1>1, <4>2
      <4>4. QED
        BY <1>1, <4>2, <4>3
    <3>3. ASSUME NEW c \in Log!Consumer,
                 Log!Skip(c) \/ Log!Take(c) \/ Log!WriteCache(c) \/ Log!HandlerFails(c)
          PROVE  UNCHANGED <<client, stream>>
      BY <3>3 DEF Log!Skip, Log!Take, Log!WriteCache, Log!HandlerFails, Log!redis
    <3>4. CASE Log!Change \/ Log!Crash \/ Log!Expire \/ Log!Mark \/ Log!ForwardEvent
      BY <3>1, <3>4 DEF Log!Change, Log!Crash, Log!Expire, Log!Mark, Log!ForwardEvent, Log!redis
    <3>5. QED
      BY <1>3, <3>1, <3>2, <3>3, <3>4 DEF Log!Handle
  <2>3. QED
    BY <1>1, <2>1, <2>2, BesideClient
<1>4. CASE Log!Watch \/ Log!Follow \/ Log!Push \/ Log!Reconnect
  <2>1. Log!TypeOK' /\ ClientInv'
    BY <1>1, <1>4, ClientWatch, ClientFollow, ClientPush, ClientReconnect
  <2>2. UNCHANGED <<topic, offset, pos, phase, marks, logCache, stream, changes, crashes,
                    errors, failed, expired>>
    BY <1>4 DEF Log!Watch, Log!Follow, Log!Push, Log!Reconnect, Log!consumers, Log!redis,
                Log!counts
  <2>3. TopicInv' /\ ArriveInv' /\ CacheInv'
    BY <2>2 DEF LogInv, TopicInv, ArriveInv, Arrived, InStream, CacheInv, Faultless, MarkedTo
  <2>4. QED
    BY <2>1, <2>3 DEF LogInv
<1>5. QED
  BY <1>2, <1>3, <1>4 DEF Log!Next

LEMMA LogPart ==
    ASSUME [RegistriesNext]_allVars
    PROVE  part' = part /\ (part = "log" => [Log!Next]_logVars)
BY DEF RegistriesNext, allVars, logVars

\* What the consumers have marked, forwarded and put behind them is in the stream, the
\* marks tell how far the cache is, and clients are given the stream in order.
THEOREM LogInvariance == RegistriesSpec => [](part = "log" => LogInv /\ ClientInv)
<1>1. RegistriesInit => (part = "log" => LogInv /\ ClientInv)
  BY RegistriesOK, InitLog, InitClient DEF RegistriesInit
<1>2. (part = "log" => LogInv /\ ClientInv) /\ [RegistriesNext]_allVars
        => (part = "log" => LogInv /\ ClientInv)'
  BY RegistriesOK, NextLog, LogPart
<1>3. QED
  BY <1>1, <1>2, PTL DEF RegistriesSpec

\* Crashes, redelivery and expired marks lose no change on the way through Canal, and
\* the cache ends at the last one, for any numbers of changes, crashes and errors.
THEOREM ChangesAlwaysArrive == RegistriesSpec => []ChangesArrive
<1>1. LogInv => Log!ChangesArrive
  <2> SUFFICES ASSUME LogInv PROVE Log!ChangesArrive
    OBVIOUS
  <2>1. Log!TypeOK /\ TopicInv /\ ArriveInv /\ CacheInv /\ "canal" \in Log!Consumer
    BY DEF LogInv, Log!Consumer
  <2>2. /\ pos["canal"] \in Nat /\ Len(topic["canal"]) \in Nat
        /\ pos["canal"] <= Len(topic["canal"]) /\ stream \in Seq(Log!Event)
    BY <2>1 DEF Log!TypeOK, TopicInv
  <2>3. Log!Through \ failed \subseteq {stream[i].change : i \in DOMAIN stream}
    <3>1. SUFFICES ASSUME NEW i \in 1 .. pos["canal"], topic["canal"][i].change \notin failed
                   PROVE  \E j \in DOMAIN stream : stream[j].change = topic["canal"][i].change
      BY DEF Log!Through
    <3>2. topic["canal"][i].change = i
      <4>1. i \in 1 .. Len(topic["canal"])
        BY <2>2
      <4>2. topic["canal"][i] = CanalEvent(i)
        BY <2>1, <4>1 DEF TopicInv
      <4>3. QED
        BY <4>2 DEF CanalEvent
    <3>3. InStream(i)
      BY <2>1, <3>1, <3>2 DEF ArriveInv
    <3>4. QED
      BY <2>2, <3>2, <3>3 DEF InStream
  <2>4. ASSUME ~ApiPublish, ~expired, phase["canal"] = "idle",
               pos["canal"] = Len(topic["canal"]), failed = {}
        PROVE  logCache = pos["canal"]
    <3>1. PICK h \in 0 .. Len(topic["canal"]) : MarkedTo(h)
      BY <2>1, <2>4 DEF CacheInv, Faultless
    <3>2. h = Len(topic["canal"])
      BY <2>2, <2>4, <3>1 DEF MarkedTo
    <3>3. QED
      BY <2>2, <2>4, <3>1, <3>2 DEF MarkedTo
  <2>5. QED
    BY <2>3, <2>4 DEF Log!ChangesArrive
<1>2. (part = "log" => LogInv /\ ClientInv) => ChangesArrive
  BY <1>1 DEF ChangesArrive
<1>3. QED
  BY <1>2, LogInvariance, PTL

\* No client is given an entry twice or out of order, however often it reconnects; a
\* poller misses only what the stream dropped, and a follower besides that only the rest
\* of a batch it was given an entry of, for any batch and length of the stream.
THEOREM SubscribersAlwaysInOrder == RegistriesSpec => []SubscribersInOrder
<1>1. LogInv /\ ClientInv => Log!SubscribersInOrder
  <2> SUFFICES ASSUME LogInv, ClientInv PROVE Log!SubscribersInOrder
    OBVIOUS
  <2>1. /\ client.seen \in Seq(Nat) /\ DOMAIN client.seen = 1 .. Len(client.seen)
        /\ client.unsent \in Seq(Nat) /\ DOMAIN client.unsent = 1 .. Len(client.unsent)
        /\ client.kind \in {"poller", "follower"}
    BY ClientRecord DEF LogInv
  <2>2. /\ \A i \in 1 .. Len(client.seen) : client.seen[i] \in Log!ToSet(client.seen)
        /\ \A j \in 1 .. Len(client.unsent) : client.unsent[j] \in Log!ToSet(client.unsent)
    BY <2>1 DEF Log!ToSet
  <2>3. ASSUME NEW k \in Log!First .. client.cursor
        PROVE  \/ k \in Log!ToSet(client.seen) \cup Log!ToSet(client.unsent)
               \/ /\ client.kind = "follower"
                  /\ \E s \in Log!ToSet(client.seen) : s < k /\ k < s + Batch
    <3>1. CASE client.kind = "poller"
      BY <2>2, <2>3, <3>1 DEF ClientInv
    <3>2. CASE client.kind = "follower"
      <4>1. Given(k) \/ Behind(k)
        BY <2>3, <3>2 DEF ClientInv
      <4>2. QED
        BY <2>2, <3>2, <4>1 DEF Given, Behind
    <3>3. QED
      BY <2>1, <3>1, <3>2
  <2>4. QED
    BY <2>1, <2>3 DEF ClientInv, Rising, Log!SubscribersInOrder
<1>2. (part = "log" => LogInv /\ ClientInv) => SubscribersInOrder
  BY <1>1 DEF SubscribersInOrder
<1>3. QED
  BY <1>2, LogInvariance, PTL

-----------------------------------------------------------------------------
(***************************************************************************)
(* The SDK's catalog.  For a name that is not torn, what a thread holds is *)
(* active, and what a cache holds is active or about to be dropped.  As    *)
(* long as some caller is undisturbed, all that threads hold is active.    *)
(***************************************************************************)
Pending(n) == \E i \in 1 .. Len(sdkEvents) : sdkEvents[i] = n

Places ==
    {"idle", "look", "ask", "keep", "page", "store", "post", "create", "again", "kept",
     "rule", "newRule", "addRule"} \cup Sdk!Ended

RowsInv == \A r, s \in sdkRows : r.name = s.name => r = s

CopyInv ==
    \A n \in Name :
        /\ catalog # None /\ catalog[n] # None => catalog[n].name = n
        /\ n \notin torn =>
            /\ sdkCache[n] # None /\ sdkCache[n].name = n => sdkCache[n] \in sdkRows
               \/ Pending(n)
            /\ catalog # None /\ catalog[n] # None => catalog[n] \in sdkRows \/ Pending(n)

Shape(t) ==
    /\ sdkPc[t] = "idle" => got[t] = None /\ refused[t] = "no"
    /\ sdkPc[t] \notin {"page", "store"} => acc[t] = Sdk!Empty
    /\ \A n \in Name : acc[t][n] # None => acc[t][n].name = n
    /\ sdkPc[t] = "kept" => got[t] # None /\ got[t].name = call[t].name
    /\ sdkPc[t] \in {"rule", "newRule", "addRule"} => call[t].op = "getOrCreate" /\ call[t].rule
    /\ sdkPc[t] \in {"post", "create"} => got[t] = None
    /\ sdkPc[t] = "addRule" => seen[t].row # None

\* A create that saw the newest version may insert: there is no active field.
Viewed(t) ==
    sdkPc[t] = "create" =>
        /\ seen[t].version <= newest[call[t].name]
        /\ seen[t].version = newest[call[t].name] => Sdk!Named(call[t].name) = {}

StillActive(t) ==
    /\ sdkPc[t] \in {"keep", "kept"} /\ got[t] # None /\ got[t].name \notin torn
          => got[t] \in sdkRows
    /\ \A n \in Name : n \notin torn /\ acc[t][n] # None => acc[t][n] \in sdkRows

Clean(t) ==
    /\ sdkPc[t] \in {"keep", "kept"} => got[t] \in sdkRows \cup {None}
    /\ \A n \in Name : acc[t][n] \in sdkRows \cup {None}

\* What getOrCreate relies on after a refusal, or a lost race: the field is there, and
\* stays.
OnCourse(t) ==
    /\ sdkPc[t] # "idle"
    /\ got[t] \in sdkRows \cup {None}
    /\ Sdk!InFlight(t) => sdkCache[call[t].name] \in sdkRows \cup {None}
    /\ call[t].op = "getOrCreate" /\ call[t].mode = "EXACT" =>
        /\ sdkPc[t] \in {"rule", "newRule", "addRule", "done"} => got[t] # None
        /\ refused[t] = "found" =>
              /\ Sdk!Named(call[t].name) # {}
              /\ sdkPc[t] \notin {"page", "store", "post", "create"}
              /\ sdkPc[t] = "keep" => got[t] # None
        /\ sdkPc[t] = "create" /\ seen[t].version # newest[call[t].name]
              => Sdk!Named(call[t].name) # {}
        /\ sdkPc[t] = "addRule" =>
              /\ seen[t].row \in Sdk!Named(call[t].name)
              /\ seen[t].version <= ruleVersions[seen[t].row.id]
        /\ sdkPc[t] = "lost" =>
              \E r \in Sdk!Named(call[t].name) : got[t] # None => ruleVersions[r.id] > 0
        /\ sdkPc[t] = "failed" =>
              \/ refused[t] = "blocked"
              \/ call[t].rule /\ got[t] # None /\ got[t].name # call[t].name

ThreadInv(t) ==
    /\ Shape(t) /\ Viewed(t) /\ StillActive(t)
    /\ steady # {} => Clean(t)
    /\ t \in steady => OnCourse(t)

SdkInv == Sdk!TypeOK /\ RowsInv /\ CopyInv /\ \A t \in Thread : ThreadInv(t)

\* Versions only grow, and with them the fields that are active may come to be others.
Grown ==
    /\ \A n \in Name : \/ (newest'[n] = newest[n] /\ Sdk!Named(n)' \subseteq Sdk!Named(n))
                        \/ (newest'[n] = newest[n] + 1 /\ Sdk!Named(n)' # {})
    /\ \A i \in 1 .. MaxRows : ruleVersions'[i] >= ruleVersions[i]

\* A value that may be cached.
Good(v) ==
    /\ v # None => v.name \in torn \/ v \in sdkRows
    /\ steady # {} => v \in sdkRows \cup {None}

LEMMA InitSdk == ASSUME Sdk!SdkOK, Sdk!Init PROVE SdkInv
<1>1. /\ sdkRows = {} /\ ids = 0 /\ deletes = 0 /\ sdkEvents = <<>>
      /\ newest = [n \in Name |-> 0] /\ ruleVersions = [i \in 1 .. MaxRows |-> 0]
      /\ sdkCache = Sdk!Empty /\ catalog = None
      /\ sdkPc = [t \in Thread |-> "idle"]
      /\ got = [t \in Thread |-> None] /\ acc = [t \in Thread |-> Sdk!Empty]
      /\ sdkOffset = [t \in Thread |-> 0]
      /\ seen = [t \in Thread |-> Sdk!Nothing] /\ refused = [t \in Thread |-> "no"]
      /\ torn = {} /\ steady = {}
  BY DEF Sdk!Init
<1>2. Sdk!Empty \in [Name -> Sdk!Row \cup {None}] /\ \A n \in Name : Sdk!Empty[n] = None
  BY DEF Sdk!Empty
<1>3. call \in [Thread -> Sdk!Call]
  <2>1. (CHOOSE c \in Calls : TRUE) \in Calls /\ Calls \subseteq Sdk!Call
    BY DEF Sdk!SdkOK
  <2>2. PICK c : c = CHOOSE x \in Calls : TRUE
    OBVIOUS
  <2>3. call \in [Thread -> {c}] /\ c \in Sdk!Call
    BY <2>1, <2>2 DEF Sdk!Init
  <2>4. QED
    BY <2>3
<1>4. Sdk!TypeOK
  <2>1. 0 \in 0 .. MaxRows /\ 0 \in 0 .. MaxDeletes
    BY DEF Sdk!SdkOK
  <2>2. QED
    BY <1>1, <1>2, <1>3, <2>1 DEF Sdk!TypeOK, Sdk!Nothing
<1>5. RowsInv /\ CopyInv
  BY <1>1, <1>2 DEF RowsInv, CopyInv
<1>6. \A t \in Thread : ThreadInv(t)
  BY <1>1, <1>2 DEF ThreadInv, Shape, Viewed, StillActive
<1>7. QED
  BY <1>4, <1>5, <1>6 DEF SdkInv

LEMMA SdkTypes ==
    ASSUME Sdk!TypeOK, NEW t \in Thread
    PROVE  /\ call[t] \in Sdk!Call /\ call[t].name \in Name
           /\ call[t].op \in {"getOrCreate", "get", "list"}
           /\ got[t] \in Sdk!Row \cup {None} /\ acc[t] \in [Name -> Sdk!Row \cup {None}]
           /\ seen[t] \in [row : Sdk!Row \cup {None}, version : Nat] /\ sdkOffset[t] \in Nat
           /\ refused[t] \in {"no", "found", "blocked"}
BY DEF Sdk!TypeOK, Sdk!Call

\* What a request saw stays right, or is seen to be old, when somebody else moves on.
LEMMA ViewedFrame ==
    ASSUME Sdk!TypeOK, Sdk!TypeOK', Grown, NEW u \in Thread, Viewed(u),
           sdkPc'[u] = sdkPc[u], call'[u] = call[u], seen'[u] = seen[u]
    PROVE  Viewed(u)'
<1>1. PICK n \in Name : n = call[u].name
  BY SdkTypes
<1>2. newest[n] \in Nat /\ newest'[n] \in Nat /\ seen[u].version \in Nat
  BY SdkTypes DEF Sdk!TypeOK
<1>3. SUFFICES ASSUME sdkPc[u] = "create"
               PROVE  /\ seen[u].version <= newest'[n]
                      /\ seen[u].version = newest'[n] => Sdk!Named(n)' = {}
  BY <1>1 DEF Viewed
<1>4. /\ seen[u].version <= newest[n]
      /\ seen[u].version = newest[n] => Sdk!Named(n) = {}
  BY <1>1, <1>3 DEF Viewed
<1>5. CASE newest'[n] = newest[n] /\ Sdk!Named(n)' \subseteq Sdk!Named(n)
  BY <1>4, <1>5
<1>6. CASE newest'[n] = newest[n] + 1
  BY <1>2, <1>4, <1>6
<1>7. QED
  BY <1>5, <1>6 DEF Grown

\* A step of one thread, beside which the server may at most get a new field.
LEMMA ThreadFrame ==
    ASSUME SdkInv, Sdk!TypeOK', RowsInv', sdkRows \subseteq sdkRows', torn \subseteq torn',
           Grown,
           \A n \in Name : Pending(n) => Pending(n)', steady' \subseteq steady,
           NEW t \in Thread,
           \A u \in Thread : u # t =>
              /\ sdkPc'[u] = sdkPc[u] /\ call'[u] = call[u] /\ got'[u] = got[u]
              /\ acc'[u] = acc[u] /\ seen'[u] = seen[u] /\ refused'[u] = refused[u],
           \A n \in Name : sdkCache'[n] \in {sdkCache[n], None} \/ Good(sdkCache'[n]),
           catalog' # None => \A n \in Name :
              \/ catalog'[n] = None \/ (catalog # None /\ catalog'[n] = catalog[n])
              \/ catalog'[n].name = n /\ Good(catalog'[n]),
           Shape(t)', Viewed(t)', StillActive(t)', steady # {} => Clean(t)',
           t \in steady' => OnCourse(t)'
    PROVE  SdkInv'
<1>1. CopyInv'
  BY DEF SdkInv, CopyInv, Good
<1>2. ASSUME NEW u \in Thread PROVE ThreadInv(u)'
  <2>1. CASE u = t
    BY <2>1 DEF ThreadInv
  <2>2. CASE u # t
    <3>1. ThreadInv(u)
      BY DEF SdkInv
    <3>2. Shape(u)'
      BY <2>2, <3>1 DEF ThreadInv, Shape, Sdk!Empty
    <3>3. StillActive(u)'
      BY <2>2, <3>1 DEF ThreadInv, StillActive
    <3>4. steady # {} => Clean(u)'
      BY <2>2, <3>1 DEF ThreadInv, Clean
    <3>5. ASSUME u \in steady' PROVE OnCourse(u)'
      <4>1. OnCourse(u) /\ steady # {}
        BY <3>1, <3>5 DEF ThreadInv
      <4>2. call[u].name \in Name
        BY DEF SdkInv, Sdk!TypeOK, Sdk!Call
      <4>3. sdkCache[call[u].name] \in sdkRows \cup {None}
              => sdkCache'[call[u].name] \in sdkRows' \cup {None}
        BY <4>1, <4>2 DEF Good
      <4>4. Sdk!Named(call[u].name) \subseteq Sdk!Named(call[u].name)'
        BY <2>2 DEF Sdk!Named
      <4>5. sdkPc[u] = "create" /\ seen[u].version # newest'[call[u].name]
              => seen[u].version # newest[call[u].name] \/ Sdk!Named(call[u].name)' # {}
        BY <2>2, <4>2 DEF Grown
      <4>6. \A r \in sdkRows : /\ ruleVersions[r.id] \in Nat /\ ruleVersions'[r.id] \in Nat
                                /\ ruleVersions[r.id] <= ruleVersions'[r.id]
        BY DEF SdkInv, Sdk!TypeOK, Sdk!Row, Grown
      <4>7. seen[u].version \in Nat
        BY SdkTypes DEF SdkInv
      <4>8. ASSUME call[u].op = "getOrCreate", call[u].mode = "EXACT", sdkPc[u] = "addRule"
            PROVE  /\ seen[u].row \in Sdk!Named(call[u].name)'
                   /\ seen[u].version <= ruleVersions'[seen[u].row.id]
        <5>1. /\ seen[u].row \in sdkRows /\ seen[u].row \in Sdk!Named(call[u].name)
              /\ seen[u].version <= ruleVersions[seen[u].row.id]
          BY <4>1, <4>8 DEF OnCourse, Sdk!Named
        <5>2. QED
          BY <4>4, <4>6, <4>7, <5>1
      <4>9. ASSUME call[u].op = "getOrCreate", call[u].mode = "EXACT", sdkPc[u] = "lost"
            PROVE  \E r \in Sdk!Named(call[u].name)' : got[u] # None => ruleVersions'[r.id] > 0
        <5>1. PICK r \in Sdk!Named(call[u].name) : got[u] # None => ruleVersions[r.id] > 0
          BY <4>1, <4>9 DEF OnCourse
        <5>2. r \in sdkRows
          BY DEF Sdk!Named
        <5>3. got[u] # None => ruleVersions'[r.id] > 0
          BY <4>6, <5>1, <5>2
        <5>4. QED
          BY <4>4, <5>3
      <4>10. QED
        BY <2>2, <4>1, <4>3, <4>4, <4>5, <4>8, <4>9 DEF OnCourse, Sdk!InFlight, Sdk!Ended
    <3>6. Viewed(u)'
      BY <2>2, <3>1, ViewedFrame DEF SdkInv, ThreadInv
    <3>7. QED
      BY <3>2, <3>3, <3>4, <3>5, <3>6 DEF ThreadInv
  <2>3. QED
    BY <2>1, <2>2
<1>3. QED
  BY <1>1, <1>2 DEF SdkInv

LEMMA StillGrown ==
    ASSUME UNCHANGED <<sdkRows, newest, ruleVersions>>, Sdk!TypeOK
    PROVE  Grown
<1>1. \A n \in Name : newest'[n] = newest[n] /\ Sdk!Named(n)' \subseteq Sdk!Named(n)
  BY DEF Sdk!Named
<1>2. \A i \in 1 .. MaxRows : ruleVersions[i] \in Nat /\ ruleVersions'[i] = ruleVersions[i]
  BY DEF Sdk!TypeOK
<1>3. QED
  BY <1>1, <1>2 DEF Grown

\* What may be cached is what a thread holds, or a field of the list it has read.
LEMMA HeldGood ==
    ASSUME SdkInv, NEW t \in Thread, sdkPc[t] \in {"keep", "kept"}
    PROVE  Good(got[t])
BY DEF SdkInv, ThreadInv, StillActive, Clean, Good

LEMMA ReadGood ==
    ASSUME SdkInv, NEW t \in Thread, NEW n \in Name
    PROVE  Good(acc[t][n]) /\ (acc[t][n] # None => acc[t][n].name = n)
BY DEF SdkInv, ThreadInv, Shape, StillActive, Clean, Good

LEMMA OfFact ==
    ASSUME Sdk!SdkOK, Sdk!TypeOK, NEW n
    PROVE  /\ Sdk!Of(n) \in sdkRows \cup {None}
           /\ Sdk!Named(n) # {} => Sdk!Of(n) # None /\ Sdk!Of(n).name = n
           /\ Sdk!Named(n) = {} => Sdk!Of(n) = None
<1>1. CASE Sdk!Named(n) = {}
  BY <1>1 DEF Sdk!Of
<1>2. CASE Sdk!Named(n) # {}
  <2>1. Sdk!Of(n) \in Sdk!Named(n)
    BY <1>2 DEF Sdk!Of
  <2>2. QED
    BY <1>2, <2>1 DEF Sdk!Named, Sdk!TypeOK, Sdk!SdkOK
<1>3. QED
  BY <1>1, <1>2

LEMMA SdkLook ==
    ASSUME SdkInv, NEW t \in Thread, Sdk!Look(t)
    PROVE  SdkInv'
<1>1. /\ sdkPc[t] = "look"
      /\ got' = [got EXCEPT ![t] = sdkCache[call[t].name]]
      /\ \E l \in {"rule", "done", "ask"} :
            /\ sdkPc' = [sdkPc EXCEPT ![t] = l]
            /\ l = "rule" => call[t].op = "getOrCreate" /\ call[t].rule
            /\ l # "ask" => got'[t] # None
      /\ UNCHANGED <<sdkRows, ids, deletes, newest, ruleVersions, sdkEvents, sdkCache, catalog,
                     call, acc,
                     sdkOffset, seen, refused, torn, steady>>
  BY DEF Sdk!Look, Sdk!Found, Sdk!Goto, Sdk!server, Sdk!caches, Sdk!history
<1>2. PICK l \in {"rule", "done", "ask"} :
            /\ sdkPc' = [sdkPc EXCEPT ![t] = l]
            /\ l = "rule" => call[t].op = "getOrCreate" /\ call[t].rule
            /\ l # "ask" => got'[t] # None
  BY <1>1
<1>3. Sdk!TypeOK /\ ThreadInv(t) /\ RowsInv
  BY DEF SdkInv
<1>4. call[t].name \in Name /\ sdkCache[call[t].name] \in Sdk!Row \cup {None}
  BY <1>3, SdkTypes DEF Sdk!TypeOK
<1>5. /\ sdkPc'[t] = l /\ got'[t] = sdkCache[call[t].name]
      /\ \A u \in Thread : u # t => sdkPc'[u] = sdkPc[u] /\ got'[u] = got[u]
  BY <1>1, <1>2, <1>3 DEF Sdk!TypeOK
<1>6. Sdk!TypeOK'
  BY <1>1, <1>2, <1>3, <1>4 DEF Sdk!TypeOK, Sdk!Ended
<1>7. Shape(t)' /\ Viewed(t)' /\ StillActive(t)'
  BY <1>1, <1>2, <1>3, <1>5 DEF Viewed, ThreadInv, Shape, StillActive, Sdk!Empty
<1>8. steady # {} => Clean(t)'
  BY <1>1, <1>3, <1>5 DEF ThreadInv, Clean
<1>9. t \in steady => OnCourse(t)'
  BY <1>1, <1>2, <1>3, <1>5 DEF ThreadInv, OnCourse, Sdk!InFlight, Sdk!Ended, Sdk!Named
<1>10. \A n \in Name : Pending(n) => Pending(n)'
  BY <1>1 DEF Pending
<1>11. RowsInv' /\ Grown
  BY <1>1, <1>3, StillGrown DEF RowsInv
<1>12. QED
  BY <1>1, <1>5, <1>6, <1>7, <1>8, <1>9, <1>10, <1>11, ThreadFrame

LEMMA SdkAsk ==
    ASSUME Sdk!SdkOK, SdkInv, NEW t \in Thread, Sdk!Ask(t)
    PROVE  SdkInv'
<1>1. /\ sdkPc[t] = "ask" /\ sdkPc' = [sdkPc EXCEPT ![t] = "keep"]
      /\ \E r \in Sdk!Answers(call[t].mode, call[t].name) : got' = [got EXCEPT ![t] = r]
      /\ UNCHANGED <<sdkRows, ids, deletes, newest, ruleVersions, sdkEvents, sdkCache, catalog,
                     call, acc,
                     sdkOffset, seen, refused, torn, steady>>
  BY DEF Sdk!Ask, Sdk!Goto, Sdk!server, Sdk!caches, Sdk!history
<1>2. PICK r \in Sdk!Answers(call[t].mode, call[t].name) : got' = [got EXCEPT ![t] = r]
  BY <1>1
<1>3. Sdk!TypeOK /\ ThreadInv(t) /\ RowsInv
  BY DEF SdkInv
<1>4. /\ r \in sdkRows \cup {None}
      /\ call[t].mode = "EXACT" /\ Sdk!Named(call[t].name) # {} => r # None
  BY <1>3, OfFact DEF Sdk!Answers
<1>5. /\ sdkPc'[t] = "keep" /\ got'[t] = r
      /\ \A u \in Thread : u # t => sdkPc'[u] = sdkPc[u] /\ got'[u] = got[u]
  BY <1>1, <1>2, <1>3 DEF Sdk!TypeOK
<1>6. Sdk!TypeOK'
  BY <1>1, <1>2, <1>3, <1>4 DEF Sdk!TypeOK
<1>7. Shape(t)' /\ Viewed(t)' /\ StillActive(t)'
  BY <1>1, <1>3, <1>4, <1>5 DEF Viewed, ThreadInv, Shape, StillActive, Sdk!Empty
<1>8. steady # {} => Clean(t)'
  BY <1>1, <1>3, <1>4, <1>5 DEF ThreadInv, Clean
<1>9. t \in steady => OnCourse(t)'
  BY <1>1, <1>3, <1>4, <1>5 DEF ThreadInv, OnCourse, Sdk!InFlight, Sdk!Ended, Sdk!Named
<1>10. \A n \in Name : Pending(n) => Pending(n)'
  BY <1>1 DEF Pending
<1>11. RowsInv' /\ Grown
  BY <1>1, <1>3, StillGrown DEF RowsInv
<1>12. QED
  BY <1>1, <1>5, <1>6, <1>7, <1>8, <1>9, <1>10, <1>11, ThreadFrame

LEMMA SdkKeep ==
    ASSUME SdkInv, NEW t \in Thread, Sdk!Keep(t)
    PROVE  SdkInv'
<1>1. /\ sdkPc[t] = "keep"
      /\ UNCHANGED <<sdkRows, ids, deletes, newest, ruleVersions, sdkEvents, catalog, call, got,
                     acc,
                     sdkOffset, seen, refused, torn, steady>>
      /\ \/ /\ got[t] # None /\ sdkCache' = [sdkCache EXCEPT ![call[t].name] = got[t]]
            /\ \E l \in {"rule", "done"} :
                  /\ sdkPc' = [sdkPc EXCEPT ![t] = l]
                  /\ l = "rule" => call[t].op = "getOrCreate" /\ call[t].rule
         \/ /\ got[t] = None /\ sdkCache' = sdkCache
            /\ sdkPc' = [sdkPc EXCEPT ![t] = IF call[t].op = "get" THEN "done" ELSE "page"]
  BY DEF Sdk!Keep, Sdk!Found, Sdk!Goto, Sdk!server, Sdk!history
<1>2. Sdk!TypeOK /\ ThreadInv(t) /\ RowsInv
  BY DEF SdkInv
<1>3. call[t].name \in Name /\ got[t] \in Sdk!Row \cup {None} /\ Good(got[t])
  BY <1>1, <1>2, SdkTypes, HeldGood
<1>4. \A u \in Thread : u # t => sdkPc'[u] = sdkPc[u]
  BY <1>1, <1>2 DEF Sdk!TypeOK
<1>5. \A n \in Name : sdkCache'[n] \in {sdkCache[n], None} \/ Good(sdkCache'[n])
  BY <1>1, <1>2, <1>3 DEF Sdk!TypeOK
<1>6. Sdk!TypeOK'
  <2>1. sdkCache' \in [Name -> Sdk!Row \cup {None}]
    BY <1>1, <1>2, <1>3 DEF Sdk!TypeOK
  <2>2. sdkPc' \in [Thread -> Places]
    BY <1>1, <1>2 DEF Sdk!TypeOK, Sdk!Ended, Places
  <2>3. QED
    BY <1>1, <1>2, <2>1, <2>2 DEF Sdk!TypeOK, Places
<1>7. /\ sdkPc'[t] \in {"rule", "done", "page"}
      /\ sdkPc'[t] = "rule" => call[t].op = "getOrCreate" /\ call[t].rule
      /\ got[t] # None => sdkPc'[t] # "page" /\ sdkCache'[call[t].name] = got[t]
      /\ got[t] = None => (sdkPc'[t] = "page" \/ call[t].op = "get") /\ sdkCache' = sdkCache
  BY <1>1, <1>2, <1>3 DEF Sdk!TypeOK
<1>8. Shape(t)' /\ Viewed(t)' /\ StillActive(t)'
  BY <1>1, <1>2, <1>7 DEF Viewed, ThreadInv, Shape, StillActive, Sdk!Empty
<1>9. steady # {} => Clean(t)'
  BY <1>1, <1>2, <1>7 DEF ThreadInv, Clean
<1>10. t \in steady => OnCourse(t)'
  BY <1>1, <1>2, <1>3, <1>7 DEF ThreadInv, OnCourse, Sdk!InFlight, Sdk!Ended, Sdk!Named
<1>11. \A n \in Name : Pending(n) => Pending(n)'
  BY <1>1 DEF Pending
<1>12. RowsInv' /\ Grown
  BY <1>1, <1>2, StillGrown DEF RowsInv
<1>13. QED
  BY <1>1, <1>4, <1>5, <1>6, <1>8, <1>9, <1>10, <1>11, <1>12, ThreadFrame

LEMMA MergedFact ==
    ASSUME RowsInv, NEW a \in [Name -> Sdk!Row \cup {None}], NEW page \in SUBSET sdkRows,
           Sdk!TypeOK, NEW n \in Name
    PROVE  /\ Sdk!Merged(a, page)[n] \in Sdk!Row \cup {None}
           /\ \/ Sdk!Merged(a, page)[n] = a[n]
              \/ Sdk!Merged(a, page)[n] \in sdkRows /\ Sdk!Merged(a, page)[n].name = n
<1>1. Sdk!Merged(a, page)[n] = IF \E r \in page : r.name = n /\ (a[n] = None \/ a[n].id < r.id)
                               THEN CHOOSE r \in page : r.name = n ELSE a[n]
  BY DEF Sdk!Merged
<1>2. CASE \E r \in page : r.name = n /\ (a[n] = None \/ a[n].id < r.id)
  <2>1. PICK s : s = CHOOSE r \in page : r.name = n
    OBVIOUS
  <2>2. s \in page /\ s.name = n
    BY <1>2, <2>1
  <2>3. QED
    BY <1>1, <1>2, <2>1, <2>2 DEF Sdk!TypeOK, Places
<1>3. QED
  BY <1>1, <1>2

LEMMA SdkPage ==
    ASSUME Sdk!SdkOK, SdkInv, NEW t \in Thread, Sdk!Page(t)
    PROVE  SdkInv'
<1>1. /\ sdkPc[t] = "page"
      /\ UNCHANGED <<sdkRows, ids, deletes, newest, ruleVersions, sdkEvents, sdkCache, catalog,
                     call, got,
                     seen, refused, torn, steady>>
      /\ \E page \in SUBSET sdkRows :
            acc' = [acc EXCEPT ![t] = Sdk!Merged(acc[t], page)]
      /\ \/ /\ sdkOffset' = [sdkOffset EXCEPT ![t] = 0]
            /\ sdkPc' = [sdkPc EXCEPT ![t] = "store"]
         \/ /\ sdkOffset' = [sdkOffset EXCEPT ![t] = sdkOffset[t] + PageSize]
            /\ sdkPc' = sdkPc
  BY DEF Sdk!Page, Sdk!Goto, Sdk!server, Sdk!caches, Sdk!history
<1>2. PICK page \in SUBSET sdkRows : acc' = [acc EXCEPT ![t] = Sdk!Merged(acc[t], page)]
  BY <1>1
<1>3. Sdk!TypeOK /\ ThreadInv(t) /\ RowsInv
  BY DEF SdkInv
<1>4. acc[t] \in [Name -> Sdk!Row \cup {None}]
  BY <1>3, SdkTypes
<1>5. PICK a : a = acc[t]
  OBVIOUS
<1>6. PICK m : m = Sdk!Merged(a, page)
  OBVIOUS
<1>7. \A n \in Name : /\ m[n] \in Sdk!Row \cup {None}
                      /\ m[n] = a[n] \/ (m[n] \in sdkRows /\ m[n].name = n)
  BY <1>3, <1>4, <1>5, <1>6, MergedFact
<1>8. m \in [Name -> Sdk!Row \cup {None}]
  <2>1. m = [n \in Name |-> m[n]]
    BY <1>6 DEF Sdk!Merged
  <2>2. QED
    BY <1>7, <2>1
<1>9. acc' = [acc EXCEPT ![t] = m]
  BY <1>2, <1>5, <1>6
<1>10. acc'[t] = m /\ \A u \in Thread : u # t => acc'[u] = acc[u] /\ sdkPc'[u] = sdkPc[u]
  BY <1>1, <1>3, <1>9 DEF Sdk!TypeOK
<1>11. sdkPc'[t] \in {"page", "store"}
  BY <1>1, <1>3 DEF Sdk!TypeOK
<1>12. Sdk!TypeOK'
  <2>1. acc' \in [Thread -> [Name -> Sdk!Row \cup {None}]]
    BY <1>3, <1>8, <1>9 DEF Sdk!TypeOK
  <2>2. sdkOffset' \in [Thread -> Nat]
    <3>1. PageSize \in Nat
      BY DEF Sdk!SdkOK
    <3>2. sdkOffset[t] + PageSize \in Nat
      BY <1>3, <3>1, SdkTypes
    <3>3. \E k \in {0, sdkOffset[t] + PageSize} : sdkOffset' = [sdkOffset EXCEPT ![t] = k]
      BY <1>1
    <3>4. PICK k \in Nat : sdkOffset' = [sdkOffset EXCEPT ![t] = k]
      BY <3>2, <3>3
    <3>5. sdkOffset \in [Thread -> Nat]
      BY <1>3 DEF Sdk!TypeOK
    <3>6. QED
      BY <3>4, <3>5
  <2>3. sdkPc' \in [Thread -> Places]
    BY <1>1, <1>3 DEF Sdk!TypeOK, Sdk!Ended, Places
  <2>4. QED
    BY <1>1, <1>3, <2>1, <2>2, <2>3 DEF Sdk!TypeOK, Places
<1>13. Shape(t)' /\ Viewed(t)' /\ StillActive(t)'
  BY <1>1, <1>3, <1>5, <1>7, <1>10, <1>11 DEF Viewed, ThreadInv, Shape, StillActive
<1>14. steady # {} => Clean(t)'
  BY <1>1, <1>3, <1>5, <1>7, <1>10, <1>11 DEF ThreadInv, Clean
<1>15. t \in steady => OnCourse(t)'
  BY <1>1, <1>3, <1>11 DEF ThreadInv, OnCourse, Sdk!InFlight, Sdk!Ended, Sdk!Named
<1>16. \A n \in Name : Pending(n) => Pending(n)'
  BY <1>1 DEF Pending
<1>17. RowsInv' /\ Grown
  BY <1>1, <1>3, StillGrown DEF RowsInv
<1>18. QED
  BY <1>1, <1>10, <1>12, <1>13, <1>14, <1>15, <1>16, <1>17, ThreadFrame

LEMMA SdkStore ==
    ASSUME SdkInv, NEW t \in Thread, Sdk!Store(t)
    PROVE  SdkInv'
<1>1. /\ sdkPc[t] = "store" /\ catalog' = acc[t] /\ acc' = [acc EXCEPT ![t] = Sdk!Empty]
      /\ UNCHANGED <<sdkRows, ids, deletes, newest, ruleVersions, sdkEvents, call, sdkOffset,
                     seen, refused, torn,
                     steady>>
      /\ \/ /\ call[t].op = "list" /\ sdkPc' = [sdkPc EXCEPT ![t] = "done"]
            /\ UNCHANGED <<sdkCache, got>>
         \/ /\ call[t].op # "list"
            /\ got' = [got EXCEPT ![t] = acc[t][call[t].name]]
            /\ \/ /\ got'[t] # None
                  /\ sdkCache' = [sdkCache EXCEPT ![call[t].name] = got'[t]]
                  /\ \E l \in {"rule", "done"} :
                        /\ sdkPc' = [sdkPc EXCEPT ![t] = l]
                        /\ l = "rule" => call[t].op = "getOrCreate" /\ call[t].rule
               \/ /\ got'[t] = None /\ sdkCache' = sdkCache
                  /\ sdkPc' = [sdkPc EXCEPT ![t] = IF refused[t] = "no" THEN "post" ELSE "failed"]
  BY DEF Sdk!Store, Sdk!Found, Sdk!Goto, Sdk!server, Sdk!history
<1>2. Sdk!TypeOK /\ ThreadInv(t) /\ RowsInv
  BY DEF SdkInv
<1>3. call[t].name \in Name /\ acc[t] \in [Name -> Sdk!Row \cup {None}]
  BY <1>2, SdkTypes
<1>4. PICK v : v = acc[t][call[t].name]
  OBVIOUS
<1>5. v \in Sdk!Row \cup {None} /\ Good(v)
  BY <1>3, <1>4, ReadGood
<1>6. \A u \in Thread : u # t => /\ sdkPc'[u] = sdkPc[u] /\ got'[u] = got[u]
                                 /\ acc'[u] = acc[u]
  BY <1>1, <1>2 DEF Sdk!TypeOK
<1>7. acc'[t] = Sdk!Empty /\ \A n \in Name : Sdk!Empty[n] = None
  BY <1>1, <1>2 DEF Sdk!TypeOK, Sdk!Empty
<1>8. /\ sdkPc'[t] \in {"rule", "done", "post", "failed"}
      /\ sdkPc'[t] = "rule" => call[t].op = "getOrCreate" /\ call[t].rule
      /\ got'[t] \in {got[t], v}
      /\ call[t].op # "list" => /\ got'[t] = v
                                /\ v = None <=> sdkPc'[t] \in {"post", "failed"}
                                /\ sdkPc'[t] = "failed" => refused[t] # "no"
      /\ sdkPc'[t] = "post" => got'[t] = None
  BY <1>1, <1>2, <1>4 DEF Sdk!TypeOK
<1>9. sdkCache' = sdkCache \/ sdkCache' = [sdkCache EXCEPT ![call[t].name] = v]
  BY <1>1, <1>2, <1>4 DEF Sdk!TypeOK
<1>10. \A n \in Name : sdkCache'[n] \in {sdkCache[n], None} \/ Good(sdkCache'[n])
  BY <1>2, <1>5, <1>9 DEF Sdk!TypeOK
<1>11. \A n \in Name : \/ catalog'[n] = None
                       \/ catalog'[n].name = n /\ Good(catalog'[n])
  <2>1. ASSUME NEW n \in Name PROVE Good(acc[t][n]) /\ (acc[t][n] # None => acc[t][n].name = n)
    BY <2>1, ReadGood
  <2>2. QED
    BY <1>1, <2>1
<1>12. Sdk!TypeOK'
  <2>1. sdkCache' \in [Name -> Sdk!Row \cup {None}]
    BY <1>2, <1>3, <1>5, <1>9 DEF Sdk!TypeOK
  <2>2. sdkPc' \in [Thread -> Places]
    BY <1>1, <1>2 DEF Sdk!TypeOK, Sdk!Ended, Places
  <2>3. got' \in [Thread -> Sdk!Row \cup {None}]
    BY <1>1, <1>2, <1>4, <1>5 DEF Sdk!TypeOK
  <2>4. Sdk!Empty \in [Name -> Sdk!Row \cup {None}]
    BY DEF Sdk!Empty
  <2>5. acc' \in [Thread -> [Name -> Sdk!Row \cup {None}]]
    BY <1>1, <1>2, <2>4 DEF Sdk!TypeOK
  <2>6. QED
    BY <1>1, <1>2, <1>3, <2>1, <2>2, <2>3, <2>5 DEF Sdk!TypeOK, Places
<1>13. Shape(t)' /\ Viewed(t)' /\ StillActive(t)'
  BY <1>1, <1>7, <1>8 DEF Viewed, Shape, StillActive, Sdk!Empty
<1>14. steady # {} => Clean(t)'
  BY <1>1, <1>7, <1>8 DEF Clean
<1>15. t \in steady => OnCourse(t)'
  <2>1. t \in steady => OnCourse(t) /\ Clean(t)
    BY <1>2 DEF ThreadInv
  <2>2. t \in steady => sdkCache'[call[t].name] \in sdkRows \cup {None}
    BY <1>1, <1>2, <1>3, <1>4, <1>9, <2>1
       DEF OnCourse, Clean, Sdk!InFlight, Sdk!Ended, Sdk!TypeOK
  <2>3. QED
    BY <1>1, <1>2, <1>3, <1>4, <1>8, <2>1, <2>2, SdkTypes
       DEF OnCourse, Clean, Sdk!InFlight, Sdk!Ended, Sdk!Named
<1>16. \A n \in Name : Pending(n) => Pending(n)'
  BY <1>1 DEF Pending
<1>17. RowsInv' /\ Grown
  BY <1>1, <1>2, StillGrown DEF RowsInv
<1>18. QED
  BY <1>1, <1>6, <1>10, <1>11, <1>12, <1>13, <1>14, <1>15, <1>16, <1>17, ThreadFrame

LEMMA SdkPost ==
    ASSUME Sdk!SdkOK, SdkInv, NEW t \in Thread, Sdk!Post(t)
    PROVE  SdkInv'
<1>1. /\ sdkPc[t] = "post"
      /\ UNCHANGED <<sdkRows, ids, deletes, newest, ruleVersions, sdkEvents, sdkCache, catalog,
                     call, got, acc, sdkOffset, torn, steady>>
      /\ \E r \in Sdk!Answers(call[t].mode, call[t].name) :
            \/ /\ r # None \/ Sdk!Of(call[t].name) # None
               /\ refused' = [refused EXCEPT ![t] = "found"]
               /\ sdkPc' = [sdkPc EXCEPT ![t] = "again"] /\ seen' = seen
            \/ /\ Sdk!Of(call[t].name) = None
               /\ seen' = [seen EXCEPT ![t] = [row |-> None, version |-> newest[call[t].name]]]
               /\ sdkPc' = [sdkPc EXCEPT ![t] = "create"] /\ refused' = refused
  BY DEF Sdk!Post, Sdk!Goto, Sdk!server, Sdk!caches, Sdk!history
<1>2. Sdk!TypeOK /\ ThreadInv(t) /\ RowsInv
  BY DEF SdkInv
<1>3. call[t].name \in Name /\ newest[call[t].name] \in Nat
  BY <1>2, SdkTypes DEF Sdk!TypeOK
<1>4. \/ /\ refused' = [refused EXCEPT ![t] = "found"]
         /\ sdkPc' = [sdkPc EXCEPT ![t] = "again"] /\ seen' = seen
         /\ call[t].mode = "EXACT" => Sdk!Named(call[t].name) # {}
      \/ /\ seen' = [seen EXCEPT ![t] = [row |-> None, version |-> newest[call[t].name]]]
         /\ sdkPc' = [sdkPc EXCEPT ![t] = "create"] /\ refused' = refused
         /\ Sdk!Named(call[t].name) = {}
  BY <1>1, <1>2, OfFact DEF Sdk!Answers
<1>5. /\ \A u \in Thread : u # t => /\ sdkPc'[u] = sdkPc[u] /\ seen'[u] = seen[u]
                                    /\ refused'[u] = refused[u]
      /\ \/ /\ sdkPc'[t] = "again" /\ refused'[t] = "found"
            /\ call[t].mode = "EXACT" => Sdk!Named(call[t].name) # {}
         \/ /\ sdkPc'[t] = "create" /\ refused'[t] = refused[t]
            /\ seen'[t].version = newest[call[t].name] /\ Sdk!Named(call[t].name) = {}
  BY <1>2, <1>4 DEF Sdk!TypeOK
<1>6. Sdk!TypeOK'
  <2>1. sdkPc' \in [Thread -> Places]
    BY <1>2, <1>4 DEF Sdk!TypeOK, Sdk!Ended, Places
  <2>2. seen' \in [Thread -> [row : Sdk!Row \cup {None}, version : Nat]]
    <3>1. PICK w : w = [row |-> None, version |-> newest[call[t].name]]
      OBVIOUS
    <3>2. w \in [row : Sdk!Row \cup {None}, version : Nat]
      BY <1>3, <3>1
    <3>3. seen' = seen \/ seen' = [seen EXCEPT ![t] = w]
      BY <1>4, <3>1
    <3>4. QED
      BY <1>2, <3>2, <3>3 DEF Sdk!TypeOK
  <2>3. refused' \in [Thread -> {"no", "found", "blocked"}]
    BY <1>2, <1>4 DEF Sdk!TypeOK
  <2>4. QED
    BY <1>1, <1>2, <2>1, <2>2, <2>3 DEF Sdk!TypeOK, Places
<1>7. Shape(t)' /\ StillActive(t)'
  BY <1>1, <1>2, <1>5 DEF ThreadInv, Shape, StillActive, Sdk!Empty
<1>8. Viewed(t)'
  BY <1>1, <1>3, <1>5 DEF Viewed, Sdk!Named
<1>9. steady # {} => Clean(t)'
  BY <1>1, <1>2, <1>5 DEF ThreadInv, Clean
<1>10. t \in steady => OnCourse(t)'
  BY <1>1, <1>2, <1>5 DEF ThreadInv, OnCourse, Sdk!InFlight, Sdk!Ended, Sdk!Named
<1>11. \A n \in Name : Pending(n) => Pending(n)'
  BY <1>1 DEF Pending
<1>12. RowsInv' /\ Grown
  BY <1>1, <1>2, StillGrown DEF RowsInv
<1>13. QED
  BY <1>1, <1>5, <1>6, <1>7, <1>8, <1>9, <1>10, <1>11, <1>12, ThreadFrame

LEMMA SdkCreate ==
    ASSUME Sdk!SdkOK, SdkInv, NEW t \in Thread, Sdk!Create(t)
    PROVE  SdkInv'
<1>1. /\ sdkPc[t] = "create" /\ seen' = [seen EXCEPT ![t] = Sdk!Nothing]
      /\ UNCHANGED <<deletes, ruleVersions, sdkCache, catalog, call, acc, sdkOffset, refused,
                     steady>>
  BY DEF Sdk!Create, Sdk!caches, Sdk!server
<1>2. Sdk!TypeOK /\ ThreadInv(t) /\ RowsInv
  BY DEF SdkInv
<1>3. call[t].name \in Name /\ newest[call[t].name] \in Nat /\ seen[t].version \in Nat
  BY <1>2, SdkTypes DEF Sdk!TypeOK
<1>4. /\ seen'[t] = Sdk!Nothing /\ \A u \in Thread : u # t => seen'[u] = seen[u]
      /\ seen' \in [Thread -> [row : Sdk!Row \cup {None}, version : Nat]]
  BY <1>1, <1>2 DEF Sdk!TypeOK, Sdk!Nothing
<1>5. CASE seen[t].version # newest[call[t].name]
  <2>1. /\ sdkPc' = [sdkPc EXCEPT ![t] = "lost"]
        /\ UNCHANGED <<sdkRows, ids, newest, sdkEvents, got, torn>>
    BY <1>5 DEF Sdk!Create, Sdk!Goto, Sdk!server
  <2>2. sdkPc'[t] = "lost" /\ \A u \in Thread : u # t => sdkPc'[u] = sdkPc[u]
    BY <1>2, <2>1 DEF Sdk!TypeOK
  <2>3. Sdk!TypeOK'
    <3>1. sdkPc' \in [Thread -> Places]
      BY <1>2, <2>1 DEF Sdk!TypeOK, Sdk!Ended, Places
    <3>2. QED
      BY <1>1, <1>2, <1>4, <2>1, <3>1 DEF Sdk!TypeOK, Places
  <2>4. Shape(t)' /\ Viewed(t)' /\ StillActive(t)'
    BY <1>1, <1>2, <2>1, <2>2 DEF ThreadInv, Shape, Viewed, StillActive, Sdk!Empty
  <2>5. steady # {} => Clean(t)'
    BY <1>1, <1>2, <2>1, <2>2 DEF ThreadInv, Clean
  <2>6. t \in steady => OnCourse(t)'
    <3>1. ThreadInv(t) /\ got[t] = None /\ got'[t] = None
      BY <1>1, <1>2, <2>1 DEF ThreadInv, Shape
    <3>2. QED
      BY <1>1, <1>5, <2>1, <2>2, <3>1
         DEF ThreadInv, OnCourse, Sdk!InFlight, Sdk!Ended, Sdk!Named
  <2>7. \A n \in Name : Pending(n) => Pending(n)'
    BY <2>1 DEF Pending
  <2>8. RowsInv' /\ Grown
    BY <1>1, <1>2, <2>1, StillGrown DEF RowsInv
  <2>9. QED
    BY <1>1, <1>4, <2>1, <2>2, <2>3, <2>4, <2>5, <2>6, <2>7, <2>8, ThreadFrame
<1>6. CASE seen[t].version = newest[call[t].name]
  <2>1. PICK v : v = [name |-> call[t].name, id |-> ids + 1]
    OBVIOUS
  <2>2. /\ ids < MaxRows /\ sdkRows' = sdkRows \cup {v} /\ got' = [got EXCEPT ![t] = v]
        /\ ids' = ids + 1
        /\ newest' = [newest EXCEPT ![call[t].name] = newest[call[t].name] + 1]
        /\ sdkEvents' = Append(sdkEvents, call[t].name)
        /\ torn' \in {torn, torn \cup {call[t].name}}
        /\ sdkPc' = [sdkPc EXCEPT ![t] = "kept"]
    BY <1>6, <2>1 DEF Sdk!Create, Sdk!Goto, Sdk!Changed
  <2>3. v \in Sdk!Row /\ v # None /\ v.name = call[t].name /\ ids + 1 \in 0 .. MaxRows
    BY <1>2, <1>3, <2>1, <2>2 DEF Sdk!Row, Sdk!TypeOK, Sdk!SdkOK
  <2>4. /\ sdkPc'[t] = "kept" /\ got'[t] = v
        /\ \A u \in Thread : u # t => sdkPc'[u] = sdkPc[u] /\ got'[u] = got[u]
    BY <1>2, <2>2 DEF Sdk!TypeOK
  <2>5. Sdk!TypeOK'
    <3>1. newest' \in [Name -> Nat]
      BY <1>2, <1>3, <2>2 DEF Sdk!TypeOK
    <3>2. /\ sdkRows' \subseteq Sdk!Row /\ ids' \in 0 .. MaxRows /\ sdkEvents' \in Seq(Name)
          /\ torn' \subseteq Name
      BY <1>2, <1>3, <2>2, <2>3 DEF Sdk!TypeOK
    <3>3. sdkPc' \in [Thread -> Places] /\ got' \in [Thread -> Sdk!Row \cup {None}]
      BY <1>2, <2>2, <2>3 DEF Sdk!TypeOK, Places
    <3>4. QED
      BY <1>1, <1>2, <1>4, <3>1, <3>2, <3>3 DEF Sdk!TypeOK, Places
  <2>6. Shape(t)' /\ Viewed(t)' /\ StillActive(t)'
    BY <1>1, <1>2, <2>2, <2>3, <2>4 DEF ThreadInv, Shape, Viewed, StillActive, Sdk!Empty
  <2>7. steady # {} => Clean(t)'
    BY <1>1, <1>2, <2>2, <2>4 DEF ThreadInv, Clean
  <2>8. t \in steady => OnCourse(t)'
    BY <1>1, <1>2, <2>2, <2>3, <2>4 DEF ThreadInv, OnCourse, Sdk!InFlight, Sdk!Ended, Sdk!Named
  <2>9. \A n \in Name : Pending(n) => Pending(n)'
    <3>1. sdkEvents \in Seq(Name)
      BY <1>2 DEF Sdk!TypeOK
    <3>2. /\ Len(sdkEvents') = Len(sdkEvents) + 1 /\ Len(sdkEvents) \in Nat
          /\ \A i \in 1 .. Len(sdkEvents) : sdkEvents'[i] = sdkEvents[i]
      BY <1>3, <2>2, <3>1, AppendProperties
    <3>3. 1 .. Len(sdkEvents) \subseteq 1 .. Len(sdkEvents')
      BY <3>2
    <3>4. QED
      BY <3>2, <3>3 DEF Pending
  <2>10. RowsInv'
    <3>1. Sdk!Named(call[t].name) = {}
      BY <1>1, <1>2, <1>6 DEF ThreadInv, Viewed
    <3>2. QED
      BY <1>2, <2>2, <2>3, <3>1 DEF RowsInv, Sdk!Named
  <2>11. Grown
    <3>1. ASSUME NEW n \in Name
          PROVE  \/ (newest'[n] = newest[n] /\ Sdk!Named(n)' \subseteq Sdk!Named(n))
                 \/ (newest'[n] = newest[n] + 1 /\ Sdk!Named(n)' # {})
      <4>1. CASE n = call[t].name
        BY <1>2, <1>3, <2>2, <2>3, <4>1 DEF Sdk!TypeOK, Sdk!Named
      <4>2. CASE n # call[t].name
        BY <1>2, <1>3, <2>2, <2>3, <4>2 DEF Sdk!TypeOK, Sdk!Named
      <4>3. QED
        BY <4>1, <4>2
    <3>2. \A i \in 1 .. MaxRows : ruleVersions'[i] >= ruleVersions[i]
      <4>1. \A i \in 1 .. MaxRows : ruleVersions[i] \in Nat
               /\ ruleVersions'[i] = ruleVersions[i]
        BY <1>1, <1>2 DEF Sdk!TypeOK
      <4>2. QED
        BY <4>1
    <3>3. QED
      BY <3>1, <3>2 DEF Grown
  <2>12. QED
    BY <1>1, <1>4, <2>2, <2>4, <2>5, <2>6, <2>7, <2>8, <2>9, <2>10, <2>11, ThreadFrame
<1>7. QED
  BY <1>5, <1>6

LEMMA SdkBlocked ==
    ASSUME SdkInv, NEW t \in Thread, Sdk!Blocked(t)
    PROVE  SdkInv'
<1>1. /\ sdkPc[t] = "create" /\ sdkPc' = [sdkPc EXCEPT ![t] = "again"]
      /\ refused' = [refused EXCEPT ![t] = "blocked"]
      /\ seen' = [seen EXCEPT ![t] = Sdk!Nothing]
      /\ UNCHANGED <<sdkRows, ids, deletes, newest, ruleVersions, sdkEvents, sdkCache, catalog,
                     call, got, acc, sdkOffset, torn, steady>>
  BY DEF Sdk!Blocked, Sdk!Goto, Sdk!server, Sdk!caches, Sdk!history
<1>2. Sdk!TypeOK /\ ThreadInv(t) /\ RowsInv
  BY DEF SdkInv
<1>3. /\ sdkPc'[t] = "again" /\ refused'[t] = "blocked"
      /\ \A u \in Thread : u # t => /\ sdkPc'[u] = sdkPc[u] /\ seen'[u] = seen[u]
                                    /\ refused'[u] = refused[u]
  BY <1>1, <1>2 DEF Sdk!TypeOK
<1>4. Sdk!TypeOK'
  <2>1. sdkPc' \in [Thread -> Places] /\ refused' \in [Thread -> {"no", "found", "blocked"}]
    BY <1>1, <1>2 DEF Sdk!TypeOK, Sdk!Ended, Places
  <2>2. seen' \in [Thread -> [row : Sdk!Row \cup {None}, version : Nat]]
    BY <1>1, <1>2 DEF Sdk!TypeOK, Sdk!Nothing
  <2>3. QED
    BY <1>1, <1>2, <2>1, <2>2 DEF Sdk!TypeOK, Places
<1>5. Shape(t)' /\ Viewed(t)' /\ StillActive(t)'
  BY <1>1, <1>2, <1>3 DEF ThreadInv, Shape, Viewed, StillActive, Sdk!Empty
<1>6. steady # {} => Clean(t)'
  BY <1>1, <1>2, <1>3 DEF ThreadInv, Clean
<1>7. t \in steady => OnCourse(t)'
  BY <1>1, <1>2, <1>3 DEF ThreadInv, OnCourse, Sdk!InFlight, Sdk!Ended, Sdk!Named
<1>8. \A n \in Name : Pending(n) => Pending(n)'
  BY <1>1 DEF Pending
<1>9. RowsInv' /\ Grown
  BY <1>1, <1>2, StillGrown DEF RowsInv
<1>10. QED
  BY <1>1, <1>3, <1>4, <1>5, <1>6, <1>7, <1>8, <1>9, ThreadFrame

LEMMA SdkAgain ==
    ASSUME SdkInv, NEW t \in Thread, Sdk!Again(t)
    PROVE  SdkInv'
<1>1. /\ sdkPc[t] = "again" /\ sdkPc' = [sdkPc EXCEPT ![t] = "look"]
      /\ sdkCache' = [sdkCache EXCEPT ![call[t].name] = None]
      /\ catalog' = IF catalog = None THEN None ELSE [catalog EXCEPT ![call[t].name] = None]
      /\ UNCHANGED <<sdkRows, ids, deletes, newest, ruleVersions, sdkEvents, call, got, acc,
                     sdkOffset, seen,
                     refused, torn, steady>>
  BY DEF Sdk!Again, Sdk!Goto, Sdk!server, Sdk!history
<1>2. Sdk!TypeOK /\ ThreadInv(t) /\ RowsInv
  BY DEF SdkInv
<1>3. call[t].name \in Name
  BY <1>2, SdkTypes
<1>4. /\ sdkPc'[t] = "look" /\ \A u \in Thread : u # t => sdkPc'[u] = sdkPc[u]
      /\ \A n \in Name : sdkCache'[n] \in {sdkCache[n], None}
  BY <1>1, <1>2 DEF Sdk!TypeOK
<1>5. catalog' # None => /\ catalog # None
                         /\ \A n \in Name : catalog'[n] \in {catalog[n], None}
  <2>1. CASE catalog # None
    BY <1>1, <1>2, <2>1 DEF Sdk!TypeOK
  <2>2. QED
    BY <1>1, <2>1
<1>6. Sdk!TypeOK'
  <2>1. catalog' \in [Name -> Sdk!Row \cup {None}] \cup {None}
    BY <1>1, <1>2 DEF Sdk!TypeOK
  <2>2. QED
    BY <1>1, <1>2, <2>1 DEF Sdk!TypeOK, Places
<1>7. Shape(t)' /\ Viewed(t)' /\ StillActive(t)'
  BY <1>1, <1>2, <1>4 DEF Viewed, ThreadInv, Shape, StillActive, Sdk!Empty
<1>8. steady # {} => Clean(t)'
  BY <1>1, <1>2, <1>4 DEF ThreadInv, Clean
<1>9. t \in steady => OnCourse(t)'
  BY <1>1, <1>2, <1>3, <1>4 DEF ThreadInv, OnCourse, Sdk!InFlight, Sdk!Ended, Sdk!Named
<1>10. \A n \in Name : Pending(n) => Pending(n)'
  BY <1>1 DEF Pending
<1>11. RowsInv' /\ Grown
  BY <1>1, <1>2, StillGrown DEF RowsInv
<1>12. QED
  BY <1>1, <1>4, <1>5, <1>6, <1>7, <1>8, <1>9, <1>10, <1>11, ThreadFrame

LEMMA SdkKept ==
    ASSUME SdkInv, NEW t \in Thread, Sdk!Kept(t)
    PROVE  SdkInv'
<1>1. /\ sdkPc[t] = "kept"
      /\ sdkCache' = [sdkCache EXCEPT ![call[t].name] = got[t]]
      /\ catalog' = IF catalog = None THEN None ELSE [catalog EXCEPT ![call[t].name] = got[t]]
      /\ \E l \in {"rule", "done"} :
            /\ sdkPc' = [sdkPc EXCEPT ![t] = l]
            /\ l = "rule" => call[t].op = "getOrCreate" /\ call[t].rule
      /\ UNCHANGED <<sdkRows, ids, deletes, newest, ruleVersions, sdkEvents, call, got, acc,
                     sdkOffset, seen, refused,
                     torn, steady>>
  BY DEF Sdk!Kept, Sdk!Found, Sdk!Goto, Sdk!server, Sdk!history
<1>2. Sdk!TypeOK /\ ThreadInv(t) /\ RowsInv
  BY DEF SdkInv
<1>3. call[t].name \in Name /\ got[t] \in Sdk!Row \cup {None} /\ Good(got[t])
  BY <1>1, <1>2, SdkTypes, HeldGood
<1>4. got[t] # None /\ got[t].name = call[t].name
  BY <1>1, <1>2 DEF ThreadInv, Shape
<1>5. /\ sdkPc'[t] \in {"rule", "done"}
      /\ sdkPc'[t] = "rule" => call[t].op = "getOrCreate" /\ call[t].rule
      /\ sdkCache'[call[t].name] = got[t]
      /\ \A u \in Thread : u # t => sdkPc'[u] = sdkPc[u]
      /\ \A n \in Name : sdkCache'[n] = sdkCache[n] \/ Good(sdkCache'[n])
  BY <1>1, <1>2, <1>3 DEF Sdk!TypeOK
<1>6. catalog' # None =>
        /\ catalog # None
        /\ \A n \in Name : catalog'[n] = catalog[n]
           \/ (catalog'[n].name = n /\ Good(catalog'[n]))
  <2>1. CASE catalog # None
    BY <1>1, <1>2, <1>3, <1>4, <2>1 DEF Sdk!TypeOK
  <2>2. QED
    BY <1>1, <2>1
<1>7. Sdk!TypeOK'
  <2>1. catalog' \in [Name -> Sdk!Row \cup {None}] \cup {None}
    BY <1>1, <1>2, <1>3 DEF Sdk!TypeOK
  <2>2. sdkPc' \in [Thread -> Places]
    BY <1>1, <1>2 DEF Sdk!TypeOK, Sdk!Ended, Places
  <2>3. sdkCache' \in [Name -> Sdk!Row \cup {None}]
    BY <1>1, <1>2, <1>3 DEF Sdk!TypeOK
  <2>4. QED
    BY <1>1, <1>2, <2>1, <2>2, <2>3 DEF Sdk!TypeOK, Places
<1>8. Shape(t)' /\ Viewed(t)' /\ StillActive(t)'
  BY <1>1, <1>2, <1>5 DEF Viewed, ThreadInv, Shape, StillActive, Sdk!Empty
<1>9. steady # {} => Clean(t)'
  BY <1>1, <1>2, <1>5 DEF ThreadInv, Clean
<1>10. t \in steady => OnCourse(t)'
  BY <1>1, <1>2, <1>4, <1>5 DEF ThreadInv, OnCourse, Sdk!InFlight, Sdk!Ended, Sdk!Named
<1>11. \A n \in Name : Pending(n) => Pending(n)'
  BY <1>1 DEF Pending
<1>12. RowsInv' /\ Grown
  BY <1>1, <1>2, StillGrown DEF RowsInv
<1>13. QED
  BY <1>1, <1>5, <1>6, <1>7, <1>8, <1>9, <1>10, <1>11, <1>12, ThreadFrame

LEMMA SdkRule ==
    ASSUME Sdk!SdkOK, SdkInv, NEW t \in Thread, Sdk!Rule(t) \/ Sdk!NewRule(t)
    PROVE  SdkInv'
<1>1. /\ sdkPc[t] \in {"rule", "newRule"}
      /\ \/ /\ seen' = seen
            /\ \E l \in {"failed", "done", "newRule"} :
                  /\ sdkPc' = [sdkPc EXCEPT ![t] = l]
                  /\ l = "failed" => Sdk!Of(call[t].name) = None
         \/ /\ sdkPc' = [sdkPc EXCEPT ![t] = "addRule"] /\ Sdk!Of(call[t].name) # None
            /\ seen' = [seen EXCEPT ![t] =
                  [row |-> Sdk!Of(call[t].name),
                   version |-> ruleVersions[Sdk!Of(call[t].name).id]]]
      /\ UNCHANGED <<sdkRows, ids, deletes, newest, ruleVersions, sdkEvents, sdkCache, catalog,
                     call, got, acc, sdkOffset, refused, torn, steady>>
  BY DEF Sdk!Rule, Sdk!NewRule, Sdk!Goto, Sdk!server, Sdk!caches, Sdk!history
<1>2. Sdk!TypeOK /\ ThreadInv(t) /\ RowsInv
  BY DEF SdkInv
<1>3. PICK r : r = Sdk!Of(call[t].name)
  OBVIOUS
<1>4. /\ r \in sdkRows \cup {None} /\ (r # None => r \in Sdk!Named(call[t].name))
      /\ r = None => Sdk!Named(call[t].name) = {}
      /\ r # None => r \in Sdk!Row /\ r.id \in 1 .. MaxRows /\ ruleVersions[r.id] \in Nat
  BY <1>2, <1>3, OfFact DEF Sdk!TypeOK, Sdk!Row, Sdk!Named
<1>5. /\ \A u \in Thread : u # t => sdkPc'[u] = sdkPc[u] /\ seen'[u] = seen[u]
      /\ \/ /\ sdkPc'[t] \in {"failed", "done", "newRule"} /\ seen' = seen
            /\ sdkPc'[t] = "failed" => Sdk!Named(call[t].name) = {}
         \/ /\ sdkPc'[t] = "addRule" /\ r # None
            /\ seen'[t] = [row |-> r, version |-> ruleVersions[r.id]]
  BY <1>1, <1>2, <1>3, <1>4 DEF Sdk!TypeOK
<1>6. Sdk!TypeOK'
  <2>1. sdkPc' \in [Thread -> Places]
    BY <1>1, <1>2 DEF Sdk!TypeOK, Sdk!Ended, Places
  <2>2. seen' \in [Thread -> [row : Sdk!Row \cup {None}, version : Nat]]
    <3>1. PICK w : w = [row |-> r, version |-> ruleVersions[r.id]]
      OBVIOUS
    <3>2. r # None => w \in [row : Sdk!Row \cup {None}, version : Nat]
      BY <1>4, <3>1
    <3>3. seen' = seen \/ (r # None /\ seen' = [seen EXCEPT ![t] = w])
      BY <1>1, <1>3, <3>1
    <3>4. QED
      BY <1>2, <3>2, <3>3 DEF Sdk!TypeOK
  <2>3. QED
    BY <1>1, <1>2, <2>1, <2>2 DEF Sdk!TypeOK, Places
<1>7. Shape(t)' /\ Viewed(t)' /\ StillActive(t)'
  BY <1>1, <1>2, <1>5 DEF ThreadInv, Shape, Viewed, StillActive, Sdk!Empty
<1>8. steady # {} => Clean(t)'
  BY <1>1, <1>2, <1>5 DEF ThreadInv, Clean
<1>9. t \in steady => OnCourse(t)'
  <2>1. Shape(t) /\ (t \in steady => OnCourse(t))
    BY <1>2 DEF ThreadInv
  <2>2. call[t].op = "getOrCreate" /\ call[t].rule
    BY <1>1, <2>1 DEF Shape
  <2>3. sdkPc'[t] = "failed" /\ got[t] \in sdkRows => got[t].name # call[t].name
    BY <1>5 DEF Sdk!Named
  <2>4. sdkPc'[t] = "addRule" => /\ seen'[t].row \in Sdk!Named(call[t].name)
                                /\ seen'[t].version <= ruleVersions[seen'[t].row.id]
    BY <1>4, <1>5
  <2>5. Sdk!Named(call[t].name)' = Sdk!Named(call[t].name)
    BY <1>1 DEF Sdk!Named
  <2>6. QED
    BY <1>1, <1>5, <2>1, <2>2, <2>3, <2>4, <2>5 DEF OnCourse, Sdk!InFlight, Sdk!Ended
<1>10. \A n \in Name : Pending(n) => Pending(n)'
  BY <1>1 DEF Pending
<1>11. RowsInv' /\ Grown
  BY <1>1, <1>2, StillGrown DEF RowsInv
<1>12. QED
  BY <1>1, <1>5, <1>6, <1>7, <1>8, <1>9, <1>10, <1>11, ThreadFrame

LEMMA SdkAddRule ==
    ASSUME SdkInv, NEW t \in Thread, Sdk!AddRule(t)
    PROVE  SdkInv'
<1>1. PICK i : i = seen[t].row.id
  OBVIOUS
<1>2. /\ sdkPc[t] = "addRule" /\ seen' = [seen EXCEPT ![t] = Sdk!Nothing]
      /\ \/ /\ seen[t].version # ruleVersions[i] /\ ruleVersions' = ruleVersions
            /\ sdkPc' = [sdkPc EXCEPT ![t] = "lost"]
         \/ /\ sdkPc' = [sdkPc EXCEPT ![t] = "done"]
            /\ ruleVersions' = [ruleVersions EXCEPT ![i] = ruleVersions[i] + 1]
      /\ UNCHANGED <<sdkRows, ids, deletes, newest, sdkEvents, sdkCache, catalog, call, got,
                     acc, sdkOffset, refused, torn, steady>>
  BY <1>1 DEF Sdk!AddRule, Sdk!Goto, Sdk!caches, Sdk!history
<1>3. Sdk!TypeOK /\ ThreadInv(t) /\ RowsInv
  BY DEF SdkInv
<1>4. i \in 1 .. MaxRows /\ ruleVersions[i] \in Nat /\ seen[t].version \in Nat
  <2>1. seen[t].row # None /\ seen[t].row \in Sdk!Row \cup {None} /\ seen[t].version \in Nat
    BY <1>2, <1>3, SdkTypes DEF ThreadInv, Shape
  <2>2. QED
    BY <1>1, <1>3, <2>1 DEF Sdk!Row, Sdk!TypeOK
<1>5. ruleVersions' \in [1 .. MaxRows -> Nat]
         /\ \A k \in 1 .. MaxRows : ruleVersions'[k] >= ruleVersions[k]
  <2>1. ruleVersions \in [1 .. MaxRows -> Nat]
           /\ \A k \in 1 .. MaxRows : ruleVersions[k] \in Nat
    BY <1>3 DEF Sdk!TypeOK
  <2>2. CASE ruleVersions' = ruleVersions
    BY <2>1, <2>2
  <2>3. CASE ruleVersions' = [ruleVersions EXCEPT ![i] = ruleVersions[i] + 1]
    <3>1. ruleVersions' \in [1 .. MaxRows -> Nat]
      BY <1>4, <2>1, <2>3
    <3>2. \A k \in 1 .. MaxRows :
             ruleVersions'[k] = IF k = i THEN ruleVersions[k] + 1 ELSE ruleVersions[k]
      BY <1>4, <2>1, <2>3
    <3>3. QED
      BY <2>1, <3>1, <3>2
  <2>4. QED
    BY <1>2, <2>2, <2>3
<1>6. /\ sdkPc'[t] \in {"lost", "done"}
         /\ (sdkPc'[t] = "lost" => seen[t].version # ruleVersions[i])
      /\ sdkPc'[t] = "lost" => ruleVersions' = ruleVersions
      /\ \A u \in Thread : u # t => sdkPc'[u] = sdkPc[u] /\ seen'[u] = seen[u]
  BY <1>2, <1>3 DEF Sdk!TypeOK
<1>7. Sdk!TypeOK'
  <2>1. sdkPc' \in [Thread -> Places]
    BY <1>2, <1>3 DEF Sdk!TypeOK, Sdk!Ended, Places
  <2>2. seen' \in [Thread -> [row : Sdk!Row \cup {None}, version : Nat]]
    BY <1>2, <1>3 DEF Sdk!TypeOK, Sdk!Nothing
  <2>3. QED
    BY <1>2, <1>3, <1>5, <2>1, <2>2 DEF Sdk!TypeOK, Places
<1>8. Shape(t)' /\ Viewed(t)' /\ StillActive(t)'
  BY <1>2, <1>3, <1>6 DEF ThreadInv, Shape, Viewed, StillActive, Sdk!Empty
<1>9. steady # {} => Clean(t)'
  BY <1>2, <1>3, <1>6 DEF ThreadInv, Clean
<1>10. t \in steady => OnCourse(t)'
  <2>1. SUFFICES ASSUME t \in steady PROVE OnCourse(t)'
    OBVIOUS
  <2>2. OnCourse(t)
    BY <1>3, <2>1 DEF ThreadInv
  <2>3. Sdk!Named(call[t].name)' = Sdk!Named(call[t].name)
    BY <1>2 DEF Sdk!Named
  <2>4. ASSUME call[t].op = "getOrCreate", call[t].mode = "EXACT", sdkPc'[t] = "lost"
        PROVE  \E r \in Sdk!Named(call[t].name) : ruleVersions'[r.id] > 0
    <3>1. seen[t].row \in Sdk!Named(call[t].name) /\ seen[t].version <= ruleVersions[i]
      BY <1>1, <1>2, <2>2, <2>4 DEF OnCourse
    <3>2. ruleVersions'[i] > 0
      BY <1>4, <1>6, <2>4, <3>1
    <3>3. QED
      BY <1>1, <3>1, <3>2
  <2>5. QED
    BY <1>2, <1>6, <2>2, <2>3, <2>4 DEF OnCourse, Sdk!InFlight, Sdk!Ended
<1>11. \A n \in Name : Pending(n) => Pending(n)'
  BY <1>2 DEF Pending
<1>12. RowsInv' /\ Grown
  BY <1>2, <1>3, <1>5 DEF RowsInv, Grown, Sdk!Named
<1>13. QED
  BY <1>2, <1>6, <1>7, <1>8, <1>9, <1>10, <1>11, <1>12, ThreadFrame

LEMMA SdkFail ==
    ASSUME SdkInv, NEW t \in Thread, Sdk!Fail(t)
    PROVE  SdkInv'
<1>1. /\ sdkPc[t] \notin {"idle", "keep", "kept"} /\ sdkPc' = [sdkPc EXCEPT ![t] = "failed"]
      /\ acc' = [acc EXCEPT ![t] = Sdk!Empty] /\ sdkOffset' = [sdkOffset EXCEPT ![t] = 0]
      /\ seen' = [seen EXCEPT ![t] = Sdk!Nothing] /\ steady' = steady \ {t}
      /\ UNCHANGED <<sdkRows, ids, deletes, newest, ruleVersions, sdkEvents, sdkCache, catalog,
                     call, got,
                     refused, torn>>
  BY DEF Sdk!Fail, Sdk!Goto, Sdk!server, Sdk!caches
<1>2. Sdk!TypeOK /\ ThreadInv(t) /\ RowsInv
  BY DEF SdkInv
<1>3. Sdk!Empty \in [Name -> Sdk!Row \cup {None}] /\ \A n \in Name : Sdk!Empty[n] = None
  BY DEF Sdk!Empty
<1>4. /\ sdkPc'[t] = "failed" /\ acc'[t] = Sdk!Empty
      /\ \A u \in Thread : u # t => /\ sdkPc'[u] = sdkPc[u] /\ acc'[u] = acc[u]
                                    /\ seen'[u] = seen[u]
  BY <1>1, <1>2 DEF Sdk!TypeOK
<1>5. Sdk!TypeOK'
  <2>1. seen' \in [Thread -> [row : Sdk!Row \cup {None}, version : Nat]]
    BY <1>1, <1>2 DEF Sdk!TypeOK, Sdk!Nothing
  <2>2. QED
    BY <1>1, <1>2, <1>3, <2>1 DEF Sdk!TypeOK, Sdk!Ended
<1>6. Shape(t)' /\ Viewed(t)' /\ StillActive(t)' /\ Clean(t)'
  <2>1. Shape(t)'
    BY <1>3, <1>4 DEF Shape, Sdk!Empty
  <2>2. QED
    BY <1>3, <1>4, <2>1 DEF Viewed, StillActive, Clean
<1>7. \A n \in Name : Pending(n) => Pending(n)'
  BY <1>1 DEF Pending
<1>8. RowsInv' /\ Grown
  BY <1>1, <1>2, StillGrown DEF RowsInv
<1>9. QED
  BY <1>1, <1>4, <1>5, <1>6, <1>7, <1>8, ThreadFrame

\* Who is the first undisturbed caller began while nobody was in flight.
LEMMA SdkBegin ==
    ASSUME SdkInv, NEW t \in Thread, NEW c \in Sdk!Call,
           Sdk!Begin(t, c.op, c.name, c.mode, c.rule)
    PROVE  SdkInv'
<1>1. /\ sdkPc[t] = "idle"
      /\ call' = [call EXCEPT ![t] = [op |-> c.op, name |-> c.name, mode |-> c.mode,
                                      rule |-> c.rule]]
      /\ sdkPc' = [sdkPc EXCEPT ![t] = IF c.op # "list" THEN "look"
                                       ELSE IF catalog # None THEN "done" ELSE "page"]
      /\ steady' = IF /\ sdkCache[c.name] \in sdkRows \cup {None}
                      /\ \A u \in Thread : Sdk!InFlight(u) => u \in steady
                   THEN steady \cup {t} ELSE steady
      /\ UNCHANGED <<sdkRows, ids, deletes, newest, ruleVersions, sdkEvents, sdkCache, catalog,
                     got, acc,
                     sdkOffset, seen, refused, torn>>
  BY DEF Sdk!Begin, Sdk!Goto, Sdk!server, Sdk!caches
<1>2. PICK k : k = [op |-> c.op, name |-> c.name, mode |-> c.mode, rule |-> c.rule]
  OBVIOUS
<1>3. k = c
  BY <1>2 DEF Sdk!Call
<1>4. call' = [call EXCEPT ![t] = c]
  BY <1>1, <1>2, <1>3
<1>5. Sdk!TypeOK /\ ThreadInv(t) /\ RowsInv /\ CopyInv
  BY DEF SdkInv
<1>6. /\ call'[t] = c /\ sdkPc'[t] \in {"look", "done", "page"}
      /\ c.op # "list" => sdkPc'[t] = "look"
      /\ \A u \in Thread : u # t => sdkPc'[u] = sdkPc[u] /\ call'[u] = call[u]
  BY <1>1, <1>4, <1>5 DEF Sdk!TypeOK
<1>7. got[t] = None /\ refused[t] = "no" /\ acc[t] = Sdk!Empty
  BY <1>1, <1>5 DEF ThreadInv, Shape
<1>8. \A n \in Name : Sdk!Empty[n] = None
  BY DEF Sdk!Empty
<1>9. Sdk!TypeOK'
  <2>1. sdkPc' \in [Thread -> Places]
    BY <1>1, <1>5 DEF Sdk!TypeOK, Sdk!Ended, Places
  <2>2. steady' \subseteq Thread
    BY <1>1, <1>5 DEF Sdk!TypeOK
  <2>3. call' \in [Thread -> Sdk!Call]
    BY <1>4, <1>5 DEF Sdk!TypeOK
  <2>4. QED
    BY <1>1, <1>5, <2>1, <2>2, <2>3 DEF Sdk!TypeOK, Places
<1>10. RowsInv'
  BY <1>1, <1>5 DEF RowsInv
<1>11. CopyInv'
  BY <1>1, <1>5 DEF CopyInv, Pending
<1>12. ASSUME NEW u \in Thread PROVE ThreadInv(u)'
  <2>1. ThreadInv(u)
    BY DEF SdkInv
  <2>2. Shape(u)'
    <3>1. CASE u = t
      BY <1>1, <1>6, <1>7, <1>8, <3>1 DEF Shape, Sdk!Empty
    <3>2. CASE u # t
      BY <1>1, <1>6, <2>1, <3>2 DEF ThreadInv, Shape, Sdk!Empty
    <3>3. QED
      BY <3>1, <3>2
  <2>3. StillActive(u)'
    <3>1. CASE u = t
      BY <1>1, <1>6, <1>7, <1>8, <3>1 DEF StillActive
    <3>2. CASE u # t
      BY <1>1, <1>6, <2>1, <3>2 DEF ThreadInv, StillActive
    <3>3. QED
      BY <3>1, <3>2
  <2>4. steady' # {} => Clean(u)'
    <3>1. CASE u = t
      BY <1>1, <1>6, <1>7, <1>8, <3>1 DEF Clean
    <3>2. CASE u # t /\ steady # {}
      BY <1>1, <1>6, <2>1, <3>2 DEF ThreadInv, Clean
    <3>3. CASE u # t /\ steady = {} /\ steady' # {}
      <4>1. ~ Sdk!InFlight(u)
        BY <1>1, <3>3
      <4>2. acc[u] = Sdk!Empty /\ sdkPc[u] \notin {"keep", "kept"}
        BY <2>1, <4>1 DEF ThreadInv, Shape, Sdk!InFlight, Sdk!Ended
      <4>3. QED
        BY <1>1, <1>6, <1>8, <3>3, <4>2 DEF Clean
    <3>4. QED
      BY <3>1, <3>2, <3>3
  <2>5. ASSUME u \in steady' PROVE OnCourse(u)'
    <3>1. CASE u = t
      <4>1. t \notin steady
        BY <1>1, <1>5 DEF ThreadInv, OnCourse
      <4>2. sdkCache[c.name] \in sdkRows \cup {None}
        BY <1>1, <2>5, <3>1, <4>1
      <4>3. QED
        BY <1>1, <1>6, <1>7, <3>1, <4>2 DEF OnCourse
    <3>2. CASE u # t
      <4>1. OnCourse(u)
        BY <1>1, <2>1, <2>5, <3>2 DEF ThreadInv
      <4>2. QED
        BY <1>1, <1>6, <3>2, <4>1 DEF OnCourse, Sdk!InFlight, Sdk!Ended, Sdk!Named
    <3>3. QED
      BY <3>1, <3>2
  <2>6. Viewed(u)'
    <3>1. CASE u = t
      BY <1>6, <3>1 DEF Viewed
    <3>2. CASE u # t
      BY <1>1, <1>6, <2>1, <3>2 DEF ThreadInv, Viewed, Sdk!Named
    <3>3. QED
      BY <3>1, <3>2
  <2>7. QED
    BY <2>2, <2>3, <2>4, <2>5, <2>6 DEF ThreadInv
<1>13. QED
  BY <1>9, <1>10, <1>11, <1>12 DEF SdkInv

\* A change of n by somebody else: a thread that holds an answer on n makes n torn.
LEMMA SdkChange ==
    ASSUME SdkInv, NEW n \in Name, Sdk!TypeOK', RowsInv', Grown,
           \A r \in sdkRows : r.name # n => r \in sdkRows', Sdk!Changed(n, {}),
           steady' = {},
           UNCHANGED <<sdkCache, catalog, sdkPc, call, got, acc, sdkOffset, seen, refused>>
    PROVE  SdkInv'
<1>1. /\ sdkEvents' = Append(sdkEvents, n)
      /\ torn \subseteq torn' /\ (Sdk!Holding(n) # {} => n \in torn')
  BY DEF Sdk!Changed
<1>2. Sdk!TypeOK /\ CopyInv
  BY DEF SdkInv
<1>3. Pending(n)' /\ \A m \in Name : Pending(m) => Pending(m)'
  <2>1. sdkEvents \in Seq(Name)
    BY <1>2 DEF Sdk!TypeOK
  <2>2. /\ Len(sdkEvents') = Len(sdkEvents) + 1 /\ Len(sdkEvents) \in Nat
        /\ sdkEvents'[Len(sdkEvents) + 1] = n
        /\ \A i \in 1 .. Len(sdkEvents) : sdkEvents'[i] = sdkEvents[i]
    BY <1>1, <2>1, AppendProperties
  <2>3. Len(sdkEvents') \in 1 .. Len(sdkEvents')
           /\ 1 .. Len(sdkEvents) \subseteq 1 .. Len(sdkEvents')
    BY <2>2
  <2>4. QED
    BY <2>2, <2>3 DEF Pending
<1>4. CopyInv'
  <2>1. ASSUME NEW m \in Name, m \notin torn'
        PROVE  /\ sdkCache[m] # None /\ sdkCache[m].name = m
                     => sdkCache[m] \in sdkRows' \/ Pending(m)'
               /\ catalog # None /\ catalog[m] # None => catalog[m] \in sdkRows' \/ Pending(m)'
    BY <1>1, <1>2, <1>3, <2>1 DEF CopyInv
  <2>2. QED
    BY <1>2, <2>1 DEF CopyInv
<1>5. ASSUME NEW u \in Thread PROVE ThreadInv(u)'
  <2>1. Shape(u) /\ StillActive(u)
    BY DEF SdkInv, ThreadInv
  <2>2. Shape(u)'
    BY <2>1 DEF Shape, Sdk!Empty
  <2>3. ASSUME sdkPc[u] \in {"keep", "kept"}, got[u] # None, got[u].name \notin torn'
        PROVE  got[u] \in sdkRows'
    <3>1. got[u].name # n
      BY <1>1, <2>3 DEF Sdk!Holding
    <3>2. QED
      BY <1>1, <2>1, <2>3, <3>1 DEF StillActive
  <2>4. ASSUME NEW m \in Name, m \notin torn', acc[u][m] # None
        PROVE  acc[u][m] \in sdkRows'
    <3>1. u \in Sdk!Listing
      BY <2>1, <2>4 DEF Shape, Sdk!Listing, Sdk!Empty
    <3>2. m # n
      BY <1>1, <2>4, <3>1 DEF Sdk!Holding
    <3>3. QED
      BY <1>1, <2>1, <2>4, <3>2 DEF StillActive, Shape
  <2>5. StillActive(u)'
    BY <2>3, <2>4 DEF StillActive
  <2>6. QED
    BY <1>2, <2>2, <2>5, ViewedFrame DEF SdkInv, ThreadInv
<1>6. QED
  BY <1>4, <1>5 DEF SdkInv

LEMMA SdkUpsert ==
    ASSUME Sdk!SdkOK, SdkInv, NEW n \in Name, Sdk!Upsert(n)
    PROVE  SdkInv'
<1>1. /\ ids < MaxRows /\ ids' = ids + 1 /\ Sdk!Changed(n, {}) /\ steady' = {}
      /\ newest' = [newest EXCEPT ![n] = newest[n] + 1]
      /\ sdkRows' = (sdkRows \ Sdk!Named(n)) \cup {[name |-> n, id |-> ids + 1]}
      /\ UNCHANGED <<deletes, ruleVersions, sdkCache, catalog, sdkPc, call, got, acc, sdkOffset,
                     seen, refused>>
  BY DEF Sdk!Upsert, Sdk!caches, Sdk!thread
<1>2. Sdk!TypeOK /\ RowsInv
  BY DEF SdkInv
<1>3. PICK v : v = [name |-> n, id |-> ids + 1]
  OBVIOUS
<1>4. v \in Sdk!Row /\ v.name = n /\ ids + 1 \in 0 .. MaxRows
  BY <1>1, <1>2, <1>3 DEF Sdk!Row, Sdk!TypeOK, Sdk!SdkOK
<1>5. sdkRows' = (sdkRows \ Sdk!Named(n)) \cup {v}
  BY <1>1, <1>3
<1>6. RowsInv'
  BY <1>2, <1>4, <1>5 DEF RowsInv, Sdk!Named
<1>7. \A r \in sdkRows : r.name # n => r \in sdkRows'
  BY <1>5 DEF Sdk!Named
<1>8. Sdk!TypeOK'
  <2>1. newest' \in [Name -> Nat]
    BY <1>1, <1>2 DEF Sdk!TypeOK
  <2>2. QED
    BY <1>1, <1>2, <1>4, <1>5, <2>1 DEF Sdk!TypeOK, Sdk!Changed, Places
<1>9. Grown
  <2>1. ASSUME NEW m \in Name
        PROVE  \/ (newest'[m] = newest[m] /\ Sdk!Named(m)' \subseteq Sdk!Named(m))
               \/ (newest'[m] = newest[m] + 1 /\ Sdk!Named(m)' # {})
    <3>1. CASE m = n
      BY <1>1, <1>2, <1>4, <1>5, <3>1 DEF Sdk!TypeOK, Sdk!Named
    <3>2. CASE m # n
      BY <1>1, <1>2, <1>4, <1>5, <3>2 DEF Sdk!TypeOK, Sdk!Named
    <3>3. QED
      BY <3>1, <3>2
  <2>2. QED
    BY <1>1, <1>2, <2>1 DEF Grown, Sdk!TypeOK
<1>10. QED
  BY <1>1, <1>6, <1>7, <1>8, <1>9, SdkChange

LEMMA SdkDelete ==
    ASSUME Sdk!SdkOK, SdkInv, NEW n \in Name, Sdk!Delete(n)
    PROVE  SdkInv'
<1>1. /\ deletes < MaxDeletes /\ deletes' = deletes + 1 /\ Sdk!Changed(n, {}) /\ steady' = {}
      /\ sdkRows' = sdkRows \ Sdk!Named(n)
      /\ UNCHANGED <<ids, newest, ruleVersions, sdkCache, catalog, sdkPc, call, got, acc,
                     sdkOffset,
                     seen, refused>>
  BY DEF Sdk!Delete, Sdk!caches, Sdk!thread
<1>2. Sdk!TypeOK /\ RowsInv
  BY DEF SdkInv
<1>3. RowsInv'
  BY <1>1, <1>2 DEF RowsInv
<1>4. \A r \in sdkRows : r.name # n => r \in sdkRows'
  BY <1>1 DEF Sdk!Named
<1>5. Sdk!TypeOK'
  BY <1>1, <1>2 DEF Sdk!TypeOK, Sdk!Changed, Sdk!SdkOK
<1>6. Grown
  BY <1>1, <1>2 DEF Grown, Sdk!TypeOK, Sdk!Named
<1>7. QED
  BY <1>1, <1>3, <1>4, <1>5, <1>6, SdkChange

\* The watcher drops what is cached of h, which nobody holds if h is no longer torn.
LEMMA SdkWatch ==
    ASSUME SdkInv, Sdk!Watch
    PROVE  SdkInv'
<1>1. PICK h : h = Head(sdkEvents)
  OBVIOUS
<1>2. /\ sdkEvents # <<>> /\ sdkEvents' = Tail(sdkEvents)
      /\ sdkCache' = [sdkCache EXCEPT ![h] = None] /\ catalog' = None
      /\ torn' \subseteq torn /\ \A m \in torn : m \in torn' \/ (m = h /\ Sdk!Holding(h) = {})
      /\ UNCHANGED <<sdkRows, ids, deletes, newest, ruleVersions, sdkPc, call, got, acc,
                     sdkOffset, seen,
                     refused, steady>>
  BY <1>1 DEF Sdk!Watch, Sdk!thread
<1>3. Sdk!TypeOK /\ RowsInv /\ CopyInv
  BY DEF SdkInv
<1>4. sdkEvents \in Seq(Name)
  BY <1>3 DEF Sdk!TypeOK
<1>5. /\ h \in Name /\ sdkEvents' \in Seq(Name) /\ Len(sdkEvents') = Len(sdkEvents) - 1
      /\ \A i \in 1 .. Len(sdkEvents') : sdkEvents'[i] = sdkEvents[i + 1]
      /\ h = sdkEvents[1] /\ Len(sdkEvents) \in Nat
  BY <1>1, <1>2, <1>4, HeadTailProperties
<1>6. \A m \in Name : Pending(m) /\ m # h => Pending(m)'
  <2>1. ASSUME NEW m \in Name, m # h, NEW i \in 1 .. Len(sdkEvents), sdkEvents[i] = m
        PROVE  Pending(m)'
    <3>1. i # 1
      BY <1>5, <2>1
    <3>2. i - 1 \in 1 .. Len(sdkEvents') /\ (i - 1) + 1 = i
      BY <1>5, <3>1
    <3>3. sdkEvents'[i - 1] = m
      BY <1>5, <2>1, <3>2
    <3>4. QED
      BY <3>2, <3>3 DEF Pending
  <2>2. QED
    BY <2>1 DEF Pending
<1>7. \A m \in Name : sdkCache'[m] = IF m = h THEN None ELSE sdkCache[m]
  BY <1>2, <1>3 DEF Sdk!TypeOK
<1>8. CopyInv'
  BY <1>2, <1>3, <1>6, <1>7 DEF CopyInv
<1>9. Sdk!TypeOK'
  BY <1>2, <1>3, <1>5 DEF Sdk!TypeOK
<1>10. RowsInv'
  BY <1>2, <1>3 DEF RowsInv
<1>11. ASSUME NEW u \in Thread PROVE ThreadInv(u)'
  <2>1. ThreadInv(u)
    BY DEF SdkInv
  <2>2. Shape(u)'
    BY <1>2, <2>1 DEF ThreadInv, Shape, Sdk!Empty
  <2>3. StillActive(u)'
    <3>1. StillActive(u) /\ Shape(u)
      BY <2>1 DEF ThreadInv
    <3>2. ASSUME sdkPc[u] \in {"keep", "kept"}, got[u] # None, got[u].name \notin torn'
          PROVE  got[u].name \notin torn
      BY <1>2, <3>2 DEF Sdk!Holding
    <3>3. ASSUME NEW m \in Name, m \notin torn', acc[u][m] # None
          PROVE  m \notin torn
      <4>1. u \in Sdk!Listing
        BY <3>1, <3>3 DEF Shape, Sdk!Listing, Sdk!Empty
      <4>2. QED
        BY <1>2, <3>3, <4>1 DEF Sdk!Holding
    <3>4. QED
      BY <1>2, <3>1, <3>2, <3>3 DEF StillActive
  <2>4. steady' # {} => Clean(u)'
    BY <1>2, <2>1 DEF ThreadInv, Clean
  <2>5. ASSUME u \in steady' PROVE OnCourse(u)'
    <3>1. OnCourse(u)
      BY <1>2, <2>1, <2>5 DEF ThreadInv
    <3>2. call[u].name \in Name
      BY <1>3, SdkTypes
    <3>3. sdkCache'[call[u].name] \in {sdkCache[call[u].name], None}
      BY <1>7, <3>2
    <3>4. QED
      BY <1>2, <3>1, <3>3 DEF OnCourse, Sdk!InFlight, Sdk!Ended, Sdk!Named
  <2>6. Viewed(u)'
    BY <1>2, <2>1 DEF ThreadInv, Viewed, Sdk!Named
  <2>7. QED
    BY <2>2, <2>3, <2>4, <2>5, <2>6 DEF ThreadInv
<1>12. QED
  BY <1>8, <1>9, <1>10, <1>11 DEF SdkInv

LEMMA NextSdk ==
    ASSUME Sdk!SdkOK, SdkInv, [Sdk!Next]_sdkVars
    PROVE  SdkInv'
<1>1. ASSUME NEW n \in Name, Sdk!Upsert(n) \/ Sdk!Delete(n) PROVE SdkInv'
  BY <1>1, SdkUpsert, SdkDelete
<1>2. CASE Sdk!Watch
  BY <1>2, SdkWatch
<1>3. ASSUME NEW t \in Thread, NEW c \in Calls, Sdk!Begin(t, c.op, c.name, c.mode, c.rule)
      PROVE  SdkInv'
  BY <1>3, SdkBegin DEF Sdk!SdkOK
<1>4. ASSUME NEW t \in Thread, Sdk!Look(t) \/ Sdk!Ask(t) \/ Sdk!Keep(t) \/ Sdk!Page(t)
      PROVE  SdkInv'
  BY <1>4, SdkLook, SdkAsk, SdkKeep, SdkPage
<1>5. ASSUME NEW t \in Thread,
             \/ Sdk!Store(t) \/ Sdk!Post(t) \/ Sdk!Create(t) \/ Sdk!Blocked(t)
             \/ Sdk!Again(t) \/ Sdk!Kept(t)
      PROVE  SdkInv'
  BY <1>5, SdkStore, SdkPost, SdkCreate, SdkBlocked, SdkAgain, SdkKept
<1>6. ASSUME NEW t \in Thread,
             Sdk!Rule(t) \/ Sdk!NewRule(t) \/ Sdk!AddRule(t) \/ Sdk!Fail(t)
      PROVE  SdkInv'
  BY <1>6, SdkRule, SdkAddRule, SdkFail
<1>7. CASE UNCHANGED sdkVars
  <2>1. UNCHANGED <<sdkRows, ids, deletes, newest, ruleVersions, sdkEvents, sdkCache, catalog,
                    sdkPc, call,
                    got, acc, sdkOffset, seen, refused, torn, steady>>
    BY <1>7 DEF sdkVars
  <2>2. Sdk!TypeOK' /\ RowsInv' /\ CopyInv'
    BY <2>1 DEF SdkInv, Sdk!TypeOK, RowsInv, CopyInv, Pending
  <2>3. ASSUME NEW u \in Thread PROVE ThreadInv(u)'
    <3>1. ThreadInv(u)
      BY DEF SdkInv
    <3>2. Shape(u)' /\ Viewed(u)' /\ StillActive(u)'
      BY <2>1, <3>1 DEF ThreadInv, Shape, Viewed, StillActive, Sdk!Empty, Sdk!Named
    <3>3. steady' # {} => Clean(u)'
      BY <2>1, <3>1 DEF ThreadInv, Clean
    <3>4. u \in steady' => OnCourse(u)'
      BY <2>1, <3>1 DEF ThreadInv, OnCourse, Sdk!InFlight, Sdk!Ended, Sdk!Named
    <3>5. QED
      BY <3>2, <3>3, <3>4 DEF ThreadInv
  <2>4. QED
    BY <2>2, <2>3 DEF SdkInv
<1>8. QED
  BY <1>1, <1>2, <1>3, <1>4, <1>5, <1>6, <1>7 DEF Sdk!Next

LEMMA SdkPart ==
    ASSUME [RegistriesNext]_allVars
    PROVE  part' = part /\ (part = "sdk" => [Sdk!Next]_sdkVars)
BY DEF RegistriesNext, allVars, sdkVars

\* The invariant of the SDK, for any number of threads, names, calls and page size.
THEOREM SdkInvariance == RegistriesSpec => [](part = "sdk" => SdkInv)
<1>1. RegistriesInit => (part = "sdk" => SdkInv)
  BY RegistriesOK, InitSdk DEF RegistriesInit
<1>2. (part = "sdk" => SdkInv) /\ [RegistriesNext]_allVars => (part = "sdk" => SdkInv)'
  BY RegistriesOK, NextSdk, SdkPart
<1>3. QED
  BY <1>1, <1>2, PTL DEF RegistriesSpec

\* Once the watcher of an SDK process has seen every event, what its caches hold on a
\* field is the active one, unless a change of it fell between a call's read and its
\* caching of the answer.
THEOREM CacheAlwaysFollows == RegistriesSpec => []CacheFollows
<1>1. ASSUME SdkInv PROVE Sdk!CacheFollows
  <2>1. SUFFICES ASSUME sdkEvents = <<>>, NEW n \in Name \ torn
                 PROVE  /\ sdkCache[n] # None /\ sdkCache[n].name = n => sdkCache[n] \in sdkRows
                        /\ catalog # None => catalog[n] \in sdkRows \cup {None}
    BY DEF Sdk!CacheFollows
  <2>2. ~ Pending(n)
    BY <2>1 DEF Pending
  <2>3. QED
    BY <1>1, <2>2 DEF SdkInv, CopyInv
<1>2. (part = "sdk" => SdkInv) => CacheFollows
  BY <1>1 DEF CacheFollows
<1>3. QED
  BY <1>2, SdkInvariance, PTL

\* Of the threads that get or create a field by its exact name while nobody else changes
\* fields, whoever returns has the active one, and who raises lost a race for what is then
\* there, was kept from the lock, or asked for the rule of a field of another name.
THEOREM CallersAlwaysAgree == RegistriesSpec => []CallersAgree
<1>1. ASSUME SdkInv PROVE Sdk!CallersAgree
  <2>1. SUFFICES ASSUME NEW t \in steady, call[t].op = "getOrCreate", call[t].mode = "EXACT"
                 PROVE  /\ sdkPc[t] = "done" => got[t] \in sdkRows
                        /\ sdkPc[t] = "lost" =>
                              /\ Sdk!Of(call[t].name) # None
                              /\ got[t] # None => ruleVersions[Sdk!Of(call[t].name).id] > 0
                        /\ sdkPc[t] = "failed" =>
                              \/ refused[t] = "blocked"
                              \/ call[t].rule /\ got[t] # None /\ got[t].name # call[t].name
    BY DEF Sdk!CallersAgree
  <2>2. t \in Thread /\ OnCourse(t) /\ Sdk!TypeOK /\ RowsInv
    BY <1>1, <2>1 DEF SdkInv, ThreadInv, Sdk!TypeOK
  <2>3. ASSUME sdkPc[t] = "lost"
        PROVE  /\ Sdk!Of(call[t].name) # None
               /\ got[t] # None => ruleVersions[Sdk!Of(call[t].name).id] > 0
    <3>1. PICK r \in Sdk!Named(call[t].name) : got[t] # None => ruleVersions[r.id] > 0
      BY <2>1, <2>2, <2>3 DEF OnCourse
    <3>2. Sdk!Of(call[t].name) = r /\ r # None
      <4>1. Sdk!Of(call[t].name) \in Sdk!Named(call[t].name)
        BY <3>1 DEF Sdk!Of
      <4>2. QED
        BY <2>2, <3>1, <4>1, RegistriesOK DEF RowsInv, Sdk!Named, Sdk!TypeOK, Sdk!SdkOK
    <3>3. QED
      BY <3>1, <3>2
  <2>4. QED
    BY <2>1, <2>2, <2>3 DEF OnCourse
<1>2. (part = "sdk" => SdkInv) => CallersAgree
  BY <1>1 DEF CallersAgree
<1>3. QED
  BY <1>2, SdkInvariance, PTL

-----------------------------------------------------------------------------
(***************************************************************************)
(* The fields beside the other components, and the types of all of them.   *)
(***************************************************************************)

\* What SchemaRegistryProofs shows of Spec holds of the fields here.
THEOREM FieldsAsAlone == RegistriesSpec => Spec
<1>1. RegistriesInit => Init
  BY DEF RegistriesInit
<1>2. [RegistriesNext]_allVars => [Next]_vars
  BY DEF RegistriesNext, allVars
<1>3. QED
  BY <1>1, <1>2, PTL DEF RegistriesSpec, Spec

\* Every variable of the component that runs stays in its domain.
THEOREM RegistriesTypeCorrect == RegistriesSpec => []RegistriesTypeOK
<1>1. /\ RuleInv => Rules!TypeOK
      /\ CapInv => Caps!TypeOK
      /\ LogInv => Log!TypeOK
      /\ SdkInv => Sdk!TypeOK
  BY DEF RuleInv, CapInv, LogInv, SdkInv
<1>2. /\ TypeOK
      /\ part = "rules" => RuleInv
      /\ part = "capabilities" => CapInv
      /\ part = "log" => LogInv
      /\ part = "sdk" => SdkInv
      => RegistriesTypeOK
  BY <1>1 DEF RegistriesTypeOK
<1>3. RegistriesSpec => []TypeOK
  BY FieldsAsAlone, TypeCorrect
<1>4. QED
  BY <1>2, <1>3, RuleInvariance, CapInvariance, LogInvariance, SdkInvariance, PTL
=============================================================================
