--------------------------- MODULE ServicesProofs ---------------------------
(***************************************************************************)
(* Theorems about the services beside each other: for any numbers of       *)
(* requests, claims, adds, events and accounts, and any bounds.  Each part *)
(* has an inductive invariant of its own, which is one of ServicesSpec     *)
(* where that part runs: a step of Services is a step of its part (AmlPart *)
(* and the like).  What governance keeps is shown in GovernanceProofs.     *)
(***************************************************************************)
EXTENDS Services, GovernanceProofs, WellFoundedInduction, FunctionTheorems,
        FiniteSetTheorems, SequenceTheorems, TLAPS

\* The largest payload has a size, and it bounds the others.
LEMMA LargestFact ==
    ASSUME Aml!AmlConstantsOK, NEW p \in Payload
    PROVE  Size[p] \in Nat /\ Size[p] >= 1 /\ Aml!Largest \in Nat /\ Size[p] <= Aml!Largest
<1>1. PICK q \in Payload : \A r \in Payload : Size[r] <= Size[q]
  BY DEF Aml!AmlConstantsOK
<1>2. Size[q] \in {Size[r] : r \in Payload}
  OBVIOUS
<1>3. /\ Aml!Largest \in {Size[r] : r \in Payload}
      /\ \A r \in Payload : Size[r] <= Aml!Largest
  BY <1>1, <1>2 DEF Aml!Largest
<1>4. \A r \in Payload : Size[r] \in Nat \ {0}
  BY DEF Aml!AmlConstantsOK
<1>5. QED
  BY <1>3, <1>4

LEMMA UnitFact ==
    ASSUME Aml!AmlConstantsOK, NEW a \in Add, NEW n \in 1 .. Size[PayloadOf[a]]
    PROVE  /\ <<IdOf[a], n>> \in Aml!Unit
           /\ IdOf[a] \in Id /\ PayloadOf[a] \in Payload /\ PayloadOf[a] # None
<1>1. IdOf[a] \in Id /\ PayloadOf[a] \in Payload /\ None \notin Payload
  BY DEF Aml!AmlConstantsOK
<1>2. n \in 1 .. Aml!Largest
  BY <1>1, LargestFact
<1>3. QED
  BY <1>1, <1>2 DEF Aml!Unit

-----------------------------------------------------------------------------
(***************************************************************************)
(* The inductive invariant.  It speaks of the request ids of which no add  *)
(* ran beside a clear, and only while no clear was left half done.         *)
(***************************************************************************)
AddType ==
    /\ ledger \in [Id -> Aml!Row]
    /\ units \in [Aml!Unit -> Payload \cup {None}]
    /\ step \in [Add -> {"idle", "start", "ok", "conflict", "failed"} \cup Aml!Running]
    /\ next \in [Add -> Nat \ {0}]
    /\ clearing \in {"idle", "rows", "points"}
    /\ torn \subseteq Id /\ half \in BOOLEAN
    /\ \A i \in Id : ledger[i].status # "none" => ledger[i].payload \in Payload

\* An attempt starts with the first message, and never goes past the last one.
NextInRange ==
    \A a \in Add : /\ step[a] # "store" => next[a] = 1
                   /\ next[a] <= Size[PayloadOf[a]]

Intact(i) == i \notin torn /\ ~half

\* An add in progress holds the row of its request id.
HoldsRow ==
    \A a \in Add : Intact(IdOf[a]) /\ step[a] \in Aml!Running =>
        ledger[IdOf[a]].payload = PayloadOf[a] /\ clearing = "idle"

\* Every unit under a request id is of the payload in its row.
OfOnePayload ==
    \A u \in Aml!Unit : Intact(u[1]) /\ units[u] # None => units[u] = ledger[u[1]].payload

\* What an attempt has behind it is stored.
BehindIsStored ==
    \A a \in Add : Intact(IdOf[a]) =>
        /\ step[a] = "store" =>
              \A n \in 1 .. next[a] - 1 : units[<<IdOf[a], n>>] = PayloadOf[a]
        /\ step[a] \in {"index", "complete"} =>
              \A n \in 1 .. Size[PayloadOf[a]] : units[<<IdOf[a], n>>] = PayloadOf[a]

\* A completed row speaks of stored units, but for the moment of a clear between the
\* units and the rows.
CompleteIsStored ==
    \A i \in Id : Intact(i) /\ ledger[i].status = "complete" /\ clearing # "rows" =>
        \A n \in 1 .. Size[ledger[i].payload] : units[<<i, n>>] = ledger[i].payload

\* Between the units and the rows of a clear nothing is stored.
ClearedOut ==
    clearing = "rows" => \A u \in Aml!Unit : Intact(u[1]) => units[u] = None

\* A row that is not there has no payload.
RowPayload == \A i \in Id : ledger[i].status = "none" => ledger[i].payload = None

AddInv ==
    /\ AddType /\ RowPayload /\ NextInRange /\ HoldsRow /\ OfOnePayload
    /\ BehindIsStored /\ CompleteIsStored /\ ClearedOut

LEMMA InitAdd ==
    ASSUME Aml!AmlConstantsOK, Aml!Init
    PROVE  AddInv
<1>1. \A a \in Add : PayloadOf[a] \in Payload
  BY DEF Aml!AmlConstantsOK
<1>2. \A a \in Add : 1 <= Size[PayloadOf[a]]
  BY <1>1, LargestFact
<1>3. AddType
  <2>1. Aml!Free \in Aml!Row /\ Aml!Free.status = "none"
    BY DEF Aml!Free, Aml!Row
  <2>2. ledger \in [Id -> Aml!Row] /\ \A i \in Id : ledger[i].status = "none"
    BY <2>1 DEF Aml!Init
  <2>3. step \in [Add -> {"idle", "start", "ok", "conflict", "failed"} \cup Aml!Running]
        /\ next \in [Add -> Nat \ {0}] /\ units \in [Aml!Unit -> Payload \cup {None}]
    BY DEF Aml!Init
  <2>4. clearing = "idle" /\ torn = {} /\ half = FALSE
    BY DEF Aml!Init
  <2>5. QED
    BY <2>2, <2>3, <2>4 DEF AddType
<1>4. /\ \A a \in Add : step[a] = "idle" /\ next[a] = 1
      /\ \A u \in Aml!Unit : units[u] = None
      /\ \A i \in Id : ledger[i].status = "none"
      /\ clearing = "idle"
  BY DEF Aml!Init, Aml!Free
<1>5. RowPayload
  BY DEF Aml!Init, RowPayload, Aml!Free
<1>6. QED
  BY <1>2, <1>3, <1>4, <1>5 DEF AddInv, NextInRange, HoldsRow, OfOnePayload, BehindIsStored,
              CompleteIsStored, ClearedOut, Aml!Running

-----------------------------------------------------------------------------
(* The steps of an add. *)

\* A step that moves one add, and neither row nor unit.
LEMMA MoveAdd ==
    ASSUME Aml!AmlConstantsOK, AddInv, UNCHANGED <<ledger, units, clearing, Aml!past>>,
           NEW a \in Add, NEW s, step' = [step EXCEPT ![a] = s],
           s \in {"start", "failed"} \/ (step[a] = "index" /\ s = "complete"),
           (next' = next /\ step[a] # "store") \/ next' = [next EXCEPT ![a] = 1]
    PROVE  AddInv'
<1>1. /\ step'[a] = s /\ \A b \in Add \ {a} : step'[b] = step[b]
      /\ \A b \in Add \ {a} : next'[b] = next[b]
      /\ next'[a] = 1
  BY DEF AddInv, AddType, NextInRange
<1>2. 1 <= Size[PayloadOf[a]]
  BY LargestFact DEF Aml!AmlConstantsOK
<1>3. AddType'
  <2>1. s \in {"idle", "start", "ok", "conflict", "failed"} \cup Aml!Running
    BY DEF Aml!Running
  <2>2. QED
    BY <2>1 DEF AddInv, AddType, Aml!past
<1>4. NextInRange'
  BY <1>1, <1>2 DEF AddInv, NextInRange
<1>5. HoldsRow' /\ BehindIsStored'
  BY <1>1 DEF AddInv, HoldsRow, BehindIsStored, Intact, Aml!Running, Aml!past
<1>6. OfOnePayload' /\ CompleteIsStored' /\ ClearedOut'
  BY DEF AddInv, OfOnePayload, CompleteIsStored, ClearedOut, Intact, Aml!past
<1>7. QED
  BY <1>3, <1>4, <1>5, <1>6 DEF AddInv, RowPayload

LEMMA ReserveInv ==
    ASSUME Aml!AmlConstantsOK, AddInv, NEW a \in Add, Aml!Reserve(a)
    PROVE  AddInv'
<1> DEFINE id  == IdOf[a]
           new == [payload |-> PayloadOf[a], status |-> "processing"]
           row == IF ledger[id].status = "none" THEN new ELSE ledger[id]
<1>1. id \in Id /\ PayloadOf[a] \in Payload /\ step[a] = "start"
  BY DEF Aml!AmlConstantsOK, Aml!Reserve
<1>2. row \in Aml!Row /\ row.status # "none" /\ row.payload \in Payload
  <2>1. new \in Aml!Row /\ new.status = "processing" /\ new.payload = PayloadOf[a]
    BY <1>1 DEF Aml!Row
  <2>2. QED
    BY <1>1, <2>1 DEF AddInv, AddType
<1>3. /\ ledger' = [ledger EXCEPT ![id] = row]
      /\ step' = [step EXCEPT ![a] = IF ~Aml!Accepts(row, a) THEN "conflict"
                                     ELSE IF row.status = "complete" THEN "ok" ELSE "store"]
      /\ torn' = IF clearing = "idle" THEN torn ELSE torn \cup {id}
      /\ UNCHANGED <<units, next, clearing, half>>
  BY DEF Aml!Reserve, Aml!search
<1> HIDE DEF row
<1>4. /\ ledger'[id] = row /\ \A i \in Id \ {id} : ledger'[i] = ledger[i]
      /\ \A b \in Add \ {a} : step'[b] = step[b]
      /\ step'[a] \in {"conflict", "ok", "store"}
      /\ step'[a] = "store" => row.payload = PayloadOf[a]
  BY <1>3, <1>1 DEF AddInv, AddType, Aml!Accepts
<1>5. ledger[id].status # "none" => row = ledger[id]
  BY DEF row
<1>6. \A i \in Id : Intact(i)' => Intact(i)
  BY <1>3 DEF Intact
<1>7. next[a] = 1
  BY <1>1 DEF AddInv, NextInRange
<1>8. AddType'
  <2>1. ledger' \in [Id -> Aml!Row] /\ \A i \in Id : ledger'[i].status # "none"
           => ledger'[i].payload \in Payload
    BY <1>3, <1>4, <1>2 DEF AddInv, AddType
  <2>2. step' \in [Add -> {"idle", "start", "ok", "conflict", "failed"} \cup Aml!Running]
    BY <1>3 DEF AddInv, AddType, Aml!Running
  <2>3. QED
    BY <1>3, <1>1, <2>1, <2>2 DEF AddInv, AddType
<1>9. RowPayload'
  BY <1>4, <1>2 DEF AddInv, RowPayload
<1>10. NextInRange'
  BY <1>3, <1>4, <1>7 DEF AddInv, NextInRange
<1>11. \A b \in Add : IdOf[b] \in Id
  BY DEF Aml!AmlConstantsOK
<1>12. ASSUME NEW b \in Add, b # a, step[b] \in Aml!Running, Intact(IdOf[b]), IdOf[b] = id
      PROVE  row = ledger[id]
  <2>1. ledger[id].payload = PayloadOf[b] /\ PayloadOf[b] # None
    BY <1>12 DEF AddInv, HoldsRow, Aml!AmlConstantsOK
  <2>2. ledger[id].status # "none"
    BY <1>1, <2>1 DEF AddInv, RowPayload
  <2>3. QED
    BY <1>5, <2>2
<1>13. HoldsRow'
  <2> SUFFICES ASSUME NEW b \in Add, Intact(IdOf[b])', step'[b] \in Aml!Running
               PROVE  ledger'[IdOf[b]].payload = PayloadOf[b] /\ clearing' = "idle"
    BY DEF HoldsRow
  <2>1. CASE b = a
    <3>1. clearing = "idle"
      BY <1>3, <2>1 DEF Intact
    <3>2. QED
      BY <1>3, <1>4, <2>1, <3>1 DEF Aml!Running
  <2>2. CASE b # a
    BY <1>3, <1>4, <1>6, <1>11, <1>12, <2>2 DEF AddInv, HoldsRow
  <2>3. QED
    BY <2>1, <2>2
<1>14. OfOnePayload'
  <2> SUFFICES ASSUME NEW u \in Aml!Unit, Intact(u[1])', units[u] # None
               PROVE  units[u] = ledger'[u[1]].payload
    BY <1>3 DEF OfOnePayload
  <2>1. u[1] \in Id
    BY DEF Aml!Unit
  <2>2. units[u] = ledger[u[1]].payload
    BY <1>6, <2>1 DEF AddInv, OfOnePayload
  <2>3. ledger[u[1]].status # "none"
    BY <2>1, <2>2 DEF AddInv, RowPayload
  <2>4. QED
    BY <1>4, <1>5, <2>1, <2>2, <2>3
<1>15. BehindIsStored'
  BY <1>3, <1>4, <1>6, <1>11, <1>7 DEF AddInv, BehindIsStored
<1>16. CompleteIsStored'
  <2> SUFFICES ASSUME NEW i \in Id, Intact(i)', ledger'[i].status = "complete",
                      clearing # "rows"
               PROVE  \A n \in 1 .. Size[ledger'[i].payload] :
                          units[<<i, n>>] = ledger'[i].payload
    BY <1>3 DEF CompleteIsStored
  <2>1. ledger'[i] = ledger[i]
    <3>1. new.status # "complete"
      OBVIOUS
    <3>2. QED
      BY <1>4, <3>1 DEF row
  <2>2. QED
    BY <1>6, <2>1 DEF AddInv, CompleteIsStored
<1>17. ClearedOut'
  <2>1. \A u \in Aml!Unit : u[1] \in Id
    BY DEF Aml!Unit
  <2>2. QED
    BY <1>3, <1>6, <2>1 DEF AddInv, ClearedOut
<1>18. QED
  BY <1>8, <1>10, <1>13, <1>14, <1>15, <1>16, <1>17, <1>9 DEF AddInv

LEMMA StoreUnitInv ==
    ASSUME Aml!AmlConstantsOK, AddInv, NEW a \in Add, Aml!StoreUnit(a)
    PROVE  AddInv'
<1> DEFINE u == <<IdOf[a], next[a]>>
           p == PayloadOf[a]
<1>1. step[a] = "store" /\ next[a] \in 1 .. Size[p] /\ next[a] \in Nat \ {0}
      /\ Size[p] \in Nat /\ 1 <= Size[p]
  <2>1. p \in Payload
    BY DEF Aml!AmlConstantsOK
  <2>2. next[a] \in Nat \ {0} /\ next[a] <= Size[p] /\ step[a] = "store"
    BY DEF AddInv, AddType, NextInRange, Aml!StoreUnit
  <2>3. QED
    BY <2>1, <2>2, LargestFact
<1>2. u \in Aml!Unit /\ p \in Payload /\ p # None
  BY <1>1, UnitFact
<1>3. /\ units' = [units EXCEPT ![u] = IF @ = None THEN p ELSE @]
      /\ UNCHANGED <<ledger, clearing, Aml!past>>
  BY DEF Aml!StoreUnit, Aml!Stores
<1>4. /\ units'[u] = IF units[u] = None THEN p ELSE units[u]
      /\ \A v \in Aml!Unit \ {u} : units'[v] = units[v]
  BY <1>3, <1>2 DEF AddInv, AddType
<1>5. \/ step'[a] = "store" /\ next'[a] = next[a] + 1 /\ next[a] # Size[p]
      \/ step'[a] = "index" /\ next'[a] = 1 /\ next[a] = Size[p]
  BY DEF Aml!StoreUnit, AddInv, AddType
<1>6. \A b \in Add \ {a} : step'[b] = step[b] /\ next'[b] = next[b]
  BY DEF Aml!StoreUnit, AddInv, AddType
<1>7. Intact(IdOf[a]) => units'[u] = p /\ clearing = "idle"
                         /\ ledger[IdOf[a]].payload = p
  <2> SUFFICES ASSUME Intact(IdOf[a])
               PROVE  units'[u] = p /\ clearing = "idle" /\ ledger[IdOf[a]].payload = p
    OBVIOUS
  <2>1. ledger[IdOf[a]].payload = p /\ clearing = "idle"
    BY <1>1 DEF AddInv, HoldsRow, Aml!Running
  <2>2. units[u] # None => units[u] = p
    BY <1>2, <2>1 DEF AddInv, OfOnePayload
  <2>3. QED
    BY <1>4, <2>1, <2>2
<1>8. AddType'
  <2>1. units' \in [Aml!Unit -> Payload \cup {None}]
    BY <1>3, <1>2 DEF AddInv, AddType
  <2>2. step' \in [Add -> {"idle", "start", "ok", "conflict", "failed"} \cup Aml!Running]
        /\ next' \in [Add -> Nat \ {0}]
    BY <1>1 DEF Aml!StoreUnit, AddInv, AddType, Aml!Running
  <2>3. QED
    BY <1>3, <2>1, <2>2 DEF AddInv, AddType, Aml!past
<1>9. NextInRange'
  BY <1>1, <1>5, <1>6 DEF AddInv, NextInRange
<1>10. HoldsRow'
  BY <1>3, <1>1, <1>5, <1>6 DEF AddInv, HoldsRow, Intact, Aml!Running, Aml!past
<1>11. OfOnePayload' /\ ClearedOut'
  <2>1. u[1] = IdOf[a]
    OBVIOUS
  <2>2. OfOnePayload'
    BY <1>3, <1>4, <1>7, <1>2, <2>1 DEF AddInv, OfOnePayload, Intact, Aml!past
  <2>3. ClearedOut'
    BY <1>3, <1>4, <1>7, <1>2, <2>1 DEF AddInv, ClearedOut, Intact, Aml!past
  <2>4. QED
    BY <2>2, <2>3
\* A unit that is right stays so.
<1>12. ASSUME NEW v \in Aml!Unit, units[v] # None
       PROVE  units'[v] = units[v]
  BY <1>4, <1>12
<1>13. BehindIsStored'
  <2> SUFFICES ASSUME NEW b \in Add, Intact(IdOf[b])
               PROVE  /\ step'[b] = "store" =>
                            \A n \in 1 .. next'[b] - 1 : units'[<<IdOf[b], n>>] = PayloadOf[b]
                      /\ step'[b] \in {"index", "complete"} =>
                            \A n \in 1 .. Size[PayloadOf[b]] :
                                units'[<<IdOf[b], n>>] = PayloadOf[b]
    BY <1>3 DEF BehindIsStored, Intact, Aml!past
  <2>1. \A n \in 1 .. Size[PayloadOf[b]] : <<IdOf[b], n>> \in Aml!Unit /\ PayloadOf[b] # None
    BY UnitFact
  <2>2. next[b] \in Nat \ {0} /\ next[b] <= Size[PayloadOf[b]] /\ Size[PayloadOf[b]] \in Nat
    BY LargestFact DEF AddInv, AddType, NextInRange, Aml!AmlConstantsOK
  <2>3. CASE b = a
    <3>1. \A n \in 1 .. next[a] - 1 : units'[<<IdOf[a], n>>] = p
      BY <1>12, <1>1, <2>1, <2>2, <2>3 DEF AddInv, BehindIsStored
    <3>2. \A n \in 1 .. next[a] : units'[<<IdOf[a], n>>] = p
      BY <1>7, <1>1, <2>3, <3>1
    <3>3. QED
      BY <1>5, <1>1, <2>3, <3>2
  <2>4. CASE b # a
    BY <1>6, <1>12, <2>1, <2>2, <2>4 DEF AddInv, BehindIsStored
  <2>5. QED
    BY <2>3, <2>4
<1>14. CompleteIsStored'
  <2> SUFFICES ASSUME NEW i \in Id, Intact(i), ledger[i].status = "complete",
                      clearing # "rows", NEW n \in 1 .. Size[ledger[i].payload]
               PROVE  units'[<<i, n>>] = ledger[i].payload
    BY <1>3 DEF CompleteIsStored, Intact, Aml!past
  <2>1. ledger[i].payload \in Payload /\ None \notin Payload
    BY DEF AddInv, AddType, Aml!AmlConstantsOK
  <2>2. <<i, n>> \in Aml!Unit
    BY <2>1, LargestFact DEF Aml!Unit
  <2>3. units[<<i, n>>] = ledger[i].payload
    BY DEF AddInv, CompleteIsStored
  <2>4. QED
    BY <1>12, <2>1, <2>2, <2>3
<1>15. QED
  BY <1>3, <1>8, <1>9, <1>10, <1>11, <1>13, <1>14 DEF AddInv, RowPayload

LEMMA IndexInv ==
    ASSUME Aml!AmlConstantsOK, AddInv, NEW a \in Add, Aml!IndexUnits(a) \/ Aml!IndexFails(a)
    PROVE  AddInv'
<1>1. \E s \in {"failed", "complete"} : step' = [step EXCEPT ![a] = s]
  BY DEF Aml!IndexUnits, Aml!IndexFails
<1>2. /\ UNCHANGED <<ledger, units, clearing, Aml!past>> /\ step[a] = "index"
      /\ next' = next
  BY DEF Aml!IndexUnits, Aml!IndexFails, Aml!store
<1>3. QED
  BY <1>1, <1>2, MoveAdd

LEMMA FailInv ==
    ASSUME Aml!AmlConstantsOK, AddInv, NEW a \in Add, Aml!Fail(a) \/ Aml!Send(a)
    PROVE  AddInv'
<1>1. \E s \in {"start", "failed"} : step' = [step EXCEPT ![a] = s]
  BY DEF Aml!Fail, Aml!Send
<1>2. UNCHANGED <<ledger, units, clearing, Aml!past>>
  BY DEF Aml!Fail, Aml!Send, Aml!store
<1>3. (next' = next /\ step[a] # "store") \/ next' = [next EXCEPT ![a] = 1]
  BY DEF Aml!Fail, Aml!Send
<1>4. QED
  BY <1>1, <1>2, <1>3, MoveAdd

LEMMA CompleteInv ==
    ASSUME Aml!AmlConstantsOK, AddInv, NEW a \in Add, Aml!Complete(a)
    PROVE  AddInv'
<1>1. UNCHANGED <<units, next, clearing, Aml!past>> /\ step[a] = "complete"
  BY DEF Aml!Complete
<1>2. CASE ledger[IdOf[a]].payload # PayloadOf[a]
  <2>1. step' = [step EXCEPT ![a] = "failed"] /\ ledger' = ledger
    BY <1>2 DEF Aml!Complete
  <2>2. QED
    BY <1>1, <2>1, MoveAdd
<1>3. CASE ledger[IdOf[a]].payload = PayloadOf[a]
  <2> DEFINE id == IdOf[a]
  <2>1. id \in Id /\ PayloadOf[a] \in Payload /\ None \notin Payload
    BY DEF Aml!AmlConstantsOK
  <2>2. /\ ledger'[id].payload = PayloadOf[a] /\ ledger'[id].status = "complete"
        /\ ledger'[id] \in Aml!Row
        /\ \A i \in Id \ {id} : ledger'[i] = ledger[i]
        /\ step'[a] = "ok" /\ \A b \in Add \ {a} : step'[b] = step[b]
    BY <1>3, <2>1 DEF Aml!Complete, AddInv, AddType, Aml!Row
  <2>3. \A i \in Id : ledger'[i].payload = ledger[i].payload
    BY <1>3, <2>2
  <2>4. AddType'
    <3>1. ledger' \in [Id -> Aml!Row]
      BY <1>3, <2>2 DEF Aml!Complete, AddInv, AddType
    <3>2. step' \in [Add -> {"idle", "start", "ok", "conflict", "failed"} \cup Aml!Running]
      BY <1>3 DEF Aml!Complete, AddInv, AddType
    <3>3. QED
      BY <1>1, <2>1, <2>2, <2>3, <3>1, <3>2 DEF AddInv, AddType, Aml!past
  <2>5. NextInRange' /\ RowPayload'
    BY <1>1, <2>2 DEF AddInv, NextInRange, RowPayload
  <2>6. \A b \in Add : IdOf[b] \in Id
    BY DEF Aml!AmlConstantsOK
  <2>7. HoldsRow' /\ BehindIsStored'
    BY <1>1, <2>2, <2>3, <2>6
       DEF AddInv, HoldsRow, BehindIsStored, Intact, Aml!Running, Aml!past
  <2>8. OfOnePayload' /\ ClearedOut'
    <3>1. \A u \in Aml!Unit : u[1] \in Id
      BY DEF Aml!Unit
    <3>2. QED
      BY <1>1, <2>3, <3>1 DEF AddInv, OfOnePayload, ClearedOut, Intact, Aml!past
  <2>9. CompleteIsStored'
    <3>1. Intact(id) => \A n \in 1 .. Size[PayloadOf[a]] : units[<<id, n>>] = PayloadOf[a]
      BY <1>1 DEF AddInv, BehindIsStored
    <3>2. QED
      BY <1>1, <2>2, <3>1 DEF AddInv, CompleteIsStored, Intact, Aml!past
  <2>10. QED
    BY <2>4, <2>5, <2>7, <2>8, <2>9 DEF AddInv
<1>4. QED
  BY <1>2, <1>3

-----------------------------------------------------------------------------
(* The steps of a clear, and those of a search. *)

LEMMA ClearUnitsInv ==
    ASSUME Aml!AmlConstantsOK, AddInv, Aml!ClearUnits
    PROVE  AddInv'
<1>1. /\ UNCHANGED <<ledger, step, next, half>>
      /\ clearing' = "rows"
      /\ units' = [u \in Aml!Unit |-> None]
      /\ torn' = torn \cup {IdOf[b] : b \in {c \in Add : step[c] \in Aml!Running}}
  BY DEF Aml!ClearUnits, Aml!adds
<1>2. \A b \in Add : IdOf[b] \in Id
  BY DEF Aml!AmlConstantsOK
<1>3. \A b \in Add : step[b] \in Aml!Running => ~Intact(IdOf[b])'
  BY <1>1 DEF Intact
<1>4. AddType' /\ RowPayload' /\ NextInRange'
  BY <1>1, <1>2 DEF AddInv, AddType, RowPayload, NextInRange
<1>5. HoldsRow' /\ BehindIsStored'
  BY <1>1, <1>3 DEF HoldsRow, BehindIsStored, Aml!Running
<1>6. OfOnePayload' /\ CompleteIsStored' /\ ClearedOut'
  BY <1>1 DEF OfOnePayload, CompleteIsStored, ClearedOut
<1>7. QED
  BY <1>4, <1>5, <1>6 DEF AddInv

LEMMA ClearRowsInv ==
    ASSUME Aml!AmlConstantsOK, AddInv, Aml!ClearRows
    PROVE  AddInv'
<1>1. /\ UNCHANGED <<units, step, next, Aml!past>>
      /\ clearing = "rows" /\ clearing' = "points"
      /\ \A i \in Id : ledger'[i] = Aml!Free
      /\ ledger' = [i \in Id |-> Aml!Free]
  BY DEF Aml!ClearRows, Aml!adds
<1>2. Aml!Free \in Aml!Row /\ Aml!Free.status = "none" /\ Aml!Free.payload = None
  BY DEF Aml!Free, Aml!Row
<1>3. AddType' /\ RowPayload' /\ NextInRange'
  BY <1>1, <1>2 DEF AddInv, AddType, RowPayload, NextInRange, Aml!past
<1>4. HoldsRow' /\ BehindIsStored'
  BY <1>1 DEF AddInv, HoldsRow, BehindIsStored, Intact, Aml!past
<1>5. OfOnePayload' /\ CompleteIsStored' /\ ClearedOut'
  BY <1>1, <1>2 DEF AddInv, OfOnePayload, CompleteIsStored, ClearedOut, Intact, Aml!past
<1>6. QED
  BY <1>3, <1>4, <1>5 DEF AddInv

LEMMA ClearEndInv ==
    ASSUME Aml!AmlConstantsOK, AddInv, Aml!ClearPoints \/ Aml!ClearFails
    PROVE  AddInv'
<1>1. /\ UNCHANGED <<ledger, units, step, next, torn>>
      /\ clearing # "idle" /\ clearing' = "idle"
      /\ half' = half \/ half' = (half \/ clearing = "rows")
      /\ clearing = "rows" => half' = TRUE
  BY DEF Aml!ClearPoints, Aml!ClearFails, Aml!store, Aml!adds, Aml!past
<1>2. \A i \in Id : Intact(i)' => Intact(i) /\ clearing # "rows"
  BY <1>1 DEF Intact
<1>3. AddType' /\ RowPayload' /\ NextInRange'
  BY <1>1 DEF AddInv, AddType, RowPayload, NextInRange
<1>4. \A b \in Add : IdOf[b] \in Id
  BY DEF Aml!AmlConstantsOK
<1>5. HoldsRow' /\ BehindIsStored'
  BY <1>1, <1>2, <1>4 DEF AddInv, HoldsRow, BehindIsStored
<1>6. \A u \in Aml!Unit : u[1] \in Id
  BY DEF Aml!Unit
<1>7. OfOnePayload' /\ CompleteIsStored' /\ ClearedOut'
  BY <1>1, <1>2, <1>6 DEF AddInv, OfOnePayload, CompleteIsStored, ClearedOut
<1>8. QED
  BY <1>3, <1>5, <1>7 DEF AddInv

LEMMA SearchInv ==
    ASSUME AddInv, UNCHANGED <<ledger, units, Aml!adds, clearing, Aml!past>>
    PROVE  AddInv'
BY DEF AddInv, AddType, RowPayload, NextInRange, HoldsRow, OfOnePayload, BehindIsStored,
       CompleteIsStored, ClearedOut, Intact, Aml!adds, Aml!past

LEMMA NextAdd ==
    ASSUME Aml!AmlConstantsOK, AddInv, [Aml!Next]_amlVars
    PROVE  AddInv'
<1>1. CASE UNCHANGED amlVars
  BY <1>1, SearchInv DEF amlVars, Aml!store, Aml!adds, Aml!past
<1>2. CASE Aml!SearchList \/ Aml!SearchVectors \/ Aml!Hydrate \/ Aml!Rank
  BY <1>2, SearchInv DEF Aml!SearchList, Aml!SearchVectors, Aml!Hydrate, Aml!Rank, Aml!store
<1>3. ASSUME NEW a \in Add, Aml!AddStep(a) PROVE AddInv'
  BY <1>3, ReserveInv, StoreUnitInv, IndexInv, FailInv, CompleteInv DEF Aml!AddStep
<1>4. QED
  BY <1>1, <1>2, <1>3, ClearUnitsInv, ClearRowsInv, ClearEndInv DEF Aml!Next

-----------------------------------------------------------------------------
(* The theorems. *)

\* What a step of the services is while the adapter runs.
LEMMA AmlPart ==
    ASSUME [ServicesNext]_allVars
    PROVE  /\ part' = part
           /\ part = "aml" => [Aml!Next]_amlVars
BY DEF ServicesNext, allVars, amlVars

\* What adds and clears leave in the ledger and the units agrees for every request id
\* of which no add ran beside a clear, while no clear was left half done.
THEOREM AddInvariance == ServicesSpec => [](part = "aml" => AddInv)
<1>1. ServicesInit => (part = "aml" => AddInv)
  BY ServicesOK, InitAdd DEF ServicesInit
<1>2. (part = "aml" => AddInv) /\ [ServicesNext]_allVars => (part = "aml" => AddInv)'
  BY ServicesOK, NextAdd, AmlPart
<1>3. QED
  BY <1>1, <1>2, PTL DEF ServicesSpec

\* "Every message is persisted before success is returned", for any number of adds
\* that share request ids, are repeated while they run and are cut off anywhere.
THEOREM AckedAlwaysStored == ServicesSpec => AckedIsStored
<1>1. Aml!AmlConstantsOK /\ AddInv /\ Aml!Next => Aml!AckedStep
  <2> SUFFICES ASSUME Aml!AmlConstantsOK, AddInv, Aml!Next, NEW a \in Add,
                      step[a] # "ok", step'[a] = "ok",
                      IdOf[a] \notin torn', ~half, NEW u \in Aml!UnitsOf(a)
               PROVE  units[u] = PayloadOf[a]
    BY DEF Aml!AckedStep, Aml!StoredWhole
  <2>1. PICK n \in 1 .. Size[PayloadOf[a]] : u = <<IdOf[a], n>>
    BY DEF Aml!UnitsOf
  <2>2. Aml!Reserve(a) \/ Aml!Complete(a)
    <3>1. step \in [Add -> {"idle", "start", "ok", "conflict", "failed"} \cup Aml!Running]
      BY DEF AddInv, AddType
    <3>2. ASSUME NEW b \in Add, Aml!AddStep(b)
          PROVE  b = a /\ (Aml!Reserve(a) \/ Aml!Complete(a))
      <4>1. ASSUME NEW s, step' = [step EXCEPT ![b] = s], s # "ok" PROVE FALSE
        BY <3>1, <4>1
      <4>2. Aml!Reserve(b) \/ Aml!Complete(b)
        <5>1. CASE Aml!StoreUnit(b)
          BY <4>1, <5>1 DEF Aml!StoreUnit
        <5>2. CASE Aml!Send(b) \/ Aml!IndexUnits(b) \/ Aml!IndexFails(b) \/ Aml!Fail(b)
          BY <4>1, <5>2 DEF Aml!Send, Aml!IndexUnits, Aml!IndexFails, Aml!Fail
        <5>3. QED
          BY <3>2, <5>1, <5>2 DEF Aml!AddStep
      <4>3. \E s : step' = [step EXCEPT ![b] = s]
        BY <4>2 DEF Aml!Reserve, Aml!Complete
      <4>4. b = a
        BY <3>1, <4>3
      <4>5. QED
        BY <4>2, <4>4
    <3>3. ASSUME UNCHANGED step PROVE FALSE
      BY <3>3
    <3>4. QED
      BY <3>2, <3>3
         DEF Aml!Next, Aml!ClearUnits, Aml!ClearRows, Aml!ClearPoints, Aml!ClearFails,
             Aml!SearchList, Aml!SearchVectors, Aml!Hydrate, Aml!Rank, Aml!adds
  <2>3. CASE Aml!Reserve(a)
    <3>1. /\ clearing = "idle" /\ Intact(IdOf[a])
          /\ ledger[IdOf[a]].status = "complete" /\ ledger[IdOf[a]].payload = PayloadOf[a]
      BY <2>3 DEF Aml!Reserve, Aml!Accepts, Intact, AddInv, AddType
    <3>2. QED
      BY <2>1, <3>1 DEF AddInv, CompleteIsStored, Aml!AmlConstantsOK
  <2>4. CASE Aml!Complete(a)
    <3>1. step[a] = "complete" /\ Intact(IdOf[a])
      BY <2>4 DEF Aml!Complete, Intact, Aml!past
    <3>2. QED
      BY <2>1, <3>1 DEF AddInv, BehindIsStored
  <2>5. QED
    BY <2>2, <2>3, <2>4
<1>2. (part = "aml" => AddInv) /\ [ServicesNext]_allVars
         => [part = "aml" => Aml!AckedStep]_amlVars
  BY <1>1, AmlPart, ServicesOK
<1>3. QED
  BY <1>2, AddInvariance, PTL DEF ServicesSpec, AckedIsStored

-----------------------------------------------------------------------------
(***************************************************************************)
(* Loops over a sequence.  A set of naturals has a least member, and so a  *)
(* fact that each turn of a loop keeps has no first turn at which it       *)
(* fails.                                                                  *)
(***************************************************************************)
LEMMA LeastNat ==
    ASSUME NEW T \in SUBSET Nat, T # {}
    PROVE  \E n \in T : \A m \in T : n <= m
<1>1. PICK R : R = {s \in Nat \X Nat : s[1] < s[2]}
  OBVIOUS
<1>2. IsWellFoundedOn(R, Nat)
  BY <1>1, NatLessThanWellFounded DEF OpToRel
<1>3. PICK x \in T : \A y \in T : ~(<<y, x>> \in R)
  BY <1>2, WFMin
<1>4. \A y \in T : ~(y < x)
  BY <1>1, <1>3
<1>5. QED
  BY <1>4

\* What holds before the first of n turns and is kept by each of them holds after all.
LEMMA Turns ==
    ASSUME NEW n \in Nat, NEW K \in SUBSET (0 .. n), 0 \in K,
           \A i \in 1 .. n : i - 1 \in K => i \in K
    PROVE  K = 0 .. n
<1> DEFINE T == (0 .. n) \ K
<1>1. SUFFICES ASSUME T # {} PROVE FALSE
  OBVIOUS
<1>2. T \in SUBSET Nat
  OBVIOUS
<1>3. PICK t \in T : \A u \in T : t <= u
  BY <1>1, <1>2, LeastNat
<1>4. t \in 1 .. n /\ t - 1 \in 0 .. n
  OBVIOUS
<1>5. t - 1 \in T
  BY <1>4
<1>6. QED
  BY <1>3, <1>4, <1>5

\* The i-th of n turns takes s to turn[i][s].
Loop(n, S, turn) == \A i \in 1 .. n : \A s \in S : turn[i][s] \in S

\* What there is after each turn.
Run(n, S, s0, turn, g) ==
    g \in [0 .. n -> S] /\ g[0] = s0 /\ \A i \in 1 .. n : g[i] = turn[i][g[i - 1]]

LEMMA LoopRuns ==
    ASSUME NEW n \in Nat, NEW S, NEW s0 \in S, NEW turn, Loop(n, S, turn)
    PROVE  \E g : Run(n, S, s0, turn, g)
<1> DEFINE K == {k \in 0 .. n : \E g : Run(k, S, s0, turn, g)}
<1>1. 0 \in K
  <2>1. PICK g : g = [i \in 0 .. 0 |-> s0]
    OBVIOUS
  <2>2. Run(0, S, s0, turn, g)
    BY <2>1 DEF Run
  <2>3. QED
    BY <2>2
<1>2. ASSUME NEW k \in 1 .. n, k - 1 \in K PROVE k \in K
  <2>1. PICK g : Run(k - 1, S, s0, turn, g)
    BY <1>2
  <2>2. PICK h : h = [i \in 0 .. k |-> IF i = k THEN turn[k][g[k - 1]] ELSE g[i]]
    OBVIOUS
  <2>3. /\ \A i \in 0 .. k - 1 : i \in 0 .. k /\ i # k /\ h[i] = g[i]
        /\ h[k] = turn[k][g[k - 1]]
    BY <2>2
  <2>4. g[k - 1] \in S /\ h[k] \in S
    BY <2>1, <2>3 DEF Loop, Run
  <2>5. h \in [0 .. k -> S]
    BY <2>1, <2>2, <2>4 DEF Run
  <2>6. ASSUME NEW i \in 1 .. k PROVE h[i] = turn[i][h[i - 1]]
    <3>1. i - 1 \in 0 .. k - 1 /\ (i = k \/ i \in 1 .. k - 1)
      OBVIOUS
    <3>2. CASE i = k
      BY <2>3, <3>1, <3>2
    <3>3. CASE i \in 1 .. k - 1
      BY <2>1, <2>3, <3>1, <3>3 DEF Run
    <3>4. QED
      BY <3>1, <3>2, <3>3
  <2>7. 0 \in 0 .. k - 1 /\ h[0] = s0
    BY <2>1, <2>3 DEF Run
  <2>8. Run(k, S, s0, turn, h)
    BY <2>5, <2>6, <2>7 DEF Run
  <2>9. QED
    BY <2>8
<1>3. K \in SUBSET (0 .. n)
  OBVIOUS
<1> HIDE DEF K
<1>4. K = 0 .. n
  BY <1>1, <1>2, <1>3, Turns
<1>5. n \in K
  BY <1>4
<1>6. QED
  BY <1>5 DEF K

-----------------------------------------------------------------------------
(***************************************************************************)
(* The order of an answer.  A ranking is a permutation of what is ranked;  *)
(* picking places of it, putting disjoint picks behind one another and     *)
(* cutting the end off keep its members apart.                             *)
(***************************************************************************)
Apart(q) == \A i, j \in DOMAIN q : q[i] = q[j] => i = j

LEMMA AmlCardinality == \A S : Aml!Cardinality(S) = Cardinality(S)
BY DEF Aml!Cardinality, Cardinality

LEMMA ApartCounts ==
    ASSUME NEW n \in Nat, NEW U, NEW q \in [1 .. n -> U], Apart(q)
    PROVE  Aml!Cardinality(Aml!ToSet(q)) = n
<1> DEFINE T == Aml!ToSet(q)
<1>1. q \in [1 .. n -> T] /\ \A t \in T : \E i \in 1 .. n : q[i] = t
  BY DEF Aml!ToSet
<1>2. \A i, j \in 1 .. n : q[i] = q[j] => i = j
  BY DEF Apart
<1> HIDE DEF T
<1>3. q \in Bijection(1 .. n, T)
  BY <1>1, <1>2, Fun_IsBij
<1>4. ExistsBijection(1 .. n, T)
  BY <1>3, Fun_ExistsBij
<1>5. IsFiniteSet(1 .. n) /\ Cardinality(1 .. n) = n
  BY FS_Interval
<1>6. Cardinality(T) = n
  BY <1>4, <1>5, FS_Bijection
<1>7. QED
  BY <1>6, AmlCardinality DEF T

LEMMA OrderFact ==
    ASSUME NEW S, IsFiniteSet(S), NEW q \in Aml!Orders(S)
    PROVE  /\ Cardinality(S) \in Nat
           /\ q \in [1 .. Cardinality(S) -> S] /\ Aml!ToSet(q) = S /\ Apart(q)
<1>1. PICK n : n = Cardinality(S)
  OBVIOUS
<1>2. n \in Nat
  BY <1>1, FS_CardinalityType
<1>3. q \in [1 .. n -> S] /\ Aml!ToSet(q) = S
  BY <1>1, AmlCardinality DEF Aml!Orders
<1>4. \A s \in S : \E i \in 1 .. n : q[i] = s
  BY <1>3 DEF Aml!ToSet
<1>5. q \in Surjection(1 .. n, S)
  BY <1>3, <1>4, Fun_IsSurj
<1>6. IsFiniteSet(1 .. n) /\ Cardinality(1 .. n) = n
  BY <1>2, FS_Interval
<1>7. q \in Injection(1 .. n, S)
  BY <1>1, <1>5, <1>6, FS_SurjSameCardinalityImpliesInj
<1>8. \A i, j \in 1 .. n : q[i] = q[j] => i = j
  BY <1>7, Fun_InjectionProperties
<1>9. Apart(q)
  BY <1>3, <1>8 DEF Apart
<1>10. QED
  BY <1>1, <1>2, <1>3, <1>9

\* The k-th place of P, for every k that there is.
LEMMA PlaceFact ==
    ASSUME NEW n \in Nat, NEW P \in SUBSET (1 .. n)
    PROVE  /\ Cardinality(P) \in Nat
           /\ \A k \in 1 .. Cardinality(P) : \E i \in P : Cardinality({j \in P : j <= i}) = k
<1> DEFINE Upto(i) == {j \in P : j <= i}
           r == [i \in P |-> Cardinality(Upto(i))]
           m == Cardinality(P)
<1>1. IsFiniteSet(P) /\ m \in Nat
  <2>1. IsFiniteSet(1 .. n)
    BY FS_Interval
  <2>2. IsFiniteSet(P)
    BY <2>1, FS_Subset
  <2>3. QED
    BY <2>2, FS_CardinalityType
<1>2. \A i \in P : IsFiniteSet(Upto(i)) /\ Cardinality(Upto(i)) \in Nat
         /\ Cardinality(Upto(i)) <= m
  <2>1. SUFFICES ASSUME NEW i \in P
                 PROVE  /\ IsFiniteSet(Upto(i)) /\ Cardinality(Upto(i)) \in Nat
                        /\ Cardinality(Upto(i)) <= m
    OBVIOUS
  <2>2. Upto(i) \in SUBSET P
    OBVIOUS
  <2> HIDE DEF Upto
  <2>3. IsFiniteSet(Upto(i)) /\ Cardinality(Upto(i)) <= m
    BY <1>1, <2>2, FS_Subset
  <2>4. QED
    BY <2>3, FS_CardinalityType
<1>3. \A i \in P : Cardinality(Upto(i)) # 0
  <2>1. \A i \in P : i \in Upto(i)
    OBVIOUS
  <2> HIDE DEF Upto
  <2>2. QED
    BY <1>2, <2>1, FS_EmptySet
<1>4. \A i, j \in P : i < j => Cardinality(Upto(i)) # Cardinality(Upto(j))
  <2>1. SUFFICES ASSUME NEW i \in P, NEW j \in P, i < j
                 PROVE  Cardinality(Upto(i)) # Cardinality(Upto(j))
    OBVIOUS
  <2>2. Upto(i) \in SUBSET Upto(j) /\ j \in Upto(j) /\ j \notin Upto(i)
    <3>1. i \in Int /\ j \in Int /\ \A k \in P : k \in Int
      OBVIOUS
    <3>2. \A k \in P : k <= i => k <= j
      BY <2>1, <3>1
    <3>3. j <= j /\ ~(j <= i)
      BY <2>1, <3>1
    <3>4. QED
      BY <3>2, <3>3
  <2>3. Upto(i) # Upto(j)
    BY <2>2
  <2> HIDE DEF Upto
  <2>4. QED
    BY <1>2, <2>2, <2>3, FS_Subset
<1>5. \A i, j \in P : r[i] = r[j] => i = j
  <2>1. \A i, j \in P : i = j \/ i < j \/ j < i
    OBVIOUS
  <2>2. \A i \in P : r[i] = Cardinality(Upto(i))
    OBVIOUS
  <2> HIDE DEF Upto, r
  <2>3. QED
    BY <1>4, <2>1, <2>2
<1>6. r \in [P -> 1 .. m]
  <2>1. \A i \in P : Cardinality(Upto(i)) \in 1 .. m
    <3> HIDE DEF Upto, m
    <3>1. QED
      BY <1>1, <1>2, <1>3
  <2>2. QED
    BY <2>1
<1> HIDE DEF Upto, r, m
<1>7. r \in Injection(P, 1 .. m)
  BY <1>5, <1>6, Fun_IsInj
<1>8. IsFiniteSet(1 .. m) /\ Cardinality(1 .. m) = m
  BY <1>1, FS_Interval
<1>9. r \in Surjection(P, 1 .. m)
  BY <1>7, <1>8, FS_Injection DEF m
<1>10. \A k \in 1 .. m : \E i \in P : r[i] = k
  BY <1>9, Fun_SurjectionProperties
<1>11. QED
  BY <1>1, <1>10 DEF m, r, Upto

\* Some places of a ranking, in its order.
LEMMA PickedFact ==
    ASSUME NEW n \in Nat, NEW U, NEW q \in [1 .. n -> U], Apart(q), NEW P \in SUBSET (1 .. n)
    PROVE  /\ Cardinality(P) \in Nat
           /\ Aml!Picked(q, P) \in [1 .. Cardinality(P) -> U] /\ Apart(Aml!Picked(q, P))
           /\ \A k \in 1 .. Cardinality(P) : \E i \in P : Aml!Picked(q, P)[k] = q[i]
<1> DEFINE place(k) == CHOOSE i \in P : Aml!Cardinality({j \in P : j <= i}) = k
<1>1. PICK m : m = Cardinality(P)
  OBVIOUS
<1>2. m \in Nat /\ \A k \in 1 .. m : \E i \in P : Cardinality({j \in P : j <= i}) = k
  BY <1>1, PlaceFact
<1>3. \A k \in 1 .. m : place(k) \in P /\ Aml!Cardinality({j \in P : j <= place(k)}) = k
  <2>1. \A k \in 1 .. m : \E i \in P : Aml!Cardinality({j \in P : j <= i}) = k
    BY <1>2, AmlCardinality
  <2>2. QED
    BY <2>1
<1>4. Aml!Picked(q, P) = [k \in 1 .. m |-> q[place(k)]]
  <2>1. Aml!Cardinality(P) = m
    BY <1>1, AmlCardinality
  <2>2. QED
    BY <2>1 DEF Aml!Picked
<1> HIDE DEF place
<1>5. \A k, l \in 1 .. m : place(k) = place(l) => k = l
  BY <1>3
<1>6. \A k \in 1 .. m : place(k) \in 1 .. n /\ q[place(k)] \in U
  BY <1>3
<1>7. \A k, l \in 1 .. m : q[place(k)] = q[place(l)] => k = l
  BY <1>5, <1>6 DEF Apart
<1>8. Apart(Aml!Picked(q, P))
  BY <1>4, <1>7 DEF Apart
<1>9. QED
  BY <1>1, <1>2, <1>3, <1>4, <1>6, <1>8

\* Two sequences without a common member, behind one another.
LEMMA ApartBehind ==
    ASSUME NEW U, NEW m \in Nat, NEW n \in Nat, NEW p \in [1 .. m -> U],
           NEW q \in [1 .. n -> U], Apart(p), Apart(q),
           \A i \in 1 .. m, j \in 1 .. n : p[i] # q[j]
    PROVE  p \o q \in Seq(U) /\ Apart(p \o q)
<1>1. p \in Seq(U) /\ q \in Seq(U) /\ Len(p) = m /\ Len(q) = n
  OBVIOUS
<1>2. PICK w : w = p \o q
  OBVIOUS
<1>3. /\ w \in Seq(U) /\ Len(w) = m + n /\ DOMAIN w = 1 .. m + n
      /\ \A i \in 1 .. m : w[i] = p[i]
      /\ \A i \in 1 .. m + n : i > m => w[i] = q[i - m] /\ i - m \in 1 .. n
  <2>1. w \in Seq(U) /\ Len(w) = m + n
    BY <1>1, <1>2, ConcatProperties
  <2>2. \A i \in 1 .. m + n : w[i] = IF i <= m THEN p[i] ELSE q[i - m]
    BY <1>1, <1>2, ConcatProperties
  <2>3. DOMAIN w = 1 .. m + n
    BY <2>1, LenProperties
  <2>4. \A i \in 1 .. m : i \in 1 .. m + n /\ i <= m
    OBVIOUS
  <2>5. \A i \in 1 .. m + n : i > m => ~(i <= m) /\ i - m \in 1 .. n
    OBVIOUS
  <2>6. \A i \in 1 .. m : w[i] = p[i]
    BY <2>2, <2>4
  <2>7. QED
    BY <2>1, <2>2, <2>3, <2>5, <2>6
<1>4. ASSUME NEW i \in 1 .. m + n, NEW j \in 1 .. m + n, w[i] = w[j]
      PROVE  i = j
  <2>1. CASE i <= m /\ j <= m
    BY <1>3, <1>4, <2>1 DEF Apart
  <2>2. CASE i > m /\ j > m
    <3>1. i - m \in 1 .. n /\ j - m \in 1 .. n /\ q[i - m] = q[j - m]
      BY <1>3, <1>4, <2>2
    <3>2. i - m = j - m
      BY <3>1 DEF Apart
    <3>3. QED
      BY <3>2
  <2>3. CASE i <= m /\ j > m
    <3>1. i \in 1 .. m /\ j - m \in 1 .. n /\ p[i] = q[j - m]
      BY <1>3, <1>4, <2>3
    <3>2. QED
      BY <3>1
  <2>4. CASE i > m /\ j <= m
    <3>1. j \in 1 .. m /\ i - m \in 1 .. n /\ p[j] = q[i - m]
      BY <1>3, <1>4, <2>4
    <3>2. QED
      BY <3>1
  <2>5. QED
    BY <2>1, <2>2, <2>3, <2>4
<1>5. QED
  BY <1>2, <1>3, <1>4 DEF Apart

\* Some places first, and then the others.
LEMMA SplitFact ==
    ASSUME NEW n \in Nat, NEW U, NEW q \in [1 .. n -> U], Apart(q)
    PROVE  \A F \in SUBSET (1 .. n) :
              /\ Aml!Picked(q, F) \o Aml!Picked(q, (1 .. n) \ F) \in Seq(U)
              /\ Apart(Aml!Picked(q, F) \o Aml!Picked(q, (1 .. n) \ F))
<1>1. \A P \in SUBSET (1 .. n) :
        /\ Aml!Picked(q, P) \in [1 .. Cardinality(P) -> U] /\ Apart(Aml!Picked(q, P))
        /\ \A k \in 1 .. Cardinality(P) : \E i \in P : Aml!Picked(q, P)[k] = q[i]
  BY PickedFact
<1> SUFFICES ASSUME NEW F \in SUBSET (1 .. n)
             PROVE  /\ Aml!Picked(q, F) \o Aml!Picked(q, (1 .. n) \ F) \in Seq(U)
                    /\ Apart(Aml!Picked(q, F) \o Aml!Picked(q, (1 .. n) \ F))
  OBVIOUS
<1>2. PICK G : G = (1 .. n) \ F
  OBVIOUS
<1>3. G \in SUBSET (1 .. n) /\ F \cap G = {} /\ DOMAIN q = 1 .. n
  BY <1>2
<1>4. PICK f, g : f = Aml!Picked(q, F) /\ g = Aml!Picked(q, G)
  OBVIOUS
<1>5. PICK a \in Nat, b \in Nat : a = Cardinality(F) /\ b = Cardinality(G)
  BY <1>3, PlaceFact
<1>6. /\ f \in [1 .. a -> U] /\ Apart(f)
      /\ \A k \in 1 .. a : \E i \in F : f[k] = q[i]
      /\ g \in [1 .. b -> U] /\ Apart(g)
      /\ \A k \in 1 .. b : \E i \in G : g[k] = q[i]
  <2>1. /\ Aml!Picked(q, F) \in [1 .. Cardinality(F) -> U] /\ Apart(Aml!Picked(q, F))
        /\ \A k \in 1 .. Cardinality(F) : \E i \in F : Aml!Picked(q, F)[k] = q[i]
    BY <1>1, <1>3
  <2>2. /\ Aml!Picked(q, G) \in [1 .. Cardinality(G) -> U] /\ Apart(Aml!Picked(q, G))
        /\ \A k \in 1 .. Cardinality(G) : \E i \in G : Aml!Picked(q, G)[k] = q[i]
    BY <1>1, <1>3
  <2>3. QED
    BY <1>4, <1>5, <2>1, <2>2
<1>7. \A i \in F, j \in G : q[i] # q[j]
  BY <1>3 DEF Apart
<1>8. \A k \in 1 .. a, l \in 1 .. b : f[k] # g[l]
  BY <1>6, <1>7
<1>9. f \o g \in Seq(U) /\ Apart(f \o g)
  BY <1>6, <1>8, ApartBehind
<1>10. QED
  BY <1>2, <1>4, <1>9

LEMMA DiversifiedFact ==
    ASSUME NEW n \in Nat, NEW U, NEW q \in [1 .. n -> U], Apart(q)
    PROVE  Aml!Diversified(q) \in Seq(U) /\ Apart(Aml!Diversified(q))
<1>1. PICK F : F = {i \in DOMAIN q : Aml!Early(q, i)}
  OBVIOUS
<1>2. F \in SUBSET (1 .. n) /\ DOMAIN q = 1 .. n
  BY <1>1
<1>3. Aml!Diversified(q) = Aml!Picked(q, F) \o Aml!Picked(q, (1 .. n) \ F)
  BY <1>1, <1>2 DEF Aml!Diversified
<1>4. QED
  BY <1>2, <1>3, SplitFact

LEMMA RerankedFact ==
    ASSUME NEW n \in Nat, NEW U, NEW q \in [1 .. n -> U], Apart(q)
    PROVE  \A m \in Nat : \A p \in [1 .. m -> U] :
              Apart(p) => Aml!Reranked(q, p) \in Seq(U) /\ Apart(Aml!Reranked(q, p))
<1>1. \A P \in SUBSET (1 .. n) :
        /\ Aml!Picked(q, P) \in [1 .. Cardinality(P) -> U] /\ Apart(Aml!Picked(q, P))
        /\ \A k \in 1 .. Cardinality(P) : \E i \in P : Aml!Picked(q, P)[k] = q[i]
  BY PickedFact
<1> SUFFICES ASSUME NEW m \in Nat, NEW p \in [1 .. m -> U], Apart(p)
             PROVE  Aml!Reranked(q, p) \in Seq(U) /\ Apart(Aml!Reranked(q, p))
  OBVIOUS
<1> DEFINE G == {i \in DOMAIN q : q[i] \notin Aml!ToSet(p)}
<1>2. G \in SUBSET (1 .. n) /\ Aml!Reranked(q, p) = p \o Aml!Picked(q, G)
  BY DEF Aml!Reranked
<1>3. \A i \in 1 .. m, j \in G : p[i] # q[j]
  BY DEF Aml!ToSet
<1> HIDE DEF G
<1>4. PICK g : g = Aml!Picked(q, G)
  OBVIOUS
<1>5. PICK b \in Nat : b = Cardinality(G)
  BY <1>2, PlaceFact
<1>6. /\ g \in [1 .. b -> U] /\ Apart(g)
      /\ \A k \in 1 .. b : \E i \in G : g[k] = q[i]
  <2>1. /\ Aml!Picked(q, G) \in [1 .. Cardinality(G) -> U] /\ Apart(Aml!Picked(q, G))
        /\ \A k \in 1 .. Cardinality(G) : \E i \in G : Aml!Picked(q, G)[k] = q[i]
    BY <1>1, <1>2
  <2>2. QED
    BY <1>4, <1>5, <2>1
<1>7. \A k \in 1 .. m, l \in 1 .. b : p[k] # g[l]
  BY <1>3, <1>6
<1>8. p \o g \in Seq(U) /\ Apart(p \o g)
  BY <1>6, <1>7, ApartBehind
<1>9. QED
  BY <1>2, <1>4, <1>8

\* The first top_k of what is ranked.
LEMMA CutFact ==
    ASSUME Aml!AmlConstantsOK, NEW U, NEW w \in Seq(U), Apart(w), NEW v,
           v = SubSeq(w, 1, IF Len(w) < TopK THEN Len(w) ELSE TopK)
    PROVE  /\ Aml!ToSet(v) \subseteq U
           /\ Aml!Cardinality(Aml!ToSet(v)) = Len(v) /\ Len(v) <= TopK
<1>1. PICK m : m = IF Len(w) < TopK THEN Len(w) ELSE TopK
  OBVIOUS
<1>2. m \in Nat /\ m <= Len(w) /\ m <= TopK /\ Len(w) \in Nat
  BY <1>1 DEF Aml!AmlConstantsOK
<1>3. v \in [1 .. m -> U] /\ Len(v) = m /\ \A i \in 1 .. m : v[i] = w[i] /\ i \in DOMAIN w
  <2>1. v = SubSeq(w, 1, m)
    BY <1>1
  <2>2. \A i \in 1 .. m : i \in 1 .. Len(w) /\ w[i] \in U /\ i \in DOMAIN w
    BY <1>2
  <2>3. /\ SubSeq(w, 1, m) \in Seq(U)
        /\ Len(SubSeq(w, 1, m)) = IF 1 <= m THEN m - 1 + 1 ELSE 0
        /\ \A i \in 1 .. m - 1 + 1 : SubSeq(w, 1, m)[i] = w[1 + i - 1]
    <3>1. m \in Int /\ 1 \in Int /\ \A i \in 1 .. m : w[i] \in U
      BY <1>2, <2>2
    <3>2. QED
      BY <3>1, SubSeqProperties
  <2>4. v \in Seq(U) /\ Len(v) = m
    <3>1. (IF 1 <= m THEN m - 1 + 1 ELSE 0) = m
      BY <1>2
    <3>2. QED
      BY <2>1, <2>3, <3>1
  <2>5. \A i \in 1 .. m : v[i] = w[i]
    <3>1. m - 1 + 1 = m /\ \A i \in 1 .. m : 1 + i - 1 = i
      BY <1>2
    <3>2. QED
      BY <2>1, <2>3, <3>1
  <2>6. v \in [1 .. m -> U]
    BY <2>4, LenProperties
  <2>7. QED
    BY <2>2, <2>4, <2>5, <2>6
<1>4. Apart(v)
  <2>1. DOMAIN v = 1 .. m /\ \A i \in 1 .. m : i \in DOMAIN w
    BY <1>2, <1>3
  <2>2. \A i, j \in DOMAIN w : w[i] = w[j] => i = j
    BY DEF Apart
  <2>3. ASSUME NEW i \in 1 .. m, NEW j \in 1 .. m, v[i] = v[j]
        PROVE  i = j
    <3>1. w[i] = w[j]
      BY <1>3, <2>3
    <3>2. QED
      BY <2>1, <2>2, <3>1
  <2>4. QED
    BY <2>1, <2>3 DEF Apart
<1>5. Aml!Cardinality(Aml!ToSet(v)) = m
  BY <1>2, <1>3, <1>4, ApartCounts
<1>6. Aml!ToSet(v) \subseteq U
  BY <1>3 DEF Aml!ToSet
<1>7. QED
  BY <1>2, <1>3, <1>5, <1>6

-----------------------------------------------------------------------------
(***************************************************************************)
(* The inductive invariant of a search.  What is stored while it runs is   *)
(* in its history, and what it has read was stored at some time.           *)
(***************************************************************************)
SearchType ==
    /\ points \subseteq Aml!Unit /\ tries \in Nat /\ clears \in Nat
    /\ searching \in {"idle", "vector", "hydrate", "rank", "done"}
    /\ byId \subseteq Aml!Unit /\ hits \subseteq Aml!Unit /\ alive \subseteq Aml!Unit

ReadWasStored ==
    /\ Aml!Searching => Aml!Stored \subseteq alive
    /\ byId \subseteq alive

\* Only what was added is stored, and only what was stored is read.
FiniteStore == IsFiniteSet(Aml!Stored) /\ IsFiniteSet(byId)

AnswerInv == SearchType /\ ReadWasStored /\ FiniteStore /\ Aml!SearchServesStored

LEMMA EmptyAnswer ==
    ASSUME Aml!AmlConstantsOK, NEW q, q = <<>>
    PROVE  /\ Aml!ToSet(q) = {} /\ Aml!Cardinality(Aml!ToSet(q)) = Len(q) /\ Len(q) <= TopK
<1>1. Aml!ToSet(q) = {} /\ Len(q) = 0
  BY DEF Aml!ToSet
<1>2. Aml!Cardinality(Aml!ToSet(q)) = 0
  BY <1>1, AmlCardinality, FS_EmptySet
<1>3. QED
  BY <1>1, <1>2 DEF Aml!AmlConstantsOK

LEMMA InitAnswer ==
    ASSUME Aml!AmlConstantsOK, Aml!Init
    PROVE  AnswerInv
<1>1. \A u \in Aml!Unit : units[u] = None
  BY DEF Aml!Init
<1>2. Aml!Stored = {}
  BY <1>1 DEF Aml!Stored
<1>3. result = <<>> /\ byId = {} /\ alive = {} /\ hits = {} /\ points = {}
  BY DEF Aml!Init
<1>4. SearchType
  BY <1>3 DEF SearchType, Aml!Init
<1>5. FiniteStore
  BY <1>2, <1>3, FS_EmptySet DEF FiniteStore
<1>6. Aml!SearchServesStored
  BY <1>3, EmptyAnswer DEF Aml!SearchServesStored
<1>7. QED
  BY <1>2, <1>3, <1>4, <1>5, <1>6 DEF AnswerInv, ReadWasStored

\* A step that leaves the units and the search alone.
LEMMA BesideSearch ==
    ASSUME AnswerInv, UNCHANGED <<units, Aml!search>>,
           points' \subseteq Aml!Unit, tries' \in Nat, clears' \in Nat
    PROVE  AnswerInv'
<1>1. UNCHANGED <<units, searching, byId, hits, result, alive>>
  BY DEF Aml!search
<1>2. UNCHANGED <<Aml!Stored, Aml!Searching>>
  BY <1>1 DEF Aml!Stored, Aml!Searching
<1>3. QED
  BY <1>1, <1>2 DEF AnswerInv, SearchType, ReadWasStored, FiniteStore, Aml!SearchServesStored

\* A unit that is stored while a search runs enters its history.
LEMMA StoreUnitAnswer ==
    ASSUME Aml!AmlConstantsOK, AddInv, AnswerInv, NEW a \in Add, Aml!StoreUnit(a)
    PROVE  AnswerInv'
<1> DEFINE n == next[a]
           u == <<IdOf[a], n>>
<1>1. n \in 1 .. Size[PayloadOf[a]]
  <2>1. n \in Nat \ {0} /\ n <= Size[PayloadOf[a]]
    BY DEF AddInv, AddType, NextInRange
  <2>2. Size[PayloadOf[a]] \in Nat
    BY LargestFact DEF Aml!AmlConstantsOK
  <2>3. QED
    BY <2>1, <2>2
<1>2. u \in Aml!Unit
  BY <1>1, UnitFact
<1>3. /\ UNCHANGED <<searching, byId, hits, result, points, tries, clears>>
      /\ \E p : units' = [units EXCEPT ![u] = p]
      /\ alive' = IF Aml!Searching THEN alive \cup {u} ELSE alive
  BY DEF Aml!StoreUnit, Aml!Stores
<1> HIDE DEF n, u
<1>4. Aml!Stored' \subseteq Aml!Stored \cup {u}
  BY <1>2, <1>3 DEF AddInv, AddType, Aml!Stored
<1>5. IsFiniteSet(Aml!Stored')
  <2>1. IsFiniteSet(Aml!Stored \cup {u})
    BY FS_AddElement DEF AnswerInv, FiniteStore
  <2>2. QED
    BY <1>4, <2>1, FS_Subset
<1>6. SearchType' /\ FiniteStore'
  BY <1>2, <1>3, <1>5 DEF AnswerInv, SearchType, FiniteStore
<1>7. Aml!Searching' <=> Aml!Searching
  BY <1>3 DEF Aml!Searching
<1>8. ReadWasStored'
  BY <1>3, <1>4, <1>7 DEF AnswerInv, ReadWasStored
<1>9. Aml!SearchServesStored'
  BY <1>3 DEF AnswerInv, Aml!SearchServesStored
<1>10. QED
  BY <1>6, <1>8, <1>9 DEF AnswerInv

LEMMA ClearUnitsAnswer ==
    ASSUME AnswerInv, Aml!ClearUnits
    PROVE  AnswerInv'
<1>1. /\ UNCHANGED <<searching, byId, hits, result, alive, points, tries>>
      /\ \A u \in Aml!Unit : units'[u] = None
      /\ clears' = clears + 1
  BY DEF Aml!ClearUnits, Aml!search, Aml!adds
<1>2. Aml!Stored' = {}
  BY <1>1 DEF Aml!Stored
<1>3. FiniteStore'
  BY <1>1, <1>2, FS_EmptySet DEF AnswerInv, FiniteStore
<1>4. SearchType'
  BY <1>1 DEF AnswerInv, SearchType
<1>5. QED
  BY <1>1, <1>2, <1>3, <1>4 DEF AnswerInv, ReadWasStored, Aml!SearchServesStored

LEMMA SearchListAnswer ==
    ASSUME Aml!AmlConstantsOK, AnswerInv, Aml!SearchList
    PROVE  AnswerInv'
<1>1. /\ UNCHANGED <<units, points, tries, clears>>
      /\ byId' \subseteq Aml!Stored /\ alive' = Aml!Stored /\ hits' = {} /\ result' = <<>>
      /\ searching' = "vector"
  BY DEF Aml!SearchList, Aml!store, Aml!adds
<1>2. Aml!Stored' = Aml!Stored /\ Aml!Stored \subseteq Aml!Unit
  BY <1>1 DEF Aml!Stored
<1>3. FiniteStore'
  BY <1>1, <1>2, FS_Subset DEF AnswerInv, FiniteStore
<1>4. SearchType' /\ ReadWasStored'
  BY <1>1, <1>2 DEF AnswerInv, SearchType, ReadWasStored
<1>5. Aml!SearchServesStored'
  BY <1>1, EmptyAnswer DEF Aml!SearchServesStored
<1>6. QED
  BY <1>3, <1>4, <1>5 DEF AnswerInv

LEMMA SearchVectorsAnswer ==
    ASSUME AnswerInv, Aml!SearchVectors
    PROVE  AnswerInv'
<1>1. /\ UNCHANGED <<units, points, tries, clears, byId, result, alive>>
      /\ hits' \subseteq points /\ searching = "vector" /\ searching' = "hydrate"
  BY DEF Aml!SearchVectors, Aml!store, Aml!adds
<1>2. Aml!Stored' = Aml!Stored /\ Aml!Searching
  BY <1>1 DEF Aml!Stored, Aml!Searching
<1>3. QED
  BY <1>1, <1>2 DEF AnswerInv, SearchType, ReadWasStored, FiniteStore, Aml!SearchServesStored

LEMMA HydrateAnswer ==
    ASSUME AnswerInv, Aml!Hydrate
    PROVE  AnswerInv'
<1>1. /\ UNCHANGED <<units, points, tries, clears, hits, result, alive>>
      /\ searching = "hydrate" /\ searching' = "rank"
      /\ byId' = byId \cup (hits \cap Aml!Stored)
  BY DEF Aml!Hydrate, Aml!store, Aml!adds
<1>2. /\ Aml!Stored' = Aml!Stored /\ Aml!Searching
      /\ hits \cap Aml!Stored \in SUBSET Aml!Stored
  BY <1>1 DEF Aml!Stored, Aml!Searching
<1>3. IsFiniteSet(hits \cap Aml!Stored)
  BY <1>2, FS_Subset DEF AnswerInv, FiniteStore
<1>4. FiniteStore'
  BY <1>1, <1>2, <1>3, FS_Union DEF AnswerInv, FiniteStore
<1>5. SearchType'
  BY <1>1 DEF AnswerInv, SearchType
<1>6. ReadWasStored'
  BY <1>1, <1>2 DEF AnswerInv, ReadWasStored
<1>7. Aml!SearchServesStored'
  BY <1>1 DEF AnswerInv, Aml!SearchServesStored
<1>8. QED
  BY <1>4, <1>5, <1>6, <1>7 DEF AnswerInv

\* Whatever is ranked and however, each unit comes once and of what was read.
LEMMA RankAnswer ==
    ASSUME Aml!AmlConstantsOK, AnswerInv, Aml!Rank
    PROVE  AnswerInv'
<1>1. PICK S \in SUBSET byId :
        \E q \in Aml!Orders(S), P \in SUBSET S : \E p \in Aml!Orders(P) :
            LET full == IF P = {} THEN Aml!Diversified(q) ELSE Aml!Reranked(q, p) IN
            result' = SubSeq(full, 1, IF Len(full) < TopK THEN Len(full) ELSE TopK)
  BY DEF Aml!Rank
<1>2. PICK q \in Aml!Orders(S), P \in SUBSET S : \E p \in Aml!Orders(P) :
            LET full == IF P = {} THEN Aml!Diversified(q) ELSE Aml!Reranked(q, p) IN
            result' = SubSeq(full, 1, IF Len(full) < TopK THEN Len(full) ELSE TopK)
  BY <1>1
<1>3. PICK p \in Aml!Orders(P) :
            LET full == IF P = {} THEN Aml!Diversified(q) ELSE Aml!Reranked(q, p) IN
            result' = SubSeq(full, 1, IF Len(full) < TopK THEN Len(full) ELSE TopK)
  BY <1>2
<1>4. PICK w : w = IF P = {} THEN Aml!Diversified(q) ELSE Aml!Reranked(q, p)
  OBVIOUS
<1>5. result' = SubSeq(w, 1, IF Len(w) < TopK THEN Len(w) ELSE TopK)
  BY <1>3, <1>4
<1>6. IsFiniteSet(S) /\ IsFiniteSet(P) /\ P \subseteq byId
  <2>1. IsFiniteSet(byId)
    BY DEF AnswerInv, FiniteStore
  <2>2. IsFiniteSet(S)
    BY <2>1, FS_Subset
  <2>3. QED
    BY <2>2, FS_Subset
<1>7. PICK n \in Nat : q \in [1 .. n -> S] /\ Apart(q)
  BY <1>6, OrderFact
<1>8. PICK m \in Nat : p \in [1 .. m -> P] /\ Apart(p)
  BY <1>6, OrderFact
<1>9. q \in [1 .. n -> byId] /\ p \in [1 .. m -> byId]
  BY <1>6, <1>7, <1>8
<1>10. w \in Seq(byId) /\ Apart(w)
  <2>1. Aml!Diversified(q) \in Seq(byId) /\ Apart(Aml!Diversified(q))
    BY <1>7, <1>9, DiversifiedFact
  <2>2. \A l \in Nat : \A r \in [1 .. l -> byId] :
            Apart(r) => Aml!Reranked(q, r) \in Seq(byId) /\ Apart(Aml!Reranked(q, r))
    BY <1>7, <1>9, RerankedFact
  <2>3. Aml!Reranked(q, p) \in Seq(byId) /\ Apart(Aml!Reranked(q, p))
    BY <1>8, <1>9, <2>2
  <2>4. QED
    BY <1>4, <2>1, <2>3
<1>11. /\ Aml!ToSet(result') \subseteq byId
       /\ Aml!Cardinality(Aml!ToSet(result')) = Len(result') /\ Len(result') <= TopK
  <2>1. PICK v : v = result'
    OBVIOUS
  <2>2. v = SubSeq(w, 1, IF Len(w) < TopK THEN Len(w) ELSE TopK)
    BY <1>5, <2>1
  <2>3. PICK U : U = byId
    OBVIOUS
  <2>4. w \in Seq(U) /\ Apart(w)
    BY <1>10, <2>3
  <2>5. /\ Aml!ToSet(v) \subseteq U
        /\ Aml!Cardinality(Aml!ToSet(v)) = Len(v) /\ Len(v) <= TopK
    BY <2>2, <2>4, CutFact
  <2>6. QED
    BY <2>1, <2>3, <2>5
<1>12. /\ UNCHANGED <<units, points, tries, clears, alive>>
       /\ searching' = "done" /\ byId' = {} /\ hits' = {}
  BY DEF Aml!Rank, Aml!store, Aml!adds
<1>13. Aml!SearchServesStored'
  BY <1>11, <1>12 DEF AnswerInv, ReadWasStored, Aml!SearchServesStored
<1>14. Aml!Stored' = Aml!Stored /\ ~Aml!Searching'
  BY <1>12 DEF Aml!Stored, Aml!Searching
<1>15. SearchType' /\ ReadWasStored' /\ FiniteStore'
  BY <1>12, <1>14, FS_EmptySet DEF AnswerInv, SearchType, ReadWasStored, FiniteStore
<1>16. QED
  BY <1>13, <1>15 DEF AnswerInv

LEMMA NextAnswer ==
    ASSUME Aml!AmlConstantsOK, AddInv, AnswerInv, [Aml!Next]_amlVars
    PROVE  AnswerInv'
<1>1. points \subseteq Aml!Unit /\ tries \in Nat /\ clears \in Nat
  BY DEF AnswerInv, SearchType
<1>2. CASE UNCHANGED amlVars
  BY <1>1, <1>2, BesideSearch DEF amlVars, Aml!search
<1>3. ASSUME NEW a \in Add, Aml!AddStep(a)
      PROVE  AnswerInv'
  <2>1. CASE Aml!StoreUnit(a)
    BY <2>1, StoreUnitAnswer
  <2>2. CASE Aml!IndexUnits(a)
    <3>1. Aml!UnitsOf(a) \subseteq Aml!Unit
      BY UnitFact DEF Aml!UnitsOf
    <3>2. QED
      BY <1>1, <2>2, <3>1, BesideSearch DEF Aml!IndexUnits
  <2>3. CASE Aml!Send(a)
    <3>1. tries' \in Nat /\ UNCHANGED <<units, points, clears, Aml!search>>
      BY <1>1, <2>3 DEF Aml!Send, Aml!store
    <3>2. QED
      BY <1>1, <3>1, BesideSearch
  <2>4. CASE Aml!Reserve(a) \/ Aml!IndexFails(a) \/ Aml!Complete(a) \/ Aml!Fail(a)
    <3>1. UNCHANGED <<units, points, tries, clears, Aml!search>>
      BY <2>4 DEF Aml!Reserve, Aml!IndexFails, Aml!Complete, Aml!Fail, Aml!store
    <3>2. QED
      BY <1>1, <3>1, BesideSearch
  <2>5. QED
    BY <1>3, <2>1, <2>2, <2>3, <2>4 DEF Aml!AddStep
<1>4. CASE Aml!ClearRows \/ Aml!ClearPoints \/ Aml!ClearFails
  <2>1. points' \subseteq Aml!Unit /\ UNCHANGED <<units, tries, clears, Aml!search>>
    BY <1>1, <1>4 DEF Aml!ClearRows, Aml!ClearPoints, Aml!ClearFails, Aml!store, Aml!adds
  <2>2. QED
    BY <1>1, <2>1, BesideSearch
<1>5. QED
  BY <1>2, <1>3, <1>4, ClearUnitsAnswer, SearchListAnswer, SearchVectorsAnswer, HydrateAnswer,
     RankAnswer DEF Aml!Next

\* What is stored while a search runs is in its history, and what it has read is
\* finitely many units of that, for any adds, clears and searches.
THEOREM AnswerInvariance == ServicesSpec => [](part = "aml" => AddInv /\ AnswerInv)
<1>1. ServicesInit => (part = "aml" => AddInv /\ AnswerInv)
  BY ServicesOK, InitAdd, InitAnswer DEF ServicesInit
<1>2. (part = "aml" => AddInv /\ AnswerInv) /\ [ServicesNext]_allVars
        => (part = "aml" => AddInv /\ AnswerInv)'
  BY ServicesOK, NextAdd, NextAnswer, AmlPart
<1>3. QED
  BY <1>1, <1>2, PTL DEF ServicesSpec

\* What a search returns was stored while it ran, no unit twice and at most top_k,
\* however it ranks, diversifies and reranks, and whatever is added or cleared beside it.
THEOREM SearchAlwaysServesStored == ServicesSpec => []SearchServesStored
<1>1. (part = "aml" => AddInv /\ AnswerInv) => SearchServesStored
  BY DEF AnswerInv, SearchServesStored
<1>2. QED
  BY <1>1, AnswerInvariance, PTL

-----------------------------------------------------------------------------
(***************************************************************************)
(* Accounts.  An application that waits to write has read that no live     *)
(* user has its account; while it is the only one of the account to wait,  *)
(* and no administrator enters the account, nobody else can write it.      *)
(***************************************************************************)
\* Some user is at hand when a key is issued or a row is linked.
AtHand ==
    \A r \in Onb!Request : reqPc[r] \in {"link", "issue"} => user[r] \in 1 .. Len(users)

\* A prefix is that of one key, and the keys are those that were handed out.
KeysInv ==
    /\ \A k, l \in keys : k.prefix = l.prefix => k = l
    /\ \A k \in keys : k.secret \in returned
    /\ \A r \in returned :
        /\ reqPc[r] = "done"
        /\ [prefix |-> drawn[r], secret |-> r, user |-> user[r]] \in keys

\* Applications of one account that wait at once are known to history, and so is
\* any account that somebody has while an application of it waits.
AloneInv ==
    \A r \in Application : reqPc[r] \in Onb!Pending /\ AccountOf[r] \notin mixed =>
        /\ \A q \in Application :
              reqPc[q] \in Onb!Pending /\ AccountOf[q] = AccountOf[r] => q = r
        /\ \A u \in 1 .. Len(users) :
              users[u].account = AccountOf[r] => users[u].deleted

\* A row that waits to be linked, by one application, is linked to nobody else.
LinkInv ==
    \A r \in Application : reqPc[r] = "link" /\ user[r] \notin twice =>
        /\ \A q \in Application : reqPc[q] = "link" /\ user[q] = user[r] => q = r
        /\ users[user[r]].account \in {None, AccountOf[r]}

OneLive ==
    \A u, v \in 1 .. Len(users) :
        /\ ~users[u].deleted /\ ~users[v].deleted
        /\ users[u].account = users[v].account
        /\ users[u].account \notin mixed \cup {None}
        => u = v

AccountInv == Onb!TypeOK /\ AtHand /\ KeysInv /\ AloneInv /\ LinkInv /\ OneLive

-----------------------------------------------------------------------------
(* Whom a key opens. *)

LEMMA OneAndNone ==
    /\ Onb!Cardinality({}) = 0
    /\ \A k : Onb!Cardinality({k}) = 1
<1>1. \A S : Onb!Cardinality(S) = Cardinality(S)
  BY DEF Onb!Cardinality, Cardinality
<1>2. QED
  BY <1>1, FS_EmptySet, FS_Singleton

LEMMA OpensKey ==
    ASSUME KeysInv, NEW k \in keys
    PROVE  Onb!Opens(k.prefix, k.secret) = k.user
<1>1. {l \in keys : l.prefix = k.prefix} = {k}
  BY DEF KeysInv
<1>2. Onb!Cardinality({k}) = 1 /\ (CHOOSE l \in {k} : TRUE) = k
  BY OneAndNone
<1>3. QED
  BY <1>1, <1>2 DEF Onb!Opens

LEMMA OpensNobody ==
    ASSUME NEW p, NEW s, \A k \in keys : k.secret # s
    PROVE  Onb!Opens(p, s) = 0
<1> DEFINE S == {l \in keys : l.prefix = p}
<1>1. CASE S = {}
  <2>1. Onb!Cardinality(S) # 1
    BY <1>1, OneAndNone
  <2>2. QED
    BY <2>1 DEF Onb!Opens
<1>2. CASE S # {}
  <2>1. ~ \A k \in S : k.secret = s
    BY <1>2
  <2>2. QED
    BY <2>1 DEF Onb!Opens
<1>3. QED
  BY <1>1, <1>2

LEMMA OpensSomebody ==
    ASSUME Onb!TypeOK, NEW p, NEW s, Onb!Opens(p, s) # 0
    PROVE  Onb!Opens(p, s) \in 1 .. Len(users)
<1> DEFINE S == {l \in keys : l.prefix = p}
<1>1. Onb!Cardinality(S) = 1 /\ Onb!Opens(p, s) = (CHOOSE k \in S : TRUE).user
  BY DEF Onb!Opens
<1>2. S # {}
  BY <1>1, OneAndNone
<1>3. (CHOOSE k \in S : TRUE) \in keys
  BY <1>2
<1>4. QED
  BY <1>1, <1>3 DEF Onb!TypeOK, Onb!User

\* What an application finds.
LEMMA WhomFact ==
    ASSUME Onb!TypeOK, NEW a \in Account, NEW e, NEW w, w = Onb!Whom(a, e)
    PROVE  /\ w.go \in {"failed", "issue", "boot", "refused", "link"}
           /\ w.u \in 0 .. Len(users)
           /\ w.go \in {"issue", "link"} => w.u \in 1 .. Len(users)
           /\ w.go \in Onb!Pending =>
                \A u \in 1 .. Len(users) : users[u].account = a => users[u].deleted
           /\ w.go = "link" => users[w.u].account \in {None, a}
<1>1. DOMAIN users = 1 .. Len(users) /\ Len(users) \in Nat
  BY DEF Onb!TypeOK
<1>2. Onb!Of(a) \subseteq 1 .. Len(users) /\ Onb!With(e) \subseteq 1 .. Len(users)
  BY <1>1 DEF Onb!Of, Onb!With, Onb!Live, Onb!User
<1>3. \A S : S # {} => Onb!The(S) \in S
  BY DEF Onb!The
<1>4. Onb!Of(a) = {} => \A u \in 1 .. Len(users) : users[u].account = a => users[u].deleted
  BY <1>1 DEF Onb!Of, Onb!Live, Onb!User
<1>5. QED
  BY <1>1, <1>2, <1>3, <1>4 DEF Onb!Whom, Onb!Pending

-----------------------------------------------------------------------------
(* The steps. *)

LEMMA InitAccount == Onb!OnboardingOK /\ Onb!Init => AccountInv
<1> SUFFICES ASSUME Onb!OnboardingOK, Onb!Init PROVE AccountInv
  OBVIOUS
<1>1. Onb!TypeOK
  BY DEF Onb!Init, Onb!TypeOK, Onb!OnboardingOK, Onb!User
<1>2. Len(users) = 0
  BY DEF Onb!Init
<1>3. QED
  BY <1>1, <1>2 DEF Onb!Init, AccountInv, AtHand, KeysInv, AloneInv, LinkInv, OneLive,
                    Onb!Pending, Onb!Request

\* A step after which the rows and what waits to write them are as before.
LEMMA UsersFrame ==
    ASSUME AccountInv, users' = users, mixed' = mixed, twice' = twice,
           \A r \in Application : reqPc'[r] \in Onb!Pending =>
               reqPc'[r] = reqPc[r] /\ user'[r] = user[r]
    PROVE  AloneInv' /\ LinkInv' /\ OneLive'
<1>1. AloneInv'
  BY DEF AccountInv, AloneInv, Onb!Pending
<1>2. LinkInv'
  BY DEF AccountInv, LinkInv, Onb!Pending
<1>3. OneLive'
  BY DEF AccountInv, OneLive
<1>4. QED
  BY <1>1, <1>2, <1>3

\* A step after which the keys and those who have them are as before.
LEMMA KeysFrame ==
    ASSUME AccountInv, keys' = keys, returned' = returned,
           \A r \in Onb!Request : reqPc[r] = "done" =>
               reqPc'[r] = "done" /\ user'[r] = user[r] /\ drawn'[r] = drawn[r]
    PROVE  KeysInv'
BY DEF AccountInv, KeysInv, Onb!TypeOK

\* A key is stored, or refused.
LEMMA KeyStored ==
    ASSUME AccountInv, NEW r \in Onb!Request, reqPc[r] # "done", NEW p \in Prefix,
           drawn' = [drawn EXCEPT ![r] = p], NEW u \in 1 .. Len(users'), user'[r] = u,
           \A q \in Onb!Request \ {r} : user'[q] = user[q],
           Len(users) <= Len(users'), Len(users') \in Nat, users' \in Seq(Onb!Rows),
           Onb!StoreKey(r, u)
    PROVE  /\ KeysInv'
           /\ keys' \subseteq [prefix : Prefix, secret : Onb!Request, user : Onb!User']
           /\ returned' \subseteq Onb!Request
           /\ reqPc' = [reqPc EXCEPT ![r] = "failed"] \/ reqPc' = [reqPc EXCEPT ![r] = "done"]
<1>1. /\ reqPc \in [Onb!Request -> {"idle", "issue", "done", "failed", "refused"}
                    \cup Onb!Pending]
      /\ drawn \in [Onb!Request -> Prefix \cup {None}] /\ returned \subseteq Onb!Request
  BY DEF AccountInv, Onb!TypeOK
<1>2. drawn'[r] = p /\ \A q \in Onb!Request \ {r} : drawn'[q] = drawn[q]
  BY <1>1
<1>3. keys \subseteq [prefix : Prefix, secret : Onb!Request, user : Onb!User']
  <2>1. DOMAIN users = 1 .. Len(users) /\ Len(users) \in Nat /\ DOMAIN users' = 1 .. Len(users')
    BY DEF AccountInv, Onb!TypeOK
  <2>2. Onb!User \subseteq Onb!User'
    BY <2>1 DEF Onb!User
  <2>3. QED
    BY <2>2 DEF AccountInv, Onb!TypeOK
<1>4. r \notin returned
  BY DEF AccountInv, KeysInv
<1>5. CASE p \in Onb!Taken
  <2>1. reqPc' = [reqPc EXCEPT ![r] = "failed"] /\ keys' = keys /\ returned' = returned
    BY <1>2, <1>5 DEF Onb!StoreKey
  <2>2. \A q \in returned : q # r /\ reqPc'[q] = reqPc[q] /\ drawn'[q] = drawn[q]
           /\ user'[q] = user[q]
    BY <1>1, <1>2, <1>4, <2>1
  <2>3. KeysInv'
    BY <2>1, <2>2 DEF AccountInv, KeysInv
  <2>4. QED
    BY <1>1, <1>3, <2>1, <2>3
<1>6. CASE p \notin Onb!Taken
  <2>1. PICK k : k = [prefix |-> p, secret |-> r, user |-> u]
    OBVIOUS
  <2>2. /\ reqPc' = [reqPc EXCEPT ![r] = "done"]
        /\ keys' = keys \cup {k} /\ returned' = returned \cup {r}
    BY <1>2, <1>6, <2>1 DEF Onb!StoreKey, Onb!Key
  <2>3. \A q \in returned : q # r /\ reqPc'[q] = reqPc[q] /\ drawn'[q] = drawn[q]
           /\ user'[q] = user[q]
    BY <1>1, <1>2, <1>4, <2>2
  <2>4. \A l \in keys : l.prefix # k.prefix
    BY <1>6, <2>1 DEF Onb!Taken
  <2>5. \A l, m \in keys' : l.prefix = m.prefix => l = m
    BY <2>2, <2>4 DEF AccountInv, KeysInv
  <2>6. \A l \in keys' : l.secret \in returned'
    BY <2>1, <2>2 DEF AccountInv, KeysInv
  <2>7. ASSUME NEW q \in returned'
        PROVE  /\ reqPc'[q] = "done"
               /\ [prefix |-> drawn'[q], secret |-> q, user |-> user'[q]] \in keys'
    <3>1. CASE q = r
      BY <1>1, <1>2, <2>1, <2>2, <3>1
    <3>2. CASE q # r
      BY <2>2, <2>3, <3>2 DEF AccountInv, KeysInv
    <3>3. QED
      BY <3>1, <3>2
  <2>8. KeysInv'
    BY <2>5, <2>6, <2>7 DEF KeysInv
  <2>9. k \in [prefix : Prefix, secret : Onb!Request, user : Onb!User']
    BY <2>1 DEF Onb!User
  <2>10. QED
    BY <1>1, <1>3, <2>2, <2>8, <2>9
<1>7. QED
  BY <1>5, <1>6

LEMMA AccountIssue ==
    ASSUME Onb!OnboardingOK, AccountInv, NEW r \in Onb!Request, Onb!Issue(r)
    PROVE  AccountInv'
<1>1. PICK p \in Prefix : drawn' = [drawn EXCEPT ![r] = p]
  BY DEF Onb!Issue
<1>2. PICK u : u = user[r]
  OBVIOUS
<1>3. u \in 1 .. Len(users) /\ reqPc[r] = "issue" /\ Onb!StoreKey(r, u)
  BY <1>2 DEF Onb!Issue, AccountInv, AtHand
<1>4. /\ UNCHANGED <<tenants, users, user, mixed, twice>> /\ taken' = [taken EXCEPT ![r] = {}]
  BY DEF Onb!Issue, Onb!past
<1>5. /\ KeysInv'
      /\ keys' \subseteq [prefix : Prefix, secret : Onb!Request, user : Onb!User']
      /\ returned' \subseteq Onb!Request
      /\ reqPc' = [reqPc EXCEPT ![r] = "failed"] \/ reqPc' = [reqPc EXCEPT ![r] = "done"]
  <2>1. Len(users) <= Len(users') /\ Len(users') \in Nat /\ users' \in Seq(Onb!Rows)
        /\ u \in 1 .. Len(users')
    BY <1>3, <1>4 DEF AccountInv, Onb!TypeOK
  <2>2. user'[r] = u /\ (\A q \in Onb!Request \ {r} : user'[q] = user[q]) /\ reqPc[r] # "done"
    BY <1>2, <1>3, <1>4
  <2>3. QED
    BY <1>1, <1>3, <2>1, <2>2, KeyStored
<1>6. Onb!TypeOK'
  BY <1>1, <1>4, <1>5 DEF AccountInv, Onb!TypeOK
<1>7. \A q \in Onb!Request : reqPc'[q] = reqPc[q] \/ reqPc'[q] \in {"failed", "done"}
  BY <1>5 DEF AccountInv, Onb!TypeOK
<1>8. AtHand'
  BY <1>4, <1>7 DEF AccountInv, AtHand
<1>9. AloneInv' /\ LinkInv' /\ OneLive'
  BY <1>4, <1>7, UsersFrame DEF Onb!Pending, Onb!Request
<1>10. QED
  BY <1>5, <1>6, <1>8, <1>9 DEF AccountInv

\* A request gives up.
LEMMA AccountFails ==
    ASSUME Onb!OnboardingOK, AccountInv, NEW r \in Onb!Request, Onb!IssueFails(r) \/ Onb!Lost(r)
    PROVE  AccountInv'
<1>1. /\ reqPc[r] # "done" /\ reqPc' = [reqPc EXCEPT ![r] = "failed"]
      /\ taken' = [taken EXCEPT ![r] = {}]
      /\ UNCHANGED <<tenants, users, keys, user, drawn, returned, mixed, twice>>
  BY DEF Onb!IssueFails, Onb!Lost, Onb!tables, Onb!past, Onb!Pending
<1>2. Onb!TypeOK'
  BY <1>1 DEF AccountInv, Onb!TypeOK, Onb!User
<1>3. \A q \in Onb!Request : reqPc'[q] = IF q = r THEN "failed" ELSE reqPc[q]
  BY <1>1 DEF AccountInv, Onb!TypeOK
<1>4. AtHand'
  BY <1>1, <1>3 DEF AccountInv, AtHand
<1>5. KeysInv'
  BY <1>1, <1>3, KeysFrame
<1>6. AloneInv' /\ LinkInv' /\ OneLive'
  BY <1>1, <1>3, UsersFrame DEF Onb!Pending, Onb!Request
<1>7. QED
  BY <1>2, <1>4, <1>5, <1>6 DEF AccountInv

LEMMA AccountAskMore ==
    ASSUME Onb!OnboardingOK, AccountInv, NEW r \in Extra, Onb!AskMore(r)
    PROVE  AccountInv'
<1>1. PICK q \in returned : /\ Onb!Opens(drawn[q], q) # 0
                            /\ user' = [user EXCEPT ![r] = Onb!Opens(drawn[q], q)]
  BY DEF Onb!AskMore
<1>2. PICK u : u = Onb!Opens(drawn[q], q)
  OBVIOUS
<1>3. u \in 1 .. Len(users)
  BY <1>1, <1>2, OpensSomebody DEF AccountInv
<1>4. /\ reqPc[r] = "idle" /\ reqPc' = [reqPc EXCEPT ![r] = "issue"]
      /\ user' = [user EXCEPT ![r] = u] /\ taken' = [taken EXCEPT ![r] = Onb!Taken]
      /\ UNCHANGED <<tenants, users, keys, drawn, returned, mixed, twice>>
  BY <1>1, <1>2 DEF Onb!AskMore, Onb!tables, Onb!past
<1>5. r \in Onb!Request /\ r \notin Application
  BY DEF Onb!Request, Onb!OnboardingOK
<1>6. Onb!Taken \subseteq Prefix
  BY DEF AccountInv, Onb!TypeOK, Onb!Taken
<1>7. u \in 0 .. MaxUsers
  BY <1>3 DEF AccountInv, Onb!TypeOK, Onb!OnboardingOK
<1>8. Onb!TypeOK'
  BY <1>4, <1>5, <1>6, <1>7 DEF AccountInv, Onb!TypeOK, Onb!User
<1>9. \A s \in Onb!Request : /\ reqPc'[s] = IF s = r THEN "issue" ELSE reqPc[s]
                             /\ user'[s] = IF s = r THEN u ELSE user[s]
  BY <1>4 DEF AccountInv, Onb!TypeOK
<1>10. AtHand'
  BY <1>3, <1>4, <1>9 DEF AccountInv, AtHand
<1>11. KeysInv'
  BY <1>4, <1>9, KeysFrame
<1>12. AloneInv' /\ LinkInv' /\ OneLive'
  <2>1. \A s \in Application : reqPc'[s] = reqPc[s] /\ user'[s] = user[s]
    BY <1>5, <1>9 DEF Onb!Request
  <2>2. QED
    BY <1>4, <2>1, UsersFrame
<1>13. QED
  BY <1>8, <1>10, <1>11, <1>12 DEF AccountInv

LEMMA AccountLook ==
    ASSUME Onb!OnboardingOK, AccountInv, NEW r \in Application, Onb!Look(r)
    PROVE  AccountInv'
<1> DEFINE a == AccountOf[r]
           rest == {q \in Application \ {r} : reqPc[q] \in Onb!Pending}
<1>1. PICK w : w = Onb!Whom(a, EmailOf[r])
  OBVIOUS
<1>2. PICK g : g = IF w.go = "boot" /\ Slug[a] \in tenants THEN "refused" ELSE w.go
  OBVIOUS
<1>3. /\ reqPc[r] = "idle" /\ reqPc' = [reqPc EXCEPT ![r] = g]
         /\ user' = [user EXCEPT ![r] = w.u]
      /\ mixed' = IF \E q \in rest : AccountOf[q] = a THEN mixed \cup {a} ELSE mixed
      /\ twice' = IF w.go = "link" /\ \E q \in rest : reqPc[q] = "link" /\ user[q] = w.u
                  THEN twice \cup {w.u} ELSE twice
      /\ UNCHANGED <<tenants, users, keys, drawn, returned>>
  BY <1>1, <1>2 DEF Onb!Look, Onb!tables
<1>4. a \in Account /\ r \in Onb!Request
  BY DEF Onb!OnboardingOK, Onb!Request
<1>5. /\ w.go \in {"failed", "issue", "boot", "refused", "link"}
      /\ w.u \in 0 .. Len(users)
      /\ w.go \in {"issue", "link"} => w.u \in 1 .. Len(users)
      /\ w.go \in Onb!Pending =>
           \A u \in 1 .. Len(users) : users[u].account = a => users[u].deleted
      /\ w.go = "link" => users[w.u].account \in {None, a}
  BY <1>1, <1>4, WhomFact DEF AccountInv
<1>6. /\ g \in {"failed", "issue", "refused"} \cup Onb!Pending
      /\ g = "issue" => w.go = "issue"
      /\ g = "boot" => w.go = "boot"
      /\ g = "link" <=> w.go = "link"
  BY <1>2, <1>5 DEF Onb!Pending
<1>7. \A q \in Onb!Request : /\ reqPc'[q] = IF q = r THEN g ELSE reqPc[q]
                             /\ user'[q] = IF q = r THEN w.u ELSE user[q]
  BY <1>3 DEF AccountInv, Onb!TypeOK
<1>8. mixed \subseteq mixed' /\ twice \subseteq twice'
  BY <1>3
<1> HIDE DEF a
<1>9. Onb!TypeOK'
  <2>1. taken' \in [Onb!Request -> SUBSET Prefix]
    <3>1. Onb!Taken \subseteq Prefix
      BY DEF AccountInv, Onb!TypeOK, Onb!Taken
    <3>2. PICK S \in SUBSET Prefix : taken' = [taken EXCEPT ![r] = S]
      BY <3>1 DEF Onb!Look
    <3>3. QED
      BY <3>2 DEF AccountInv, Onb!TypeOK
  <2>2. mixed' \subseteq Account
    BY <1>3, <1>4 DEF AccountInv, Onb!TypeOK
  <2>3. Len(users) \in Nat /\ Len(users) <= MaxUsers /\ MaxUsers \in Nat
    BY DEF AccountInv, Onb!TypeOK, Onb!OnboardingOK
  <2>4. twice' \subseteq 1 .. MaxUsers
    <3>1. twice \subseteq 1 .. MaxUsers
      BY DEF AccountInv, Onb!TypeOK
    <3>2. w.go = "link" => w.u \in 1 .. MaxUsers
      BY <1>5, <2>3
    <3>3. QED
      BY <1>3, <3>1, <3>2
  <2>5. w.u \in 0 .. MaxUsers
    BY <1>5, <2>3
  <2>6. QED
    BY <1>3, <1>4, <1>6, <2>1, <2>2, <2>4, <2>5 DEF AccountInv, Onb!TypeOK, Onb!User
<1>10. AtHand'
  BY <1>3, <1>5, <1>6, <1>7 DEF AccountInv, AtHand
<1>11. KeysInv'
  <2>1. \A q \in Onb!Request : reqPc[q] = "done" =>
           reqPc'[q] = "done" /\ user'[q] = user[q] /\ drawn'[q] = drawn[q]
    BY <1>3, <1>7
  <2>2. QED
    BY <1>3, <2>1, KeysFrame
<1>12. AloneInv'
  <2>1. SUFFICES ASSUME NEW q \in Application, reqPc'[q] \in Onb!Pending,
                        AccountOf[q] \notin mixed'
                 PROVE  /\ \A s \in Application :
                              reqPc'[s] \in Onb!Pending /\ AccountOf[s] = AccountOf[q] => s = q
                        /\ \A u \in 1 .. Len(users) :
                              users[u].account = AccountOf[q] => users[u].deleted
    BY <1>3 DEF AloneInv, Onb!Pending
  <2>2. AccountOf[q] \notin mixed
    BY <1>8, <2>1
  <2>3. Application \subseteq Onb!Request
    BY DEF Onb!Request
  <2>4. \A s \in Application \ {r} :
           reqPc'[s] = reqPc[s] /\ (reqPc[s] \in Onb!Pending => s \in rest)
    BY <1>7, <2>3
  <2>5. CASE q = r
    <3>1. w.go \in Onb!Pending
      BY <1>6, <1>7, <2>1, <2>3, <2>5 DEF Onb!Pending
    <3>2. \A s \in rest : AccountOf[s] # a
      BY <1>3, <2>1, <2>5 DEF a
    <3>3. QED
      BY <1>5, <2>4, <2>5, <3>1, <3>2 DEF a
  <2>6. CASE q # r
    <3>1. reqPc[q] \in Onb!Pending /\ q \in rest
      BY <2>1, <2>4, <2>6
    <3>2. AccountOf[q] # a
      BY <1>3, <2>1, <3>1 DEF a
    <3>3. \A s \in Application \ {r} :
             reqPc'[s] \in Onb!Pending /\ AccountOf[s] = AccountOf[q] => s = q
      BY <2>2, <2>4, <3>1 DEF AccountInv, AloneInv
    <3>4. \A u \in 1 .. Len(users) : users[u].account = AccountOf[q] => users[u].deleted
      BY <2>2, <3>1 DEF AccountInv, AloneInv
    <3>5. QED
      BY <3>2, <3>3, <3>4 DEF a
  <2>7. QED
    BY <2>5, <2>6
<1>13. LinkInv'
  <2>1. SUFFICES ASSUME NEW q \in Application, reqPc'[q] = "link", user'[q] \notin twice'
                 PROVE  /\ \A s \in Application :
                              reqPc'[s] = "link" /\ user'[s] = user'[q] => s = q
                        /\ users[user'[q]].account \in {None, AccountOf[q]}
    BY <1>3 DEF LinkInv
  <2>2. Application \subseteq Onb!Request
    BY DEF Onb!Request
  <2>3. \A s \in Application \ {r} :
           /\ reqPc'[s] = reqPc[s] /\ user'[s] = user[s]
           /\ reqPc[s] = "link" => s \in rest
    BY <1>7, <2>2 DEF Onb!Pending
  <2>4. CASE q = r
    <3>1. w.go = "link" /\ user'[q] = w.u
      BY <1>6, <1>7, <2>1, <2>2, <2>4
    <3>2. \A s \in rest : ~(reqPc[s] = "link" /\ user[s] = w.u)
      BY <1>3, <2>1, <3>1
    <3>3. \A s \in Application \ {r} : ~(reqPc'[s] = "link" /\ user'[s] = user'[q])
      BY <2>3, <3>1, <3>2
    <3>4. QED
      BY <1>5, <2>4, <3>1, <3>3 DEF a
  <2>5. CASE q # r
    <3>1. reqPc[q] = "link" /\ user'[q] = user[q] /\ user[q] \notin twice /\ q \in rest
      BY <1>8, <2>1, <2>3, <2>5
    <3>2. ~(reqPc'[r] = "link" /\ user'[r] = user[q])
      <4>1. SUFFICES ASSUME reqPc'[r] = "link", user'[r] = user[q] PROVE FALSE
        OBVIOUS
      <4>2. w.go = "link" /\ w.u = user[q]
        BY <1>4, <1>6, <1>7, <4>1
      <4>3. w.u \in twice'
        BY <1>3, <3>1, <4>2
      <4>4. QED
        BY <2>1, <3>1, <4>2, <4>3
    <3>3. \A s \in Application \ {r} : reqPc'[s] = "link" /\ user'[s] = user[q] => s = q
      BY <2>3, <3>1 DEF AccountInv, LinkInv
    <3>4. users[user[q]].account \in {None, AccountOf[q]}
      BY <3>1 DEF AccountInv, LinkInv
    <3>5. QED
      BY <3>1, <3>2, <3>3, <3>4
  <2>6. QED
    BY <2>4, <2>5
<1>14. OneLive'
  BY <1>3, <1>8 DEF AccountInv, OneLive
<1>15. QED
  BY <1>9, <1>10, <1>11, <1>12, <1>13, <1>14 DEF AccountInv

LEMMA AccountLink ==
    ASSUME Onb!OnboardingOK, AccountInv, NEW r \in Application, Onb!Link(r)
    PROVE  AccountInv'
<1>1. PICK a, u : a = AccountOf[r] /\ u = user[r]
  OBVIOUS
<1>2. /\ reqPc[r] = "link" /\ reqPc' = [reqPc EXCEPT ![r] = "issue"]
      /\ users' = [users EXCEPT ![u].account = a] /\ taken' = [taken EXCEPT ![r] = Onb!Taken]
      /\ UNCHANGED <<tenants, keys, user, drawn, returned, mixed, twice>>
  BY <1>1 DEF Onb!Link, Onb!past
<1>3. r \in Onb!Request /\ a \in Account /\ u \in 1 .. Len(users)
  BY <1>1, <1>2 DEF Onb!OnboardingOK, Onb!Request, AccountInv, AtHand
<1>4. users \in Seq(Onb!Rows) /\ users[u] \in Onb!Rows
  BY <1>3 DEF AccountInv, Onb!TypeOK
<1>5. PICK row : row = [users[u] EXCEPT !.account = a]
  OBVIOUS
<1>6. row \in Onb!Rows /\ row.account = a /\ row.deleted = users[u].deleted
  BY <1>3, <1>4, <1>5 DEF Onb!Rows
<1>7. users' = [users EXCEPT ![u] = row]
  BY <1>2, <1>5
<1>8. /\ users' \in Seq(Onb!Rows) /\ Len(users') = Len(users) /\ Len(users) \in Nat
      /\ DOMAIN users' = DOMAIN users
      /\ \A v \in 1 .. Len(users) : users'[v] = IF v = u THEN row ELSE users[v]
  BY <1>3, <1>4, <1>6, <1>7
<1>9. \A q \in Onb!Request : reqPc'[q] = IF q = r THEN "issue" ELSE reqPc[q]
  BY <1>2 DEF AccountInv, Onb!TypeOK
<1>10. Onb!TypeOK'
  <2>1. Onb!Taken \subseteq Prefix
    BY DEF AccountInv, Onb!TypeOK, Onb!Taken
  <2>2. Onb!User' = Onb!User
    BY <1>8 DEF Onb!User
  <2>3. Len(users') <= MaxUsers
    BY <1>8 DEF AccountInv, Onb!TypeOK
  <2>4. QED
    BY <1>2, <1>3, <1>8, <2>1, <2>2, <2>3 DEF AccountInv, Onb!TypeOK
<1>11. AtHand'
  BY <1>1, <1>2, <1>3, <1>8, <1>9 DEF AccountInv, AtHand
<1>12. KeysInv'
  BY <1>2, <1>9, KeysFrame
<1>13. a \notin mixed =>
          /\ \A q \in Application : reqPc[q] \in Onb!Pending /\ AccountOf[q] = a => q = r
          /\ \A v \in 1 .. Len(users) : users[v].account = a => users[v].deleted
  BY <1>1, <1>2 DEF AccountInv, AloneInv, Onb!Pending
<1>14. \A q \in Application : reqPc'[q] \in Onb!Pending => q # r /\ reqPc[q] = reqPc'[q]
  BY <1>9 DEF Onb!Pending, Onb!Request
<1>15. AloneInv'
  <2>1. SUFFICES ASSUME NEW q \in Application, reqPc'[q] \in Onb!Pending,
                        AccountOf[q] \notin mixed
                 PROVE  /\ \A s \in Application :
                              reqPc'[s] \in Onb!Pending /\ AccountOf[s] = AccountOf[q] => s = q
                        /\ \A v \in 1 .. Len(users) :
                              users'[v].account = AccountOf[q] => users'[v].deleted
    BY <1>2, <1>8 DEF AloneInv, Onb!Pending
  <2>2. q # r /\ reqPc[q] \in Onb!Pending
    BY <1>14, <2>1
  <2>3. AccountOf[q] # a
    BY <1>13, <2>1, <2>2
  <2>4. \A s \in Application :
           reqPc[s] \in Onb!Pending /\ AccountOf[s] = AccountOf[q] => s = q
    BY <2>1, <2>2 DEF AccountInv, AloneInv
  <2>5. \A v \in 1 .. Len(users) : users[v].account = AccountOf[q] => users[v].deleted
    BY <2>1, <2>2 DEF AccountInv, AloneInv
  <2>6. QED
    BY <1>6, <1>8, <1>14, <2>3, <2>4, <2>5
<1>16. LinkInv'
  <2>1. SUFFICES ASSUME NEW q \in Application, reqPc'[q] = "link", user[q] \notin twice
                 PROVE  /\ \A s \in Application :
                              reqPc'[s] = "link" /\ user[s] = user[q] => s = q
                        /\ users'[user[q]].account \in {None, AccountOf[q]}
    BY <1>2 DEF LinkInv
  <2>2. reqPc[q] = "link" /\ q # r
    BY <1>14, <2>1 DEF Onb!Pending
  <2>3. user[q] # u
    BY <1>1, <1>2, <2>1, <2>2 DEF AccountInv, LinkInv
  <2>4. user[q] \in 1 .. Len(users)
    BY <2>2 DEF AccountInv, AtHand, Onb!Request
  <2>5. QED
    BY <1>8, <1>14, <2>1, <2>2, <2>3, <2>4 DEF AccountInv, LinkInv, Onb!Pending
<1>17. OneLive'
  <2>1. SUFFICES ASSUME NEW v \in 1 .. Len(users), NEW x \in 1 .. Len(users),
                        ~users'[v].deleted, ~users'[x].deleted,
                        users'[v].account = users'[x].account,
                        users'[v].account \notin mixed \cup {None}
                 PROVE  v = x
    BY <1>2, <1>8 DEF OneLive
  <2>2. CASE v = u /\ x # u
    BY <1>6, <1>8, <1>13, <2>1, <2>2
  <2>3. CASE v # u /\ x = u
    BY <1>6, <1>8, <1>13, <2>1, <2>3
  <2>4. CASE v # u /\ x # u
    BY <1>8, <2>1, <2>4 DEF AccountInv, OneLive
  <2>5. QED
    BY <2>2, <2>3, <2>4
<1>18. QED
  BY <1>10, <1>11, <1>12, <1>15, <1>16, <1>17 DEF AccountInv

\* What a row at the end of the table makes of it.
LEMMA UserAdded ==
    ASSUME Onb!OnboardingOK, AccountInv, NEW row \in Onb!Rows, users' = Append(users, row),
           Len(users) < MaxUsers
    PROVE  /\ users' \in Seq(Onb!Rows) /\ Len(users) \in Nat /\ Len(users') = Len(users) + 1
           /\ Len(users') \in 1 .. MaxUsers /\ Onb!User \subseteq Onb!User'
           /\ \A v \in 1 .. Len(users) : users'[v] = users[v]
           /\ users'[Len(users) + 1] = row
           /\ 1 .. Len(users') = 1 .. Len(users) \cup {Len(users) + 1}
<1>1. users \in Seq(Onb!Rows) /\ Len(users) \in Nat
  BY DEF AccountInv, Onb!TypeOK
<1>2. /\ users' \in Seq(Onb!Rows) /\ Len(users') = Len(users) + 1
      /\ \A v \in 1 .. Len(users) : users'[v] = users[v]
      /\ users'[Len(users) + 1] = row
  BY <1>1
<1>3. DOMAIN users = 1 .. Len(users) /\ DOMAIN users' = 1 .. Len(users')
  BY <1>1, <1>2
<1>4. Len(users') \in 1 .. MaxUsers
  BY <1>1, <1>2 DEF AccountInv, Onb!TypeOK, Onb!OnboardingOK
<1>5. 1 .. Len(users') = 1 .. Len(users) \cup {Len(users) + 1}
  BY <1>1, <1>2
<1>6. QED
  BY <1>1, <1>2, <1>3, <1>4, <1>5 DEF Onb!User

\* A user with an account that nobody who waits, and no live user, has.
LEMMA AddedUsers ==
    ASSUME Onb!OnboardingOK, AccountInv, NEW row \in Onb!Rows, users' = Append(users, row),
           Len(users) < MaxUsers,
           mixed \subseteq mixed', twice' = twice,
           \A r \in Application : reqPc'[r] \in Onb!Pending =>
               reqPc'[r] = reqPc[r] /\ user'[r] = user[r],
           row.account \notin mixed' \cup {None} =>
               /\ \A r \in Application :
                     reqPc'[r] \in Onb!Pending => AccountOf[r] # row.account
               /\ \A u \in 1 .. Len(users) :
                     users[u].account = row.account => users[u].deleted
    PROVE  AloneInv' /\ LinkInv' /\ OneLive'
<1> DEFINE n == Len(users) + 1
<1>1. /\ \A v \in 1 .. Len(users) : users'[v] = users[v]
      /\ users'[n] = row /\ 1 .. Len(users') = 1 .. Len(users) \cup {n}
  BY UserAdded
<1> HIDE DEF n
<1>2. AloneInv'
  <2>1. SUFFICES ASSUME NEW q \in Application, reqPc'[q] \in Onb!Pending,
                        AccountOf[q] \notin mixed'
                 PROVE  /\ \A s \in Application :
                              reqPc'[s] \in Onb!Pending /\ AccountOf[s] = AccountOf[q] => s = q
                        /\ \A v \in 1 .. Len(users') :
                              users'[v].account = AccountOf[q] => users'[v].deleted
    BY DEF AloneInv, Onb!Pending
  <2>2. row.account # AccountOf[q]
    BY <2>1 DEF Onb!OnboardingOK
  <2>3. AccountOf[q] \notin mixed /\ reqPc[q] \in Onb!Pending
    BY <2>1
  <2>4. /\ \A s \in Application :
              reqPc[s] \in Onb!Pending /\ AccountOf[s] = AccountOf[q] => s = q
        /\ \A v \in 1 .. Len(users) : users[v].account = AccountOf[q] => users[v].deleted
    BY <2>3 DEF AccountInv, AloneInv
  <2>5. QED
    BY <1>1, <2>2, <2>4
<1>3. LinkInv'
  <2>1. SUFFICES ASSUME NEW q \in Application, reqPc'[q] = "link", user'[q] \notin twice
                 PROVE  /\ \A s \in Application :
                              reqPc'[s] = "link" /\ user'[s] = user'[q] => s = q
                        /\ users'[user'[q]].account \in {None, AccountOf[q]}
    BY DEF LinkInv
  <2>2. reqPc[q] = "link" /\ user'[q] = user[q]
    BY <2>1 DEF Onb!Pending
  <2>3. user[q] \in 1 .. Len(users)
    BY <2>2 DEF AccountInv, AtHand, Onb!Request
  <2>4. QED
    BY <1>1, <2>1, <2>2, <2>3 DEF AccountInv, LinkInv, Onb!Pending
<1>4. OneLive'
  <2>1. SUFFICES ASSUME NEW v \in 1 .. Len(users'), NEW x \in 1 .. Len(users'),
                        ~users'[v].deleted, ~users'[x].deleted,
                        users'[v].account = users'[x].account,
                        users'[v].account \notin mixed' \cup {None}
                 PROVE  v = x
    BY DEF OneLive
  <2>2. CASE v = n \/ x = n
    BY <1>1, <2>1, <2>2
  <2>3. CASE v # n /\ x # n
    BY <1>1, <2>1, <2>3 DEF AccountInv, OneLive
  <2>4. QED
    BY <2>2, <2>3
<1>5. QED
  BY <1>2, <1>3, <1>4

LEMMA AccountBootstrap ==
    ASSUME Onb!OnboardingOK, AccountInv, NEW r \in Application, Onb!Bootstrap(r)
    PROVE  AccountInv'
<1>1. PICK p \in Prefix : drawn' = [drawn EXCEPT ![r] = p]
  BY DEF Onb!Bootstrap
<1>2. PICK a, t : a = AccountOf[r] /\ t = Slug[a]
  OBVIOUS
<1>3. /\ r \in Onb!Request /\ a \in Account /\ EmailOf[r] \in Email
      /\ t \in Onb!Range(Slug)
  BY <1>2 DEF Onb!OnboardingOK, Onb!Request, Onb!Range
<1>4. /\ reqPc[r] = "boot" /\ Len(users) < MaxUsers /\ taken' = [taken EXCEPT ![r] = {}]
      /\ UNCHANGED <<mixed, twice>>
  BY DEF Onb!Bootstrap, Onb!past
<1>5. drawn'[r] = p
  BY <1>1, <1>3 DEF AccountInv, Onb!TypeOK
<1>6. CASE t \in tenants \/ p \in Onb!Taken
  <2>1. reqPc' = [reqPc EXCEPT ![r] = "failed"]
           /\ UNCHANGED <<tenants, users, keys, user, returned>>
    BY <1>2, <1>5, <1>6 DEF Onb!Bootstrap, Onb!tables
  <2>2. Onb!TypeOK'
    BY <1>1, <1>4, <2>1 DEF AccountInv, Onb!TypeOK, Onb!User
  <2>3. \A q \in Onb!Request : /\ reqPc'[q] = IF q = r THEN "failed" ELSE reqPc[q]
                               /\ q # r => drawn'[q] = drawn[q]
    BY <1>1, <2>1 DEF AccountInv, Onb!TypeOK
  <2>4. AtHand'
    BY <2>1, <2>3 DEF AccountInv, AtHand
  <2>5. KeysInv'
    BY <1>4, <2>1, <2>3, KeysFrame
  <2>6. AloneInv' /\ LinkInv' /\ OneLive'
    BY <1>4, <2>1, <2>3, UsersFrame DEF Onb!Pending, Onb!Request
  <2>7. QED
    BY <2>2, <2>4, <2>5, <2>6 DEF AccountInv
<1>7. CASE ~(t \in tenants \/ p \in Onb!Taken)
  <2>1. PICK row : row = [tenant |-> t, email |-> EmailOf[r], account |-> a, deleted |-> FALSE]
    OBVIOUS
  <2>2. row \in Onb!Rows
    BY <1>3, <2>1 DEF Onb!Rows
  <2>3. PICK u : u = Len(users')
    OBVIOUS
  <2>4. /\ tenants' = tenants \cup {t} /\ users' = Append(users, row)
        /\ user' = [user EXCEPT ![r] = u] /\ Onb!StoreKey(r, u)
    BY <1>2, <1>5, <1>7, <2>1, <2>3 DEF Onb!Bootstrap
  <2>5. /\ users' \in Seq(Onb!Rows) /\ Len(users) \in Nat /\ Len(users') = Len(users) + 1
        /\ u \in 1 .. MaxUsers /\ u \in 1 .. Len(users') /\ Len(users) <= Len(users')
        /\ Len(users') \in Nat
    BY <1>4, <2>2, <2>3, <2>4, UserAdded
  <2>6. \A q \in Onb!Request : user'[q] = IF q = r THEN u ELSE user[q]
    BY <2>4 DEF AccountInv, Onb!TypeOK
  <2>7. /\ KeysInv'
        /\ keys' \subseteq [prefix : Prefix, secret : Onb!Request, user : Onb!User']
        /\ returned' \subseteq Onb!Request
        /\ reqPc' = [reqPc EXCEPT ![r] = "failed"] \/ reqPc' = [reqPc EXCEPT ![r] = "done"]
    <3>1. reqPc[r] # "done" /\ user'[r] = u /\ \A q \in Onb!Request \ {r} : user'[q] = user[q]
      BY <1>3, <1>4, <2>6
    <3>2. QED
      BY <1>1, <1>3, <2>4, <2>5, <3>1, KeyStored
  <2>8. \A q \in Onb!Request : /\ q # r => reqPc'[q] = reqPc[q]
                               /\ q = r => reqPc'[q] \in {"failed", "done"}
    BY <2>7 DEF AccountInv, Onb!TypeOK
  <2>9. Onb!TypeOK'
    <3>1. Len(users') <= MaxUsers /\ u \in 0 .. MaxUsers
      BY <2>3, <2>5 DEF Onb!OnboardingOK
    <3>2. QED
      BY <1>1, <1>3, <1>4, <2>4, <2>5, <2>7, <3>1 DEF AccountInv, Onb!TypeOK
  <2>10. AtHand'
    <3>1. ASSUME NEW q \in Onb!Request, reqPc'[q] \in {"link", "issue"}
          PROVE  user'[q] \in 1 .. Len(users')
      <4>1. q # r /\ reqPc[q] \in {"link", "issue"} /\ user'[q] = user[q]
        BY <2>6, <2>8, <3>1
      <4>2. user[q] \in 1 .. Len(users)
        BY <4>1 DEF AccountInv, AtHand
      <4>3. QED
        BY <2>5, <4>1, <4>2
    <3>2. QED
      BY <3>1 DEF AtHand
  <2>11. AloneInv' /\ LinkInv' /\ OneLive'
    <3>1. \A q \in Application : reqPc'[q] \in Onb!Pending =>
             q # r /\ reqPc'[q] = reqPc[q] /\ user'[q] = user[q]
      BY <2>6, <2>8 DEF Onb!Pending, Onb!Request
    <3>2. row.account \notin mixed' \cup {None} =>
             /\ \A q \in Application :
                   reqPc'[q] \in Onb!Pending => AccountOf[q] # row.account
             /\ \A v \in 1 .. Len(users) :
                   users[v].account = row.account => users[v].deleted
      BY <1>2, <1>4, <2>1, <3>1 DEF AccountInv, AloneInv, Onb!Pending
    <3>3. mixed \subseteq mixed' /\ twice' = twice
      BY <1>4
    <3>4. QED
      BY <1>4, <2>2, <2>4, <3>1, <3>2, <3>3, AddedUsers
  <2>12. QED
    BY <2>7, <2>9, <2>10, <2>11 DEF AccountInv
<1>8. QED
  BY <1>6, <1>7

LEMMA AccountCreate ==
    ASSUME Onb!OnboardingOK, AccountInv, NEW e \in Email, NEW a \in Account \cup {None},
           Onb!CreateUser(e, a)
    PROVE  AccountInv'
<1>1. PICK row : row = [tenant |-> Admin, email |-> e, account |-> a, deleted |-> FALSE]
  OBVIOUS
<1>2. row \in Onb!Rows
  BY <1>1 DEF Onb!Rows
<1>3. /\ Len(users) < MaxUsers /\ users' = Append(users, row)
      /\ mixed' = mixed \cup ({a} \ {None})
      /\ UNCHANGED <<tenants, keys, reqPc, user, taken, drawn, returned, twice>>
  BY <1>1 DEF Onb!CreateUser, Onb!locals
<1>4. /\ users' \in Seq(Onb!Rows) /\ Len(users) \in Nat /\ Len(users') = Len(users) + 1
      /\ Len(users') \in 1 .. MaxUsers /\ Onb!User \subseteq Onb!User'
      /\ 1 .. Len(users') = 1 .. Len(users) \cup {Len(users) + 1}
  BY <1>2, <1>3, UserAdded
<1>5. Onb!TypeOK'
  <2>1. keys' \subseteq [prefix : Prefix, secret : Onb!Request, user : Onb!User']
    BY <1>3, <1>4 DEF AccountInv, Onb!TypeOK
  <2>2. Len(users') <= MaxUsers
    BY <1>4 DEF Onb!OnboardingOK
  <2>3. QED
    BY <1>3, <1>4, <2>1, <2>2 DEF AccountInv, Onb!TypeOK
<1>6. AtHand'
  BY <1>3, <1>4 DEF AccountInv, AtHand
<1>7. KeysInv'
  BY <1>3, KeysFrame
<1>8. AloneInv' /\ LinkInv' /\ OneLive'
  <2>1. row.account \in mixed' \cup {None}
    BY <1>1, <1>3
  <2>2. mixed \subseteq mixed' /\ twice' = twice
    BY <1>3
  <2>3. \A r \in Application : reqPc'[r] \in Onb!Pending =>
           reqPc'[r] = reqPc[r] /\ user'[r] = user[r]
    BY <1>3
  <2>4. QED
    BY <1>2, <1>3, <2>1, <2>2, <2>3, AddedUsers
<1>9. QED
  BY <1>5, <1>6, <1>7, <1>8 DEF AccountInv

LEMMA AccountDelete ==
    ASSUME Onb!OnboardingOK, AccountInv, NEW u \in Onb!User, Onb!DeleteUser(u)
    PROVE  AccountInv'
<1>1. users \in Seq(Onb!Rows) /\ u \in 1 .. Len(users) /\ users[u] \in Onb!Rows
  BY DEF AccountInv, Onb!TypeOK, Onb!User
<1>2. PICK row : row = [users[u] EXCEPT !.deleted = TRUE]
  OBVIOUS
<1>3. row \in Onb!Rows /\ row.deleted /\ row.account = users[u].account
  BY <1>1, <1>2 DEF Onb!Rows
<1>4. /\ users' = [users EXCEPT ![u] = row]
      /\ UNCHANGED <<tenants, keys, reqPc, user, taken, drawn, returned, mixed, twice>>
  BY <1>2 DEF Onb!DeleteUser, Onb!locals, Onb!past
<1>5. /\ users' \in Seq(Onb!Rows) /\ Len(users') = Len(users) /\ DOMAIN users' = DOMAIN users
      /\ \A v \in 1 .. Len(users) : /\ users'[v].account = users[v].account
                                    /\ users[v].deleted => users'[v].deleted
  BY <1>1, <1>3, <1>4
<1>6. Onb!TypeOK'
  BY <1>4, <1>5 DEF AccountInv, Onb!TypeOK, Onb!User
<1>7. AtHand'
  BY <1>4, <1>5 DEF AccountInv, AtHand
<1>8. KeysInv'
  BY <1>4, KeysFrame
<1>9. AloneInv'
  BY <1>4, <1>5 DEF AccountInv, AloneInv, Onb!Pending
<1>10. LinkInv'
  <2>1. \A q \in Application : reqPc[q] = "link" => user[q] \in 1 .. Len(users)
    BY DEF AccountInv, AtHand, Onb!Request
  <2>2. QED
    BY <1>4, <1>5, <2>1 DEF AccountInv, LinkInv
<1>11. OneLive'
  BY <1>4, <1>5 DEF AccountInv, OneLive
<1>12. QED
  BY <1>6, <1>7, <1>8, <1>9, <1>10, <1>11 DEF AccountInv

LEMMA NextAccount ==
    Onb!OnboardingOK /\ AccountInv /\ [Onb!Next]_onboardingVars => AccountInv'
<1> SUFFICES ASSUME Onb!OnboardingOK, AccountInv, [Onb!Next]_onboardingVars PROVE AccountInv'
  OBVIOUS
<1>1. CASE UNCHANGED onboardingVars
  BY <1>1 DEF onboardingVars, AccountInv, Onb!TypeOK, AtHand, KeysInv, AloneInv, LinkInv,
              OneLive, Onb!User, Onb!Pending
<1>2. QED
  BY <1>1, AccountIssue, AccountFails, AccountAskMore, AccountLook, AccountLink,
     AccountBootstrap, AccountCreate, AccountDelete DEF Onb!Next

LEMMA OnboardingPart ==
    ASSUME [ServicesNext]_allVars
    PROVE  part' = part /\ (part = "onboarding" => [Onb!Next]_onboardingVars)
BY DEF ServicesNext, allVars, onboardingVars

\* The invariant of accounts and keys, for any tables, applications and prefixes.
THEOREM AccountInvariance == ServicesSpec => [](part = "onboarding" => AccountInv)
<1>1. ServicesInit => (part = "onboarding" => AccountInv)
  BY InitAccount, ServicesOK DEF ServicesInit
<1>2. (part = "onboarding" => AccountInv) /\ [ServicesNext]_allVars
        => (part = "onboarding" => AccountInv)'
  BY NextAccount, OnboardingPart, ServicesOK
<1>3. QED
  BY <1>1, <1>2, PTL DEF ServicesSpec

\* A key opens the account it was made for and no other, a refused one opens none,
\* and an account has one live user, unless two of its applications read at once or
\* an administrator entered it.
THEOREM AccountsAlwaysSound == ServicesSpec => []AccountsSound
<1>1. AccountInv => Onb!AccountsSound
  <2> SUFFICES ASSUME AccountInv PROVE Onb!AccountsSound
    OBVIOUS
  <2>1. ASSUME NEW r \in returned
        PROVE  Onb!Opens(drawn[r], r) = user[r]
    <3>1. PICK k : k = [prefix |-> drawn[r], secret |-> r, user |-> user[r]]
      OBVIOUS
    <3>2. k \in keys
      BY <3>1 DEF AccountInv, KeysInv
    <3>3. Onb!Opens(k.prefix, k.secret) = k.user
      BY <3>2, OpensKey DEF AccountInv
    <3>4. QED
      BY <3>1, <3>3
  <2>2. ASSUME NEW r \in Onb!Request, reqPc[r] = "failed"
        PROVE  Onb!Opens(drawn[r], r) = 0
    <3>1. \A k \in keys : k.secret # r
      BY <2>2 DEF AccountInv, KeysInv
    <3>2. QED
      BY <3>1, OpensNobody
  <2>3. Onb!OneUserPerAccount
    <3>1. Onb!User = 1 .. Len(users)
      BY DEF AccountInv, Onb!TypeOK, Onb!User
    <3>2. QED
      BY <3>1 DEF AccountInv, OneLive, Onb!OneUserPerAccount, Onb!Live
  <2>4. QED
    BY <2>1, <2>2, <2>3 DEF Onb!AccountsSound, Onb!KeyOpensItsAccount
<1>2. (part = "onboarding" => AccountInv) => AccountsSound
  BY <1>1 DEF AccountsSound
<1>3. QED
  BY <1>2, AccountInvariance, PTL

\* A user who is linked to an account stays linked to it, unless two applications
\* linked the row at once.
THEOREM LinkAlwaysStands == ServicesSpec => LinkStands
<1>1. ASSUME Onb!OnboardingOK, AccountInv, Onb!Next
      PROVE  Onb!LinkStep
  <2>1. Onb!User = 1 .. Len(users) /\ users \in Seq(Onb!Rows)
    BY <1>1 DEF AccountInv, Onb!TypeOK, Onb!User
  <2>2. SUFFICES ASSUME NEW v \in 1 .. Len(users), v \notin twice', users[v].account # None
                 PROVE  users'[v].account = users[v].account
    BY <2>1 DEF Onb!LinkStep
  <2>3. CASE users' = users
    BY <2>3
  <2>4. CASE \E row : users' = Append(users, row)
    BY <2>1, <2>4
  <2>5. ASSUME NEW r \in Application, Onb!Link(r)
        PROVE  users'[v].account = users[v].account
    <3>1. PICK a, u : a = AccountOf[r] /\ u = user[r]
      OBVIOUS
    <3>2. /\ reqPc[r] = "link" /\ twice' = twice
          /\ users' = [users EXCEPT ![u].account = a]
      BY <2>5, <3>1 DEF Onb!Link, Onb!past
    <3>3. CASE v # u
      BY <2>1, <3>2, <3>3
    <3>4. CASE v = u
      <4>1. users[v].account = a
        BY <1>1, <2>2, <3>1, <3>2, <3>4 DEF AccountInv, LinkInv
      <4>2. users[v] \in Onb!Rows
        BY <2>1
      <4>3. users'[v] = [users[v] EXCEPT !.account = a]
        BY <2>1, <3>2, <3>4
      <4>4. QED
        BY <4>1, <4>2, <4>3 DEF Onb!Rows
    <3>5. QED
      BY <3>3, <3>4
  <2>6. ASSUME NEW u \in Onb!User, Onb!DeleteUser(u)
        PROVE  users'[v].account = users[v].account
    <3>1. users' = [users EXCEPT ![u].deleted = TRUE] /\ users[u] \in Onb!Rows
      BY <2>1, <2>6 DEF Onb!DeleteUser
    <3>2. users'[v] = IF v = u THEN [users[u] EXCEPT !.deleted = TRUE] ELSE users[v]
      BY <2>1, <3>1
    <3>3. QED
      BY <3>1, <3>2 DEF Onb!Rows
  <2>7. ASSUME NEW r \in Application, Onb!Look(r) \/ Onb!Bootstrap(r)
        PROVE  users' = users \/ \E row : users' = Append(users, row)
    BY <2>7 DEF Onb!Look, Onb!Bootstrap, Onb!tables
  <2>8. ASSUME NEW r, Onb!AskMore(r) \/ Onb!Issue(r) \/ Onb!IssueFails(r) \/ Onb!Lost(r)
        PROVE  users' = users
    BY <2>8 DEF Onb!AskMore, Onb!Issue, Onb!IssueFails, Onb!Lost, Onb!tables
  <2>9. ASSUME NEW e, NEW a, Onb!CreateUser(e, a)
        PROVE  \E row : users' = Append(users, row)
    BY <2>9 DEF Onb!CreateUser
  <2>10. QED
    BY <1>1, <2>3, <2>4, <2>5, <2>6, <2>7, <2>8, <2>9 DEF Onb!Next
<1>2. (part = "onboarding" => AccountInv) /\ [ServicesNext]_allVars
        => [part = "onboarding" => Onb!LinkStep]_onboardingVars
  BY <1>1, OnboardingPart, ServicesOK
<1>3. QED
  BY <1>2, AccountInvariance, PTL DEF ServicesSpec, LinkStands

-----------------------------------------------------------------------------
(***************************************************************************)
(* Requests that ask a model.  While one runs, what the stores hold is in  *)
(* the history of the request, so that what it has read was there; each    *)
(* step of it belongs to some operations, and has cost what it has cost.   *)
(***************************************************************************)
Question ==
    [op : Ask!Ops, field : Field \cup {None}, door : Door, method : Ask!Methods]

StoresSeen == Ask!Filed(docs) \subseteq was /\ items \subseteq wasCurrent

\* What was read, and what a model is asked about.
ReadSeen ==
    /\ question.op \in {"search", "explicit"} => \A v \in text : <<question.field, v>> \in was
    /\ question.op = "implicit" => text \subseteq was
    /\ question.op = "compare" => text \subseteq wasCurrent

\* The operations that come to a step.
StepOf ==
    /\ askPc = "rule" => question.op \in {"explicit", "implicit", "call", "parse"}
    /\ askPc = "field" => question.op \in {"get", "search", "explicit", "call"}
    /\ askPc = "doc" => question.op \in {"get", "search", "explicit"}
       /\ question.field \in Field
    /\ askPc = "fill" => question.op = "call"
    /\ askPc \in {"list", "hits", "reread"} => question.op = "implicit"
    /\ askPc = "items" => question.op = "compare"
    /\ askPc = "bill" => question.op # "search"
    /\ askPc \in {"llm", "bill", "use"} => question.op # "get"

\* A name that is looked up is that of some field; a verdict is the model's.
ReplyOf ==
    /\ askPc = "reread" => reply.said \in Field
    /\ askPc \in {"bill", "use"} /\ question.op = "implicit" /\ reply.ok =>
         reply.said \in Field \cup {None}

\* A completion is paid for before it is billed, and billed before it is used.
Paid ==
    /\ askPc \in {"rule", "field", "doc", "list", "hits", "fill", "items", "llm"} => spent = 0
    /\ askPc = "bill" => spent = 1 /\ billed = 0
    /\ askPc \in {"use", "reread"} => billed = IF question.op = "search" THEN 0 ELSE spent

Grounded(a) ==
    /\ a.op = "doc" => <<a.field, a.value>> \in was /\ a.basis \in {None, a.value}
    /\ a.op = "verdict" =>
        /\ a.matched \subseteq wasCurrent
        /\ a.result \in Ask!Matching => a.matched # {}
        /\ a.base # None => a.base \in a.matched

AskRuns ==
    question \in Question /\ StoresSeen /\ ReadSeen /\ StepOf /\ ReplyOf /\ Paid

AskInv ==
    /\ Ask!TypeOK
    /\ askPc # "ended" => AskRuns
    /\ Ask!AnswersGrounded
    /\ Ask!CompletionsBilled

LEMMA InitAsk == Ask!AskOK /\ Ask!Init => AskInv
<1> SUFFICES ASSUME Ask!AskOK, Ask!Init PROVE AskInv
  OBVIOUS
<1>1. Ask!TypeOK
  <2>1. 0 \in 0 .. MaxWrites /\ 0 \in 0 .. 1 /\ 0 \in 0 .. 0
    BY DEF Ask!AskOK
  <2>2. QED
    BY <2>1 DEF Ask!Init, Ask!TypeOK
<1>2. askPc = "ended" /\ answer = None
  BY DEF Ask!Init
<1>3. QED
  BY <1>1, <1>2 DEF AskInv, Ask!AnswersGrounded, Ask!CompletionsBilled

\* A document, by field and value.
LEMMA FiledFact ==
    ASSUME NEW d \in [Field \X Door -> Value \cup {None}]
    PROVE  /\ Ask!Filed(d) \subseteq Field \X (Value \cup {None})
           /\ \A f \in Field, s \in Door : d[<<f, s>>] # None =>
                 <<f, d[<<f, s>>]>> \in Ask!Filed(d)
<1>1. \A k \in DOMAIN d : k \in Field \X Door /\ k[1] \in Field /\ d[k] \in Value \cup {None}
  OBVIOUS
<1>2. \A f \in Field, s \in Door : <<f, s>> \in DOMAIN d /\ <<f, s>>[1] = f
  OBVIOUS
<1>3. QED
  BY <1>1, <1>2 DEF Ask!Filed

LEMMA FiledValue ==
    ASSUME NEW d \in [Field \X Door -> Value \cup {None}], NEW x \in Ask!Filed(d)
    PROVE  x[1] \in Field /\ x[2] \in Value /\ <<x[1], x[2]>> = x
<1>1. PICK k \in DOMAIN d : d[k] # None /\ x = <<k[1], d[k]>>
  BY DEF Ask!Filed
<1>2. k \in Field \X Door
  BY <1>1
<1>3. k[1] \in Field /\ d[k] \in Value
  BY <1>1, <1>2
<1>4. QED
  BY <1>1, <1>3

\* A request ends with an answer that is grounded, and with its completion billed.
LEMMA AskEnds ==
    ASSUME AskInv, askPc # "ended", NEW a, Ask!Answer(a), Grounded(a),
           question' \in Question, question'.op = question.op,
           UNCHANGED <<fields, docs, items, was, wasCurrent, askChanges, spent, cutOff>>,
           billed' \in 0 .. spent,
           ~cutOff => billed' = IF question.op = "search" THEN 0 ELSE spent
    PROVE  AskInv'
<1>1. askPc' = "ended" /\ answer' = a
  BY DEF Ask!Answer, Ask!Goto
<1>2. Ask!TypeOK'
  BY <1>1 DEF AskInv, Ask!TypeOK
<1>3. Ask!AnswersGrounded'
  BY <1>1 DEF Ask!AnswersGrounded, Grounded, Ask!Matching
<1>4. Ask!CompletionsBilled'
  BY <1>1 DEF Ask!CompletionsBilled
<1>5. QED
  BY <1>1, <1>2, <1>3, <1>4 DEF AskInv

\* Errors and answers of other kinds say nothing of memory.
LEMMA GroundedPlain ==
    /\ Grounded([op |-> "error"]) /\ Grounded([op |-> "none"]) /\ Grounded([op |-> "text"])
    /\ \A K : Grounded([op |-> "candidates", kept |-> K])
BY DEF Grounded

LEMMA GroundedDoc ==
    ASSUME NEW f, NEW v, <<f, v>> \in was, NEW b \in {None, v}
    PROVE  Grounded([op |-> "doc", field |-> f, value |-> v, basis |-> b])
BY DEF Grounded

\* A step to another one of the same request.
LEMMA AskGoes ==
    ASSUME AskInv, askPc # "ended", askPc' # "ended",
           askPc' \in {"rule", "field", "doc", "list", "hits", "reread", "fill", "items",
                       "llm", "bill", "use"},
           question' \in Question, question'.op = question.op, question'.field = question.field,
           UNCHANGED <<fields, docs, items, was, wasCurrent, askChanges, cutOff>>,
           spent' \in 0 .. 1, billed' \in 0 .. spent',
           ReadSeen', StepOf', ReplyOf', Paid'
    PROVE  AskInv'
<1>1. Ask!TypeOK'
  BY DEF AskInv, Ask!TypeOK
<1>2. StoresSeen'
  BY DEF AskInv, AskRuns, StoresSeen, Ask!Filed
<1>3. QED
  BY <1>1, <1>2 DEF AskInv, AskRuns, Ask!AnswersGrounded, Ask!CompletionsBilled

LEMMA AskChange ==
    ASSUME Ask!AskOK, AskInv, Ask!Change
    PROVE  AskInv'
<1>1. /\ askPc # "ended" /\ askChanges < MaxWrites /\ askChanges' = askChanges + 1
      /\ was' = was \cup Ask!Filed(docs') /\ wasCurrent' = wasCurrent \cup items'
      /\ UNCHANGED <<askPc, question, text, reply, answer, spent, billed, cutOff>>
  BY DEF Ask!Change, Ask!request
<1>2. /\ docs' \in [Field \X Door -> Value \cup {None}]
      /\ fields' \subseteq Field /\ items' \subseteq Item
  BY DEF Ask!Change, AskInv, Ask!TypeOK
<1>3. \A x \in Ask!Filed(docs') : x \in Field \X Value
  BY <1>2, FiledValue
<1>4. Ask!TypeOK'
  BY <1>1, <1>2, <1>3 DEF AskInv, Ask!TypeOK, Ask!AskOK
<1>5. AskRuns'
  <2>1. StoresSeen'
    BY <1>1 DEF StoresSeen
  <2>2. ReadSeen'
    BY <1>1 DEF AskInv, AskRuns, ReadSeen
  <2>3. StepOf' /\ ReplyOf' /\ Paid' /\ question' \in Question
    BY <1>1 DEF AskInv, AskRuns, StepOf, ReplyOf, Paid
  <2>4. QED
    BY <2>1, <2>2, <2>3 DEF AskRuns
<1>6. QED
  BY <1>1, <1>4, <1>5 DEF AskInv, Ask!AnswersGrounded, Ask!CompletionsBilled

LEMMA AskBegin ==
    ASSUME Ask!AskOK, AskInv, NEW op \in Ask!Ops, NEW f \in Field \cup {None}, NEW d \in Door,
           NEW m \in Ask!Methods, Ask!Begin(op, f, d, m)
    PROVE  AskInv'
<1>1. /\ question' = [op |-> op, field |-> f, door |-> d, method |-> m]
      /\ askPc' = Ask!First[op] /\ text' = {} /\ reply' = None /\ answer' = None
      /\ spent' = 0 /\ billed' = 0 /\ cutOff' = FALSE
      /\ was' = Ask!Filed(docs) /\ wasCurrent' = items /\ askChanges' = 0
      /\ UNCHANGED <<fields, docs, items>>
  BY DEF Ask!Begin, Ask!Goto, Ask!stores
<1>2. question' \in Question /\ question'.op = op
  BY <1>1 DEF Question
<1>3. \A x \in Ask!Filed(docs) : x \in Field \X Value
  <2>1. docs \in [Field \X Door -> Value \cup {None}]
    BY DEF AskInv, Ask!TypeOK
  <2>2. QED
    BY <2>1, FiledValue
<1>4. /\ op = "get" => askPc' = "field"
      /\ op = "search" => askPc' = "field"
      /\ op = "explicit" => askPc' = "rule"
      /\ op = "implicit" => askPc' = "rule"
      /\ op = "call" => askPc' = "field"
      /\ op = "compare" => askPc' = "items"
      /\ op = "extract" => askPc' = "llm"
      /\ op = "parse" => askPc' = "rule"
  BY <1>1 DEF Ask!First
<1>5. op \in {"get", "search", "explicit", "implicit", "call", "compare", "extract", "parse"}
  BY DEF Ask!Ops
<1>6. Ask!TypeOK'
  <2>1. 0 \in 0 .. MaxWrites /\ 0 \in 0 .. 1 /\ 0 \in 0 .. 0
    BY DEF Ask!AskOK
  <2>2. askPc' \in {"rule", "field", "items", "llm"}
    BY <1>4, <1>5
  <2>3. QED
    BY <1>1, <1>3, <2>1, <2>2 DEF AskInv, Ask!TypeOK
<1>7. StoresSeen'
  BY <1>1 DEF StoresSeen
<1>8. ReadSeen'
  BY <1>1 DEF ReadSeen
<1>9. StepOf' /\ ReplyOf' /\ Paid'
  BY <1>1, <1>2, <1>4, <1>5 DEF StepOf, ReplyOf, Paid
<1>10. Ask!AnswersGrounded' /\ Ask!CompletionsBilled'
  BY <1>1 DEF Ask!AnswersGrounded, Ask!CompletionsBilled
<1>11. QED
  BY <1>2, <1>6, <1>7, <1>8, <1>9, <1>10 DEF AskInv, AskRuns

LEMMA AskRule ==
    ASSUME AskInv, Ask!Rule
    PROVE  AskInv'
<1>1. /\ askPc = "rule" /\ spent = 0 /\ billed = 0
      /\ UNCHANGED <<spent, billed, cutOff, fields, docs, items, was, wasCurrent, askChanges>>
  BY DEF Ask!Rule, Ask!stores, Ask!history, AskInv, AskRuns, Paid, Ask!TypeOK
<1>2. AskRuns
  BY <1>1 DEF AskInv
<1>3. CASE /\ question' \in Question /\ question'.op = question.op
           /\ question'.field = question.field
           /\ UNCHANGED <<text, reply, answer>>
           /\ \/ askPc' = "field" /\ question.op = "explicit"
              \/ askPc' = "list" /\ question.op = "implicit"
              \/ askPc' = "fill" /\ question.op = "call"
              \/ askPc' = "llm" /\ question.op = "parse"
  <2>1. ReadSeen' /\ StepOf' /\ ReplyOf' /\ Paid'
    BY <1>1, <1>2, <1>3 DEF AskRuns, ReadSeen, StepOf, ReplyOf, Paid
  <2>2. askPc' \in {"field", "list", "fill", "llm"} /\ spent' = 0 /\ billed' = 0
    BY <1>1, <1>3
  <2>3. QED
    BY <1>1, <1>3, <2>1, <2>2, AskGoes
<1>4. CASE question' = question /\ Ask!Refuse
  BY <1>1, <1>2, <1>4, AskEnds, GroundedPlain DEF Ask!Refuse, AskRuns
<1>5. CASE question' = question /\ Ask!Answer([op |-> "text"])
  BY <1>1, <1>2, <1>5, AskEnds, GroundedPlain DEF AskRuns
<1>6. CASE Ask!RetrieveRule
  <2>1. CASE Ask!Refuse /\ UNCHANGED question
    BY <1>4, <2>1
  <2>2. CASE ~(Ask!Refuse /\ UNCHANGED question)
    <3>1. PICK m \in Ask!Methods : question' = [question EXCEPT !.method = m]
      BY <1>2, <1>6, <2>2 DEF Ask!RetrieveRule, AskRuns, Question
    <3>2. question' \in Question /\ question'.op = question.op
             /\ question'.field = question.field
      BY <1>2, <3>1 DEF AskRuns, Question
    <3>3. QED
      BY <1>3, <1>6, <2>2, <3>2 DEF Ask!RetrieveRule, Ask!Goto
  <2>3. QED
    BY <2>1, <2>2
<1>7. CASE Ask!CallRule \/ Ask!ParseRule
  <2>1. question' = question
    BY <1>7 DEF Ask!CallRule, Ask!ParseRule
  <2>2. QED
    BY <1>2, <1>3, <1>4, <1>5, <1>7, <2>1 DEF Ask!CallRule, Ask!ParseRule, Ask!Goto, AskRuns
<1>8. QED
  BY <1>6, <1>7 DEF Ask!Rule

LEMMA AskCheckField ==
    ASSUME AskInv, Ask!CheckField
    PROVE  AskInv'
<1>1. /\ askPc = "field" /\ spent = 0 /\ billed = 0
      /\ UNCHANGED <<question, spent, billed, cutOff, fields, docs, items, was, wasCurrent,
                     askChanges>>
  BY DEF Ask!CheckField, Ask!stores, Ask!history, AskInv, AskRuns, Paid, Ask!TypeOK
<1>2. AskRuns /\ fields \subseteq Field
  BY <1>1 DEF AskInv, Ask!TypeOK
<1>3. CASE Ask!Refuse
  BY <1>1, <1>2, <1>3, AskEnds, GroundedPlain DEF Ask!Refuse, AskRuns
<1>4. CASE ~Ask!Refuse
  <2>1. /\ question.field \in Field /\ UNCHANGED <<text, reply, answer>>
        /\ \/ askPc' = "doc" /\ question.op # "call"
           \/ askPc' \in {"fill", "rule"} /\ question.op = "call"
    BY <1>2, <1>4 DEF Ask!CheckField, Ask!Goto
  <2>2. ReadSeen' /\ StepOf' /\ ReplyOf' /\ Paid'
    BY <1>1, <1>2, <2>1 DEF AskRuns, ReadSeen, StepOf, ReplyOf, Paid
  <2>3. askPc' \in {"doc", "fill", "rule"} /\ spent' = 0 /\ billed' = 0
           /\ question' \in Question
    BY <1>1, <1>2, <2>1 DEF AskRuns
  <2>4. QED
    BY <1>1, <2>2, <2>3, AskGoes
<1>5. QED
  BY <1>3, <1>4

LEMMA AskReadDoc ==
    ASSUME Ask!AskOK, AskInv, Ask!ReadDoc
    PROVE  AskInv'
<1>1. /\ askPc = "doc" /\ spent = 0 /\ billed = 0
      /\ UNCHANGED <<question, spent, billed, cutOff, fields, docs, items, was, wasCurrent,
                     askChanges>>
  BY DEF Ask!ReadDoc, Ask!stores, Ask!history, AskInv, AskRuns, Paid, Ask!TypeOK
<1>2. /\ AskRuns /\ question.field \in Field /\ question \in Question
      /\ question.op \in {"get", "search", "explicit"}
  BY <1>1 DEF AskInv, AskRuns, StepOf
<1>3. CASE Ask!Refuse \/ Ask!Nothing
  BY <1>1, <1>2, <1>3, AskEnds, GroundedPlain DEF Ask!Refuse, Ask!Nothing
<1>4. ASSUME NEW d \in Door, docs[<<question.field, d>>] # None
      PROVE  <<question.field, docs[<<question.field, d>>]>> \in was
  BY <1>2, <1>4, FiledFact DEF AskInv, Ask!TypeOK, AskRuns, StoresSeen
<1>5. ASSUME NEW d \in Door, docs[<<question.field, d>>] # None,
             Ask!Serve(question.field, docs[<<question.field, d>>], None)
      PROVE  AskInv'
  <2>1. PICK v : v = docs[<<question.field, d>>]
    OBVIOUS
  <2>2. PICK f : f = question.field
    OBVIOUS
  <2>3. PICK a : a = [op |-> "doc", field |-> f, value |-> v, basis |-> None]
    OBVIOUS
  <2>4. Grounded(a)
    BY <1>4, <1>5, <2>1, <2>2, <2>3, GroundedDoc
  <2>5. Ask!Answer(a)
    BY <1>5, <2>1, <2>2, <2>3 DEF Ask!Serve
  <2>6. QED
    BY <1>1, <1>2, <2>4, <2>5, AskEnds
<1>6. ASSUME docs[<<question.field, None>>] # None, question.op # "get",
             Ask!Ask(docs[<<question.field, None>>])
      PROVE  AskInv'
  <2>1. PICK v : v = docs[<<question.field, None>>]
    OBVIOUS
  <2>2. askPc' = "llm" /\ text' = {v} /\ UNCHANGED <<reply, answer>>
    BY <1>6, <2>1 DEF Ask!Ask, Ask!Goto
  <2>3. <<question.field, v>> \in was
    BY <1>4, <1>6, <2>1 DEF Ask!AskOK
  <2>4. ReadSeen' /\ StepOf' /\ ReplyOf' /\ Paid'
    BY <1>1, <1>2, <1>6, <2>2, <2>3 DEF ReadSeen, StepOf, ReplyOf, Paid
  <2>5. askPc' = "llm" /\ spent' = 0 /\ billed' = 0 /\ question' \in Question
    BY <1>1, <1>2, <2>2
  <2>6. QED
    BY <1>1, <2>4, <2>5, AskGoes
<1>7. None \in Door /\ question.door \in Door
  BY <1>2 DEF Ask!AskOK, Question
<1>8. CASE Ask!ReadGet
  BY <1>3, <1>5, <1>7, <1>8 DEF Ask!ReadGet
<1>9. CASE Ask!ReadSearch
  BY <1>3, <1>5, <1>6, <1>7, <1>9 DEF Ask!ReadSearch
<1>10. CASE Ask!ReadExplicit
  BY <1>3, <1>5, <1>6, <1>7, <1>10 DEF Ask!ReadExplicit
<1>11. QED
  BY <1>8, <1>9, <1>10 DEF Ask!ReadDoc

LEMMA AskList ==
    ASSUME AskInv, Ask!List
    PROVE  AskInv'
<1>1. /\ askPc = "list" /\ spent = 0 /\ billed = 0
      /\ UNCHANGED <<question, spent, billed, cutOff, fields, docs, items, was, wasCurrent,
                     askChanges>>
  BY DEF Ask!List, Ask!stores, Ask!history, AskInv, AskRuns, Paid, Ask!TypeOK
<1>2. AskRuns /\ question \in Question /\ question.op = "implicit"
         /\ Ask!Filed(docs) \subseteq was
  BY <1>1 DEF AskInv, AskRuns, StepOf, StoresSeen
<1>3. CASE Ask!Nothing
  BY <1>1, <1>2, <1>3, AskEnds, GroundedPlain DEF Ask!Nothing
<1>4. ASSUME NEW x \in Ask!Filed(docs), Ask!Serve(x[1], x[2], None)
      PROVE  AskInv'
  <2>1. PICK f, v : f = x[1] /\ v = x[2]
    OBVIOUS
  <2>2. PICK a : a = [op |-> "doc", field |-> f, value |-> v, basis |-> None]
    OBVIOUS
  <2>3. <<f, v>> \in was
    BY <1>2, <2>1, FiledValue DEF AskInv, Ask!TypeOK
  <2>4. Grounded(a) /\ Ask!Answer(a)
    BY <1>4, <2>1, <2>2, <2>3, GroundedDoc DEF Ask!Serve
  <2>5. QED
    BY <1>1, <1>2, <2>4, AskEnds
<1>5. CASE /\ askPc' \in {"hits", "llm"} /\ text' = Ask!Filed(docs)
           /\ UNCHANGED <<reply, answer>>
  <2>1. ReadSeen' /\ StepOf' /\ ReplyOf' /\ Paid'
    BY <1>1, <1>2, <1>5 DEF ReadSeen, StepOf, ReplyOf, Paid
  <2>2. askPc' \in {"hits", "llm"} /\ spent' = 0 /\ billed' = 0 /\ question' \in Question
    BY <1>1, <1>2, <1>5
  <2>3. QED
    BY <1>1, <2>1, <2>2, AskGoes
<1>6. QED
  BY <1>3, <1>4, <1>5 DEF Ask!List, Ask!Goto


\* What is read before, of all documents, is served by itself.
LEMMA ServesRead ==
    ASSUME AskInv, askPc \in {"hits", "reread"}, NEW x \in text, Ask!Serve(x[1], x[2], None),
           UNCHANGED <<question, spent, billed, cutOff, fields, docs, items, was, wasCurrent,
                       askChanges>>
    PROVE  AskInv'
<1>1. /\ AskRuns /\ question \in Question /\ question.op = "implicit" /\ text \subseteq was
      /\ was \subseteq Field \X Value /\ spent \in 0 .. 1 /\ billed \in 0 .. spent
  BY DEF AskInv, AskRuns, StepOf, ReadSeen, Ask!TypeOK
<1>2. billed = spent
  BY <1>1 DEF AskRuns, Paid
<1>3. PICK f, v : f = x[1] /\ v = x[2]
  OBVIOUS
<1>4. PICK a : a = [op |-> "doc", field |-> f, value |-> v, basis |-> None]
  OBVIOUS
<1>5. <<f, v>> \in was
  BY <1>1, <1>3
<1>6. Grounded(a) /\ Ask!Answer(a)
  BY <1>3, <1>4, <1>5, GroundedDoc DEF Ask!Serve
<1>7. QED
  BY <1>1, <1>2, <1>6, AskEnds

LEMMA AskHits ==
    ASSUME AskInv, Ask!Hits
    PROVE  AskInv'
<1>1. /\ askPc = "hits" /\ spent = 0 /\ billed = 0
      /\ UNCHANGED <<question, spent, billed, cutOff, fields, docs, items, was, wasCurrent,
                     askChanges>>
  BY DEF Ask!Hits, Ask!stores, Ask!history, AskInv, AskRuns, Paid, Ask!TypeOK
<1>2. AskRuns /\ question \in Question /\ question.op = "implicit"
  BY <1>1 DEF AskInv, AskRuns, StepOf
<1>3. ASSUME NEW f \in Field, reply' = Ask!Says(f), askPc' = "reread",
             UNCHANGED <<text, answer>>
      PROVE  AskInv'
  <2>1. reply'.said = f
    BY <1>3 DEF Ask!Says
  <2>2. ReadSeen' /\ StepOf' /\ ReplyOf' /\ Paid'
    BY <1>1, <1>2, <1>3, <2>1 DEF AskRuns, ReadSeen, StepOf, ReplyOf, Paid
  <2>3. askPc' = "reread" /\ spent' = 0 /\ billed' = 0 /\ question' \in Question
    BY <1>1, <1>2, <1>3
  <2>4. QED
    BY <1>1, <2>2, <2>3, AskGoes
<1>4. QED
  BY <1>1, <1>3, ServesRead DEF Ask!Hits, Ask!Goto

LEMMA AskReread ==
    ASSUME Ask!AskOK, AskInv, Ask!Reread
    PROVE  AskInv'
<1>1. /\ askPc = "reread" /\ spent \in 0 .. 1 /\ billed \in 0 .. spent
      /\ UNCHANGED <<question, spent, billed, cutOff, fields, docs, items, was, wasCurrent,
                     askChanges>>
  BY DEF Ask!Reread, Ask!stores, Ask!history, AskInv, Ask!TypeOK
<1>2. /\ AskRuns /\ question \in Question /\ question.op = "implicit" /\ reply.said \in Field
      /\ billed = spent
  BY <1>1 DEF AskInv, AskRuns, StepOf, ReplyOf, Paid
<1>3. CASE Ask!Nothing
  BY <1>1, <1>2, <1>3, AskEnds, GroundedPlain DEF Ask!Nothing
<1>4. PICK f, v : f = reply.said /\ v = docs[<<reply.said, None>>]
  OBVIOUS
<1>5. CASE v # None /\ Ask!Serve(f, v, None)
  <2>1. <<f, v>> \in was
    BY <1>2, <1>4, <1>5, FiledFact DEF AskInv, Ask!TypeOK, AskRuns, StoresSeen, Ask!AskOK
  <2>2. PICK a : a = [op |-> "doc", field |-> f, value |-> v, basis |-> None]
    OBVIOUS
  <2>3. Grounded(a) /\ Ask!Answer(a)
    BY <1>5, <2>1, <2>2, GroundedDoc DEF Ask!Serve
  <2>4. QED
    BY <1>1, <1>2, <2>3, AskEnds
<1>6. QED
  BY <1>1, <1>3, <1>4, <1>5, ServesRead DEF Ask!Reread

LEMMA AskFill ==
    ASSUME AskInv, Ask!Fill
    PROVE  AskInv'
<1>1. /\ askPc = "fill" /\ spent = 0 /\ billed = 0
      /\ UNCHANGED <<question, spent, billed, cutOff, fields, docs, items, was, wasCurrent,
                     askChanges>>
  BY DEF Ask!Fill, Ask!stores, Ask!history, AskInv, AskRuns, Paid, Ask!TypeOK
<1>2. AskRuns /\ question \in Question /\ question.op = "call"
  BY <1>1 DEF AskInv, AskRuns, StepOf
<1>3. CASE Ask!Answer([op |-> "text"])
  BY <1>1, <1>2, <1>3, AskEnds, GroundedPlain
<1>4. CASE askPc' = "llm" /\ UNCHANGED <<text, reply, answer>>
  <2>1. ReadSeen' /\ StepOf' /\ ReplyOf' /\ Paid'
    BY <1>1, <1>2, <1>4 DEF AskRuns, ReadSeen, StepOf, ReplyOf, Paid
  <2>2. askPc' = "llm" /\ spent' = 0 /\ billed' = 0 /\ question' \in Question
    BY <1>1, <1>2, <1>4
  <2>3. QED
    BY <1>1, <2>1, <2>2, AskGoes
<1>5. QED
  BY <1>3, <1>4 DEF Ask!Fill, Ask!Goto

LEMMA GroundedVerdict ==
    ASSUME NEW r, NEW S, S \subseteq wasCurrent, r \in Ask!Matching => S # {},
           NEW b, b # None => b \in S
    PROVE  Grounded([op |-> "verdict", result |-> r, matched |-> S, base |-> b])
BY DEF Grounded

LEMMA AskItems ==
    ASSUME AskInv, Ask!Items
    PROVE  AskInv'
<1>1. /\ askPc = "items" /\ spent = 0 /\ billed = 0
      /\ UNCHANGED <<question, spent, billed, cutOff, fields, docs, items, was, wasCurrent,
                     askChanges>>
  BY DEF Ask!Items, Ask!stores, Ask!history, AskInv, AskRuns, Paid, Ask!TypeOK
<1>2. AskRuns /\ question \in Question /\ question.op = "compare" /\ items \subseteq wasCurrent
  BY <1>1 DEF AskInv, AskRuns, StepOf, StoresSeen
<1>3. ASSUME NEW r, NEW S, S \subseteq wasCurrent, r \in Ask!Matching => S # {},
             Ask!Answer([op |-> "verdict", result |-> r, matched |-> S, base |-> None])
      PROVE  AskInv'
  <2>1. PICK a : a = [op |-> "verdict", result |-> r, matched |-> S, base |-> None]
    OBVIOUS
  <2>2. Grounded(a) /\ Ask!Answer(a)
    BY <1>3, <2>1, GroundedVerdict
  <2>3. QED
    BY <1>1, <1>2, <2>2, AskEnds
<1>4. "REJECT" \notin Ask!Matching /\ "NEW" \notin Ask!Matching
  BY DEF Ask!Matching
<1>5. CASE Ask!Answer([op |-> "verdict", result |-> "REJECT", matched |-> {}, base |-> None])
  BY <1>3, <1>4, <1>5
<1>6. CASE Ask!Answer([op |-> "verdict", result |-> "NEW", matched |-> {}, base |-> None])
  BY <1>3, <1>4, <1>6
<1>7. ASSUME NEW i \in items,
             Ask!Answer([op |-> "verdict", result |-> "DUPLICATE", matched |-> {i},
                         base |-> None])
      PROVE  AskInv'
  <2>1. {i} \subseteq wasCurrent /\ {i} # {}
    BY <1>2, <1>7
  <2>2. QED
    BY <1>3, <1>7, <2>1
<1>8. CASE askPc' = "llm" /\ text' = items /\ UNCHANGED <<reply, answer>>
  <2>1. ReadSeen' /\ StepOf' /\ ReplyOf' /\ Paid'
    BY <1>1, <1>2, <1>8 DEF ReadSeen, StepOf, ReplyOf, Paid
  <2>2. askPc' = "llm" /\ spent' = 0 /\ billed' = 0 /\ question' \in Question
    BY <1>1, <1>2, <1>8
  <2>3. QED
    BY <1>1, <2>1, <2>2, AskGoes
<1>9. QED
  BY <1>5, <1>6, <1>7, <1>8 DEF Ask!Items, Ask!Goto

LEMMA AskComplete ==
    ASSUME AskInv, Ask!Complete
    PROVE  AskInv'
<1>1. /\ askPc = "llm" /\ spent = 0 /\ billed = 0
      /\ UNCHANGED <<question, text, answer, billed, cutOff, fields, docs, items, was,
                     wasCurrent, askChanges>>
  BY DEF Ask!Complete, Ask!stores, Ask!history, AskInv, AskRuns, Paid, Ask!TypeOK
<1>2. AskRuns /\ question \in Question /\ question.op # "get"
  BY <1>1 DEF AskInv, AskRuns, StepOf
<1>3. /\ spent' = 1 /\ askPc' = IF question.op = "search" THEN "use" ELSE "bill"
  BY <1>1 DEF Ask!Complete, Ask!Goto
<1>4. question.op = "implicit" /\ reply'.ok => reply'.said \in Field \cup {None}
  <2>1. CASE reply' = Ask!Unusable
    BY <2>1 DEF Ask!Unusable
  <2>2. ASSUME NEW x \in Ask!Replies, reply' = Ask!Says(x)
        PROVE  question.op = "implicit" => reply'.said \in Field \cup {None}
    <3>1. reply'.said = x
      BY <2>2 DEF Ask!Says
    <3>2. question.op = "implicit" => Ask!Replies = Field \cup {None}
      BY DEF Ask!Replies
    <3>3. QED
      BY <2>2, <3>1, <3>2
  <2>3. QED
    BY <2>1, <2>2 DEF Ask!Complete
<1>5. ReadSeen' /\ StepOf' /\ ReplyOf' /\ Paid'
  BY <1>1, <1>2, <1>3, <1>4 DEF AskRuns, ReadSeen, StepOf, ReplyOf, Paid
<1>6. askPc' \in {"use", "bill"} /\ spent' = 1 /\ billed' = 0 /\ question' \in Question
  BY <1>1, <1>2, <1>3
<1>7. QED
  BY <1>1, <1>5, <1>6, AskGoes

LEMMA AskBill ==
    ASSUME AskInv, Ask!Bill
    PROVE  AskInv'
<1>1. /\ askPc = "bill"
      /\ UNCHANGED <<question, spent, cutOff, fields, docs, items, was, wasCurrent,
                     askChanges>>
  BY DEF Ask!Bill, Ask!stores, Ask!history
<1>2. /\ AskRuns /\ question \in Question /\ question.op # "search" /\ question.op # "get"
      /\ spent = 1 /\ billed' = 1
  BY <1>1 DEF AskInv, AskRuns, StepOf, Paid, Ask!Bill
<1>3. CASE Ask!Refuse
  BY <1>1, <1>2, <1>3, AskEnds, GroundedPlain DEF Ask!Refuse
<1>4. CASE askPc' = "use" /\ UNCHANGED <<text, reply, answer>>
  <2>1. ReadSeen' /\ StepOf' /\ ReplyOf' /\ Paid'
    BY <1>1, <1>2, <1>4 DEF AskRuns, ReadSeen, StepOf, ReplyOf, Paid
  <2>2. QED
    BY <1>1, <1>2, <1>4, <2>1, AskGoes
<1>5. QED
  BY <1>3, <1>4 DEF Ask!Bill, Ask!Goto

LEMMA AskUse ==
    ASSUME AskInv, Ask!Use
    PROVE  AskInv'
<1>1. /\ askPc = "use" /\ spent \in 0 .. 1 /\ billed \in 0 .. spent
      /\ UNCHANGED <<question, spent, billed, cutOff, fields, docs, items, was, wasCurrent,
                     askChanges>>
  BY DEF Ask!Use, Ask!stores, Ask!history, AskInv, Ask!TypeOK
<1>2. /\ AskRuns /\ question \in Question
      /\ billed = IF question.op = "search" THEN 0 ELSE spent
  BY <1>1 DEF AskInv, AskRuns, Paid
<1>3. ASSUME NEW a, Grounded(a), Ask!Answer(a)
      PROVE  AskInv'
  BY <1>1, <1>2, <1>3, AskEnds
<1>4. CASE Ask!Refuse \/ Ask!Nothing \/ Ask!Answer([op |-> "text"])
  BY <1>3, <1>4, GroundedPlain DEF Ask!Refuse, Ask!Nothing
<1>5. CASE Ask!UseVerdict
  <2>1. CASE Ask!Refuse
    BY <1>4, <2>1
  <2>2. CASE ~Ask!Refuse
    <3>1. PICK c : c = reply.said
      OBVIOUS
    <3>2. Ask!Valid(c) /\ Ask!Answer(Ask!Verdict(c)) /\ question.op = "compare"
      BY <1>5, <2>2, <3>1 DEF Ask!UseVerdict
    <3>3. PICK r, S, b : /\ r = c.result /\ S = c.matched
                         /\ b = IF c.result = "MERGE" THEN c.base ELSE None
      OBVIOUS
    <3>4. Ask!Verdict(c) = [op |-> "verdict", result |-> r, matched |-> S, base |-> b]
      BY <3>3 DEF Ask!Verdict
    <3>5. S \subseteq wasCurrent /\ (r \in Ask!Matching => S # {}) /\ (b # None => b \in S)
      BY <1>2, <3>2, <3>3 DEF Ask!Valid, AskRuns, ReadSeen
    <3>6. Grounded(Ask!Verdict(c))
      BY <3>4, <3>5, GroundedVerdict
    <3>7. QED
      BY <1>3, <3>2, <3>6
  <2>3. QED
    BY <2>1, <2>2
<1>6. CASE Ask!UseCandidates
  <2>1. CASE Ask!Refuse
    BY <1>4, <2>1
  <2>2. CASE ~Ask!Refuse
    <3>1. PICK K : K = reply.said \cap {"good"}
      OBVIOUS
    <3>2. Ask!Answer([op |-> "candidates", kept |-> K])
      BY <1>6, <2>2, <3>1 DEF Ask!UseCandidates
    <3>3. QED
      BY <1>3, <3>2, GroundedPlain
  <2>3. QED
    BY <2>1, <2>2
<1>7. CASE Ask!UseName
  <2>1. CASE Ask!Nothing \/ Ask!Refuse
    BY <1>4, <2>1
  <2>2. CASE ~(Ask!Nothing \/ Ask!Refuse)
    <3>1. /\ question.op = "implicit" /\ reply.said # None /\ reply.ok /\ askPc' = "reread"
          /\ UNCHANGED <<text, reply, answer>>
      BY <1>7, <2>2 DEF Ask!UseName, Ask!Goto
    <3>2. reply.said \in Field
      BY <1>1, <1>2, <3>1 DEF AskRuns, ReplyOf
    <3>3. ReadSeen' /\ StepOf' /\ ReplyOf' /\ Paid'
      BY <1>1, <1>2, <3>1, <3>2 DEF AskRuns, ReadSeen, StepOf, ReplyOf, Paid
    <3>4. QED
      BY <1>1, <1>2, <3>1, <3>3, AskGoes
  <2>3. QED
    BY <2>1, <2>2
<1>8. CASE Ask!UseAnswer
  <2>1. PICK v \in text : Ask!Serve(question.field, v, v)
    BY <1>8 DEF Ask!UseAnswer
  <2>2. PICK f : f = question.field
    OBVIOUS
  <2>3. <<f, v>> \in was
    BY <1>2, <1>8, <2>1, <2>2 DEF Ask!UseAnswer, AskRuns, ReadSeen
  <2>4. Grounded([op |-> "doc", field |-> f, value |-> v, basis |-> v])
    BY <2>3, GroundedDoc
  <2>5. QED
    BY <1>3, <2>1, <2>2, <2>4 DEF Ask!Serve
<1>9. CASE Ask!UseText
  BY <1>4, <1>9 DEF Ask!UseText
<1>10. QED
  BY <1>5, <1>6, <1>7, <1>8, <1>9 DEF Ask!Use

\* Between requests there is nothing to ground and nothing to bill.
LEMMA AskLeave ==
    ASSUME Ask!AskOK, AskInv, Ask!Leave
    PROVE  AskInv'
<1>1. /\ askPc' = "ended" /\ answer' = None /\ spent' = 0 /\ billed' = 0 /\ cutOff' = FALSE
      /\ was' = {} /\ wasCurrent' = {} /\ askChanges' = 0
      /\ UNCHANGED <<fields, docs, items>>
  BY DEF Ask!Leave, Ask!stores
<1>2. 0 \in 0 .. MaxWrites /\ 0 \in 0 .. 1 /\ 0 \in 0 .. 0
  BY DEF Ask!AskOK
<1>3. Ask!TypeOK'
  BY <1>1, <1>2 DEF AskInv, Ask!TypeOK
<1>4. Ask!AnswersGrounded' /\ Ask!CompletionsBilled'
  BY <1>1 DEF Ask!AnswersGrounded, Ask!CompletionsBilled
<1>5. QED
  BY <1>1, <1>3, <1>4 DEF AskInv

LEMMA AskFail ==
    ASSUME AskInv, Ask!Fail
    PROVE  AskInv'
<1>1. /\ askPc' = "ended" /\ answer' = [op |-> "error"] /\ cutOff' = TRUE
      /\ UNCHANGED <<question, spent, billed, fields, docs, items, was, wasCurrent,
                     askChanges>>
  BY DEF Ask!Fail, Ask!Refuse, Ask!Answer, Ask!Goto, Ask!stores, Ask!history
<1>2. Ask!TypeOK'
  BY <1>1 DEF AskInv, Ask!TypeOK
<1>3. Ask!AnswersGrounded' /\ Ask!CompletionsBilled'
  BY <1>1 DEF Ask!AnswersGrounded, Ask!CompletionsBilled
<1>4. QED
  BY <1>1, <1>2, <1>3 DEF AskInv

LEMMA NextAsk == Ask!AskOK /\ AskInv /\ [Ask!Next]_askVars => AskInv'
<1> SUFFICES ASSUME Ask!AskOK, AskInv, [Ask!Next]_askVars PROVE AskInv'
  OBVIOUS
<1>1. CASE UNCHANGED askVars
  BY <1>1 DEF askVars, AskInv, AskRuns, Ask!TypeOK, StoresSeen, Ask!Filed, ReadSeen, StepOf,
              ReplyOf, Paid, Ask!AnswersGrounded, Ask!CompletionsBilled
<1>2. QED
  BY <1>1, AskChange, AskBegin, AskRule, AskCheckField, AskReadDoc, AskList, AskHits,
     AskReread, AskFill, AskItems, AskComplete, AskBill, AskUse, AskLeave, AskFail DEF Ask!Next

LEMMA AskPart ==
    ASSUME [ServicesNext]_allVars
    PROVE  part' = part /\ (part = "ask" => [Ask!Next]_askVars)
BY DEF ServicesNext, allVars, askVars

\* The invariant of the requests that ask a model, whatever the stores hold.
THEOREM AskInvariance == ServicesSpec => [](part = "ask" => AskInv)
<1>1. ServicesInit => (part = "ask" => AskInv)
  BY InitAsk, ServicesOK DEF ServicesInit
<1>2. (part = "ask" => AskInv) /\ [ServicesNext]_allVars => (part = "ask" => AskInv)'
  BY NextAsk, AskPart, ServicesOK
<1>3. QED
  BY <1>1, <1>2, PTL DEF ServicesSpec

\* Whatever a model or the vector index names or invents, and whoever writes meanwhile,
\* a document that is served was there during the request, and a verdict is about
\* claims that were current during it.
THEOREM AnswersAlwaysGrounded == ServicesSpec => []AnswersGrounded
<1>1. (part = "ask" => AskInv) => AnswersGrounded
  BY DEF AskInv, AnswersGrounded
<1>2. QED
  BY <1>1, AskInvariance, PTL

\* A completion is billed once, unless the request is cut off, and none of a search.
THEOREM CompletionsAlwaysBilled == ServicesSpec => []CompletionsBilled
<1>1. (part = "ask" => AskInv) => CompletionsBilled
  BY DEF AskInv, CompletionsBilled
<1>2. QED
  BY <1>1, AskInvariance, PTL

-----------------------------------------------------------------------------
(***************************************************************************)
(* Metering.  What an emit has read of a quota was consumed by then, so    *)
(* that a write which loses another one shows less than was consumed and   *)
(* never more.  Until two emits overlap, the one that is between its read  *)
(* and its write has read what the quota shows.                            *)
(***************************************************************************)
Write(e, k) == emitStep[e] = Bill!Writing[k]

QuotaInv ==
    \A k \in Bill!Types :
        /\ quota[k].used <= Limit[k] /\ quota[k].used <= consumed[k]
        /\ ~overlapped => quota[k].used = consumed[k]
        /\ \A e \in Emit : Write(e, k) => quotaRead[e] <= consumed[k]
        /\ ~overlapped => \A e \in Emit : Write(e, k) =>
              /\ quotaRead[e] = quota[k].used
              /\ \A d \in Emit : Write(d, k) => d = e

OnRecord == \A e \in Emit : emitStep[e] # "idle" => event[e] # "none"

IssuedBy(i) == issue[i] = "issued" /\ invoice = {seen[i]}

InvoiceInv ==
    /\ \/ invoice = {} /\ \A i \in Issuer : issue[i] # "issued"
       \/ \E i \in Issuer : IssuedBy(i) /\ \A j \in Issuer : issue[j] = "issued" => j = i
    /\ \A i \in Issuer : seen[i] \subseteq Bill!Rows

BillInv == Bill!TypeOK /\ QuotaInv /\ OnRecord /\ InvoiceInv

\* The steps of an emit are not those of another quota.
LEMMA WritingFact ==
    /\ Bill!Types = {"tokens", "cost"}
    /\ Bill!Writing["tokens"] = "write tokens" /\ Bill!Writing["cost"] = "write cost"
    /\ Bill!After("tokens") = "cost" /\ Bill!After("cost") = "publish"
BY DEF Bill!Types, Bill!Writing, Bill!After

LEMMA InitBill == Bill!BillingConstantsOK /\ Bill!Init => BillInv
<1> SUFFICES ASSUME Bill!BillingConstantsOK, Bill!Init PROVE BillInv
  OBVIOUS
<1>1. Bill!TypeOK
  BY DEF Bill!Init, Bill!TypeOK
<1>2. QuotaInv
  <2>1. \A k \in Bill!Types : quota[k].used = 0 /\ consumed[k] = 0 /\ Limit[k] \in Nat
    BY DEF Bill!Init, Bill!BillingConstantsOK
  <2>2. \A e \in Emit, k \in Bill!Types : ~Write(e, k)
    BY WritingFact DEF Bill!Init, Write
  <2>3. QED
    BY <2>1, <2>2 DEF QuotaInv
<1>3. OnRecord /\ InvoiceInv
  BY DEF Bill!Init, OnRecord, InvoiceInv
<1>4. QED
  BY <1>1, <1>2, <1>3 DEF BillInv

\* A step that leaves the quotas, and brings no emit to a write.
LEMMA QuotaFrame ==
    ASSUME BillInv, UNCHANGED <<quota, consumed, overlapped>>,
           \A e \in Emit, k \in Bill!Types : Write(e, k)' => Write(e, k)
              /\ quotaRead'[e] = quotaRead[e]
    PROVE  QuotaInv'
BY DEF BillInv, QuotaInv

LEMMA InvoiceFrame ==
    ASSUME BillInv, UNCHANGED <<issue, seen, invoice>>, Bill!Rows \subseteq Bill!Rows'
    PROVE  InvoiceInv'
BY DEF BillInv, InvoiceInv, IssuedBy

LEMMA RowsGrow ==
    ASSUME Bill!TypeOK, \A e \in Emit : event'[e] = event[e] \/ event'[e] # "none"
    PROVE  Bill!Rows \subseteq Bill!Rows'
BY DEF Bill!Rows

LEMMA BillStore ==
    ASSUME BillInv, NEW e \in Emit, Bill!Store(e)
    PROVE  BillInv'
<1>1. PICK s \in {"tokens", "publish"} : emitStep' = [emitStep EXCEPT ![e] = s]
  BY DEF Bill!Store, Bill!Goto
<1>2. /\ event' = [event EXCEPT ![e] = "pending"]
      /\ UNCHANGED <<quota, quotaRead, topic, consuming, issue, seen, invoice, consumed,
                     overlapped>>
  BY DEF Bill!Store
<1>3. Bill!TypeOK'
  BY <1>1, <1>2 DEF BillInv, Bill!TypeOK
<1>4. \A d \in Emit : /\ event'[d] = IF d = e THEN "pending" ELSE event[d]
                      /\ emitStep'[d] = IF d = e THEN s ELSE emitStep[d]
  BY <1>1, <1>2 DEF BillInv, Bill!TypeOK
<1>5. QuotaInv'
  BY <1>2, <1>4, QuotaFrame, WritingFact DEF Write
<1>6. OnRecord'
  BY <1>4 DEF BillInv, OnRecord
<1>7. InvoiceInv'
  BY <1>2, <1>4, InvoiceFrame, RowsGrow DEF BillInv
<1>8. QED
  BY <1>3, <1>5, <1>6, <1>7 DEF BillInv

LEMMA BillReadQuota ==
    ASSUME BillInv, NEW e \in Emit, NEW k \in Bill!Types, Bill!ReadQuota(e, k)
    PROVE  BillInv'
<1>1. /\ emitStep[e] = k
      /\ UNCHANGED <<event, quota, topic, consuming, issue, seen, invoice, consumed>>
  BY DEF Bill!ReadQuota
<1>2. k \in {"tokens", "cost"}
  BY WritingFact
<1>3. InvoiceInv'
  BY <1>1, InvoiceFrame DEF Bill!Rows
<1>4. CASE quota[k].status # "active"
  <2>1. emitStep' = [emitStep EXCEPT ![e] = Bill!After(k)]
           /\ UNCHANGED <<quotaRead, overlapped>>
    BY <1>4 DEF Bill!ReadQuota, Bill!Goto
  <2>2. Bill!After(k) \in {"cost", "publish"}
    BY <1>2, WritingFact
  <2>3. Bill!TypeOK'
    BY <1>1, <2>1, <2>2 DEF BillInv, Bill!TypeOK
  <2>4. \A d \in Emit : emitStep'[d] = IF d = e THEN Bill!After(k) ELSE emitStep[d]
    BY <2>1 DEF BillInv, Bill!TypeOK
  <2>5. QuotaInv'
    BY <1>1, <2>1, <2>2, <2>4, QuotaFrame, WritingFact DEF Write
  <2>6. OnRecord'
    BY <1>1, <1>2, <2>4 DEF BillInv, OnRecord
  <2>7. QED
    BY <1>3, <2>3, <2>5, <2>6 DEF BillInv
<1>5. CASE quota[k].status = "active"
  <2>1. PICK u : u = quota[k].used
    OBVIOUS
  <2>2. PICK w : w = Bill!Writing[k]
    OBVIOUS
  <2>3. /\ quotaRead' = [quotaRead EXCEPT ![e] = u] /\ emitStep' = [emitStep EXCEPT ![e] = w]
        /\ overlapped' = (overlapped \/ \E d \in Emit \ {e} : emitStep[d] = w)
    BY <1>5, <2>1, <2>2 DEF Bill!ReadQuota, Bill!Goto
  <2>4. w \in {"write tokens", "write cost"} /\ u \in Nat
    BY <1>2, <2>1, <2>2, WritingFact DEF BillInv, Bill!TypeOK
  <2>5. \A d \in Emit : /\ emitStep'[d] = IF d = e THEN w ELSE emitStep[d]
                        /\ quotaRead'[d] = IF d = e THEN u ELSE quotaRead[d]
    BY <2>3 DEF BillInv, Bill!TypeOK
  <2>6. Bill!TypeOK'
    <3>1. overlapped' \in BOOLEAN
      BY <2>3
    <3>2. QED
      BY <1>1, <2>3, <2>4, <3>1 DEF BillInv, Bill!TypeOK
  <2>7. OnRecord'
    BY <1>1, <1>2, <2>5 DEF BillInv, OnRecord
  <2>8. QuotaInv'
    <3>1. \A d \in Emit, l \in Bill!Types :
             Write(d, l)' <=> IF d = e THEN l = k ELSE Write(d, l)
      BY <1>2, <2>2, <2>5, WritingFact DEF Write
    <3>2. ~overlapped' => ~overlapped /\ \A d \in Emit : ~(d # e /\ Write(d, k))
      BY <2>2, <2>3 DEF Write
    <3>3. SUFFICES ASSUME NEW l \in Bill!Types
                   PROVE  /\ quota[l].used <= Limit[l] /\ quota[l].used <= consumed[l]
                          /\ ~overlapped' => quota[l].used = consumed[l]
                          /\ \A d \in Emit : Write(d, l)' => quotaRead'[d] <= consumed[l]
                          /\ ~overlapped' => \A d \in Emit : Write(d, l)' =>
                                /\ quotaRead'[d] = quota[l].used
                                /\ \A c \in Emit : Write(c, l)' => c = d
      BY <1>1 DEF QuotaInv, Write, Bill!Writing, Bill!Types
    <3>4. /\ quota[l].used <= Limit[l] /\ quota[l].used <= consumed[l]
          /\ ~overlapped' => quota[l].used = consumed[l]
      BY <3>2 DEF BillInv, QuotaInv
    <3>5. CASE l = k
      BY <2>1, <2>5, <3>1, <3>2, <3>4, <3>5 DEF BillInv, QuotaInv
    <3>6. CASE l # k
      BY <2>5, <3>1, <3>2, <3>4, <3>6 DEF BillInv, QuotaInv
    <3>7. QED
      BY <3>5, <3>6
  <2>9. QED
    BY <1>3, <2>6, <2>7, <2>8 DEF BillInv
<1>6. QED
  BY <1>4, <1>5

LEMMA BillWriteQuota ==
    ASSUME Bill!BillingConstantsOK, BillInv, NEW e \in Emit, NEW k \in Bill!Types,
           Bill!WriteQuota(e, k)
    PROVE  BillInv'
<1>1. /\ Write(e, k) /\ quotaRead' = [quotaRead EXCEPT ![e] = 0]
      /\ UNCHANGED <<event, topic, consuming, issue, seen, invoice, overlapped>>
  BY DEF Bill!WriteQuota, Write
<1>2. k \in {"tokens", "cost"}
  BY WritingFact
<1>3. InvoiceInv'
  BY <1>1, InvoiceFrame DEF Bill!Rows
<1>4. emitStep[e] \in {"write tokens", "write cost"}
  BY <1>1, <1>2, WritingFact DEF Write
<1>5. CASE Bill!Exceeds(e, k)
  <2>1. PICK r : r = [quota[k] EXCEPT !.status = "exceeded"]
    OBVIOUS
  <2>2. /\ quota' = [quota EXCEPT ![k] = r] /\ emitStep' = [emitStep EXCEPT ![e] = "refused"]
        /\ consumed' = consumed
    BY <1>5, <2>1 DEF Bill!WriteQuota, Bill!Goto
  <2>3. r \in [used : Nat, status : {"active", "exceeded"}] /\ r.used = quota[k].used
    BY <2>1 DEF BillInv, Bill!TypeOK
  <2>4. Bill!TypeOK'
    BY <1>1, <2>2, <2>3 DEF BillInv, Bill!TypeOK
  <2>5. \A d \in Emit : /\ emitStep'[d] = IF d = e THEN "refused" ELSE emitStep[d]
                        /\ d # e => quotaRead'[d] = quotaRead[d]
    BY <1>1, <2>2 DEF BillInv, Bill!TypeOK
  <2>6. OnRecord'
    BY <1>1, <1>4, <2>5 DEF BillInv, OnRecord
  <2>7. \A l \in Bill!Types : quota'[l].used = quota[l].used
    BY <2>2, <2>3 DEF BillInv, Bill!TypeOK
  <2>8. \A d \in Emit, l \in Bill!Types : Write(d, l)' <=> d # e /\ Write(d, l)
    BY <2>5, WritingFact DEF Write
  <2>9. SUFFICES ASSUME NEW l \in Bill!Types
                 PROVE  /\ quota'[l].used <= Limit[l] /\ quota'[l].used <= consumed[l]
                        /\ ~overlapped => quota'[l].used = consumed[l]
                        /\ \A d \in Emit : Write(d, l)' => quotaRead'[d] <= consumed[l]
                        /\ ~overlapped => \A d \in Emit : Write(d, l)' =>
                              /\ quotaRead'[d] = quota'[l].used
                              /\ \A c \in Emit : Write(c, l)' => c = d
    BY <1>1, <1>3, <2>2, <2>4, <2>6 DEF BillInv, QuotaInv, Write, Bill!Writing, Bill!Types
  <2>10. QED
    BY <2>5, <2>7, <2>8 DEF BillInv, QuotaInv
<1>6. CASE ~Bill!Exceeds(e, k)
  <2>1. PICK m : m = Amount[e][k]
    OBVIOUS
  <2>2. PICK c : c = consumed[k]
    OBVIOUS
  <2>3. PICK n : n = quotaRead[e]
    OBVIOUS
  <2>4. PICK r : r = [quota[k] EXCEPT !.used = n + m]
    OBVIOUS
  <2>5. /\ quota' = [quota EXCEPT ![k] = r]
        /\ emitStep' = [emitStep EXCEPT ![e] = Bill!After(k)]
        /\ consumed' = [consumed EXCEPT ![k] = c + m]
    BY <1>6, <2>1, <2>2, <2>3, <2>4 DEF Bill!WriteQuota, Bill!Goto
  <2>6. m \in Nat /\ c \in Nat /\ n \in Nat /\ Limit[k] \in Nat
    BY <2>1, <2>2, <2>3 DEF Bill!BillingConstantsOK, BillInv, Bill!TypeOK
  <2>7. n + m <= Limit[k] /\ n <= c /\ (~overlapped => n = c)
    <3>1. n + m <= Limit[k]
      BY <1>6, <2>1, <2>3, <2>6 DEF Bill!Exceeds
    <3>2. n <= c /\ (~overlapped => n = c)
      BY <1>1, <2>2, <2>3 DEF BillInv, QuotaInv
    <3>3. QED
      BY <3>1, <3>2
  <2>8. r \in [used : Nat, status : {"active", "exceeded"}] /\ r.used = n + m
    <3>1. PICK x \in Nat : x = n + m
      BY <2>6
    <3>2. PICK q \in [used : Nat, status : {"active", "exceeded"}] : q = quota[k]
      BY DEF BillInv, Bill!TypeOK
    <3>3. r = [q EXCEPT !.used = x]
      BY <2>4, <3>1, <3>2
    <3>4. QED
      BY <3>1, <3>3
  <2>9. Bill!After(k) \in {"cost", "publish"}
    BY <1>2, WritingFact
  <2>10. Bill!TypeOK'
    <3>1. c + m \in Nat
      BY <2>6
    <3>2. quota' \in [Bill!Types -> [used : Nat, status : {"active", "exceeded"}]]
      BY <2>5, <2>8 DEF BillInv, Bill!TypeOK
    <3>3. consumed' \in [Bill!Types -> Nat]
      BY <2>5, <3>1 DEF BillInv, Bill!TypeOK
    <3>4. QED
      BY <1>1, <2>5, <2>9, <3>2, <3>3 DEF BillInv, Bill!TypeOK
  <2>11. \A d \in Emit : /\ emitStep'[d] = IF d = e THEN Bill!After(k) ELSE emitStep[d]
                         /\ d # e => quotaRead'[d] = quotaRead[d]
    BY <1>1, <2>5 DEF BillInv, Bill!TypeOK
  <2>12. OnRecord'
    BY <1>1, <1>4, <2>11 DEF BillInv, OnRecord
  <2>13. \A l \in Bill!Types :
            /\ quota'[l].used = IF l = k THEN n + m ELSE quota[l].used
            /\ consumed'[l] = IF l = k THEN c + m ELSE consumed[l]
            /\ consumed[l] \in Nat
    BY <2>5, <2>8 DEF BillInv, Bill!TypeOK
  <2>14. \A d \in Emit, l \in Bill!Types : Write(d, l)' <=> d # e /\ Write(d, l)
    BY <2>9, <2>11, WritingFact DEF Write
  <2>15. ASSUME NEW l \in Bill!Types
         PROVE  /\ quota'[l].used <= Limit[l] /\ quota'[l].used <= consumed'[l]
                /\ ~overlapped => quota'[l].used = consumed'[l]
                /\ \A d \in Emit : Write(d, l)' => quotaRead'[d] <= consumed'[l]
                /\ ~overlapped => \A d \in Emit : Write(d, l)' =>
                      /\ quotaRead'[d] = quota'[l].used
                      /\ \A b \in Emit : Write(b, l)' => b = d
    <3>1. CASE l # k
      BY <2>11, <2>13, <2>14, <3>1 DEF BillInv, QuotaInv
    <3>2. CASE l = k
      <4>1. /\ quota'[l].used <= Limit[l] /\ quota'[l].used <= consumed'[l]
            /\ ~overlapped => quota'[l].used = consumed'[l]
        BY <2>6, <2>7, <2>13, <3>2
      <4>2. ASSUME NEW d \in Emit, Write(d, l)'
            PROVE  quotaRead'[d] <= consumed'[l]
        <5>1. d # e /\ Write(d, k) /\ quotaRead'[d] = quotaRead[d] /\ quotaRead[d] \in Nat
          BY <2>11, <2>14, <3>2, <4>2 DEF BillInv, Bill!TypeOK
        <5>2. quotaRead[d] <= c
          BY <2>2, <5>1 DEF BillInv, QuotaInv
        <5>3. QED
          BY <2>6, <2>13, <3>2, <5>1, <5>2
      <4>3. ~overlapped => \A d \in Emit : ~Write(d, l)'
        BY <1>1, <2>14, <3>2 DEF BillInv, QuotaInv
      <4>4. QED
        BY <4>1, <4>2, <4>3
    <3>3. QED
      BY <3>1, <3>2
  <2>16. QuotaInv'
    BY <1>1, <2>15 DEF QuotaInv, Write, Bill!Writing, Bill!Types
  <2>17. QED
    BY <1>3, <2>10, <2>12, <2>16 DEF BillInv
<1>7. QED
  BY <1>5, <1>6

\* The other steps of an emit and of the consumer write events only.
LEMMA BillEvents ==
    ASSUME BillInv, NEW e \in Emit,
           Bill!Publish(e) \/ Bill!Receive(e) \/ Bill!Process(e)
    PROVE  BillInv'
<1>1. UNCHANGED <<quota, quotaRead, issue, seen, invoice, consumed, overlapped>>
  BY DEF Bill!Publish, Bill!Receive, Bill!Process
<1>2. \/ emitStep' = emitStep
      \/ emitStep' = [emitStep EXCEPT ![e] = "done"] /\ emitStep[e] = "publish"
  BY DEF Bill!Publish, Bill!Receive, Bill!Process, Bill!Goto
<1>3. event' = event \/ event' = [event EXCEPT ![e] = "processed"]
  BY DEF Bill!Publish, Bill!Receive, Bill!Process
<1>4. Bill!TypeOK'
  <2>1. topic' \subseteq Emit /\ consuming' \subseteq Emit
    BY DEF BillInv, Bill!TypeOK, Bill!Publish, Bill!Receive, Bill!Process
  <2>2. event' \in [Emit -> {"none", "pending", "processed"}]
    BY <1>3 DEF BillInv, Bill!TypeOK
  <2>3. QED
    BY <1>1, <1>2, <2>1, <2>2 DEF BillInv, Bill!TypeOK
<1>5. \A d \in Emit :
         /\ emitStep'[d] = emitStep[d] \/ (emitStep'[d] = "done" /\ emitStep[d] = "publish")
         /\ event'[d] = event[d] \/ event'[d] = "processed"
  BY <1>2, <1>3 DEF BillInv, Bill!TypeOK
<1>6. QuotaInv'
  BY <1>1, <1>5, QuotaFrame, WritingFact DEF Write
<1>7. OnRecord'
  BY <1>5 DEF BillInv, OnRecord
<1>8. InvoiceInv'
  <2>1. \A d \in Emit : event'[d] = event[d] \/ event'[d] # "none"
    BY <1>5
  <2>2. QED
    BY <1>1, <2>1, InvoiceFrame, RowsGrow DEF BillInv
<1>9. QED
  BY <1>4, <1>6, <1>7, <1>8 DEF BillInv

LEMMA BillSum ==
    ASSUME BillInv, NEW i \in Issuer, Bill!Sum(i)
    PROVE  BillInv'
<1>1. PICK g, S : /\ g = IF invoice = {} THEN "insert" ELSE "refused"
                  /\ S = IF invoice = {} THEN Bill!Rows ELSE {}
  OBVIOUS
<1>2. /\ issue[i] = "idle"
      /\ issue' = [issue EXCEPT ![i] = g] /\ seen' = [seen EXCEPT ![i] = S]
      /\ UNCHANGED <<event, quota, emitStep, quotaRead, topic, consuming, invoice, consumed,
                     overlapped>>
  BY <1>1 DEF Bill!Sum
<1>3. S \subseteq Bill!Rows /\ Bill!Rows \subseteq Emit /\ g \in {"insert", "refused"}
  BY <1>1 DEF Bill!Rows
<1>4. Bill!TypeOK'
  BY <1>2, <1>3 DEF BillInv, Bill!TypeOK
<1>5. QuotaInv'
  BY <1>2, QuotaFrame DEF Write
<1>6. OnRecord'
  BY <1>2 DEF BillInv, OnRecord
<1>7. \A j \in Issuer : /\ issue'[j] = IF j = i THEN g ELSE issue[j]
                        /\ seen'[j] = IF j = i THEN S ELSE seen[j]
  BY <1>2 DEF BillInv, Bill!TypeOK
<1>8. Bill!Rows' = Bill!Rows
  BY <1>2 DEF Bill!Rows
<1>9. InvoiceInv'
  BY <1>2, <1>3, <1>7, <1>8 DEF BillInv, InvoiceInv, IssuedBy
<1>10. QED
  BY <1>4, <1>5, <1>6, <1>9 DEF BillInv

LEMMA BillInsert ==
    ASSUME BillInv, NEW i \in Issuer, Bill!Insert(i)
    PROVE  BillInv'
<1>1. PICK g : g = IF invoice = {} THEN "issued" ELSE "refused"
  OBVIOUS
<1>2. /\ issue[i] = "insert" /\ issue' = [issue EXCEPT ![i] = g]
      /\ invoice' = IF invoice = {} THEN {seen[i]} ELSE invoice
      /\ UNCHANGED <<event, quota, emitStep, quotaRead, topic, consuming, seen, consumed,
                     overlapped>>
  BY <1>1 DEF Bill!Insert
<1>3. g \in {"issued", "refused"} /\ seen[i] \subseteq Emit
  BY <1>1 DEF BillInv, Bill!TypeOK
<1>4. Bill!TypeOK'
  BY <1>2, <1>3 DEF BillInv, Bill!TypeOK
<1>5. QuotaInv'
  BY <1>2, QuotaFrame DEF Write
<1>6. OnRecord'
  BY <1>2 DEF BillInv, OnRecord
<1>7. \A j \in Issuer : issue'[j] = IF j = i THEN g ELSE issue[j]
  BY <1>2 DEF BillInv, Bill!TypeOK
<1>8. \A j \in Issuer : seen'[j] \subseteq Bill!Rows'
  BY <1>2 DEF BillInv, InvoiceInv, Bill!Rows
<1>9. \/ invoice' = {} /\ \A j \in Issuer : issue'[j] # "issued"
      \/ \E j \in Issuer : IssuedBy(j)' /\ \A c \in Issuer : issue'[c] = "issued" => c = j
  <2>1. CASE invoice = {}
    <3>1. \A j \in Issuer : issue[j] # "issued"
      BY <2>1 DEF BillInv, InvoiceInv, IssuedBy
    <3>2. issue'[i] = "issued" /\ invoice' = {seen'[i]}
      BY <1>1, <1>2, <1>7, <2>1
    <3>3. \A c \in Issuer : issue'[c] = "issued" => c = i
      BY <1>7, <3>1
    <3>4. QED
      BY <3>2, <3>3 DEF IssuedBy
  <2>2. CASE invoice # {}
    <3>1. PICK j \in Issuer : IssuedBy(j) /\ \A c \in Issuer : issue[c] = "issued" => c = j
      BY <2>2 DEF BillInv, InvoiceInv
    <3>2. IssuedBy(j)' /\ \A c \in Issuer : issue'[c] = "issued" => c = j
      BY <1>1, <1>2, <1>7, <2>2, <3>1 DEF IssuedBy
    <3>3. QED
      BY <3>2
  <2>3. QED
    BY <2>1, <2>2
<1>10. InvoiceInv'
  BY <1>8, <1>9 DEF InvoiceInv, IssuedBy
<1>11. QED
  BY <1>4, <1>5, <1>6, <1>10 DEF BillInv

LEMMA NextBill == Bill!BillingConstantsOK /\ BillInv /\ [Bill!Next]_billingVars => BillInv'
<1> SUFFICES ASSUME Bill!BillingConstantsOK, BillInv, [Bill!Next]_billingVars PROVE BillInv'
  OBVIOUS
<1>1. CASE UNCHANGED billingVars
  <2>1. Bill!TypeOK'
    BY <1>1 DEF billingVars, BillInv, Bill!TypeOK
  <2>2. QuotaInv' /\ OnRecord'
    BY <1>1, QuotaFrame DEF billingVars, BillInv, OnRecord, Write
  <2>3. InvoiceInv'
    BY <1>1, InvoiceFrame DEF billingVars, Bill!Rows
  <2>4. QED
    BY <2>1, <2>2, <2>3 DEF BillInv
<1>2. QED
  BY <1>1, BillStore, BillReadQuota, BillWriteQuota, BillEvents, BillSum, BillInsert
     DEF Bill!Next

LEMMA BillingPart ==
    ASSUME [ServicesNext]_allVars
    PROVE  part' = part /\ (part = "billing" => [Bill!Next]_billingVars)
BY DEF ServicesNext, allVars, billingVars

\* The invariant of metering, for any calls, amounts, limits and invoice requests.
THEOREM BillInvariance == ServicesSpec => [](part = "billing" => BillInv)
<1>1. ServicesInit => (part = "billing" => BillInv)
  BY InitBill, ServicesOK DEF ServicesInit
<1>2. (part = "billing" => BillInv) /\ [ServicesNext]_allVars => (part = "billing" => BillInv)'
  BY NextBill, BillingPart, ServicesOK
<1>3. QED
  BY <1>1, <1>2, PTL DEF ServicesSpec

LEMMA CardinalityOfBilling ==
    Bill!Cardinality({}) = 0 /\ \A x : Bill!Cardinality({x}) = 1
<1>1. \A S : Bill!Cardinality(S) = Cardinality(S)
  BY DEF Bill!Cardinality, Cardinality
<1>2. QED
  BY <1>1, FS_EmptySet, FS_Singleton

\* A quota stays within its limit and shows no more than was consumed, and exactly that
\* until two emits overlap; a call that is under way has its event; and the month is
\* invoiced once, over events on record.
THEOREM MeteringAlwaysSound == ServicesSpec => []MeteringSound
<1>1. ASSUME BillInv PROVE Bill!MeteringSound
  <2>1. Bill!UsageAccounted
    BY <1>1 DEF BillInv, QuotaInv, OnRecord, Bill!UsageAccounted
  <2>2. Bill!InvoiceOnce
    <3> DEFINE I == {i \in Issuer : issue[i] = "issued"}
    <3>1. CASE invoice = {} /\ \A i \in Issuer : issue[i] # "issued"
      <4>1. I = {}
        BY <3>1
      <4>2. QED
        BY <3>1, <4>1 DEF Bill!InvoiceOnce
    <3>2. CASE \E i \in Issuer : IssuedBy(i) /\ \A j \in Issuer : issue[j] = "issued" => j = i
      <4>1. PICK i \in Issuer : IssuedBy(i) /\ \A j \in Issuer : issue[j] = "issued" => j = i
        BY <3>2
      <4>2. PICK S : invoice = {S} /\ S = seen[i]
        BY <4>1 DEF IssuedBy
      <4>3. I = {i}
        BY <4>1 DEF IssuedBy
      <4>4. Bill!Cardinality(I) = 1 /\ Bill!Cardinality(invoice) = 1
        BY <4>2, <4>3, CardinalityOfBilling
      <4>5. S \subseteq Bill!Rows
        BY <1>1, <4>2 DEF BillInv, InvoiceInv
      <4>6. QED
        BY <4>2, <4>4, <4>5 DEF Bill!InvoiceOnce
    <3>3. QED
      BY <1>1, <3>1, <3>2 DEF BillInv, InvoiceInv
  <2>3. QED
    BY <2>1, <2>2 DEF Bill!MeteringSound
<1>2. (part = "billing" => BillInv) => MeteringSound
  BY <1>1 DEF MeteringSound
<1>3. QED
  BY <1>2, BillInvariance, PTL

-----------------------------------------------------------------------------
(***************************************************************************)
(* What a retrieve makes of its ranked candidates: each of its loops takes *)
(* a prefix of what it is given one member further.                        *)
(***************************************************************************)

\* The running total of the tokens of q.
SumOf(q, g) ==
    /\ g \in [0 .. Len(q) -> Nat] /\ g[0] = 0
    /\ \A i \in 1 .. Len(q) : g[i] = g[i - 1] + Tokens[q[i]]

LEMMA WeightSum ==
    ASSUME Bundle!RequestsOK, NEW q \in Seq(Claim)
    PROVE  \E g : SumOf(q, g) /\ Bundle!Weight(q) = g[Len(q)]
<1>1. PICK n : n = Len(q)
  OBVIOUS
<1>2. n \in Nat /\ 0 \in Nat /\ \A i \in 1 .. n : Tokens[q[i]] \in Nat /\ i - 1 \in 0 .. n
  BY <1>1 DEF Bundle!RequestsOK
<1> DEFINE P(g) == g = [i \in 0 .. n |-> IF i = 0 THEN 0 ELSE g[i - 1] + Tokens[q[i]]]
           sum == CHOOSE g : P(g)
<1>3. PICK turn : turn = [i \in 1 .. n |-> [s \in Nat |-> s + Tokens[q[i]]]]
  OBVIOUS
<1>4. Loop(n, Nat, turn)
  <2>1. SUFFICES ASSUME NEW i \in 1 .. n, NEW s \in Nat PROVE turn[i][s] \in Nat
    BY DEF Loop
  <2>2. turn[i][s] = s + Tokens[q[i]] /\ Tokens[q[i]] \in Nat
    BY <1>2, <1>3
  <2>3. QED
    BY <2>2
<1>5. PICK g : Run(n, Nat, 0, turn, g)
  BY <1>2, <1>4, LoopRuns
<1>6. g \in [0 .. n -> Nat] /\ g[0] = 0 /\ \A i \in 1 .. n : g[i] = turn[i][g[i - 1]]
  BY <1>5 DEF Run
<1>7. \A i \in 1 .. n : g[i] = g[i - 1] + Tokens[q[i]]
  <2>1. \A i \in 1 .. n : g[i - 1] \in Nat
    BY <1>2, <1>6
  <2>2. \A i \in 1 .. n : turn[i] = [s \in Nat |-> s + Tokens[q[i]]]
    BY <1>3
  <2>3. QED
    BY <1>6, <2>1, <2>2
<1>8. P(g)
  BY <1>6, <1>7
<1>9. P(sum)
  BY <1>8
<1>10. Bundle!Weight(q) = sum[n]
  BY <1>1 DEF Bundle!Weight
<1>11. PICK f : f = sum
  OBVIOUS
<1> HIDE DEF sum
<1>12. f = [i \in 0 .. n |-> IF i = 0 THEN 0 ELSE f[i - 1] + Tokens[q[i]]]
  BY <1>9, <1>11
<1>13. f[0] = 0 /\ \A i \in 1 .. n : f[i] = f[i - 1] + Tokens[q[i]]
  <2>1. 0 \in 0 .. n /\ \A i \in 1 .. n : i \in 0 .. n /\ i # 0
    BY <1>2
  <2>2. QED
    BY <1>12, <2>1
<1>14. \A i \in 0 .. n : f[i] \in Nat
  <2> DEFINE K == {i \in 0 .. n : f[i] \in Nat}
  <2>1. 0 \in K /\ K \in SUBSET (0 .. n)
    BY <1>2, <1>13
  <2>2. ASSUME NEW i \in 1 .. n, i - 1 \in K PROVE i \in K
    <3>1. f[i - 1] \in Nat /\ i \in 0 .. n
      BY <1>2, <2>2
    <3>2. f[i] = f[i - 1] + Tokens[q[i]] /\ Tokens[q[i]] \in Nat
      BY <1>2, <1>13
    <3>3. f[i] \in Nat
      BY <3>1, <3>2
    <3>4. QED
      BY <3>1, <3>3
  <2> HIDE DEF K
  <2>3. K = 0 .. n
    BY <1>2, <2>1, <2>2, Turns
  <2>4. QED
    BY <2>3 DEF K
<1>15. f \in [0 .. n -> Nat]
  BY <1>12, <1>14
<1>16. QED
  BY <1>1, <1>10, <1>11, <1>13, <1>15 DEF SumOf

LEMMA WeightFact ==
    ASSUME Bundle!RequestsOK, NEW q \in Seq(Claim)
    PROVE  /\ Bundle!Weight(q) \in Nat
           /\ q = <<>> => Bundle!Weight(q) = 0
           /\ \A c \in Claim : Bundle!Weight(Append(q, c)) = Bundle!Weight(q) + Tokens[c]
<1>1. PICK g : SumOf(q, g) /\ Bundle!Weight(q) = g[Len(q)]
  BY WeightSum
<1>2. Bundle!Weight(q) \in Nat
  BY <1>1 DEF SumOf
<1>3. q = <<>> => Bundle!Weight(q) = 0
  BY <1>1 DEF SumOf
<1>4. ASSUME NEW c \in Claim
      PROVE  Bundle!Weight(Append(q, c)) = Bundle!Weight(q) + Tokens[c]
  <2>1. PICK r, n : r = Append(q, c) /\ n = Len(q)
    OBVIOUS
  <2>2. /\ r \in Seq(Claim) /\ n \in Nat /\ Len(r) = n + 1 /\ r[n + 1] = c
        /\ \A i \in 1 .. n : r[i] = q[i]
    BY <2>1, AppendProperties
  <2>3. PICK h : SumOf(r, h) /\ Bundle!Weight(r) = h[Len(r)]
    BY <2>2, WeightSum
  <2>4. /\ g[0] = 0 /\ h[0] = 0
        /\ \A i \in 1 .. n : g[i] = g[i - 1] + Tokens[q[i]] /\ h[i] = h[i - 1] + Tokens[q[i]]
        /\ h[n + 1] = h[n] + Tokens[c]
    <3>1. \A i \in 1 .. n : i \in 1 .. n + 1
      BY <2>2
    <3>2. n + 1 \in 1 .. n + 1 /\ n + 1 - 1 = n
      BY <2>2
    <3>3. QED
      BY <1>1, <2>1, <2>2, <2>3, <3>1, <3>2 DEF SumOf
  <2> DEFINE K == {i \in 0 .. n : h[i] = g[i]}
  <2>5. 0 \in K /\ K \in SUBSET (0 .. n) /\ \A i \in 1 .. n : i - 1 \in K => i \in K
    BY <2>2, <2>4
  <2> HIDE DEF K
  <2>6. K = 0 .. n
    BY <2>2, <2>5, Turns
  <2>7. h[n] = g[n]
    BY <2>2, <2>6 DEF K
  <2>8. QED
    BY <1>1, <2>1, <2>2, <2>3, <2>4, <2>7
<1>5. QED
  BY <1>2, <1>3, <1>4

LEMMA ApartAppend ==
    ASSUME NEW U, NEW s \in Seq(U), Apart(s), NEW c \in U, \A k \in 1 .. Len(s) : s[k] # c
    PROVE  Append(s, c) \in Seq(U) /\ Len(Append(s, c)) = Len(s) + 1 /\ Apart(Append(s, c))
<1>1. PICK r, n : r = Append(s, c) /\ n = Len(s)
  OBVIOUS
<1>2. /\ r \in Seq(U) /\ n \in Nat /\ Len(r) = n + 1 /\ r[n + 1] = c
      /\ \A i \in 1 .. n : r[i] = s[i]
  BY <1>1, AppendProperties
<1>3. DOMAIN r = 1 .. n + 1 /\ DOMAIN s = 1 .. n
  BY <1>1, <1>2, LenProperties
<1>4. \A i \in 1 .. n + 1 : i = n + 1 \/ i \in 1 .. n
  BY <1>2
<1>5. \A i, j \in 1 .. n + 1 : r[i] = r[j] => i = j
  BY <1>1, <1>2, <1>3, <1>4 DEF Apart
<1>6. QED
  BY <1>1, <1>2, <1>3, <1>5 DEF Apart

LEMMA RoomFact ==
    ASSUME Bundle!RequestsOK
    PROVE  Bundle!Room \in Nat /\ Bundle!Room <= BundleTop
BY DEF Bundle!RequestsOK, Bundle!Room, Bundle!Least, Bundle!Largest

\* The loop of the selection.
LEMMA SelectedRun ==
    ASSUME Bundle!RequestsOK, NEW q \in Seq(Claim), NEW enough
    PROVE  \E f : /\ Bundle!Selected(q, enough) = f[Len(q)] /\ f[0] = <<>>
                  /\ \A i \in 1 .. Len(q) :
                        f[i] = IF q[i] \in enough /\ Bundle!Admits(f[i - 1], q[i])
                               THEN Append(f[i - 1], q[i]) ELSE f[i - 1]
<1>1. PICK n : n = Len(q)
  OBVIOUS
<1>2. n \in Nat /\ <<>> \in Seq(Claim) /\ \A i \in 1 .. n : q[i] \in Claim /\ i - 1 \in 0 .. n
  BY <1>1
<1> DEFINE After(before, c) ==
             IF c \in enough /\ Bundle!Admits(before, c) THEN Append(before, c) ELSE before
           P(f) == f = [i \in 0 .. n |-> IF i = 0 THEN <<>> ELSE After(f[i - 1], q[i])]
           among == CHOOSE f : P(f)
<1>3. Bundle!Selected(q, enough) = among[n]
  BY <1>1 DEF Bundle!Selected
<1>4. PICK turn : turn = [i \in 1 .. n |-> [s \in Seq(Claim) |-> After(s, q[i])]]
  OBVIOUS
<1>5. \A i \in 1 .. n : \A s \in Seq(Claim) : turn[i][s] = After(s, q[i])
  BY <1>4
<1>6. Loop(n, Seq(Claim), turn)
  <2>1. \A i \in 1 .. n : \A s \in Seq(Claim) : After(s, q[i]) \in Seq(Claim)
    BY <1>2
  <2>2. QED
    BY <1>5, <2>1 DEF Loop
<1> HIDE DEF After
<1>7. PICK g : Run(n, Seq(Claim), <<>>, turn, g)
  BY <1>2, <1>6, LoopRuns
<1>8. \A i \in 1 .. n : g[i] = After(g[i - 1], q[i])
  BY <1>2, <1>5, <1>7 DEF Run
<1>9. P(g)
  BY <1>7, <1>8 DEF Run
<1>10. P(among)
  BY <1>9
<1>11. PICK f : f = among
  OBVIOUS
<1>12. f = [i \in 0 .. n |-> IF i = 0 THEN <<>> ELSE After(f[i - 1], q[i])]
  BY <1>10, <1>11
<1> HIDE DEF among, P
<1>13. f[0] = <<>> /\ \A i \in 1 .. n : f[i] = After(f[i - 1], q[i])
  <2>1. 0 \in 0 .. n /\ \A i \in 1 .. n : i \in 0 .. n /\ i # 0
    BY <1>2
  <2>2. QED
    BY <1>12, <2>1
<1>14. Bundle!Selected(q, enough) = f[n]
  BY <1>3, <1>11
<1>15. QED
  BY <1>1, <1>13, <1>14 DEF After

\* What is selected of the first i members of q.
Among(q, U, i, s) ==
    /\ s \in Seq(U) /\ Apart(s) /\ Len(s) <= Bundle!Room /\ Bundle!Weight(s) <= MaxTokens
    /\ \A k \in 1 .. Len(s) : \E j \in 1 .. i : s[k] = q[j]

LEMMA SelectedFact ==
    ASSUME Bundle!RequestsOK, NEW U \in SUBSET Claim, NEW q \in Seq(U), Apart(q), NEW enough
    PROVE  /\ Bundle!Selected(q, enough) \in Seq(U) /\ Apart(Bundle!Selected(q, enough))
           /\ Len(Bundle!Selected(q, enough)) <= BundleTop
           /\ Bundle!Weight(Bundle!Selected(q, enough)) <= MaxTokens
<1>1. q \in Seq(Claim) /\ Len(q) \in Nat /\ DOMAIN q = 1 .. Len(q)
  OBVIOUS
<1>2. PICK f : /\ Bundle!Selected(q, enough) = f[Len(q)] /\ f[0] = <<>>
               /\ \A i \in 1 .. Len(q) :
                     f[i] = IF q[i] \in enough /\ Bundle!Admits(f[i - 1], q[i])
                            THEN Append(f[i - 1], q[i]) ELSE f[i - 1]
  BY <1>1, SelectedRun
<1>3. Bundle!Room \in Nat /\ Bundle!Room <= BundleTop /\ MaxTokens \in Nat /\ BundleTop \in Nat
  BY RoomFact DEF Bundle!RequestsOK
<1>4. Among(q, U, 0, f[0])
  <2>1. <<>> \in Seq(U) /\ Len(<<>>) = 0 /\ Apart(<<>>)
    BY DEF Apart
  <2>2. <<>> \in Seq(Claim)
    OBVIOUS
  <2>3. Bundle!Weight(<<>>) = 0
    BY <2>2, WeightFact
  <2>4. QED
    BY <1>2, <1>3, <2>1, <2>3 DEF Among
<1>5. ASSUME NEW i \in 1 .. Len(q), Among(q, U, i - 1, f[i - 1])
      PROVE  Among(q, U, i, f[i])
  <2>1. PICK s : s = f[i - 1]
    OBVIOUS
  <2>2. PICK c : c = q[i]
    OBVIOUS
  <2>3. /\ s \in Seq(U) /\ Apart(s) /\ Len(s) <= Bundle!Room /\ Bundle!Weight(s) <= MaxTokens
        /\ \A k \in 1 .. Len(s) : \E j \in 1 .. i - 1 : s[k] = q[j]
    BY <1>5, <2>1 DEF Among
  <2>4. c \in U /\ i \in 1 .. i /\ \A j \in 1 .. i - 1 : j \in 1 .. i /\ q[j] # c
    <3>1. \A j \in 1 .. i - 1 : j \in 1 .. Len(q) /\ j # i /\ j \in 1 .. i
      BY <1>1
    <3>2. QED
      BY <1>1, <2>2, <3>1 DEF Apart
  <2>5. f[i] = IF c \in enough /\ Bundle!Admits(s, c) THEN Append(s, c) ELSE s
    BY <1>2, <2>1, <2>2
  <2>6. CASE c \in enough /\ Bundle!Admits(s, c)
    <3>1. PICK r : r = Append(s, c)
      OBVIOUS
    <3>2. \A k \in 1 .. Len(s) : s[k] # c
      BY <2>3, <2>4
    <3>3. r \in Seq(U) /\ Len(r) = Len(s) + 1 /\ Apart(r)
      BY <2>3, <2>4, <3>1, <3>2, ApartAppend
    <3>4. r[Len(s) + 1] = c /\ \A k \in 1 .. Len(s) : r[k] = s[k]
      BY <2>3, <2>4, <3>1, AppendProperties
    <3>5. Len(s) \in Nat /\ s \in Seq(Claim) /\ c \in Claim
      BY <2>3, <2>4
    <3>6. Len(s) < Bundle!Room /\ Bundle!Weight(s) + Tokens[c] <= MaxTokens
      BY <2>6 DEF Bundle!Admits
    <3>7. Bundle!Weight(r) <= MaxTokens
      BY <3>1, <3>5, <3>6, WeightFact
    <3>8. Len(r) <= Bundle!Room
      BY <1>3, <3>3, <3>5, <3>6
    <3>9. \A k \in 1 .. Len(r) : \E j \in 1 .. i : r[k] = q[j]
      <4>1. \A k \in 1 .. Len(r) : k = Len(s) + 1 \/ k \in 1 .. Len(s)
        BY <3>3, <3>5
      <4>2. QED
        BY <2>2, <2>3, <2>4, <3>4, <4>1
    <3>10. QED
      BY <2>5, <2>6, <3>1, <3>3, <3>7, <3>8, <3>9 DEF Among
  <2>7. CASE ~(c \in enough /\ Bundle!Admits(s, c))
    BY <2>3, <2>4, <2>5, <2>7 DEF Among
  <2>8. QED
    BY <2>6, <2>7
<1> DEFINE K == {i \in 0 .. Len(q) : Among(q, U, i, f[i])}
<1>6. 0 \in K /\ K \in SUBSET (0 .. Len(q))
  BY <1>1, <1>4
<1>7. \A i \in 1 .. Len(q) : i - 1 \in K => i \in K
  BY <1>1, <1>5
<1> HIDE DEF K
<1>8. K = 0 .. Len(q)
  BY <1>1, <1>6, <1>7, Turns
<1>9. Among(q, U, Len(q), f[Len(q)])
  BY <1>1, <1>8 DEF K
<1>10. PICK v : v = f[Len(q)]
  OBVIOUS
<1>11. v \in Seq(U) /\ Apart(v) /\ Len(v) <= Bundle!Room /\ Bundle!Weight(v) <= MaxTokens
  BY <1>9, <1>10 DEF Among
<1>12. Len(v) <= BundleTop
  BY <1>3, <1>11
<1>13. QED
  BY <1>2, <1>10, <1>11, <1>12

\* The loop of the facets, of which each appends one member at most.
CoreSteps(n, q, f) ==
    /\ f[0] = <<>>
    /\ \A i \in 1 .. n :
          \/ f[i] = f[i - 1]
          \/ \E j \in 1 .. Len(q) : /\ q[j] \notin Bundle!ToSet(f[i - 1])
                                    /\ f[i] = Append(f[i - 1], q[j])

LEMMA CoreRun ==
    ASSUME NEW n \in Nat, n = req.facets, NEW U, NEW q \in Seq(U)
    PROVE  \E f : Bundle!CoreUpTo(q) = f[n] /\ CoreSteps(n, q, f)
<1> DEFINE Best(i, before) ==
             {j \in DOMAIN q : i - 1 \in facet[q[j]] /\ q[j] \notin Bundle!ToSet(before)}
           First(i, before) == CHOOSE j \in Best(i, before) : \A k \in Best(i, before) : j <= k
           After(i, before) == IF Best(i, before) = {} THEN before
                               ELSE Append(before, q[First(i, before)])
           P(f) == f = [i \in 0 .. n |-> IF i = 0 THEN <<>> ELSE After(i, f[i - 1])]
           core == CHOOSE f : P(f)
<1>1. Bundle!CoreUpTo(q) = core[n]
  BY DEF Bundle!CoreUpTo
<1>2. \A i \in 1 .. n : i - 1 \in 0 .. n
  OBVIOUS
<1>3. ASSUME NEW i, NEW s
      PROVE  \/ After(i, s) = s
             \/ \E j \in 1 .. Len(q) : q[j] \notin Bundle!ToSet(s)
                /\ After(i, s) = Append(s, q[j])
  <2>1. CASE Best(i, s) # {}
    <3>1. Best(i, s) \in SUBSET Nat /\ DOMAIN q = 1 .. Len(q)
      OBVIOUS
    <3>2. \E j \in Best(i, s) : \A k \in Best(i, s) : j <= k
      BY <2>1, <3>1, LeastNat
    <3>3. First(i, s) \in Best(i, s)
      BY <3>2
    <3>4. PICK j : j = First(i, s)
      OBVIOUS
    <3>5. After(i, s) = Append(s, q[j])
      BY <2>1, <3>4
    <3>6. j \in 1 .. Len(q) /\ q[j] \notin Bundle!ToSet(s)
      BY <3>1, <3>3, <3>4
    <3>7. QED
      BY <3>5, <3>6
  <2>2. QED
    BY <2>1
<1> HIDE DEF After, Best, First
<1>4. PICK turn : turn = [i \in 1 .. n |-> [s \in Seq(U) |-> After(i, s)]]
  OBVIOUS
<1>5. \A i \in 1 .. n : \A s \in Seq(U) : turn[i][s] = After(i, s)
  BY <1>4
<1>6. Loop(n, Seq(U), turn)
  <2>1. SUFFICES ASSUME NEW i \in 1 .. n, NEW s \in Seq(U) PROVE After(i, s) \in Seq(U)
    BY <1>5 DEF Loop
  <2>2. \A j \in 1 .. Len(q) : q[j] \in U
    OBVIOUS
  <2>3. QED
    BY <1>3, <2>2
<1>7. <<>> \in Seq(U)
  OBVIOUS
<1>8. PICK g : Run(n, Seq(U), <<>>, turn, g)
  BY <1>6, <1>7, LoopRuns
<1>9. \A i \in 1 .. n : g[i] = After(i, g[i - 1])
  BY <1>2, <1>5, <1>8 DEF Run
<1>10. P(g)
  BY <1>8, <1>9 DEF Run
<1>11. P(core)
  BY <1>10
<1>12. PICK f : f = core
  OBVIOUS
<1>13. f = [i \in 0 .. n |-> IF i = 0 THEN <<>> ELSE After(i, f[i - 1])]
  BY <1>11, <1>12
<1> HIDE DEF core, P
<1>14. f[0] = <<>> /\ \A i \in 1 .. n : f[i] = After(i, f[i - 1])
  <2>1. 0 \in 0 .. n /\ \A i \in 1 .. n : i \in 0 .. n /\ i # 0
    OBVIOUS
  <2>2. QED
    BY <1>13, <2>1
<1>15. \A i \in 1 .. n :
          \/ f[i] = f[i - 1]
          \/ \E j \in 1 .. Len(q) : q[j] \notin Bundle!ToSet(f[i - 1])
             /\ f[i] = Append(f[i - 1], q[j])
  BY <1>3, <1>14
<1>16. QED
  BY <1>1, <1>12, <1>14, <1>15 DEF CoreSteps

LEMMA CoreFact ==
    ASSUME NEW n \in Nat, n = req.facets, NEW U, NEW q \in Seq(U)
    PROVE  Bundle!CoreUpTo(q) \in Seq(U) /\ Apart(Bundle!CoreUpTo(q))
<1>1. PICK f : Bundle!CoreUpTo(q) = f[n] /\ CoreSteps(n, q, f)
  BY CoreRun
<1> DEFINE K == {i \in 0 .. n : f[i] \in Seq(U) /\ Apart(f[i])}
<1>2. 0 \in K /\ K \in SUBSET (0 .. n)
  <2>1. <<>> \in Seq(U) /\ Apart(<<>>)
    BY DEF Apart
  <2>2. f[0] = <<>> /\ 0 \in 0 .. n
    BY <1>1 DEF CoreSteps
  <2>3. QED
    BY <2>1, <2>2
<1>3. ASSUME NEW i \in 1 .. n, i - 1 \in K PROVE i \in K
  <2>1. PICK s : s = f[i - 1]
    OBVIOUS
  <2>2. s \in Seq(U) /\ Apart(s)
    BY <1>3, <2>1
  <2>3. ASSUME NEW j \in 1 .. Len(q), q[j] \notin Bundle!ToSet(s), f[i] = Append(s, q[j])
        PROVE  f[i] \in Seq(U) /\ Apart(f[i])
    <3>1. PICK c : c = q[j]
      OBVIOUS
    <3>2. c \in U
      BY <3>1
    <3>3. \A k \in 1 .. Len(s) : s[k] # c
      BY <2>2, <2>3, <3>1 DEF Bundle!ToSet
    <3>4. Append(s, c) \in Seq(U) /\ Apart(Append(s, c))
      BY <2>2, <3>2, <3>3, ApartAppend
    <3>5. QED
      BY <2>3, <3>1, <3>4
  <2>4. f[i] = s \/ \E j \in 1 .. Len(q) : q[j] \notin Bundle!ToSet(s) /\ f[i] = Append(s, q[j])
    BY <1>1, <2>1 DEF CoreSteps
  <2>5. f[i] \in Seq(U) /\ Apart(f[i])
    BY <2>2, <2>3, <2>4
  <2>6. i \in 0 .. n
    OBVIOUS
  <2>7. QED
    BY <2>5, <2>6
<1> HIDE DEF K
<1>4. K = 0 .. n
  BY <1>2, <1>3, Turns
<1>5. n \in K
  BY <1>4
<1>6. QED
  BY <1>1, <1>5 DEF K

\* The ranking of claims and that of hits pick in the same way.
LEMMA SamePicks ==
    \A q, P : /\ Bundle!Picked(q, P) = Aml!Picked(q, P)
              /\ Bundle!ToSet(q) = Aml!ToSet(q) /\ Bundle!Orders(P) = Aml!Orders(P)
              /\ Bundle!Cardinality(P) = Aml!Cardinality(P)
<1>1. \A P : Bundle!Cardinality(P) = Aml!Cardinality(P)
  BY DEF Bundle!Cardinality, Aml!Cardinality
<1>2. \A q : Bundle!ToSet(q) = Aml!ToSet(q)
  BY DEF Bundle!ToSet, Aml!ToSet
<1>3. \A q, P : Bundle!Picked(q, P) = Aml!Picked(q, P)
  BY DEF Bundle!Picked, Aml!Picked, Bundle!Cardinality, Aml!Cardinality
<1>4. \A P : Bundle!Orders(P) = Aml!Orders(P)
  BY <1>1, <1>2 DEF Bundle!Orders, Aml!Orders
<1>5. QED
  BY <1>1, <1>2, <1>3, <1>4

\* A permutation comes out of diversity and of the coverage of facets.
LEMMA ReadyFact ==
    ASSUME NEW n \in Nat, n = req.facets, NEW U, NEW q \in Seq(U), Apart(q)
    PROVE  \E v \in Seq(U) : Apart(v) /\ v = Bundle!Covered(Bundle!Diversified(q))
<1>1. PICK m \in Nat : m = Len(q)
  OBVIOUS
<1>2. q \in [1 .. m -> U] /\ DOMAIN q = 1 .. m
  BY <1>1
<1>3. PICK F : F = {i \in DOMAIN q : Bundle!Early(q, i)}
  OBVIOUS
<1>4. F \in SUBSET (1 .. m)
  BY <1>2, <1>3
<1>5. PICK d : d = Bundle!Diversified(q)
  OBVIOUS
<1>6. d = Aml!Picked(q, F) \o Aml!Picked(q, (1 .. m) \ F)
  BY <1>2, <1>3, <1>5, SamePicks DEF Bundle!Diversified
<1>7. d \in Seq(U) /\ Apart(d)
  BY <1>2, <1>4, <1>6, SplitFact
<1>8. CASE req.facets <= 1
  BY <1>5, <1>7, <1>8 DEF Bundle!Covered
<1>9. CASE ~(req.facets <= 1)
  <2>1. PICK p : p = Bundle!CoreUpTo(d)
    OBVIOUS
  <2>2. p \in Seq(U) /\ Apart(p)
    BY <1>7, <2>1, CoreFact
  <2>3. PICK a \in Nat, b \in Nat : a = Len(d) /\ b = Len(p)
    BY <1>7, <2>2
  <2>4. d \in [1 .. a -> U] /\ p \in [1 .. b -> U]
    BY <1>7, <2>2, <2>3
  <2>5. Bundle!Covered(d) = Aml!Reranked(d, p)
    <3>1. PICK P : P = {i \in DOMAIN d : d[i] \notin Bundle!ToSet(Bundle!CoreUpTo(d))}
      OBVIOUS
    <3>2. Bundle!Covered(d) = p \o Bundle!Picked(d, P)
      BY <1>9, <2>1, <3>1 DEF Bundle!Covered
    <3>3. Bundle!ToSet(Bundle!CoreUpTo(d)) = Aml!ToSet(p)
      BY <2>1, SamePicks
    <3>4. P = {i \in DOMAIN d : d[i] \notin Aml!ToSet(p)}
      BY <3>1, <3>3
    <3>5. Aml!Reranked(d, p) = p \o Aml!Picked(d, P)
      BY <3>4 DEF Aml!Reranked
    <3>6. QED
      BY <3>2, <3>5, SamePicks
  <2>6. Aml!Reranked(d, p) \in Seq(U) /\ Apart(Aml!Reranked(d, p))
    BY <1>7, <2>2, <2>4, RerankedFact
  <2>7. QED
    BY <1>5, <2>5, <2>6
<1>10. QED
  BY <1>8, <1>9

\* No claim twice: as many places as members.
LEMMA CountFact ==
    ASSUME NEW U, NEW v \in Seq(U), Apart(v)
    PROVE  Bundle!Cardinality(Bundle!ToSet(v)) = Len(v) /\ Bundle!ToSet(v) \subseteq U
<1>1. PICK n \in Nat : n = Len(v)
  OBVIOUS
<1>2. v \in [1 .. n -> U]
  BY <1>1
<1>3. Aml!Cardinality(Aml!ToSet(v)) = n
  BY <1>2, ApartCounts
<1>4. Bundle!ToSet(v) \subseteq U
  BY <1>2 DEF Bundle!ToSet
<1>5. QED
  BY <1>1, <1>3, <1>4, SamePicks

-----------------------------------------------------------------------------
(***************************************************************************)
(* The inductive invariant of retrieval and call.  Whatever is current     *)
(* since a request began is live; a candidate passed the filter and, short *)
(* of history, was live; and what is ranked and sent are candidates.       *)
(***************************************************************************)
Present == {c \in Claim : usable[c] # "absent"}

Occupies(c) == usable[c] \in {"current", "expired"}

ClaimsInv ==
    /\ IsFiniteSet(Present) /\ Apart(recent)
    /\ \A c, d \in Claim : Occupies(c) /\ Occupies(d) /\ Identity[c] = Identity[d] => c = d

UseInv ==
    /\ req.llm = (req.method = "LLM")
    /\ bundlePc \notin {"idle", "refused"} => Bundle!Usable \subseteq live

\* A claim that passed the filter for the request.
Passed(c) ==
    /\ c \in Sensitive => req.sensitive
    /\ req.llm => c \notin NoLLM
    /\ req.history \/ c \in live

CandidateInv ==
    /\ IsFiniteSet(found) /\ \A c \in found : Passed(c)
    /\ bundlePc \in {"idle", "list", "stored", "check", "answered", "refused"} => found = {}
    /\ bundlePc \notin {"rerank", "select"} => ranked = <<>> /\ sent = {}
    /\ ranked \in Seq(found) /\ Apart(ranked) /\ sent \subseteq found

BundleInv ==
    /\ Bundle!TypeOK /\ ClaimsInv /\ UseInv /\ CandidateInv
    /\ Bundle!BundleSound /\ Bundle!CallSound

LEMMA EmptyRank ==
    <<>> \in Seq({}) /\ Apart(<<>>) /\ \A S : <<>> \in Seq(S)
BY DEF Apart

LEMMA InitBundle == ASSUME Bundle!RequestsOK, Bundle!Init PROVE BundleInv
<1>1. /\ usable = [c \in Claim |-> IF c \in Bundle!ToSet(Initial) THEN "current" ELSE "absent"]
      /\ recent = Initial /\ bundleChanges = 0 /\ granted = TRUE
      /\ bundlePc = "idle" /\ req = Bundle!NoRequest /\ found = {} /\ dropped = Bundle!NoDrops
      /\ facet = Bundle!NoFacets /\ ranked = <<>> /\ sent = {} /\ bundle = Bundle!NoBundle
      /\ caller = Bundle!NoCaller /\ live = {}
  BY DEF Bundle!Init
<1>2. /\ Initial \in Seq(Claim)
      /\ \A i, j \in DOMAIN Initial : Identity[Initial[i]] = Identity[Initial[j]] => i = j
  BY DEF Bundle!RequestsOK
<1>3. Bundle!TypeOK
  <2>1. usable \in [Claim -> Bundle!Statuses]
    BY <1>1 DEF Bundle!Statuses
  <2>2. req \in Bundle!Requests /\ caller \in Bundle!Callers
    BY <1>1 DEF Bundle!NoRequest, Bundle!Requests, Bundle!NoCaller, Bundle!Callers
  <2>3. dropped \in [{"duplicate", "conflict", "redundant"} -> SUBSET Claim]
    BY <1>1 DEF Bundle!NoDrops
  <2>4. facet \in [Claim -> SUBSET Nat]
    BY <1>1 DEF Bundle!NoFacets
  <2>5. ranked \in Seq(Claim) /\ bundle \in [items : Seq(Claim), open : BOOLEAN]
    BY <1>1 DEF Bundle!NoBundle
  <2>6. bundleChanges \in 0 .. MaxClaimChanges
    BY <1>1 DEF Bundle!RequestsOK
  <2>7. QED
    BY <1>1, <1>2, <2>1, <2>2, <2>3, <2>4, <2>5, <2>6 DEF Bundle!TypeOK
<1>4. ClaimsInv
  <2>1. PICK n \in Nat : n = Len(Initial)
    BY <1>2
  <2>2. Initial \in [1 .. n -> Claim] /\ DOMAIN Initial = 1 .. n
    BY <1>2, <2>1
  <2>3. Present = Bundle!ToSet(Initial)
    BY <1>1, <2>2 DEF Present, Bundle!ToSet
  <2>4. IsFiniteSet(Present)
    <3>1. PICK S : S = Bundle!ToSet(Initial)
      OBVIOUS
    <3>2. Initial \in [1 .. n -> S] /\ \A s \in S : \E i \in 1 .. n : Initial[i] = s
      BY <2>2, <3>1 DEF Bundle!ToSet
    <3>3. Initial \in Surjection(1 .. n, S)
      BY <3>2, Fun_IsSurj
    <3>4. IsFiniteSet(S)
      BY <3>3, FS_Interval, FS_Surjection
    <3>5. QED
      BY <2>3, <3>1, <3>4
  <2>5. Apart(recent)
    BY <1>1, <1>2 DEF Apart
  <2>6. \A c \in Claim : Occupies(c) => \E i \in 1 .. n : Initial[i] = c
    BY <1>1, <2>2 DEF Occupies, Bundle!ToSet
  <2>7. \A c, d \in Claim : Occupies(c) /\ Occupies(d) /\ Identity[c] = Identity[d] => c = d
    BY <1>2, <2>2, <2>6
  <2>8. QED
    BY <2>4, <2>5, <2>7 DEF ClaimsInv
<1>5. UseInv
  BY <1>1 DEF UseInv, Bundle!NoRequest
<1>6. CandidateInv
  BY <1>1, EmptyRank, FS_EmptySet DEF CandidateInv
<1>7. Bundle!BundleSound /\ Bundle!CallSound
  BY <1>1 DEF Bundle!BundleSound, Bundle!CallSound, Bundle!AnsweredIsLive, Bundle!AnsweredOnce
<1>8. QED
  BY <1>3, <1>4, <1>5, <1>6, <1>7 DEF BundleInv

-----------------------------------------------------------------------------
\* A step of the world leaves the request alone, and what was live stays live.
LEMMA WorldFrame ==
    ASSUME BundleInv, Bundle!TypeOK', ClaimsInv', live \subseteq live',
           bundlePc \notin {"idle", "refused"} => Bundle!Usable' \subseteq live',
           UNCHANGED <<bundlePc, req, found, ranked, sent, caller>>,
           bundle'.items = bundle.items
    PROVE  BundleInv'
<1>1. UseInv' /\ CandidateInv'
  BY DEF BundleInv, UseInv, CandidateInv, Passed
<1>2. Bundle!BundleSound'
  BY DEF BundleInv, Bundle!BundleSound, Bundle!Permitted
<1>3. Bundle!CallSound'
  BY DEF BundleInv, Bundle!CallSound, Bundle!AnsweredIsLive, Bundle!AnsweredOnce,
         Bundle!Permitted
<1>4. QED
  BY <1>1, <1>2, <1>3 DEF BundleInv

LEMMA ClaimStep ==
    ASSUME Bundle!RequestsOK, BundleInv, NEW c \in Claim, NEW s \in Bundle!Statuses,
           Bundle!ClaimChanges(c, s)
    PROVE  BundleInv'
<1>1. /\ bundleChanges < MaxClaimChanges /\ <<usable[c], s>> \in Bundle!Moves
      /\ s = "current" => ~Bundle!Occupied(c)
      /\ usable' = [usable EXCEPT ![c] = s]
      /\ recent' = <<c>> \o Bundle!Picked(recent, {i \in DOMAIN recent : recent[i] # c})
      /\ bundleChanges' = bundleChanges + 1
      /\ live' = IF s = "current" THEN live \cup {c} ELSE live
      /\ UNCHANGED <<granted, bundlePc, req, found, dropped, facet, ranked, sent, bundle,
                     caller>>
  BY DEF Bundle!ClaimChanges, Bundle!locals
<1>2. Bundle!TypeOK /\ ClaimsInv /\ UseInv
  BY DEF BundleInv
<1>3. s \in {"current", "past", "gone"}
  BY <1>1 DEF Bundle!Moves
<1>4. \A d \in Claim : usable'[d] = IF d = c THEN s ELSE usable[d]
  BY <1>1, <1>2 DEF Bundle!TypeOK
<1>5. recent' \in Seq(Claim) /\ Apart(recent')
  <2>1. PICK q : q = recent
    OBVIOUS
  <2>2. q \in Seq(Claim) /\ Apart(q)
    BY <1>2, <2>1 DEF Bundle!TypeOK, ClaimsInv
  <2>3. PICK n \in Nat : n = Len(q)
    BY <2>2
  <2>4. q \in [1 .. n -> Claim]
    BY <2>2, <2>3
  <2>5. PICK p : p = <<c>>
    OBVIOUS
  <2>6. p \in [1 .. 1 -> Claim] /\ Apart(p) /\ Aml!ToSet(p) = {c}
    BY <2>5 DEF Apart, Aml!ToSet
  <2>7. Aml!Reranked(q, p) \in Seq(Claim) /\ Apart(Aml!Reranked(q, p))
    BY <2>2, <2>4, <2>6, RerankedFact
  <2>8. PICK P : P = {i \in DOMAIN q : q[i] # c}
    OBVIOUS
  <2>9. P = {i \in DOMAIN q : q[i] \notin Aml!ToSet(p)}
    BY <2>6, <2>8
  <2>10. Aml!Reranked(q, p) = p \o Aml!Picked(q, P)
    BY <2>9 DEF Aml!Reranked
  <2>11. recent' = p \o Bundle!Picked(q, P)
    BY <1>1, <2>1, <2>5, <2>8
  <2>12. QED
    BY <2>7, <2>10, <2>11, SamePicks
<1>6. Bundle!TypeOK'
  <2>1. usable' \in [Claim -> Bundle!Statuses]
    BY <1>1, <1>2 DEF Bundle!TypeOK
  <2>2. bundleChanges' \in 0 .. MaxClaimChanges
    BY <1>1, <1>2 DEF Bundle!TypeOK, Bundle!RequestsOK
  <2>3. live' \subseteq Claim
    BY <1>1, <1>2 DEF Bundle!TypeOK
  <2>4. QED
    BY <1>1, <1>2, <1>5, <2>1, <2>2, <2>3 DEF Bundle!TypeOK
<1>7. ClaimsInv'
  <2>1. Present' \subseteq Present \cup {c}
    BY <1>4 DEF Present
  <2>2. IsFiniteSet(Present')
    BY <1>2, <2>1, FS_AddElement, FS_Subset DEF ClaimsInv
  <2>3. \A d \in Claim \ {c} : Occupies(d)' = Occupies(d)
    BY <1>4 DEF Occupies
  <2>4. Occupies(c)' => \A d \in Claim \ {c} : Identity[d] = Identity[c] => ~Occupies(d)
    BY <1>1, <1>3, <1>4 DEF Occupies, Bundle!Occupied
  <2>5. ASSUME NEW a \in Claim, NEW b \in Claim, Occupies(a)', Occupies(b)',
               Identity[a] = Identity[b]
        PROVE  a = b
    <3>1. CASE a # c /\ b # c
      BY <1>2, <2>3, <2>5, <3>1 DEF ClaimsInv
    <3>2. CASE a = c /\ b # c
      BY <2>3, <2>4, <2>5, <3>2
    <3>3. CASE a # c /\ b = c
      BY <2>3, <2>4, <2>5, <3>3
    <3>4. QED
      BY <3>1, <3>2, <3>3
  <2>6. QED
    BY <1>5, <2>2, <2>5 DEF ClaimsInv
<1>8. Bundle!Usable' \subseteq Bundle!Usable \cup (IF s = "current" THEN {c} ELSE {})
  BY <1>4 DEF Bundle!Usable
<1>9. bundlePc \notin {"idle", "refused"} => Bundle!Usable' \subseteq live'
  BY <1>1, <1>2, <1>8 DEF UseInv
<1>10. QED
  BY <1>1, <1>6, <1>7, <1>9, WorldFrame

LEMMA WorldStep ==
    ASSUME Bundle!RequestsOK, BundleInv, Bundle!World
    PROVE  BundleInv'
<1>1. Bundle!TypeOK /\ ClaimsInv /\ UseInv
  BY DEF BundleInv
<1>2. ASSUME NEW c \in Claim, NEW s \in Bundle!Statuses, Bundle!ClaimChanges(c, s)
      PROVE  BundleInv'
  BY <1>2, ClaimStep
<1>3. ASSUME NEW c \in Claim, Bundle!ClaimExpires(c)
      PROVE  BundleInv'
  <2>1. /\ bundleChanges < MaxClaimChanges /\ usable[c] = "current"
        /\ usable' = [usable EXCEPT ![c] = "expired"] /\ bundleChanges' = bundleChanges + 1
        /\ UNCHANGED <<recent, granted, bundlePc, req, found, dropped, facet, ranked, sent,
                       bundle, caller, live>>
    BY <1>3 DEF Bundle!ClaimExpires, Bundle!locals
  <2>2. \A d \in Claim : usable'[d] = IF d = c THEN "expired" ELSE usable[d]
    BY <1>1, <2>1 DEF Bundle!TypeOK
  <2>3. Bundle!TypeOK'
    <3>1. usable' \in [Claim -> Bundle!Statuses]
      BY <1>1, <2>1 DEF Bundle!TypeOK, Bundle!Statuses
    <3>2. bundleChanges' \in 0 .. MaxClaimChanges
      BY <1>1, <2>1 DEF Bundle!TypeOK, Bundle!RequestsOK
    <3>3. QED
      BY <1>1, <2>1, <3>1, <3>2 DEF Bundle!TypeOK
  <2>4. Present' = Present /\ \A d \in Claim : Occupies(d)' = Occupies(d)
    BY <2>1, <2>2 DEF Present, Occupies
  <2>5. ClaimsInv'
    BY <1>1, <2>1, <2>4 DEF ClaimsInv
  <2>6. Bundle!Usable' \subseteq Bundle!Usable
    BY <2>2 DEF Bundle!Usable
  <2>7. QED
    BY <1>1, <2>1, <2>3, <2>5, <2>6, WorldFrame DEF UseInv
<1>4. CASE Bundle!Withdraw
  <2>1. /\ granted' = FALSE
        /\ UNCHANGED <<usable, recent, bundleChanges, bundlePc, req, found, dropped, facet,
                       ranked, sent, bundle, caller, live>>
    BY <1>4 DEF Bundle!Withdraw, Bundle!locals
  <2>2. Bundle!TypeOK' /\ ClaimsInv' /\ Bundle!Usable' = Bundle!Usable
    BY <1>1, <2>1 DEF Bundle!TypeOK, ClaimsInv, Present, Occupies, Bundle!Usable
  <2>3. QED
    BY <1>1, <2>1, <2>2, WorldFrame DEF UseInv
<1>5. CASE Bundle!BundleExpires
  <2>1. /\ bundle' = [bundle EXCEPT !.open = FALSE]
        /\ UNCHANGED <<usable, recent, bundleChanges, granted, bundlePc, req, found, dropped,
                       facet, ranked, sent, caller, live>>
    BY <1>5 DEF Bundle!BundleExpires, Bundle!locals, Bundle!world
  <2>2. bundle'.items = bundle.items /\ bundle' \in [items : Seq(Claim), open : BOOLEAN]
    BY <1>1, <2>1 DEF Bundle!TypeOK
  <2>3. Bundle!TypeOK' /\ ClaimsInv' /\ Bundle!Usable' = Bundle!Usable
    BY <1>1, <2>1, <2>2 DEF Bundle!TypeOK, ClaimsInv, Present, Occupies, Bundle!Usable
  <2>4. QED
    BY <1>1, <2>1, <2>2, <2>3, WorldFrame DEF UseInv
<1>6. QED
  BY <1>2, <1>3, <1>4, <1>5 DEF Bundle!World

-----------------------------------------------------------------------------
\* Whatever a read of the request returns and the filter lets through, passed.
LEMMA ReadFact ==
    ASSUME BundleInv, bundlePc \notin {"idle", "refused"},
           NEW S \in SUBSET Bundle!Visible(req.history)
    PROVE  /\ IsFiniteSet(Bundle!Filtered(S, req)) /\ Bundle!Filtered(S, req) \subseteq Claim
           /\ \A c \in Bundle!Filtered(S, req) : Passed(c)
<1>1. PICK F : F = Bundle!Filtered(S, req)
  OBVIOUS
<1>2. \A c \in F : c \in S /\ Bundle!Allowed(c, req)
  BY <1>1 DEF Bundle!Filtered
<1>3. F \subseteq Claim /\ F \subseteq Present
  BY <1>2 DEF Bundle!Visible, Present
<1>4. IsFiniteSet(F)
  BY <1>3, FS_Subset DEF BundleInv, ClaimsInv
<1>5. \A c \in F : Passed(c)
  BY <1>2, <1>3 DEF BundleInv, UseInv, Passed, Bundle!Allowed, Bundle!Usable
<1>6. QED
  BY <1>1, <1>3, <1>4, <1>5

\* Two finite sets of claims that passed.
LEMMA BothPassed ==
    ASSUME BundleInv, NEW F, IsFiniteSet(F), F \subseteq Claim, \A c \in F : Passed(c)
    PROVE  /\ IsFiniteSet(found \cup F) /\ found \cup F \subseteq Claim
           /\ \A c \in found \cup F : Passed(c)
BY FS_Union DEF BundleInv, CandidateInv, Bundle!TypeOK

\* A step that gathers candidates leaves the rest of the request alone.
LEMMA GatherStep ==
    ASSUME BundleInv,
           bundlePc \in {"list", "recall", "lexical", "compose", "vector", "hydrate",
                         "neighbors"},
           bundlePc' \in {"recall", "lexical", "compose", "vector", "hydrate", "neighbors",
                          "rank"},
           UNCHANGED <<usable, recent, bundleChanges, granted, req, ranked, sent, bundle,
                       caller, live>>,
           IsFiniteSet(found'), found' \subseteq Claim, \A c \in found' : Passed(c),
           dropped' \in [{"duplicate", "conflict", "redundant"} -> SUBSET Claim],
           facet' \in [Claim -> SUBSET Nat]
    PROVE  BundleInv'
<1>1. Bundle!TypeOK'
  BY DEF BundleInv, Bundle!TypeOK
<1>2. ClaimsInv' /\ UseInv'
  BY DEF BundleInv, ClaimsInv, UseInv, Present, Occupies, Bundle!Usable
<1>3. CandidateInv'
  <2>1. ranked' = <<>> /\ sent' = {}
    BY DEF BundleInv, CandidateInv
  <2>2. \A c \in found' : Passed(c)'
    BY DEF Passed
  <2>3. QED
    BY <2>1, <2>2, EmptyRank DEF CandidateInv
<1>4. Bundle!BundleSound' /\ Bundle!CallSound'
  <2>1. sent' = {}
    BY DEF BundleInv, CandidateInv
  <2>2. QED
    BY <2>1 DEF Bundle!BundleSound, Bundle!CallSound, Bundle!AnsweredIsLive, Bundle!AnsweredOnce
<1>5. QED
  BY <1>1, <1>2, <1>3, <1>4 DEF BundleInv

LEMMA BeginStep ==
    ASSUME Bundle!RequestsOK, BundleInv, NEW r \in BundleRequest, Bundle!Begin(r)
    PROVE  BundleInv'
<1>1. /\ bundlePc = "idle" /\ req' = r /\ live' = Bundle!Usable /\ bundlePc' = "list"
      /\ UNCHANGED <<usable, recent, bundleChanges, granted, found, dropped, facet, ranked,
                     sent, bundle, caller>>
  BY DEF Bundle!Begin, Bundle!Goto, Bundle!world, Bundle!locals
<1>2. r \in Bundle!Requests /\ r.llm = (r.method = "LLM")
  BY DEF Bundle!RequestsOK
<1>3. found = {} /\ ranked = <<>> /\ sent = {}
  BY <1>1 DEF BundleInv, CandidateInv
<1>4. Bundle!TypeOK'
  BY <1>1, <1>2 DEF BundleInv, Bundle!TypeOK, Bundle!Usable
<1>5. ClaimsInv' /\ UseInv'
  BY <1>1, <1>2 DEF BundleInv, ClaimsInv, UseInv, Present, Occupies, Bundle!Usable
<1>6. CandidateInv'
  BY <1>1, <1>3, EmptyRank, FS_EmptySet DEF CandidateInv
<1>7. Bundle!BundleSound' /\ Bundle!CallSound'
  BY <1>1, <1>3
     DEF Bundle!BundleSound, Bundle!CallSound, Bundle!AnsweredIsLive, Bundle!AnsweredOnce
<1>8. QED
  BY <1>4, <1>5, <1>6, <1>7 DEF BundleInv

LEMMA GatherSteps ==
    ASSUME Bundle!RequestsOK, BundleInv,
           Bundle!ListCandidates \/ Bundle!RecallActions \/ Bundle!RecallTerms
             \/ Bundle!Compose \/ Bundle!SearchFacets \/ Bundle!Hydrate
             \/ Bundle!HydrateFails \/ Bundle!RecallNeighbors
    PROVE  BundleInv'
<1>1. /\ IsFiniteSet(found) /\ found \subseteq Claim /\ \A c \in found : Passed(c)
      /\ dropped \in [{"duplicate", "conflict", "redundant"} -> SUBSET Claim]
      /\ facet \in [Claim -> SUBSET Nat] /\ req \in Bundle!Requests
  BY DEF BundleInv, CandidateInv, Bundle!TypeOK
<1>2. CASE Bundle!ListCandidates
  <2>1. /\ bundlePc = "list" /\ bundlePc' = "recall"
        /\ found' = Bundle!Filtered(Bundle!Newest(CandidateLimit, req.history), req)
        /\ UNCHANGED <<usable, recent, bundleChanges, granted, req, dropped, facet, ranked,
                       sent, bundle, caller, live>>
    BY <1>2 DEF Bundle!ListCandidates, Bundle!Goto, Bundle!world
  <2>2. Bundle!Newest(CandidateLimit, req.history) \in SUBSET Bundle!Visible(req.history)
    BY DEF Bundle!Newest
  <2>3. IsFiniteSet(found') /\ found' \subseteq Claim /\ \A c \in found' : Passed(c)
    BY <2>1, <2>2, ReadFact
  <2>4. QED
    BY <1>1, <2>1, <2>3, GatherStep
<1>3. CASE Bundle!RecallActions \/ Bundle!RecallTerms
  <2>1. PICK S \in Bundle!Matches(req.history) : found' = found \cup Bundle!Filtered(S, req)
    BY <1>3 DEF Bundle!RecallActions, Bundle!RecallTerms
  <2>2. /\ bundlePc \in {"recall", "lexical"} /\ bundlePc' \in {"lexical", "compose", "vector"}
        /\ UNCHANGED <<usable, recent, bundleChanges, granted, req, dropped, facet, ranked,
                       sent, bundle, caller, live>>
    BY <1>3 DEF Bundle!RecallActions, Bundle!RecallTerms, Bundle!Goto, Bundle!world
  <2>3. PICK F : F = Bundle!Filtered(S, req)
    OBVIOUS
  <2>4. IsFiniteSet(F) /\ F \subseteq Claim /\ \A c \in F : Passed(c)
    BY <2>2, <2>3, ReadFact DEF Bundle!Matches
  <2>5. IsFiniteSet(found') /\ found' \subseteq Claim /\ \A c \in found' : Passed(c)
    BY <2>1, <2>3, <2>4, BothPassed
  <2>6. QED
    BY <1>1, <2>2, <2>5, GatherStep
<1>4. CASE Bundle!Compose
  <2>1. PICK keep \in SUBSET {c \in found : Relation[c] = "increment"} :
           /\ found' = keep
           /\ dropped' = [duplicate |-> {c \in found : Relation[c] = "duplicate"},
                          conflict  |-> {c \in found : Relation[c] = "conflict"},
                          redundant |-> {c \in found : Relation[c] = "increment"} \ keep]
    BY <1>4 DEF Bundle!Compose
  <2>2. /\ bundlePc = "compose" /\ bundlePc' = "vector"
        /\ UNCHANGED <<usable, recent, bundleChanges, granted, req, facet, ranked,
                       sent, bundle, caller, live>>
    BY <1>4 DEF Bundle!Compose, Bundle!Goto, Bundle!world
  <2>3. found' \subseteq found
    BY <2>1
  <2>4. IsFiniteSet(found') /\ found' \subseteq Claim /\ \A c \in found' : Passed(c)
    BY <1>1, <2>3, FS_Subset
  <2>5. dropped' \in [{"duplicate", "conflict", "redundant"} -> SUBSET Claim]
    <3>1. PICK A, B, C : /\ A = {c \in found : Relation[c] = "duplicate"}
                         /\ B = {c \in found : Relation[c] = "conflict"}
                         /\ C = {c \in found : Relation[c] = "increment"} \ keep
      OBVIOUS
    <3>2. A \subseteq Claim /\ B \subseteq Claim /\ C \subseteq Claim
      BY <1>1, <3>1
    <3>3. dropped' = [duplicate |-> A, conflict |-> B, redundant |-> C]
      BY <2>1, <3>1
    <3>4. QED
      BY <3>2, <3>3
  <2>6. QED
    BY <1>1, <2>2, <2>4, <2>5, GatherStep
<1>5. CASE Bundle!SearchFacets
  <2>1. PICK byFacet : facet' = [c \in Claim |-> {f \in DOMAIN byFacet : c \in byFacet[f]}]
                    /\ byFacet \in [0 .. req.facets - 1 -> SUBSET Claim]
    BY <1>5 DEF Bundle!SearchFacets
  <2>2. /\ bundlePc = "vector" /\ bundlePc' = "hydrate"
        /\ UNCHANGED <<usable, recent, bundleChanges, granted, req, found, dropped, ranked,
                       sent, bundle, caller, live>>
    BY <1>5 DEF Bundle!SearchFacets, Bundle!Goto, Bundle!world
  <2>3. DOMAIN byFacet \subseteq Nat
    BY <1>1, <2>1 DEF Bundle!Requests
  <2>4. facet' \in [Claim -> SUBSET Nat]
    BY <2>1, <2>3
  <2>5. QED
    BY <1>1, <2>2, <2>4, GatherStep
<1>6. CASE Bundle!Hydrate
  <2>1. PICK S : S = Bundle!ById(Bundle!Hit \ found, req.history)
    OBVIOUS
  <2>2. /\ bundlePc = "hydrate" /\ bundlePc' = "neighbors"
        /\ found' = found \cup Bundle!Filtered(S, req)
        /\ UNCHANGED <<usable, recent, bundleChanges, granted, req, dropped, facet, ranked,
                       sent, bundle, caller, live>>
    BY <1>6, <2>1 DEF Bundle!Hydrate, Bundle!Goto, Bundle!world
  <2>3. S \in SUBSET Bundle!Visible(req.history)
    BY <2>1 DEF Bundle!ById
  <2>4. PICK F : F = Bundle!Filtered(S, req)
    OBVIOUS
  <2>5. IsFiniteSet(F) /\ F \subseteq Claim /\ \A c \in F : Passed(c)
    BY <2>2, <2>3, <2>4, ReadFact
  <2>6. IsFiniteSet(found') /\ found' \subseteq Claim /\ \A c \in found' : Passed(c)
    BY <2>2, <2>4, <2>5, BothPassed
  <2>7. QED
    BY <1>1, <2>2, <2>6, GatherStep
<1>7. CASE Bundle!HydrateFails
  <2>1. /\ bundlePc = "hydrate" /\ bundlePc' = "neighbors"
        /\ UNCHANGED <<usable, recent, bundleChanges, granted, req, found, dropped, facet,
                       ranked, sent, bundle, caller, live>>
    BY <1>7 DEF Bundle!HydrateFails, Bundle!Goto, Bundle!world, Bundle!locals
  <2>2. QED
    BY <1>1, <2>1, GatherStep
<1>8. CASE Bundle!RecallNeighbors
  <2>1. PICK S \in Bundle!Neighbors(found, req.history) :
           found' = found \cup Bundle!Filtered(S, req)
    BY <1>8 DEF Bundle!RecallNeighbors
  <2>2. /\ bundlePc = "neighbors" /\ bundlePc' = "rank"
        /\ UNCHANGED <<usable, recent, bundleChanges, granted, req, dropped, facet, ranked,
                       sent, bundle, caller, live>>
    BY <1>8 DEF Bundle!RecallNeighbors, Bundle!Goto, Bundle!world
  <2>3. S \in SUBSET Bundle!Visible(req.history)
    BY <2>1 DEF Bundle!Neighbors
  <2>4. PICK F : F = Bundle!Filtered(S, req)
    OBVIOUS
  <2>5. IsFiniteSet(F) /\ F \subseteq Claim /\ \A c \in F : Passed(c)
    BY <2>2, <2>3, <2>4, ReadFact
  <2>6. IsFiniteSet(found') /\ found' \subseteq Claim /\ \A c \in found' : Passed(c)
    BY <2>1, <2>4, <2>5, BothPassed
  <2>7. QED
    BY <1>1, <2>2, <2>6, GatherStep
<1>9. QED
  BY <1>2, <1>3, <1>4, <1>5, <1>6, <1>7, <1>8

-----------------------------------------------------------------------------
\* An order of candidates ranks each once.
LEMMA RankFact ==
    ASSUME BundleInv, NEW S \in SUBSET found, NEW q \in Bundle!Orders(S)
    PROVE  q \in Seq(found) /\ Apart(q)
<1>1. IsFiniteSet(S)
  BY FS_Subset DEF BundleInv, CandidateInv
<1>2. q \in Aml!Orders(S)
  BY SamePicks
<1>3. Cardinality(S) \in Nat /\ q \in [1 .. Cardinality(S) -> S] /\ Apart(q)
  BY <1>1, <1>2, OrderFact
<1>4. PICK n \in Nat : n = Cardinality(S)
  BY <1>3
<1>5. q \in [1 .. n -> found]
  BY <1>3, <1>4
<1>6. QED
  BY <1>3, <1>4, <1>5

\* A step that orders the candidates, or sends some of them.
LEMMA OrderStep ==
    ASSUME BundleInv, bundlePc' \in {"rerank", "select"}, bundlePc \notin {"idle", "refused"},
           UNCHANGED <<usable, recent, bundleChanges, granted, req, found, dropped, facet,
                       bundle, caller, live>>,
           bundlePc \in {"rank", "rerank"},
           ranked' \in Seq(found), Apart(ranked'), sent' \subseteq found
    PROVE  BundleInv'
<1>1. found \subseteq Claim /\ IsFiniteSet(found) /\ \A c \in found : Passed(c)
  BY DEF BundleInv, CandidateInv, Bundle!TypeOK
<1>2. ranked' \in Seq(Claim) /\ sent' \subseteq Claim
  BY <1>1
<1>3. Bundle!TypeOK'
  BY <1>2 DEF BundleInv, Bundle!TypeOK
<1>4. ClaimsInv' /\ UseInv'
  BY DEF BundleInv, ClaimsInv, UseInv, Present, Occupies, Bundle!Usable
<1>5. CandidateInv'
  BY <1>1 DEF CandidateInv, Passed
<1>6. Bundle!BundleSound'
  <2>1. req.method = "LLM" => \A c \in sent' : c \notin NoLLM
    BY <1>1 DEF BundleInv, UseInv, Passed
  <2>2. QED
    BY <2>1 DEF Bundle!BundleSound
<1>7. Bundle!CallSound'
  BY DEF Bundle!CallSound, Bundle!AnsweredIsLive, Bundle!AnsweredOnce
<1>8. QED
  BY <1>3, <1>4, <1>5, <1>6, <1>7 DEF BundleInv

LEMMA RankSteps ==
    ASSUME Bundle!RequestsOK, BundleInv, Bundle!Rank \/ Bundle!Rerank
    PROVE  BundleInv'
<1>1. CASE Bundle!Rank
  <2>1. PICK S \in SUBSET found : ranked' \in Bundle!Orders(S)
    BY <1>1 DEF Bundle!Rank
  <2>2. /\ bundlePc = "rank" /\ bundlePc' \in {"rerank", "select"}
        /\ UNCHANGED <<usable, recent, bundleChanges, granted, req, found, dropped, facet,
                       sent, bundle, caller, live>>
    BY <1>1 DEF Bundle!Rank, Bundle!Goto, Bundle!world
  <2>3. ranked' \in Seq(found) /\ Apart(ranked') /\ sent' \subseteq found
    <3>1. PICK q : q = ranked'
      OBVIOUS
    <3>2. q \in Seq(found) /\ Apart(q)
      BY <2>1, <3>1, RankFact
    <3>3. QED
      BY <2>2, <3>1, <3>2 DEF BundleInv, CandidateInv
  <2>4. QED
    BY <2>2, <2>3, OrderStep
<1>2. CASE Bundle!Rerank
  <2>1. /\ bundlePc = "rerank" /\ bundlePc' = "select"
        /\ sent' = Bundle!ToSet(SubSeq(ranked, 1, Bundle!Least(CandidateLimit, Len(ranked))))
        /\ UNCHANGED <<usable, recent, bundleChanges, granted, req, found, dropped, facet,
                       bundle, caller, live>>
    BY <1>2 DEF Bundle!Rerank, Bundle!Goto, Bundle!world
  <2>2. PICK q : q = ranked
    OBVIOUS
  <2>3. q \in Seq(found) /\ Apart(q)
    BY <2>2 DEF BundleInv, CandidateInv
  <2>4. sent' \subseteq found
    <3>1. PICK m : m = Bundle!Least(CandidateLimit, Len(q))
      OBVIOUS
    <3>2. m \in Nat /\ m <= Len(q)
      BY <2>3, <3>1 DEF Bundle!Least, Bundle!RequestsOK
    <3>3. PICK p : p = SubSeq(q, 1, m)
      OBVIOUS
    <3>4. p \in Seq(found)
      BY <2>3, <3>2, <3>3, SubSeqProperties
    <3>5. Bundle!ToSet(p) \subseteq found
      BY <3>4 DEF Bundle!ToSet
    <3>6. QED
      BY <2>1, <2>2, <3>1, <3>3, <3>5
  <2>5. ranked' \in Seq(found) /\ Apart(ranked')
    <3>1. CASE \E S \in SUBSET Bundle!ToSet(ranked) : ranked' \in Bundle!Orders(S)
      <4>1. PICK S \in SUBSET Bundle!ToSet(q) : ranked' \in Bundle!Orders(S)
        BY <2>2, <3>1
      <4>2. S \in SUBSET found
        BY <2>3, <4>1 DEF Bundle!ToSet
      <4>3. PICK p : p = ranked'
        OBVIOUS
      <4>4. QED
        BY <4>1, <4>2, <4>3, RankFact
    <3>2. CASE UNCHANGED ranked
      BY <2>2, <2>3, <3>2
    <3>3. QED
      BY <1>2, <3>1, <3>2 DEF Bundle!Rerank
  <2>6. QED
    BY <2>1, <2>4, <2>5, OrderStep
<1>3. QED
  BY <1>1, <1>2

\* The stored bundle.
LEMMA SelectStep ==
    ASSUME Bundle!RequestsOK, BundleInv, Bundle!Select
    PROVE  BundleInv'
<1>1. PICK enough :
         bundle' = [items |-> Bundle!Selected(Bundle!Covered(Bundle!Diversified(ranked)),
                                              enough),
                    open |-> TRUE]
  BY DEF Bundle!Select
<1>2. /\ bundlePc = "select" /\ bundlePc' = "stored" /\ found' = {} /\ facet' = Bundle!NoFacets
      /\ ranked' = <<>> /\ sent' = {}
      /\ UNCHANGED <<usable, recent, bundleChanges, granted, req, dropped, caller, live>>
  BY DEF Bundle!Select, Bundle!Goto, Bundle!world
<1>3. PICK U, q, n : U = found /\ q = ranked /\ n = req.facets
  OBVIOUS
<1>4. U \in SUBSET Claim /\ q \in Seq(U) /\ Apart(q) /\ n \in Nat
  BY <1>3 DEF BundleInv, CandidateInv, Bundle!TypeOK, Bundle!Requests
<1>5. PICK d \in Seq(U) : Apart(d) /\ d = Bundle!Covered(Bundle!Diversified(q))
  BY <1>3, <1>4, ReadyFact
<1>6. PICK v : v = Bundle!Selected(d, enough)
  OBVIOUS
<1>7. v \in Seq(U) /\ Apart(v) /\ Len(v) <= BundleTop /\ Bundle!Weight(v) <= MaxTokens
  BY <1>4, <1>5, <1>6, SelectedFact
<1>8. Bundle!Cardinality(Bundle!ToSet(v)) = Len(v) /\ Bundle!ToSet(v) \subseteq U
  BY <1>7, CountFact
<1>9. v \in Seq(Claim)
  BY <1>4, <1>7
<1>10. bundle' = [items |-> v, open |-> TRUE]
  BY <1>1, <1>3, <1>5, <1>6
<1>11. Bundle!TypeOK'
  <2>1. facet' \in [Claim -> SUBSET Nat]
    BY <1>2 DEF Bundle!NoFacets
  <2>2. ranked' \in Seq(Claim) /\ bundle' \in [items : Seq(Claim), open : BOOLEAN]
    BY <1>2, <1>9, <1>10
  <2>3. QED
    BY <1>2, <2>1, <2>2 DEF BundleInv, Bundle!TypeOK
<1>12. ClaimsInv' /\ UseInv'
  BY <1>2 DEF BundleInv, ClaimsInv, UseInv, Present, Occupies, Bundle!Usable
<1>13. CandidateInv'
  BY <1>2, EmptyRank, FS_EmptySet DEF CandidateInv
<1>14. Bundle!BundleSound'
  <2>1. \A c \in Bundle!ToSet(v) : Passed(c)
    BY <1>3, <1>8 DEF BundleInv, CandidateInv
  <2>2. req.llm = (req.method = "LLM")
    BY DEF BundleInv, UseInv
  <2>3. bundle'.items = v
    BY <1>10
  <2>4. Bundle!Permitted(v, req)
    BY <2>1, <2>2 DEF Passed, Bundle!Permitted
  <2>5. req.history \/ Bundle!ToSet(v) \subseteq live
    BY <2>1 DEF Passed
  <2>6. /\ Len(bundle'.items) <= BundleTop /\ Bundle!Weight(bundle'.items) <= MaxTokens
        /\ Bundle!Cardinality(Bundle!ToSet(bundle'.items)) = Len(bundle'.items)
        /\ Bundle!Permitted(bundle'.items, req)
        /\ req.history \/ Bundle!ToSet(bundle'.items) \subseteq live
    BY <1>7, <1>8, <2>3, <2>4, <2>5
  <2>7. QED
    BY <1>2, <2>6 DEF Bundle!BundleSound, Bundle!Permitted, Bundle!Weight
<1>15. Bundle!CallSound'
  BY <1>2 DEF Bundle!CallSound, Bundle!AnsweredIsLive, Bundle!AnsweredOnce
<1>16. QED
  BY <1>11, <1>12, <1>13, <1>14, <1>15 DEF BundleInv

-----------------------------------------------------------------------------
\* A retrieve that is refused, and a call from its beginning to its check.
LEMMA CallSteps ==
    ASSUME Bundle!RequestsOK, BundleInv, Bundle!BeginRefused \/ Bundle!Call
    PROVE  BundleInv'
<1>1. /\ Bundle!TypeOK /\ ClaimsInv /\ UseInv /\ CandidateInv
      /\ Bundle!BundleSound /\ Bundle!CallSound
  BY DEF BundleInv
<1>2. CASE Bundle!BeginRefused
  <2>1. /\ bundlePc = "idle" /\ bundlePc' = "refused"
        /\ UNCHANGED <<usable, recent, bundleChanges, granted, req, found, dropped, facet,
                       ranked, sent, bundle, caller, live>>
    BY <1>2 DEF Bundle!BeginRefused, Bundle!Goto, Bundle!world, Bundle!locals
  <2>2. Bundle!TypeOK' /\ ClaimsInv' /\ UseInv'
    BY <1>1, <2>1 DEF Bundle!TypeOK, ClaimsInv, UseInv, Present, Occupies, Bundle!Usable
  <2>3. CandidateInv'
    BY <1>1, <2>1 DEF CandidateInv, Passed
  <2>4. Bundle!BundleSound' /\ Bundle!CallSound'
    BY <1>1, <2>1 DEF Bundle!BundleSound, Bundle!CallSound, Bundle!AnsweredIsLive,
                      Bundle!AnsweredOnce
  <2>5. QED
    BY <2>2, <2>3, <2>4 DEF BundleInv
<1>3. ASSUME NEW u \in Bundle!Callers, Bundle!CallBegin(u)
      PROVE  BundleInv'
  <2>1. /\ bundlePc \in {"stored", "answered", "refused"} /\ bundlePc' \in {"check", "refused"}
        /\ caller' = u /\ live' = Bundle!Usable
        /\ req' = Bundle!NoRequest /\ dropped' = Bundle!NoDrops
        /\ UNCHANGED <<usable, recent, bundleChanges, granted, found, facet, ranked, sent,
                       bundle>>
    BY <1>3 DEF Bundle!CallBegin, Bundle!Goto, Bundle!world
  <2>2. found = {} /\ ranked = <<>> /\ sent = {}
    BY <1>1, <2>1 DEF CandidateInv
  <2>3. req' \in Bundle!Requests /\ req'.llm = FALSE /\ req'.method = "EXACT"
    BY <2>1 DEF Bundle!NoRequest, Bundle!Requests
  <2>4. dropped' \in [{"duplicate", "conflict", "redundant"} -> SUBSET Claim]
    BY <2>1 DEF Bundle!NoDrops
  <2>5. Bundle!TypeOK'
    BY <1>1, <2>1, <2>3, <2>4 DEF Bundle!TypeOK, Bundle!Usable
  <2>6. ClaimsInv' /\ UseInv'
    BY <1>1, <2>1, <2>3 DEF ClaimsInv, UseInv, Present, Occupies, Bundle!Usable
  <2>7. CandidateInv'
    BY <2>1, <2>2, EmptyRank, FS_EmptySet DEF CandidateInv
  <2>8. Bundle!BundleSound' /\ Bundle!CallSound'
    BY <2>1, <2>2 DEF Bundle!BundleSound, Bundle!CallSound, Bundle!AnsweredIsLive,
                      Bundle!AnsweredOnce
  <2>9. QED
    BY <2>5, <2>6, <2>7, <2>8 DEF BundleInv
<1>4. CASE Bundle!CallCheck
  <2>1. PICK n : bundlePc' = IF Bundle!ToSet(bundle.items)
                                  \subseteq Bundle!Filtered(Bundle!Newest(n, FALSE), caller)
                             THEN "answered" ELSE "refused"
    BY <1>4 DEF Bundle!CallCheck, Bundle!Goto
  <2>2. /\ bundlePc = "check"
        /\ UNCHANGED <<usable, recent, bundleChanges, granted, req, found, dropped, facet,
                       ranked, sent, bundle, caller, live>>
    BY <1>4 DEF Bundle!CallCheck, Bundle!Goto, Bundle!world, Bundle!locals
  <2>3. Bundle!TypeOK' /\ ClaimsInv' /\ UseInv'
    BY <1>1, <2>1, <2>2 DEF Bundle!TypeOK, ClaimsInv, UseInv, Present, Occupies, Bundle!Usable
  <2>4. CandidateInv'
    BY <1>1, <2>1, <2>2 DEF CandidateInv, Passed
  <2>5. Bundle!BundleSound'
    BY <1>1, <2>1, <2>2 DEF Bundle!BundleSound
  <2>6. Bundle!CallSound'
    <3>1. PICK T : T = Bundle!ToSet(bundle.items)
      OBVIOUS
    <3>2. caller.history = FALSE
      BY <1>1 DEF Bundle!TypeOK, Bundle!Callers
    <3>3. ASSUME bundlePc' = "answered"
          PROVE  \A c \in T : c \in Claim /\ Bundle!Allowed(c, caller)
      BY <2>1, <3>1, <3>3 DEF Bundle!Filtered, Bundle!Newest, Bundle!Visible
    <3>4. ASSUME bundlePc' = "answered"
          PROVE  \A c \in T : c \in Bundle!Usable
      BY <3>2, <3>3, <3>4 DEF Bundle!Allowed, Bundle!Usable
    <3>5. Bundle!Usable \subseteq live
      BY <1>1, <2>2 DEF UseInv
    <3>6. bundlePc' = "answered" => T \subseteq live
      BY <3>4, <3>5
    <3>7. bundlePc' = "answered" => Bundle!Permitted(bundle.items, caller)
      BY <3>1, <3>3 DEF Bundle!Allowed, Bundle!Permitted
    <3>8. bundlePc' = "answered" => \A c, d \in T : Identity[c] = Identity[d] => c = d
      BY <1>1, <3>3, <3>4 DEF ClaimsInv, Occupies, Bundle!Usable
    <3>9. QED
      BY <2>2, <3>1, <3>6, <3>7, <3>8
         DEF Bundle!CallSound, Bundle!AnsweredIsLive, Bundle!AnsweredOnce
  <2>7. QED
    BY <2>3, <2>4, <2>5, <2>6 DEF BundleInv
<1>5. QED
  BY <1>2, <1>3, <1>4 DEF Bundle!Call

-----------------------------------------------------------------------------
LEMMA NextBundle ==
    ASSUME Bundle!RequestsOK, BundleInv, [Bundle!Next]_bundleVars
    PROVE  BundleInv'
<1>1. CASE UNCHANGED bundleVars
  <2>1. UNCHANGED <<bundlePc, req, found, ranked, sent, caller, live, bundle, usable, recent,
                    bundleChanges, granted, dropped, facet>>
    BY <1>1 DEF bundleVars
  <2>2. Bundle!TypeOK' /\ ClaimsInv' /\ Bundle!Usable' = Bundle!Usable
    BY <2>1 DEF BundleInv, Bundle!TypeOK, ClaimsInv, Present, Occupies, Bundle!Usable
  <2>3. QED
    BY <2>1, <2>2, WorldFrame DEF BundleInv, UseInv
<1>2. ASSUME NEW r \in BundleRequest, Bundle!Begin(r)
      PROVE  BundleInv'
  BY <1>2, BeginStep
<1>3. CASE \/ Bundle!ListCandidates \/ Bundle!RecallActions \/ Bundle!RecallTerms
           \/ Bundle!Compose \/ Bundle!SearchFacets \/ Bundle!Hydrate
           \/ Bundle!HydrateFails \/ Bundle!RecallNeighbors
  BY <1>3, GatherSteps
<1>4. CASE Bundle!Rank \/ Bundle!Rerank
  BY <1>4, RankSteps
<1>5. CASE Bundle!Select
  BY <1>5, SelectStep
<1>6. CASE Bundle!BeginRefused \/ Bundle!Call
  BY <1>6, CallSteps
<1>7. CASE Bundle!World
  BY <1>7, WorldStep
<1>8. QED
  BY <1>1, <1>2, <1>3, <1>4, <1>5, <1>6, <1>7 DEF Bundle!Next, Bundle!Retrieve

LEMMA BundlePart ==
    ASSUME [ServicesNext]_allVars
    PROVE  part' = part /\ (part = "bundle" => [Bundle!Next]_bundleVars)
BY DEF ServicesNext, allVars, bundleVars

\* The invariant of retrieval and call, for any claims, limits, requests and callers.
THEOREM BundleInvariance == ServicesSpec => [](part = "bundle" => BundleInv)
<1>1. ServicesInit => (part = "bundle" => BundleInv)
  BY InitBundle, ServicesOK DEF ServicesInit
<1>2. (part = "bundle" => BundleInv) /\ [ServicesNext]_allVars
         => (part = "bundle" => BundleInv)'
  BY NextBundle, BundlePart, ServicesOK
<1>3. QED
  BY <1>1, <1>2, PTL DEF ServicesSpec

\* Every stored bundle keeps its limits, names no claim twice, and holds only
\* claims that passed the filter while the retrieve ran; no claim barred from
\* models is sent to one.
THEOREM BundleAlwaysSound == ServicesSpec => []BundleSound
<1>1. (part = "bundle" => BundleInv) => BundleSound
  BY DEF BundleInv, BundleSound
<1>2. QED
  BY <1>1, BundleInvariance, PTL

\* A call answers only with claims that were current after it began, that its
\* caller may see, and of which no two are of one identity.
THEOREM CallAlwaysSound == ServicesSpec => []CallSound
<1>1. (part = "bundle" => BundleInv) => CallSound
  BY DEF BundleInv, CallSound
<1>2. QED
  BY <1>1, BundleInvariance, PTL

-----------------------------------------------------------------------------
(***************************************************************************)
(* Governance beside the other services.                                   *)
(***************************************************************************)

\* What GovernanceProofs shows of Spec holds of governance here.
THEOREM GovernanceAsAlone == ServicesSpec => Spec
<1>1. ServicesInit => Init
  BY DEF ServicesInit
<1>2. [ServicesNext]_allVars => [Next]_vars
  BY DEF ServicesNext, allVars
<1>3. QED
  BY <1>1, <1>2, PTL DEF ServicesSpec, Spec

-----------------------------------------------------------------------------
(***************************************************************************)
(* The types of all the services.                                          *)
(***************************************************************************)

\* Every variable of the component that runs stays in its domain.
THEOREM ServicesTypeCorrect == ServicesSpec => []ServicesTypeOK
<1>1. /\ BundleInv => Bundle!TypeOK
      /\ BillInv => Bill!TypeOK
      /\ AccountInv => Onb!TypeOK
      /\ AskInv => Ask!TypeOK
  BY DEF BundleInv, BillInv, AccountInv, AskInv
<1>2. AddInv /\ AnswerInv => Aml!TypeOK
  BY DEF AddInv, AddType, AnswerInv, SearchType, Aml!TypeOK
<1>3. /\ TypeOK
      /\ part = "bundle" => BundleInv
      /\ part = "aml" => AddInv /\ AnswerInv
      /\ part = "billing" => BillInv
      /\ part = "onboarding" => AccountInv
      /\ part = "ask" => AskInv
      => ServicesTypeOK
  BY <1>1, <1>2 DEF ServicesTypeOK
<1>4. ServicesSpec => []TypeOK
  BY GovernanceAsAlone, TypeCorrect
<1>5. QED
  BY <1>3, <1>4, BundleInvariance, AnswerInvariance, BillInvariance, AccountInvariance,
     AskInvariance, PTL
=============================================================================
