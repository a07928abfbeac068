---------------------------- MODULE ClaimLedger ----------------------------
(***************************************************************************)
(* What the V2 claim API promises a caller who sends one request at a      *)
(* time: each ingest, revoke or resolve takes effect at once, and the      *)
(* identity has at most one active claim.  There is no current flag, no    *)
(* revision counter, no in-between state and no vector index here.         *)
(***************************************************************************)
EXTENDS ClaimFacts

CONSTANT Claim

VARIABLE ledger     \* ledger[c]: the life and the content of each claim id

Absent == [life |-> "absent", value |-> {}, status |-> "stated", conf |-> 0,
           eff |-> 0, prov |-> {}]

Entry(i) == [life |-> "active", value |-> i.value, status |-> i.status,
             conf |-> i.conf, eff |-> i.eff,
             prov |-> {[event |-> i.event, at |-> i.at]}]

Active == {c \in Claim : ledger[c].life = "active"}

\* The first claim of the identity, or the first after all were withdrawn.
Add(c, i) ==
    /\ Active = {}
    /\ ledger' = [ledger EXCEPT ![c] = Entry(i)]

\* The same value again is further evidence for the active claim.
Confirm(i, a) ==
    /\ ledger[a].value = i.value
    /\ ledger' = [ledger EXCEPT
                    ![a].prov = @ \cup Entry(i).prov,
                    ![a].conf = IF i.conf > @ THEN i.conf ELSE @]

Completes(i, a) ==
    /\ ledger[a].value # i.value
    /\ AllowFill /\ NonConflicting(ledger[a].value, i.value)

Update(c, i, a) ==
    /\ Completes(i, a)
    /\ ledger' = [ledger EXCEPT
                    ![c] = [Entry(i) EXCEPT !.value = Filled(ledger[a].value, @)],
                    ![a].life = "superseded"]

Contradicts(i, a) == ledger[a].value # i.value /\ ~Completes(i, a)

Supersede(c, i, a) ==
    /\ Contradicts(i, a) /\ Outranks(Entry(i), ledger[a])
    /\ ledger' = [ledger EXCEPT ![c] = Entry(i), ![a].life = "superseded"]

Conflict(c, i, a) ==
    /\ Contradicts(i, a) /\ ~Outranks(Entry(i), ledger[a])
    /\ ledger' = [ledger EXCEPT ![c] = [Entry(i) EXCEPT !.life = "conflicted"]]

Receive(c, i) ==
    /\ Admissible(i)
    /\ ledger[c].life = "absent"
    /\ \/ Add(c, i)
       \/ \E a \in Active : Confirm(i, a) \/ Update(c, i, a)
                            \/ Supersede(c, i, a) \/ Conflict(c, i, a)

Withdraw(c) ==
    /\ ledger[c].life # "absent"
    /\ ledger' = [ledger EXCEPT ![c].life = "revoked"]

\* Accepting a conflicting claim makes it the only active one.
Accept(c) ==
    /\ ledger[c].life = "conflicted"
    /\ ledger' = [d \in Claim |->
                    IF d = c THEN [ledger[d] EXCEPT !.life = "active"]
                    ELSE IF d \in Active THEN [ledger[d] EXCEPT !.life = "superseded"]
                    ELSE ledger[d]]

Init == ledger = [c \in Claim |-> Absent]

Next == \E c \in Claim : (\E i \in Input : Receive(c, i)) \/ Withdraw(c) \/ Accept(c)

Spec == Init /\ [][Next]_ledger

-----------------------------------------------------------------------------
\* The entries stay well formed.
TypeOK ==
    ledger \in [Claim -> [life : {"absent", "active", "superseded", "conflicted", "revoked"},
                          value : SUBSET Datum, status : DOMAIN FactAuthority,
                          conf : Nat, eff : Nat, prov : SUBSET Evidence]]

\* At every moment a caller sees at most one value for the identity.
OneActive == \A c, d \in Active : c = d
=============================================================================
