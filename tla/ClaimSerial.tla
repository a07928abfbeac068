---------------------------- MODULE ClaimSerial ----------------------------
(***************************************************************************)
(* Served one at a time and without a crash, the requests of MemoryClaim   *)
(* are the atomic operations of ClaimLedger, although each writes the      *)
(* collection in several steps.                                            *)
(***************************************************************************)
EXTENDS MemoryClaim

InFlight(p) == {r \in Request : p[r] \notin Finished \cup {"idle"}}

\* No worker is killed and Mongo answers.
NoCrash == \A r \in Request : pc'[r] # "crashed"

\* A request starts only when no other one is in flight.
OneAtATime == \A r, s \in InFlight(pc') : r = s

SerialNext == Next /\ NoCrash /\ OneAtATime
SerialSpec == Init /\ [][SerialNext]_vars

-----------------------------------------------------------------------------
\* c was demoted by a replacement that is not stored yet: callers still own it.
BeingReplaced(c) ==
    \E r \in Ingest :
        /\ pc[r] \in {"allocate", "insert"} /\ decision[r] \in Replaces
        /\ prev[r] = c

\* An accepted claim replaces the old one when the reviewer lets go of that one.
BeingActivated(c) == \E w \in Review : pc[w] = "activate" /\ target[w] = c

SeenLife(c) ==
    IF BeingActivated(c) THEN "active"
    ELSE IF claims[c].life = "active" /\ ~claims[c].current /\ ~BeingReplaced(c)
         THEN "superseded"
    ELSE claims[c].life

Seen(c) == [life |-> SeenLife(c), value |-> claims[c].value,
            status |-> claims[c].status, conf |-> claims[c].conf,
            eff |-> claims[c].eff, prov |-> claims[c].prov]

seen == [c \in Ingest |-> Seen(c)]

Ledger == INSTANCE ClaimLedger WITH Claim <- Ingest, ledger <- seen

\* Serial requests implement the ledger's atomic ones: a replacement is seen
\* when its claim is stored, an acceptance when the old claim is let go, and no
\* step in between is visible.
ImplementsLedger == Ledger!Spec
=============================================================================
