------------------------------- MODULE Billing -------------------------------
(***************************************************************************)
(* Metering of LLM calls: services/billing_service.py,                     *)
(* services/billing_quota.py and the Kafka consumer of billing events, for *)
(* one tenant and month.                                                   *)
(*                                                                         *)
(* An emit follows an LLM call: it commits the event, then checks and      *)
(* raises the quota of tokens and that of cost, each read in one statement *)
(* and written in another without a lock, then publishes the event.        *)
(***************************************************************************)
EXTENDS Naturals, FiniteSets

CONSTANTS
    Emit,           \* calls that are metered
    Metered,        \* those with event_type llm_completion
    Issuer,         \* requests for the month's invoice
    Amount,         \* of each emit, by quota type
    Limit,          \* quota_limit, by quota type
    Enforce         \* billing_enforce_quota

Types == {"tokens", "cost"}

BillingConstantsOK ==
    /\ Metered \subseteq Emit
    /\ Amount \in [Emit -> [Types -> Nat]] /\ Limit \in [Types -> Nat]

VARIABLES
    event,      \* the row of each event: none, pending or processed
    quota,      \* used and status, by type
    step,       \* where each emit is
    read,       \* quota_used as it read it, 0 when it needs none
    topic,      \* published events, which may be delivered again
    consuming,  \* the event the consumer has read as pending
    issue,      \* where each invoice request is
    seen,       \* events in its snapshot
    invoice,    \* events the invoice sums up, none before it is issued
    consumed,   \* history: what emits were allowed of each quota
    raced       \* history: two emits overlapped between read and write

vars == <<event, quota, step, read, topic, consuming, issue, seen, invoice, consumed, raced>>

Rows == {e \in Emit : event[e] # "none"}

Goto(e, s) == step' = [step EXCEPT ![e] = s]

-----------------------------------------------------------------------------
(* emit_llm_completion *)

\* The event is committed first, so a call over the quota is billed too.
Store(e) ==
    /\ step[e] = "idle"
    /\ event' = [event EXCEPT ![e] = "pending"]
    /\ Goto(e, IF e \in Metered /\ Enforce THEN "tokens" ELSE "publish")
    /\ UNCHANGED <<quota, read, topic, consuming, issue, seen, invoice, consumed, raced>>

Writing == [tokens |-> "write tokens", cost |-> "write cost"]

After(k) == IF k = "tokens" THEN "cost" ELSE "publish"

\* check_and_consume_quota selects an active quota only.
ReadQuota(e, k) ==
    /\ step[e] = k
    /\ IF quota[k].status = "active"
       THEN /\ read' = [read EXCEPT ![e] = quota[k].used]
            /\ Goto(e, Writing[k])
            /\ raced' = (raced \/ \E d \in Emit \ {e} : step[d] = Writing[k])
       ELSE /\ Goto(e, After(k))
            /\ UNCHANGED <<read, raced>>
    /\ UNCHANGED <<event, quota, topic, consuming, issue, seen, invoice, consumed>>

\* Mutant of Exceeds: what was used is compared without the new amount.
ExceedsAlready(e, k) == read[e] > Limit[k]

Exceeds(e, k) == read[e] + Amount[e][k] > Limit[k]

\* The ORM writes the column it changed.
WriteQuota(e, k) ==
    /\ step[e] = Writing[k]
    /\ IF Exceeds(e, k)
       THEN /\ quota' = [quota EXCEPT ![k].status = "exceeded"]
            /\ Goto(e, "refused")
            /\ UNCHANGED consumed
       ELSE /\ quota' = [quota EXCEPT ![k].used = read[e] + Amount[e][k]]
            /\ Goto(e, After(k))
            /\ consumed' = [consumed EXCEPT ![k] = @ + Amount[e][k]]
    /\ read' = [read EXCEPT ![e] = 0]
    /\ UNCHANGED <<event, topic, consuming, issue, seen, invoice, raced>>

\* publish swallows what goes wrong.
Publish(e) ==
    /\ step[e] = "publish"
    /\ \/ topic' = topic \cup {e}
       \/ UNCHANGED topic
    /\ Goto(e, "done")
    /\ UNCHANGED <<event, quota, read, consuming, issue, seen, invoice, consumed, raced>>

-----------------------------------------------------------------------------
(* process_billing_event *)

Receive(e) ==
    /\ consuming = {} /\ e \in topic
    /\ consuming' = IF event[e] = "pending" THEN {e} ELSE {}
    /\ UNCHANGED <<event, quota, step, read, topic, issue, seen, invoice, consumed, raced>>

Process(e) ==
    /\ e \in consuming
    /\ event' = [event EXCEPT ![e] = "processed"]
    /\ consuming' = {}
    /\ UNCHANGED <<quota, step, read, topic, issue, seen, invoice, consumed, raced>>

-----------------------------------------------------------------------------
(* generate_monthly_invoice *)

\* The check for an invoice and the sum read one snapshot.
Sum(i) ==
    /\ issue[i] = "idle"
    /\ issue' = [issue EXCEPT ![i] = IF invoice = {} THEN "insert" ELSE "refused"]
    /\ seen' = [seen EXCEPT ![i] = IF invoice = {} THEN Rows ELSE {}]
    /\ UNCHANGED <<event, quota, step, read, topic, consuming, invoice, consumed, raced>>

\* uk_billing_invoice_period.
Insert(i) ==
    /\ issue[i] = "insert"
    /\ IF invoice = {}
       THEN /\ invoice' = {seen[i]}
            /\ issue' = [issue EXCEPT ![i] = "issued"]
       ELSE /\ issue' = [issue EXCEPT ![i] = "refused"]
            /\ UNCHANGED invoice
    /\ UNCHANGED <<event, quota, step, read, topic, consuming, seen, consumed, raced>>

Init ==
    /\ event = [e \in Emit |-> "none"]
    /\ quota = [k \in Types |-> [used |-> 0, status |-> "active"]]
    /\ step = [e \in Emit |-> "idle"] /\ read = [e \in Emit |-> 0]
    /\ topic = {} /\ consuming = {}
    /\ issue = [i \in Issuer |-> "idle"] /\ seen = [i \in Issuer |-> {}]
    /\ invoice = {}
    /\ consumed = [k \in Types |-> 0] /\ raced = FALSE

Next ==
    \/ \E e \in Emit :
        \/ Store(e) \/ Publish(e) \/ Receive(e) \/ Process(e)
        \/ \E k \in Types : ReadQuota(e, k) \/ WriteQuota(e, k)
    \/ \E i \in Issuer : Sum(i) \/ Insert(i)

Spec == Init /\ [][Next]_vars

-----------------------------------------------------------------------------
(* Properties *)

\* Every variable stays in its domain.
TypeOK ==
    /\ event \in [Emit -> {"none", "pending", "processed"}]
    /\ quota \in [Types -> [used : Nat, status : {"active", "exceeded"}]]
    /\ step \in [Emit -> {"idle", "tokens", "write tokens", "cost", "write cost", "publish",
                          "done", "refused"}]
    /\ read \in [Emit -> Nat]
    /\ topic \subseteq Emit /\ consuming \subseteq Emit
    /\ issue \in [Issuer -> {"idle", "insert", "issued", "refused"}]
    /\ seen \in [Issuer -> SUBSET Emit] /\ invoice \subseteq SUBSET Emit
    /\ consumed \in [Types -> Nat] /\ raced \in BOOLEAN

\* A quota never shows more than its limit nor more than was really consumed, and
\* exactly that unless two emits overlapped; a refused call has its event anyway.
UsageAccounted ==
    /\ \A k \in Types :
        /\ quota[k].used <= Limit[k]
        /\ quota[k].used <= consumed[k]
        /\ ~raced => quota[k].used = consumed[k]
    /\ \A e \in Emit : step[e] # "idle" => event[e] # "none"

\* However many requests generate it, the month has one invoice: that of the one
\* request that was told so, over events that are all on record.
InvoiceOnce ==
    /\ Cardinality({i \in Issuer : issue[i] = "issued"}) = Cardinality(invoice)
    /\ \A S \in invoice : S \subseteq Rows

\* Quotas show what was consumed, and the month is invoiced once, over what is on record.
MeteringSound == UsageAccounted /\ InvoiceOnce
=============================================================================
