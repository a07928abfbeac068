--------------------------- MODULE SummaryBreaker ---------------------------
(***************************************************************************)
(* The circuit breaker that services/memory_data.py keeps, in module       *)
(* globals, around the primary LLM of the user summary: closed, open for a *)
(* cooldown with a ping loop, half-open for one probing request.           *)
(*                                                                         *)
(* No lock body awaits, so each is one atomic step; callers and the ping   *)
(* loop interleave only around their LLM calls and sleeps.  Time advances  *)
(* in units of the ping interval.  The generation counter needs no         *)
(* variable: only ping loops compare it, and the step that raises it also  *)
(* cancels the previous loop, which never runs again.                      *)
(***************************************************************************)
EXTENDS Naturals

CONSTANTS
    Caller,     \* concurrent summary requests
    Threshold,  \* _SUMMARY_CB_FAIL_THRESHOLD
    OpenTicks,  \* _SUMMARY_CB_OPEN_SECONDS, in ping intervals
    CallTicks   \* the longest an LLM call takes, its retries included

VARIABLES
    state,      \* _SUMMARY_CB_STATE
    fails,      \* _SUMMARY_PRIMARY_FAILS
    openLeft,   \* _SUMMARY_PRIMARY_OPEN_UNTIL - now, never below 0
    inFlight,   \* _SUMMARY_HALF_OPEN_IN_FLIGHT
    ping,       \* where the ping loop of _SUMMARY_PROBE_TASK is
    pingLeft,   \* what is left of its sleep or its call
    pc,         \* where each caller is
    probe,      \* is_half_open_probe of each caller
    left        \* what is left of a caller's call

circuit == <<state, fails, openLeft, inFlight>>
pinger  == <<ping, pingLeft>>
callers == <<pc, probe, left>>
vars    == <<circuit, pinger, callers>>

\* With the default 60 s timeout and two retries a call ends well within the
\* 300 s cooldown.
ASSUME TimesOK ==
    /\ Threshold \in Nat \ {0} /\ OpenTicks \in Nat /\ CallTicks \in Nat
    /\ 0 < CallTicks /\ CallTicks < OpenTicks

Calling == {c \in Caller : pc[c] = "calling"}

-----------------------------------------------------------------------------
Close ==
    /\ state' = "closed" /\ fails' = 0 /\ openLeft' = 0 /\ inFlight' = FALSE

Trip ==
    /\ state' = "open" /\ fails' = 0 /\ openLeft' = OpenTicks /\ inFlight' = FALSE
    /\ ping' = "check" /\ pingLeft' = 0

HalfOpen ==
    /\ state' = "half_open" /\ inFlight' = FALSE
    /\ UNCHANGED <<fails, openLeft>>

-----------------------------------------------------------------------------
(* _try_primary_summary_completion *)

\* The state an arriving caller acts on: the first to arrive after the cooldown
\* moves an open circuit to half-open.
Cooled  == state = "open" /\ openLeft = 0
Arrival == IF Cooled THEN "half_open" ELSE state
Busy    == ~Cooled /\ inFlight

Enter(c, asProbe) ==
    /\ pc' = [pc EXCEPT ![c] = "calling"]
    /\ probe' = [probe EXCEPT ![c] = asProbe]
    /\ left' = [left EXCEPT ![c] = CallTicks]

CallPrimary(c) ==
    /\ pc[c] = "idle" /\ Arrival = "closed"
    /\ Enter(c, FALSE)
    /\ UNCHANGED <<circuit, pinger>>

CallProbe(c) ==
    /\ pc[c] = "idle" /\ Arrival = "half_open" /\ ~Busy
    /\ Enter(c, TRUE)
    /\ state' = "half_open" /\ inFlight' = TRUE
    /\ UNCHANGED <<fails, openLeft, pinger>>

Leave(c, l) == pc' = [pc EXCEPT ![c] = l] /\ UNCHANGED <<probe, left>>

\* Skip to the fallback model.
CallFallback(c) ==
    /\ pc[c] = "idle"
    /\ \/ Arrival = "open"
       \/ Arrival = "half_open" /\ Busy
    /\ Leave(c, "fallback")
    /\ UNCHANGED <<circuit, pinger>>

\* The fallback model has no breaker: its outcome changes nothing here.
EndFallback(c) ==
    /\ pc[c] = "fallback"
    /\ Leave(c, "idle")
    /\ UNCHANGED <<circuit, pinger>>

Succeed(c) ==
    /\ pc[c] = "calling"
    /\ \/ probe[c] /\ Close
       \/ ~probe[c] /\ fails' = 0 /\ UNCHANGED <<state, openLeft, inFlight>>
    /\ Leave(c, "idle")
    /\ UNCHANGED pinger

\* Mutant of Fail: one failure too many is tolerated.
FailTolerant(c) ==
    /\ pc[c] = "calling"
    /\ \/ (probe[c] \/ fails + 1 > Threshold) /\ Trip
       \/ /\ ~probe[c] /\ fails + 1 <= Threshold
          /\ fails' = fails + 1
          /\ UNCHANGED <<state, openLeft, inFlight, pinger>>
    /\ Leave(c, "fallback")

\* A failed call falls back; the finally clause finds the slot already free.
Fail(c) ==
    /\ pc[c] = "calling"
    /\ \/ (probe[c] \/ fails + 1 >= Threshold) /\ Trip
       \/ /\ ~probe[c] /\ fails + 1 < Threshold
          /\ fails' = fails + 1
          /\ UNCHANGED <<state, openLeft, inFlight, pinger>>
    /\ Leave(c, "fallback")

\* Mutant of Cancel: CancelledError passes by "except Exception" and keeps the slot.
CancelKeepsSlot(c) ==
    /\ pc[c] = "calling"
    /\ Leave(c, "idle")
    /\ UNCHANGED <<circuit, pinger>>

\* The client went away: only the finally clause runs, and frees the slot.
Cancel(c) ==
    /\ pc[c] = "calling"
    /\ inFlight' = (inFlight /\ ~probe[c])
    /\ Leave(c, "idle")
    /\ UNCHANGED <<state, fails, openLeft, pinger>>

-----------------------------------------------------------------------------
(* _summary_primary_ping_loop *)

Woken   == ping = "check" \/ (ping = "sleep" /\ pingLeft = 0)
PingEnd == ping' = "none" /\ pingLeft' = 0

\* Sleep, or after the sleep call the primary.
PingOn ==
    \/ ping = "check" /\ ping' = "sleep" /\ pingLeft' = 1
    \/ ping = "sleep" /\ ping' = "ping" /\ pingLeft' = CallTicks

\* Mutant of PingStep: the loop sleeps without looking at the cooldown.
PingStepSleeps ==
    /\ Woken
    /\ \/ state # "open" /\ PingEnd
       \/ state = "open" /\ PingOn
    /\ UNCHANGED circuit
    /\ UNCHANGED callers

\* The two locked checks, before and after the sleep.  The sleep is at most one
\* interval, and the cooldown ends on a whole one.
PingStep ==
    /\ Woken
    /\ \/ state # "open" /\ PingEnd /\ UNCHANGED circuit
       \/ Cooled /\ HalfOpen /\ PingEnd
       \/ state = "open" /\ openLeft > 0 /\ PingOn /\ UNCHANGED circuit
    /\ UNCHANGED callers

PingOk ==
    /\ ping = "ping"
    /\ \/ state = "open" /\ Close
       \/ state # "open" /\ UNCHANGED circuit
    /\ PingEnd
    /\ UNCHANGED callers

PingFail ==
    /\ ping = "ping"
    /\ ping' = "check" /\ pingLeft' = 0
    /\ UNCHANGED <<circuit, callers>>

-----------------------------------------------------------------------------
Less(n) == IF n = 0 THEN 0 ELSE n - 1

\* An LLM call does not outlast its timeout.
Tick ==
    /\ \A c \in Calling : left[c] > 0
    /\ ping = "ping" => pingLeft > 0
    /\ openLeft' = Less(openLeft)
    /\ pingLeft' = Less(pingLeft)
    /\ left' = [c \in Caller |-> IF c \in Calling THEN left[c] - 1 ELSE left[c]]
    /\ UNCHANGED <<state, fails, inFlight, ping, pc, probe>>

Init ==
    /\ state = "closed" /\ fails = 0 /\ openLeft = 0 /\ inFlight = FALSE
    /\ ping = "none" /\ pingLeft = 0
    /\ pc = [c \in Caller |-> "idle"]
    /\ probe = [c \in Caller |-> FALSE]
    /\ left = [c \in Caller |-> 0]

Settle(c) == Succeed(c) \/ Fail(c) \/ Cancel(c)
Call(c)   == CallPrimary(c) \/ CallProbe(c) \/ CallFallback(c) \/ EndFallback(c)
Ping      == PingStep \/ PingOk \/ PingFail

Next == (\E c \in Caller : Call(c) \/ Settle(c)) \/ Ping \/ Tick

Spec == Init /\ [][Next]_vars

\* Calls end by their timeout, the event loop runs the ping loop, time passes.
Fairness == WF_vars(Ping) /\ WF_vars(Tick) /\ \A c \in Caller : WF_vars(Settle(c))

LiveSpec == Spec /\ Fairness

-----------------------------------------------------------------------------
(* Properties *)

\* The globals and timers stay in their domains.
TypeOK ==
    /\ state \in {"closed", "open", "half_open"}
    /\ fails \in 0 .. Threshold - 1
    /\ openLeft \in 0 .. OpenTicks
    /\ inFlight \in BOOLEAN
    /\ ping \in {"none", "check", "sleep", "ping"}
    /\ pingLeft \in 0 .. CallTicks
    /\ pc \in [Caller -> {"idle", "calling", "fallback"}]
    /\ probe \in [Caller -> BOOLEAN]
    /\ left \in [Caller -> 0 .. CallTicks]

\* "Half-Open (1 real request)": while the circuit is half-open at most one
\* summary request is at the primary, calls admitted before it opened included.
OneRealRequest ==
    state = "half_open" => \A c, d \in Calling : c = d

\* The half-open slot is taken exactly while a probe is at the primary: it is
\* never lost to a cancelled probe, nor freed under a running one.
SlotIsProbe ==
    inFlight <=> \E c \in Calling : probe[c]

\* An open circuit has a live ping loop, whoever opened it and however often.
OpenIsPinged == state = "open" => ping # "none"

\* A probe decides the circuit it probes: when it settles, nobody else has
\* closed or reopened the circuit meanwhile.
ProbeHoldsCircuit ==
    \A c \in Calling : probe[c] => state = "half_open"

\* The circuit and what keeps it: one real request at a time in half-open, a slot that
\* is neither lost nor shared, a probe that settles its own circuit, a loop that pings.
CircuitSound == OneRealRequest /\ SlotIsProbe /\ ProbeHoldsCircuit /\ OpenIsPinged

\* The circuit does not stay open: a ping closes it or the cooldown ends, even
\* if nobody asks for a summary any more.
OpenEnds == state = "open" ~> state # "open"
=============================================================================
