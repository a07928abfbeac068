------------------------ MODULE SummaryBreakerProofs ------------------------
(***************************************************************************)
(* Safety of SummaryBreaker for any number of callers and any thresholds   *)
(* that satisfy TimesOK.                                                   *)
(***************************************************************************)
EXTENDS SummaryBreaker, TLAPS

(***************************************************************************)
(* What the properties leave out is why a call admitted before the circuit *)
(* opened cannot meet a probe: while it is open every call in flight has   *)
(* less time left than the cooldown, so it is over when half-open begins.  *)
(***************************************************************************)
ClosedPhase ==
    state = "closed" => ~inFlight /\ \A c \in Calling : ~probe[c]

OpenPhase ==
    state = "open" => ~inFlight /\ \A c \in Calling : ~probe[c] /\ left[c] < openLeft

HalfOpenPhase ==
    state = "half_open" =>
        /\ inFlight <=> Calling # {}
        /\ \A c, d \in Calling : c = d /\ probe[c]

IInv == TypeOK /\ ClosedPhase /\ OpenPhase /\ HalfOpenPhase /\ OpenIsPinged

\* When the cooldown is over no call is in flight.
LEMMA CooledQuiet ==
    ASSUME IInv, Cooled
    PROVE  Calling = {}
<1>1. \A c \in Calling : left[c] < 0 /\ left[c] \in 0 .. CallTicks
  BY DEF IInv, TypeOK, OpenPhase, Cooled, Calling
<1>2. QED
  BY <1>1, TimesOK

LEMMA ZeroInRange ==
    0 \in 0 .. Threshold - 1 /\ 0 \in 0 .. OpenTicks /\ 0 \in 0 .. CallTicks
BY TimesOK

LEMMA InitInv == Init => IInv
BY TimesOK, ZeroInRange DEF Init, IInv, TypeOK, ClosedPhase, OpenPhase, HalfOpenPhase, OpenIsPinged, Calling

\* A caller's own bookkeeping.
LEMMA EnterEffect ==
    ASSUME TypeOK, NEW c \in Caller, NEW b \in BOOLEAN, Enter(c, b)
    PROVE  /\ pc' \in [Caller -> {"idle", "calling", "fallback"}]
           /\ probe' \in [Caller -> BOOLEAN] /\ left' \in [Caller -> 0 .. CallTicks]
           /\ Calling' = Calling \cup {c}
           /\ probe'[c] = b
           /\ \A d \in Caller \ {c} : probe'[d] = probe[d] /\ left'[d] = left[d]
BY TimesOK DEF TypeOK, Enter, Calling

LEMMA LeaveEffect ==
    ASSUME TypeOK, NEW c \in Caller, NEW l \in {"idle", "fallback"}, Leave(c, l)
    PROVE  /\ pc' \in [Caller -> {"idle", "calling", "fallback"}]
           /\ probe' = probe /\ left' = left
           /\ Calling' = Calling \ {c}
BY DEF TypeOK, Leave, Calling

LEMMA CallStep ==
    ASSUME IInv, NEW c \in Caller, Call(c)
    PROVE  IInv'
<1> USE DEF circuit, pinger
<1>0. TypeOK
  BY DEF IInv
<1>1. CASE CallPrimary(c)
  <2>1. state = "closed"
    BY <1>1 DEF CallPrimary, Arrival
  <2>2. TypeOK'
    BY <1>0, <1>1, EnterEffect DEF CallPrimary, TypeOK
  <2>0. Calling' = Calling \cup {c} /\ ~probe'[c] /\ \A d \in Caller \ {c} : probe'[d] = probe[d]
    BY <1>0, <1>1, EnterEffect DEF CallPrimary
  <2>3. ClosedPhase' /\ OpenPhase' /\ HalfOpenPhase' /\ OpenIsPinged'
    BY <1>1, <2>1, <2>0
       DEF CallPrimary, IInv, ClosedPhase, OpenPhase, HalfOpenPhase, OpenIsPinged, Calling
  <2>4. QED
    BY <2>2, <2>3 DEF IInv
<1>2. CASE CallProbe(c)
  <2>1. Calling = {}
    <3>1. CASE Cooled
      BY <3>1, CooledQuiet
    <3>2. CASE ~Cooled
      BY <1>2, <3>2 DEF CallProbe, Arrival, Busy, IInv, HalfOpenPhase
    <3>3. QED
      BY <3>1, <3>2
  <2>2. TypeOK'
    BY <1>0, <1>2, EnterEffect DEF CallProbe, TypeOK
  <2>3. Calling' = {c} /\ probe'[c]
    BY <1>0, <1>2, <2>1, EnterEffect DEF CallProbe
  <2>4. ClosedPhase' /\ OpenPhase' /\ HalfOpenPhase' /\ OpenIsPinged'
    BY <1>2, <2>3 DEF CallProbe, ClosedPhase, OpenPhase, HalfOpenPhase, OpenIsPinged
  <2>5. QED
    BY <2>2, <2>4 DEF IInv
<1>3. CASE CallFallback(c) \/ EndFallback(c)
  <2>1. PICK l \in {"idle", "fallback"} : Leave(c, l)
    BY <1>3 DEF CallFallback, EndFallback
  <2>2. c \notin Calling /\ UNCHANGED <<circuit, pinger>>
    BY <1>3 DEF CallFallback, EndFallback, Calling
  <2>3. Calling' = Calling /\ probe' = probe /\ left' = left
    BY <1>0, <2>1, <2>2, LeaveEffect
  <2>4. TypeOK'
    BY <1>0, <2>1, <2>2, LeaveEffect DEF TypeOK
  <2>5. QED
    BY <2>2, <2>3, <2>4
       DEF IInv, ClosedPhase, OpenPhase, HalfOpenPhase, OpenIsPinged
<1>4. QED
  BY <1>1, <1>2, <1>3 DEF Call

\* Opening the circuit, whoever does it, when only c could be probing it.
LEMMA TripStep ==
    ASSUME IInv, NEW c \in Calling, Trip, Leave(c, "fallback")
    PROVE  IInv'
<1>0. TypeOK /\ c \in Caller
  BY DEF IInv, Calling
<1>1. Calling' = Calling \ {c} /\ probe' = probe /\ left' = left
  BY <1>0, LeaveEffect
<1>2. TypeOK'
  <2>1. /\ pc' \in [Caller -> {"idle", "calling", "fallback"}]
        /\ probe' \in [Caller -> BOOLEAN] /\ left' \in [Caller -> 0 .. CallTicks]
    BY <1>0, LeaveEffect DEF TypeOK
  <2>2. OpenTicks \in 0 .. OpenTicks
    BY TimesOK
  <2>3. QED
    BY <2>1, <2>2, ZeroInRange DEF Trip, TypeOK
<1>3. \A d \in Calling \ {c} : ~probe[d]
  BY <1>0 DEF IInv, TypeOK, ClosedPhase, OpenPhase, HalfOpenPhase
<1>4. \A d \in Calling : left[d] < OpenTicks
  BY <1>0, TimesOK DEF TypeOK, Calling
<1>5. QED
  BY <1>1, <1>2, <1>3, <1>4
     DEF IInv, ClosedPhase, OpenPhase, HalfOpenPhase, OpenIsPinged, Trip

LEMMA SettleStep ==
    ASSUME IInv, NEW c \in Caller, Settle(c)
    PROVE  IInv'
<1> USE DEF circuit, pinger
<1>0. TypeOK /\ c \in Calling
  BY DEF IInv, Settle, Succeed, Fail, Cancel, Calling
<1>1. CASE Succeed(c)
  <2>1. Calling' = Calling \ {c} /\ probe' = probe /\ left' = left
    BY <1>0, <1>1, LeaveEffect DEF Succeed
  <2>2. TypeOK'
    BY <1>0, <1>1, LeaveEffect, ZeroInRange DEF Succeed, Close, TypeOK
  <2>3. CASE probe[c] /\ Close
    <3>1. Calling' = {}
      BY <1>0, <2>1, <2>3 DEF IInv, TypeOK, ClosedPhase, OpenPhase, HalfOpenPhase
    <3>2. QED
      BY <2>2, <2>3, <3>1
         DEF IInv, ClosedPhase, OpenPhase, HalfOpenPhase, OpenIsPinged, Close
  <2>4. CASE ~probe[c] /\ UNCHANGED <<state, openLeft, inFlight>>
    BY <1>0, <1>1, <2>1, <2>2, <2>4
       DEF IInv, ClosedPhase, OpenPhase, HalfOpenPhase, OpenIsPinged, Succeed
  <2>5. QED
    BY <1>1, <2>3, <2>4 DEF Succeed
<1>2. CASE Fail(c)
  <2>1. CASE Trip
    BY <1>0, <1>2, <2>1, TripStep DEF Fail
  <2>2. CASE /\ ~probe[c] /\ fails + 1 < Threshold /\ fails' = fails + 1
             /\ UNCHANGED <<state, openLeft, inFlight, pinger>>
    <3>1. Calling' = Calling \ {c} /\ probe' = probe /\ left' = left
      BY <1>0, <1>2, LeaveEffect DEF Fail
    <3>2. TypeOK'
      BY <1>0, <1>2, <2>2, LeaveEffect, TimesOK DEF Fail, TypeOK
    <3>3. QED
      BY <1>0, <2>2, <3>1, <3>2
         DEF IInv, ClosedPhase, OpenPhase, HalfOpenPhase, OpenIsPinged
  <2>3. QED
    BY <1>2, <2>1, <2>2 DEF Fail
<1>3. CASE Cancel(c)
  <2>1. Calling' = Calling \ {c} /\ probe' = probe /\ left' = left
    BY <1>0, <1>3, LeaveEffect DEF Cancel
  <2>2. TypeOK'
    BY <1>0, <1>3, LeaveEffect DEF Cancel, TypeOK
  <2>3. ClosedPhase' /\ OpenPhase' /\ OpenIsPinged'
    BY <1>3, <2>1 DEF IInv, ClosedPhase, OpenPhase, OpenIsPinged, Cancel
  <2>4. HalfOpenPhase'
    BY <1>0, <1>3, <2>1 DEF IInv, HalfOpenPhase, Cancel
  <2>5. QED
    BY <2>2, <2>3, <2>4 DEF IInv
<1>4. QED
  BY <1>1, <1>2, <1>3 DEF Settle

LEMMA PingStepInv ==
    ASSUME IInv, Ping
    PROVE  IInv'
<1> USE DEF circuit, callers
<1>0. /\ TypeOK /\ UNCHANGED callers /\ Calling' = Calling
      /\ \A c \in Calling : c \in Caller
  BY DEF IInv, Ping, PingStep, PingOk, PingFail, Calling
<1>1. CASE PingStep
  <2>1. CASE state # "open" /\ PingEnd /\ UNCHANGED circuit
    BY <1>0, <2>1, ZeroInRange
       DEF IInv, TypeOK, PingEnd, ClosedPhase, OpenPhase, HalfOpenPhase, OpenIsPinged
  <2>2. CASE Cooled /\ HalfOpen /\ PingEnd
    <3>1. Calling = {}
      BY <2>2, CooledQuiet
    <3>2. QED
      BY <1>0, <2>2, <3>1, ZeroInRange
         DEF IInv, TypeOK, Cooled, HalfOpen, PingEnd, ClosedPhase, OpenPhase, HalfOpenPhase, OpenIsPinged
  <2>3. CASE state = "open" /\ openLeft > 0 /\ PingOn /\ UNCHANGED circuit
    BY <1>0, <2>3, TimesOK
       DEF IInv, TypeOK, PingOn, ClosedPhase, OpenPhase, HalfOpenPhase, OpenIsPinged
  <2>4. QED
    BY <1>1, <2>1, <2>2, <2>3 DEF PingStep
<1>2. CASE PingOk
  <2>1. CASE state = "open" /\ Close
    BY <1>0, <2>1, <1>2, ZeroInRange
       DEF IInv, TypeOK, PingOk, Close, PingEnd, ClosedPhase, OpenPhase, HalfOpenPhase, OpenIsPinged
  <2>2. CASE state # "open" /\ UNCHANGED circuit
    BY <1>0, <1>2, <2>2, ZeroInRange
       DEF IInv, TypeOK, PingOk, PingEnd, ClosedPhase, OpenPhase, HalfOpenPhase, OpenIsPinged
  <2>3. QED
    BY <1>2, <2>1, <2>2 DEF PingOk
<1>3. CASE PingFail
  BY <1>0, <1>3, ZeroInRange
     DEF IInv, TypeOK, PingFail, ClosedPhase, OpenPhase, HalfOpenPhase, OpenIsPinged
<1>4. QED
  BY <1>1, <1>2, <1>3 DEF Ping

LEMMA TickStep ==
    ASSUME IInv, Tick
    PROVE  IInv'
<1>0. /\ TypeOK /\ Calling' = Calling
      /\ UNCHANGED <<state, fails, inFlight, ping, pc, probe>>
  BY DEF IInv, Tick, Calling
<1>1. \A c \in Calling : left'[c] = left[c] - 1 /\ left[c] \in 1 .. CallTicks
  BY <1>0 DEF Tick, TypeOK, Calling
<1>2. TypeOK'
  <2>1. left' \in [Caller -> 0 .. CallTicks]
    BY <1>0, TimesOK DEF Tick, TypeOK, Calling
  <2>2. openLeft' \in 0 .. OpenTicks /\ pingLeft' \in 0 .. CallTicks
    BY <1>0, TimesOK DEF Tick, TypeOK, Less
  <2>3. QED
    BY <1>0, <2>1, <2>2 DEF TypeOK
<1>3. OpenPhase'
  <2>1. ASSUME state = "open", NEW c \in Calling
        PROVE  left'[c] < openLeft'
    <3>1. left[c] < openLeft /\ openLeft \in Nat
      BY <1>0, <2>1, TimesOK DEF IInv, OpenPhase, TypeOK
    <3>2. openLeft' = openLeft - 1
      BY <1>1, <3>1, TimesOK DEF Tick, Less
    <3>3. QED
      BY <1>1, <3>1, <3>2, TimesOK
  <2>2. QED
    BY <1>0, <2>1 DEF IInv, OpenPhase
<1>4. ClosedPhase' /\ HalfOpenPhase' /\ OpenIsPinged'
  BY <1>0 DEF IInv, ClosedPhase, HalfOpenPhase, OpenIsPinged
<1>5. QED
  BY <1>2, <1>3, <1>4 DEF IInv

\* The inductive invariant of the breaker, for any callers, threshold and times.
THEOREM Invariance == Spec => []IInv
<1>1. ASSUME IInv, [Next]_vars
      PROVE  IInv'
  <2>1. CASE UNCHANGED vars
    <3>1. Calling' = Calling
      BY <2>1 DEF vars, callers, Calling
    <3>2. QED
      BY <1>1, <2>1, <3>1
         DEF vars, circuit, pinger, callers, IInv, TypeOK, ClosedPhase, OpenPhase,
             HalfOpenPhase, OpenIsPinged
  <2>2. QED
    BY <1>1, <2>1, CallStep, SettleStep, PingStepInv, TickStep DEF Next
<1>2. QED
  BY <1>1, InitInv, PTL DEF Spec

\* The globals and timers of the breaker stay in their domains.
THEOREM TypeCorrect == Spec => []TypeOK
<1>1. IInv => TypeOK
  BY DEF IInv
<1>2. QED
  BY <1>1, Invariance, PTL

\* Half-open admits one real request, for any number of concurrent callers.
THEOREM HalfOpenOneRequest == Spec => []OneRealRequest
<1>1. IInv => OneRealRequest
  BY DEF IInv, HalfOpenPhase, OneRealRequest
<1>2. QED
  BY <1>1, Invariance, PTL

\* The half-open slot is neither leaked nor freed under a running probe.
THEOREM SlotNeverLeaks == Spec => []SlotIsProbe
<1>1. IInv => SlotIsProbe
  BY DEF IInv, TypeOK, ClosedPhase, OpenPhase, HalfOpenPhase, SlotIsProbe
<1>2. QED
  BY <1>1, Invariance, PTL

\* A probe settles the circuit it was admitted to.
THEOREM ProbeDecides == Spec => []ProbeHoldsCircuit
<1>1. IInv => ProbeHoldsCircuit
  BY DEF IInv, TypeOK, ClosedPhase, OpenPhase, ProbeHoldsCircuit
<1>2. QED
  BY <1>1, Invariance, PTL

\* An open circuit always has its ping loop.
THEOREM AlwaysPinged == Spec => []OpenIsPinged
<1>1. IInv => OpenIsPinged
  BY DEF IInv
<1>2. QED
  BY <1>1, Invariance, PTL

\* The four together: the circuit lets at most one request through while it probes,
\* and whoever holds the slot is the one who settles it.
THEOREM CircuitAlwaysSound == Spec => []CircuitSound
<1>1. OneRealRequest /\ SlotIsProbe /\ ProbeHoldsCircuit /\ OpenIsPinged => CircuitSound
  BY DEF CircuitSound
<1>2. QED
  BY <1>1, HalfOpenOneRequest, SlotNeverLeaks, ProbeDecides, AlwaysPinged, PTL
=============================================================================
