SPECIFICATION LiveSpec
CONSTANTS
    Caller = {c1, c2, c3}
    Threshold = 2
    OpenTicks = 3
    CallTicks = 2
INVARIANTS TypeOK CircuitSound
PROPERTY OpenEnds
