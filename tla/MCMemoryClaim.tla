--------------------------- MODULE MCMemoryClaim ---------------------------
(***************************************************************************)
(* Small instances of MemoryClaim.                                         *)
(***************************************************************************)
EXTENDS ClaimSerial, TLC

I(v, s, c, e, n, at) ==
    [valid |-> TRUE, value |-> v, status |-> s, conf |-> c, eff |-> e,
     event |-> n, at |-> at]

Plain1 == {<<Plain, 1>>}
Plain2 == {<<Plain, 2>>}

\* Facts of three authorities, one repeated value, one rejected confidence,
\* and an object that another object fills.
MixedInput ==
    {I(Plain1, "stated", 1, 0, "e1", 1), I(Plain2, "stated", 1, 0, "e2", 2),
     I(Plain2, "decision", 1, 0, "e2", 0), I(Plain1, "proposal", 0, 0, "e3", 0),
     I({<<"a", 1>>}, "stated", 1, 2, "e4", 0),
     I({<<"b", 1>>}, "stated", 2, 1, "e4", 0)}

\* A value, a contradiction of the same authority, and a decision that
\* contradicts the first and completes the second.
ReviewInput ==
    {I({<<"a", 1>>}, "stated", 1, 0, "e1", 0), I({<<"a", 2>>}, "stated", 1, 0, "e2", 0),
     I({<<"a", 2>>, <<"b", 1>>}, "decision", 1, 0, "e2", 0)}

\* One object, its completion by an older event, and a change in between.
FillInput ==
    {I({<<"a", 1>>}, "stated", 1, 3, "e1", 0), I({<<"b", 1>>}, "stated", 1, 1, "e2", 0),
     I({<<"a", 2>>}, "stated", 1, 2, "e3", 0)}

Default == {"decision", "correction"}

Symmetry == Permutations(Ingest) \cup Permutations(Review) \cup Permutations(Revoke)

NoCrashSpec == Init /\ [][Next /\ NoCrash]_vars
=============================================================================
