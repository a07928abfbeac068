----------------------------- MODULE MCServices -----------------------------
(***************************************************************************)
(* Small instances of the components of Services.                          *)
(*                                                                         *)
(* The model values a, b and c stand for the interchangeable members of    *)
(* whatever component runs, which keeps the symmetry group small.          *)
(***************************************************************************)
EXTENDS Services, TLC

CONSTANTS
    a1, a2, b1, b2, c1, c2, m1, m2, m3, a3, i1, p1, p2, e1, e2, e3, r1, r2, r3, x1, s1,
    s2

\* Bundles: m1 and m2 are two claims of one identity, m3 is another one.
Plain == [method |-> "SEMANTIC", llm |-> FALSE, history |-> FALSE, compose |-> FALSE,
          aggregate |-> FALSE, facets |-> 1, sensitive |-> FALSE]

MCBundleRequest ==
    {[Plain EXCEPT !.compose = TRUE],
     [Plain EXCEPT !.facets = 2, !.sensitive = TRUE],
     [Plain EXCEPT !.method = "EXACT", !.aggregate = TRUE],
     [Plain EXCEPT !.method = "LLM", !.llm = TRUE, !.history = TRUE]}

MCInitial   == <<m3, m1>>
MCIdentity  == [c \in Claim |-> IF c = m3 THEN "i" ELSE "j"]
MCRelation  == [c \in Claim |-> IF c = m3 THEN "conflict" ELSE "increment"]
MCSignature == [c \in Claim |-> c]
MCGroup     == [c \in Claim |-> "m"]
MCTokens    == [c \in Claim |-> IF c = m1 THEN 1 ELSE 2]

\* AML: an add, a repetition of it, and a reuse of its id for another payload.
MCIdOf      == [a \in Add |-> i1]
MCPayloadOf == [a \in Add |-> IF a = a3 THEN p2 ELSE p1]
MCSize      == [p \in Payload |-> IF p = p1 THEN 2 ELSE 1]

\* Billing: three calls, of which two exceed the quota between them.
MCAmount    == [e \in Emit |-> [tokens |-> IF e = e1 THEN 2 ELSE 1, cost |-> 1]]
MCLimit     == [tokens |-> 2, cost |-> 1]

\* Accounts: s1 applies twice, once with another address, which s2 has too.
MCAccountOf == [r \in Application |-> IF r = r3 THEN s2 ELSE s1]
MCEmailOf   == [r \in Application |-> IF r = r2 THEN e2 ELSE e1]
MCSlug      == [s \in Account |-> s]

-----------------------------------------------------------------------------
Symmetry == Permutations({a1, a2}) \cup Permutations({b1, b2}) \cup Permutations({c1, c2})

\* Retrieval alone.
BundleSpec == ServicesInit /\ part = "bundle" /\ [][ServicesNext]_allVars
=============================================================================
