---------------------------- MODULE MCRegistries ----------------------------
(***************************************************************************)
(* Small instances of the components of Registries.                        *)
(*                                                                         *)
(* The model values a, b and c stand for the interchangeable members of    *)
(* whatever component runs, which keeps the symmetry group small.          *)
(***************************************************************************)
EXTENDS Registries, TLC

CONSTANTS
    a1, a2, a3, b1, b2, c1, c2

\* Rules: every operation on a parse rule, and on the others what differs from it.
Want(do, kind, scope, slot) ==
    [do |-> do, kind |-> kind, scope |-> scope, slot |-> slot]

MCRuleOp ==
    {Want(do, "parse", "field", "none") : do \in {"create", "update", "delete"}}
        \cup {Want("create", "merge", "field", "none"),
              Want("create", "retrieve", "field", "none"),
              Want("create", "retrieve", "implicit", "none"),
              Want("update", "retrieve", "any", "none"),
              Want("create", "call", "field", "s1"),
              Want("create", "call", "field", "s2"),
              Want("update", "call", "field", "s1")}

\* SDK: two threads of two processes that create, read and list two fields.
Calling(kind, mode, rule) ==
    [op : {kind}, name : {c1, c2}, mode : {mode}, rule : {rule}]

MCCalls ==
    Calling("getOrCreate", "EXACT", TRUE) \cup Calling("get", "LLM", FALSE)
        \cup Calling("list", "EXACT", FALSE)

-----------------------------------------------------------------------------
Symmetry ==
    Permutations({a1, a2, a3}) \cup Permutations({b1, b2}) \cup Permutations({c1, c2})

\* The rules alone.
RuleSpec == RegistriesInit /\ part = "rules" /\ [][RegistriesNext]_allVars
=============================================================================
