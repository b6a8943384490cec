-------------------------- MODULE MCCustomFunctions --------------------------
(* Instance of CustomFunctions: one scalar function and one aggregate for    *)
(* one argument, and an aggregate for any number, so that a function can be  *)
(* replaced by an aggregate and an exact match added, replaced and removed.  *)
EXTENDS CustomFunctions, TLC

CONSTANTS f1, g1, gAny, s1, s2, c1, c2

MCKindOf == f1 :> "function" @@ g1 :> "aggregate" @@ gAny :> "aggregate"
MCArityOf == f1 :> "one" @@ g1 :> "one" @@ gAny :> "any"

(* Statements and the calls in a statement are interchangeable. *)
MCSymmetry == Permutations(Stmts) \cup Permutations(Calls)
=============================================================================
