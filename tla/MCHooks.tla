------------------------------- MODULE MCHooks -------------------------------
(* Instances of SQLiteHooks for TLC. *)
EXTENDS SQLiteHooksInv, TLC

CONSTANTS p1, p2, a1, a2, u1, u2, c1, v1, v2, z1, z2, z3

(* u1, u2: update observers; c1: a commit observer; v1, v2: commit           *)
(* validators; z1: an authorizer observer; z2, z3: authorizer validators.    *)
MCKind == [x \in {u1, u2} |-> "update"] @@ [x \in {c1, v1, v2} |-> "commit"]
          @@ [x \in {z1, z2, z3} |-> "authorizer"]
MCKindOf == [x \in Tokens |-> MCKind[x]]
MCValidators == Tokens \cap {v1, v2, z2, z3}
=============================================================================
