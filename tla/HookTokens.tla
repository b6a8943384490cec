----------------------------- MODULE HookTokens ------------------------------
(***************************************************************************)
(* The callbacks a client can hang on a connection, named by the           *)
(* SQLiteHookToken each registration returns, and what registering and     *)
(* cancelling one does to a set of callbacks.                              *)
(***************************************************************************)
CONSTANTS
    Tokens,       \* the tokens the client may come to own
    Validators,   \* those made by setCommitValidator and setAuthorizerValidator
    KindOf,       \* the hook each token is about
    NoToken       \* what a thread works on when it works on no token

Kinds == {"update", "commit", "rollback", "authorizer"}
ValidatorKinds == {"commit", "authorizer"}

ASSUME TokensAssumption ==
    /\ KindOf \in [Tokens -> Kinds]
    /\ Validators \subseteq Tokens
    /\ \A v \in Validators : KindOf[v] \in ValidatorKinds
    /\ NoToken \notin Tokens

Listening(k, callbacks) == {x \in callbacks : KindOf[x] = k}

(* Mutant of Removed: an observer is looked for under an id of its own. *)
RemovedElsewhere(x) == IF x \in Validators THEN {v \in Validators : KindOf[v] = KindOf[x]}
                                            ELSE {}

(* What the bucket action of a cancel block removes: an observer by its id,  *)
(* a validator by setting the one validator of its kind to nil, whichever    *)
(* token set it.                                                             *)
Removed(x) == IF x \in Validators THEN {v \in Validators : KindOf[v] = KindOf[x]}
                                  ELSE {x}

(* Mutant of Replaced: setting a validator starts its kind afresh. *)
ReplacedKind(x) == IF x \in Validators THEN Listening(KindOf[x], Tokens) ELSE {}

(* A new validator overwrites the one of its kind; an observer nothing. *)
Replaced(x) == IF x \in Validators THEN Removed(x) ELSE {}
=============================================================================
