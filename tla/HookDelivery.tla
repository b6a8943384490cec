---------------------------- MODULE HookDelivery -----------------------------
(***************************************************************************)
(* What the hooks of a connection deliver, without threads and locks: a    *)
(* registration and a cancellation take effect at one instant; events are  *)
(* delivered one at a time; an event goes to exactly the callbacks of its  *)
(* kind that were heard at one instant, each once, the validator first,    *)
(* and to no observer when the validator denies.  This is what the code    *)
(* does, and in two points less than its documentation and tests say: a    *)
(* callback cancelled during the delivery of an event is still called for  *)
(* it, and to cancel a replaced validator removes the one in its place     *)
(* (NoLateCall and ReplacedCancelIsNoOp of SQLiteHooks).                   *)
(***************************************************************************)
EXTENDS HookTokens

VARIABLES
    heard,     \* the callbacks that the next event of their kind is for
    pending,   \* the callbacks that the current event has still to reach
    asking     \* is the current event before its validator?

vars == <<heard, pending, asking>>

TypeOK ==
    /\ heard \subseteq Tokens
    /\ pending \subseteq Tokens
    /\ asking \in BOOLEAN

Init ==
    /\ heard = {}
    /\ pending = {}
    /\ asking = FALSE

Register(x) ==
    /\ heard' = (heard \ Replaced(x)) \cup {x}
    /\ UNCHANGED <<pending, asking>>

Cancel(x) ==
    /\ heard' = heard \ Removed(x)
    /\ UNCHANGED <<pending, asking>>

(* The kinds in K stop being heard, as the connection is being closed. *)
Silence(K) ==
    /\ heard' = {x \in heard : KindOf[x] \notin K}
    /\ UNCHANGED <<pending, asking>>

Deliver(k) ==
    /\ pending = {} /\ ~asking
    /\ pending' = Listening(k, heard)
    /\ UNCHANGED <<heard, asking>>

Call(x) ==
    /\ x \in pending /\ ~asking
    /\ x \notin Validators => pending \cap Validators = {}
    /\ pending' = pending \ {x}
    /\ asking' = (x \in Validators)
    /\ UNCHANGED heard

Answer(denied) ==
    /\ asking
    /\ asking' = FALSE
    /\ pending' = IF denied THEN {} ELSE pending
    /\ UNCHANGED heard

Next ==
    \/ \E x \in Tokens : Register(x) \/ Cancel(x) \/ Call(x)
    \/ \E K \in SUBSET Kinds : Silence(K)
    \/ \E k \in Kinds : Deliver(k)
    \/ \E denied \in BOOLEAN : Answer(denied)

Spec == Init /\ [][Next]_vars
=============================================================================
