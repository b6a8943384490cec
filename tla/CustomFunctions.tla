--------------------------- MODULE CustomFunctions ---------------------------
(***************************************************************************)
(* Custom functions and aggregates on one connection: the FuncDef entries  *)
(* of one SQL name, by number of arguments; the definitions they hold,     *)
(* retained by install() and released by libsqlite3; the statements that   *)
(* were compiled against them; and the AggregateContext objects that live  *)
(* in a running statement's registers.                                     *)
(*                                                                         *)
(* A statement calls the name with one argument.  A definition stands for  *)
(* the object one call of install() makes; it may be made anew once        *)
(* released.  sqlite3_step keeps the connection mutex from its first to    *)
(* its last callback, every other operation takes it for one step.         *)
(***************************************************************************)
EXTENDS Naturals

CONSTANTS
    Definitions,  \* objects that install() hands to libsqlite3
    KindOf,       \* what each is: "function" or "aggregate"
    ArityOf,      \* the arguments it is installed for: "one" or "any" (-1)
    Stmts,        \* prepared statements
    Calls,        \* the calls of the name, each with a register, in a statement
    Absent,       \* no FuncDef
    Deleted       \* a FuncDef without an implementation

Arities == {"one", "any"}

ASSUME DefinitionsAssumption ==
    /\ KindOf \in [Definitions -> {"function", "aggregate"}]
    /\ ArityOf \in [Definitions -> Arities]
    /\ Absent # Deleted /\ {Absent, Deleted} \cap Definitions = {}

VARIABLES
    db,        \* "open", "closed", or "lost": sqlite3_close answered BUSY
    entry,     \* db->aFunc: the FuncDef of the name for each arity
    retains,   \* the retains that nobody has released, of each definition
    at,        \* where each statement is
    func,      \* the arity of the FuncDef its program refers to
    compiled,  \* the definition that FuncDef held when it was compiled
    expired,   \* Vdbe.expired
    register,  \* MEM_Agg of each call's register, and hasErrored of its context
    contexts   \* the retained AggregateContexts made for each call

connection == <<db, entry, retains>>
program == <<func, compiled, expired>>
aggregates == <<register, contexts>>
vars == <<connection, at, program, aggregates>>

(* "ready": VDBE_READY.  "exec": in sqlite3_step; "abort": so, with an error *)
(* that is about to halt it.  "row": between two steps.  "halted": over, and *)
(* "refused": expired and not compiled again; both are to be finalized.      *)
(* "leaked" and "leakedRow": its owner threw without finalizing it, before   *)
(* the first step or at a row, so nobody will.                               *)
Places == {"none", "ready", "exec", "abort", "row", "halted", "refused",
           "leaked", "leakedRow"}

TypeOK ==
    /\ db \in {"open", "closed", "lost"}
    /\ entry \in [Arities -> Definitions \cup {Absent, Deleted}]
    /\ retains \in [Definitions -> Nat]
    /\ at \in [Stmts -> Places]
    /\ func \in [Stmts -> Arities \cup {Absent}]
    /\ compiled \in [Stmts -> Definitions \cup {Absent}]
    /\ expired \in [Stmts -> BOOLEAN]
    /\ register \in [Stmts -> [Calls -> {"null", "agg", "errored"}]]
    /\ contexts \in [Stmts -> [Calls -> Nat]]

Init ==
    /\ db = "open"
    /\ entry = [a \in Arities |-> Absent]
    /\ retains = [d \in Definitions |-> 0]
    /\ at = [s \in Stmts |-> "none"]
    /\ func = [s \in Stmts |-> Absent]
    /\ compiled = [s \in Stmts |-> Absent]
    /\ expired = [s \in Stmts |-> FALSE]
    /\ register = [s \in Stmts |-> [c \in Calls |-> "null"]]
    /\ contexts = [s \in Stmts |-> [c \in Calls |-> 0]]

(* VDBE_RUN, counted by db->nVdbeActive, and holding the connection mutex. *)
Active(s) == at[s] \in {"exec", "abort", "row", "leakedRow"}
InStep(s) == at[s] \in {"exec", "abort"}
MutexFree == \A s \in Stmts : ~InStep(s)

Moves(s, from, to) == at[s] = from /\ at' = [at EXCEPT ![s] = to]

-----------------------------------------------------------------------------
(* The FuncDefs: matchQuality, sqlite3FindFunction, sqlite3CreateFunc.       *)

(* The FuncDef that a call with one argument finds: the exact one is better, *)
(* even when it has been deleted.                                            *)
Closest == IF entry["one"] # Absent THEN "one" ELSE "any"
Found == entry[Closest] \in Definitions

(* functionDestroy: nothing to release in a new or deleted FuncDef. *)
Released(held, d) == [held EXCEPT ![d] = @ - 1]
Destroyed(held, a) == IF entry[a] \in Definitions THEN Released(held, entry[a]) ELSE held

(* Mutants of CreateFunction: a running statement does not keep the function *)
(* from being replaced; a definition that is refused is not released.        *)
CreateFunctionAnytime(a, new, held) ==
    /\ entry' = [entry EXCEPT ![a] = new]
    /\ retains' = Destroyed(held, a)
    /\ expired' = [s \in Stmts |-> expired[s] \/ (entry[a] \in Definitions /\ at[s] # "none")]
CreateFunctionKeeps(a, new, held) ==
    /\ IF entry[a] \in Definitions /\ \E s \in Stmts : Active(s)
       THEN retains' = held /\ UNCHANGED entry
       ELSE entry' = [entry EXCEPT ![a] = new] /\ retains' = Destroyed(held, a)
    /\ UNCHANGED expired

(* sqlite3_create_function_v2 with the definition new, or Deleted for none.  *)
(* SQLITE_BUSY releases what it was given; a replaced definition is released *)
(* and every program compiled so far expires.                                *)
Replaces(a) == entry[a] \in Definitions
Busy(a) == Replaces(a) /\ \E s \in Stmts : Active(s)

CreateFunction(a, new, held) ==
    \/ /\ Busy(a)
       /\ retains' = IF new \in Definitions THEN Released(held, new) ELSE held
       /\ UNCHANGED <<entry, expired>>
    \/ /\ ~Replaces(a) /\ new = Deleted
       /\ retains' = held
       /\ UNCHANGED <<entry, expired>>
    \/ /\ ~Busy(a) /\ (Replaces(a) \/ new # Deleted)
       /\ entry' = [entry EXCEPT ![a] = new]
       /\ retains' = Destroyed(held, a)
       /\ expired' = [s \in Stmts |-> expired[s] \/ (Replaces(a) /\ at[s] # "none")]

Install(d) ==
    /\ db = "open" /\ MutexFree /\ retains[d] = 0
    /\ CreateFunction(ArityOf[d], d, [retains EXCEPT ![d] = 1])
    /\ UNCHANGED <<db, at, func, compiled, aggregates>>

Uninstall(a) ==
    /\ db = "open" /\ MutexFree
    /\ CreateFunction(a, Deleted, retains)
    /\ UNCHANGED <<db, at, func, compiled, aggregates>>

(* close(): BUSY beside any statement, and its answer is dropped. *)
Close ==
    /\ db = "open" /\ MutexFree
    /\ IF \A s \in Stmts : at[s] = "none"
       THEN /\ db' = "closed"
            /\ entry' = [a \in Arities |-> Absent]
            /\ retains' = [d \in Definitions |->
                              IF entry[ArityOf[d]] = d THEN retains[d] - 1 ELSE retains[d]]
       ELSE db' = "lost" /\ UNCHANGED <<entry, retains>>
    /\ UNCHANGED <<at, program, aggregates>>

-----------------------------------------------------------------------------
(* Statements. *)

Compile(s) ==
    /\ Found
    /\ func' = [func EXCEPT ![s] = Closest]
    /\ compiled' = [compiled EXCEPT ![s] = entry[Closest]]
    /\ expired' = [expired EXCEPT ![s] = FALSE]

(* Without a function there is an error, and no statement. *)
Prepare(s) ==
    /\ db = "open" /\ MutexFree
    /\ Moves(s, "none", "ready")
    /\ Compile(s)
    /\ UNCHANGED <<connection, aggregates>>

(* The first step, and sqlite3Reprepare when the program has expired. *)
Step(s) ==
    /\ MutexFree
    /\ \/ ~expired[s] /\ Moves(s, "ready", "exec") /\ UNCHANGED program
       \/ expired[s] /\ Moves(s, "ready", "exec") /\ Compile(s)
       \/ expired[s] /\ ~Found /\ Moves(s, "ready", "refused") /\ UNCHANGED program
    /\ UNCHANGED <<connection, aggregates>>

NextStep(s) ==
    /\ MutexFree
    /\ Moves(s, "row", "exec")
    /\ UNCHANGED <<connection, program, aggregates>>

ResultRow(s) ==
    /\ Moves(s, "exec", "row")
    /\ UNCHANGED <<connection, program, aggregates>>

(* Mutant of Halt: the registers are taken for empty. *)
HaltForgets(s) ==
    /\ Moves(s, "exec", "halted") \/ Moves(s, "abort", "halted")
    /\ register' = [register EXCEPT ![s] = [c \in Calls |-> "null"]]
    /\ UNCHANGED <<connection, program, contexts>>

(* sqlite3VdbeHalt, at the end or after an error: closeAllCursors releases   *)
(* the registers, and xFinal is called for every context left in one.        *)
Halt(s) ==
    /\ Moves(s, "exec", "halted") \/ Moves(s, "abort", "halted")
    /\ contexts' = [contexts EXCEPT ![s] = [c \in Calls |->
                      IF register[s][c] = "null" THEN @[c] ELSE @[c] - 1]]
    /\ register' = [register EXCEPT ![s] = [c \in Calls |-> "null"]]
    /\ UNCHANGED <<connection, program>>

(* check(): after the last step, or when bind fails before the first. *)
Finalize(s) ==
    /\ MutexFree
    /\ Moves(s, "ready", "none") \/ Moves(s, "halted", "none") \/ Moves(s, "refused", "none")
    /\ func' = [func EXCEPT ![s] = Absent]
    /\ compiled' = [compiled EXCEPT ![s] = Absent]
    /\ expired' = [expired EXCEPT ![s] = FALSE]
    /\ UNCHANGED <<connection, aggregates>>

(* A column name or value that cannot be decoded. *)
Leak(s) ==
    /\ Moves(s, "ready", "leaked") \/ Moves(s, "row", "leakedRow")
    /\ UNCHANGED <<connection, program, aggregates>>

-----------------------------------------------------------------------------
(* Callbacks, within sqlite3_step.  A scalar function keeps no state. *)

Calling(s, kind) == at[s] = "exec" /\ KindOf[compiled[s]] = kind

FunctionFails(s) ==
    /\ Calling(s, "function")
    /\ Moves(s, "exec", "abort")
    /\ UNCHANGED <<connection, program, aggregates>>

(* Mutant of Context: the buffer is never empty. *)
ContextFound(s, c) == contexts[s][c]

(* unmanagedAggregateContext: an empty register gets a new retained context. *)
Context(s, c) == IF register[s][c] = "null" THEN contexts[s][c] + 1 ELSE contexts[s][c]

AggStep(s, c) ==
    /\ Calling(s, "aggregate")
    /\ contexts' = [contexts EXCEPT ![s][c] = Context(s, c)]
    /\ \/ register' = [register EXCEPT ![s][c] = "agg"] /\ UNCHANGED at
       \/ register' = [register EXCEPT ![s][c] = "errored"] /\ Moves(s, "exec", "abort")
    /\ UNCHANGED <<connection, program>>

(* The result, or its error, replaces the context in the register.  Without *)
(* a step before, as over no rows, the context is made here.                 *)
AggFinal(s, c) ==
    /\ Calling(s, "aggregate")
    /\ contexts' = [contexts EXCEPT ![s][c] = Context(s, c) - 1]
    /\ register' = [register EXCEPT ![s][c] = "null"]
    /\ UNCHANGED at \/ Moves(s, "exec", "abort")
    /\ UNCHANGED <<connection, program>>

Next ==
    \/ \E d \in Definitions : Install(d)
    \/ \E a \in Arities : Uninstall(a)
    \/ Close
    \/ \E s \in Stmts :
          \/ Prepare(s) \/ Step(s) \/ NextStep(s) \/ ResultRow(s) \/ Halt(s)
          \/ Finalize(s) \/ Leak(s) \/ FunctionFails(s)
          \/ \E c \in Calls : AggStep(s, c) \/ AggFinal(s, c)

Spec == Init /\ [][Next]_vars

-----------------------------------------------------------------------------
(* A running statement calls the definition it was compiled for, which is    *)
(* still retained, whatever is installed, replaced, uninstalled or closed    *)
(* between its rows: takeUnretainedValue() in xFunc and xStep is sound, and  *)
(* an aggregate's program never meets a scalar function.                     *)
RunsWhatItCompiled ==
    \A s \in Stmts : Active(s) =>
        entry[func[s]] = compiled[s] /\ compiled[s] \in Definitions /\ retains[compiled[s]] = 1

(* A definition is retained once while it is installed and not at all else:  *)
(* released exactly once when replaced, uninstalled, refused or closed with  *)
(* the connection, and only then (passRetained and the release of install).  *)
HeldWhileInstalled ==
    /\ \A d \in Definitions : retains[d] = IF entry[ArityOf[d]] = d THEN 1 ELSE 0
    /\ db = "closed" => \A d \in Definitions : retains[d] = 0

(* An AggregateContext is retained once while it is in a register of a       *)
(* running statement, and released with it, by AggFinal or by the halt of a  *)
(* statement that failed; one that has failed is never stepped again, which  *)
(* xStep asserts.                                                            *)
ContextsAreReleased ==
    \A s \in Stmts, c \in Calls :
        /\ contexts[s][c] = IF register[s][c] = "null" THEN 0 ELSE 1
        /\ register[s][c] # "null" => Active(s) /\ KindOf[compiled[s]] = "aggregate"
        /\ register[s][c] = "errored" => at[s] = "abort"
=============================================================================
