------------------------ MODULE CustomFunctions_proofs ------------------------
(***************************************************************************)
(* The proofs about CustomFunctions, for any definitions, statements and   *)
(* calls.  A program that runs, or may run without being compiled again,   *)
(* refers to a FuncDef that still holds what it was compiled for; with one *)
(* FuncDef per definition this counts the retains.                         *)
(***************************************************************************)
EXTENDS CustomFunctions, TLAPS

Sound(s) == Active(s) \/ (at[s] = "ready" /\ ~expired[s])

ProgramInv ==
    \A s \in Stmts : Sound(s) =>
        func[s] \in Arities /\ compiled[s] \in Definitions /\ entry[func[s]] = compiled[s]

EntryInv ==
    /\ \A a \in Arities : entry[a] \in Definitions => ArityOf[entry[a]] = a
    /\ db = "closed" => \A a \in Arities : entry[a] = Absent

RetainInv == \A d \in Definitions : retains[d] = IF entry[ArityOf[d]] = d THEN 1 ELSE 0

Inv == TypeOK /\ EntryInv /\ RetainInv /\ ProgramInv /\ ContextsAreReleased

-----------------------------------------------------------------------------
(* The invariant implies the properties. *)
LEMMA InvImplies == Inv => RunsWhatItCompiled /\ HeldWhileInstalled
<1> SUFFICES ASSUME Inv PROVE RunsWhatItCompiled /\ HeldWhileInstalled
  OBVIOUS
<1> USE DefinitionsAssumption DEF Inv
<1>1. RunsWhatItCompiled
  <2> SUFFICES ASSUME NEW s \in Stmts, Active(s)
      PROVE  entry[func[s]] = compiled[s] /\ compiled[s] \in Definitions
             /\ retains[compiled[s]] = 1
    BY DEF RunsWhatItCompiled
  <2>1. func[s] \in Arities /\ compiled[s] \in Definitions /\ entry[func[s]] = compiled[s]
    BY DEF ProgramInv, Sound
  <2>2. ArityOf[compiled[s]] = func[s]
    BY <2>1 DEF EntryInv
  <2> QED BY <2>1, <2>2 DEF RetainInv
<1>2. HeldWhileInstalled
  <2>1. ASSUME db = "closed", NEW d \in Definitions PROVE retains[d] = 0
    <3>1. entry[ArityOf[d]] = Absent
      BY <2>1 DEF EntryInv
    <3> QED BY <3>1 DEF RetainInv
  <2> QED BY <2>1 DEF HeldWhileInstalled, RetainInv
<1> QED BY <1>1, <1>2

LEMMA InitInv == Init => Inv
<1> SUFFICES ASSUME Init PROVE Inv
  OBVIOUS
<1> USE DefinitionsAssumption DEF Init
<1>1. TypeOK
  BY DEF TypeOK, Places, Arities
<1>2. EntryInv /\ RetainInv
  BY DEF EntryInv, RetainInv
<1>3. ProgramInv
  BY DEF ProgramInv, Sound, Active
<1>4. ContextsAreReleased
  BY DEF ContextsAreReleased
<1> QED BY <1>1, <1>2, <1>3, <1>4 DEF Inv

-----------------------------------------------------------------------------
(* sqlite3_create_function_v2.  What it replaces nobody runs, and nobody     *)
(* will without compiling it again.                                          *)
LEMMA CreateKeepsPrograms ==
    ASSUME Inv, NEW a \in Arities, NEW new \in Definitions \cup {Deleted}, NEW held,
           CreateFunction(a, new, held), at' = at, func' = func, compiled' = compiled
    PROVE  ProgramInv'
<1> SUFFICES ASSUME NEW s \in Stmts, Sound(s)'
    PROVE  func[s] \in Arities /\ compiled[s] \in Definitions /\ entry'[func[s]] = compiled[s]
  BY DEF ProgramInv
<1>1. Inv /\ entry \in [Arities -> Definitions \cup {Absent, Deleted}]
    /\ expired \in [Stmts -> BOOLEAN]
  BY DEF Inv, TypeOK
<1>2. expired' = expired \/ expired' = [r \in Stmts |-> expired[r] \/ (Replaces(a) /\ at[r] # "none")]
  BY DEF CreateFunction
<1>3. Sound(s)
  BY <1>1, <1>2 DEF Sound, Active
<1>4. func[s] \in Arities /\ compiled[s] \in Definitions /\ entry[func[s]] = compiled[s]
  BY <1>1, <1>3 DEF Inv, ProgramInv
<1>5. CASE entry' = entry
  BY <1>4, <1>5
<1>6. CASE ~Replaces(a) /\ entry' = [entry EXCEPT ![a] = new]
  BY <1>1, <1>4, <1>6 DEF Replaces
<1>7. CASE /\ Replaces(a) /\ ~(\E r \in Stmts : Active(r))
           /\ expired' = [r \in Stmts |-> expired[r] \/ (Replaces(a) /\ at[r] # "none")]
  BY <1>7 DEF Sound, Active
<1> QED BY <1>5, <1>6, <1>7 DEF CreateFunction, Busy

LEMMA InstallInv == ASSUME Inv, NEW d \in Definitions, Install(d) PROVE Inv'
<1> USE DefinitionsAssumption
<1> DEFINE a == ArityOf[d]
           held == [retains EXCEPT ![d] = 1]
<1>1. a \in Arities /\ retains[d] = 0 /\ db = "open" /\ db' = db
    /\ CreateFunction(a, d, held) /\ TypeOK /\ EntryInv /\ RetainInv
  BY DEF Install, Inv
<1>2. entry[a] # d /\ entry \in [Arities -> Definitions \cup {Absent, Deleted}]
    /\ retains \in [Definitions -> Nat] /\ expired \in [Stmts -> BOOLEAN]
  BY <1>1 DEF RetainInv, TypeOK
<1> HIDE DEF a, held
<1>3. CASE entry' = entry /\ expired' = expired /\ retains' = Released(held, d)
  <2>1. retains' = retains
    BY <1>1, <1>2, <1>3 DEF Released, held
  <2> QED BY <2>1, <1>1, <1>3 DEF Install, Inv, TypeOK, EntryInv, RetainInv, ProgramInv, Sound,
             Active, ContextsAreReleased, aggregates, connection
<1>4. CASE /\ entry' = [entry EXCEPT ![a] = d] /\ retains' = Destroyed(held, a)
           /\ expired' \in [Stmts -> BOOLEAN]
  <2>1. \A e \in Definitions : retains'[e] = IF e = d THEN 1 ELSE IF entry[a] = e THEN 0 ELSE retains[e]
    <3>1. CASE entry[a] \in Definitions
      <4>1. ArityOf[entry[a]] = a
        BY <3>1, <1>1 DEF EntryInv
      <4>2. retains[entry[a]] = 1
        BY <3>1, <4>1, <1>1 DEF RetainInv
      <4> QED BY <3>1, <4>2, <1>2, <1>4 DEF Destroyed, Released, held
    <3>2. CASE entry[a] \notin Definitions
      BY <3>2, <1>2, <1>4 DEF Destroyed, held
    <3> QED BY <3>1, <3>2
  <2>2. retains' \in [Definitions -> Nat]
    <3>1. DOMAIN retains' = Definitions /\ retains' = [e \in Definitions |-> retains'[e]]
      BY <1>2, <1>4 DEF Destroyed, Released, held
    <3>2. \A e \in Definitions : retains'[e] \in Nat
      BY <2>1, <1>2
    <3> QED BY <3>1, <3>2
  <2>3. TypeOK'
    BY <2>2, <1>1, <1>2, <1>4 DEF Install, TypeOK, aggregates
  <2>4. EntryInv'
    BY <1>1, <1>2, <1>4 DEF EntryInv, a
  <2>5. RetainInv'
    <3> SUFFICES ASSUME NEW e \in Definitions
        PROVE  retains'[e] = IF entry'[ArityOf[e]] = e THEN 1 ELSE 0
      BY DEF RetainInv
    <3>1. CASE e = d
      BY <3>1, <2>1, <1>1, <1>2, <1>4 DEF a
    <3>2. CASE e # d /\ ArityOf[e] = a
      BY <3>2, <2>1, <1>1, <1>2, <1>4 DEF RetainInv
    <3>3. CASE e # d /\ ArityOf[e] # a
      <4>1. entry[a] # e
        BY <3>3, <1>1 DEF EntryInv
      <4> QED BY <3>3, <4>1, <2>1, <1>1, <1>2, <1>4 DEF RetainInv
    <3> QED BY <3>1, <3>2, <3>3
  <2>6. ProgramInv'
    BY <1>1, CreateKeepsPrograms DEF Install
  <2>7. ContextsAreReleased'
    BY DEF Install, Inv, ContextsAreReleased, Active, aggregates
  <2> QED BY <2>3, <2>4, <2>5, <2>6, <2>7 DEF Inv
<1>5. d # Deleted
  OBVIOUS
<1> QED BY <1>1, <1>2, <1>3, <1>4, <1>5 DEF CreateFunction

LEMMA UninstallInv == ASSUME Inv, NEW a \in Arities, Uninstall(a) PROVE Inv'
<1> USE DefinitionsAssumption
<1>1. db = "open" /\ db' = db /\ CreateFunction(a, Deleted, retains)
    /\ TypeOK /\ EntryInv /\ RetainInv
  BY DEF Uninstall, Inv
<1>2. /\ entry \in [Arities -> Definitions \cup {Absent, Deleted}]
      /\ retains \in [Definitions -> Nat] /\ expired \in [Stmts -> BOOLEAN]
  BY <1>1 DEF TypeOK
<1>3. CASE entry' = entry /\ expired' = expired /\ retains' = retains
  BY <1>1, <1>3 DEF Uninstall, Inv, TypeOK, EntryInv, RetainInv, ProgramInv, Sound, Active,
                    ContextsAreReleased, aggregates
<1>4. CASE /\ Replaces(a) /\ entry' = [entry EXCEPT ![a] = Deleted]
           /\ retains' = Destroyed(retains, a) /\ expired' \in [Stmts -> BOOLEAN]
  <2>1. ArityOf[entry[a]] = a /\ retains[entry[a]] = 1 /\ entry[a] \in Definitions
    BY <1>1, <1>4 DEF EntryInv, RetainInv, Replaces
  <2>2. retains' = [retains EXCEPT ![entry[a]] = 0]
    BY <2>1, <1>2, <1>4 DEF Destroyed, Released
  <2>3. TypeOK'
    BY <2>1, <2>2, <1>1, <1>2, <1>4 DEF Uninstall, TypeOK, aggregates
  <2>4. EntryInv'
    BY <1>1, <1>2, <1>4 DEF EntryInv
  <2>5. RetainInv'
    <3> SUFFICES ASSUME NEW e \in Definitions
        PROVE  retains'[e] = IF entry'[ArityOf[e]] = e THEN 1 ELSE 0
      BY DEF RetainInv
    <3>1. CASE e = entry[a]
      BY <3>1, <2>1, <2>2, <1>2, <1>4
    <3>2. CASE e # entry[a] /\ ArityOf[e] = a
      BY <3>2, <2>1, <2>2, <1>1, <1>2, <1>4 DEF RetainInv
    <3>3. CASE e # entry[a] /\ ArityOf[e] # a
      BY <3>3, <2>1, <2>2, <1>1, <1>2, <1>4 DEF RetainInv
    <3> QED BY <3>1, <3>2, <3>3
  <2>6. ProgramInv'
    BY <1>1, CreateKeepsPrograms DEF Uninstall
  <2>7. ContextsAreReleased'
    BY DEF Uninstall, Inv, ContextsAreReleased, Active, aggregates
  <2> QED BY <2>3, <2>4, <2>5, <2>6, <2>7 DEF Inv
<1> QED BY <1>1, <1>2, <1>3, <1>4 DEF CreateFunction

LEMMA CloseInv == ASSUME Inv, Close PROVE Inv'
<1> USE DefinitionsAssumption
<1>1. TypeOK /\ EntryInv /\ RetainInv /\ ProgramInv /\ ContextsAreReleased
  BY DEF Inv
<1>2. CASE db' = "lost" /\ UNCHANGED <<entry, retains>>
  BY <1>1, <1>2 DEF Close, Inv, TypeOK, EntryInv, RetainInv, ProgramInv, Sound, Active,
                    ContextsAreReleased, program, aggregates
<1>3. CASE /\ \A s \in Stmts : at[s] = "none"
           /\ db' = "closed" /\ entry' = [a \in Arities |-> Absent]
           /\ retains' = [d \in Definitions |->
                             IF entry[ArityOf[d]] = d THEN retains[d] - 1 ELSE retains[d]]
  <2>1. \A d \in Definitions : retains'[d] = 0
    BY <1>1, <1>3 DEF RetainInv, TypeOK
  <2>2. TypeOK'
    BY <2>1, <1>1, <1>3 DEF Close, TypeOK, program, aggregates
  <2>3. EntryInv' /\ RetainInv'
    BY <2>1, <1>3 DEF EntryInv, RetainInv
  <2>4. ProgramInv'
    BY <1>3 DEF Close, ProgramInv, Sound, Active
  <2>5. ContextsAreReleased'
    BY <1>1 DEF Close, ContextsAreReleased, Active, program, aggregates
  <2> QED BY <2>2, <2>3, <2>4, <2>5 DEF Inv
<1> QED BY <1>2, <1>3 DEF Close

-----------------------------------------------------------------------------
(* The rest leaves the connection as it is. *)
LEMMA ConnectionKept == ASSUME Inv, UNCHANGED connection PROVE EntryInv' /\ RetainInv'
  BY DEF Inv, connection, EntryInv, RetainInv

(* A statement may become sound by being compiled. *)
LEMMA CompileInv ==
    ASSUME Inv, NEW s \in Stmts, Compile(s), UNCHANGED connection,
           \A r \in Stmts : r # s => at'[r] = at[r]
    PROVE  /\ ProgramInv'
           /\ func' \in [Stmts -> Arities \cup {Absent}]
           /\ compiled' \in [Stmts -> Definitions \cup {Absent}]
           /\ expired' \in [Stmts -> BOOLEAN]
<1>1. TypeOK /\ ProgramInv /\ Closest \in Arities /\ entry[Closest] \in Definitions
  BY DEF Inv, Compile, Found, Closest, Arities
<1>2. /\ func' \in [Stmts -> Arities \cup {Absent}]
      /\ compiled' \in [Stmts -> Definitions \cup {Absent}]
      /\ expired' \in [Stmts -> BOOLEAN]
  BY <1>1 DEF TypeOK, Compile
<1>3. ASSUME NEW r \in Stmts, Sound(r)'
      PROVE  func'[r] \in Arities /\ compiled'[r] \in Definitions /\ entry'[func'[r]] = compiled'[r]
  <2>1. CASE r = s
    BY <2>1, <1>1 DEF TypeOK, Compile, connection
  <2>2. CASE r # s
    <3>1. func'[r] = func[r] /\ compiled'[r] = compiled[r] /\ expired'[r] = expired[r]
      BY <2>2, <1>1 DEF TypeOK, Compile
    <3>2. Sound(r)
      BY <1>3, <2>2, <3>1 DEF Sound, Active
    <3> QED BY <3>1, <3>2, <1>1 DEF ProgramInv, connection
  <2> QED BY <2>1, <2>2
<1> QED BY <1>2, <1>3 DEF ProgramInv

(* A statement that moves on with its program stays sound. *)
LEMMA MovesInv ==
    ASSUME Inv, NEW s \in Stmts, UNCHANGED <<connection, program>>,
           at' \in [Stmts -> Places], \A r \in Stmts : r # s => at'[r] = at[r],
           Sound(s)' => Sound(s)
    PROVE  ProgramInv'
  BY DEF Inv, ProgramInv, connection, program, Sound, Active

LEMMA PrepareInv == ASSUME Inv, NEW s \in Stmts, Prepare(s) PROVE Inv'
<1>1. TypeOK /\ ContextsAreReleased /\ at[s] = "none" /\ at' = [at EXCEPT ![s] = "ready"]
    /\ UNCHANGED connection
  BY DEF Inv, Prepare, Moves
<1>2. \A r \in Stmts : r # s => at'[r] = at[r] /\ compiled'[r] = compiled[r]
  BY <1>1 DEF TypeOK, Prepare, Compile
<1>3. \A c \in Calls : register[s][c] = "null"
  BY <1>1 DEF ContextsAreReleased, Active
<1>4. ProgramInv' /\ TypeOK'
  BY <1>1, <1>2, CompileInv DEF Prepare, TypeOK, Places, connection, aggregates
<1>5. ContextsAreReleased'
  BY <1>1, <1>2, <1>3 DEF ContextsAreReleased, Active, Prepare, aggregates
<1> QED BY <1>1, <1>4, <1>5, ConnectionKept DEF Inv

LEMMA StepInv == ASSUME Inv, NEW s \in Stmts, Step(s) PROVE Inv'
<1>1. /\ TypeOK /\ ContextsAreReleased /\ at[s] = "ready"
      /\ UNCHANGED connection /\ UNCHANGED aggregates
      /\ at' = [at EXCEPT ![s] = "exec"] \/ at' = [at EXCEPT ![s] = "refused"]
  BY DEF Inv, Step, Moves
<1>2. \A r \in Stmts : r # s => at'[r] = at[r] /\ compiled'[r] = compiled[r]
  BY <1>1 DEF TypeOK, Step, Compile, program
<1>3. \A c \in Calls : register[s][c] = "null"
  BY <1>1 DEF ContextsAreReleased, Active
<1>4. at' \in [Stmts -> Places]
  BY <1>1 DEF TypeOK, Places
<1>5. ProgramInv' /\ TypeOK'
  <2>1. CASE Compile(s)
    BY <2>1, <1>1, <1>2, <1>4, CompileInv DEF TypeOK, connection, aggregates
  <2>2. CASE UNCHANGED program /\ ~expired[s] /\ Moves(s, "ready", "exec")
    <3>1. Sound(s)
      BY <1>1, <2>2 DEF Sound
    <3> QED BY <3>1, <2>2, <1>1, <1>2, <1>4, MovesInv DEF TypeOK, connection, program, aggregates
  <2>3. CASE UNCHANGED program /\ Moves(s, "ready", "refused")
    <3>1. ~Sound(s)'
      BY <1>1, <2>3 DEF Moves, Sound, Active, TypeOK
    <3> QED BY <3>1, <2>3, <1>1, <1>2, <1>4, MovesInv DEF TypeOK, connection, program, aggregates
  <2> QED BY <2>1, <2>2, <2>3 DEF Step
<1>6. ContextsAreReleased'
  BY <1>1, <1>2, <1>3 DEF ContextsAreReleased, Active, aggregates
<1> QED BY <1>1, <1>5, <1>6, ConnectionKept DEF Inv

(* Steps of one statement that change neither its program nor a register. *)
LEMMA PlainMoveInv ==
    ASSUME Inv, NEW s \in Stmts, UNCHANGED <<connection, program, aggregates>>,
           at' \in [Stmts -> Places], \A r \in Stmts : r # s => at'[r] = at[r],
           Sound(s)' => Sound(s),
           at[s] \in {"ready", "exec", "row"}, Active(s) => Active(s)'
    PROVE  Inv'
<1>1. TypeOK /\ ContextsAreReleased
  BY DEF Inv
<1>2. TypeOK'
  BY <1>1 DEF TypeOK, connection, program, aggregates
<1>3. ProgramInv'
  BY MovesInv
<1>4. ContextsAreReleased'
  BY <1>1 DEF ContextsAreReleased, Active, program, aggregates
<1> QED BY <1>2, <1>3, <1>4, ConnectionKept DEF Inv

LEMMA ProceedInv ==
    ASSUME Inv, NEW s \in Stmts,
           NextStep(s) \/ ResultRow(s) \/ Leak(s) \/ FunctionFails(s)
    PROVE  Inv'
<1>1. TypeOK /\ UNCHANGED <<connection, program, aggregates>>
  BY DEF Inv, NextStep, ResultRow, Leak, FunctionFails
<1>2. PICK to \in {"exec", "row", "abort", "leaked", "leakedRow"} :
        at' = [at EXCEPT ![s] = to] /\ at[s] \in {"ready", "exec", "row"}
        /\ (to = "leaked" <=> at[s] = "ready")
  BY DEF NextStep, ResultRow, Leak, FunctionFails, Moves
<1>3. at' \in [Stmts -> Places] /\ at'[s] = to /\ \A r \in Stmts : r # s => at'[r] = at[r]
  BY <1>1, <1>2 DEF TypeOK, Places
<1>4. (Sound(s)' => Sound(s)) /\ (Active(s) => Active(s)')
  BY <1>2, <1>3 DEF Sound, Active
<1> QED BY <1>1, <1>2, <1>3, <1>4, PlainMoveInv

LEMMA HaltInv == ASSUME Inv, NEW s \in Stmts, Halt(s) PROVE Inv'
<1>1. /\ TypeOK /\ ContextsAreReleased /\ UNCHANGED <<connection, program>>
      /\ at' = [at EXCEPT ![s] = "halted"]
      /\ register' = [register EXCEPT ![s] = [c \in Calls |-> "null"]]
  BY DEF Inv, Halt, Moves
<1>2. at' \in [Stmts -> Places] /\ at'[s] = "halted" /\ \A r \in Stmts : r # s => at'[r] = at[r]
  BY <1>1 DEF TypeOK, Places
<1>3. contexts' = [contexts EXCEPT ![s] = [c \in Calls |-> 0]]
  <2>1. \A c \in Calls :
          (IF register[s][c] = "null" THEN contexts[s][c] ELSE contexts[s][c] - 1) = 0
    BY <1>1 DEF ContextsAreReleased
  <2> QED BY <2>1 DEF Halt
<1>4. TypeOK'
  BY <1>1, <1>2, <1>3 DEF TypeOK, connection, program
<1>5. ProgramInv'
  <2>1. ~Sound(s)'
    BY <1>2 DEF Sound, Active
  <2> QED BY <2>1, <1>1, <1>2, MovesInv
<1>6. ContextsAreReleased'
  <2> SUFFICES ASSUME NEW r \in Stmts, NEW c \in Calls
      PROVE  /\ contexts'[r][c] = IF register'[r][c] = "null" THEN 0 ELSE 1
             /\ register'[r][c] # "null" => Active(r)' /\ KindOf[compiled'[r]] = "aggregate"
             /\ register'[r][c] = "errored" => at'[r] = "abort"
    BY DEF ContextsAreReleased
  <2>1. CASE r = s
    BY <2>1, <1>1, <1>3 DEF TypeOK
  <2>2. CASE r # s
    BY <2>2, <1>1, <1>2, <1>3 DEF TypeOK, ContextsAreReleased, Active, program
  <2> QED BY <2>1, <2>2
<1> QED BY <1>1, <1>4, <1>5, <1>6, ConnectionKept DEF Inv

LEMMA FinalizeInv == ASSUME Inv, NEW s \in Stmts, Finalize(s) PROVE Inv'
<1>1. /\ TypeOK /\ ContextsAreReleased /\ ProgramInv /\ UNCHANGED connection
      /\ UNCHANGED aggregates
      /\ at' = [at EXCEPT ![s] = "none"] /\ at[s] \in {"ready", "halted", "refused"}
      /\ func' = [func EXCEPT ![s] = Absent] /\ compiled' = [compiled EXCEPT ![s] = Absent]
      /\ expired' = [expired EXCEPT ![s] = FALSE]
  BY DEF Inv, Finalize, Moves
<1>2. TypeOK'
  BY <1>1 DEF TypeOK, Places, connection, aggregates
<1>3. \A r \in Stmts : r # s =>
        /\ at'[r] = at[r] /\ func'[r] = func[r]
        /\ compiled'[r] = compiled[r] /\ expired'[r] = expired[r]
  BY <1>1 DEF TypeOK
<1>4. at'[s] = "none" /\ ~Active(s) /\ ~Sound(s)'
  BY <1>1 DEF TypeOK, Active, Sound
<1>5. ProgramInv'
  BY <1>1, <1>3, <1>4 DEF ProgramInv, Sound, Active, connection
<1>6. ContextsAreReleased'
  BY <1>1, <1>3, <1>4 DEF ContextsAreReleased, Active, aggregates
<1> QED BY <1>1, <1>2, <1>5, <1>6, ConnectionKept DEF Inv

-----------------------------------------------------------------------------
(* One register of a running aggregate: v is what the callback leaves there, *)
(* n the retains of its context.                                             *)
LEMMA RegisterInv ==
    ASSUME Inv, NEW s \in Stmts, NEW c \in Calls, UNCHANGED <<connection, program>>,
           at[s] = "exec", KindOf[compiled[s]] = "aggregate",
           at' = at \/ at' = [at EXCEPT ![s] = "abort"],
           NEW v \in {"null", "agg", "errored"}, NEW n, n = IF v = "null" THEN 0 ELSE 1,
           v = "errored" => at' = [at EXCEPT ![s] = "abort"],
           register' = [register EXCEPT ![s][c] = v], contexts' = [contexts EXCEPT ![s][c] = n]
    PROVE  Inv'
<1>1. TypeOK /\ ContextsAreReleased
  BY DEF Inv
<1>2. at' \in [Stmts -> Places] /\ \A r \in Stmts : r # s => at'[r] = at[r]
  BY <1>1 DEF TypeOK, Places
<1>3. at'[s] \in {"exec", "abort"} /\ (v = "errored" => at'[s] = "abort")
  BY <1>1 DEF TypeOK
<1>4. TypeOK'
  BY <1>1, <1>2 DEF TypeOK, connection, program
<1>5. ProgramInv'
  <2>1. Sound(s)
    BY DEF Sound, Active
  <2> QED BY <2>1, <1>2, MovesInv
<1>6. ContextsAreReleased'
  <2> SUFFICES ASSUME NEW r \in Stmts, NEW b \in Calls
      PROVE  /\ contexts'[r][b] = IF register'[r][b] = "null" THEN 0 ELSE 1
             /\ register'[r][b] # "null" => Active(r)' /\ KindOf[compiled'[r]] = "aggregate"
             /\ register'[r][b] = "errored" => at'[r] = "abort"
    BY DEF ContextsAreReleased
  <2>1. CASE r = s /\ b = c
    BY <2>1, <1>1, <1>3 DEF TypeOK, Active, program
  <2>2. CASE r = s /\ b # c
    BY <2>2, <1>1, <1>3 DEF TypeOK, ContextsAreReleased, Active, program
  <2>3. CASE r # s
    BY <2>3, <1>1, <1>2 DEF TypeOK, ContextsAreReleased, Active, program
  <2> QED BY <2>1, <2>2, <2>3
<1> QED BY <1>4, <1>5, <1>6, ConnectionKept DEF Inv

(* The context of a register that has not failed is there once, or made. *)
LEMMA ContextIsOne ==
    ASSUME Inv, NEW s \in Stmts, NEW c \in Calls PROVE Context(s, c) = 1
  BY DEF Inv, ContextsAreReleased, Context

LEMMA AggStepInv == ASSUME Inv, NEW s \in Stmts, NEW c \in Calls, AggStep(s, c) PROVE Inv'
<1>1. at[s] = "exec" /\ KindOf[compiled[s]] = "aggregate" /\ UNCHANGED <<connection, program>>
    /\ contexts' = [contexts EXCEPT ![s][c] = 1]
  BY ContextIsOne DEF AggStep, Calling
<1>2. CASE register' = [register EXCEPT ![s][c] = "agg"] /\ UNCHANGED at
  BY <1>1, <1>2, RegisterInv
<1>3. CASE register' = [register EXCEPT ![s][c] = "errored"] /\ Moves(s, "exec", "abort")
  BY <1>1, <1>3, RegisterInv DEF Moves
<1> QED BY <1>2, <1>3 DEF AggStep

LEMMA AggFinalInv == ASSUME Inv, NEW s \in Stmts, NEW c \in Calls, AggFinal(s, c) PROVE Inv'
<1>1. /\ at[s] = "exec" /\ KindOf[compiled[s]] = "aggregate" /\ UNCHANGED <<connection, program>>
      /\ register' = [register EXCEPT ![s][c] = "null"]
      /\ at' = at \/ at' = [at EXCEPT ![s] = "abort"]
  BY DEF AggFinal, Calling, Moves
<1>2. contexts' = [contexts EXCEPT ![s][c] = 0]
  <2>1. Context(s, c) - 1 = 0
    BY ContextIsOne
  <2> QED BY <2>1 DEF AggFinal
<1> QED BY <1>1, <1>2, RegisterInv

-----------------------------------------------------------------------------
LEMMA NextInv == ASSUME Inv, [Next]_vars PROVE Inv'
<1>1. CASE \E d \in Definitions : Install(d)
  BY <1>1, InstallInv
<1>2. CASE \E a \in Arities : Uninstall(a)
  BY <1>2, UninstallInv
<1>3. CASE Close
  BY <1>3, CloseInv
<1>4. CASE \E s \in Stmts : Prepare(s) \/ Step(s) \/ Halt(s) \/ Finalize(s)
  BY <1>4, PrepareInv, StepInv, HaltInv, FinalizeInv
<1>5. CASE \E s \in Stmts : NextStep(s) \/ ResultRow(s) \/ Leak(s) \/ FunctionFails(s)
  BY <1>5, ProceedInv
<1>6. CASE \E s \in Stmts, c \in Calls : AggStep(s, c) \/ AggFinal(s, c)
  BY <1>6, AggStepInv, AggFinalInv
<1>7. CASE UNCHANGED vars
  BY <1>7 DEF vars, Inv, TypeOK, EntryInv, RetainInv, ProgramInv, Sound, Active,
              ContextsAreReleased, connection, program, aggregates
<1> QED BY <1>1, <1>2, <1>3, <1>4, <1>5, <1>6, <1>7 DEF Next

(* The inductive invariant holds for every set of definitions and statements. *)
THEOREM InvHolds == Spec => []Inv
  BY InitInv, NextInv, PTL DEF Spec

(* The variables have their types. *)
THEOREM TypeCorrect == Spec => []TypeOK
<1>1. Inv => TypeOK
  BY DEF Inv
<1> QED BY <1>1, InvHolds, PTL

(* A running statement calls the definition it was compiled for, which is    *)
(* still retained.                                                           *)
THEOREM DefinitionsLiveWhileCalled == Spec => []RunsWhatItCompiled
  BY InvHolds, InvImplies, PTL

(* install() and libsqlite3 balance: one retain while installed, else none. *)
THEOREM RetainsBalance == Spec => []HeldWhileInstalled
  BY InvHolds, InvImplies, PTL

(* Every AggregateContext is released once, and none is stepped after it failed. *)
THEOREM ContextsBalance == Spec => []ContextsAreReleased
<1>1. Inv => ContextsAreReleased
  BY DEF Inv
<1> QED BY <1>1, InvHolds, PTL
=============================================================================
