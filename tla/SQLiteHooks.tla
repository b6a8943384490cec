----------------------------- MODULE SQLiteHooks -----------------------------
(***************************************************************************)
(* The hook machinery of one SQLiteConnection, at the level of threads and *)
(* locks: the Swift buckets of callbacks behind their lock, the C-level    *)
(* hook slots behind the connection mutex of libsqlite3 (serialized mode), *)
(* the raw handle, the jobs the thread pool runs on them (add, query,      *)
(* script, close) and cancel(), which runs on whatever thread calls it.    *)
(*                                                                         *)
(* A step is what a thread does between two lock operations.  The SQL      *)
(* engine is external: a call of it takes the connection mutex, may fire   *)
(* any installed hook any number of times, and ends with any result.       *)
(***************************************************************************)
EXTENDS HookTokens, Naturals

CONSTANTS
    PoolThreads,  \* threads of the NIOThreadPool, each running one job at a time
    AppThreads,   \* the client's threads: they cancel tokens, or drop them
    NoThread,     \* the owner of a free lock
    CloseAwaits   \* does the client await its other jobs before it calls close()?

Threads == PoolThreads \cup AppThreads

ASSUME ThreadsAssumption ==
    /\ PoolThreads \cap AppThreads = {}
    /\ NoThread \notin Threads
ASSUME CloseAssumption == CloseAwaits \in BOOLEAN

VARIABLES
    handle,      \* self.handle.raw: "db", or "nil" once close() is done
    db,          \* the sqlite3 object that the handle points to
    registered,  \* the callbacks in the ObserverBuckets, named by their tokens
    installed,   \* the kinds whose ...DispatcherInstalled flag is set
    bucketLock,  \* owner of the observerBuckets lock
    slot,        \* the kinds whose C hook is set in libsqlite3
    dbMutex,     \* owner of the connection mutex of libsqlite3
    stmts,       \* the pool threads that hold a statement not yet finalized
    leaked,      \* is there a statement that nobody can finalize any more?
    pc,          \* what each thread is about to do
    base,        \* the SQL call a dispatch returns to ("preparing" otherwise)
    ret,         \* where a cancel() returns to: its caller, or a callback
    tok,         \* the token a thread adds or cancels
    ptr,         \* the raw handle a thread has read and is about to use
    event,       \* the hook a thread dispatches, or clears ("update" otherwise)
    todo,        \* the callbacks a dispatch has copied and not yet run
    status,      \* each token: "unused", "adding", "live" or "cancelled"
    late,        \* invocations of a callback that began after its cancel() returned
    fault        \* a call into libsqlite3 with a pointer it must not be given

connection == <<handle, db>>
buckets == <<registered, installed, bucketLock>>
engine == <<slot, dbMutex, stmts, leaked>>
locals == <<base, ret, tok, ptr, event, todo>>
tokens == <<status, late>>
shared == <<connection, buckets, engine, tokens, fault>>
vars == <<shared, pc, locals>>

-----------------------------------------------------------------------------
(* What a thread is about to do, by the operation it is in. *)
JobSteps == {"idle", "addLock", "install", "query", "prepareCall", "stepCall",
             "finalizeCall", "script", "execCall"}
SqlCalls == {"preparing", "stepping", "scripting"}
InCallback == {"validating", "calling"}
InDispatch == {"hooked", "dispatching"} \cup InCallback
InCancel == {"cancelLock", "uninstall"}
CloseSteps == {"clear", "reset", "closeDb", "nilHandle"}
Steps == JobSteps \cup SqlCalls \cup InDispatch \cup InCancel \cup CloseSteps

TypeOK ==
    /\ handle \in {"db", "nil"}
    /\ db \in {"open", "freed"}
    /\ registered \subseteq Tokens
    /\ installed \subseteq Kinds
    /\ bucketLock \in Threads \cup {NoThread}
    /\ slot \subseteq Kinds
    /\ dbMutex \in Threads \cup {NoThread}
    /\ stmts \subseteq Threads
    /\ leaked \in BOOLEAN
    /\ pc \in [Threads -> Steps]
    /\ base \in [Threads -> SqlCalls]
    /\ ret \in [Threads -> InCallback \cup {"idle"}]
    /\ tok \in [Threads -> Tokens \cup {NoToken}]
    /\ ptr \in [Threads -> {"db", "nil"}]
    /\ event \in [Threads -> Kinds]
    /\ todo \in [Threads -> SUBSET Tokens]
    /\ status \in [Tokens -> {"unused", "adding", "live", "cancelled"}]
    /\ late \in [Tokens -> Nat]
    /\ fault \in {"none", "null", "freed"}

Init ==
    /\ handle = "db" /\ db = "open"
    /\ registered = {} /\ installed = {} /\ bucketLock = NoThread
    /\ slot = {} /\ dbMutex = NoThread /\ stmts = {} /\ leaked = FALSE
    /\ pc = [t \in Threads |-> "idle"]
    /\ base = [t \in Threads |-> "preparing"]
    /\ ret = [t \in Threads |-> "idle"]
    /\ tok = [t \in Threads |-> NoToken]
    /\ ptr = [t \in Threads |-> "nil"]
    /\ event = [t \in Threads |-> "update"]
    /\ todo = [t \in Threads |-> {}]
    /\ status = [x \in Tokens |-> "unused"]
    /\ late = [x \in Tokens |-> 0]
    /\ fault = "none"

-----------------------------------------------------------------------------
Goto(t, step) == pc' = [pc EXCEPT ![t] = step]

Listeners(k) == Listening(k, registered)

(* Mutant of CancelKind: the commit validator passes .authorizer. *)
CancelKindSwapped(x) == IF x \in Validators THEN "authorizer" ELSE KindOf[x]

(* The kind the cancel block passes on: the one of the authorizer validator  *)
(* says .commit.                                                             *)
CancelKind(x) == IF x \in Validators THEN "commit" ELSE KindOf[x]

CloseInProgress == \E t \in Threads : pc[t] \in CloseSteps
Closing == CloseInProgress \/ handle = "nil"

(* The arguments of a call of libsqlite3 that locks the connection: self's   *)
(* handle is read, then used; the mutex is recursive.                        *)
ReadHandle(t) == ptr' = [ptr EXCEPT ![t] = handle]
UseHandle(t) == ptr[t] = "db" /\ db = "open" /\ ptr' = [ptr EXCEPT ![t] = "nil"]
EngineFree(t) == dbMutex \in {NoThread, t}

-----------------------------------------------------------------------------
(* Registration: a job of the pool. *)

BeginAdd(t, x) ==
    /\ t \in PoolThreads /\ pc[t] = "idle"
    /\ ~Closing
    /\ status[x] = "unused"
    /\ status' = [status EXCEPT ![x] = "adding"]
    /\ tok' = [tok EXCEPT ![t] = x]
    /\ Goto(t, "addLock")
    /\ UNCHANGED <<connection, buckets, engine, late, fault, base, ret, ptr, event, todo>>

AddReturns(t) ==
    /\ status' = [status EXCEPT ![tok[t]] = "live"]
    /\ tok' = [tok EXCEPT ![t] = NoToken]
    /\ Goto(t, "idle")

(* Lock the buckets and register the callback.  Its kind has a dispatcher... *)
AddToHook(t) ==
    /\ pc[t] = "addLock"
    /\ bucketLock = NoThread
    /\ KindOf[tok[t]] \in installed
    /\ registered' = (registered \ Replaced(tok[t])) \cup {tok[t]}
    /\ AddReturns(t)
    /\ UNCHANGED <<connection, installed, bucketLock, engine, late, fault,
                   base, ret, ptr, event, todo>>

(* Mutant of AddFirst: the lock is released before the dispatcher is installed. *)
AddFirstUnlocked(t) ==
    /\ pc[t] = "addLock" /\ bucketLock = NoThread
    /\ KindOf[tok[t]] \notin installed
    /\ registered' = (registered \ Replaced(tok[t])) \cup {tok[t]}
    /\ installed' = installed \cup {KindOf[tok[t]]}
    /\ ReadHandle(t)
    /\ Goto(t, "install")
    /\ UNCHANGED <<connection, bucketLock, engine, tokens, fault, base, ret, tok, event, todo>>

(* ...or has none: set the flag, read the handle, and keep the lock for the  *)
(* call that installs one.                                                   *)
AddFirst(t) ==
    /\ pc[t] = "addLock"
    /\ bucketLock = NoThread
    /\ KindOf[tok[t]] \notin installed
    /\ registered' = (registered \ Replaced(tok[t])) \cup {tok[t]}
    /\ installed' = installed \cup {KindOf[tok[t]]}
    /\ bucketLock' = t
    /\ ReadHandle(t)
    /\ Goto(t, "install")
    /\ UNCHANGED <<connection, engine, tokens, fault, base, ret, tok, event, todo>>

Install(t) ==
    /\ pc[t] = "install"
    /\ UseHandle(t) /\ EngineFree(t)
    /\ slot' = slot \cup {KindOf[tok[t]]}
    /\ bucketLock' = NoThread
    /\ AddReturns(t)
    /\ UNCHANGED <<connection, registered, installed, dbMutex, stmts, leaked, late,
                   fault, base, ret, event, todo>>

-----------------------------------------------------------------------------
(* cancel(), or the deinit of a scoped token: on the thread of the caller,   *)
(* which may be a callback that libsqlite3 is running.                       *)

(* Mutant of BeginCancel: the dispatcher itself may drop the last reference *)
(* to a scoped token, between two callbacks.                                *)
BeginCancelInDispatch(t, x) ==
    /\ (t \in AppThreads /\ pc[t] = "idle") \/ pc[t] \in InDispatch
    /\ status[x] \in {"live", "cancelled"}
    /\ ret' = [ret EXCEPT ![t] = pc[t]]
    /\ tok' = [tok EXCEPT ![t] = x]
    /\ Goto(t, "cancelLock")
    /\ UNCHANGED <<shared, base, ptr, event, todo>>

BeginCancel(t, x) ==
    /\ (t \in AppThreads /\ pc[t] = "idle") \/ pc[t] \in InCallback
    /\ status[x] \in {"live", "cancelled"}
    /\ ret' = [ret EXCEPT ![t] = pc[t]]
    /\ tok' = [tok EXCEPT ![t] = x]
    /\ Goto(t, "cancelLock")
    /\ UNCHANGED <<shared, base, ptr, event, todo>>

CancelReturns(t) ==
    /\ status' = [status EXCEPT ![tok[t]] = "cancelled"]
    /\ tok' = [tok EXCEPT ![t] = NoToken]
    /\ ret' = [ret EXCEPT ![t] = "idle"]
    /\ Goto(t, ret[t])

(* Lock the buckets and remove the callback.  Somebody else listens, or the  *)
(* dispatcher is out already...                                              *)
CancelOne(t) ==
    LET k == CancelKind(tok[t])
    IN  /\ pc[t] = "cancelLock"
        /\ bucketLock = NoThread
        /\ k \notin installed \/ Listening(k, registered \ Removed(tok[t])) # {}
        /\ registered' = registered \ Removed(tok[t])
        /\ CancelReturns(t)
        /\ UNCHANGED <<connection, installed, bucketLock, engine, late, fault,
                       base, ptr, event, todo>>

(* Mutant of CancelLast: the validator is not asked about. *)
CancelLastObserver(t) ==
    LET k == CancelKind(tok[t])
    IN  /\ pc[t] = "cancelLock" /\ bucketLock = NoThread
        /\ k \in installed
        /\ Listening(k, registered \ Removed(tok[t])) \subseteq Validators
        /\ registered' = registered \ Removed(tok[t])
        /\ installed' = installed \ {k}
        /\ bucketLock' = t
        /\ ReadHandle(t)
        /\ Goto(t, "uninstall")
        /\ UNCHANGED <<connection, engine, tokens, fault, base, ret, tok, event, todo>>

(* ...or nobody does: clear the flag, read the handle, and keep the lock for *)
(* the call that takes the dispatcher out.                                   *)
CancelLast(t) ==
    LET k == CancelKind(tok[t])
    IN  /\ pc[t] = "cancelLock"
        /\ bucketLock = NoThread
        /\ k \in installed /\ Listening(k, registered \ Removed(tok[t])) = {}
        /\ registered' = registered \ Removed(tok[t])
        /\ installed' = installed \ {k}
        /\ bucketLock' = t
        /\ ReadHandle(t)
        /\ Goto(t, "uninstall")
        /\ UNCHANGED <<connection, engine, tokens, fault, base, ret, tok, event, todo>>

Uninstall(t) ==
    /\ pc[t] = "uninstall"
    /\ UseHandle(t) /\ EngineFree(t)
    /\ slot' = slot \ {CancelKind(tok[t])}
    /\ bucketLock' = NoThread
    /\ CancelReturns(t)
    /\ UNCHANGED <<connection, registered, installed, dbMutex, stmts, leaked, late,
                   fault, base, event, todo>>

-----------------------------------------------------------------------------
(* A query: prepare, step until there are no more rows, finalize. *)

(* The job is dequeued; handle.raw is read at the call of prepare. *)
BeginQuery(t) ==
    /\ t \in PoolThreads /\ pc[t] = "idle"
    /\ ~CloseInProgress
    /\ Goto(t, "query")
    /\ UNCHANGED <<shared, locals>>

QueryReadsHandle(t) ==
    /\ pc[t] = "query"
    /\ ReadHandle(t)
    /\ Goto(t, "prepareCall")
    /\ UNCHANGED <<shared, base, ret, tok, event, todo>>

(* Mutant of PrepareMisuse: the query is tried again. *)
PrepareMisuseRetried(t) ==
    /\ pc[t] = "prepareCall" /\ ptr[t] = "nil"
    /\ Goto(t, "query")
    /\ UNCHANGED <<shared, locals>>

(* sqlite3_prepare_v3 answers SQLITE_MISUSE for a null handle. *)
PrepareMisuse(t) ==
    /\ pc[t] = "prepareCall" /\ ptr[t] = "nil"
    /\ Goto(t, "idle")
    /\ UNCHANGED <<shared, locals>>

EnterEngine(t, call) ==
    /\ dbMutex = NoThread
    /\ dbMutex' = t
    /\ Goto(t, call)
    /\ UNCHANGED <<connection, buckets, slot, stmts, leaked, tokens, fault,
                   base, ret, tok, event, todo>>

LeaveEngine(t, step) ==
    /\ dbMutex' = NoThread
    /\ Goto(t, step)
    /\ UNCHANGED <<connection, buckets, slot, leaked, tokens, fault, locals>>

PrepareEnters(t) == pc[t] = "prepareCall" /\ UseHandle(t) /\ EnterEngine(t, "preparing")

(* An error leaves nothing to finalize. *)
PrepareFails(t) == pc[t] = "preparing" /\ LeaveEngine(t, "idle") /\ UNCHANGED stmts

(* A statement: bind it and step through it, or finalize it as a bind fails. *)
PrepareReturns(t) ==
    /\ pc[t] = "preparing"
    /\ LeaveEngine(t, "stepCall") \/ LeaveEngine(t, "finalizeCall")
    /\ stmts' = stmts \cup {t}

StepEnters(t) == pc[t] = "stepCall" /\ EnterEngine(t, "stepping") /\ UNCHANGED ptr

(* SQLITE_ROW: there may be more.  Any other result: check() finalizes. *)
StepReturnsRow(t) == pc[t] = "stepping" /\ LeaveEngine(t, "stepCall") /\ UNCHANGED stmts
StepReturnsLast(t) == pc[t] = "stepping" /\ LeaveEngine(t, "finalizeCall") /\ UNCHANGED stmts

Finalize(t) ==
    /\ pc[t] = "finalizeCall"
    /\ dbMutex = NoThread
    /\ stmts' = stmts \ {t}
    /\ Goto(t, "idle")
    /\ UNCHANGED <<connection, buckets, slot, dbMutex, leaked, tokens, fault, locals>>

(* columns(), after prepare, or data(at:), after a row, throws: the job ends *)
(* there, and its statement is dropped without being finalized.              *)
DecodeFails(t) ==
    /\ pc[t] = "stepCall"
    /\ dbMutex = NoThread
    /\ stmts' = stmts \ {t}
    /\ leaked' = TRUE
    /\ Goto(t, "idle")
    /\ UNCHANGED <<connection, buckets, slot, dbMutex, tokens, fault, locals>>

-----------------------------------------------------------------------------
(* A script: sqlite3_exec holds the connection mutex from end to end. *)

BeginScript(t) ==
    /\ t \in PoolThreads /\ pc[t] = "idle"
    /\ ~CloseInProgress
    /\ Goto(t, "script")
    /\ UNCHANGED <<shared, locals>>

ScriptOnClosed(t) ==
    /\ pc[t] = "script" /\ handle = "nil"
    /\ Goto(t, "idle")
    /\ UNCHANGED <<shared, locals>>

ScriptReadsHandle(t) ==
    /\ pc[t] = "script" /\ handle # "nil"
    /\ ReadHandle(t)
    /\ Goto(t, "execCall")
    /\ UNCHANGED <<shared, base, ret, tok, event, todo>>

ScriptEnters(t) == pc[t] = "execCall" /\ UseHandle(t) /\ EnterEngine(t, "scripting")

ScriptReturns(t) == pc[t] = "scripting" /\ LeaveEngine(t, "idle") /\ UNCHANGED stmts

-----------------------------------------------------------------------------
(* Dispatch: libsqlite3, holding its mutex, fires a hook that is set. *)

Fire(t, k) ==
    /\ pc[t] \in SqlCalls
    /\ k \in slot
    /\ pc[t] = "preparing" => k = "authorizer"
    /\ base' = [base EXCEPT ![t] = pc[t]]
    /\ event' = [event EXCEPT ![t] = k]
    /\ Goto(t, "hooked")
    /\ UNCHANGED <<shared, ret, tok, ptr, todo>>

(* Mutant of CopyCallbacks: the buckets stay locked while callbacks run. *)
CopyCallbacksLocked(t) ==
    /\ pc[t] = "hooked"
    /\ bucketLock = NoThread
    /\ bucketLock' = t
    /\ todo' = [todo EXCEPT ![t] = Listeners(event[t])]
    /\ event' = [event EXCEPT ![t] = "update"]
    /\ Goto(t, "dispatching")
    /\ UNCHANGED <<connection, registered, installed, engine, tokens, fault, base, ret, tok, ptr>>

(* Copy the callbacks while locked, then run them unlocked. *)
CopyCallbacks(t) ==
    /\ pc[t] = "hooked"
    /\ bucketLock = NoThread
    /\ todo' = [todo EXCEPT ![t] = Listeners(event[t])]
    /\ event' = [event EXCEPT ![t] = "update"]
    /\ Goto(t, "dispatching")
    /\ UNCHANGED <<shared, base, ret, tok, ptr>>

Invoke(t, x, step) ==
    /\ pc[t] = "dispatching"
    /\ todo' = [todo EXCEPT ![t] = todo[t] \ {x}]
    /\ late' = [late EXCEPT ![x] = IF status[x] = "cancelled" THEN late[x] + 1 ELSE late[x]]
    /\ Goto(t, step)
    /\ UNCHANGED <<connection, buckets, engine, status, fault, base, ret, tok, ptr, event>>

(* The validator, if any, goes first... *)
CallValidator(t, x) == x \in todo[t] \cap Validators /\ Invoke(t, x, "validating")

(* Mutant of CallObserver: the observers do not wait for the validator. *)
CallObserverEarly(t, x) == x \in todo[t] \ Validators /\ Invoke(t, x, "calling")

CallObserver(t, x) ==
    /\ x \in todo[t] \ Validators
    /\ todo[t] \cap Validators = {}
    /\ Invoke(t, x, "calling")

(* ...and .deny short-circuits: no observer is told. *)
ValidatorDenies(t) ==
    /\ pc[t] = "validating"
    /\ todo' = [todo EXCEPT ![t] = {}]
    /\ Goto(t, "dispatching")
    /\ UNCHANGED <<shared, base, ret, tok, ptr, event>>

CallbackReturns(t) ==
    /\ pc[t] \in InCallback
    /\ Goto(t, "dispatching")
    /\ UNCHANGED <<shared, locals>>

EndDispatch(t) ==
    /\ pc[t] = "dispatching" /\ todo[t] = {}
    /\ Goto(t, base[t])
    /\ base' = [base EXCEPT ![t] = "preparing"]
    /\ UNCHANGED <<shared, ret, tok, ptr, event, todo>>

-----------------------------------------------------------------------------
(* close(): a job of the pool.  Nothing may follow it, and with CloseAwaits  *)
(* the client has also waited for what it started before.                    *)

BeginClose(t) ==
    /\ t \in PoolThreads /\ pc[t] = "idle"
    /\ ~Closing
    /\ CloseAwaits => \A u \in PoolThreads : pc[u] = "idle"
    /\ ReadHandle(t)
    /\ Goto(t, "clear")
    /\ UNCHANGED <<shared, base, ret, tok, event, todo>>

(* clearAllHooks: the four C hooks from update to authorizer, one call each, *)
(* then the buckets.                                                         *)
NextToClear(k) ==
    CASE k = "update" -> "commit" [] k = "commit" -> "rollback"
      [] k = "rollback" -> "authorizer" [] k = "authorizer" -> "update"

ClearHook(t) ==
    /\ pc[t] = "clear"
    /\ ptr[t] = "db" /\ db = "open" /\ EngineFree(t)
    /\ slot' = slot \ {event[t]}
    /\ event' = [event EXCEPT ![t] = NextToClear(event[t])]
    /\ Goto(t, IF event[t] = "authorizer" THEN "reset" ELSE "clear")
    /\ UNCHANGED <<connection, buckets, dbMutex, stmts, leaked, tokens, fault,
                   base, ret, tok, ptr, todo>>

(* Mutants of ResetBuckets: the flags are left set; the validators are left in. *)
ResetCallbacks(t) ==
    /\ pc[t] = "reset" /\ bucketLock = NoThread
    /\ registered' = {}
    /\ Goto(t, "closeDb")
    /\ UNCHANGED <<connection, installed, bucketLock, engine, tokens, fault, locals>>
ResetObservers(t) ==
    /\ pc[t] = "reset" /\ bucketLock = NoThread
    /\ registered' = registered \cap Validators
    /\ installed' = {}
    /\ Goto(t, "closeDb")
    /\ UNCHANGED <<connection, bucketLock, engine, tokens, fault, locals>>

ResetBuckets(t) ==
    /\ pc[t] = "reset"
    /\ bucketLock = NoThread
    /\ registered' = {}
    /\ installed' = {}
    /\ Goto(t, "closeDb")
    /\ UNCHANGED <<connection, bucketLock, engine, tokens, fault, locals>>

(* Mutant of CloseDatabase: the database is freed whatever statements are left. *)
CloseDatabaseForced(t) ==
    /\ pc[t] = "closeDb"
    /\ UseHandle(t) /\ EngineFree(t)
    /\ db' = "freed" /\ slot' = {}
    /\ Goto(t, "nilHandle")
    /\ UNCHANGED <<handle, buckets, dbMutex, stmts, leaked, tokens, fault,
                   base, ret, tok, event, todo>>

(* sqlite3_close: SQLITE_BUSY while a statement is left, of a query that is  *)
(* running or of one that dropped it, and the result is not looked at.       *)
CloseDatabase(t) ==
    /\ pc[t] = "closeDb"
    /\ UseHandle(t) /\ EngineFree(t)
    /\ IF stmts = {} /\ ~leaked
       THEN db' = "freed" /\ slot' = {}
       ELSE UNCHANGED <<db, slot>>
    /\ Goto(t, "nilHandle")
    /\ UNCHANGED <<handle, buckets, dbMutex, stmts, leaked, tokens, fault,
                   base, ret, tok, event, todo>>

NilHandle(t) ==
    /\ pc[t] = "nilHandle"
    /\ handle' = "nil"
    /\ Goto(t, "idle")
    /\ UNCHANGED <<db, buckets, engine, tokens, fault, locals>>

-----------------------------------------------------------------------------
(* A call with a pointer to a freed database, or of a hook setter with nil   *)
(* (only prepare checks for it): undefined behaviour.                        *)
HookSetters == {"install", "uninstall", "clear"}
HandleCalls == HookSetters \cup {"prepareCall", "execCall", "closeDb"}

UndefinedCall(t) ==
    /\ \/ pc[t] \in HandleCalls /\ ptr[t] = "db" /\ db = "freed" /\ fault' = "freed"
       \/ pc[t] \in HookSetters /\ ptr[t] = "nil" /\ fault' = "null"
    /\ UNCHANGED <<connection, buckets, engine, tokens, pc, locals>>

Add(t) == (\E x \in Tokens : BeginAdd(t, x)) \/ AddToHook(t) \/ AddFirst(t) \/ Install(t)
Cancel(t) ==
    (\E x \in Tokens : BeginCancel(t, x)) \/ CancelOne(t) \/ CancelLast(t) \/ Uninstall(t)
Query(t) ==
    \/ BeginQuery(t) \/ QueryReadsHandle(t) \/ PrepareMisuse(t) \/ PrepareEnters(t)
    \/ PrepareFails(t) \/ PrepareReturns(t) \/ StepEnters(t)
    \/ StepReturnsRow(t) \/ StepReturnsLast(t) \/ Finalize(t) \/ DecodeFails(t)
Script(t) ==
    \/ BeginScript(t) \/ ScriptOnClosed(t) \/ ScriptReadsHandle(t)
    \/ ScriptEnters(t) \/ ScriptReturns(t)
Dispatch(t) ==
    \/ \E k \in Kinds : Fire(t, k)
    \/ CopyCallbacks(t)
    \/ \E x \in Tokens : CallValidator(t, x) \/ CallObserver(t, x)
    \/ ValidatorDenies(t) \/ CallbackReturns(t) \/ EndDispatch(t)
Close(t) ==
    BeginClose(t) \/ ClearHook(t) \/ ResetBuckets(t) \/ CloseDatabase(t) \/ NilHandle(t)

Step(t) ==
    Add(t) \/ Cancel(t) \/ Query(t) \/ Script(t) \/ Dispatch(t) \/ Close(t) \/ UndefinedCall(t)

(* After undefined behaviour there is nothing left to specify. *)
Next == fault = "none" /\ \E t \in Threads : Step(t)

Spec == Init /\ [][Next]_vars

(* Threads are scheduled; a call of libsqlite3 and a callback of the client  *)
(* end, however many hooks they fire and tokens they cancel.                 *)
Advance(t) ==
    \/ AddToHook(t) \/ AddFirst(t) \/ Install(t)
    \/ CancelOne(t) \/ CancelLast(t) \/ Uninstall(t)
    \/ QueryReadsHandle(t) \/ PrepareMisuse(t) \/ PrepareEnters(t) \/ StepEnters(t) \/ Finalize(t)
    \/ ScriptOnClosed(t) \/ ScriptReadsHandle(t) \/ ScriptEnters(t)
    \/ CopyCallbacks(t) \/ (\E x \in Tokens : CallValidator(t, x) \/ CallObserver(t, x))
    \/ EndDispatch(t)
    \/ ClearHook(t) \/ ResetBuckets(t) \/ CloseDatabase(t) \/ NilHandle(t)

Fairness ==
    \A t \in Threads :
        /\ WF_vars(fault = "none" /\ Advance(t))
        /\ SF_vars(fault = "none" /\ (PrepareFails(t) \/ PrepareReturns(t)))
        /\ SF_vars(fault = "none" /\ StepReturnsLast(t))
        /\ SF_vars(fault = "none" /\ ScriptReturns(t))
        /\ SF_vars(fault = "none" /\ CallbackReturns(t))

FairSpec == Spec /\ Fairness

-----------------------------------------------------------------------------
(* Who holds what. *)
HoldsBuckets(t) == pc[t] \in {"install", "uninstall"}
InEngine(t) ==
    \/ pc[t] \in SqlCalls \cup InDispatch
    \/ pc[t] \in InCancel /\ ret[t] # "idle"

(* The bucket lock is held exactly while a dispatcher is put in or taken out *)
(* (withBuckets around the whole of add... and remove...), the connection    *)
(* mutex exactly while a prepare, step or exec runs, its callbacks and their *)
(* nested cancels included.                                                  *)
LockDiscipline ==
    \A t \in Threads : /\ bucketLock = t <=> HoldsBuckets(t)
                       /\ dbMutex = t <=> InEngine(t)

(* No callback sits in the buckets unheard: while the connection is not      *)
(* being closed, every registered callback whose registration has returned   *)
(* has its C hook set, however adds and cancels of the same kind interleave  *)
(* (the installed flags of addHook... and removeHook... agree with           *)
(* libsqlite3).  That a callback is still registered is another matter: see  *)
(* ObserverStays, and ReplacedCancelIsNoOp for validators.                   *)
RegisteredIsHeard ==
    ~Closing => \A x \in registered : status[x] = "live" => KindOf[x] \in slot

(* An observer that nobody cancels stays registered, whatever happens to the *)
(* validator of its kind and to other observers.                             *)
Cancelling(x) == \E t \in Threads : pc[t] \in InCancel /\ tok[t] = x
ObserverStays ==
    ~Closing => \A x \in Tokens \ Validators :
        status[x] = "live" /\ ~Cancelling(x) => x \in registered

(* The C hooks for updates, commits and rollbacks are taken out with the     *)
(* last callback of their kind: none is set, while the buckets are unlocked, *)
(* that nobody listens to.                                                   *)
TornDown(k) ==
    ~Closing /\ bucketLock = NoThread /\ k \in slot => Listeners(k) # {}
UnusedIsTornDown == \A k \in Kinds \ {"authorizer"} : TornDown(k)

(* A callback that was cancelled is entered at most once more, by the one    *)
(* dispatch that had copied it before cancel() took the lock.                *)
AtMostOneLateCall == \A x \in Tokens : late[x] <= 1

(* For a client that awaited its jobs before close(), no call uses a freed   *)
(* or null database, although tokens are cancelled at any time.              *)
NoUndefinedBehaviour == CloseAwaits => fault = "none"

(* A connection that such a client has closed is silent: no hook is set, no  *)
(* callback is registered or running, and the database is freed, unless a    *)
(* query leaked a statement: then it stays open with nobody to close it.     *)
ClosedIsSilent ==
    CloseAwaits /\ handle = "nil" =>
        /\ db = IF leaked THEN "open" ELSE "freed"
        /\ slot = {} /\ registered = {} /\ installed = {}
        /\ \A t \in Threads : ~InEngine(t) /\ ~HoldsBuckets(t)

(* A statement keeps the database open: sqlite3_close frees nothing that a   *)
(* query still steps through, so stepping and finalizing never dangle; nor   *)
(* what a leaked statement belongs to.                                       *)
StatementKeepsOpen ==
    /\ stmts # {} \/ leaked => db = "open"
    /\ \A t \in Threads : pc[t] \in {"stepCall", "stepping", "finalizeCall"}
                           => t \in stmts

(* The only way to stop for good is the inversion of the two locks: if every *)
(* thread with something to do waits for a lock, then one holds the buckets  *)
(* and waits for the engine, and the other way round.                        *)
WaitsForBuckets(t) ==
    pc[t] \in {"addLock", "cancelLock", "hooked", "reset"} /\ bucketLock # NoThread
WaitsForEngine(t) ==
    /\ pc[t] \in HandleCalls \cup {"stepCall", "finalizeCall"}
    /\ dbMutex \notin {NoThread, t}
Inverted ==
    \E t, u \in Threads : /\ bucketLock = t /\ WaitsForEngine(t)
                          /\ dbMutex = u /\ WaitsForBuckets(u)
StallsOnlyByInversion ==
    LET busy == {t \in Threads : pc[t] # "idle"}
    IN  busy # {} /\ (\A t \in busy : WaitsForBuckets(t) \/ WaitsForEngine(t)) => Inverted

(* With one thread (WASI, or a pool of one whose client cancels only from    *)
(* callbacks) every operation returns, close() included: no lock is taken    *)
(* twice and none is left behind.                                            *)
EveryCallReturns == \A t \in Threads : pc[t] # "idle" ~> pc[t] = "idle"

-----------------------------------------------------------------------------
(* The abstract specification: a callback is heard from the moment it is in  *)
(* the buckets with its C hook set, and the current event is the one that    *)
(* the owner of the connection mutex is dispatching.                         *)
heard == {x \in registered : KindOf[x] \in slot}
pending == IF dbMutex = NoThread THEN {} ELSE todo[dbMutex]
asking == dbMutex # NoThread /\ "validating" \in {pc[dbMutex], ret[dbMutex]}

Delivery == INSTANCE HookDelivery
    WITH heard <- heard, pending <- pending, asking <- asking

(* The buckets, the two locks, the flags and the C slots together implement  *)
(* HookDelivery: the copy made by a dispatcher is the set of callbacks heard *)
(* at one instant, whatever is added, cancelled or closed meanwhile, and is  *)
(* delivered validator first, event by event.                                *)
ImplementsHookDelivery == Delivery!Spec

-----------------------------------------------------------------------------
(* What the documentation says and the code does not do.  A dispatcher that  *)
(* calls a copy may be late, one that calls with the buckets locked may      *)
(* deadlock: two sentences, of which the design could keep one.              *)

(* "Copy callbacks while locked, then invoke unlocked (avoid deadlock)": no   *)
(* two threads ever wait for each other's lock.  But add... and remove...    *)
(* call libsqlite3 while they hold the buckets, and the dispatcher locks the *)
(* buckets while libsqlite3 holds the connection mutex.                      *)
NoInversion == ~Inverted

(* "After calling this method, the callback will no longer be invoked": once *)
(* cancel() has returned, no call of the callback begins.  But a dispatch    *)
(* that had copied it before cancel() took the lock still calls it.          *)
NoLateCall == \A x \in Tokens : late[x] = 0

(* No behaviour breaks both sentences.  But one calls a cancelled callback,  *)
(* and then deadlocks when the next token is cancelled: each is false.       *)
CopyHasItsUse == NoLateCall \/ NoInversion

(* "Called after removing an observer to tear down the C-hook if nobody is   *)
(* listening any longer": no hook of any kind stays set with nobody to hear  *)
(* it.  But cancelling the authorizer validator passes .commit, and the      *)
(* authorizer hook stays.                                                    *)
AllTornDown == \A k \in Kinds : TornDown(k)

(* "Clean up first token (should be no-op since it was replaced)": to cancel *)
(* a token whose callback is not in the buckets takes nothing out of them.   *)
(* But a validator is removed by its kind alone, and the one that replaced   *)
(* it is the one removed.  Not even does that one's hook go then: a step     *)
(* that violates this refutes both sentences.                                *)
ReplacedCancelIsNoOp ==
    [][\A t \in Threads :
          pc[t] = "cancelLock" /\ pc'[t] # "cancelLock" /\ tok[t] \notin registered
              => registered' = registered \/ AllTornDown']_vars
=============================================================================
