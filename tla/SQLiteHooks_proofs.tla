-------------------------- MODULE SQLiteHooks_proofs --------------------------
(***************************************************************************)
(* The proofs about SQLiteHooks, for any threads and tokens.  Each of the  *)
(* invariants of SQLiteHooksInv is shown inductive, in an order in which   *)
(* each uses the ones before it; the properties of SQLiteHooks and the     *)
(* refinement of HookDelivery follow from them.                            *)
(***************************************************************************)
EXTENDS SQLiteHooksInv, TLAPS

(* Every reachable state is well typed, and a thread that adds or cancels  *)
(* works on a token: the type invariant the rest starts from.              *)
THEOREM TypeCorrect == Spec => []TypeInv
<1> USE TokensAssumption, ThreadsAssumption DEF TypeInv, TypeOK, Threads, Steps,
     Kinds, Adding
<1>1. Init => TypeInv
  <2>1. Init => leaked \in BOOLEAN
    BY DEF Init
  <2>2. Init => (TypeInv <=> leaked \in BOOLEAN)
    BY DEF Init, JobSteps, SqlCalls, InCancel
  <2> QED BY <2>1, <2>2
<1>2. TypeInv /\ [Next]_vars => TypeInv'
  <2> SUFFICES ASSUME TypeInv, NEW t \in Threads, Step(t) PROVE TypeInv'
    BY DEF Next, vars, shared, connection, buckets, engine, locals, tokens
  <2> USE DEF Goto, connection, buckets, engine, locals, tokens, shared,
       JobSteps, SqlCalls, InDispatch, InCancel, CloseSteps, InCallback
  <2>1. CASE Add(t)
    <3>1. ASSUME NEW x \in Tokens, BeginAdd(t, x) PROVE TypeInv'
      BY <3>1 DEF BeginAdd
    <3>2. CASE AddToHook(t)
      BY <3>2 DEF AddToHook, AddReturns
    <3>3. CASE AddFirst(t)
      BY <3>3 DEF AddFirst, ReadHandle
    <3>4. CASE Install(t)
      BY <3>4 DEF Install, AddReturns, UseHandle
    <3> QED BY <2>1, <3>1, <3>2, <3>3, <3>4 DEF Add
  <2>2. CASE Cancel(t)
    <3>1. ASSUME NEW x \in Tokens, BeginCancel(t, x) PROVE TypeInv'
      BY <3>1 DEF BeginCancel
    <3>2. CASE CancelOne(t)
      BY <3>2 DEF CancelOne, CancelReturns
    <3>3. CASE CancelLast(t)
      BY <3>3 DEF CancelLast, ReadHandle
    <3>4. CASE Uninstall(t)
      BY <3>4 DEF Uninstall, CancelReturns, UseHandle
    <3> QED BY <2>2, <3>1, <3>2, <3>3, <3>4 DEF Cancel
  <2>3. CASE Query(t)
    <3>1. CASE BeginQuery(t)
      BY <3>1 DEF BeginQuery
    <3>2. CASE QueryReadsHandle(t)
      BY <3>2 DEF QueryReadsHandle, ReadHandle
    <3>3. CASE PrepareMisuse(t)
      BY <3>3 DEF PrepareMisuse
    <3>4. CASE PrepareEnters(t)
      BY <3>4 DEF PrepareEnters, EnterEngine, UseHandle
    <3>5. CASE PrepareFails(t)
      BY <3>5 DEF PrepareFails, LeaveEngine
    <3>6. CASE PrepareReturns(t)
      <4>1. CASE LeaveEngine(t, "stepCall")
        BY <3>6, <4>1 DEF PrepareReturns, LeaveEngine
      <4>2. CASE LeaveEngine(t, "finalizeCall")
        BY <3>6, <4>2 DEF PrepareReturns, LeaveEngine
      <4> QED BY <3>6, <4>1, <4>2 DEF PrepareReturns
    <3>7. CASE StepEnters(t)
      BY <3>7 DEF StepEnters, EnterEngine
    <3>8. CASE StepReturnsRow(t)
      BY <3>8 DEF StepReturnsRow, LeaveEngine
    <3>9. CASE StepReturnsLast(t)
      BY <3>9 DEF StepReturnsLast, LeaveEngine
    <3>10. CASE Finalize(t)
      BY <3>10 DEF Finalize
    <3>11. CASE DecodeFails(t)
      BY <3>11 DEF DecodeFails
    <3> QED BY <2>3, <3>1, <3>2, <3>3, <3>4, <3>5, <3>6, <3>7, <3>8, <3>9,
         <3>10, <3>11 DEF Query
  <2>4. CASE Script(t)
    <3>1. CASE BeginScript(t)
      BY <3>1 DEF BeginScript
    <3>2. CASE ScriptOnClosed(t)
      BY <3>2 DEF ScriptOnClosed
    <3>3. CASE ScriptReadsHandle(t)
      BY <3>3 DEF ScriptReadsHandle, ReadHandle
    <3>4. CASE ScriptEnters(t)
      BY <3>4 DEF ScriptEnters, EnterEngine, UseHandle
    <3>5. CASE ScriptReturns(t)
      BY <3>5 DEF ScriptReturns, LeaveEngine
    <3> QED BY <2>4, <3>1, <3>2, <3>3, <3>4, <3>5 DEF Script
  <2>5. CASE Dispatch(t)
    <3>1. ASSUME NEW k \in Kinds, Fire(t, k) PROVE TypeInv'
      BY <3>1 DEF Fire
    <3>2. CASE CopyCallbacks(t)
      BY <3>2 DEF CopyCallbacks, Listeners, Listening
    <3>3. ASSUME NEW x \in Tokens, CallValidator(t, x) PROVE TypeInv'
      BY <3>3 DEF CallValidator, Invoke
    <3>4. ASSUME NEW x \in Tokens, CallObserver(t, x) PROVE TypeInv'
      BY <3>4 DEF CallObserver, Invoke
    <3>5. CASE ValidatorDenies(t)
      BY <3>5 DEF ValidatorDenies
    <3>6. CASE CallbackReturns(t)
      BY <3>6 DEF CallbackReturns
    <3>7. CASE EndDispatch(t)
      BY <3>7 DEF EndDispatch
    <3> QED BY <2>5, <3>1, <3>2, <3>3, <3>4, <3>5, <3>6, <3>7 DEF Dispatch
  <2>6. CASE Close(t)
    <3>1. CASE BeginClose(t)
      BY <3>1 DEF BeginClose, ReadHandle
    <3>2. CASE ClearHook(t)
      BY <3>2 DEF ClearHook, NextToClear
    <3>3. CASE ResetBuckets(t)
      BY <3>3 DEF ResetBuckets
    <3>4. CASE CloseDatabase(t)
      BY <3>4 DEF CloseDatabase, UseHandle
    <3>5. CASE NilHandle(t)
      BY <3>5 DEF NilHandle
    <3> QED BY <2>6, <3>1, <3>2, <3>3, <3>4, <3>5 DEF Close
  <2>7. CASE UndefinedCall(t)
    BY <2>7 DEF UndefinedCall
  <2> QED BY <2>1, <2>2, <2>3, <2>4, <2>5, <2>6, <2>7 DEF Step
<1> QED BY <1>1, <1>2, PTL DEF Spec

(* The type invariant of SQLiteHooks, for any number of threads and        *)
(* tokens.                                                                 *)
THEOREM WellTyped == Spec => []TypeOK
<1>1. TypeInv => TypeOK
  BY DEF TypeInv
<1> QED BY <1>1, TypeCorrect, PTL

(* The bucket lock is held exactly while a dispatcher is put in or taken   *)
(* out (withBuckets in addHook... and removeHook...), the connection       *)
(* mutex exactly while libsqlite3 runs; the locals of an operation are at  *)
(* rest outside of it.                                                     *)
THEOREM Locking == Spec => []LockInv
<1>1. Init => LockInv
  BY ThreadsAssumption DEF Init, LockInv, LocalsInv, LockDiscipline,
       HoldsBuckets, InEngine, SqlCalls, InDispatch, InCancel, InCallback
<1>2. LockInv /\ TypeInv /\ [Next]_vars => LockInv'
  <2> SUFFICES ASSUME LockInv, TypeInv, NEW t \in Threads, Step(t) PROVE LockInv'
    BY DEF Next, vars, shared, connection, buckets, engine, locals, tokens,
         LockInv, LocalsInv, LockDiscipline, HoldsBuckets, InEngine, SqlCalls,
         InDispatch, InCancel, InCallback
  <2> USE ThreadsAssumption DEF LockInv, LocalsInv, LockDiscipline, HoldsBuckets,
       InEngine, SqlCalls, InDispatch, InCancel, InCallback, Goto, connection,
       buckets, engine, locals, tokens, shared
  <2>a. /\ pc \in [Threads -> Steps]
        /\ ret \in [Threads -> InCallback \cup {"idle"}]
        /\ todo \in [Threads -> SUBSET Tokens]
        /\ base \in [Threads -> SqlCalls]
    BY DEF TypeInv, TypeOK
  <2>1. CASE Add(t)
    <3>1. ASSUME NEW x \in Tokens, BeginAdd(t, x) PROVE LockInv'
      BY <2>a, <3>1 DEF BeginAdd
    <3>2. CASE AddToHook(t)
      BY <2>a, <3>2 DEF AddToHook, AddReturns
    <3>3. CASE AddFirst(t)
      BY <2>a, <3>3 DEF AddFirst, ReadHandle
    <3>4. CASE Install(t)
      BY <2>a, <3>4 DEF Install, AddReturns, UseHandle
    <3> QED BY <2>1, <3>1, <3>2, <3>3, <3>4 DEF Add
  <2>2. CASE Cancel(t)
    <3>1. ASSUME NEW x \in Tokens, BeginCancel(t, x) PROVE LockInv'
      BY <2>a, <3>1 DEF BeginCancel
    <3>2. CASE CancelOne(t)
      BY <2>a, <3>2 DEF CancelOne, CancelReturns
    <3>3. CASE CancelLast(t)
      BY <2>a, <3>3 DEF CancelLast, ReadHandle
    <3>4. CASE Uninstall(t)
      BY <2>a, <3>4 DEF Uninstall, CancelReturns, UseHandle
    <3> QED BY <2>2, <3>1, <3>2, <3>3, <3>4 DEF Cancel
  <2>3. CASE Query(t)
    <3>1. CASE BeginQuery(t)
      BY <2>a, <3>1 DEF BeginQuery
    <3>2. CASE QueryReadsHandle(t)
      BY <2>a, <3>2 DEF QueryReadsHandle, ReadHandle
    <3>3. CASE PrepareMisuse(t)
      BY <2>a, <3>3 DEF PrepareMisuse
    <3>4. CASE PrepareEnters(t)
      BY <2>a, <3>4 DEF PrepareEnters, EnterEngine, UseHandle
    <3>5. CASE PrepareFails(t)
      BY <2>a, <3>5 DEF PrepareFails, LeaveEngine
    <3>6. CASE PrepareReturns(t)
      BY <2>a, <3>6 DEF PrepareReturns, LeaveEngine
    <3>7. CASE StepEnters(t)
      BY <2>a, <3>7 DEF StepEnters, EnterEngine
    <3>8. CASE StepReturnsRow(t)
      BY <2>a, <3>8 DEF StepReturnsRow, LeaveEngine
    <3>9. CASE StepReturnsLast(t)
      BY <2>a, <3>9 DEF StepReturnsLast, LeaveEngine
    <3>10. CASE Finalize(t)
      BY <2>a, <3>10 DEF Finalize
    <3>11. CASE DecodeFails(t)
      BY <2>a, <3>11 DEF DecodeFails
    <3> QED BY <2>3, <3>1, <3>2, <3>3, <3>4, <3>5, <3>6, <3>7, <3>8, <3>9,
         <3>10, <3>11 DEF Query
  <2>4. CASE Script(t)
    <3>1. CASE BeginScript(t)
      BY <2>a, <3>1 DEF BeginScript
    <3>2. CASE ScriptOnClosed(t)
      BY <2>a, <3>2 DEF ScriptOnClosed
    <3>3. CASE ScriptReadsHandle(t)
      BY <2>a, <3>3 DEF ScriptReadsHandle, ReadHandle
    <3>4. CASE ScriptEnters(t)
      BY <2>a, <3>4 DEF ScriptEnters, EnterEngine, UseHandle
    <3>5. CASE ScriptReturns(t)
      BY <2>a, <3>5 DEF ScriptReturns, LeaveEngine
    <3> QED BY <2>4, <3>1, <3>2, <3>3, <3>4, <3>5 DEF Script
  <2>5. CASE Dispatch(t)
    <3>1. ASSUME NEW k \in Kinds, Fire(t, k) PROVE LockInv'
      BY <2>a, <3>1 DEF Fire
    <3>2. CASE CopyCallbacks(t)
      BY <2>a, <3>2 DEF CopyCallbacks, Listeners, Listening
    <3>3. ASSUME NEW x \in Tokens, CallValidator(t, x) PROVE LockInv'
      BY <2>a, <3>3 DEF CallValidator, Invoke
    <3>4. ASSUME NEW x \in Tokens, CallObserver(t, x) PROVE LockInv'
      BY <2>a, <3>4 DEF CallObserver, Invoke
    <3>5. CASE ValidatorDenies(t)
      BY <2>a, <3>5 DEF ValidatorDenies
    <3>6. CASE CallbackReturns(t)
      BY <2>a, <3>6 DEF CallbackReturns
    <3>7. CASE EndDispatch(t)
      BY <2>a, <3>7 DEF EndDispatch
    <3> QED BY <2>5, <3>1, <3>2, <3>3, <3>4, <3>5, <3>6, <3>7 DEF Dispatch
  <2>6. CASE Close(t)
    <3>1. CASE BeginClose(t)
      BY <2>a, <3>1 DEF BeginClose, ReadHandle
    <3>2. CASE ClearHook(t)
      BY <2>a, <3>2 DEF ClearHook
    <3>3. CASE ResetBuckets(t)
      BY <2>a, <3>3 DEF ResetBuckets
    <3>4. CASE CloseDatabase(t)
      BY <2>a, <3>4 DEF CloseDatabase, UseHandle, EngineFree
    <3>5. CASE NilHandle(t)
      BY <2>a, <3>5 DEF NilHandle
    <3> QED BY <2>6, <3>1, <3>2, <3>3, <3>4, <3>5 DEF Close
  <2>7. CASE UndefinedCall(t)
    BY <2>a, <2>7 DEF UndefinedCall
  <2> QED BY <2>1, <2>2, <2>3, <2>4, <2>5, <2>6, <2>7 DEF Step
<1> QED BY <1>1, <1>2, TypeCorrect, PTL DEF Spec

(* The lock discipline alone: who holds which lock is told by what each    *)
(* thread is doing, so neither lock is taken twice or left behind.         *)
THEOREM LocksAreDisciplined == Spec => []LockDiscipline
<1>1. LockInv => LockDiscipline
  BY DEF LockInv
<1> QED BY <1>1, Locking, PTL

(* A token is being added by one thread only, and only a token that was    *)
(* handed out is cancelled (the add... functions return it).               *)
THEOREM TokensInOrder == Spec => []TokenInv
<1>1. Init => TokenInv
  BY ThreadsAssumption DEF Init, TokenInv, Adding, InCancel, InCallback
<1>2. TokenInv /\ TypeInv /\ LockInv /\ [Next]_vars => TokenInv'
  <2> SUFFICES ASSUME TokenInv, TypeInv, LockInv, NEW t \in Threads,
       Step(t) PROVE TokenInv'
    BY DEF Next, vars, shared, connection, buckets, engine, locals, tokens,
         TokenInv, Adding, InCancel, InCallback
  <2> USE ThreadsAssumption DEF TokenInv, Adding, InCancel, InCallback, Goto,
       connection, buckets, engine, locals, tokens, shared
  <2>a. /\ base \in [Threads -> SqlCalls]
        /\ pc \in [Threads -> Steps]
        /\ ret \in [Threads -> InCallback \cup {"idle"}]
        /\ tok \in [Threads -> Tokens \cup {NoToken}]
        /\ status \in [Tokens -> {"unused", "adding", "live", "cancelled"}]
        /\ registered \subseteq Tokens
        /\ installed \subseteq Kinds
        /\ slot \subseteq Kinds
        /\ bucketLock \in Threads \cup {NoThread}
        /\ \A u \in Threads : Adding(u) \/ pc[u] \in InCancel => tok[u] \in Tokens
        /\ \A u \in Threads : ret[u] # "idle" => pc[u] \in InCancel
    BY DEF TypeInv, TypeOK, LockInv, LocalsInv
  <2>1. CASE Add(t)
    <3>1. ASSUME NEW x \in Tokens, BeginAdd(t, x) PROVE TokenInv'
      BY <2>a, <3>1 DEF BeginAdd
    <3>2. CASE AddToHook(t)
      BY <2>a, <3>2 DEF AddToHook, AddReturns
    <3>3. CASE AddFirst(t)
      BY <2>a, <3>3 DEF AddFirst, ReadHandle
    <3>4. CASE Install(t)
      BY <2>a, <3>4 DEF Install, AddReturns, UseHandle
    <3> QED BY <2>1, <3>1, <3>2, <3>3, <3>4 DEF Add
  <2>2. CASE Cancel(t)
    <3>1. ASSUME NEW x \in Tokens, BeginCancel(t, x) PROVE TokenInv'
      BY <2>a, <3>1 DEF BeginCancel
    <3>2. CASE CancelOne(t)
      BY <2>a, <3>2 DEF CancelOne, CancelReturns
    <3>3. CASE CancelLast(t)
      BY <2>a, <3>3 DEF CancelLast, ReadHandle
    <3>4. CASE Uninstall(t)
      BY <2>a, <3>4 DEF Uninstall, CancelReturns, UseHandle
    <3> QED BY <2>2, <3>1, <3>2, <3>3, <3>4 DEF Cancel
  <2>3. CASE Query(t)
    <3>1. CASE BeginQuery(t)
      BY <2>a, <3>1 DEF BeginQuery
    <3>2. CASE QueryReadsHandle(t)
      BY <2>a, <3>2 DEF QueryReadsHandle, ReadHandle
    <3>3. CASE PrepareMisuse(t)
      BY <2>a, <3>3 DEF PrepareMisuse
    <3>4. CASE PrepareEnters(t)
      BY <2>a, <3>4 DEF PrepareEnters, EnterEngine, UseHandle
    <3>5. CASE PrepareFails(t)
      BY <2>a, <3>5 DEF PrepareFails, LeaveEngine
    <3>6. CASE PrepareReturns(t)
      BY <2>a, <3>6 DEF PrepareReturns, LeaveEngine
    <3>7. CASE StepEnters(t)
      BY <2>a, <3>7 DEF StepEnters, EnterEngine
    <3>8. CASE StepReturnsRow(t)
      BY <2>a, <3>8 DEF StepReturnsRow, LeaveEngine
    <3>9. CASE StepReturnsLast(t)
      BY <2>a, <3>9 DEF StepReturnsLast, LeaveEngine
    <3>10. CASE Finalize(t)
      BY <2>a, <3>10 DEF Finalize
    <3>11. CASE DecodeFails(t)
      BY <2>a, <3>11 DEF DecodeFails
    <3> QED BY <2>3, <3>1, <3>2, <3>3, <3>4, <3>5, <3>6, <3>7, <3>8, <3>9,
         <3>10, <3>11 DEF Query
  <2>4. CASE Script(t)
    <3>1. CASE BeginScript(t)
      BY <2>a, <3>1 DEF BeginScript
    <3>2. CASE ScriptOnClosed(t)
      BY <2>a, <3>2 DEF ScriptOnClosed
    <3>3. CASE ScriptReadsHandle(t)
      BY <2>a, <3>3 DEF ScriptReadsHandle, ReadHandle
    <3>4. CASE ScriptEnters(t)
      BY <2>a, <3>4 DEF ScriptEnters, EnterEngine, UseHandle
    <3>5. CASE ScriptReturns(t)
      BY <2>a, <3>5 DEF ScriptReturns, LeaveEngine
    <3> QED BY <2>4, <3>1, <3>2, <3>3, <3>4, <3>5 DEF Script
  <2>5. CASE Dispatch(t)
    <3>1. ASSUME NEW k \in Kinds, Fire(t, k) PROVE TokenInv'
      BY <2>a, <3>1 DEF Fire, SqlCalls
    <3>2. CASE CopyCallbacks(t)
      BY <2>a, <3>2 DEF CopyCallbacks, Listeners, Listening
    <3>3. ASSUME NEW x \in Tokens, CallValidator(t, x) PROVE TokenInv'
      BY <2>a, <3>3 DEF CallValidator, Invoke
    <3>4. ASSUME NEW x \in Tokens, CallObserver(t, x) PROVE TokenInv'
      BY <2>a, <3>4 DEF CallObserver, Invoke
    <3>5. CASE ValidatorDenies(t)
      BY <2>a, <3>5 DEF ValidatorDenies
    <3>6. CASE CallbackReturns(t)
      BY <2>a, <3>6 DEF CallbackReturns
    <3>7. CASE EndDispatch(t)
      BY <2>a, <3>7 DEF EndDispatch, SqlCalls
    <3> QED BY <2>5, <3>1, <3>2, <3>3, <3>4, <3>5, <3>6, <3>7 DEF Dispatch
  <2>6. CASE Close(t)
    <3>1. CASE BeginClose(t)
      BY <2>a, <3>1 DEF BeginClose, ReadHandle
    <3>2. CASE ClearHook(t)
      BY <2>a, <3>2 DEF ClearHook, CloseSteps
    <3>3. CASE ResetBuckets(t)
      BY <2>a, <3>3 DEF ResetBuckets
    <3>4. CASE CloseDatabase(t)
      BY <2>a, <3>4 DEF CloseDatabase, UseHandle
    <3>5. CASE NilHandle(t)
      BY <2>a, <3>5 DEF NilHandle
    <3> QED BY <2>6, <3>1, <3>2, <3>3, <3>4, <3>5 DEF Close
  <2>7. CASE UndefinedCall(t)
    BY <2>a, <2>7 DEF UndefinedCall
  <2> QED BY <2>1, <2>2, <2>3, <2>4, <2>5, <2>6, <2>7 DEF Step
<1> QED BY <1>1, <1>2, TypeCorrect, Locking, PTL DEF Spec

(* Under the bucket lock, the buckets and the installed flags agree: a     *)
(* flag is set for every kind that somebody listens to, and (but for the   *)
(* authorizer, whose validator passes the wrong kind) for no other.        *)
THEOREM BucketsInOrder == Spec => []BucketInv
<1>1. Init => BucketInv
  BY ThreadsAssumption DEF Init, BucketInv, InCancel, InCallback, Adding
<1>2. BucketInv /\ TypeInv /\ LockInv /\ TokenInv /\ [Next]_vars => BucketInv'
  <2> SUFFICES ASSUME BucketInv, TypeInv, LockInv, TokenInv, NEW t \in Threads,
       Step(t) PROVE BucketInv'
    BY DEF Next, vars, shared, connection, buckets, engine, locals, tokens,
         BucketInv, InCancel, InCallback, Adding
  <2> USE ThreadsAssumption DEF BucketInv, InCancel, InCallback, Adding, Goto,
       connection, buckets, engine, locals, tokens, shared
  <2>a. /\ base \in [Threads -> SqlCalls]
        /\ pc \in [Threads -> Steps]
        /\ ret \in [Threads -> InCallback \cup {"idle"}]
        /\ tok \in [Threads -> Tokens \cup {NoToken}]
        /\ status \in [Tokens -> {"unused", "adding", "live", "cancelled"}]
        /\ registered \subseteq Tokens
        /\ installed \subseteq Kinds
        /\ slot \subseteq Kinds
        /\ bucketLock \in Threads \cup {NoThread}
        /\ \A u \in Threads : Adding(u) \/ pc[u] \in InCancel => tok[u] \in Tokens
        /\ \A u \in Threads : ret[u] # "idle" => pc[u] \in InCancel
        /\ \A u \in Threads : bucketLock = u <=> pc[u] \in {"install", "uninstall"}
        /\ \A u \in Threads : Adding(u) => /\ status[tok[u]] = "adding"
                                           /\ \A v \in Threads : Adding(v) /\ tok[v] = tok[u] => v = u
        /\ \A u \in Threads : pc[u] \in InCancel => status[tok[u]] \in {"live", "cancelled"}
    BY DEF TypeInv, TypeOK, LockInv, LocalsInv, LockDiscipline, HoldsBuckets,
         TokenInv
  <2>b. ASSUME bucketLock = NoThread
        PROVE  \A u \in Threads : pc[u] # "install" /\ pc[u] # "uninstall"
    BY <2>b, ThreadsAssumption DEF LockInv, LockDiscipline, HoldsBuckets
  <2>1. CASE Add(t)
    <3>1. ASSUME NEW x \in Tokens, BeginAdd(t, x) PROVE BucketInv'
      BY <2>a, <3>1 DEF BeginAdd
    <3>2. CASE AddToHook(t)
      <4>1. \A u \in Threads : pc[u] # "install" /\ pc[u] # "uninstall"
        BY <3>2, <2>b DEF AddToHook
      <4>2. \A x \in registered' :
                  status'[x] = "live" \/ \E u \in Threads : pc'[u] = "install" /\ tok'[u] = x
        BY <2>a, <3>2, <4>1 DEF AddToHook, AddReturns, Replaced, Removed
      <4>3. \A x \in registered' : KindOf[x] \in installed'
        BY <2>a, <3>2, <4>1 DEF AddToHook, AddReturns, Replaced, Removed
      <4>4. \A k \in installed' \ {"authorizer"} : \E x \in registered' : KindOf[x] = k
        BY <2>a, <3>2, <4>1 DEF AddToHook, AddReturns, Replaced, Removed
      <4>5. \A u \in Threads : pc'[u] = "install" =>
                  /\ tok'[u] \in registered'
                  /\ \A x \in registered' : KindOf[x] = KindOf[tok'[u]] => x = tok'[u]
        BY <2>a, <3>2, <4>1 DEF AddToHook, AddReturns, Replaced, Removed
      <4>6. \A u \in Threads : pc'[u] = "uninstall" =>
                  tok'[u] \notin registered' /\ CancelKind(tok'[u]) \notin installed'
        BY <2>a, <3>2, <4>1 DEF AddToHook, AddReturns, Replaced, Removed
      <4> QED BY <4>2, <4>3, <4>4, <4>5, <4>6
    <3>3. CASE AddFirst(t)
      <4>1. \A u \in Threads : pc[u] # "install" /\ pc[u] # "uninstall"
        BY <3>3, <2>b DEF AddFirst
      <4>2. \A x \in registered' :
                  status'[x] = "live" \/ \E u \in Threads : pc'[u] = "install" /\ tok'[u] = x
        BY <2>a, <3>3, <4>1 DEF AddFirst, ReadHandle, Replaced, Removed
      <4>3. \A x \in registered' : KindOf[x] \in installed'
        BY <2>a, <3>3, <4>1 DEF AddFirst, ReadHandle, Replaced, Removed
      <4>4. \A k \in installed' \ {"authorizer"} : \E x \in registered' : KindOf[x] = k
        BY <2>a, <3>3, <4>1 DEF AddFirst, ReadHandle, Replaced, Removed
      <4>5. \A u \in Threads : pc'[u] = "install" =>
                  /\ tok'[u] \in registered'
                  /\ \A x \in registered' : KindOf[x] = KindOf[tok'[u]] => x = tok'[u]
        BY <2>a, <3>3, <4>1 DEF AddFirst, ReadHandle, Replaced, Removed
      <4>6. \A u \in Threads : pc'[u] = "uninstall" =>
                  tok'[u] \notin registered' /\ CancelKind(tok'[u]) \notin installed'
        BY <2>a, <3>3, <4>1 DEF AddFirst, ReadHandle, Replaced, Removed
      <4> QED BY <4>2, <4>3, <4>4, <4>5, <4>6
    <3>4. CASE Install(t)
      BY <2>a, <3>4 DEF Install, AddReturns, UseHandle
    <3> QED BY <2>1, <3>1, <3>2, <3>3, <3>4 DEF Add
  <2>2. CASE Cancel(t)
    <3>1. ASSUME NEW x \in Tokens, BeginCancel(t, x) PROVE BucketInv'
      BY <2>a, <3>1 DEF BeginCancel
    <3>2. CASE CancelOne(t)
      <4>1. \A u \in Threads : pc[u] # "install" /\ pc[u] # "uninstall"
        BY <3>2, <2>b DEF CancelOne
      <4>2. \A x \in registered' :
                  status'[x] = "live" \/ \E u \in Threads : pc'[u] = "install" /\ tok'[u] = x
        BY <2>a, <3>2, <4>1 DEF CancelOne, CancelReturns, Removed, CancelKind,
             Listening
      <4>3. \A x \in registered' : KindOf[x] \in installed'
        BY <2>a, <3>2, <4>1 DEF CancelOne, CancelReturns, Removed, CancelKind,
             Listening
      <4>4. \A k \in installed' \ {"authorizer"} : \E x \in registered' : KindOf[x] = k
        BY <2>a, <3>2, <4>1, TokensAssumption DEF CancelOne, CancelReturns,
             Removed, CancelKind, Listening, ValidatorKinds
      <4>5. \A u \in Threads : pc'[u] = "install" =>
                  /\ tok'[u] \in registered'
                  /\ \A x \in registered' : KindOf[x] = KindOf[tok'[u]] => x = tok'[u]
        BY <2>a, <3>2, <4>1 DEF CancelOne, CancelReturns, Removed, CancelKind,
             Listening
      <4>6. \A u \in Threads : pc'[u] = "uninstall" =>
                  tok'[u] \notin registered' /\ CancelKind(tok'[u]) \notin installed'
        BY <2>a, <3>2, <4>1 DEF CancelOne, CancelReturns, Removed, CancelKind,
             Listening
      <4> QED BY <4>2, <4>3, <4>4, <4>5, <4>6
    <3>3. CASE CancelLast(t)
      <4>1. \A u \in Threads : pc[u] # "install" /\ pc[u] # "uninstall"
        BY <3>3, <2>b DEF CancelLast
      <4>2. \A x \in registered' :
                  status'[x] = "live" \/ \E u \in Threads : pc'[u] = "install" /\ tok'[u] = x
        BY <2>a, <3>3, <4>1 DEF CancelLast, ReadHandle, Removed, CancelKind,
             Listening
      <4>3. \A x \in registered' : KindOf[x] \in installed'
        BY <2>a, <3>3, <4>1 DEF CancelLast, ReadHandle, Removed, CancelKind,
             Listening
      <4>4. \A k \in installed' \ {"authorizer"} : \E x \in registered' : KindOf[x] = k
        BY <2>a, <3>3, <4>1, TokensAssumption DEF CancelLast, ReadHandle,
             Removed, CancelKind, Listening, ValidatorKinds
      <4>5. \A u \in Threads : pc'[u] = "install" =>
                  /\ tok'[u] \in registered'
                  /\ \A x \in registered' : KindOf[x] = KindOf[tok'[u]] => x = tok'[u]
        BY <2>a, <3>3, <4>1 DEF CancelLast, ReadHandle, Removed, CancelKind,
             Listening
      <4>6. \A u \in Threads : pc'[u] = "uninstall" =>
                  tok'[u] \notin registered' /\ CancelKind(tok'[u]) \notin installed'
        BY <2>a, <3>3, <4>1 DEF CancelLast, ReadHandle, Removed, CancelKind,
             Listening
      <4> QED BY <4>2, <4>3, <4>4, <4>5, <4>6
    <3>4. CASE Uninstall(t)
      BY <2>a, <3>4 DEF Uninstall, CancelReturns, UseHandle
    <3> QED BY <2>2, <3>1, <3>2, <3>3, <3>4 DEF Cancel
  <2>3. CASE Query(t)
    <3>1. CASE BeginQuery(t)
      BY <2>a, <3>1 DEF BeginQuery
    <3>2. CASE QueryReadsHandle(t)
      BY <2>a, <3>2 DEF QueryReadsHandle, ReadHandle
    <3>3. CASE PrepareMisuse(t)
      BY <2>a, <3>3 DEF PrepareMisuse
    <3>4. CASE PrepareEnters(t)
      BY <2>a, <3>4 DEF PrepareEnters, EnterEngine, UseHandle
    <3>5. CASE PrepareFails(t)
      BY <2>a, <3>5 DEF PrepareFails, LeaveEngine
    <3>6. CASE PrepareReturns(t)
      BY <2>a, <3>6 DEF PrepareReturns, LeaveEngine
    <3>7. CASE StepEnters(t)
      BY <2>a, <3>7 DEF StepEnters, EnterEngine
    <3>8. CASE StepReturnsRow(t)
      BY <2>a, <3>8 DEF StepReturnsRow, LeaveEngine
    <3>9. CASE StepReturnsLast(t)
      BY <2>a, <3>9 DEF StepReturnsLast, LeaveEngine
    <3>10. CASE Finalize(t)
      BY <2>a, <3>10 DEF Finalize
    <3>11. CASE DecodeFails(t)
      BY <2>a, <3>11 DEF DecodeFails
    <3> QED BY <2>3, <3>1, <3>2, <3>3, <3>4, <3>5, <3>6, <3>7, <3>8, <3>9,
         <3>10, <3>11 DEF Query
  <2>4. CASE Script(t)
    <3>1. CASE BeginScript(t)
      BY <2>a, <3>1 DEF BeginScript
    <3>2. CASE ScriptOnClosed(t)
      BY <2>a, <3>2 DEF ScriptOnClosed
    <3>3. CASE ScriptReadsHandle(t)
      BY <2>a, <3>3 DEF ScriptReadsHandle, ReadHandle
    <3>4. CASE ScriptEnters(t)
      BY <2>a, <3>4 DEF ScriptEnters, EnterEngine, UseHandle
    <3>5. CASE ScriptReturns(t)
      BY <2>a, <3>5 DEF ScriptReturns, LeaveEngine
    <3> QED BY <2>4, <3>1, <3>2, <3>3, <3>4, <3>5 DEF Script
  <2>5. CASE Dispatch(t)
    <3>1. ASSUME NEW k \in Kinds, Fire(t, k) PROVE BucketInv'
      BY <2>a, <3>1 DEF Fire, SqlCalls
    <3>2. CASE CopyCallbacks(t)
      BY <2>a, <3>2 DEF CopyCallbacks, Listeners, Listening
    <3>3. ASSUME NEW x \in Tokens, CallValidator(t, x) PROVE BucketInv'
      BY <2>a, <3>3 DEF CallValidator, Invoke
    <3>4. ASSUME NEW x \in Tokens, CallObserver(t, x) PROVE BucketInv'
      BY <2>a, <3>4 DEF CallObserver, Invoke
    <3>5. CASE ValidatorDenies(t)
      BY <2>a, <3>5 DEF ValidatorDenies
    <3>6. CASE CallbackReturns(t)
      BY <2>a, <3>6 DEF CallbackReturns
    <3>7. CASE EndDispatch(t)
      BY <2>a, <3>7 DEF EndDispatch, SqlCalls
    <3> QED BY <2>5, <3>1, <3>2, <3>3, <3>4, <3>5, <3>6, <3>7 DEF Dispatch
  <2>6. CASE Close(t)
    <3>1. CASE BeginClose(t)
      BY <2>a, <3>1 DEF BeginClose, ReadHandle
    <3>2. CASE ClearHook(t)
      BY <2>a, <3>2 DEF ClearHook, CloseSteps
    <3>3. CASE ResetBuckets(t)
      <4>1. \A u \in Threads : pc[u] # "install" /\ pc[u] # "uninstall"
        BY <3>3, <2>b DEF ResetBuckets
      <4>2. \A x \in registered' :
                  status'[x] = "live" \/ \E u \in Threads : pc'[u] = "install" /\ tok'[u] = x
        BY <2>a, <3>3, <4>1 DEF ResetBuckets
      <4>3. \A x \in registered' : KindOf[x] \in installed'
        BY <2>a, <3>3, <4>1 DEF ResetBuckets
      <4>4. \A k \in installed' \ {"authorizer"} : \E x \in registered' : KindOf[x] = k
        BY <2>a, <3>3, <4>1 DEF ResetBuckets
      <4>5. \A u \in Threads : pc'[u] = "install" =>
                  /\ tok'[u] \in registered'
                  /\ \A x \in registered' : KindOf[x] = KindOf[tok'[u]] => x = tok'[u]
        BY <2>a, <3>3, <4>1 DEF ResetBuckets
      <4>6. \A u \in Threads : pc'[u] = "uninstall" =>
                  tok'[u] \notin registered' /\ CancelKind(tok'[u]) \notin installed'
        BY <2>a, <3>3, <4>1 DEF ResetBuckets
      <4> QED BY <4>2, <4>3, <4>4, <4>5, <4>6
    <3>4. CASE CloseDatabase(t)
      BY <2>a, <3>4 DEF CloseDatabase, UseHandle
    <3>5. CASE NilHandle(t)
      BY <2>a, <3>5 DEF NilHandle
    <3> QED BY <2>6, <3>1, <3>2, <3>3, <3>4, <3>5 DEF Close
  <2>7. CASE UndefinedCall(t)
    BY <2>a, <2>7 DEF UndefinedCall
  <2> QED BY <2>1, <2>2, <2>3, <2>4, <2>5, <2>6, <2>7 DEF Step
<1> QED BY <1>1, <1>2, TypeCorrect, Locking, TokensInOrder, PTL DEF Spec

(* From the moment close() starts, the connection is closing or closed     *)
(* for good.                                                               *)
LEMMA ClosingStays == TypeInv /\ TokenInv /\ LockInv /\ [Next]_vars /\ Closing => Closing'
<1> SUFFICES ASSUME TypeInv, TokenInv, LockInv, NEW t \in Threads, Step(t),
     Closing PROVE Closing'
  BY DEF Next, vars, shared, connection, buckets, engine, locals, tokens,
       Closing, CloseInProgress
<1> USE ThreadsAssumption DEF Closing, CloseInProgress, CloseSteps, Threads,
     Goto, connection, buckets, engine, locals, tokens, shared
<1>a. /\ pc \in [Threads -> Steps]
      /\ base \in [Threads -> SqlCalls]
      /\ ret \in [Threads -> InCallback \cup {"idle"}]
  BY DEF TypeInv, TypeOK
<1>1. CASE Add(t)
  <2>1. ASSUME NEW x \in Tokens, BeginAdd(t, x) PROVE Closing'
    BY <1>a, <2>1 DEF BeginAdd
  <2>2. CASE AddToHook(t)
    BY <1>a, <2>2 DEF AddToHook, AddReturns
  <2>3. CASE AddFirst(t)
    BY <1>a, <2>3 DEF AddFirst, ReadHandle
  <2>4. CASE Install(t)
    BY <1>a, <2>4 DEF Install, AddReturns, UseHandle
  <2> QED BY <1>1, <2>1, <2>2, <2>3, <2>4 DEF Add
<1>2. CASE Cancel(t)
  <2>1. ASSUME NEW x \in Tokens, BeginCancel(t, x) PROVE Closing'
    BY <1>a, <2>1 DEF BeginCancel, InCallback
  <2>2. CASE CancelOne(t)
    BY <1>a, <2>2 DEF CancelOne, CancelReturns
  <2>3. CASE CancelLast(t)
    BY <1>a, <2>3 DEF CancelLast, ReadHandle
  <2>4. CASE Uninstall(t)
    BY <1>a, <2>4 DEF Uninstall, CancelReturns, UseHandle
  <2> QED BY <1>2, <2>1, <2>2, <2>3, <2>4 DEF Cancel
<1>3. CASE Query(t)
  <2>1. CASE BeginQuery(t)
    BY <1>a, <2>1 DEF BeginQuery
  <2>2. CASE QueryReadsHandle(t)
    BY <1>a, <2>2 DEF QueryReadsHandle, ReadHandle
  <2>3. CASE PrepareMisuse(t)
    BY <1>a, <2>3 DEF PrepareMisuse
  <2>4. CASE PrepareEnters(t)
    BY <1>a, <2>4 DEF PrepareEnters, EnterEngine, UseHandle
  <2>5. CASE PrepareFails(t)
    BY <1>a, <2>5 DEF PrepareFails, LeaveEngine
  <2>6. CASE PrepareReturns(t)
    BY <1>a, <2>6 DEF PrepareReturns, LeaveEngine
  <2>7. CASE StepEnters(t)
    BY <1>a, <2>7 DEF StepEnters, EnterEngine
  <2>8. CASE StepReturnsRow(t)
    BY <1>a, <2>8 DEF StepReturnsRow, LeaveEngine
  <2>9. CASE StepReturnsLast(t)
    BY <1>a, <2>9 DEF StepReturnsLast, LeaveEngine
  <2>10. CASE Finalize(t)
    BY <1>a, <2>10 DEF Finalize
  <2>11. CASE DecodeFails(t)
    BY <1>a, <2>11 DEF DecodeFails
  <2> QED BY <1>3, <2>1, <2>2, <2>3, <2>4, <2>5, <2>6, <2>7, <2>8, <2>9,
       <2>10, <2>11 DEF Query
<1>4. CASE Script(t)
  <2>1. CASE BeginScript(t)
    BY <1>a, <2>1 DEF BeginScript
  <2>2. CASE ScriptOnClosed(t)
    BY <1>a, <2>2 DEF ScriptOnClosed
  <2>3. CASE ScriptReadsHandle(t)
    BY <1>a, <2>3 DEF ScriptReadsHandle, ReadHandle
  <2>4. CASE ScriptEnters(t)
    BY <1>a, <2>4 DEF ScriptEnters, EnterEngine, UseHandle
  <2>5. CASE ScriptReturns(t)
    BY <1>a, <2>5 DEF ScriptReturns, LeaveEngine
  <2> QED BY <1>4, <2>1, <2>2, <2>3, <2>4, <2>5 DEF Script
<1>5. CASE Dispatch(t)
  <2>1. ASSUME NEW k \in Kinds, Fire(t, k) PROVE Closing'
    BY <1>a, <2>1 DEF Fire, SqlCalls
  <2>2. CASE CopyCallbacks(t)
    BY <1>a, <2>2 DEF CopyCallbacks, Listeners, Listening
  <2>3. ASSUME NEW x \in Tokens, CallValidator(t, x) PROVE Closing'
    BY <1>a, <2>3 DEF CallValidator, Invoke
  <2>4. ASSUME NEW x \in Tokens, CallObserver(t, x) PROVE Closing'
    BY <1>a, <2>4 DEF CallObserver, Invoke
  <2>5. CASE ValidatorDenies(t)
    BY <1>a, <2>5 DEF ValidatorDenies
  <2>6. CASE CallbackReturns(t)
    BY <1>a, <2>6 DEF CallbackReturns, InCallback
  <2>7. CASE EndDispatch(t)
    BY <1>a, <2>7 DEF EndDispatch, SqlCalls
  <2> QED BY <1>5, <2>1, <2>2, <2>3, <2>4, <2>5, <2>6, <2>7 DEF Dispatch
<1>6. CASE Close(t)
  <2>1. CASE BeginClose(t)
    BY <1>a, <2>1 DEF BeginClose, ReadHandle
  <2>2. CASE ClearHook(t)
    BY <1>a, <2>2 DEF ClearHook
  <2>3. CASE ResetBuckets(t)
    BY <1>a, <2>3 DEF ResetBuckets
  <2>4. CASE CloseDatabase(t)
    BY <1>a, <2>4 DEF CloseDatabase, UseHandle
  <2>5. CASE NilHandle(t)
    BY <1>a, <2>5 DEF NilHandle
  <2> QED BY <1>6, <2>1, <2>2, <2>3, <2>4, <2>5 DEF Close
<1>7. CASE UndefinedCall(t)
  BY <1>a, <1>7 DEF UndefinedCall
<1> QED BY <1>1, <1>2, <1>3, <1>4, <1>5, <1>6, <1>7 DEF Step

(* While the connection is not being closed, the flags agree with the C    *)
(* hooks of libsqlite3, but for the one call that is being made under the  *)
(* bucket lock.                                                            *)
THEOREM SlotsFollowFlags == Spec => []SlotInv
<1>1. Init => SlotInv
  BY DEF Init, SlotInv, SlotsAgree
<1>2. SlotInv /\ TypeInv /\ LockInv /\ TokenInv /\ BucketInv /\ [Next]_vars => SlotInv'
  <2>1. CASE UNCHANGED vars
    BY <2>1 DEF vars, shared, connection, buckets, engine, locals, tokens,
         SlotInv, SlotsAgree,
                Closing, CloseInProgress, Installing, Uninstalling
  <2>2. CASE Next
    <3> SUFFICES ASSUME SlotInv, TypeInv, LockInv, TokenInv, BucketInv,
         NEW t \in Threads, Step(t),
                        ~Closing'
                 PROVE  SlotsAgree'
      BY <2>2 DEF Next, SlotInv
    <3>a. ~Closing /\ SlotsAgree
      BY <2>2, ClosingStays DEF SlotInv
    <3>b. /\ pc \in [Threads -> Steps] /\ tok \in [Threads -> Tokens \cup {NoToken}]
         /\ base \in [Threads -> SqlCalls] /\ ret \in [Threads -> InCallback \cup {"idle"}]
         /\ installed \subseteq Kinds /\ slot \subseteq Kinds
      BY DEF TypeInv, TypeOK
    <3> USE DEF SlotsAgree, Installing, Uninstalling, Goto, connection, buckets,
         engine, locals, tokens, shared
      <3>1. CASE Add(t)
        <4>1. ASSUME NEW x \in Tokens, BeginAdd(t, x) PROVE SlotsAgree'
          BY <3>a, <3>b, <4>1 DEF BeginAdd
        <4>2. CASE AddToHook(t)
          BY <3>a, <3>b, <4>2 DEF AddToHook, AddReturns
        <4>3. CASE AddFirst(t)
          BY <3>a, <3>b, <4>3 DEF AddFirst, ReadHandle
        <4>4. CASE Install(t)
          BY <3>a, <3>b, <4>4 DEF Install, AddReturns, UseHandle, BucketInv
        <4> QED BY <3>1, <4>1, <4>2, <4>3, <4>4 DEF Add
      <3>2. CASE Cancel(t)
        <4>1. ASSUME NEW x \in Tokens, BeginCancel(t, x) PROVE SlotsAgree'
          BY <3>a, <3>b, <4>1 DEF BeginCancel, InCallback
        <4>2. CASE CancelOne(t)
          BY <3>a, <3>b, <4>2 DEF CancelOne, CancelReturns, InCallback
        <4>3. CASE CancelLast(t)
          BY <3>a, <3>b, <4>3 DEF CancelLast, ReadHandle
        <4>4. CASE Uninstall(t)
          BY <3>a, <3>b, <4>4 DEF Uninstall, CancelReturns, UseHandle, BucketInv,
               InCallback
        <4> QED BY <3>2, <4>1, <4>2, <4>3, <4>4 DEF Cancel
      <3>3. CASE Query(t)
        <4>1. CASE BeginQuery(t)
          BY <3>a, <3>b, <4>1 DEF BeginQuery
        <4>2. CASE QueryReadsHandle(t)
          BY <3>a, <3>b, <4>2 DEF QueryReadsHandle, ReadHandle
        <4>3. CASE PrepareMisuse(t)
          BY <3>a, <3>b, <4>3 DEF PrepareMisuse
        <4>4. CASE PrepareEnters(t)
          BY <3>a, <3>b, <4>4 DEF PrepareEnters, EnterEngine, UseHandle
        <4>5. CASE PrepareFails(t)
          BY <3>a, <3>b, <4>5 DEF PrepareFails, LeaveEngine
        <4>6. CASE PrepareReturns(t)
          BY <3>a, <3>b, <4>6 DEF PrepareReturns, LeaveEngine
        <4>7. CASE StepEnters(t)
          BY <3>a, <3>b, <4>7 DEF StepEnters, EnterEngine
        <4>8. CASE StepReturnsRow(t)
          BY <3>a, <3>b, <4>8 DEF StepReturnsRow, LeaveEngine
        <4>9. CASE StepReturnsLast(t)
          BY <3>a, <3>b, <4>9 DEF StepReturnsLast, LeaveEngine
        <4>10. CASE Finalize(t)
          BY <3>a, <3>b, <4>10 DEF Finalize
        <4>11. CASE DecodeFails(t)
          BY <3>a, <3>b, <4>11 DEF DecodeFails
        <4> QED BY <3>3, <4>1, <4>2, <4>3, <4>4, <4>5, <4>6, <4>7, <4>8, <4>9,
             <4>10, <4>11 DEF Query
      <3>4. CASE Script(t)
        <4>1. CASE BeginScript(t)
          BY <3>a, <3>b, <4>1 DEF BeginScript
        <4>2. CASE ScriptOnClosed(t)
          BY <3>a, <3>b, <4>2 DEF ScriptOnClosed
        <4>3. CASE ScriptReadsHandle(t)
          BY <3>a, <3>b, <4>3 DEF ScriptReadsHandle, ReadHandle
        <4>4. CASE ScriptEnters(t)
          BY <3>a, <3>b, <4>4 DEF ScriptEnters, EnterEngine, UseHandle
        <4>5. CASE ScriptReturns(t)
          BY <3>a, <3>b, <4>5 DEF ScriptReturns, LeaveEngine
        <4> QED BY <3>4, <4>1, <4>2, <4>3, <4>4, <4>5 DEF Script
      <3>5. CASE Dispatch(t)
        <4>1. ASSUME NEW k \in Kinds, Fire(t, k) PROVE SlotsAgree'
          BY <3>a, <3>b, <4>1 DEF Fire, SqlCalls
        <4>2. CASE CopyCallbacks(t)
          BY <3>a, <3>b, <4>2 DEF CopyCallbacks, Listeners, Listening
        <4>3. ASSUME NEW x \in Tokens, CallValidator(t, x) PROVE SlotsAgree'
          BY <3>a, <3>b, <4>3 DEF CallValidator, Invoke
        <4>4. ASSUME NEW x \in Tokens, CallObserver(t, x) PROVE SlotsAgree'
          BY <3>a, <3>b, <4>4 DEF CallObserver, Invoke
        <4>5. CASE ValidatorDenies(t)
          BY <3>a, <3>b, <4>5 DEF ValidatorDenies
        <4>6. CASE CallbackReturns(t)
          BY <3>a, <3>b, <4>6 DEF CallbackReturns, InCallback
        <4>7. CASE EndDispatch(t)
          BY <3>a, <3>b, <4>7 DEF EndDispatch, SqlCalls
        <4> QED BY <3>5, <4>1, <4>2, <4>3, <4>4, <4>5, <4>6, <4>7 DEF Dispatch
      <3>6. CASE Close(t)
        <4>1. CASE BeginClose(t)
          BY <3>a, <3>b, <4>1 DEF BeginClose, ReadHandle
        <4>2. CASE ClearHook(t)
          BY <3>a, <3>b, <4>2 DEF ClearHook, Closing, CloseInProgress, CloseSteps
        <4>3. CASE ResetBuckets(t)
          BY <3>a, <3>b, <4>3 DEF ResetBuckets, Closing, CloseInProgress, CloseSteps
        <4>4. CASE CloseDatabase(t)
          BY <3>a, <3>b, <4>4 DEF CloseDatabase, UseHandle, Closing,
               CloseInProgress, CloseSteps
        <4>5. CASE NilHandle(t)
          BY <3>a, <3>b, <4>5 DEF NilHandle, Closing, CloseInProgress, CloseSteps
        <4> QED BY <3>6, <4>1, <4>2, <4>3, <4>4, <4>5 DEF Close
      <3>7. CASE UndefinedCall(t)
        BY <3>a, <3>b, <3>7 DEF UndefinedCall
      <3> QED BY <3>1, <3>2, <3>3, <3>4, <3>5, <3>6, <3>7 DEF Step
  <2> QED BY <2>1, <2>2
<1> QED BY <1>1, <1>2, TypeCorrect, Locking, TokensInOrder, BucketsInOrder,
     PTL DEF Spec

(* A callback that ran after its cancel() returned is in no copy any       *)
(* more: removal came first, so no later dispatch can copy it again.       *)
THEOREM LateCallsAreCounted == Spec => []LateInv
<1>1. Init => LateInv
  <2> SUFFICES ASSUME Init, NEW x \in Tokens PROVE late[x] = 0 /\ 0 <= 1
    BY Zenon DEF LateInv
  <2> QED BY DEF Init
<1>2. LateInv /\ TypeInv /\ LockInv /\ TokenInv /\ BucketInv /\ [Next]_vars => LateInv'
  <2> SUFFICES ASSUME LateInv, TypeInv, LockInv, TokenInv, BucketInv,
       NEW t \in Threads, Step(t) PROVE LateInv'
    BY DEF Next, vars, shared, connection, buckets, engine, locals, tokens, LateInv
  <2> USE ThreadsAssumption DEF LateInv, Goto, connection, buckets, engine,
       locals, tokens, shared
  <2>a. /\ pc \in [Threads -> Steps]
        /\ todo \in [Threads -> SUBSET Tokens]
        /\ late \in [Tokens -> Nat]
        /\ status \in [Tokens -> {"unused", "adding", "live", "cancelled"}]
        /\ tok \in [Threads -> Tokens \cup {NoToken}]
    BY DEF TypeInv, TypeOK
  <2>1. CASE Add(t)
    <3>1. ASSUME NEW x \in Tokens, BeginAdd(t, x) PROVE LateInv'
      BY <2>a, <3>1 DEF BeginAdd, TypeInv
    <3>2. CASE AddToHook(t)
      BY <2>a, <3>2 DEF AddToHook, AddReturns, TypeInv, TokenInv, Adding
    <3>3. CASE AddFirst(t)
      BY <2>a, <3>3 DEF AddFirst, ReadHandle
    <3>4. CASE Install(t)
      BY <2>a, <3>4 DEF Install, AddReturns, UseHandle, TypeInv, TokenInv, Adding
    <3> QED BY <2>1, <3>1, <3>2, <3>3, <3>4 DEF Add
  <2>2. CASE Cancel(t)
    <3>1. ASSUME NEW x \in Tokens, BeginCancel(t, x) PROVE LateInv'
      BY <2>a, <3>1 DEF BeginCancel
    <3>2. CASE CancelOne(t)
      BY <2>a, <3>2 DEF CancelOne, CancelReturns, TypeInv, InCancel
    <3>3. CASE CancelLast(t)
      BY <2>a, <3>3 DEF CancelLast, ReadHandle
    <3>4. CASE Uninstall(t)
      BY <2>a, <3>4 DEF Uninstall, CancelReturns, UseHandle, TypeInv, InCancel
    <3> QED BY <2>2, <3>1, <3>2, <3>3, <3>4 DEF Cancel
  <2>3. CASE Query(t)
    <3>1. CASE BeginQuery(t)
      BY <2>a, <3>1 DEF BeginQuery
    <3>2. CASE QueryReadsHandle(t)
      BY <2>a, <3>2 DEF QueryReadsHandle, ReadHandle
    <3>3. CASE PrepareMisuse(t)
      BY <2>a, <3>3 DEF PrepareMisuse
    <3>4. CASE PrepareEnters(t)
      BY <2>a, <3>4 DEF PrepareEnters, EnterEngine, UseHandle
    <3>5. CASE PrepareFails(t)
      BY <2>a, <3>5 DEF PrepareFails, LeaveEngine
    <3>6. CASE PrepareReturns(t)
      BY <2>a, <3>6 DEF PrepareReturns, LeaveEngine
    <3>7. CASE StepEnters(t)
      BY <2>a, <3>7 DEF StepEnters, EnterEngine
    <3>8. CASE StepReturnsRow(t)
      BY <2>a, <3>8 DEF StepReturnsRow, LeaveEngine
    <3>9. CASE StepReturnsLast(t)
      BY <2>a, <3>9 DEF StepReturnsLast, LeaveEngine
    <3>10. CASE Finalize(t)
      BY <2>a, <3>10 DEF Finalize
    <3>11. CASE DecodeFails(t)
      BY <2>a, <3>11 DEF DecodeFails
    <3> QED BY <2>3, <3>1, <3>2, <3>3, <3>4, <3>5, <3>6, <3>7, <3>8, <3>9,
         <3>10, <3>11 DEF Query
  <2>4. CASE Script(t)
    <3>1. CASE BeginScript(t)
      BY <2>a, <3>1 DEF BeginScript
    <3>2. CASE ScriptOnClosed(t)
      BY <2>a, <3>2 DEF ScriptOnClosed
    <3>3. CASE ScriptReadsHandle(t)
      BY <2>a, <3>3 DEF ScriptReadsHandle, ReadHandle
    <3>4. CASE ScriptEnters(t)
      BY <2>a, <3>4 DEF ScriptEnters, EnterEngine, UseHandle
    <3>5. CASE ScriptReturns(t)
      BY <2>a, <3>5 DEF ScriptReturns, LeaveEngine
    <3> QED BY <2>4, <3>1, <3>2, <3>3, <3>4, <3>5 DEF Script
  <2>5. CASE Dispatch(t)
    <3>1. ASSUME NEW k \in Kinds, Fire(t, k) PROVE LateInv'
      BY <2>a, <3>1 DEF Fire
    <3>2. CASE CopyCallbacks(t)
      BY <2>a, <3>2 DEF CopyCallbacks, Listeners, Listening, BucketInv, TokenInv,
           Adding
    <3>3. ASSUME NEW x \in Tokens, CallValidator(t, x) PROVE LateInv'
      BY <2>a, <3>3 DEF CallValidator, Invoke, LockInv, LocalsInv,
           LockDiscipline, InEngine, InDispatch
    <3>4. ASSUME NEW x \in Tokens, CallObserver(t, x) PROVE LateInv'
      BY <2>a, <3>4 DEF CallObserver, Invoke, LockInv, LocalsInv, LockDiscipline,
           InEngine, InDispatch
    <3>5. CASE ValidatorDenies(t)
      BY <2>a, <3>5 DEF ValidatorDenies
    <3>6. CASE CallbackReturns(t)
      BY <2>a, <3>6 DEF CallbackReturns
    <3>7. CASE EndDispatch(t)
      BY <2>a, <3>7 DEF EndDispatch
    <3> QED BY <2>5, <3>1, <3>2, <3>3, <3>4, <3>5, <3>6, <3>7 DEF Dispatch
  <2>6. CASE Close(t)
    <3>1. CASE BeginClose(t)
      BY <2>a, <3>1 DEF BeginClose, ReadHandle
    <3>2. CASE ClearHook(t)
      BY <2>a, <3>2 DEF ClearHook
    <3>3. CASE ResetBuckets(t)
      BY <2>a, <3>3 DEF ResetBuckets
    <3>4. CASE CloseDatabase(t)
      BY <2>a, <3>4 DEF CloseDatabase, UseHandle
    <3>5. CASE NilHandle(t)
      BY <2>a, <3>5 DEF NilHandle
    <3> QED BY <2>6, <3>1, <3>2, <3>3, <3>4, <3>5 DEF Close
  <2>7. CASE UndefinedCall(t)
    BY <2>a, <2>7 DEF UndefinedCall
  <2> QED BY <2>1, <2>2, <2>3, <2>4, <2>5, <2>6, <2>7 DEF Step
<1> QED BY <1>1, <1>2, TypeCorrect, Locking, TokensInOrder, BucketsInOrder,
     PTL DEF Spec

(* A query owns its statement from prepare to finalize, and sqlite3_close  *)
(* frees a database only when no query has one.                            *)
THEOREM StatementsKeepOpen == Spec => []OpenInv
<1>1. Init => OpenInv
  BY ThreadsAssumption DEF Init, OpenInv, InStatement, InDispatch, InCallback,
       SqlCalls
<1>2. OpenInv /\ TypeInv /\ LockInv /\ [Next]_vars => OpenInv'
  <2> SUFFICES ASSUME OpenInv, TypeInv, LockInv, NEW t \in Threads,
       Step(t) PROVE OpenInv'
    BY DEF Next, vars, shared, connection, buckets, engine, locals, tokens,
         OpenInv, InStatement, InDispatch, InCallback, SqlCalls
  <2> USE ThreadsAssumption DEF OpenInv, InStatement, InDispatch, InCallback,
       SqlCalls, Goto, connection, buckets, engine, locals, tokens, shared
  <2>a. /\ pc \in [Threads -> Steps]
        /\ base \in [Threads -> SqlCalls]
        /\ ret \in [Threads -> InCallback \cup {"idle"}]
        /\ stmts \subseteq Threads
    BY DEF TypeInv, TypeOK
  <2>1. CASE Add(t)
    <3>1. ASSUME NEW x \in Tokens, BeginAdd(t, x) PROVE OpenInv'
      BY <2>a, <3>1 DEF BeginAdd
    <3>2. CASE AddToHook(t)
      BY <2>a, <3>2 DEF AddToHook, AddReturns
    <3>3. CASE AddFirst(t)
      BY <2>a, <3>3 DEF AddFirst, ReadHandle
    <3>4. CASE Install(t)
      BY <2>a, <3>4 DEF Install, AddReturns, UseHandle
    <3> QED BY <2>1, <3>1, <3>2, <3>3, <3>4 DEF Add
  <2>2. CASE Cancel(t)
    <3>1. ASSUME NEW x \in Tokens, BeginCancel(t, x) PROVE OpenInv'
      BY <2>a, <3>1 DEF BeginCancel, LockInv, LocalsInv, LockDiscipline,
           InEngine, InCancel
    <3>2. CASE CancelOne(t)
      BY <2>a, <3>2 DEF CancelOne, CancelReturns, LockInv, LocalsInv,
           LockDiscipline, InEngine, InCancel
    <3>3. CASE CancelLast(t)
      BY <2>a, <3>3 DEF CancelLast, ReadHandle
    <3>4. CASE Uninstall(t)
      BY <2>a, <3>4 DEF Uninstall, CancelReturns, UseHandle, LockInv, LocalsInv,
           LockDiscipline, InEngine, InCancel
    <3> QED BY <2>2, <3>1, <3>2, <3>3, <3>4 DEF Cancel
  <2>3. CASE Query(t)
    <3>1. CASE BeginQuery(t)
      BY <2>a, <3>1 DEF BeginQuery
    <3>2. CASE QueryReadsHandle(t)
      BY <2>a, <3>2 DEF QueryReadsHandle, ReadHandle
    <3>3. CASE PrepareMisuse(t)
      BY <2>a, <3>3 DEF PrepareMisuse
    <3>4. CASE PrepareEnters(t)
      BY <2>a, <3>4 DEF PrepareEnters, EnterEngine, UseHandle, LockInv,
           LocalsInv, LockDiscipline, InEngine, InCancel
    <3>5. CASE PrepareFails(t)
      BY <2>a, <3>5 DEF PrepareFails, LeaveEngine, LockInv, LocalsInv,
           LockDiscipline, InEngine, InCancel
    <3>6. CASE PrepareReturns(t)
      BY <2>a, <3>6 DEF PrepareReturns, LeaveEngine, LockInv, LocalsInv,
           LockDiscipline, InEngine, InCancel
    <3>7. CASE StepEnters(t)
      BY <2>a, <3>7 DEF StepEnters, EnterEngine, LockInv, LocalsInv,
           LockDiscipline, InEngine, InCancel
    <3>8. CASE StepReturnsRow(t)
      BY <2>a, <3>8 DEF StepReturnsRow, LeaveEngine, LockInv, LocalsInv,
           LockDiscipline, InEngine, InCancel
    <3>9. CASE StepReturnsLast(t)
      BY <2>a, <3>9 DEF StepReturnsLast, LeaveEngine, LockInv, LocalsInv,
           LockDiscipline, InEngine, InCancel
    <3>10. CASE Finalize(t)
      BY <2>a, <3>10 DEF Finalize, LockInv, LocalsInv, LockDiscipline, InEngine,
           InCancel
    <3>11. CASE DecodeFails(t)
      BY <2>a, <3>11 DEF DecodeFails, LockInv, LocalsInv, LockDiscipline, InEngine,
           InCancel
    <3> QED BY <2>3, <3>1, <3>2, <3>3, <3>4, <3>5, <3>6, <3>7, <3>8, <3>9,
         <3>10, <3>11 DEF Query
  <2>4. CASE Script(t)
    <3>1. CASE BeginScript(t)
      BY <2>a, <3>1 DEF BeginScript
    <3>2. CASE ScriptOnClosed(t)
      BY <2>a, <3>2 DEF ScriptOnClosed
    <3>3. CASE ScriptReadsHandle(t)
      BY <2>a, <3>3 DEF ScriptReadsHandle, ReadHandle
    <3>4. CASE ScriptEnters(t)
      BY <2>a, <3>4 DEF ScriptEnters, EnterEngine, UseHandle, LockInv, LocalsInv,
           LockDiscipline, InEngine, InCancel
    <3>5. CASE ScriptReturns(t)
      BY <2>a, <3>5 DEF ScriptReturns, LeaveEngine
    <3> QED BY <2>4, <3>1, <3>2, <3>3, <3>4, <3>5 DEF Script
  <2>5. CASE Dispatch(t)
    <3>1. ASSUME NEW k \in Kinds, Fire(t, k) PROVE OpenInv'
      BY <2>a, <3>1 DEF Fire, LockInv, LocalsInv, LockDiscipline, InEngine, InCancel
    <3>2. CASE CopyCallbacks(t)
      BY <2>a, <3>2 DEF CopyCallbacks, Listeners, Listening
    <3>3. ASSUME NEW x \in Tokens, CallValidator(t, x) PROVE OpenInv'
      BY <2>a, <3>3 DEF CallValidator, Invoke
    <3>4. ASSUME NEW x \in Tokens, CallObserver(t, x) PROVE OpenInv'
      BY <2>a, <3>4 DEF CallObserver, Invoke
    <3>5. CASE ValidatorDenies(t)
      BY <2>a, <3>5 DEF ValidatorDenies
    <3>6. CASE CallbackReturns(t)
      BY <2>a, <3>6 DEF CallbackReturns
    <3>7. CASE EndDispatch(t)
      BY <2>a, <3>7 DEF EndDispatch, LockInv, LocalsInv, LockDiscipline,
           InEngine, InCancel
    <3> QED BY <2>5, <3>1, <3>2, <3>3, <3>4, <3>5, <3>6, <3>7 DEF Dispatch
  <2>6. CASE Close(t)
    <3>1. CASE BeginClose(t)
      BY <2>a, <3>1 DEF BeginClose, ReadHandle
    <3>2. CASE ClearHook(t)
      BY <2>a, <3>2 DEF ClearHook
    <3>3. CASE ResetBuckets(t)
      BY <2>a, <3>3 DEF ResetBuckets
    <3>4. CASE CloseDatabase(t)
      BY <2>a, <3>4 DEF CloseDatabase, UseHandle, LockInv, LocalsInv,
           LockDiscipline, InEngine, InCancel, EngineFree
    <3>5. CASE NilHandle(t)
      BY <2>a, <3>5 DEF NilHandle
    <3> QED BY <2>6, <3>1, <3>2, <3>3, <3>4, <3>5 DEF Close
  <2>7. CASE UndefinedCall(t)
    BY <2>a, <2>7 DEF UndefinedCall
  <2> QED BY <2>1, <2>2, <2>3, <2>4, <2>5, <2>6, <2>7 DEF Step
<1> QED BY <1>1, <1>2, TypeCorrect, Locking, PTL DEF Spec

(* When the client awaits its jobs before close(), closing runs alone on   *)
(* the pool: it empties the buckets before it frees the database, and      *)
(* whoever still uses a pointer uses a good one.                           *)
THEOREM CloseIsOrderly == Spec => []CloseInv
<1>1. Init => CloseInv
  BY ThreadsAssumption DEF Init, CloseInv, AppsOnlyCancel, CloserIsAlone,
       ClearedIsEmpty, FreedAtTheEnd, HandleWhileNeeded, PointersAreGood, Adding,
       Cleared, InCancel, InCallback, CloseSteps, HandleCalls, HookSetters, Threads
<1>2. CloseInv /\ TypeInv /\ LockInv /\ BucketInv /\ OpenInv /\ [Next]_vars => CloseInv'
  <2> SUFFICES ASSUME CloseInv, TypeInv, LockInv, BucketInv, OpenInv,
       NEW t \in Threads, Step(t) PROVE CloseInv'
    BY DEF Next, vars, shared, connection, buckets, engine, locals, tokens,
         CloseInv, AppsOnlyCancel, CloserIsAlone, ClearedIsEmpty, FreedAtTheEnd,
         HandleWhileNeeded, PointersAreGood, Adding, Cleared, InCancel,
         InCallback, CloseSteps, HandleCalls, HookSetters, Threads
  <2> USE ThreadsAssumption DEF CloseInv, AppsOnlyCancel, CloserIsAlone,
       ClearedIsEmpty, FreedAtTheEnd, HandleWhileNeeded, PointersAreGood, Adding,
       Cleared, InCancel, InCallback, CloseSteps, HandleCalls, HookSetters,
       Threads, Goto, connection, buckets, engine, locals, tokens, shared
  <2>a. /\ pc \in [Threads -> Steps]
        /\ base \in [Threads -> SqlCalls]
        /\ ret \in [Threads -> InCallback \cup {"idle"}]
        /\ ptr \in [Threads -> {"db", "nil"}]
        /\ handle \in {"db", "nil"}
        /\ db \in {"open", "freed"}
    BY DEF TypeInv, TypeOK
  <2>1. CASE Add(t)
    <3>1. ASSUME NEW x \in Tokens, BeginAdd(t, x) PROVE CloseInv'
      BY <2>a, <3>1 DEF BeginAdd, Closing, CloseInProgress
    <3>2. CASE AddToHook(t)
      BY <2>a, <3>2 DEF AddToHook, AddReturns
    <3>3. CASE AddFirst(t)
      BY <2>a, <3>3 DEF AddFirst, ReadHandle
    <3>4. CASE Install(t)
      BY <2>a, <3>4 DEF Install, AddReturns, UseHandle
    <3> QED BY <2>1, <3>1, <3>2, <3>3, <3>4 DEF Add
  <2>2. CASE Cancel(t)
    <3>1. ASSUME NEW x \in Tokens, BeginCancel(t, x) PROVE CloseInv'
      BY <2>a, <3>1 DEF BeginCancel
    <3>2. CASE CancelOne(t)
      BY <2>a, <3>2 DEF CancelOne, CancelReturns
    <3>3. CASE CancelLast(t)
      BY <2>a, <3>3 DEF CancelLast, ReadHandle
    <3>4. CASE Uninstall(t)
      BY <2>a, <3>4 DEF Uninstall, CancelReturns, UseHandle
    <3> QED BY <2>2, <3>1, <3>2, <3>3, <3>4 DEF Cancel
  <2>3. CASE Query(t)
    <3>1. CASE BeginQuery(t)
      BY <2>a, <3>1 DEF BeginQuery, CloseInProgress
    <3>2. CASE QueryReadsHandle(t)
      BY <2>a, <3>2 DEF QueryReadsHandle, ReadHandle
    <3>3. CASE PrepareMisuse(t)
      BY <2>a, <3>3 DEF PrepareMisuse
    <3>4. CASE PrepareEnters(t)
      BY <2>a, <3>4 DEF PrepareEnters, EnterEngine, UseHandle
    <3>5. CASE PrepareFails(t)
      BY <2>a, <3>5 DEF PrepareFails, LeaveEngine
    <3>6. CASE PrepareReturns(t)
      <4>1. dbMutex = t
        BY <3>6 DEF PrepareReturns, LockInv, LockDiscipline, InEngine, SqlCalls
      <4>2. /\ dbMutex' = NoThread /\ stmts' = stmts \cup {t}
            /\ pc' = [pc EXCEPT ![t] = "stepCall"] \/ pc' = [pc EXCEPT ![t] = "finalizeCall"]
            /\ UNCHANGED <<connection, buckets, leaked, tokens, fault, locals>>
        BY <3>6 DEF PrepareReturns, LeaveEngine
      <4>3. pc[t] = "preparing"
        BY <3>6 DEF PrepareReturns
      <4> QED BY <2>a, <4>1, <4>2, <4>3
    <3>7. CASE StepEnters(t)
      <4>1. t \in stmts
        BY <3>7 DEF StepEnters, OpenInv, InStatement
      <4> QED BY <2>a, <3>7, <4>1 DEF StepEnters, EnterEngine
    <3>8. CASE StepReturnsRow(t)
      BY <2>a, <3>8 DEF StepReturnsRow, LeaveEngine
    <3>9. CASE StepReturnsLast(t)
      BY <2>a, <3>9 DEF StepReturnsLast, LeaveEngine
    <3>10. CASE Finalize(t)
      BY <2>a, <3>10 DEF Finalize
    <3>11. CASE DecodeFails(t)
      <4>1. db = "open"
        BY <2>a, <3>11 DEF DecodeFails, OpenInv, InStatement
      <4> QED BY <2>a, <3>11, <4>1 DEF DecodeFails
    <3> QED BY <2>3, <3>1, <3>2, <3>3, <3>4, <3>5, <3>6, <3>7, <3>8, <3>9,
         <3>10, <3>11 DEF Query
  <2>4. CASE Script(t)
    <3>1. CASE BeginScript(t)
      BY <2>a, <3>1 DEF BeginScript, CloseInProgress
    <3>2. CASE ScriptOnClosed(t)
      BY <2>a, <3>2 DEF ScriptOnClosed
    <3>3. CASE ScriptReadsHandle(t)
      BY <2>a, <3>3 DEF ScriptReadsHandle, ReadHandle
    <3>4. CASE ScriptEnters(t)
      BY <2>a, <3>4 DEF ScriptEnters, EnterEngine, UseHandle
    <3>5. CASE ScriptReturns(t)
      BY <2>a, <3>5 DEF ScriptReturns, LeaveEngine
    <3> QED BY <2>4, <3>1, <3>2, <3>3, <3>4, <3>5 DEF Script
  <2>5. CASE Dispatch(t)
    <3>1. ASSUME NEW k \in Kinds, Fire(t, k) PROVE CloseInv'
      BY <2>a, <3>1 DEF Fire, SqlCalls
    <3>2. CASE CopyCallbacks(t)
      BY <2>a, <3>2 DEF CopyCallbacks, Listeners, Listening
    <3>3. ASSUME NEW x \in Tokens, CallValidator(t, x) PROVE CloseInv'
      BY <2>a, <3>3 DEF CallValidator, Invoke
    <3>4. ASSUME NEW x \in Tokens, CallObserver(t, x) PROVE CloseInv'
      BY <2>a, <3>4 DEF CallObserver, Invoke
    <3>5. CASE ValidatorDenies(t)
      BY <2>a, <3>5 DEF ValidatorDenies
    <3>6. CASE CallbackReturns(t)
      BY <2>a, <3>6 DEF CallbackReturns
    <3>7. CASE EndDispatch(t)
      BY <2>a, <3>7 DEF EndDispatch, SqlCalls
    <3> QED BY <2>5, <3>1, <3>2, <3>3, <3>4, <3>5, <3>6, <3>7 DEF Dispatch
  <2>6. CASE Close(t)
    <3>1. CASE BeginClose(t)
      BY <2>a, <3>1 DEF BeginClose, ReadHandle, Closing, CloseInProgress
    <3>2. CASE ClearHook(t)
      BY <2>a, <3>2 DEF ClearHook, EngineFree
    <3>3. CASE ResetBuckets(t)
      <4>1. CloseAwaits => AppsOnlyCancel'
        BY <2>a, <3>3 DEF ResetBuckets
      <4>2. CloseAwaits => CloserIsAlone'
        BY <2>a, <3>3 DEF ResetBuckets
      <4>3. CloseAwaits => ClearedIsEmpty'
        <5>1. CloseAwaits => \A u \in Threads : ~InEngine(u) /\ ~InStatement(u)
          BY <2>a, <3>3 DEF ResetBuckets, InEngine, InStatement, SqlCalls,
               InDispatch, LockInv, LocalsInv
        <5>2. CloseAwaits => dbMutex = NoThread /\ stmts = {}
          BY <5>1 DEF LockInv, LockDiscipline, OpenInv, TypeInv, TypeOK
        <5> QED BY <2>a, <3>3, <5>2 DEF ResetBuckets
      <4>4. CloseAwaits => FreedAtTheEnd'
        <5>1. \A u \in Threads : pc'[u] = "nilHandle" <=> pc[u] = "nilHandle"
          BY <2>a, <3>3, <2>a DEF ResetBuckets
        <5>2. db' = db /\ handle' = handle /\ leaked' = leaked
          BY <3>3 DEF ResetBuckets
        <5> QED BY <5>1, <5>2 DEF FreedAtTheEnd
      <4>5. CloseAwaits => HandleWhileNeeded'
        BY <2>a, <3>3 DEF ResetBuckets
      <4>6. CloseAwaits => PointersAreGood'
        BY <2>a, <3>3 DEF ResetBuckets
      <4> QED BY <2>a, <3>3, <4>1, <4>2, <4>3, <4>4, <4>5, <4>6 DEF ResetBuckets
    <3>4. CASE CloseDatabase(t)
      <4>1. CloseAwaits => stmts = {}
        BY <2>a, <3>4 DEF CloseDatabase, OpenInv, InStatement, InDispatch,
             LockInv, LocalsInv, TypeInv, TypeOK
      <4>2. CloseAwaits => AppsOnlyCancel'
        BY <2>a, <3>4, <4>1 DEF CloseDatabase, UseHandle, EngineFree
      <4>3. CloseAwaits => CloserIsAlone'
        BY <2>a, <3>4, <4>1 DEF CloseDatabase, UseHandle, EngineFree
      <4>4. CloseAwaits => ClearedIsEmpty'
        BY <2>a, <3>4, <4>1 DEF CloseDatabase, UseHandle, EngineFree
      <4>5. CloseAwaits => FreedAtTheEnd'
        <5>1. CloseAwaits => /\ db' = IF leaked THEN "open" ELSE "freed"
                             /\ leaked' = leaked /\ pc'[t] = "nilHandle"
          BY <2>a, <3>4, <4>1 DEF CloseDatabase, UseHandle, EngineFree
        <5> QED BY <5>1 DEF FreedAtTheEnd
      <4>6. CloseAwaits => HandleWhileNeeded'
        BY <2>a, <3>4, <4>1 DEF CloseDatabase, UseHandle, EngineFree
      <4>7. CloseAwaits => PointersAreGood'
        BY <2>a, <3>4, <4>1 DEF CloseDatabase, UseHandle, EngineFree, LockInv,
             LockDiscipline, HoldsBuckets
      <4> QED BY <2>a, <3>4, <4>2, <4>3, <4>4, <4>5, <4>6, <4>7 DEF CloseDatabase
    <3>5. CASE NilHandle(t)
      <4>1. CloseAwaits => \A u \in Threads : pc[u] \notin {"uninstall", "install"}
        BY <2>a, <3>5 DEF NilHandle, LockInv, LockDiscipline, HoldsBuckets
      <4> QED BY <2>a, <3>5, <4>1 DEF NilHandle
    <3> QED BY <2>6, <3>1, <3>2, <3>3, <3>4, <3>5 DEF Close
  <2>7. CASE UndefinedCall(t)
    BY <2>a, <2>7 DEF UndefinedCall
  <2> QED BY <2>1, <2>2, <2>3, <2>4, <2>5, <2>6, <2>7 DEF Step
<1> QED BY <1>1, <1>2, TypeCorrect, Locking, BucketsInOrder, StatementsKeepOpen,
     PTL DEF Spec

(* While a client that awaited its jobs closes the connection, the C hooks *)
(* go out one after the other and stay out: clearAllHooks leaves none.     *)
THEOREM HooksAreCleared == Spec => []ClearInv
<1>1. Init => ClearInv
  BY DEF Init, ClearInv, EventsAtRest, Cleared
<1>2. ClearInv /\ TypeInv /\ CloseInv /\ [Next]_vars => ClearInv'
  <2> SUFFICES ASSUME ClearInv, TypeInv, CloseInv,
       NEW t \in Threads, Step(t) PROVE ClearInv'
    BY DEF Next, vars, shared, connection, buckets, engine, locals, tokens,
         ClearInv, EventsAtRest, Cleared
  <2> USE ThreadsAssumption DEF ClearInv, EventsAtRest, ClearedBefore, Cleared,
       Kinds, InCancel, InCallback, CloseSteps, Threads, Goto, connection,
       buckets, engine, locals, tokens, shared
  <2>a. /\ pc \in [Threads -> Steps]
        /\ base \in [Threads -> SqlCalls]
        /\ ret \in [Threads -> InCallback \cup {"idle"}]
        /\ event \in [Threads -> Kinds]
        /\ slot \subseteq Kinds
    BY DEF TypeInv, TypeOK
  <2>b. CloseAwaits => AppsOnlyCancel /\ CloserIsAlone /\ HandleWhileNeeded
    BY DEF CloseInv
  <2>1. CASE Add(t)
    <3>1. ASSUME NEW x \in Tokens, BeginAdd(t, x) PROVE ClearInv'
      BY <2>a, <3>1 DEF BeginAdd, Closing, CloseInProgress
    <3>2. CASE AddToHook(t)
      BY <2>a, <3>2 DEF AddToHook, AddReturns
    <3>3. CASE AddFirst(t)
      BY <2>a, <3>3 DEF AddFirst, ReadHandle
    <3>4. CASE Install(t)
      <4>1. CloseAwaits => /\ handle = "db"
                           /\ \A u \in Threads : pc[u] \notin CloseSteps
        BY <2>a, <2>b, <3>4 DEF Install, AppsOnlyCancel, CloserIsAlone,
             HandleWhileNeeded, Adding
      <4> QED BY <2>a, <3>4, <4>1 DEF Install, AddReturns, UseHandle
    <3> QED BY <2>1, <3>1, <3>2, <3>3, <3>4 DEF Add
  <2>2. CASE Cancel(t)
    <3>1. ASSUME NEW x \in Tokens, BeginCancel(t, x) PROVE ClearInv'
      BY <2>a, <3>1 DEF BeginCancel
    <3>2. CASE CancelOne(t)
      BY <2>a, <3>2 DEF CancelOne, CancelReturns
    <3>3. CASE CancelLast(t)
      BY <2>a, <3>3 DEF CancelLast, ReadHandle
    <3>4. CASE Uninstall(t)
      BY <2>a, <3>4 DEF Uninstall, CancelReturns, UseHandle
    <3> QED BY <2>2, <3>1, <3>2, <3>3, <3>4 DEF Cancel
  <2>3. CASE Query(t)
    <3>1. CASE BeginQuery(t)
      BY <2>a, <3>1 DEF BeginQuery
    <3>2. CASE QueryReadsHandle(t)
      BY <2>a, <3>2 DEF QueryReadsHandle, ReadHandle
    <3>3. CASE PrepareMisuse(t)
      BY <2>a, <3>3 DEF PrepareMisuse
    <3>4. CASE PrepareEnters(t)
      BY <2>a, <3>4 DEF PrepareEnters, EnterEngine, UseHandle
    <3>5. CASE PrepareFails(t)
      BY <2>a, <3>5 DEF PrepareFails, LeaveEngine
    <3>6. CASE PrepareReturns(t)
      BY <2>a, <3>6 DEF PrepareReturns, LeaveEngine
    <3>7. CASE StepEnters(t)
      BY <2>a, <3>7 DEF StepEnters, EnterEngine
    <3>8. CASE StepReturnsRow(t)
      BY <2>a, <3>8 DEF StepReturnsRow, LeaveEngine
    <3>9. CASE StepReturnsLast(t)
      BY <2>a, <3>9 DEF StepReturnsLast, LeaveEngine
    <3>10. CASE Finalize(t)
      BY <2>a, <3>10 DEF Finalize
    <3>11. CASE DecodeFails(t)
      BY <2>a, <3>11 DEF DecodeFails
    <3> QED BY <2>3, <3>1, <3>2, <3>3, <3>4, <3>5, <3>6, <3>7, <3>8, <3>9, <3>10,
         <3>11 DEF Query
  <2>4. CASE Script(t)
    <3>1. CASE BeginScript(t)
      BY <2>a, <3>1 DEF BeginScript
    <3>2. CASE ScriptOnClosed(t)
      BY <2>a, <3>2 DEF ScriptOnClosed
    <3>3. CASE ScriptReadsHandle(t)
      BY <2>a, <3>3 DEF ScriptReadsHandle, ReadHandle
    <3>4. CASE ScriptEnters(t)
      BY <2>a, <3>4 DEF ScriptEnters, EnterEngine, UseHandle
    <3>5. CASE ScriptReturns(t)
      BY <2>a, <3>5 DEF ScriptReturns, LeaveEngine
    <3> QED BY <2>4, <3>1, <3>2, <3>3, <3>4, <3>5 DEF Script
  <2>5. CASE Dispatch(t)
    <3>1. ASSUME NEW k \in Kinds, Fire(t, k) PROVE ClearInv'
      BY <2>a, <3>1 DEF Fire, SqlCalls
    <3>2. CASE CopyCallbacks(t)
      BY <2>a, <3>2 DEF CopyCallbacks
    <3>3. ASSUME NEW x \in Tokens, CallValidator(t, x) PROVE ClearInv'
      BY <2>a, <3>3 DEF CallValidator, Invoke
    <3>4. ASSUME NEW x \in Tokens, CallObserver(t, x) PROVE ClearInv'
      BY <2>a, <3>4 DEF CallObserver, Invoke
    <3>5. CASE ValidatorDenies(t)
      BY <2>a, <3>5 DEF ValidatorDenies
    <3>6. CASE CallbackReturns(t)
      BY <2>a, <3>6 DEF CallbackReturns
    <3>7. CASE EndDispatch(t)
      BY <2>a, <3>7 DEF EndDispatch, SqlCalls
    <3> QED BY <2>5, <3>1, <3>2, <3>3, <3>4, <3>5, <3>6, <3>7 DEF Dispatch
  <2>6. CASE Close(t)
    <3>1. CASE BeginClose(t)
      BY <2>a, <3>1 DEF BeginClose, ReadHandle, Closing, CloseInProgress
    <3>2. CASE ClearHook(t)
      BY <2>a, <3>2 DEF ClearHook, NextToClear
    <3>3. CASE ResetBuckets(t)
      BY <2>a, <3>3 DEF ResetBuckets
    <3>4. CASE CloseDatabase(t)
      BY <2>a, <3>4 DEF CloseDatabase, UseHandle
    <3>5. CASE NilHandle(t)
      BY <2>a, <3>5 DEF NilHandle
    <3> QED BY <2>6, <3>1, <3>2, <3>3, <3>4, <3>5 DEF Close
  <2>7. CASE UndefinedCall(t)
    BY <2>a, <2>7 DEF UndefinedCall
  <2> QED BY <2>1, <2>2, <2>3, <2>4, <2>5, <2>6, <2>7 DEF Step
<1> QED BY <1>1, <1>2, TypeCorrect, CloseIsOrderly, PTL DEF Spec

(* An observer that nobody cancels stays registered, whatever happens to   *)
(* the validator of its kind and to the other callbacks (ObserverBuckets   *)
(* keeps observers by id).                                                 *)
THEOREM ObserversStay == Spec => []ObserverStays
<1>1. Init => ObserverStays
  BY Zenon DEF Init, ObserverStays
<1>2. ObserverStays /\ TypeInv /\ LockInv /\ TokenInv /\ BucketInv /\ [Next]_vars => ObserverStays'
  <2>1. CASE UNCHANGED vars
    BY <2>1 DEF vars, shared, connection, buckets, engine, locals, tokens,
         ObserverStays,
                Closing, CloseInProgress, Cancelling
  <2>2. CASE Next
    <3> SUFFICES ASSUME ObserverStays, TypeInv, LockInv, TokenInv, BucketInv,
         NEW t \in Threads, Step(t),
                        ~Closing', NEW y \in Tokens \ Validators,
                        status'[y] = "live", ~Cancelling(y)'
                 PROVE  y \in registered'
      BY <2>2 DEF Next, ObserverStays
    <3>a. ~Closing /\ (status[y] = "live" /\ ~Cancelling(y) => y \in registered)
      BY <2>2, ClosingStays DEF ObserverStays
    <3>b. /\ pc \in [Threads -> Steps] /\ tok \in [Threads -> Tokens \cup {NoToken}]
          /\ status \in [Tokens -> {"unused", "adding", "live", "cancelled"}]
          /\ \A u \in Threads : Adding(u) \/ pc[u] \in InCancel => tok[u] \in Tokens
      BY DEF TypeInv, TypeOK
    <3> USE DEF Cancelling, Adding, InCancel, Goto, connection, buckets, engine,
         locals, tokens, shared
      <3>1. CASE Add(t)
        <4>1. ASSUME NEW x \in Tokens, BeginAdd(t, x) PROVE y \in registered'
          BY <3>a, <3>b, <4>1 DEF BeginAdd
        <4>2. CASE AddToHook(t)
          BY <3>a, <3>b, <4>2 DEF AddToHook, AddReturns, Replaced, Removed
        <4>3. CASE AddFirst(t)
          BY <3>a, <3>b, <4>3 DEF AddFirst, ReadHandle, Replaced, Removed
        <4>4. CASE Install(t)
          BY <3>a, <3>b, <4>4 DEF Install, AddReturns, UseHandle, BucketInv
        <4> QED BY <3>1, <4>1, <4>2, <4>3, <4>4 DEF Add
      <3>2. CASE Cancel(t)
        <4>1. ASSUME NEW x \in Tokens, BeginCancel(t, x) PROVE y \in registered'
          BY <3>a, <3>b, <4>1 DEF BeginCancel, InCallback
        <4>2. CASE CancelOne(t)
          BY <3>a, <3>b, <4>2 DEF CancelOne, CancelReturns, Removed
        <4>3. CASE CancelLast(t)
          BY <3>a, <3>b, <4>3 DEF CancelLast, ReadHandle, Removed
        <4>4. CASE Uninstall(t)
          BY <3>a, <3>b, <4>4 DEF Uninstall, CancelReturns, UseHandle, BucketInv,
               InCallback
        <4> QED BY <3>2, <4>1, <4>2, <4>3, <4>4 DEF Cancel
      <3>3. CASE Query(t)
        <4>1. CASE BeginQuery(t)
          BY <3>a, <3>b, <4>1 DEF BeginQuery
        <4>2. CASE QueryReadsHandle(t)
          BY <3>a, <3>b, <4>2 DEF QueryReadsHandle, ReadHandle
        <4>3. CASE PrepareMisuse(t)
          BY <3>a, <3>b, <4>3 DEF PrepareMisuse
        <4>4. CASE PrepareEnters(t)
          BY <3>a, <3>b, <4>4 DEF PrepareEnters, EnterEngine, UseHandle
        <4>5. CASE PrepareFails(t)
          BY <3>a, <3>b, <4>5 DEF PrepareFails, LeaveEngine
        <4>6. CASE PrepareReturns(t)
          BY <3>a, <3>b, <4>6 DEF PrepareReturns, LeaveEngine
        <4>7. CASE StepEnters(t)
          BY <3>a, <3>b, <4>7 DEF StepEnters, EnterEngine
        <4>8. CASE StepReturnsRow(t)
          BY <3>a, <3>b, <4>8 DEF StepReturnsRow, LeaveEngine
        <4>9. CASE StepReturnsLast(t)
          BY <3>a, <3>b, <4>9 DEF StepReturnsLast, LeaveEngine
        <4>10. CASE Finalize(t)
          BY <3>a, <3>b, <4>10 DEF Finalize
        <4>11. CASE DecodeFails(t)
          BY <3>a, <3>b, <4>11 DEF DecodeFails
        <4> QED BY <3>3, <4>1, <4>2, <4>3, <4>4, <4>5, <4>6, <4>7, <4>8, <4>9,
             <4>10, <4>11 DEF Query
      <3>4. CASE Script(t)
        <4>1. CASE BeginScript(t)
          BY <3>a, <3>b, <4>1 DEF BeginScript
        <4>2. CASE ScriptOnClosed(t)
          BY <3>a, <3>b, <4>2 DEF ScriptOnClosed
        <4>3. CASE ScriptReadsHandle(t)
          BY <3>a, <3>b, <4>3 DEF ScriptReadsHandle, ReadHandle
        <4>4. CASE ScriptEnters(t)
          BY <3>a, <3>b, <4>4 DEF ScriptEnters, EnterEngine, UseHandle
        <4>5. CASE ScriptReturns(t)
          BY <3>a, <3>b, <4>5 DEF ScriptReturns, LeaveEngine
        <4> QED BY <3>4, <4>1, <4>2, <4>3, <4>4, <4>5 DEF Script
      <3>5. CASE Dispatch(t)
        <4>1. ASSUME NEW k \in Kinds, Fire(t, k) PROVE y \in registered'
          BY <3>a, <3>b, <4>1 DEF Fire, SqlCalls
        <4>2. CASE CopyCallbacks(t)
          BY <3>a, <3>b, <4>2 DEF CopyCallbacks, Listeners, Listening
        <4>3. ASSUME NEW x \in Tokens, CallValidator(t, x) PROVE y \in registered'
          BY <3>a, <3>b, <4>3 DEF CallValidator, Invoke
        <4>4. ASSUME NEW x \in Tokens, CallObserver(t, x) PROVE y \in registered'
          BY <3>a, <3>b, <4>4 DEF CallObserver, Invoke
        <4>5. CASE ValidatorDenies(t)
          BY <3>a, <3>b, <4>5 DEF ValidatorDenies
        <4>6. CASE CallbackReturns(t)
          BY <3>a, <3>b, <4>6 DEF CallbackReturns, InCallback
        <4>7. CASE EndDispatch(t)
          BY <3>a, <3>b, <4>7 DEF EndDispatch, SqlCalls
        <4> QED BY <3>5, <4>1, <4>2, <4>3, <4>4, <4>5, <4>6, <4>7 DEF Dispatch
      <3>6. CASE Close(t)
        <4>1. CASE BeginClose(t)
          BY <3>a, <3>b, <4>1 DEF BeginClose, ReadHandle
        <4>2. CASE ClearHook(t)
          BY <3>a, <3>b, <4>2 DEF ClearHook, Closing, CloseInProgress, CloseSteps
        <4>3. CASE ResetBuckets(t)
          BY <3>a, <3>b, <4>3 DEF ResetBuckets, Closing, CloseInProgress, CloseSteps
        <4>4. CASE CloseDatabase(t)
          BY <3>a, <3>b, <4>4 DEF CloseDatabase, UseHandle, Closing,
               CloseInProgress, CloseSteps
        <4>5. CASE NilHandle(t)
          BY <3>a, <3>b, <4>5 DEF NilHandle, Closing, CloseInProgress, CloseSteps
        <4> QED BY <3>6, <4>1, <4>2, <4>3, <4>4, <4>5 DEF Close
      <3>7. CASE UndefinedCall(t)
        BY <3>a, <3>b, <3>7 DEF UndefinedCall
      <3> QED BY <3>1, <3>2, <3>3, <3>4, <3>5, <3>6, <3>7 DEF Step
  <2> QED BY <2>1, <2>2
<1> QED BY <1>1, <1>2, TypeCorrect, Locking, TokensInOrder, BucketsInOrder,
     PTL DEF Spec

(* A registered callback has its C hook set until the connection closes:   *)
(* no interleaving of additions and cancellations loses a dispatcher.      *)
THEOREM RegisteredAreHeard == Spec => []RegisteredIsHeard
<1>1. SlotInv /\ BucketInv /\ TokenInv => RegisteredIsHeard
  <2> SUFFICES ASSUME SlotInv, BucketInv, TokenInv, ~Closing,
                      NEW x \in registered, status[x] = "live"
               PROVE  KindOf[x] \in slot
    BY DEF RegisteredIsHeard
  <2>1. KindOf[x] \in slot \/ Installing(KindOf[x])
    BY DEF SlotInv, SlotsAgree, BucketInv
  <2>2. ~Installing(KindOf[x])
    BY DEF Installing, BucketInv, TokenInv, Adding
  <2> QED BY <2>1, <2>2
<1> QED BY <1>1, SlotsFollowFlags, BucketsInOrder, TokensInOrder, PTL

(* No update, commit or rollback hook stays set, the buckets unlocked,     *)
(* with nobody listening to it.                                            *)
THEOREM UnusedAreTornDown == Spec => []UnusedIsTornDown
<1>1. SlotInv /\ BucketInv /\ LockInv => UnusedIsTornDown
  <2> SUFFICES ASSUME SlotInv, BucketInv, LockInv, ~Closing, bucketLock = NoThread,
                      NEW k \in slot, k # "authorizer"
               PROVE  \E x \in registered : KindOf[x] = k
    BY DEF UnusedIsTornDown, TornDown, Listeners, Listening
  <2>1. k \in installed \/ Uninstalling(k)
    BY DEF SlotInv, SlotsAgree
  <2>2. ~Uninstalling(k)
    BY ThreadsAssumption DEF Uninstalling, LockInv, LockDiscipline, HoldsBuckets
  <2> QED BY <2>1, <2>2 DEF BucketInv
<1> QED BY <1>1, SlotsFollowFlags, BucketsInOrder, Locking, PTL

(* A cancelled callback is entered at most once more.                      *)
THEOREM OneLateCallAtMost == Spec => []AtMostOneLateCall
<1>1. LateInv => AtMostOneLateCall
  BY DEF LateInv, AtMostOneLateCall
<1> QED BY <1>1, LateCallsAreCounted, PTL

(* No query steps or finalizes a statement of a freed database.            *)
THEOREM StatementsKeepTheDatabase == Spec => []StatementKeepsOpen
<1>1. OpenInv /\ TypeInv => StatementKeepsOpen
  BY DEF OpenInv, InStatement, StatementKeepsOpen, TypeInv, TypeOK
<1> QED BY <1>1, StatementsKeepOpen, TypeCorrect, PTL

(* For a client that awaits its jobs before close(), tokens may be         *)
(* cancelled at any time: no call uses a freed or null database.           *)
THEOREM ClosingIsSafe == Spec => []NoUndefinedBehaviour
<1>1. CloseInv => NoUndefinedBehaviour
  BY DEF CloseInv, NoUndefinedBehaviour
<1> QED BY <1>1, CloseIsOrderly, PTL

(* A connection that such a client has closed is silent: no hook is set,   *)
(* nobody listens, and no thread is in the engine; its database is freed,  *)
(* unless a query leaked a statement (SQLiteStatement.columns, data(at:)). *)
THEOREM ClosedConnectionIsSilent == Spec => []ClosedIsSilent
<1>1. ClearInv /\ CloseInv /\ LockInv /\ TypeInv => ClosedIsSilent
  <2> SUFFICES ASSUME ClearInv, CloseInv, LockInv, TypeInv, CloseAwaits,
       handle = "nil"
               PROVE  /\ db = IF leaked THEN "open" ELSE "freed"
                      /\ slot = {} /\ registered = {} /\ installed = {}
                      /\ \A t \in Threads : ~InEngine(t) /\ ~HoldsBuckets(t)
    BY DEF ClosedIsSilent
  <2>1. /\ slot = {} /\ registered = {} /\ installed = {}
        /\ bucketLock = NoThread /\ dbMutex = NoThread
        /\ db = IF leaked THEN "open" ELSE "freed"
    BY DEF ClearInv, CloseInv, FreedAtTheEnd, ClearedIsEmpty, Cleared, TypeInv, TypeOK
  <2> QED BY <2>1, ThreadsAssumption DEF LockInv, LockDiscipline
<1> QED BY <1>1, HooksAreCleared, CloseIsOrderly, Locking, TypeCorrect, PTL

(* If every thread that has something to do is stuck, two threads hold     *)
(* the two locks and wait for each other: there is no other way to stop.   *)
THEOREM StallsAreInversions == Spec => []StallsOnlyByInversion
<1>1. TypeInv /\ LockInv => StallsOnlyByInversion
  <2> SUFFICES ASSUME TypeInv, LockInv, NEW s \in Threads, pc[s] # "idle",
                      \A t \in Threads : pc[t] # "idle" => WaitsForBuckets(t) \/ WaitsForEngine(t)
               PROVE  Inverted
    BY DEF StallsOnlyByInversion
  <2>1. ASSUME NEW u \in Threads, dbMutex = u PROVE Inverted
    <3>1. InEngine(u)
      BY <2>1 DEF LockInv, LockDiscipline
    <3>2. WaitsForBuckets(u)
      BY <2>1, <3>1 DEF InEngine, WaitsForEngine, SqlCalls, InDispatch,
           InCallback, InCancel
    <3>3. PICK w \in Threads : bucketLock = w
      BY <3>2 DEF WaitsForBuckets, TypeInv, TypeOK
    <3>4. WaitsForEngine(w)
      BY <3>3, ThreadsAssumption DEF LockInv, LockDiscipline, HoldsBuckets,
           WaitsForBuckets
    <3> QED BY <2>1, <3>2, <3>3, <3>4 DEF Inverted
  <2>2. ASSUME NEW u \in Threads, WaitsForEngine(u) PROVE Inverted
    BY <2>1, <2>2 DEF WaitsForEngine, TypeInv, TypeOK
  <2>3. CASE WaitsForBuckets(s)
    <3>1. PICK w \in Threads : bucketLock = w
      BY <2>3 DEF WaitsForBuckets, TypeInv, TypeOK
    <3>2. WaitsForEngine(w)
      BY <3>1, ThreadsAssumption DEF LockInv, LockDiscipline, HoldsBuckets,
           WaitsForBuckets
    <3> QED BY <2>2, <3>2
  <2> QED BY <2>2, <2>3
<1> QED BY <1>1, TypeCorrect, Locking, PTL

(* The hook that libsqlite3 fired is still set when the dispatcher copies  *)
(* the callbacks: whoever would unset it needs the connection mutex.       *)
THEOREM FiredStaysSet == Spec => []FiredInv
<1>1. Init => FiredInv
  BY ThreadsAssumption DEF Init, FiredInv, SqlCalls, InCallback
<1>2. FiredInv /\ TypeInv /\ LockInv /\ [Next]_vars => FiredInv'
  <2> SUFFICES ASSUME FiredInv, TypeInv, LockInv, NEW t \in Threads,
       Step(t) PROVE FiredInv'
    BY DEF Next, vars, shared, connection, buckets, engine, locals, tokens,
         FiredInv, SqlCalls, InCallback
  <2> USE ThreadsAssumption DEF FiredInv, SqlCalls, InCallback, Goto, connection,
       buckets, engine, locals, tokens, shared
  <2>a. /\ pc \in [Threads -> Steps]
        /\ base \in [Threads -> SqlCalls]
        /\ ret \in [Threads -> InCallback \cup {"idle"}]
        /\ event \in [Threads -> Kinds]
    BY DEF TypeInv, TypeOK
  <2>1. CASE Add(t)
    <3>1. ASSUME NEW x \in Tokens, BeginAdd(t, x) PROVE FiredInv'
      BY <2>a, <3>1 DEF BeginAdd
    <3>2. CASE AddToHook(t)
      BY <2>a, <3>2 DEF AddToHook, AddReturns
    <3>3. CASE AddFirst(t)
      BY <2>a, <3>3 DEF AddFirst, ReadHandle
    <3>4. CASE Install(t)
      BY <2>a, <3>4 DEF Install, AddReturns, UseHandle, LockInv, LockDiscipline,
           InEngine, InDispatch, EngineFree
    <3> QED BY <2>1, <3>1, <3>2, <3>3, <3>4 DEF Add
  <2>2. CASE Cancel(t)
    <3>1. ASSUME NEW x \in Tokens, BeginCancel(t, x) PROVE FiredInv'
      BY <2>a, <3>1 DEF BeginCancel
    <3>2. CASE CancelOne(t)
      BY <2>a, <3>2 DEF CancelOne, CancelReturns
    <3>3. CASE CancelLast(t)
      BY <2>a, <3>3 DEF CancelLast, ReadHandle
    <3>4. CASE Uninstall(t)
      BY <2>a, <3>4 DEF Uninstall, CancelReturns, UseHandle, LockInv,
           LockDiscipline, InEngine, InDispatch, EngineFree
    <3> QED BY <2>2, <3>1, <3>2, <3>3, <3>4 DEF Cancel
  <2>3. CASE Query(t)
    <3>1. CASE BeginQuery(t)
      BY <2>a, <3>1 DEF BeginQuery
    <3>2. CASE QueryReadsHandle(t)
      BY <2>a, <3>2 DEF QueryReadsHandle, ReadHandle
    <3>3. CASE PrepareMisuse(t)
      BY <2>a, <3>3 DEF PrepareMisuse
    <3>4. CASE PrepareEnters(t)
      BY <2>a, <3>4 DEF PrepareEnters, EnterEngine, UseHandle
    <3>5. CASE PrepareFails(t)
      BY <2>a, <3>5 DEF PrepareFails, LeaveEngine
    <3>6. CASE PrepareReturns(t)
      BY <2>a, <3>6 DEF PrepareReturns, LeaveEngine
    <3>7. CASE StepEnters(t)
      BY <2>a, <3>7 DEF StepEnters, EnterEngine
    <3>8. CASE StepReturnsRow(t)
      BY <2>a, <3>8 DEF StepReturnsRow, LeaveEngine
    <3>9. CASE StepReturnsLast(t)
      BY <2>a, <3>9 DEF StepReturnsLast, LeaveEngine
    <3>10. CASE Finalize(t)
      BY <2>a, <3>10 DEF Finalize
    <3>11. CASE DecodeFails(t)
      BY <2>a, <3>11 DEF DecodeFails
    <3> QED BY <2>3, <3>1, <3>2, <3>3, <3>4, <3>5, <3>6, <3>7, <3>8, <3>9,
         <3>10, <3>11 DEF Query
  <2>4. CASE Script(t)
    <3>1. CASE BeginScript(t)
      BY <2>a, <3>1 DEF BeginScript
    <3>2. CASE ScriptOnClosed(t)
      BY <2>a, <3>2 DEF ScriptOnClosed
    <3>3. CASE ScriptReadsHandle(t)
      BY <2>a, <3>3 DEF ScriptReadsHandle, ReadHandle
    <3>4. CASE ScriptEnters(t)
      BY <2>a, <3>4 DEF ScriptEnters, EnterEngine, UseHandle
    <3>5. CASE ScriptReturns(t)
      BY <2>a, <3>5 DEF ScriptReturns, LeaveEngine
    <3> QED BY <2>4, <3>1, <3>2, <3>3, <3>4, <3>5 DEF Script
  <2>5. CASE Dispatch(t)
    <3>1. ASSUME NEW k \in Kinds, Fire(t, k) PROVE FiredInv'
      BY <2>a, <3>1 DEF Fire
    <3>2. CASE CopyCallbacks(t)
      BY <2>a, <3>2 DEF CopyCallbacks, Listeners, Listening
    <3>3. ASSUME NEW x \in Tokens, CallValidator(t, x) PROVE FiredInv'
      BY <2>a, <3>3 DEF CallValidator, Invoke
    <3>4. ASSUME NEW x \in Tokens, CallObserver(t, x) PROVE FiredInv'
      BY <2>a, <3>4 DEF CallObserver, Invoke
    <3>5. CASE ValidatorDenies(t)
      BY <2>a, <3>5 DEF ValidatorDenies
    <3>6. CASE CallbackReturns(t)
      BY <2>a, <3>6 DEF CallbackReturns
    <3>7. CASE EndDispatch(t)
      BY <2>a, <3>7 DEF EndDispatch
    <3> QED BY <2>5, <3>1, <3>2, <3>3, <3>4, <3>5, <3>6, <3>7 DEF Dispatch
  <2>6. CASE Close(t)
    <3>1. CASE BeginClose(t)
      BY <2>a, <3>1 DEF BeginClose, ReadHandle
    <3>2. CASE ClearHook(t)
      BY <2>a, <3>2 DEF ClearHook, LockInv, LockDiscipline, InEngine, InDispatch,
           EngineFree
    <3>3. CASE ResetBuckets(t)
      BY <2>a, <3>3 DEF ResetBuckets
    <3>4. CASE CloseDatabase(t)
      BY <2>a, <3>4 DEF CloseDatabase, UseHandle, LockInv, LockDiscipline,
           InEngine, InDispatch, EngineFree
    <3>5. CASE NilHandle(t)
      BY <2>a, <3>5 DEF NilHandle
    <3> QED BY <2>6, <3>1, <3>2, <3>3, <3>4, <3>5 DEF Close
  <2>7. CASE UndefinedCall(t)
    BY <2>a, <2>7 DEF UndefinedCall
  <2> QED BY <2>1, <2>2, <2>3, <2>4, <2>5, <2>6, <2>7 DEF Step
<1> QED BY <1>1, <1>2, TypeCorrect, Locking, PTL DEF Spec

(* The two locks, the flags and the C hooks implement the abstract         *)
(* delivery of events: each step of the code is one step of HookDelivery   *)
(* or invisible to it.                                                     *)
THEOREM Refinement == Spec => ImplementsHookDelivery
<1> USE ThreadsAssumption
<1>1. Init => Delivery!Init
  BY DEF Init, Delivery!Init, heard, pending, asking
<1>2. TypeInv /\ LockInv /\ TokenInv /\ BucketInv /\ FiredInv /\ [Next]_vars
         => [Delivery!Next]_(Delivery!vars)
  <2>1. CASE UNCHANGED vars
    BY <2>1 DEF vars, shared, connection, buckets, engine, locals, tokens,
         Delivery!vars, heard, pending, asking
  <2>2. CASE Next
    <3> SUFFICES ASSUME TypeInv, LockInv, TokenInv, BucketInv, FiredInv,
         NEW t \in Threads, Step(t)
                 PROVE  Delivery!Next \/ UNCHANGED <<heard, pending, asking>>
      BY <2>2 DEF Next, Delivery!vars
    <3>a. /\ pc \in [Threads -> Steps]
          /\ base \in [Threads -> SqlCalls]
          /\ ret \in [Threads -> InCallback \cup {"idle"}]
          /\ todo \in [Threads -> SUBSET Tokens]
          /\ registered \subseteq Tokens
          /\ tok \in [Threads -> Tokens \cup {NoToken}]
          /\ \A u \in Threads : Adding(u) \/ pc[u] \in InCancel => tok[u] \in Tokens
          /\ dbMutex \in Threads \cup {NoThread}
      BY DEF TypeInv, TypeOK
    <3> USE DEF heard, pending, asking, SqlCalls, InCallback, InCancel, Adding,
         Goto, connection, buckets, engine, locals, tokens, shared
        <3>1. CASE Add(t)
        <4>1. ASSUME NEW x \in Tokens, BeginAdd(t, x)
              PROVE Delivery!Next \/ UNCHANGED <<heard, pending, asking>>
          BY <3>a, <4>1 DEF BeginAdd
        <4>2. CASE AddToHook(t)
        <5>1. UNCHANGED <<pending, asking>>
          BY <3>a, <4>2 DEF AddToHook, AddReturns, LockInv, LocalsInv,
               LockDiscipline, InEngine, InDispatch
        <5>2. tok[t] \in Tokens
          BY <3>a, <4>2 DEF AddToHook
        <5>3. CASE KindOf[tok[t]] \in slot
          <6>1. heard' = (heard \ Delivery!Replaced(tok[t])) \cup {tok[t]}
            BY <3>a, <5>3, <4>2, TokensAssumption DEF AddToHook, AddReturns,
                 Delivery!Replaced, Delivery!Removed, Replaced, Removed
          <6> QED BY <6>1, <5>1, <5>2 DEF Delivery!Register, Delivery!Next
        <5>4. CASE KindOf[tok[t]] \notin slot
          <6>1. heard' = heard
            BY <3>a, <5>4, <4>2, TokensAssumption DEF AddToHook, AddReturns,
                 Delivery!Replaced, Delivery!Removed, Replaced, Removed
          <6> QED BY <6>1, <5>1
        <5> QED BY <5>3, <5>4
        <4>3. CASE AddFirst(t)
        <5>1. UNCHANGED <<pending, asking>>
          BY <3>a, <4>3 DEF AddFirst, ReadHandle, LockInv, LocalsInv,
               LockDiscipline, InEngine, InDispatch
        <5>2. tok[t] \in Tokens
          BY <3>a, <4>3 DEF AddFirst
        <5>3. CASE KindOf[tok[t]] \in slot
          <6>1. heard' = (heard \ Delivery!Replaced(tok[t])) \cup {tok[t]}
            BY <3>a, <5>3, <4>3, TokensAssumption DEF AddFirst, ReadHandle,
                 Delivery!Replaced, Delivery!Removed, Replaced, Removed
          <6> QED BY <6>1, <5>1, <5>2 DEF Delivery!Register, Delivery!Next
        <5>4. CASE KindOf[tok[t]] \notin slot
          <6>1. heard' = heard
            BY <3>a, <5>4, <4>3, TokensAssumption DEF AddFirst, ReadHandle,
                 Delivery!Replaced, Delivery!Removed, Replaced, Removed
          <6> QED BY <6>1, <5>1
        <5> QED BY <5>3, <5>4
        <4>4. CASE Install(t)
        <5>1. UNCHANGED <<pending, asking>>
          BY <3>a, <4>4 DEF Install, AddReturns, UseHandle, LockInv, LocalsInv,
               LockDiscipline, InEngine, InDispatch
        <5>2. /\ tok[t] \in Tokens /\ tok[t] \in registered
              /\ \A x \in registered : KindOf[x] = KindOf[tok[t]] => x = tok[t]
          BY <3>a, <4>4 DEF Install, BucketInv
        <5>3. CASE KindOf[tok[t]] \in slot
          BY <5>1, <5>3, <4>4 DEF Install
        <5>4. CASE KindOf[tok[t]] \notin slot
          <6>1. Delivery!Replaced(tok[t]) \cap heard \subseteq {tok[t]}
            BY <5>2, TokensAssumption DEF Delivery!Replaced, Delivery!Removed,
                 Replaced, Removed
          <6>2. heard' = (heard \ Delivery!Replaced(tok[t])) \cup {tok[t]}
            <7>1. registered' = registered /\ slot' = slot \cup {KindOf[tok[t]]}
              BY <4>4 DEF Install
            <7>2. heard' = heard \cup {tok[t]}
              BY <7>1, <5>2
            <7> QED BY <6>1, <7>2
          <6> QED BY <6>2, <5>1, <5>2 DEF Delivery!Register, Delivery!Next
        <5> QED BY <5>3, <5>4
        <4> QED BY <3>1, <4>1, <4>2, <4>3, <4>4 DEF Add
      <3>2. CASE Cancel(t)
        <4>1. ASSUME NEW x \in Tokens, BeginCancel(t, x)
              PROVE Delivery!Next \/ UNCHANGED <<heard, pending, asking>>
        <5>1. UNCHANGED <<pending, asking>>
          BY <3>a, <4>1 DEF BeginCancel, LockInv, LocalsInv, LockDiscipline,
               InEngine, InDispatch
        <5> QED BY <5>1, <4>1 DEF BeginCancel
        <4>2. CASE CancelOne(t)
        <5>1. UNCHANGED <<pending, asking>>
          BY <3>a, <4>2 DEF CancelOne, CancelReturns, LockInv, LocalsInv,
               LockDiscipline, InEngine, InDispatch
        <5>2. tok[t] \in Tokens
          BY <3>a, <4>2 DEF CancelOne
        <5>3. heard' = heard \ Delivery!Removed(tok[t])
          BY <3>a, <4>2, TokensAssumption DEF CancelOne, Delivery!Replaced,
               Delivery!Removed, Replaced, Removed
        <5> QED BY <5>1, <5>2, <5>3 DEF Delivery!Cancel, Delivery!Next
        <4>3. CASE CancelLast(t)
        <5>1. UNCHANGED <<pending, asking>>
          BY <3>a, <4>3 DEF CancelLast, ReadHandle, LockInv, LocalsInv,
               LockDiscipline, InEngine, InDispatch
        <5>2. tok[t] \in Tokens
          BY <3>a, <4>3 DEF CancelLast
        <5>3. heard' = heard \ Delivery!Removed(tok[t])
          BY <3>a, <4>3, TokensAssumption DEF CancelLast, Delivery!Replaced,
               Delivery!Removed, Replaced, Removed
        <5> QED BY <5>1, <5>2, <5>3 DEF Delivery!Cancel, Delivery!Next
        <4>4. CASE Uninstall(t)
        <5>1. UNCHANGED <<pending, asking>>
          BY <3>a, <4>4 DEF Uninstall, CancelReturns, UseHandle, LockInv,
               LocalsInv, LockDiscipline, InEngine, InDispatch
        <5>2. \A x \in registered : KindOf[x] # CancelKind(tok[t])
          BY <4>4 DEF Uninstall, BucketInv
        <5>3. registered' = registered /\ slot' = slot \ {CancelKind(tok[t])}
          BY <4>4 DEF Uninstall
        <5> QED BY <5>1, <5>2, <5>3
        <4> QED BY <3>2, <4>1, <4>2, <4>3, <4>4 DEF Cancel
      <3>3. CASE Query(t)
        <4>1. CASE BeginQuery(t)
          BY <3>a, <4>1 DEF BeginQuery
        <4>2. CASE QueryReadsHandle(t)
          BY <3>a, <4>2 DEF QueryReadsHandle, ReadHandle
        <4>3. CASE PrepareMisuse(t)
          BY <3>a, <4>3 DEF PrepareMisuse
        <4>4. CASE PrepareEnters(t)
          BY <3>a, <4>4 DEF PrepareEnters, EnterEngine, UseHandle, LockInv,
               LocalsInv, LockDiscipline, InEngine, InDispatch
        <4>5. CASE PrepareFails(t)
          BY <3>a, <4>5 DEF PrepareFails, LeaveEngine, LockInv, LocalsInv,
               LockDiscipline, InEngine, InDispatch
        <4>6. CASE PrepareReturns(t)
          BY <3>a, <4>6 DEF PrepareReturns, LeaveEngine, LockInv, LocalsInv,
               LockDiscipline, InEngine, InDispatch
        <4>7. CASE StepEnters(t)
          BY <3>a, <4>7 DEF StepEnters, EnterEngine, LockInv, LocalsInv,
               LockDiscipline, InEngine, InDispatch
        <4>8. CASE StepReturnsRow(t)
          BY <3>a, <4>8 DEF StepReturnsRow, LeaveEngine, LockInv, LocalsInv,
               LockDiscipline, InEngine, InDispatch
        <4>9. CASE StepReturnsLast(t)
          BY <3>a, <4>9 DEF StepReturnsLast, LeaveEngine, LockInv, LocalsInv,
               LockDiscipline, InEngine, InDispatch
        <4>10. CASE Finalize(t)
          BY <3>a, <4>10 DEF Finalize
        <4>11. CASE DecodeFails(t)
          BY <3>a, <4>11 DEF DecodeFails
        <4> QED BY <3>3, <4>1, <4>2, <4>3, <4>4, <4>5, <4>6, <4>7, <4>8, <4>9,
             <4>10, <4>11 DEF Query
      <3>4. CASE Script(t)
        <4>1. CASE BeginScript(t)
          BY <3>a, <4>1 DEF BeginScript
        <4>2. CASE ScriptOnClosed(t)
          BY <3>a, <4>2 DEF ScriptOnClosed
        <4>3. CASE ScriptReadsHandle(t)
          BY <3>a, <4>3 DEF ScriptReadsHandle, ReadHandle
        <4>4. CASE ScriptEnters(t)
          BY <3>a, <4>4 DEF ScriptEnters, EnterEngine, UseHandle, LockInv,
               LocalsInv, LockDiscipline, InEngine, InDispatch
        <4>5. CASE ScriptReturns(t)
          BY <3>a, <4>5 DEF ScriptReturns, LeaveEngine, LockInv, LocalsInv,
               LockDiscipline, InEngine, InDispatch
        <4> QED BY <3>4, <4>1, <4>2, <4>3, <4>4, <4>5 DEF Script
      <3>5. CASE Dispatch(t)
        <4>1. ASSUME NEW k \in Kinds, Fire(t, k)
              PROVE Delivery!Next \/ UNCHANGED <<heard, pending, asking>>
          BY <3>a, <4>1 DEF Fire, LockInv, LocalsInv, LockDiscipline, InEngine,
               InDispatch
        <4>2. CASE CopyCallbacks(t)
        <5>1. dbMutex = t /\ dbMutex' = t /\ t # NoThread /\ todo[t] = {} /\ ret[t] = "idle"
          BY <3>a, <4>2 DEF CopyCallbacks, LockInv, LocalsInv, LockDiscipline,
               InEngine, InDispatch
        <5>2. event[t] \in Kinds /\ event[t] \in slot
          BY <4>2 DEF CopyCallbacks, FiredInv, TypeInv, TypeOK
        <5>3. pending = {} /\ ~asking /\ ~asking'
          BY <3>a, <5>1, <4>2 DEF CopyCallbacks
        <5>4. heard' = heard
          BY <4>2 DEF CopyCallbacks
        <5>5. pending' = Delivery!Listening(event[t], heard)
          BY <3>a, <5>1, <5>2, <4>2 DEF CopyCallbacks, Listeners, Listening,
               Delivery!Listening
        <5> QED BY <5>2, <5>3, <5>4, <5>5 DEF Delivery!Deliver, Delivery!Next,
             Delivery!Kinds, Kinds
        <4>3. ASSUME NEW x \in Tokens, CallValidator(t, x)
              PROVE Delivery!Next \/ UNCHANGED <<heard, pending, asking>>
        <5>1. dbMutex = t /\ dbMutex' = t /\ t # NoThread /\ ret[t] = "idle" /\ ret'[t] = "idle"
          BY <3>a, <4>3 DEF CallValidator, Invoke, LockInv, LocalsInv,
               LockDiscipline, InEngine, InDispatch
        <5>2. pc[t] = "dispatching" /\ pc'[t] = "validating" /\ todo'[t] = todo[t] \ {x}
          BY <3>a, <4>3 DEF CallValidator, Invoke
        <5>3. heard' = heard
          BY <4>3 DEF CallValidator, Invoke
        <5>4. Delivery!Call(x)
          BY <5>1, <5>2, <5>3, <4>3 DEF CallValidator, Delivery!Call
        <5> QED BY <5>4 DEF Delivery!Next
        <4>4. ASSUME NEW x \in Tokens, CallObserver(t, x)
              PROVE Delivery!Next \/ UNCHANGED <<heard, pending, asking>>
        <5>1. dbMutex = t /\ dbMutex' = t /\ t # NoThread /\ ret[t] = "idle" /\ ret'[t] = "idle"
          BY <3>a, <4>4 DEF CallObserver, Invoke, LockInv, LocalsInv,
               LockDiscipline, InEngine, InDispatch
        <5>2. pc[t] = "dispatching" /\ pc'[t] = "calling" /\ todo'[t] = todo[t] \ {x}
          BY <3>a, <4>4 DEF CallObserver, Invoke
        <5>3. heard' = heard
          BY <4>4 DEF CallObserver, Invoke
        <5>4. Delivery!Call(x)
          BY <5>1, <5>2, <5>3, <4>4 DEF CallObserver, Delivery!Call
        <5> QED BY <5>4 DEF Delivery!Next
        <4>5. CASE ValidatorDenies(t)
        <5>1. dbMutex = t /\ dbMutex' = t /\ t # NoThread /\ ret[t] = "idle" /\ ret'[t] = "idle"
          BY <3>a, <4>5 DEF ValidatorDenies, LockInv, LocalsInv, LockDiscipline,
               InEngine, InDispatch
        <5>2. pc[t] = "validating" /\ pc'[t] = "dispatching" /\ todo'[t] = {}
          BY <3>a, <4>5 DEF ValidatorDenies
        <5>3. heard' = heard
          BY <4>5 DEF ValidatorDenies
        <5>4. Delivery!Answer(TRUE)
          BY <5>1, <5>2, <5>3 DEF Delivery!Answer
        <5> QED BY <5>4 DEF Delivery!Next
        <4>6. CASE CallbackReturns(t)
        <5>1. dbMutex = t /\ dbMutex' = t /\ t # NoThread /\ ret[t] = "idle" /\ ret'[t] = "idle"
          BY <3>a, <4>6 DEF CallbackReturns, LockInv, LocalsInv, LockDiscipline,
               InEngine, InDispatch
        <5>2. pc'[t] = "dispatching" /\ todo' = todo
          BY <3>a, <4>6 DEF CallbackReturns
        <5>3. heard' = heard /\ pending' = pending /\ ~asking'
          BY <5>1, <5>2, <4>6 DEF CallbackReturns
        <5>4. CASE asking
          <6>1. Delivery!Answer(FALSE)
            BY <5>3, <5>4 DEF Delivery!Answer
          <6> QED BY <6>1 DEF Delivery!Next
        <5>5. CASE ~asking
          <6>1. asking' = asking
            BY <5>3, <5>5 DEF asking
          <6> QED BY <6>1, <5>3
        <5> QED BY <5>4, <5>5
        <4>7. CASE EndDispatch(t)
          BY <3>a, <4>7 DEF EndDispatch, LockInv, LocalsInv, LockDiscipline,
               InEngine, InDispatch
        <4> QED BY <3>5, <4>1, <4>2, <4>3, <4>4, <4>5, <4>6, <4>7 DEF Dispatch
      <3>6. CASE Close(t)
        <4>1. CASE BeginClose(t)
          BY <3>a, <4>1 DEF BeginClose, ReadHandle
        <4>2. CASE ClearHook(t)
        <5>1. UNCHANGED <<pending, asking>>
          BY <3>a, <4>2 DEF ClearHook, LockInv, LocalsInv, LockDiscipline,
               InEngine, InDispatch
        <5>2. heard' = {x \in heard : KindOf[x] \notin {event[t]}}
          BY <3>a, <4>2 DEF ClearHook
        <5>3. {event[t]} \in SUBSET Kinds
          BY DEF TypeInv, TypeOK
        <5> QED BY <5>1, <5>2, <5>3 DEF Delivery!Silence, Delivery!Next,
             Delivery!Kinds, Kinds
        <4>3. CASE ResetBuckets(t)
        <5>1. UNCHANGED <<pending, asking>>
          BY <3>a, <4>3 DEF ResetBuckets, LockInv, LocalsInv, LockDiscipline,
               InEngine, InDispatch
        <5>2. heard' = {x \in heard : KindOf[x] \notin Kinds}
          BY <3>a, <4>3, TokensAssumption DEF ResetBuckets
        <5>3. Kinds \in SUBSET Kinds
          BY DEF TypeInv, TypeOK
        <5> QED BY <5>1, <5>2, <5>3 DEF Delivery!Silence, Delivery!Next,
             Delivery!Kinds, Kinds
        <4>4. CASE CloseDatabase(t)
        <5>1. UNCHANGED <<pending, asking>>
          BY <3>a, <4>4 DEF CloseDatabase, UseHandle, LockInv, LocalsInv,
               LockDiscipline, InEngine, InDispatch
        <5>2. CASE stmts = {} /\ ~leaked
          <6>1. slot' = {}
            BY <5>2, <4>4 DEF CloseDatabase
          <6>2. heard' = {x \in heard : KindOf[x] \notin Kinds}
            BY <3>a, <6>1, TokensAssumption
          <6> QED BY <5>1, <6>2 DEF Delivery!Silence, Delivery!Next,
               Delivery!Kinds, Kinds
        <5>3. CASE ~(stmts = {} /\ ~leaked)
          BY <5>1, <5>3, <4>4 DEF CloseDatabase
        <5> QED BY <5>2, <5>3
        <4>5. CASE NilHandle(t)
          BY <3>a, <4>5 DEF NilHandle
        <4> QED BY <3>6, <4>1, <4>2, <4>3, <4>4, <4>5 DEF Close
      <3>7. CASE UndefinedCall(t)
        BY <3>a, <3>7 DEF UndefinedCall
      <3> QED BY <3>1, <3>2, <3>3, <3>4, <3>5, <3>6, <3>7 DEF Step
  <2> QED BY <2>1, <2>2
<1> QED BY <1>1, <1>2, TypeCorrect, Locking, TokensInOrder, BucketsInOrder,
     FiredStaysSet, PTL
           DEF Spec, ImplementsHookDelivery, Delivery!Spec
=============================================================================
