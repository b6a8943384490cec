---------------------------- MODULE SQLiteHooksInv ----------------------------
(***************************************************************************)
(* The inductive invariants of SQLiteHooks: the safety properties stated   *)
(* there, strengthened with what holds between the steps of an operation.  *)
(* SQLiteHooks_proofs proves each one, for any threads and tokens.         *)
(***************************************************************************)
EXTENDS SQLiteHooks

Adding(t) == pc[t] \in {"addLock", "install"}

(* Adding and cancelling is about a token. *)
TypeInv ==
    /\ TypeOK
    /\ \A t \in Threads : Adding(t) \/ pc[t] \in InCancel => tok[t] \in Tokens

(* The locals that matter only inside an operation. *)
LocalsInv ==
    \A t \in Threads :
        /\ ret[t] # "idle" => pc[t] \in InCancel
        /\ pc[t] \in InDispatch \/ ret[t] # "idle" \/ todo[t] = {}
        /\ pc[t] = "hooked" => todo[t] = {}

LockInv == LocalsInv /\ LockDiscipline

(* A token is added once, by one thread. *)
TokenInv ==
    \A t \in Threads :
        /\ Adding(t) => /\ status[tok[t]] = "adding"
                        /\ \A u \in Threads : Adding(u) /\ tok[u] = tok[t] => u = t
        /\ pc[t] \in InCancel => status[tok[t]] \in {"live", "cancelled"}

(* The buckets and the flags under the bucket lock. *)
BucketInv ==
    /\ \A x \in registered :
          status[x] = "live" \/ \E t \in Threads : pc[t] = "install" /\ tok[t] = x
    /\ \A x \in registered : KindOf[x] \in installed
    /\ \A k \in installed \ {"authorizer"} : \E x \in registered : KindOf[x] = k
    /\ \A t \in Threads : pc[t] = "install" =>
          /\ tok[t] \in registered
          /\ \A x \in registered : KindOf[x] = KindOf[tok[t]] => x = tok[t]
    /\ \A t \in Threads : pc[t] = "uninstall" =>
          tok[t] \notin registered /\ CancelKind(tok[t]) \notin installed

(* The flags and the C slots agree but for the call that is being made. *)
Installing(k) == \E t \in Threads : pc[t] = "install" /\ KindOf[tok[t]] = k
Uninstalling(k) == \E t \in Threads : pc[t] = "uninstall" /\ CancelKind(tok[t]) = k
SlotsAgree ==
    /\ \A k \in installed : k \in slot \/ Installing(k)
    /\ \A k \in slot : k \in installed \/ Uninstalling(k)
SlotInv == ~Closing => SlotsAgree

(* A late call has been taken out of the only copy there was. *)
LateInv ==
    \A x \in Tokens :
        /\ late[x] <= 1
        /\ late[x] # 0 => status[x] = "cancelled" /\ \A t \in Threads : x \notin todo[t]

(* The hook being dispatched stays set until the callbacks are copied. *)
FiredInv == \A t \in Threads : pc[t] = "hooked" => event[t] \in slot

(* The database is open inside the engine and under a statement. *)
InStatement(t) ==
    \/ pc[t] \in {"stepCall", "stepping", "finalizeCall"}
    \/ (pc[t] \in InDispatch \/ ret[t] # "idle") /\ base[t] = "stepping"
OpenInv ==
    /\ \A t \in Threads : t \in stmts <=> InStatement(t)
    /\ db = "freed" => stmts = {} /\ ~leaked /\ dbMutex = NoThread

(* close() for a client that awaited its jobs: by now it is alone on the pool. *)
Cleared == handle = "nil" \/ \E t \in Threads : pc[t] \in {"closeDb", "nilHandle"}
AppsOnlyCancel ==
    \A t \in AppThreads : pc[t] = "idle" \/ (pc[t] \in InCancel /\ ret[t] = "idle")
CloserIsAlone ==
    \A t \in Threads, u \in PoolThreads : pc[t] \in CloseSteps /\ u # t => pc[u] = "idle"
ClearedIsEmpty ==
    Cleared => /\ registered = {} /\ installed = {} /\ bucketLock = NoThread
               /\ stmts = {} /\ dbMutex = NoThread
FreedAtTheEnd ==
    db = "freed" <=> /\ ~leaked
                     /\ handle = "nil" \/ \E t \in Threads : pc[t] = "nilHandle"
HandleWhileNeeded == \A t \in Threads : Adding(t) \/ pc[t] \in CloseSteps => handle = "db"
PointersAreGood ==
    \A t \in Threads : pc[t] \in HandleCalls \cup {"reset"} =>
        \/ ptr[t] = "db" /\ handle = "db" /\ db = "open"
        \/ ptr[t] = "nil" /\ handle = "nil" /\ pc[t] = "prepareCall"
CloseInv ==
    CloseAwaits => /\ fault = "none"
                   /\ AppsOnlyCancel /\ CloserIsAlone /\ ClearedIsEmpty
                   /\ FreedAtTheEnd /\ HandleWhileNeeded /\ PointersAreGood

(* clearAllHooks takes the C hooks out one by one, from the first to the     *)
(* last, and nobody puts one back.                                           *)
EventsAtRest == \A t \in Threads : pc[t] \in {"hooked", "clear"} \/ event[t] = "update"
ClearedBefore(k) ==
    CASE k = "update" -> {} [] k = "commit" -> {"update"}
      [] k = "rollback" -> {"update", "commit"} [] k = "authorizer" -> Kinds \ {k}
ClearInv ==
    /\ EventsAtRest
    /\ CloseAwaits =>
        /\ \A t \in Threads : pc[t] = "clear" => slot \cap ClearedBefore(event[t]) = {}
        /\ Cleared \/ (\E t \in Threads : pc[t] = "reset") => slot = {}
=============================================================================
