# A TLA+ model of SQLiteNIO

SQLiteNIO wraps one `sqlite3*` in a Swift object, `SQLiteConnection`, and runs
every call of libsqlite3 as a job of an `NIOThreadPool`. libsqlite3 is vendored as
one C file; it is most of the repository's code, and the library's promises about
data rest on it. Swift sources are cited below relative to
`src/Sources/SQLiteNIO/`, C lines by number in
`src/Sources/VaporCSQLite/sqlite_nio_sqlite3.c`.

The project models two layers. Above: the concurrent core of SQLiteNIO, that is the
hook machinery with its two locks, the life of the raw handle, the way queries
travel through the thread pool and the event loop, and the custom functions that
statements call back into. Below: how connections of
several pools and processes share a database file, that is the file locks of the
unix VFS, transactions with a rollback journal and with a write-ahead log, through
deaths of processes and losses of power. TLC checks small instances; TLAPS proves the
safety properties of the hook machinery, of the query pipeline, of custom functions,
of the file locks, of the rollback journal and of the write-ahead log, and three
refinements, for any values of the constants.

## 1. Inventory

| Part | State | Operations | Hard part | What makes it correct |
|---|---|---|---|---|
| Hook buckets (`SQLiteConnection+Hooks.swift`) | `ObserverBuckets`: callbacks by id, one validator for commits and one for authorizations, four `...DispatcherInstalled` flags, all behind one non-recursive lock | `add...Observer`, `set...Validator`, token `cancel()` / `deinit`, `clearAllHooks` | pool jobs, client threads and callbacks change it concurrently; `sqlite3_*_hook` is called with the lock held | whoever is registered is heard; whoever is cancelled is not; unused hooks are taken out; no thread waits for ever |
| Dispatchers (same file) | a copy of the callbacks on the stack | fired by libsqlite3 under its connection mutex: copy under the lock, run the validator, then the observers | callbacks run unlocked and may cancel tokens re-entrantly | each event reaches exactly the callbacks of one instant, the validator first |
| Connection handle (`SQLiteConnection.swift`) | `handle.raw`, `nil` when closed | `open`, `close`, every job's read of the handle | read and written by several threads with no lock; `sqlite3_close` may answer BUSY | no call with a freed or null pointer; close frees the database |
| Query pipeline (`SQLiteConnection.swift`, `SQLiteDatabase.swift`) | pool queue, promise, event loop queue | `query` by future and async, collecting wrappers, pool shutdown | rows and outcome cross from pool to loop; errors half way | rows in order, all before the outcome; exactly one outcome for every query |
| Statement (`SQLiteStatement.swift`) | `sqlite3_stmt*` | prepare, columns, bind, step, `check` | which error path finalizes | finalized when the query is over |
| Script (`SQLiteConnection+ExecuteScript.swift`) | none of its own | `sqlite3_exec` after a check of the handle | check then use; a transaction left open | misuse on a closed connection |
| Open (`SQLiteConnection.swift`) | initialise-once flag | `openInternal` | first opens race; failed opens | initialise once; nothing leaked |
| Custom functions (`SQLiteCustomFunction.swift`) | retained definitions, aggregate contexts | install, uninstall, xFunc, xStep, xFinal | released by libsqlite3; finalize without step or after an error | each context made, used and released once |
| Values (`SQLiteRow`, `SQLiteData`, `SQLiteDataConvertible`, `SQLiteDataType`) | none | conversions, lookup by column name | numeric limits, embedded NUL, duplicate names | round trips |
| Errors (`SQLiteError.swift`) | none | status code to reason | unknown extended codes | falls back to the primary code |
| File locks (C, `os_unix`) | one `unixInodeInfo` for each process and file: level, counts, deferred descriptors; the kernel's byte-range locks | `unixLock`, `posixUnlock`, `unixClose` | the kernel's locks belong to the process and go with any `close()`; a call is several `fcntl`s | five lock levels for each connection, none lost, none left |
| Pager, rollback journal (C) | cache, change counter, state of the transaction; database and journal files | read, write, spill, commit, roll back, recover a hot journal | what is on disk when; whose journal it is; a stale cache | readers see commits; death and power loss leave a commit |
| Write-ahead log (C) | log file; the wal-index shared in memory: header, read marks, `nBackfill`, locks; header and slot of each connection | begin and end of a read, write, commit, undo, checkpoint, restart, recovery | lock-free reads of the header; the log is restarted under readers; torn and rewritten frames | snapshot isolation; no commit lost, none built on an older one |
| Logger wrapper, re-exports | none | forwarding | none | none |

Interaction: a client calls the connection from any thread; the connection
submits jobs to the pool (`submit`, `runIfActive`); a job calls libsqlite3,
which takes the connection mutex and may call back into the dispatchers; these
lock the buckets and call the client's closures. Tokens call back into the
connection from anywhere, `cancel()` being the one operation that does *not* hop
to the pool. Results return through promises on the event loop, or through
continuations. Inside libsqlite3 the pager and the log take file locks from the VFS;
connections meet there and nowhere else (the build omits the shared cache), whether
of one pool, of two, or of two processes.

## 2. Modules

| Module | Models |
|---|---|
| `HookTokens` | The callbacks named by their tokens; what registering and cancelling one does to a set of callbacks. |
| `HookDelivery` | Abstract: a registration or cancellation takes effect at one instant; events are delivered one at a time to exactly the callbacks heard at one instant, the validator first, no observer after a denial. It is what the code delivers, and weaker than the documentation in two points: a callback heard at that instant is called even if it has been cancelled since (`doc_dispatch`), and a token of a replaced validator removes the successor (`doc_cancel`). |
| `SQLiteHooks` | The hook machinery, the handle, queries, scripts and close at the level of threads and locks; its properties. |
| `SQLiteHooksInv` | The inductive invariants of `SQLiteHooks`. |
| `SQLiteHooks_proofs` | Theorems and proofs about them. |
| `MCHooks` | Tokens and kinds for TLC's instances of `SQLiteHooks`. |
| `QueryPipeline` | Queries on the pool and the event loop, statements, pool shutdown. |
| `QueryPipeline_proofs` | Its inductive invariant and theorems. |
| `CustomFunctions`, `CustomFunctions_proofs`, `MCCustomFunctions` | The definitions a connection holds for one SQL name, the statements compiled against them, the aggregate contexts in their registers. |
| `FileLocks`, `FileLocks_proofs` | Abstract: one lock level for each connection, moved by the rules that NO_LOCK to EXCLUSIVE_LOCK stand for; no intermediate steps. |
| `UnixLocks`, `UnixLocks_proofs`, `MCUnixLocks` | The unix VFS: files, the inode record of each process, the kernel's locks, one `fcntl` at a time. It implements `FileLocks`. |
| `RollbackJournal`, `MCRollbackJournal` | The pager in journal mode DELETE, synchronous FULL, over the locks of `FileLocks` (by INSTANCE). |
| `RollbackJournalInv`, `RollbackJournal_proofs` | Its inductive invariant, theorems and proofs. |
| `Wal`, `MCWal` | Connections in WAL mode: log, wal-index, readers, writer, checkpoints, faults. |
| `WalInv`, `Wal_proofs`, `WalFaults_proofs` | Its inductive invariant; theorems and proofs of what connections see; of what deaths of processes and losses of power leave. |

### SQLiteHooks and the code

A step is what one thread does between two lock operations. `pc[t]` names what
the thread is about to do; the steps of an operation are grouped as in the code.

| Code | Actions |
|---|---|
| `add...Observer`, `set...Validator`, `addHookAndInstallDispatcherIfNeeded` | `BeginAdd`, then `AddToHook` (a dispatcher is in) or `AddFirst`, `Install` (flag set, lock kept, C call made) |
| `cancel()`, `deinit`, `removeHookAndUninstallDispatcherIfNeeded` | `BeginCancel`, then `CancelOne` or `CancelLast`, `Uninstall` |
| `query` with `SQLiteStatement` | `BeginQuery`, `QueryReadsHandle`, `PrepareMisuse`/`PrepareEnters`, `PrepareFails`/`PrepareReturns`, `StepEnters`, `StepReturnsRow`/`StepReturnsLast`, `Finalize`; `DecodeFails`, where `columns()` or `data(at:)` throws |
| `executeScript` | `BeginScript`, `ScriptOnClosed`/`ScriptReadsHandle`, `ScriptEnters`, `ScriptReturns` |
| dispatchers of `apply...Hook` | `Fire` (external), `CopyCallbacks`, `CallValidator`, `CallObserver`, `ValidatorDenies`, `CallbackReturns`, `EndDispatch` |
| `close`, `clearAllHooks` | `BeginClose`, `ClearHook` (four times), `ResetBuckets`, `CloseDatabase`, `NilHandle` |
| a C call with a bad pointer | `UndefinedCall`, after which nothing is specified |

State: `registered` and `installed` are the buckets and their flags;
`bucketLock` the owner of their lock; `slot` the C hooks that are set; `dbMutex`
the owner of libsqlite3's recursive connection mutex; `handle` is
`self.handle.raw` and `ptr[t]` the value a thread has read from it; `db` is the
object it points to; `stmts` the threads that have a statement and `leaked` whether a
query has ended without finalizing its own, after which every close is answered BUSY.
`late` counts, and exists for two properties only.

Of libsqlite3 the entry points are modelled: in serialized mode a
prepare, step, exec or hook setter takes the connection mutex; hooks fire while
it is held; a prepare fires only the authorizer, a step (which may re-prepare)
any hook; prepare answers MISUSE for a null handle, a hook setter does not check
it; close answers BUSY while a statement is left, in use or leaked, and the Swift code
drops that answer. Any call may fail.

Abstractions: the payload of an event, the SQL, and which events a transaction
produces are left out, so a call may fire any installed hook any number of
times. A cancelled token is not reused. The window between the read of the handle
and the C call is kept, as the two are separate steps. After `close()` the client
starts no registration (`BeginAdd`), as close()'s documentation asks; queries and
scripts may follow it. With `CloseAwaits` the client starts close() only when the
jobs it started before are over; without, it overlaps them.

### QueryPipeline and the code

A query is in one `stage`; `waiting` is the queue of the pool, `loop` the queue
of the event loop. `ByFuture` holds the queries of the future variant, whose
`onRow` and outcome are tasks of the loop (`eventLoop.submit`, `promise.fail`,
`andAllSucceed`, all called off the loop); the others call `onRow` on the pool
thread and return through `runSQLite`. `CheckFails` and `Done` are `check()`,
which finalizes; `DecodeFails` are the throws of `columns()` and `data(at:)`,
which do not. `Shutdown` may happen at any time: jobs that wait are then called
with an inactive state, jobs that run go on. A row is its number; a result has
at most `MaxRows` rows. Cancellation of the Swift task that awaits an async query
is not modelled.

### CustomFunctions and the code

One connection and one SQL name, called with one argument. `entry` is the chain of
`FuncDef`s in `db->aFunc`: one for one argument, one for any number (-1), each a
definition, `Absent`, or `Deleted` (uninstalled: the entry stays, without an
implementation). `retains` counts what `passRetained` took and nobody has released.
A statement has a place `at`, the `FuncDef` its program refers to (`func`) and what
that held when it was compiled (`compiled`), `Vdbe.expired`, and for each call of the
name a `register` and the AggregateContexts retained for it (`contexts`).

| Code | Actions |
|---|---|
| `install`, `uninstall`, `sqlite3CreateFunc`, `sqlite3FindFunction` | `Install`, `Uninstall` with `CreateFunction`, `Closest` |
| prepare, `sqlite3Step`, `sqlite3Reprepare`, `sqlite3VdbeHalt`, finalize | `Prepare`, `Step`, `NextStep`, `ResultRow`, `Halt`, `Finalize`; `Leak` when a throw skips the last |
| `xFunc`; `xStep`, `xFinal` with `unmanagedAggregateContext` | `FunctionFails`; `AggStep`, `AggFinal` |
| `close` | `Close` |

A scalar call that succeeds changes nothing. Callbacks run within `sqlite3_step`,
which holds the connection mutex, so that installing and closing come between steps
but not between callbacks. `close()` beside a statement is answered BUSY, drops the
answer and the handle (`db = "lost"`): definitions then stay retained, as
`HeldWhileInstalled` says.

### UnixLocks and the code

A call holds the process's `pLockMutex`; `holder` says which file's call that is
and `at` the system call it is about to make, so that other processes come in
between. `inodeLock`, `nShared`, `nLock`, `nUnused` are the fields of
`unixInodeInfo`; `pendingByte`, `reservedByte`, `sharedBytes` what the kernel holds
for each process.

| Code | Actions |
|---|---|
| `unixOpen`, `findReusableFd` | `Open` |
| `unixLock` | SHARED: `ShareWithOthers`, or `SharePending`, `ShareRange`, `ShareDone`, `ShareFails`; RESERVED: `Reserve`; EXCLUSIVE: `ExclusivePending`, `ExclusiveGranted`, `ExclusiveBusy` |
| `posixUnlock` | to SHARED: `DowngradeRange`, `DowngradeDone`; to NO_LOCK: `DropReserved`, `UnlockReserved`, `UnlockAll`, `DropAll` |
| `unixClose` | `CloseDeferred`, or `CloseChecks` and, after the mutex is given up, `CloseFd` |
| death of a process | `ProcessDies` |

`CloseAlone` says that no connection of a process takes its first lock while
another is between `CloseChecks` and `CloseFd`. The code does not see to this
(`doc_unix_close_race`): what the run `unix_locks` and the theorems show is about
behaviours in which closes are alone in this sense.

### RollbackJournal and the code

Each pager is a process of its own, `level` its lock. `at` is the system call that
its call is about to make. A page is the number of the transaction that wrote it,
with the change counter in page 1; the journal is a sequence of original pages
with a header. `db` and `jrnl` are the files as processes see them, `disk` and
`jdisk` as a loss of power leaves them at least, `named` whether the directory on
the disk knows the journal. Commits that shrink the database (`pager_truncate` in
`pager_end_transaction`, after VACUUM) are left out.

| Code | Actions |
|---|---|
| `sqlite3PagerSharedLock`, `hasHotJournal` | `SharedLock`, `AccessJournal`, `CheckReservedLock`, `ReadHeader`, `ReserveToDelete`, `DeleteStaleJournal`, `LockHot`, `LockHotBusy`, `SyncHotJournal`, `CheckCache` |
| `pager_playback`, `pager_end_transaction` | `PlaybackOnePage`, `PlaybackEnds`, `SyncRestored`, `FinishRollback`, `UnlinkFails`, `Downgrade` |
| `readDbPage`, `sqlite3PagerBegin`, `pager_write` | `ReadPage`, `Begin`, `OpenJournal`, `WritePage` |
| `pagerStress`, `syncJournal`, `pager_write_pagelist` | `Stress`, `ExclusiveLock`, `SyncRecords`, `WriteNRec`, `SyncHeader`, `SpillPage`, `WriteDirtyPage` |
| `sqlite3PagerCommitPhaseOne`, `...Two`, `sqlite3PagerRollback`, `pager_unlock` | `CommitPhaseOne`, `SyncDatabase`, `CommitPhaseTwo`, `Rollback`, `Unlock` |
| a killed process, a loss of power | `Abandon`, `PowerLoss` |

### Wal and the code

`live`, `intact`, `nBackfill`, `aReadMark` are the wal-index, `hdr`, `readLock`,
`minFrame`, `reCksum` the fields of `Wal`. A frame is its salt, page, content,
commit mark and a checksum that stands for the pages, contents and commit marks of
all frames up to it, so that
`Accepted` says what `walDecodeFrame` accepts. The two copies of the header are one,
with `intact` for "equal and right checksum".

| Code | Actions |
|---|---|
| `walIndexReadHdr`, `walIndexRecover` | `ReadHdr`, `RecoverHdr`, `RecoverReset` |
| `walTryBeginRead`, `sqlite3WalEndReadTransaction` | `Choose`, `Mark`, `LockSlot`, `Verify`, `EndRead` |
| `sqlite3WalBeginWriteTransaction`, `walRestartLog`, `walRestartHdr` | `BeginWrite`, `Restart`, `RestartIndex`, `KeepLog` |
| `walFrames`, `walRewriteChecksums`, `sqlite3WalUndo` | `Commit`, `Spill`, `WalHdr`, `SyncHdr`, `Overwrite`, `AppendFrame`, `RewriteChecksum`, `SyncLog`, `Publish`, `Rollback` |
| `sqlite3WalCheckpoint`, `walCheckpoint` | `Checkpoint`, `CkptSafe`, `CkptNothing`, `CkptLock`, `CkptSkip`, `CkptCopy`, `CkptDone`, `CkptRestart`, `Truncate`, `CkptEnd` |
| faults | `Die`, `AllDie`, `PowerLoss` |

`DiesInRestart` says whether a process may die between the stores of
`walRestartHdr`; see `doc_wal_restart_death`. A few accesses are one step: the lock of
slot 0 with the second look at the header (`Choose`), a read lock with the read of
`nBackfill` (`LockSlot`), the sync of the database with the store of `nBackfill`
(`CkptDone`), the stores of `walRestartHdr` after the header (`RestartIndex`). A checkpoint
of a log that is empty already is left out: it copies nothing, and a TRUNCATE restarts
and empties a log without frames once more.

## 3. Runs

| Run | Instance | Shows |
|---|---|---|
| `hooks_commit` | 2 pool threads, 1 client thread, a commit observer and 2 commit validators, close() awaits | types, lock discipline, every registered callback heard, observers survive validators, unused hooks taken out, one late call at most, close() safe against cancel(), a closed connection silent, and its database freed unless a statement was leaked |
| `hooks_overlap` | 2 pool threads, 1 client thread, an update observer, an authorizer observer and validator, close() overlaps | refinement of `HookDelivery`, statements keep the database open, every stall is the lock inversion |
| `hooks_one_thread` | 1 pool thread, 4 tokens of 3 kinds, fair | every operation returns, no deadlock |
| `query_pipeline` | 2 pool threads, 2 queries by future and 1 async, 2 rows, fair | order, completeness, finality, and an answer for every query |
| `custom_functions` | 3 definitions: a function and an aggregate for one argument, an aggregate for any number; 2 statements with 2 calls | a statement calls what it was compiled for; definitions and contexts are released exactly once |
| `unix_locks` | 3 files of one process, 1 of another, fair | refinement of `FileLocks`, no conflict, no lock lost by a close or left behind, a writer that waits for readers gets through |
| `rollback_journal` | 2 pagers, 2 pages, 2 write transactions, any number of deaths and power losses | what readers see, what a killed process and a power loss leave, whose journal it is |
| `wal` | 2 connections that all read, write and checkpoint, 2 pages, 3 frames, 2 read marks, 2 changes, 1 fault | snapshots, headers, what deaths and power losses leave |
| `doc_dispatch` | 1 + 1 threads, 2 update observers | in one behaviour, a callback is called after its `cancel()` has returned, and buckets-then-engine against engine-then-buckets deadlock |
| `doc_cancel` | 1 + 1 threads, 2 authorizer validators, fair | cancelling the token of a replaced validator removes its successor, and, as line 656 passes `.commit`, leaves the hook behind |
| `doc_unix_close_race` | as `unix_locks` with 3 files, without `CloseAlone` | close() drops the lock another connection of the process has just taken |
| `doc_wal_restart_death` | as `wal`, with `DiesInRestart` | header and `nBackfill` contradict each other; a later reader misses commits |

The `doc_` runs end in a counterexample; each refutes one or two sentences of the
documentation, a comment or a test (quoted in `PROJECT.json`). `CopyHasItsUse` is a
disjunction of two such sentences (`NoLateCall`, `NoInversion`), and `ReplacedCancelIsNoOp` lets a step keep either of
two, so that one counterexample refutes both. What holds instead is checked: one late call at most (and none of the last callback of a
kind, whose cancellation waits for the dispatch at the connection mutex, so that
`doc_dispatch` takes two observers), observers that stay whatever becomes of validators, a close
that frees the database when it is awaited and nothing leaked, no other stall than the
inversion, tear-down for the three other kinds, locks kept when a close is alone,
snapshots when nobody dies in `walRestartHdr`.

Bounds. Two pool threads and one client thread give every pair of concurrent
operations, and a dispatch with a cancel and an add beside it. Three tokens give
the first, the last and a middle callback of a kind, a validator replaced by
another, and a validator next to an observer; the kinds are interchangeable but
for the authorizer's (it may have a validator, fires during a prepare, and is the
one that line 656 is about), so an instance with commits and one with
authorizations cover them. The hook machinery has no counter but `late`, whose
bound is the property. In `QueryPipeline`, three queries on two threads leave
one to wait, and two rows are the fewest that can arrive out of order.
`CustomFunctions` has no bound of its own: a function and an aggregate of the same
arity are replaced by each other, under a statement that runs beside one that waits
for its first step; the third definition is found only while no exact match hides
it. `UnixLocks`
has no bound of its own: three files of a process are the fewest with two sharers
beside a file that closes, and the other process need only conflict.
`RollbackJournal`: two pages are page 1 and another, so that a journal has a record
of each and a database can grow; two transactions are a commit and one that is
recovered over it or hidden by it; `MaxTx` bounds nothing else, and faults are not
bounded. `Wal`: three frames are a transaction and a second one that overwrites the
log or appends to it; two read marks are one in use and one free; one fault,
since after it every invariant speaks of what the next fault would leave.

Deadlock is checked where one thread must always be able to go on
(`hooks_one_thread`) and where calls come back for ever (`unix_locks`). Elsewhere the
system may stop: the inversion is real, after undefined behaviour there is nothing
to specify, transactions are bounded, and nothing is left to do on a closed
connection.

Mutants. Operators named in comments as mutants are the code with one plausible
bug: a lock released too early, a flag not reset, a file not synced, a check
left out. None is part of a specification; each passing property is violated when
its mutant takes the place of the original.

Fairness. `SQLiteHooks`: threads are scheduled (weak fairness of the steps
that finish an operation), and a call of the engine or a callback ends at some time,
however many hooks it fires and tokens it cancels (strong fairness, as firing
again and again keeps interrupting it). That a step of the engine ends is an
assumption about SQL and about the busy handler. `QueryPipeline`: pool threads and
the loop are scheduled. Nothing obliges the client to do anything. `UnixLocks`: a
call that has begun goes on; a reader gives its lock up at some time; and a
connection that waits for EXCLUSIVE tries again, as the busy handler installed by
`openInternal` always answers 1 (`SQLiteConnection.swift` line 235).

## 4. Proofs

### SQLiteHooks

`SQLiteHooks_proofs` assumes only `ThreadsAssumption` (pool threads, client
threads and `NoThread` differ) and `TokensAssumption` (each token has a kind,
validators are for commits or authorizations); sets may be infinite.

`RegisteredIsHeard` is not inductive: it says nothing of the flags or of
threads that are half way. The invariants of `SQLiteHooksInv` add that, in an order
in which each needs only the ones before:

1. `TypeInv`: types, and who works on a token.
2. `LockInv`: `LockDiscipline` and the locals of a thread at rest. Everything
   below uses it as mutual exclusion.
3. `TokenInv`: a token is added by one thread, and cancelled only once it is out.
4. `BucketInv`: under the bucket lock, flags and buckets agree. The authorizer
   is exempt in one direction, which is what line 656 costs.
5. `SlotInv`: until close() begins, flags and C hooks agree but for the call
   the owner of the bucket lock is making. `RegisteredIsHeard` and
   `UnusedIsTornDown` follow from 4 and 5.
6. `LateInv`: a callback that was called late is in no copy any more.
7. `OpenInv`: statements belong to their threads, and a freed database has none and
   leaked none; `StatementKeepsOpen` follows.
8. `CloseInv`, about a client that awaits its jobs: close() alone on the pool, no
   statement in use and buckets empty before sqlite3_close, the database freed by it
   unless one was leaked, every pointer in use a good one; `NoUndefinedBehaviour`
   follows.
9. `ClearInv`: clearAllHooks takes the C hooks out in order and nobody puts one back, so
   that none is set when the buckets are reset; with `CloseInv`, `ClosedIsSilent`
   follows. After a leak the database stays open, and `ClosedIsSilent` says that the
   connection is silent all the same.
10. `FiredInv`: a hook that fired is set until its callbacks are copied.

`Refinement` maps `heard` to the registered callbacks whose C hook is set, and
`pending`, `asking` to the dispatch of the thread that owns the connection mutex.
`AddFirst` is then invisible and `Install` is the registration; `CancelOne` or
`CancelLast` is the cancellation and `Uninstall` invisible; `CopyCallbacks` is the
delivery, where `FiredInv` says that the copy is what was heard.

### QueryPipeline

`Inv` says, for each query, which of its tasks are in the loop's queue (its rows in
order, then its answer), what has been delivered, and that this adds up to what its
stage has produced; that at most one answer task exists, and only behind a finished
statement. `RowsInOrder`, `SuccessIsComplete`, `AnswerComesLast` follow from it;
`AnswerIsFinal` as a step property.

### CustomFunctions

Assumed is `DefinitionsAssumption`: each definition has a kind and an arity, and is
neither `Absent` nor `Deleted`. `RunsWhatItCompiled` is not inductive: a statement
that has not begun must be able to begin. `ProgramInv` therefore speaks of every
statement that runs or may run without being compiled again (`Sound`): its `FuncDef`
still holds what it was compiled for, since whatever replaces that is refused while
a statement runs and otherwise expires all programs. `EntryInv` (a definition is only
in the entry of its arity) and `RetainInv` turn this into one retain for each
definition in use.

### UnixLocks

`Inv` ties the three views of a lock together: between calls, `inodeLock` is the
highest level of the process's files, `nShared` and `nLock` count the files with a
lock, and the kernel's three ranges are what `inodeLock` stands for; within a call,
`CallOk` says for each system call what is already true and what not yet. It is
preserved by every action but one: a connection that takes the first lock of its process
while another is between `CloseChecks` and `CloseFd`. `LoneCloses` says of a behaviour
that it has no such step, and each theorem is about `Spec /\ LoneCloses`. That is a limit of
the theorems and not a fact about the code, which may take that step (line 42564,
`doc_unix_close_race`); the constant `CloseAlone` of the runs implies it
(`CloseAloneSuffices`).
`UnixImplementsFileLocks` maps a file to the level it holds in effect (`level`): a
call that gives a lock up in several steps releases it with the first that others
can see. `FileLocks_proofs` proves that the abstract levels exclude each other, and
`LocksExclude` that the files' do.

Counting: `nShared` is compared with `Cardinality` of a finite set of files, hence
the assumption that `Files` is finite.

### RollbackJournal

That a death is harmless is not inductive: it says what recovery makes of the files as
they are, not what makes the next step safe. `Inv` of `RollbackJournalInv` speaks of the
files, the journals and each pager:

1. `FilesInv`: a page of the file, or of what a loss of power leaves of it, that is not
   as committed is one that the journal *on the disk* restores: it lies beyond the
   committed size or has a counted record (`Restores`). This is the write-ahead rule:
   journal before database, names before both.
2. `JournalInv`: the records that a header counts are pages of the last commit
   (`Protects`); the journal on the disk is an earlier state of the one in use, or,
   when it was unlinked and the directory not yet written, one that leads back to the
   last commit or the one before (`LeadsBack`). That exception is why power loss
   promises one of two databases.
3. `PagerOk`, for each pager: `PhaseOk` (its lock and state at each system call),
   `ReadOk`, `OpenOk` and `CacheOk` (its cache against the committed pages and the
   change counter), `LockedOk` (who has looked for a hot journal finds the file as
   committed), `PlaybackOk` and `UndoOk` (what has been played back is restored, what has
   not is still to come), `BeginOk`, `WriterOk` and `EditOk` (the journal is the writer's
   own and has every page of the commit that it changes; the image has no gap).

A step of one pager leaves the others' part alone for one of three reasons, each a
lemma: it changes no file (`LocalStep`), the others only read and it changes the
journal only (`ReservedStep`), or they have no lock (`ExclusiveStep`). The arithmetic
that carries the rest is `RecoversTo`: a file whose differences from a good database are
restored by a journal that protects it recovers to that database. Files with any number
of pages, journals with any number of records: no proof is by induction over them, as
`Valid` takes the counted records at once and `SizeIs` finds the size of a file by
well-foundedness. `Inv` was checked by TLC on the instance of the run
`rollback_journal` before it was proved.

Assumed are `BoundsAssumption` and `PowerFrom = 1`: power goes only once the database
has a page. Before that `PowerLossIsAtomic` and, after a loss, `ReadersSeeCommitted` do
not hold of the code: the recovery of a first transaction truncates the file to nothing,
and a journal beside an empty file is deleted unsynced. The hazard is listed; the theorems and the run say nothing of it.
`WithoutPowerLoss` has no such assumption: if only processes die, the rest holds from the first transaction on.
`PagersUseFileLocks` composes the pager with the locks: its steps are those of
`FileLocks`, which `UnixLocks` implements.

### Wal

A reader takes each page from the log if `walFindFrame` finds it between `minFrame` and
its `mxFrame`, and from the database file otherwise, while a checkpoint overwrites that
file and a writer appends to, overwrites or restarts the log. `SnapshotIsolation` and
`HdrNamesTheDatabase` are not inductive; `IInv` of `WalInv` adds what keeps the others
away:

1. `Phases`: which locks a connection has at each step; a restart has every read lock
   but slot 0, a copy has slot 0.
2. `IndexInv`: the frames that the header of the wal-index counts are accepted by
   recovery and end in a commit, and with the database file they make the last commit;
   what counts as copied (`DbHas`) is in that file.
3. `Headers`: of two headers with one salt, the longer is of the later commit; after a
   restart nobody keeps a header with the salt that the log then has.
4. `Readers`: the frames a reader counts make its snapshot, and its slot's mark is not
   above them, or it reads the database file only, which then is its snapshot.
5. `Checkpoints`: `mxSafe` is not beyond the frames of any reader whose slot has been
   passed; up to the page reached, what lies between `nBackfill` and `mxSafe` is copied.
6. `WriteInv`: behind the last commit the log holds what the transaction changed and
   no longer has in its list; the checksums are right up to the first one that has to
   be rewritten, and all of them before a commit is published.

One lemma for each step shows that it keeps `IInv`. Most steps need only say what they
do to their own connection, as `CalmStep` (the frames counted and the database file
stay) covers the others; the rest are those that publish or recover frames (`Grows`),
that restart the log (`RestartedBy`), that copy a page (`CkptCopyStep`) and faults,
after which `IInv` holds of a wal-index that nobody has made yet, whatever the files
hold (`FirstIndex`). TLC checked `IInv` on the instance of the run `wal` first.

`DeathIsHarmless` is about frames that no header counts, of which `IInv` says little.
`DeathInv`, kept besides `IInv` and also checked by TLC first, says of them:

1. `Unpublished`: if recovery would accept a commit beyond the frames that are counted,
   it is that of the writer, which has not reported it.
2. `CutOk`: what an earlier transaction that was rolled back, or whose process died, left
   behind the writer's frames cannot be accepted after them. The salt is the same, but
   the checksum of a frame covers all frames before it, and the first frame of the
   writer differs from the one that was there.
3. `Numbered`, `FreshOk`: that is so because a change has a number of its own, which
   stands for a checksum that tells two different logs apart. A page that is written
   without a change (a commit of nothing takes one) comes alone and commits.
4. `MarkedOk`: the only frame of the writer that commits is the last one of its commit,
   and what it then makes is among the commits not yet reported.

`PowerLossIsHarmless` is about files of which each page and each frame is as in memory,
as on disk, or torn; the invariants above do not speak of the disk, but for what
`Numbered` says. What a loss of power may undo is the subject of `PowerInv`, kept
besides both and checked by TLC first:

1. `Durable(b)`: there is a `b` such that the first `b` frames of the log on disk end in
   a commit that recovery accepts (`Synced`), and hold each page of the database file
   that is not on disk as it is (`Covered`). Every commit at or behind them, of frames
   that are each as in memory or as on disk, is the one reported or one not yet reported
   (`Known`). `b` moves forward when the log is synced, before a checkpoint copies and
   before a commit is published. It may lie before the last commit: recovery counts the
   frames of a writer that died before its sync. It is 0 when nothing of the log on disk
   is relied on.
2. `Alone`: where recovery may find nothing in the log (it is empty, restarted, or has a
   salt that is not on disk), the database file is on disk and holds a commit.
3. `Fits`: a checkpoint copies frames that are synced only; an emptied or restarted log
   has a salt that is not the one on disk, until its header is synced, which
   `sqlite3WalFrames` does before it writes a frame. `Done`: a log that has been copied
   in full, so may be restarted, is in the database file on disk.
4. `Disks`: no frame on disk but the writer's own commit frame can make a commit of the
   writer's frames (`CutDisk`, `FreshDisk`), and the writer's own commit frame is
   accepted nowhere until all checksums are rewritten (`Unfinished`).
5. `NoGarbage`: no checksum in memory or on disk covers a torn frame. So recovery
   accepts none, and what it accepts is a mixture of which `Known` speaks.

That every torn file recovers follows from these alone (`PowerHarmless`); the rest of
the proof shows that each step keeps them. The hard one is a frame written in place
(`PowerFrameStep`): it lies behind what is counted, and a mixture of frames
that recovery accepts with it holds a commit that was known before, or the writer's own:
its checksum is right, or it does not cover what the frame now holds (`RightOrWrong`).

The salt that a restart takes is a new one, which no header, no frame and no log has. It
stands for the code's random number, taken not to repeat; that there is one follows from
`IsFiniteSet(Conns)`.

Every theorem is about `Spec /\ RestartsAreWhole`, the behaviours in which no process is
killed inside `walRestartHdr` while others go on (`KilledInRestart`). That is a limit of
the theorems and not a fact about the code: between the stores at lines 69680 to 69684
the header is that of a new log and `nBackfill` that of the old one, and a process that
goes on uses it. `SnapshotIsolation` is then refuted (`doc_wal_restart_death`), and nothing
is claimed of what deaths and losses of power leave afterwards. The death of all processes
there, and a loss of power, are covered: the wal-index goes with them. The constant
`DiesInRestart = FALSE` of the run `wal` implies `RestartsAreWhole`
(`DiesInRestartSuffices`).

### What is only checked

Proved: every safety property of the runs `hooks_commit`, `hooks_overlap`,
`query_pipeline`, `custom_functions`, `unix_locks`, `rollback_journal` and `wal`, and the
refinements. Model-checked only: liveness (`EveryCallReturns`, `EveryQueryIsAnswered`,
`WriterGetsThrough`), which is beyond the proof system, and the runs that show a
violation.

## 5. Plan

1. Savepoints and autocommit: a script or a vetoed commit that leaves a transaction
   open or fires the rollback hook; opening a connection.
2. Tokens owned by callbacks, for the release of a scoped token inside the bucket
   lock.

## 6. Not modelled

libsqlite3 is 220 000 lines. Modelled of it are the parts whose correctness is a
matter of order, concurrency and failure: locks, journal, log, and the entry points
that the Swift code relies on. The rest is sequential, and its correctness is that
of a compiler and of data structures: tokenizer, parser, code generator and planner,
the VDBE's instructions, B-tree balancing, date and string functions, JSON, FTS,
R-tree, sessions. A faithful model would transliterate it; a model checker would
exercise it less than its own tests do. Shared cache, other VFSes, other journal
modes and heap-memory wal-indexes are not built or not used. Further left out:
the vendoring plugin, logging, formatting of values and messages, and SQL itself.

Two behaviours are modelled as they are and forbidden by no property. `close()` drops
SQLITE_BUSY, reports success and sets the handle to nil although the database stays
open, when a query has leaked its statement (`columns()` or `data(at:)` threw:
`ClosedIsSilent` says so) or when it overlaps a query that still steps
(the statement needs it, `StatementKeepsOpen`); the documentation at lines 337 to 341 of
`SQLiteConnection.swift` says that close() closes. And an uninstalled function goes
on hiding a variadic one of the same name, as its `FuncDef` stays as the exact match (`sqlite3FindFunction`), so that the name
is then unknown for that number of arguments.
