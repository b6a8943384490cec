------------------------------ MODULE UnixLocks ------------------------------
(***************************************************************************)
(* File locking of the unix VFS (os_unix.c): the unixFile of each          *)
(* connection, the unixInodeInfo that the files of one process share, and  *)
(* the POSIX advisory locks of the kernel, which belong to a process and   *)
(* not to a descriptor: a second descriptor of the process is not locked   *)
(* out, and closing any of them drops the locks of all.                    *)
(*                                                                         *)
(* A call holds pLockMutex of its process's inode from end to end; a step  *)
(* is one fcntl() of it, as the calls of other processes come in between.  *)
(* A call that is answered SQLITE_BUSY before it has changed anything is a *)
(* stuttering step.                                                        *)
(***************************************************************************)
EXTENDS FiniteSets, Naturals

CONSTANTS
    Files,       \* the unixFile objects of the connections, all on one database
    Procs,       \* the processes
    ProcOf,      \* the process of each file
    NoFile,      \* the holder of a free mutex
    CloseAlone   \* does the client of a process take no first lock while one of
                 \* its connections is being closed?

ASSUME FilesAssumption ==
    /\ IsFiniteSet(Files)
    /\ ProcOf \in [Files -> Procs]
    /\ NoFile \notin Files
    /\ CloseAlone \in BOOLEAN

VARIABLES
    open,          \* the files that are open
    eFileLock,     \* unixFile.eFileLock of each file
    inodeLock,     \* unixInodeInfo.eFileLock of each process
    nShared,       \* unixInodeInfo.nShared
    nLock,         \* unixInodeInfo.nLock
    nUnused,       \* the length of unixInodeInfo.pUnused
    pendingByte,   \* the kernel's lock of each process on PENDING_BYTE
    reservedByte,  \*   on RESERVED_BYTE
    sharedBytes,   \*   on the range from SHARED_FIRST
    holder,        \* the file whose call holds pLockMutex, in each process
    at,            \* the system call which that call is about to make
    closing        \* the file that unixClose() is about to close the descriptor of

record == <<inodeLock, nShared, nLock>>
kernel == <<pendingByte, reservedByte, sharedBytes>>
vars == <<open, eFileLock, record, nUnused, kernel, holder, at, closing>>

NO_LOCK == 0
SHARED_LOCK == 1
RESERVED_LOCK == 2
PENDING_LOCK == 3
EXCLUSIVE_LOCK == 4
Levels == NO_LOCK..EXCLUSIVE_LOCK

Modes == {"F_UNLCK", "F_RDLCK", "F_WRLCK"}
Steps == {"idle", "shareRange", "dropPending", "shareFailed", "exclusiveRange",
          "unlockReserved", "unlockAll"}

FilesOf(p) == {f \in Files : ProcOf[f] = p}

TypeOK ==
    /\ open \subseteq Files
    /\ eFileLock \in [Files -> Levels]
    /\ inodeLock \in [Procs -> Levels]
    /\ nShared \in [Procs -> Nat]
    /\ nLock \in [Procs -> Nat]
    /\ nUnused \in [Procs -> Nat]
    /\ pendingByte \in [Procs -> Modes]
    /\ reservedByte \in [Procs -> Modes]
    /\ sharedBytes \in [Procs -> Modes]
    /\ holder \in [Procs -> Files \cup {NoFile}]
    /\ at \in [Procs -> Steps]
    /\ closing \in [Procs -> Files \cup {NoFile}]

Init ==
    /\ open = {}
    /\ eFileLock = [f \in Files |-> NO_LOCK]
    /\ inodeLock = [p \in Procs |-> NO_LOCK]
    /\ nShared = [p \in Procs |-> 0]
    /\ nLock = [p \in Procs |-> 0]
    /\ nUnused = [p \in Procs |-> 0]
    /\ pendingByte = [p \in Procs |-> "F_UNLCK"]
    /\ reservedByte = [p \in Procs |-> "F_UNLCK"]
    /\ sharedBytes = [p \in Procs |-> "F_UNLCK"]
    /\ holder = [p \in Procs |-> NoFile]
    /\ at = [p \in Procs |-> "idle"]
    /\ closing = [p \in Procs |-> NoFile]

-----------------------------------------------------------------------------
(* The kernel's answer to fcntl(F_SETLK) of process p on one range. *)
Grants(range, p, mode) ==
    \A q \in Procs \ {p} : /\ mode = "F_WRLCK" => range[q] = "F_UNLCK"
                           /\ mode = "F_RDLCK" => range[q] # "F_WRLCK"

Free(p) == holder[p] = NoFile
InCall(f, step) == holder[ProcOf[f]] = f /\ at[ProcOf[f]] = step

Continue(f, step) ==
    /\ holder' = [holder EXCEPT ![ProcOf[f]] = f]
    /\ at' = [at EXCEPT ![ProcOf[f]] = step]
Return(f) ==
    /\ holder' = [holder EXCEPT ![ProcOf[f]] = NoFile]
    /\ at' = [at EXCEPT ![ProcOf[f]] = "idle"]

FileLock(f, l) == eFileLock' = [eFileLock EXCEPT ![f] = l]
InodeLock(p, l) == inodeLock' = [inodeLock EXCEPT ![p] = l]
Fcntl(range, p, mode) == [range EXCEPT ![p] = mode]

-----------------------------------------------------------------------------
(* Mutant of Open: a deferred descriptor is not used again. *)
OpenAnew(f) ==
    /\ f \notin open
    /\ closing[ProcOf[f]] = NoFile /\ Free(ProcOf[f])
    /\ open' = open \cup {f}
    /\ UNCHANGED <<eFileLock, record, nUnused, kernel, holder, at, closing>>

(* unixOpen() and findInodeInfo(): a descriptor whose close was deferred is  *)
(* used again.                                                               *)
Open(f) ==
    LET p == ProcOf[f]
    IN  /\ f \notin open
        /\ closing[p] = NoFile /\ Free(p)
        /\ open' = open \cup {f}
        /\ nUnused' = [nUnused EXCEPT ![p] = IF @ > 0 THEN @ - 1 ELSE 0]
        /\ UNCHANGED <<eFileLock, record, kernel, holder, at, closing>>

-----------------------------------------------------------------------------
(* unixLock(SHARED_LOCK). *)

(* Mutant of ShareWithOthers: nLock is not counted up. *)
ShareWithOthersUncounted(f) ==
    LET p == ProcOf[f]
    IN  /\ f \in open \ {closing[p]} /\ Free(p)
        /\ eFileLock[f] = NO_LOCK
        /\ inodeLock[p] \in {SHARED_LOCK, RESERVED_LOCK}
        /\ FileLock(f, SHARED_LOCK)
        /\ nShared' = [nShared EXCEPT ![p] = @ + 1]
        /\ UNCHANGED <<open, inodeLock, nLock, nUnused, kernel, holder, at, closing>>

(* Another file of the process has a SHARED or RESERVED lock: no system call. *)
ShareWithOthers(f) ==
    LET p == ProcOf[f]
    IN  /\ f \in open \ {closing[p]} /\ Free(p)
        /\ eFileLock[f] = NO_LOCK
        /\ inodeLock[p] \in {SHARED_LOCK, RESERVED_LOCK}
        /\ FileLock(f, SHARED_LOCK)
        /\ nShared' = [nShared EXCEPT ![p] = @ + 1]
        /\ nLock' = [nLock EXCEPT ![p] = @ + 1]
        /\ UNCHANGED <<open, inodeLock, nUnused, kernel, holder, at, closing>>

(* Mutant of SharePending: PENDING_BYTE is not asked for. *)
ShareOverPending(f) ==
    LET p == ProcOf[f]
    IN  /\ f \in open \ {closing[p]} /\ Free(p)
        /\ CloseAlone => closing[p] = NoFile
        /\ eFileLock[f] = NO_LOCK
        /\ inodeLock[p] = NO_LOCK
        /\ Continue(f, "shareRange")
        /\ UNCHANGED <<open, eFileLock, record, nUnused, kernel, closing>>

(* The first lock of the process: PENDING_BYTE keeps it out while somebody   *)
(* waits to write...                                                         *)
SharePending(f) ==
    LET p == ProcOf[f]
    IN  /\ f \in open \ {closing[p]} /\ Free(p)
        /\ CloseAlone => closing[p] = NoFile
        /\ eFileLock[f] = NO_LOCK
        /\ inodeLock[p] = NO_LOCK
        /\ Grants(pendingByte, p, "F_RDLCK")
        /\ pendingByte' = Fcntl(pendingByte, p, "F_RDLCK")
        /\ Continue(f, "shareRange")
        /\ UNCHANGED <<open, eFileLock, record, nUnused, reservedByte, sharedBytes, closing>>

(* ...then the range of the readers, granted or not... *)
ShareRange(f) ==
    LET p == ProcOf[f]
    IN  /\ InCall(f, "shareRange")
        /\ IF Grants(sharedBytes, p, "F_RDLCK")
           THEN sharedBytes' = Fcntl(sharedBytes, p, "F_RDLCK") /\ Continue(f, "dropPending")
           ELSE Continue(f, "shareFailed") /\ UNCHANGED sharedBytes
        /\ UNCHANGED <<open, eFileLock, record, nUnused, pendingByte, reservedByte, closing>>

(* ...and PENDING_BYTE is dropped again. *)
ShareDone(f) ==
    LET p == ProcOf[f]
    IN  /\ InCall(f, "dropPending")
        /\ pendingByte' = Fcntl(pendingByte, p, "F_UNLCK")
        /\ FileLock(f, SHARED_LOCK)
        /\ InodeLock(p, SHARED_LOCK)
        /\ nLock' = [nLock EXCEPT ![p] = @ + 1]
        /\ nShared' = [nShared EXCEPT ![p] = 1]
        /\ Return(f)
        /\ UNCHANGED <<open, nUnused, reservedByte, sharedBytes, closing>>

(* Mutant of ShareFails: PENDING_BYTE stays locked. *)
ShareFailsAtOnce(f) ==
    /\ InCall(f, "shareFailed")
    /\ Return(f)
    /\ UNCHANGED <<open, eFileLock, record, nUnused, kernel, closing>>

ShareFails(f) ==
    /\ InCall(f, "shareFailed")
    /\ pendingByte' = Fcntl(pendingByte, ProcOf[f], "F_UNLCK")
    /\ Return(f)
    /\ UNCHANGED <<open, eFileLock, record, nUnused, reservedByte, sharedBytes, closing>>

-----------------------------------------------------------------------------
(* unixLock(RESERVED_LOCK) and unixLock(EXCLUSIVE_LOCK): refused at once     *)
(* when another file of the process holds more than this one.                *)

Reserve(f) ==
    LET p == ProcOf[f]
    IN  /\ Free(p)
        /\ eFileLock[f] = SHARED_LOCK /\ inodeLock[p] = SHARED_LOCK
        /\ Grants(reservedByte, p, "F_WRLCK")
        /\ reservedByte' = Fcntl(reservedByte, p, "F_WRLCK")
        /\ FileLock(f, RESERVED_LOCK)
        /\ InodeLock(p, RESERVED_LOCK)
        /\ UNCHANGED <<open, nShared, nLock, nUnused, pendingByte, sharedBytes,
                       holder, at, closing>>

(* A writer stops new readers first.  With another reader in the process the *)
(* call ends here, SQLITE_BUSY, and the file keeps PENDING.                  *)
ExclusivePending(f) ==
    LET p == ProcOf[f]
    IN  /\ Free(p)
        /\ eFileLock[f] = RESERVED_LOCK
        /\ Grants(pendingByte, p, "F_WRLCK")
        /\ pendingByte' = Fcntl(pendingByte, p, "F_WRLCK")
        /\ FileLock(f, PENDING_LOCK)
        /\ InodeLock(p, PENDING_LOCK)
        /\ IF nShared[p] > 1 THEN UNCHANGED <<holder, at>> ELSE Continue(f, "exclusiveRange")
        /\ UNCHANGED <<open, nShared, nLock, nUnused, reservedByte, sharedBytes, closing>>

(* Mutant of ExclusiveGranted: other readers of the process are not asked about. *)
ExclusiveOverReaders(f) ==
    LET p == ProcOf[f]
    IN  /\ InCall(f, "exclusiveRange") \/ Free(p)
        /\ eFileLock[f] \in {SHARED_LOCK, PENDING_LOCK} /\ inodeLock[p] = eFileLock[f]
        /\ Grants(sharedBytes, p, "F_WRLCK")
        /\ sharedBytes' = Fcntl(sharedBytes, p, "F_WRLCK")
        /\ FileLock(f, EXCLUSIVE_LOCK)
        /\ InodeLock(p, EXCLUSIVE_LOCK)
        /\ Return(f)
        /\ UNCHANGED <<open, nShared, nLock, nUnused, pendingByte, reservedByte, closing>>

(* The same call goes on, a later one tries again from PENDING, or a reader  *)
(* that found a hot journal asks for EXCLUSIVE without being RESERVED.       *)
WantsExclusive(f) ==
    LET p == ProcOf[f]
    IN  /\ InCall(f, "exclusiveRange") \/ Free(p)
        /\ eFileLock[f] \in {SHARED_LOCK, PENDING_LOCK} /\ inodeLock[p] = eFileLock[f]
        /\ nShared[p] = 1

ExclusiveGranted(f) ==
    LET p == ProcOf[f]
    IN  /\ WantsExclusive(f)
        /\ Grants(sharedBytes, p, "F_WRLCK")
        /\ sharedBytes' = Fcntl(sharedBytes, p, "F_WRLCK")
        /\ FileLock(f, EXCLUSIVE_LOCK)
        /\ InodeLock(p, EXCLUSIVE_LOCK)
        /\ Return(f)
        /\ UNCHANGED <<open, nShared, nLock, nUnused, pendingByte, reservedByte, closing>>

ExclusiveBusy(f) ==
    /\ InCall(f, "exclusiveRange")
    /\ ~Grants(sharedBytes, ProcOf[f], "F_WRLCK")
    /\ Return(f)
    /\ UNCHANGED <<open, eFileLock, record, nUnused, kernel, closing>>

-----------------------------------------------------------------------------
(* posixUnlock(). *)

(* To SHARED: the range of the readers is locked for reading first.  A       *)
(* process that has lost its locks may be refused (SQLITE_IOERR_RDLOCK).     *)
DowngradeRange(f) ==
    LET p == ProcOf[f]
    IN  /\ Free(p)
        /\ eFileLock[f] > SHARED_LOCK
        /\ Grants(sharedBytes, p, "F_RDLCK")
        /\ sharedBytes' = Fcntl(sharedBytes, p, "F_RDLCK")
        /\ Continue(f, "unlockReserved")
        /\ UNCHANGED <<open, eFileLock, record, nUnused, pendingByte, reservedByte, closing>>

(* PENDING_BYTE and RESERVED_BYTE, which are adjacent, in one call. *)
DropReserved(p) ==
    /\ pendingByte' = Fcntl(pendingByte, p, "F_UNLCK")
    /\ reservedByte' = Fcntl(reservedByte, p, "F_UNLCK")
    /\ InodeLock(p, SHARED_LOCK)

DowngradeDone(f) ==
    /\ InCall(f, "unlockReserved")
    /\ DropReserved(ProcOf[f])
    /\ FileLock(f, SHARED_LOCK)
    /\ Return(f)
    /\ UNCHANGED <<open, nShared, nLock, nUnused, sharedBytes, closing>>

(* To NO_LOCK: a writer's bytes first... *)
UnlockReserved(f) ==
    /\ Free(ProcOf[f])
    /\ eFileLock[f] > SHARED_LOCK
    /\ DropReserved(ProcOf[f])
    /\ Continue(f, "unlockAll")
    /\ UNCHANGED <<open, eFileLock, nShared, nLock, nUnused, sharedBytes, closing>>

DropAll(p) ==
    /\ pendingByte' = Fcntl(pendingByte, p, "F_UNLCK")
    /\ reservedByte' = Fcntl(reservedByte, p, "F_UNLCK")
    /\ sharedBytes' = Fcntl(sharedBytes, p, "F_UNLCK")

(* Mutant of UnlockAll: the kernel's locks go with every file. *)
UnlockAllAlways(f) ==
    LET p == ProcOf[f]
    IN  /\ InCall(f, "unlockAll") \/ (Free(p) /\ eFileLock[f] = SHARED_LOCK)
        /\ nShared' = [nShared EXCEPT ![p] = @ - 1]
        /\ nLock' = [nLock EXCEPT ![p] = @ - 1]
        /\ IF nShared[p] = 1 THEN InodeLock(p, NO_LOCK) ELSE UNCHANGED inodeLock
        /\ DropAll(p)
        /\ nUnused' = IF nLock[p] = 1 THEN [nUnused EXCEPT ![p] = 0] ELSE nUnused
        /\ FileLock(f, NO_LOCK)
        /\ Return(f)
        /\ UNCHANGED <<open, closing>>

(* ...then the file is counted out; the last one of the process drops the    *)
(* kernel's locks.  At nLock = 0 the deferred descriptors are closed, and a  *)
(* close() drops the locks of the process whoever holds them.                *)
UnlockAll(f) ==
    LET p == ProcOf[f]
    IN  /\ InCall(f, "unlockAll") \/ (Free(p) /\ eFileLock[f] = SHARED_LOCK)
        /\ nShared' = [nShared EXCEPT ![p] = @ - 1]
        /\ nLock' = [nLock EXCEPT ![p] = @ - 1]
        /\ IF nShared[p] = 1 THEN InodeLock(p, NO_LOCK) ELSE UNCHANGED inodeLock
        /\ IF nShared[p] = 1 \/ (nLock[p] = 1 /\ nUnused[p] > 0)
           THEN DropAll(p) ELSE UNCHANGED kernel
        /\ nUnused' = IF nLock[p] = 1 THEN [nUnused EXCEPT ![p] = 0] ELSE nUnused
        /\ FileLock(f, NO_LOCK)
        /\ Return(f)
        /\ UNCHANGED <<open, closing>>

-----------------------------------------------------------------------------
(* unixClose(), after its call of unixUnlock(NO_LOCK), under unixBigLock. *)

(* Mutant of CloseDeferred: the descriptor is closed at once. *)
CloseAtOnce(f) ==
    LET p == ProcOf[f]
    IN  /\ f \in open /\ Free(p) /\ closing[p] = NoFile
        /\ eFileLock[f] = NO_LOCK /\ nLock[p] > 0
        /\ open' = open \ {f}
        /\ DropAll(p)
        /\ UNCHANGED <<eFileLock, record, nUnused, holder, at, closing>>

(* Somebody in the process holds a lock: setPendingFd(). *)
CloseDeferred(f) ==
    LET p == ProcOf[f]
    IN  /\ f \in open /\ Free(p) /\ closing[p] = NoFile
        /\ eFileLock[f] = NO_LOCK /\ nLock[p] > 0
        /\ open' = open \ {f}
        /\ nUnused' = [nUnused EXCEPT ![p] = @ + 1]
        /\ UNCHANGED <<eFileLock, record, kernel, holder, at, closing>>

(* Nobody does: pLockMutex is released, and the descriptor still open. *)
CloseChecks(f) ==
    LET p == ProcOf[f]
    IN  /\ f \in open /\ Free(p) /\ closing[p] = NoFile
        /\ eFileLock[f] = NO_LOCK /\ nLock[p] = 0
        /\ closing' = [closing EXCEPT ![p] = f]
        /\ UNCHANGED <<open, eFileLock, record, nUnused, kernel, holder, at>>

(* releaseInodeInfo(), where the last file of the inode closes the deferred  *)
(* descriptors, and closeUnixFile(): close() drops every lock of the process *)
(* on the database.                                                          *)
CloseFd(f) ==
    LET p == ProcOf[f]
    IN  /\ closing[p] = f
        /\ open' = open \ {f}
        /\ closing' = [closing EXCEPT ![p] = NoFile]
        /\ nUnused' = IF FilesOf(p) \cap open = {f} THEN [nUnused EXCEPT ![p] = 0] ELSE nUnused
        /\ DropAll(p)
        /\ UNCHANGED <<eFileLock, record, holder, at>>

(* The process is killed: the kernel closes its descriptors. *)
ProcessDies(p) ==
    /\ open' = open \ FilesOf(p)
    /\ eFileLock' = [f \in Files |-> IF ProcOf[f] = p THEN NO_LOCK ELSE eFileLock[f]]
    /\ InodeLock(p, NO_LOCK)
    /\ nShared' = [nShared EXCEPT ![p] = 0]
    /\ nLock' = [nLock EXCEPT ![p] = 0]
    /\ nUnused' = [nUnused EXCEPT ![p] = 0]
    /\ DropAll(p)
    /\ holder' = [holder EXCEPT ![p] = NoFile]
    /\ at' = [at EXCEPT ![p] = "idle"]
    /\ closing' = [closing EXCEPT ![p] = NoFile]

-----------------------------------------------------------------------------
Lock(f) ==
    \/ ShareWithOthers(f) \/ SharePending(f) \/ ShareRange(f) \/ ShareDone(f) \/ ShareFails(f)
    \/ Reserve(f) \/ ExclusivePending(f) \/ ExclusiveGranted(f) \/ ExclusiveBusy(f)
Unlock(f) == DowngradeRange(f) \/ DowngradeDone(f) \/ UnlockReserved(f) \/ UnlockAll(f)
Close(f) == CloseDeferred(f) \/ CloseChecks(f) \/ CloseFd(f)

Next ==
    \/ \E f \in Files : Open(f) \/ Lock(f) \/ Unlock(f) \/ Close(f)
    \/ \E p \in Procs : ProcessDies(p)

Spec == Init /\ [][Next]_vars

(* A call returns.  A pager that waits to write tries again for ever (the    *)
(* busy handler of SQLiteConnection always answers 1), and its client ends   *)
(* every transaction that reads, at the latest when a writer waits.          *)
Fairness ==
    \A f \in Files :
        /\ WF_vars(ShareRange(f) \/ ShareDone(f) \/ ShareFails(f) \/ DowngradeDone(f)
                   \/ (InCall(f, "unlockAll") /\ UnlockAll(f)))
        /\ WF_vars(ExclusiveGranted(f) \/ ExclusiveBusy(f))
        /\ SF_vars(eFileLock[f] = SHARED_LOCK /\ UnlockAll(f))
FairSpec == Spec /\ Fairness

-----------------------------------------------------------------------------
Sharers(p) == {f \in FilesOf(p) : eFileLock[f] >= SHARED_LOCK}

(* The lock of a file as the other pagers may rely on it: a call that lowers *)
(* it gives it up before the call returns.                                   *)
level == [f \in Files |->
             CASE InCall(f, "unlockReserved") -> SHARED_LOCK
               [] InCall(f, "unlockAll") ->
                     IF sharedBytes[ProcOf[f]] = "F_WRLCK" THEN EXCLUSIVE_LOCK ELSE SHARED_LOCK
               [] OTHER -> eFileLock[f]]

Locks == INSTANCE FileLocks WITH Files <- Files, ProcOf <- ProcOf, level <- level

(* Connections of one process and of several are locked out of each other as *)
(* FileLocks says, although the kernel does not tell the files of a process  *)
(* apart and each lock takes several system calls (unixLock, posixUnlock).   *)
ImplementsFileLocks == Locks!Spec

(* No two connections hold locks that exclude each other: two writers, or a  *)
(* writer that changes the file under a reader of any process.               *)
NoConflict == Locks!Excludes

(* What the inode record says holds in the kernel: while some connection of  *)
(* a process has a lock, closing another connection has not dropped it       *)
(* (setPendingFd, closePendingFds).                                          *)
LocksAreKept ==
    \A p \in Procs : Free(p) =>
        /\ sharedBytes[p] = CASE inodeLock[p] = EXCLUSIVE_LOCK -> "F_WRLCK"
                              [] inodeLock[p] = NO_LOCK -> "F_UNLCK"
                              [] OTHER -> "F_RDLCK"
        /\ inodeLock[p] \in {RESERVED_LOCK, PENDING_LOCK} => reservedByte[p] = "F_WRLCK"
        /\ inodeLock[p] = PENDING_LOCK => pendingByte[p] = "F_WRLCK"

(* The kernel holds nothing that no connection knows of, so nobody is locked *)
(* out for good: a process without locks has none in the kernel, and one     *)
(* without a writer keeps the writer's bytes free.                           *)
NothingIsLeftLocked ==
    \A p \in Procs : Free(p) =>
        /\ Sharers(p) = {} => sharedBytes[p] = "F_UNLCK"
        /\ (\A f \in Sharers(p) : eFileLock[f] = SHARED_LOCK)
               => pendingByte[p] = "F_UNLCK" /\ reservedByte[p] = "F_UNLCK"

(* A deferred descriptor is closed with the last lock of its process, or     *)
(* used by the next open: a process never has more descriptors on the        *)
(* database than it has connections to it, opened or once opened.            *)
DescriptorsAreBounded ==
    \A p \in Procs :
        /\ nLock[p] = 0 => nUnused[p] = 0
        /\ nUnused[p] + Cardinality(FilesOf(p) \cap open) <= Cardinality(FilesOf(p))

(* A writer that waits with PENDING is not starved by readers that come and  *)
(* go: it gets EXCLUSIVE or gives up, provided that each other process has   *)
(* one connection.  With two, readers that overlap keep the process's lock   *)
(* for ever (ShareWithOthers).                                               *)
OneReaderEach(f) == \A p \in Procs \ {ProcOf[f]} : Cardinality(FilesOf(p)) <= 1
WriterGetsThrough ==
    \A f \in Files :
        OneReaderEach(f) => (eFileLock[f] = PENDING_LOCK ~> eFileLock[f] # PENDING_LOCK)
=============================================================================
