--------------------------- MODULE RollbackJournal ---------------------------
(***************************************************************************)
(* Transactions of the pager (pager.c) in journal mode DELETE, synchronous *)
(* FULL: the pages of the database file, the rollback journal beside it,   *)
(* the page cache of each connection, the recovery of a hot journal.       *)
(*                                                                         *)
(* Each pager is a connection of a process of its own.  Its locks are      *)
(* those of FileLocks, which UnixLocks implements.  A step is one system   *)
(* call on a file, so that other processes, a death of the process and a   *)
(* loss of power come in between.  A call answered SQLITE_BUSY that leaves *)
(* everything as it was is a stuttering step.  Left out are commits that   *)
(* shrink the database (VACUUM: pager_truncate() in pager_end_transaction, *)
(* once the journal is gone): a transaction changes pages, or appends      *)
(* them.                                                                   *)
(***************************************************************************)
EXTENDS Integers, Sequences, FiniteSets

CONSTANTS
    Pagers,    \* the connections
    MaxPage,   \* bound: the pages of the database
    MaxTx,     \* bound: the write transactions that are begun
    PowerFrom  \* the pages that the database has when the power may first go

ASSUME BoundsAssumption == MaxPage \in Nat \ {0} /\ MaxTx \in Nat /\ PowerFrom \in 0..1

VARIABLES
    level,      \* the lock of each pager on the database file (FileLocks)
    eState,     \* Pager.eState
    at,         \* the system call that a call into the pager is about to make
    committing, \* is syncJournal() called by CommitPhaseOne, not by pagerStress?
    cache,      \* the page cache
    dirty,      \* the dirty pages of the cache
    vers,       \* Pager.dbFileVers
    countDone,  \* Pager.changeCountDone
    tx,         \* the write transaction of each pager
    pos,        \* the next journal record to play back
    db,         \* the database file
    disk,       \*   as a loss of power leaves it
    jrnl,       \* the journal file
    jdisk,      \* the journal file that the directory on the disk names
    named,      \* is jdisk the same file as jrnl?
    serial,     \* write transactions begun so far
    committed,  \* the database that the last commit made
    before      \*   and the one before it, while its journal is on the disk

caches == <<cache, dirty, vers, countDone, tx, pos>>
dbFile == <<db, disk>>
journal == <<jrnl, jdisk, named>>
ghosts == <<committed, before>>
vars == <<level, eState, at, committing, caches, dbFile, journal, serial, ghosts>>

Locks == INSTANCE FileLocks WITH Files <- Pagers, ProcOf <- [p \in Pagers |-> p], level <- level

NO_LOCK == 0
RESERVED_LOCK == 2
PENDING_LOCK == 3
EXCLUSIVE_LOCK == 4

(* A page is the transaction that wrote it; page 1 has the change counter. *)
Pages == 1..MaxPage
Content == [cnt : Nat, tx : Int]
NoPage == [cnt |-> 0, tx |-> 0]      \* beyond the end of the file
Garbage == [cnt |-> 0, tx |-> -1]    \* half written when the power went
NotCached == [cnt |-> 0, tx |-> -2]

Size(f) == Cardinality({pg \in Pages : \E q \in pg..MaxPage : f[q] # NoPage})
Truncated(f, n) == [pg \in Pages |-> IF pg > n THEN NoPage ELSE f[pg]]

(* A journal: the transaction it belongs to, the size of the database before  *)
(* it, whether the header has the magic number and is counted (syncJournal),  *)
(* the number of records that the headers count, the records.                 *)
Record == [pg : Pages, val : Content]
Journals ==
    [exists : BOOLEAN, tx : Nat, mx : Nat, hdr : BOOLEAN, nRec : Nat, recs : Seq(Record)]
NoJournal == [exists |-> FALSE, tx |-> 0, mx |-> 0, hdr |-> FALSE, nRec |-> 0, recs |-> << >>]

EStates == {"OPEN", "READER", "WRITER_LOCKED", "WRITER_CACHEMOD", "WRITER_DBMOD",
            "WRITER_FINISHED", "ERROR"}
Calls == {"idle", "access", "checkReserved", "readHeader", "reserveToDelete", "deleteStale",
          "lockHot", "syncHot", "playback", "syncRestored", "finish", "downgrade", "check",
          "exclusive", "syncRecords", "writeNRec", "syncHeader", "writePages", "spill"}

TypeOK ==
    /\ level \in [Pagers -> 0..4]
    /\ eState \in [Pagers -> EStates]
    /\ at \in [Pagers -> Calls]
    /\ committing \in [Pagers -> BOOLEAN]
    /\ cache \in [Pagers -> [Pages -> Content]]
    /\ dirty \in [Pagers -> SUBSET Pages]
    /\ \A p \in Pagers : dirty[p] \subseteq {pg \in Pages : cache[p][pg] # NotCached}
    /\ vers \in [Pagers -> Nat]
    /\ countDone \in [Pagers -> BOOLEAN]
    /\ tx \in [Pagers -> 0..MaxTx]
    /\ pos \in [Pagers -> Nat]
    /\ db \in [Pages -> Content] /\ disk \in [Pages -> Content]
    /\ jrnl \in Journals /\ jdisk \in Journals
    /\ named \in BOOLEAN
    /\ serial \in 0..MaxTx
    /\ committed \in [Pages -> Content] /\ before \in [Pages -> Content]

EmptyFile == [pg \in Pages |-> NoPage]
EmptyCache == [pg \in Pages |-> NotCached]

Init ==
    /\ level = [p \in Pagers |-> NO_LOCK]
    /\ eState = [p \in Pagers |-> "OPEN"]
    /\ at = [p \in Pagers |-> "idle"]
    /\ committing = [p \in Pagers |-> FALSE]
    /\ cache = [p \in Pagers |-> EmptyCache]
    /\ dirty = [p \in Pagers |-> {}]
    /\ vers = [p \in Pagers |-> 0]
    /\ countDone = [p \in Pagers |-> FALSE]
    /\ tx = [p \in Pagers |-> 0]
    /\ pos = [p \in Pagers |-> 1]
    /\ db = EmptyFile /\ disk = EmptyFile
    /\ jrnl = NoJournal /\ jdisk = NoJournal /\ named = FALSE
    /\ serial = 0
    /\ committed = EmptyFile /\ before = EmptyFile

-----------------------------------------------------------------------------
Set(var, p, v) == [var EXCEPT ![p] = v]
Goto(p, call) == at' = Set(at, p, call)
IsAt(p, call) == at[p] = call
Idle(p, state) == at[p] = "idle" /\ eState[p] = state
Writing(p) == at[p] = "idle" /\ eState[p] \in {"WRITER_CACHEMOD", "WRITER_DBMOD"}
Become(p, state) == eState' = Set(eState, p, state)

(* pagerUnlockDb(): every lock that is given up clears changeCountDone. *)
UnlockDb(p, unlock) == unlock /\ countDone' = Set(countDone, p, FALSE)

(* The directory on the disk keeps the name of the journal for a while. *)
UnlinkJournal == jrnl' = NoJournal /\ named' = FALSE /\ jdisk' = jdisk

(* unixSync() of the journal file writes its directory too. *)
SyncJournalFile == jdisk' = jrnl /\ named' = TRUE /\ jrnl' = jrnl

Cached(p, pg) == cache[p][pg] # NotCached
Image(p) == [pg \in Pages |-> IF Cached(p, pg) THEN cache[p][pg] ELSE db[pg]]

(* The first record that is no whole page stops playback, and so does the     *)
(* number of records.                                                         *)
Valid(j, n) ==
    {i \in 1..n : \A k \in 1..i : k <= Len(j.recs) /\ j.recs[k].val # Garbage}
PlayedBack(f, j) ==
    [pg \in Pages |->
        LET of == {i \in Valid(j, j.nRec) : j.recs[i].pg = pg}
        IN  IF pg > j.mx THEN NoPage
            ELSE IF of = {} THEN f[pg]
            ELSE j.recs[CHOOSE i \in of : TRUE].val]

(* What the next connection makes of the files it finds. *)
Recovered(f, j) == IF j.exists /\ j.hdr /\ Size(f) > 0 THEN PlayedBack(f, j) ELSE f

-----------------------------------------------------------------------------
(* sqlite3PagerSharedLock() and hasHotJournal(). *)

SharedLock(p) ==
    /\ Idle(p, "OPEN")
    /\ Locks!Share(p)
    /\ Goto(p, "access")
    /\ UNCHANGED <<eState, committing, caches, dbFile, journal, serial, ghosts>>

AccessJournal(p) ==
    /\ IsAt(p, "access")
    /\ Goto(p, IF jrnl.exists THEN "checkReserved" ELSE "check")
    /\ UNCHANGED <<level, eState, committing, caches, dbFile, journal, serial, ghosts>>

(* The journal of a live transaction: its pager is RESERVED or above. *)
CheckReservedLock(p) ==
    /\ IsAt(p, "checkReserved")
    /\ Goto(p, IF \E q \in Pagers \ {p} : level[q] >= RESERVED_LOCK THEN "check" ELSE "readHeader")
    /\ UNCHANGED <<level, eState, committing, caches, dbFile, journal, serial, ghosts>>

(* An empty database makes the journal stale.  A journal that has gone in the *)
(* meantime counts as hot.                                                    *)
ReadHeader(p) ==
    /\ IsAt(p, "readHeader")
    /\ Goto(p, IF Size(db) = 0 THEN "reserveToDelete"
               ELSE IF jrnl.exists /\ ~jrnl.hdr THEN "check" ELSE "lockHot")
    /\ UNCHANGED <<level, eState, committing, caches, dbFile, journal, serial, ghosts>>

(* Mutant of ReserveToDelete: without the RESERVED lock. *)
DeleteUnreserved(p) ==
    /\ IsAt(p, "reserveToDelete")
    /\ Goto(p, "deleteStale")
    /\ UNCHANGED <<level, eState, committing, caches, dbFile, journal, serial, ghosts>>

ReserveToDelete(p) ==
    /\ IsAt(p, "reserveToDelete")
    /\ \/ Locks!Reserve(p) /\ Goto(p, "deleteStale")
       \/ ~Locks!OthersOnlyRead(p) /\ Goto(p, "check") /\ UNCHANGED level
    /\ UNCHANGED <<eState, committing, caches, dbFile, journal, serial, ghosts>>

DeleteStaleJournal(p) ==
    /\ IsAt(p, "deleteStale")
    /\ UnlinkJournal
    /\ Goto(p, "downgrade")
    /\ UNCHANGED <<level, eState, committing, caches, dbFile, serial, ghosts>>

(* EXCLUSIVE without RESERVED on the way. *)
LockHot(p) ==
    /\ IsAt(p, "lockHot")
    /\ Locks!Exclude(p)
    /\ Goto(p, "syncHot")
    /\ UNCHANGED <<eState, committing, caches, dbFile, journal, serial, ghosts>>

(* SQLITE_BUSY: another reader found it too. *)
LockHotBusy(p) ==
    /\ IsAt(p, "lockHot")
    /\ ~Locks!IsAlone(p)
    /\ UnlockDb(p, Locks!Release({p}))
    /\ Goto(p, "idle")
    /\ UNCHANGED <<eState, committing, cache, dirty, vers, tx, pos, dbFile, journal, serial, ghosts>>

(* pagerSyncHotJournal() and the start of pager_playback(), unless somebody  *)
(* else has rolled back.                                                     *)
SyncHotJournal(p) ==
    /\ IsAt(p, "syncHot")
    /\ IF jrnl.exists
       THEN /\ SyncJournalFile
            /\ pos' = Set(pos, p, 1)
            /\ db' = IF jrnl.hdr THEN Truncated(db, jrnl.mx) ELSE db
            /\ Goto(p, "playback")
       ELSE /\ Goto(p, "downgrade")
            /\ UNCHANGED <<journal, pos, db>>
    /\ UNCHANGED <<level, eState, committing, cache, dirty, vers, countDone, tx, disk, serial, ghosts>>

-----------------------------------------------------------------------------
(* pager_playback(), of a hot journal in state OPEN or of the pager's own.   *)

IsHot(p) == eState[p] = "OPEN"
WritesDb(p) == eState[p] \in {"OPEN", "WRITER_DBMOD"}
NumRecords(p) == IF IsHot(p) THEN jrnl.nRec ELSE Len(jrnl.recs)

(* sqlite3PagerRollback(): a transaction without a journal just ends. *)
Rollback(p) ==
    /\ at[p] = "idle" /\ eState[p] \in {"WRITER_LOCKED", "WRITER_CACHEMOD", "WRITER_DBMOD"}
    /\ IF eState[p] = "WRITER_LOCKED"
       THEN Goto(p, "downgrade") /\ UNCHANGED <<pos, db>>
       ELSE /\ Goto(p, "playback")
            /\ pos' = Set(pos, p, 1)
            /\ db' = IF WritesDb(p) THEN Truncated(db, jrnl.mx) ELSE db
    /\ UNCHANGED <<level, eState, committing, cache, dirty, vers, countDone, tx, disk,
                   journal, serial, ghosts>>

(* Mutant of PlaybackOnePage: the database keeps what was spilled. *)
PlaybackToCacheOnly(p) ==
    /\ IsAt(p, "playback")
    /\ pos[p] \in Valid(jrnl, NumRecords(p))
    /\ LET r == jrnl.recs[pos[p]]
       IN  /\ db' = IF IsHot(p) THEN [db EXCEPT ![r.pg] = r.val] ELSE db
           /\ cache' = IF IsHot(p) THEN Set(cache, p, EmptyCache)
                       ELSE IF Cached(p, r.pg) THEN [cache EXCEPT ![p][r.pg] = r.val] ELSE cache
           /\ vers' = IF ~IsHot(p) /\ r.pg = 1 THEN Set(vers, p, r.val.cnt) ELSE vers
    /\ pos' = Set(pos, p, pos[p] + 1)
    /\ UNCHANGED <<level, eState, at, committing, dirty, countDone, tx, disk, journal, serial, ghosts>>

(* pager_playback_one_page(): into the database only what is synced in the   *)
(* journal; what is not has not been written to the database either.         *)
PlaybackOnePage(p) ==
    /\ IsAt(p, "playback")
    /\ pos[p] \in Valid(jrnl, NumRecords(p))
    /\ LET r == jrnl.recs[pos[p]]
       IN  /\ db' = IF WritesDb(p) /\ pos[p] <= jrnl.nRec
                    THEN [db EXCEPT ![r.pg] = r.val] ELSE db
           /\ cache' = IF IsHot(p) THEN Set(cache, p, EmptyCache)
                       ELSE IF Cached(p, r.pg) THEN [cache EXCEPT ![p][r.pg] = r.val] ELSE cache
           /\ vers' = IF ~IsHot(p) /\ r.pg = 1 THEN Set(vers, p, r.val.cnt) ELSE vers
    /\ pos' = Set(pos, p, pos[p] + 1)
    /\ UNCHANGED <<level, eState, at, committing, dirty, countDone, tx, disk, journal, serial, ghosts>>

PlaybackEnds(p) ==
    /\ IsAt(p, "playback")
    /\ pos[p] \notin Valid(jrnl, NumRecords(p))
    /\ Goto(p, IF WritesDb(p) THEN "syncRestored" ELSE "finish")
    /\ UNCHANGED <<level, eState, committing, caches, dbFile, journal, serial, ghosts>>

SyncRestored(p) ==
    /\ IsAt(p, "syncRestored")
    /\ disk' = db
    /\ Goto(p, "finish")
    /\ UNCHANGED <<level, eState, committing, caches, db, journal, serial, ghosts>>

(* pager_end_transaction(): the journal is deleted, the pages beyond the end *)
(* of the file leave the cache... *)
FinishRollback(p) ==
    /\ IsAt(p, "finish")
    /\ UnlinkJournal
    /\ dirty' = Set(dirty, p, {})
    /\ cache' = Set(cache, p, [pg \in Pages |-> IF pg > jrnl.mx THEN NotCached ELSE cache[p][pg]])
    /\ Goto(p, "downgrade")
    /\ UNCHANGED <<level, eState, committing, vers, countDone, tx, pos, dbFile, serial, ghosts>>

(* ...and the lock is lowered to SHARED. *)
Downgrade(p) ==
    /\ IsAt(p, "downgrade")
    /\ UnlockDb(p, Locks!Downgrade(p))
    /\ IF IsHot(p) THEN Goto(p, "check") /\ UNCHANGED eState
                   ELSE Goto(p, "idle") /\ Become(p, "READER")
    /\ UNCHANGED <<committing, cache, dirty, vers, tx, pos, dbFile, journal, serial, ghosts>>

(* unlink() fails: the lock is lowered all the same, and the pager is in     *)
(* error until its last page is given back.                                  *)
UnlinkFails(p) ==
    /\ IsAt(p, "finish") \/ Idle(p, "WRITER_FINISHED")
    /\ UnlockDb(p, Locks!Downgrade(p))
    /\ Goto(p, "idle") /\ Become(p, "ERROR")
    /\ UNCHANGED <<committing, cache, dirty, vers, tx, pos, dbFile, journal, serial, ghosts>>

-----------------------------------------------------------------------------
(* A read transaction. *)

(* Mutant of CheckCache: the first page's counter is not compared. *)
KeepCache(p) ==
    /\ IsAt(p, "check")
    /\ Goto(p, "idle") /\ Become(p, "READER")
    /\ UNCHANGED <<level, committing, caches, dbFile, journal, serial, ghosts>>

(* The cache is as old as the change counter that was read with page 1. *)
CheckCache(p) ==
    /\ IsAt(p, "check")
    /\ cache' = IF vers[p] = db[1].cnt THEN cache ELSE Set(cache, p, EmptyCache)
    /\ Goto(p, "idle") /\ Become(p, "READER")
    /\ UNCHANGED <<level, committing, dirty, vers, countDone, tx, pos, dbFile, journal, serial, ghosts>>

(* readDbPage(); lockBtree() reads page 1 before all others. *)
ReadPage(p, pg) ==
    /\ Idle(p, "READER") \/ Idle(p, "WRITER_LOCKED") \/ Writing(p)
    /\ ~Cached(p, pg) /\ pg <= Size(db)
    /\ pg = 1 \/ Cached(p, 1)
    /\ cache' = [cache EXCEPT ![p][pg] = db[pg]]
    /\ vers' = IF pg = 1 THEN Set(vers, p, db[1].cnt) ELSE vers
    /\ UNCHANGED <<level, eState, at, committing, dirty, countDone, tx, pos, dbFile,
                   journal, serial, ghosts>>

(* pager_unlock(); the cache stays. *)
Unlock(p) ==
    /\ Idle(p, "READER")
    /\ UnlockDb(p, Locks!Release({p}))
    /\ Become(p, "OPEN")
    /\ UNCHANGED <<at, committing, cache, dirty, vers, tx, pos, dbFile, journal, serial, ghosts>>

-----------------------------------------------------------------------------
(* A write transaction. *)

(* sqlite3PagerBegin() of a transaction that has read page 1. *)
Begin(p) ==
    /\ Idle(p, "READER")
    /\ Size(db) > 0 => Cached(p, 1)
    /\ serial < MaxTx
    /\ Locks!Reserve(p)
    /\ Become(p, "WRITER_LOCKED")
    /\ serial' = serial + 1
    /\ tx' = Set(tx, p, serial + 1)
    /\ UNCHANGED <<at, committing, cache, dirty, vers, countDone, pos, dbFile, journal, ghosts>>

(* pager_open_journal(): what a killed process left under the name is        *)
(* written over; the header has no magic number yet.                         *)
OpenJournal(p) ==
    /\ Idle(p, "WRITER_LOCKED")
    /\ jrnl' = [NoJournal EXCEPT !.exists = TRUE, !.tx = tx[p], !.mx = Size(db)]
    /\ named' = FALSE
    /\ Become(p, "WRITER_CACHEMOD")
    /\ UNCHANGED <<level, at, committing, caches, dbFile, jdisk, serial, ghosts>>

InJournal(pg) == \E i \in DOMAIN jrnl.recs : jrnl.recs[i].pg = pg

(* pager_write(): the page as it was goes to the journal, once. *)
MakeWritable(p, pg) ==
    /\ dirty' = [dirty EXCEPT ![p] = @ \cup {pg}]
    /\ jrnl' = IF pg > jrnl.mx \/ InJournal(pg) THEN jrnl
               ELSE [jrnl EXCEPT !.recs = Append(@, [pg |-> pg, val |-> cache[p][pg]])]
    /\ UNCHANGED <<jdisk, named>>

(* Change a page, or append one. *)
WritePage(p, pg) ==
    /\ Writing(p)
    /\ Cached(p, pg) \/ pg = Size(Image(p)) + 1
    /\ MakeWritable(p, pg)
    /\ cache' = [cache EXCEPT ![p][pg] = [cnt |-> IF Cached(p, pg) THEN @.cnt ELSE 0, tx |-> tx[p]]]
    /\ UNCHANGED <<level, eState, at, committing, vers, countDone, tx, pos, dbFile, serial, ghosts>>

(* sqlite3PagerCommitPhaseOne() begins with pager_incr_changecounter(). *)
CommitPhaseOne(p) ==
    /\ Writing(p) /\ Cached(p, 1)
    /\ committing' = Set(committing, p, TRUE)
    /\ Goto(p, "exclusive")
    /\ IF countDone[p] THEN UNCHANGED <<dirty, journal, cache, countDone>>
       ELSE /\ MakeWritable(p, 1)
            /\ cache' = [cache EXCEPT ![p][1].cnt = vers[p] + 1]
            /\ countDone' = Set(countDone, p, TRUE)
    /\ UNCHANGED <<level, eState, vers, tx, pos, dbFile, serial, ghosts>>

(* pagerStress(): the cache is full in mid-transaction.  Page 1 is in use.   *)
NeedSync(p, pg) ==
    \/ eState[p] = "WRITER_CACHEMOD"
    \/ \E i \in DOMAIN jrnl.recs : i > jrnl.nRec /\ jrnl.recs[i].pg = pg

Stress(p) ==
    /\ Writing(p)
    /\ \E pg \in dirty[p] \ {1} : NeedSync(p, pg)
    /\ committing' = Set(committing, p, FALSE)
    /\ Goto(p, "exclusive")
    /\ UNCHANGED <<level, eState, caches, dbFile, journal, serial, ghosts>>

(* syncJournal(): PENDING, then EXCLUSIVE once the readers have gone (the    *)
(* busy handler makes it wait)...                                            *)
ExclusiveLock(p) ==
    /\ IsAt(p, "exclusive")
    /\ \/ Locks!Pend(p) /\ UNCHANGED at
       \/ level[p] = PENDING_LOCK /\ Locks!Exclude(p) /\ Goto(p, "syncRecords")
       \/ level[p] = EXCLUSIVE_LOCK /\ UNCHANGED level /\ Goto(p, "syncRecords")
    /\ UNCHANGED <<eState, committing, caches, dbFile, journal, serial, ghosts>>

(* ...the records are synced before the header counts them... *)
SyncRecords(p) ==
    /\ IsAt(p, "syncRecords")
    /\ SyncJournalFile
    /\ Goto(p, "writeNRec")
    /\ UNCHANGED <<level, eState, committing, caches, dbFile, serial, ghosts>>

WriteNRec(p) ==
    /\ IsAt(p, "writeNRec")
    /\ jrnl' = [jrnl EXCEPT !.hdr = TRUE, !.nRec = Len(jrnl.recs)]
    /\ Goto(p, "syncHeader")
    /\ UNCHANGED <<level, eState, committing, caches, dbFile, jdisk, named, serial, ghosts>>

(* Mutant of SyncHeader: the database is written before the header is synced. *)
SkipSyncHeader(p) ==
    /\ IsAt(p, "syncHeader")
    /\ Become(p, "WRITER_DBMOD")
    /\ Goto(p, IF committing[p] THEN "writePages" ELSE "spill")
    /\ UNCHANGED <<level, committing, caches, dbFile, journal, serial, ghosts>>

(* ...and the header before the database is written. *)
SyncHeader(p) ==
    /\ IsAt(p, "syncHeader")
    /\ SyncJournalFile
    /\ Become(p, "WRITER_DBMOD")
    /\ Goto(p, IF committing[p] THEN "writePages" ELSE "spill")
    /\ UNCHANGED <<level, committing, caches, dbFile, serial, ghosts>>

(* Mutant of SpillPage: the page stays on the list of the dirty ones. *)
SpillOnly(p, pg) ==
    /\ IsAt(p, "spill") \/ (Idle(p, "WRITER_DBMOD") /\ ~NeedSync(p, pg))
    /\ pg \in dirty[p] \ {1}
    /\ db' = [db EXCEPT ![pg] = cache[p][pg]]
    /\ cache' = [cache EXCEPT ![p][pg] = NotCached]
    /\ Goto(p, "idle")
    /\ UNCHANGED <<level, eState, committing, dirty, vers, countDone, tx, pos, disk, journal,
                   serial, ghosts>>

SpillPage(p, pg) ==
    /\ IsAt(p, "spill") \/ (Idle(p, "WRITER_DBMOD") /\ ~NeedSync(p, pg))
    /\ pg \in dirty[p] \ {1}
    /\ db' = [db EXCEPT ![pg] = cache[p][pg]]
    /\ cache' = [cache EXCEPT ![p][pg] = NotCached]
    /\ dirty' = [dirty EXCEPT ![p] = @ \ {pg}]
    /\ Goto(p, "idle")
    /\ UNCHANGED <<level, eState, committing, vers, countDone, tx, pos, disk, journal, serial, ghosts>>

(* pager_write_pagelist(), in the order of the pages; page 1 takes the next  *)
(* change counter.                                                           *)
WriteDirtyPage(p, pg) ==
    /\ IsAt(p, "writePages")
    /\ pg \in dirty[p] /\ \A q \in dirty[p] : pg <= q
    /\ LET page == IF pg = 1 THEN [cache[p][1] EXCEPT !.cnt = vers[p] + 1] ELSE cache[p][pg]
       IN  /\ db' = [db EXCEPT ![pg] = page]
           /\ cache' = [cache EXCEPT ![p][pg] = page]
    /\ vers' = IF pg = 1 THEN Set(vers, p, vers[p] + 1) ELSE vers
    /\ dirty' = [dirty EXCEPT ![p] = @ \ {pg}]
    /\ UNCHANGED <<level, eState, at, committing, countDone, tx, pos, disk, journal, serial, ghosts>>

SyncDatabase(p) ==
    /\ IsAt(p, "writePages") /\ dirty[p] = {}
    /\ disk' = db
    /\ Goto(p, "idle") /\ Become(p, "WRITER_FINISHED")
    /\ UNCHANGED <<level, committing, caches, db, journal, serial, ghosts>>

(* sqlite3PagerCommitPhaseTwo(): without its journal the transaction stands. *)
CommitPhaseTwo(p) ==
    /\ Idle(p, "WRITER_FINISHED")
    /\ UnlinkJournal
    /\ committed' = Image(p)
    /\ before' = committed
    /\ Goto(p, "downgrade")
    /\ UNCHANGED <<level, eState, committing, caches, dbFile, serial>>

-----------------------------------------------------------------------------
(* Faults. *)

Forget(p) ==
    /\ eState' = Set(eState, p, "OPEN")
    /\ at' = Set(at, p, "idle")
    /\ cache' = Set(cache, p, EmptyCache)
    /\ dirty' = Set(dirty, p, {})
    /\ countDone' = Set(countDone, p, FALSE)

(* The process is killed, or a system call of the pager fails: pager_error() *)
(* and pager_unlock().  The journal stays.                                   *)
Abandon(p) ==
    /\ level[p] # NO_LOCK
    /\ Locks!Release({p})
    /\ Forget(p)
    /\ UNCHANGED <<committing, vers, tx, pos, dbFile, journal, serial, ghosts>>

(* What of the unsynced writes a loss of power keeps, page by page... *)
TornPages ==
    {f \in [Pages -> {db[pg] : pg \in Pages} \cup {disk[pg] : pg \in Pages} \cup {Garbage}] :
        \A pg \in Pages : f[pg] \in IF db[pg] = disk[pg] THEN {db[pg]}
                                    ELSE {db[pg], disk[pg], Garbage}}

(* ...record by record... *)
TornRecords(synced) ==
    {r \in [DOMAIN jrnl.recs -> {jrnl.recs[i] : i \in DOMAIN jrnl.recs}
                                   \cup {[pg |-> 1, val |-> Garbage]}] :
        \A i \in DOMAIN jrnl.recs :
            r[i] \in {jrnl.recs[i]} \cup IF i <= synced THEN {} ELSE {[pg |-> 1, val |-> Garbage]}}

(* ...the header as it is or as it was... *)
TornWith(header, synced) ==
    {[jrnl EXCEPT !.recs = r, !.hdr = header.hdr, !.nRec = header.nRec] : r \in TornRecords(synced)}

(* ...and of the journal's name. *)
TornJournals ==
    IF ~jrnl.exists THEN {NoJournal, jdisk}
    ELSE IF named THEN TornWith(jdisk, Len(jdisk.recs)) \cup TornWith(jrnl, Len(jdisk.recs))
    ELSE TornWith(NoJournal, 0) \cup TornWith(jrnl, 0) \cup {jdisk}

PowerLoss ==
    /\ Size(committed) >= PowerFrom
    /\ \E f \in TornPages, j \in TornJournals :
          /\ db' = f /\ disk' = f
          /\ jrnl' = j /\ jdisk' = j /\ named' = TRUE
          /\ committed' = Recovered(f, j) /\ before' = Recovered(f, j)
          /\ level' = [p \in Pagers |-> NO_LOCK]
          /\ eState' = [p \in Pagers |-> "OPEN"]
          /\ at' = [p \in Pagers |-> "idle"]
          /\ cache' = [p \in Pagers |-> EmptyCache]
          /\ dirty' = [p \in Pagers |-> {}]
          /\ countDone' = [p \in Pagers |-> FALSE]
          /\ UNCHANGED <<committing, vers, tx, pos, serial>>

-----------------------------------------------------------------------------
Read(p) ==
    \/ SharedLock(p) \/ AccessJournal(p) \/ CheckReservedLock(p) \/ ReadHeader(p)
    \/ ReserveToDelete(p) \/ DeleteStaleJournal(p) \/ LockHot(p) \/ LockHotBusy(p)
    \/ SyncHotJournal(p) \/ CheckCache(p) \/ Unlock(p)
    \/ \E pg \in Pages : ReadPage(p, pg)

Undo(p) ==
    \/ Rollback(p) \/ PlaybackOnePage(p) \/ PlaybackEnds(p) \/ SyncRestored(p)
    \/ FinishRollback(p) \/ Downgrade(p) \/ UnlinkFails(p)

Write(p) ==
    \/ Begin(p) \/ OpenJournal(p) \/ CommitPhaseOne(p) \/ Stress(p) \/ ExclusiveLock(p)
    \/ SyncRecords(p) \/ WriteNRec(p) \/ SyncHeader(p) \/ SyncDatabase(p) \/ CommitPhaseTwo(p)
    \/ \E pg \in Pages : WritePage(p, pg) \/ SpillPage(p, pg) \/ WriteDirtyPage(p, pg)

Next ==
    \/ \E p \in Pagers : Read(p) \/ Undo(p) \/ Write(p) \/ Abandon(p)
    \/ PowerLoss

Spec == Init /\ [][Next]_vars

-----------------------------------------------------------------------------
(* A reader sees one committed state of the database, whatever it has kept   *)
(* in its cache from earlier transactions, and a writer sees that state with *)
(* its own changes: no page of a transaction that is running, was rolled     *)
(* back or died (dbFileVers, pager_reset, sqlite3PagerSharedLock).           *)
ReadersSeeCommitted ==
    \A p \in Pagers :
        (at[p] = "idle" /\ eState[p] \in {"READER", "WRITER_LOCKED", "WRITER_CACHEMOD"}) =>
            \A pg \in Pages \ dirty[p] : cache[p][pg] \in {NotCached, committed[pg]}

(* At every moment a killed process leaves files of which recovery makes the *)
(* last committed database: all of a transaction or nothing (pager_write,    *)
(* syncJournal, pager_playback, also of a recovery that is killed).          *)
DeathIsHarmless == Recovered(db, jrnl) = committed

(* Once the database has PowerFrom pages, a loss of power at any moment,     *)
(* which keeps any part of what was not synced, leaves files of which        *)
(* recovery makes the last committed database                                *)
(* or the one before it: that one because the unlink of the journal is not   *)
(* synced (extraSync is off), and no older one and no mixture.               *)
PowerLossIsAtomic ==
    Size(committed) >= PowerFrom =>
        \A f \in TornPages, j \in TornJournals : Recovered(f, j) \in {committed, before}

(* Nobody takes the journal of a live transaction for a hot or a stale one:  *)
(* the journal that a writer counts on is its own (sqlite3OsCheckReservedLock,*)
(* EXCLUSIVE without RESERVED in sqlite3PagerSharedLock).                    *)
JournalOutlivesItsWriter ==
    \A p \in Pagers :
        eState[p] \in {"WRITER_CACHEMOD", "WRITER_DBMOD", "WRITER_FINISHED"} /\ at[p] # "downgrade"
            => jrnl.exists /\ jrnl.tx = tx[p]
=============================================================================
