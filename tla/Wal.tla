--------------------------------- MODULE Wal ---------------------------------
(***************************************************************************)
(* Transactions of connections in journal mode WAL, synchronous FULL       *)
(* (wal.c): the log file, the wal-index that the connections share in      *)
(* memory, readers with their read marks, the one writer, checkpoints, the *)
(* restart of the log and its recovery.                                    *)
(*                                                                         *)
(* Each connection is a process of its own.  A step is one access to the   *)
(* wal-index or one system call on a file, so that other processes, the    *)
(* death of one of them and a loss of power come in between.  Four steps   *)
(* join accesses: Choose takes WAL_READ_LOCK(0) and looks at the header    *)
(* again, LockSlot takes its lock and reads nBackfill, CkptDone syncs the  *)
(* database and stores nBackfill, RestartIndex resets nBackfill and the    *)
(* read marks.  A call answered SQLITE_BUSY that leaves everything as it   *)
(* was is a stuttering step.  The hash tables of the wal-index are not     *)
(* modelled: they say of each frame up to mxFrame what the log file says.  *)
(***************************************************************************)
EXTENDS Integers, Sequences, FiniteSets, FiniteSetsExt

CONSTANTS
    Conns,      \* the connections
    None,       \* the holder of a free lock
    MaxPage,    \* bound: the pages of the database
    MaxFrame,   \* bound: the frames of the log
    Writers,    \* bound: the connections that write
    Checkpointers, \* bound: the connections that run checkpoints
    MaxWrites,  \* bound: the changes of a page
    MaxFaults,  \* bound: the deaths of processes and losses of power
    ReadMarks,  \* the read locks but the one of the database file (WAL_NREADER-1)
    DiesInRestart \* may a process die between the stores of walRestartHdr()?

ASSUME BoundsAssumption ==
    /\ IsFiniteSet(Conns) /\ None \notin Conns
    /\ MaxPage \in Nat \ {0} /\ MaxFrame \in Nat \ {0}
    /\ MaxWrites \in Nat \ {0} /\ MaxFaults \in Nat
    /\ Writers \subseteq Conns /\ Checkpointers \subseteq Conns
    /\ ReadMarks \in Nat \ {0}
    /\ DiesInRestart \in BOOLEAN

VARIABLES
    db, dbDisk,   \* the database file, and as a loss of power leaves it
    log, logDisk, \* the log file, and as a loss of power leaves it
    live,         \* the header in the wal-index
    intact,       \* are its two copies equal and its checksum right?
    nBackfill,    \* WalCkptInfo.nBackfill
    aReadMark,    \* WalCkptInfo.aReadMark[1..]
    writer,       \* the holder of WAL_WRITE_LOCK
    ckpter,       \* the holder of WAL_CKPT_LOCK
    at,           \* what a call of each connection is about to do
    hdr,          \* Wal.hdr
    readLock,     \* Wal.readLock
    slot,         \* walTryBeginRead(): mxI and mxReadMark
    minFrame,     \* Wal.minFrame
    reCksum,      \* Wal.iReCksum
    dirty,        \* the dirty pages of the cache
    todo,         \* walFrames(): the pages of the list that are not written yet
    iFrame,       \* walFrames(): the last frame written
    commits,      \* walFrames(): isCommit
    mode,         \* sqlite3WalCheckpoint(): eMode2, "none" outside of it
    isChanged,    \* sqlite3WalCheckpoint(): has it read a new header?
    mxSafe,       \* walCheckpoint(): mxSafeFrame
    next,         \* walCheckpoint(): the next read mark, then the next page
    nWrites,      \* changes of a page so far
    nFaults,      \* deaths of processes and losses of power so far
    tx,           \* the changes of each write transaction
    snap,         \* the database that each connection last opened
    latest,       \* the database that the last commit made
    reported,     \* the database that the last commit made whose call returned
    unreported    \* the databases of later commits whose call never returned

files == <<db, dbDisk, log, logDisk>>
index == <<live, intact, nBackfill, aReadMark>>
locks == <<writer, ckpter>>
reading == <<readLock, slot, minFrame>>
writing == <<reCksum, dirty, todo, iFrame, commits>>
checkpointing == <<mode, isChanged, mxSafe, next>>
ghosts == <<nWrites, nFaults, tx, snap, latest, reported, unreported>>
vars == <<files, index, locks, at, hdr, reading, writing, checkpointing, ghosts>>

Pages == 1..MaxPage
Frames == 1..MaxFrame
Slots == 1..ReadMarks
READMARK_NOT_USED == MaxFrame + 1

(* The content of a page is the change that made it; a checksum is the        *)
(* sequence of what it was computed over: pages, contents, commit marks.      *)
Garbage == -1
Contents == -1..MaxWrites
Body == [pg : 0..MaxPage, val : Contents, commit : BOOLEAN]
Frame == [salt : Nat, pg : 0..MaxPage, val : Contents, commit : BOOLEAN, sum : Seq(Body)]
Log == [salt : Nat, frame : [Frames -> Frame]]
NoFrame == [salt |-> 0, pg |-> 0, val |-> 0, commit |-> FALSE, sum |-> << >>]
NoLog == [salt |-> 0, frame |-> [i \in Frames |-> NoFrame]]
EmptyDb == [pg \in Pages |-> 0]
Unchanged == [pg \in Pages |-> 0]

(* WalIndexHdr: iChange, aSalt and mxFrame tell two headers apart, isInit one *)
(* from zeros.                                                                *)
Hdr == [salt : Nat \cup {-1}, mxFrame : 0..MaxFrame, iChange : Nat]
NoHdr == [salt |-> -1, mxFrame |-> 0, iChange |-> 0]

Steps == {"idle", "readHdr", "recoverReset", "choose", "mark", "lockSlot", "verify",
          "restart", "restartIndex", "walHdr", "syncHdr", "frames", "checksums", "sync", "publish",
          "ckptHdr", "ckptSafe", "ckptLock", "ckptCopy", "ckptDone", "ckptEnd", "truncate", "gone"}
Modes == {"none", "PASSIVE", "TRUNCATE"}

TypeOK ==
    /\ db \in [Pages -> Contents] /\ dbDisk \in [Pages -> Contents]
    /\ log \in Log /\ logDisk \in Log
    /\ live \in Hdr /\ hdr \in [Conns -> Hdr]
    /\ intact \in BOOLEAN
    /\ nBackfill \in 0..MaxFrame
    /\ aReadMark \in [Slots -> 0..READMARK_NOT_USED]
    /\ writer \in Conns \cup {None} /\ ckpter \in Conns \cup {None}
    /\ at \in [Conns -> Steps]
    /\ readLock \in [Conns -> -1..ReadMarks]
    /\ slot \in [Conns -> [i : 0..ReadMarks, mark : 0..MaxFrame]]
    /\ minFrame \in [Conns -> 1..MaxFrame + 1]
    /\ reCksum \in [Conns -> 0..MaxFrame] /\ iFrame \in [Conns -> 0..MaxFrame]
    /\ dirty \in [Conns -> SUBSET Pages] /\ todo \in [Conns -> SUBSET Pages]
    /\ commits \in [Conns -> BOOLEAN]
    /\ mode \in [Conns -> Modes] /\ isChanged \in [Conns -> BOOLEAN]
    /\ mxSafe \in [Conns -> 0..MaxFrame] /\ next \in [Conns -> Nat]
    /\ nWrites \in 0..MaxWrites /\ nFaults \in 0..MaxFaults
    /\ tx \in [Conns -> [Pages -> Contents]] /\ snap \in [Conns -> [Pages -> Contents]]
    /\ latest \in [Pages -> Contents] /\ reported \in [Pages -> Contents]
    /\ unreported \subseteq [Pages -> Contents]

NoSlot == [i |-> 0, mark |-> 0]

(* The first connections find no log, or one with a commit of processes that *)
(* were killed.                                                              *)
LeftLog ==
    [salt |-> 1, frame |-> [NoLog.frame EXCEPT ![1] =
        [salt |-> 1, pg |-> MaxPage, val |-> 1, commit |-> TRUE,
         sum |-> <<[pg |-> MaxPage, val |-> 1, commit |-> TRUE]>>]]]

Init ==
    /\ db = EmptyDb /\ dbDisk = EmptyDb
    /\ log \in {NoLog, LeftLog} /\ logDisk = log
    /\ live = NoHdr /\ intact = FALSE
    /\ nBackfill = 0
    /\ aReadMark = [i \in Slots |-> 0]
    /\ writer = None /\ ckpter = None
    /\ at = [c \in Conns |-> "idle"]
    /\ hdr = [c \in Conns |-> NoHdr]
    /\ readLock = [c \in Conns |-> -1]
    /\ slot = [c \in Conns |-> NoSlot]
    /\ minFrame = [c \in Conns |-> 1]
    /\ reCksum = [c \in Conns |-> 0]
    /\ dirty = [c \in Conns |-> {}] /\ todo = [c \in Conns |-> {}]
    /\ iFrame = [c \in Conns |-> 0]
    /\ commits = [c \in Conns |-> FALSE]
    /\ mode = [c \in Conns |-> "none"] /\ isChanged = [c \in Conns |-> FALSE]
    /\ mxSafe = [c \in Conns |-> 0] /\ next = [c \in Conns |-> 1]
    /\ nWrites = log.salt /\ nFaults = 0
    /\ tx = [c \in Conns |-> Unchanged]
    /\ snap = [c \in Conns |-> EmptyDb]
    /\ latest = [pg \in Pages |-> IF pg = log.frame[1].pg THEN 1 ELSE 0]
    /\ reported = latest /\ unreported = {}

-----------------------------------------------------------------------------
Set(var, c, v) == [var EXCEPT ![c] = v]
Goto(c, step) == at' = Set(at, c, step)
IsAt(c, step) == at[c] = step
Free(lock, c) == lock \in {c, None}

(* The read locks: a reader shares its own, a checkpointer has that of the   *)
(* database file to itself while it copies, whoever restarts the log all     *)
(* others.                                                                   *)
Copying(c) == at[c] \in {"ckptCopy", "ckptDone"}
Restarting(c) == at[c] \in {"restartIndex", "truncate"}
SharedIsFree(i, c) ==
    \A d \in Conns \ {c} : IF i = 0 THEN ~Copying(d) ELSE ~Restarting(d)
ExclusiveIsFree(i, c) ==
    SharedIsFree(i, c) /\ \A d \in Conns \ {c} : readLock[d] # i /\ ~(at[d] = "verify" /\ slot[d].i = i)

(* The log file: what a frame covers, and which frames recovery accepts. *)
BodyOf(frame) == [pg |-> frame.pg, val |-> frame.val, commit |-> frame.commit]
Encoded(salt, body, sum) ==
    [salt |-> salt, pg |-> body.pg, val |-> body.val, commit |-> body.commit, sum |-> sum]
Sum(l, i) == [k \in 1..i |-> BodyOf(l.frame[k])]
Accepted(l, i) ==
    \A k \in 1..i : l.frame[k].salt = l.salt /\ l.salt # 0 /\ l.frame[k].sum = Sum(l, k)
LastCommit(l) == Max({0} \cup {i \in Frames : Accepted(l, i) /\ l.frame[i].commit})

(* walFindFrame(), 0 for the database file. *)
Find(l, pg, min, max) == Max({0} \cup {i \in min..max : l.frame[i].pg = pg})
Content(f, l, pg, min, max) ==
    LET i == Find(l, pg, min, max) IN IF i = 0 THEN f[pg] ELSE l.frame[i].val
Recovered(f, l) == LET mx == LastCommit(l) IN [pg \in Pages |-> Content(f, l, pg, 1, mx)]
Overlay(f, changes) == [pg \in Pages |-> IF changes[pg] # 0 THEN changes[pg] ELSE f[pg]]

(* The page as connection c reads it. *)
View(c, pg) ==
    IF pg \in dirty[c] THEN tx[c][pg]
    ELSE IF readLock[c] = 0 THEN db[pg]
    ELSE Content(db, log, pg, minFrame[c], hdr[c].mxFrame)

-----------------------------------------------------------------------------
(* sqlite3WalBeginReadTransaction(). *)

Idle(c) == IsAt(c, "idle") /\ readLock[c] = -1
InRead(c) == IsAt(c, "idle") /\ readLock[c] >= 0
InWrite(c) == IsAt(c, "idle") /\ writer = c

ReadsHdr(c) == Idle(c) \/ at[c] \in {"readHdr", "ckptHdr"}

(* walIndexReadHdr() of a reader and of a checkpoint. *)
AfterHdr(c) == IF mode[c] = "none" THEN "choose" ELSE "ckptSafe"
ReadHdr(c) ==
    /\ ReadsHdr(c)
    /\ intact
    /\ hdr' = Set(hdr, c, live)
    /\ isChanged' = Set(isChanged, c, mode[c] # "none" /\ hdr[c] # live)
    /\ snap' = IF hdr[c] = live THEN snap ELSE Set(snap, c, EmptyDb)
    /\ Goto(c, AfterHdr(c))
    /\ UNCHANGED <<files, index, locks, reading, writing, mode, mxSafe, next, nWrites, nFaults, tx,
                   latest, reported, unreported>>

(* walIndexRecover(), with the locks of the writer and of the checkpointer:  *)
(* the header...                                                             *)
RecoverHdr(c) ==
    /\ ReadsHdr(c)
    /\ ~intact /\ Free(writer, c) /\ Free(ckpter, c)
    /\ writer' = c /\ ckpter' = c
    /\ LET h == [salt |-> log.salt, mxFrame |-> LastCommit(log), iChange |-> 0]
       IN  hdr' = Set(hdr, c, h) /\ live' = h
    /\ intact' = TRUE
    /\ latest' = Recovered(db, log)
    /\ isChanged' = Set(isChanged, c, mode[c] # "none")
    /\ snap' = Set(snap, c, EmptyDb)
    /\ Goto(c, "recoverReset")
    /\ UNCHANGED <<files, nBackfill, aReadMark, reading, writing, mode, mxSafe, next, nWrites,
                   nFaults, tx, reported, unreported>>

(* ...and what the checkpoints and the readers keep there. *)
RecoverReset(c) ==
    /\ IsAt(c, "recoverReset")
    /\ nBackfill' = 0
    /\ aReadMark' = [i \in Slots |->
                        IF ~ExclusiveIsFree(i, c) THEN aReadMark[i]
                        ELSE IF i = 1 /\ live.mxFrame > 0 THEN live.mxFrame ELSE READMARK_NOT_USED]
    /\ writer' = IF mode[c] = "TRUNCATE" THEN c ELSE None
    /\ ckpter' = IF mode[c] = "none" THEN None ELSE c
    /\ Goto(c, AfterHdr(c))
    /\ UNCHANGED <<files, live, intact, hdr, reading, writing, checkpointing, ghosts>>

(* walTryBeginRead(): a log that has been copied is not needed, unless the   *)
(* caller is a writer that restarts it...                                    *)
Retry(c) == Goto(c, IF writer = c THEN "choose" ELSE "readHdr")
WhereToWrite(c) == IF hdr[c].mxFrame = 0 THEN "walHdr" ELSE "frames"
Opened(c, i) ==
    /\ readLock' = Set(readLock, c, i)
    /\ snap' = IF writer = c THEN snap ELSE Set(snap, c, latest)
    /\ Goto(c, IF writer = c THEN WhereToWrite(c) ELSE "idle")

Choose(c) ==
    /\ IsAt(c, "choose")
    /\ IF writer # c /\ nBackfill = hdr[c].mxFrame /\ SharedIsFree(0, c)
       THEN IF hdr[c] = live THEN Opened(c, 0) ELSE Retry(c) /\ UNCHANGED <<readLock, snap>>
       ELSE Goto(c, "mark") /\ UNCHANGED <<readLock, snap>>
    /\ UNCHANGED <<files, index, locks, hdr, slot, minFrame, writing, checkpointing, nWrites, nFaults,
                   tx, latest, reported, unreported>>

(* Mutant of Best: the largest mark of all. *)
BestOfAll(c) ==
    LET mx == Max({aReadMark[i] : i \in Slots})
    IN  [i |-> Max({i \in Slots : aReadMark[i] = mx}), mark |-> mx]

(* ...the largest mark that is not beyond the header is raised to it, if     *)
(* some slot is held by nobody...                                            *)
Best(c) ==
    LET ok == {i \in Slots : aReadMark[i] <= hdr[c].mxFrame}
    IN  IF ok = {} THEN NoSlot
        ELSE LET mx == Max({aReadMark[i] : i \in ok})
             IN  [i |-> Max({i \in ok : aReadMark[i] = mx}), mark |-> mx]
Mark(c) ==
    /\ IsAt(c, "mark")
    /\ LET free == {i \in Slots : ExclusiveIsFree(i, c)}
           best == Best(c)
           claims == (best.i = 0 \/ best.mark < hdr[c].mxFrame) /\ free # {}
       IN  /\ slot' = Set(slot, c, IF claims THEN [i |-> Min(free), mark |-> hdr[c].mxFrame] ELSE best)
           /\ aReadMark' = IF claims THEN [aReadMark EXCEPT ![Min(free)] = hdr[c].mxFrame] ELSE aReadMark
           /\ IF slot'[c].i = 0 THEN Retry(c) ELSE Goto(c, "lockSlot")
    /\ UNCHANGED <<files, live, intact, nBackfill, locks, hdr, readLock, minFrame, writing,
                   checkpointing, ghosts>>

(* ...and locked.  Then mark and header have to be what they were. *)
LockSlot(c) ==
    /\ IsAt(c, "lockSlot")
    /\ IF SharedIsFree(slot[c].i, c)
       THEN minFrame' = Set(minFrame, c, nBackfill + 1) /\ Goto(c, "verify")
       ELSE Retry(c) /\ UNCHANGED minFrame
    /\ UNCHANGED <<files, index, locks, hdr, readLock, slot, writing, checkpointing, ghosts>>

(* Mutant of Verify: the header is not compared again. *)
TrustTheHeader(c) ==
    /\ IsAt(c, "verify")
    /\ IF aReadMark[slot[c].i] = slot[c].mark
       THEN Opened(c, slot[c].i) ELSE Retry(c) /\ UNCHANGED <<readLock, snap>>
    /\ slot' = Set(slot, c, NoSlot)
    /\ UNCHANGED <<files, index, locks, hdr, minFrame, writing, checkpointing, nWrites, nFaults, tx,
                   latest, reported, unreported>>

Verify(c) ==
    /\ IsAt(c, "verify")
    /\ IF aReadMark[slot[c].i] = slot[c].mark /\ hdr[c] = live
       THEN Opened(c, slot[c].i) ELSE Retry(c) /\ UNCHANGED <<readLock, snap>>
    /\ slot' = Set(slot, c, NoSlot)
    /\ UNCHANGED <<files, index, locks, hdr, minFrame, writing, checkpointing, nWrites, nFaults, tx,
                   latest, reported, unreported>>

EndRead(c) ==
    /\ InRead(c) /\ writer # c
    /\ readLock' = Set(readLock, c, -1)
    /\ minFrame' = Set(minFrame, c, 1)
    /\ UNCHANGED <<files, index, locks, at, hdr, slot, writing, checkpointing, ghosts>>

-----------------------------------------------------------------------------
(* A write transaction. *)

(* Mutant of BeginWrite: without the comparison of SQLITE_BUSY_SNAPSHOT. *)
BeginWriteAnywhere(c) ==
    /\ c \in Writers /\ InRead(c) /\ writer = None
    /\ writer' = c
    /\ tx' = Set(tx, c, Unchanged)
    /\ UNCHANGED <<files, index, ckpter, at, hdr, reading, writing, checkpointing, nWrites, nFaults, snap,
                   latest, reported, unreported>>

(* Another commit since the read transaction began is SQLITE_BUSY_SNAPSHOT. *)
BeginWrite(c) ==
    /\ c \in Writers /\ InRead(c) /\ writer = None
    /\ hdr[c] = live
    /\ writer' = c
    /\ tx' = Set(tx, c, Unchanged)
    /\ UNCHANGED <<files, index, ckpter, at, hdr, reading, writing, checkpointing, nWrites, nFaults, snap,
                   latest, reported, unreported>>

Change(c, pg) ==
    /\ InWrite(c)
    /\ nWrites < MaxWrites
    /\ nWrites' = nWrites + 1
    /\ tx' = [tx EXCEPT ![c][pg] = nWrites']
    /\ dirty' = [dirty EXCEPT ![c] = @ \cup {pg}]
    /\ UNCHANGED <<files, index, locks, at, hdr, reading, reCksum, todo, iFrame, commits,
                   checkpointing, nFaults, snap, latest, reported, unreported>>

(* sqlite3WalFrames(), called by a commit, which writes page 1 if no page is *)
(* dirty, and by pagerStress(), which writes one page, never page 1.         *)
CallFrames(c, list, isCommit) ==
    /\ InWrite(c)
    /\ todo' = Set(todo, c, list)
    /\ commits' = Set(commits, c, isCommit)
    /\ iFrame' = Set(iFrame, c, hdr[c].mxFrame)
    /\ Goto(c, IF readLock[c] = 0 THEN "restart" ELSE WhereToWrite(c))
    /\ UNCHANGED <<files, index, locks, hdr, reading, reCksum, dirty, checkpointing, ghosts>>
Commit(c) ==
    /\ tx[c] # Unchanged
    /\ CallFrames(c, IF dirty[c] = {} THEN {1} ELSE dirty[c], TRUE)
Spill(c, pg) ==
    /\ pg \in dirty[c] \ {1}
    /\ CallFrames(c, {pg}, FALSE)

(* walRestartHdr(): the header gets a salt that is nowhere in use (32 random *)
(* bits), and then the rest of the index is reset.                           *)
SaltsInUse ==
    {live.salt} \cup {hdr[c].salt : c \in Conns}
    \cup UNION {{l.salt} \cup {l.frame[i].salt : i \in Frames} : l \in {log, logDisk}}
FreshSalt == Min(1..2 * MaxFrame + Cardinality(Conns) + 4 \ SaltsInUse)

RestartHdr(c) ==
    /\ LET h == [salt |-> FreshSalt, mxFrame |-> 0, iChange |-> hdr[c].iChange]
       IN  hdr' = Set(hdr, c, h) /\ live' = h
    /\ intact' = TRUE
    /\ Goto(c, "restartIndex")

RestartIndex(c) ==
    /\ IsAt(c, "restartIndex")
    /\ nBackfill' = 0
    /\ aReadMark' = [i \in Slots |-> IF i = 1 THEN 0 ELSE READMARK_NOT_USED]
    /\ IF mode[c] = "TRUNCATE" THEN Goto(c, "truncate") /\ UNCHANGED readLock
       ELSE Goto(c, "choose") /\ readLock' = Set(readLock, c, -1)
    /\ UNCHANGED <<files, live, intact, locks, hdr, slot, minFrame, writing, checkpointing, ghosts>>

(* walRestartLog(): who ignores a log that is not empty starts it anew if    *)
(* nobody uses it, and takes a read lock that makes it use the log.          *)
LogIsUnused(c) == \A i \in Slots : ExclusiveIsFree(i, c)
Restart(c) ==
    /\ IsAt(c, "restart")
    /\ nBackfill > 0 /\ LogIsUnused(c)
    /\ RestartHdr(c)
    /\ iFrame' = Set(iFrame, c, 0)
    /\ UNCHANGED <<files, nBackfill, aReadMark, locks, reading, reCksum, dirty, todo, commits,
                   checkpointing, ghosts>>
KeepLog(c) ==
    /\ IsAt(c, "restart")
    /\ nBackfill = 0 \/ ~LogIsUnused(c)
    /\ readLock' = Set(readLock, c, -1)
    /\ Goto(c, "choose")
    /\ UNCHANGED <<files, index, locks, hdr, slot, minFrame, writing, checkpointing, ghosts>>

-----------------------------------------------------------------------------
(* walFrames(), after walRestartLog(): the header of a new log is synced     *)
(* before its frames are written...                                          *)
WalHdr(c) ==
    /\ IsAt(c, "walHdr")
    /\ \E salt \in ({hdr[c].salt} \ {0}) \cup IF hdr[c].salt \in {0, log.salt} THEN {FreshSalt} ELSE {} :
          /\ hdr' = [hdr EXCEPT ![c].salt = salt]
          /\ log' = [log EXCEPT !.salt = salt]
    /\ Goto(c, "syncHdr")
    /\ UNCHANGED <<db, dbDisk, logDisk, index, locks, reading, writing, checkpointing, ghosts>>

SyncHdr(c) ==
    /\ IsAt(c, "syncHdr")
    /\ logDisk' = log
    /\ Goto(c, "frames")
    /\ UNCHANGED <<db, dbDisk, log, index, locks, hdr, reading, writing, checkpointing, ghosts>>

(* ...a page that the transaction has spilled before is written over its     *)
(* frame, which leaves the checksums to be made again...                     *)
Page(c) == Min(todo[c])
IsLast(c) == todo[c] = {Page(c)}
Spilled(c) ==
    IF hdr[c] = live \/ (commits[c] /\ IsLast(c)) THEN 0
    ELSE Find(log, Page(c), live.mxFrame + 1, hdr[c].mxFrame)

Written(c, stale) ==
    /\ IF ~IsLast(c) THEN UNCHANGED at
       ELSE Goto(c, IF ~commits[c] THEN "publish" ELSE IF stale THEN "checksums" ELSE "sync")
    /\ todo' = [todo EXCEPT ![c] = @ \ {Page(c)}]
    /\ dirty' = [dirty EXCEPT ![c] = @ \ {Page(c)}]

(* Mutant of Overwrite: the checksums stay. *)
OverwriteOnly(c) ==
    /\ IsAt(c, "frames")
    /\ Spilled(c) > 0
    /\ log' = [log EXCEPT !.frame[Spilled(c)].val = View(c, Page(c))]
    /\ Written(c, FALSE)
    /\ UNCHANGED <<db, dbDisk, logDisk, index, locks, hdr, reading, reCksum, iFrame, commits,
                   checkpointing, ghosts>>

Overwrite(c) ==
    /\ IsAt(c, "frames")
    /\ Spilled(c) > 0
    /\ log' = [log EXCEPT !.frame[Spilled(c)].val = View(c, Page(c))]
    /\ reCksum' = [reCksum EXCEPT ![c] = IF @ = 0 THEN Spilled(c) ELSE Min({@, Spilled(c)})]
    /\ Written(c, TRUE)
    /\ UNCHANGED <<db, dbDisk, logDisk, index, locks, hdr, reading, iFrame, commits,
                   checkpointing, ghosts>>

(* ...any other is appended; the last one of a commit says so. *)
AppendFrame(c) ==
    /\ IsAt(c, "frames")
    /\ Spilled(c) = 0
    /\ iFrame[c] < MaxFrame
    /\ LET i == iFrame[c] + 1
           val == View(c, Page(c))
           body == [pg |-> Page(c), val |-> val, commit |-> commits[c] /\ IsLast(c)]
       IN  /\ log' = [log EXCEPT !.frame[i] =
                         IF reCksum[c] = 0 THEN Encoded(hdr[c].salt, body, Append(Sum(log, i - 1), body))
                                           ELSE Encoded(0, body, << >>)]
           /\ iFrame' = Set(iFrame, c, i)
    /\ unreported' = unreported \cup IF commits[c] /\ IsLast(c) THEN {Overlay(latest, tx[c])} ELSE {}
    /\ Written(c, reCksum[c] > 0)
    /\ UNCHANGED <<db, dbDisk, logDisk, index, locks, hdr, reading, reCksum, commits,
                   checkpointing, nWrites, nFaults, tx, snap, latest, reported>>

(* walRewriteChecksums(). *)
RewriteChecksum(c) ==
    /\ IsAt(c, "checksums")
    /\ LET i == reCksum[c]
       IN  /\ log' = [log EXCEPT !.frame[i] = Encoded(hdr[c].salt, BodyOf(@), Sum(log, i))]
           /\ IF i = iFrame[c]
              THEN reCksum' = Set(reCksum, c, 0) /\ Goto(c, "sync")
              ELSE reCksum' = Set(reCksum, c, i + 1) /\ UNCHANGED at
    /\ UNCHANGED <<db, dbDisk, logDisk, index, locks, hdr, reading, dirty, todo, iFrame, commits,
                   checkpointing, ghosts>>

SyncLog(c) ==
    /\ IsAt(c, "sync")
    /\ logDisk' = log
    /\ Goto(c, "publish")
    /\ UNCHANGED <<db, dbDisk, log, index, locks, hdr, reading, writing, checkpointing, ghosts>>

(* A spill moves the header of the writer alone, a commit that of all. *)
Publish(c) ==
    /\ IsAt(c, "publish")
    /\ LET h == [salt |-> hdr[c].salt, mxFrame |-> iFrame[c],
                 iChange |-> IF commits[c] THEN hdr[c].iChange + 1 ELSE hdr[c].iChange]
       IN  /\ hdr' = Set(hdr, c, h)
           /\ IF commits[c]
              THEN /\ live' = h /\ intact' = TRUE
                   /\ latest' = [pg \in Pages |-> Content(db, log, pg, 1, h.mxFrame)]
                   /\ reported' = latest' /\ unreported' = {}
                   /\ snap' = Set(snap, c, latest')
                   /\ tx' = Set(tx, c, Unchanged)
                   /\ writer' = None
              ELSE UNCHANGED <<live, intact, latest, reported, unreported, snap, tx, writer>>
    /\ iFrame' = Set(iFrame, c, 0)
    /\ commits' = Set(commits, c, FALSE)
    /\ Goto(c, "idle")
    /\ UNCHANGED <<files, nBackfill, aReadMark, ckpter, reading, reCksum, dirty, todo,
                   checkpointing, nWrites, nFaults>>

(* sqlite3WalUndo(): the frames stay in the file. *)
Rollback(c) ==
    /\ InWrite(c)
    /\ hdr' = Set(hdr, c, live)
    /\ reCksum' = Set(reCksum, c, 0)
    /\ dirty' = Set(dirty, c, {})
    /\ tx' = Set(tx, c, Unchanged)
    /\ writer' = None
    /\ UNCHANGED <<files, index, ckpter, at, reading, todo, iFrame, commits, checkpointing, nWrites,
                   nFaults, snap, latest, reported, unreported>>

-----------------------------------------------------------------------------
(* sqlite3WalCheckpoint().  TRUNCATE takes the lock of the writer too, and   *)
(* its busy handler waits for the readers; without that lock it is PASSIVE.  *)
(* FULL and RESTART do a part of what TRUNCATE does.  Left out is the        *)
(* checkpoint of a log that is empty already: it has nothing to copy, and    *)
(* TRUNCATE restarts and empties once more what has no frames.               *)
Checkpoint(c, eMode) ==
    /\ c \in Checkpointers /\ Idle(c)
    /\ live.mxFrame > 0 \/ ~intact
    /\ ckpter = None /\ ckpter' = c
    /\ IF eMode = "TRUNCATE" THEN writer = None /\ writer' = c ELSE UNCHANGED writer
    /\ mode' = Set(mode, c, eMode)
    /\ Goto(c, "ckptHdr")
    /\ UNCHANGED <<files, index, hdr, reading, writing, isChanged, mxSafe, next, ghosts>>

NextStep(c, last, step) ==
    IF next[c] = last THEN next' = Set(next, c, 1) /\ Goto(c, step)
                      ELSE next' = Set(next, c, next[c] + 1) /\ UNCHANGED at

(* walCheckpoint(): what is not copied, up to the smallest mark that a       *)
(* reader holds; a mark that nobody holds gets out of the way...             *)
CkptSafe(c) ==
    /\ IsAt(c, "ckptSafe")
    /\ nBackfill < hdr[c].mxFrame \/ next[c] > 1
    /\ LET i == next[c]
           mx == IF i = 1 THEN hdr[c].mxFrame ELSE mxSafe[c]
           held == ~ExclusiveIsFree(i, c)
       IN  /\ mx > aReadMark[i] /\ held => mode[c] = "PASSIVE"
           /\ mxSafe' = Set(mxSafe, c, IF mx > aReadMark[i] /\ held THEN aReadMark[i] ELSE mx)
           /\ aReadMark' = IF mx <= aReadMark[i] \/ held THEN aReadMark
                           ELSE [aReadMark EXCEPT ![i] = IF i = 1 THEN mx ELSE READMARK_NOT_USED]
    /\ NextStep(c, ReadMarks, "ckptLock")
    /\ UNCHANGED <<files, live, intact, nBackfill, locks, hdr, reading, writing, mode, isChanged, ghosts>>

CkptNothing(c) ==
    /\ IsAt(c, "ckptSafe")
    /\ next[c] = 1 /\ nBackfill >= hdr[c].mxFrame
    /\ Goto(c, "ckptEnd")
    /\ UNCHANGED <<files, index, locks, hdr, reading, writing, checkpointing, ghosts>>

(* Mutant of CkptLock: the database is written before the log is synced. *)
CkptUnsynced(c) ==
    /\ IsAt(c, "ckptLock")
    /\ nBackfill < mxSafe[c] /\ ExclusiveIsFree(0, c) /\ live.salt = hdr[c].salt
    /\ Goto(c, "ckptCopy")
    /\ UNCHANGED <<files, index, locks, hdr, reading, writing, checkpointing, ghosts>>

(* ...nobody reads the database file, and the log has not been restarted;    *)
(* then the log is synced...                                                 *)
CkptLock(c) ==
    /\ IsAt(c, "ckptLock")
    /\ nBackfill < mxSafe[c] /\ ExclusiveIsFree(0, c) /\ live.salt = hdr[c].salt
    /\ logDisk' = log
    /\ Goto(c, "ckptCopy")
    /\ UNCHANGED <<db, dbDisk, log, index, locks, hdr, reading, writing, checkpointing, ghosts>>

CkptSkip(c) ==
    /\ IsAt(c, "ckptLock")
    /\ \/ nBackfill >= mxSafe[c] \/ live.salt # hdr[c].salt
       \/ mode[c] = "PASSIVE" /\ ~ExclusiveIsFree(0, c)
    /\ Goto(c, "ckptEnd")
    /\ UNCHANGED <<files, index, locks, hdr, reading, writing, checkpointing, ghosts>>

(* ...the last frame of each page is copied, unless it is beyond mxSafe...   *)
CkptCopy(c) ==
    /\ IsAt(c, "ckptCopy")
    /\ LET i == Find(log, next[c], 1, hdr[c].mxFrame)
       IN  db' = IF i > nBackfill /\ i <= mxSafe[c]
                 THEN [db EXCEPT ![next[c]] = log.frame[i].val] ELSE db
    /\ NextStep(c, MaxPage, "ckptDone")
    /\ UNCHANGED <<dbDisk, log, logDisk, index, locks, hdr, reading, writing, mode, isChanged,
                   mxSafe, ghosts>>

(* ...and the database is synced if the log may start anew now. *)
CkptDone(c) ==
    /\ IsAt(c, "ckptDone")
    /\ dbDisk' = IF mxSafe[c] = live.mxFrame THEN db ELSE dbDisk
    /\ nBackfill' = mxSafe[c]
    /\ Goto(c, "ckptEnd")
    /\ UNCHANGED <<db, log, logDisk, live, intact, aReadMark, locks, hdr, reading, writing,
                   checkpointing, ghosts>>

(* TRUNCATE restarts the log, once no reader uses it, and empties the file. *)
RestartsLog(c) == mode[c] = "TRUNCATE" /\ nBackfill = hdr[c].mxFrame
CkptRestart(c) ==
    /\ IsAt(c, "ckptEnd")
    /\ RestartsLog(c) /\ LogIsUnused(c)
    /\ RestartHdr(c)
    /\ UNCHANGED <<files, nBackfill, aReadMark, locks, reading, writing, checkpointing, ghosts>>

Unlocked(lock, c) == IF lock = c THEN None ELSE lock
CkptReturn(c) ==
    /\ writer' = Unlocked(writer, c) /\ ckpter' = Unlocked(ckpter, c)
    /\ mode' = Set(mode, c, "none")
    /\ isChanged' = Set(isChanged, c, FALSE)
    /\ mxSafe' = Set(mxSafe, c, 0)
    /\ Goto(c, "idle")
    /\ UNCHANGED <<db, dbDisk, logDisk, index, reading, writing, next, nWrites, nFaults, tx, latest,
                   reported, unreported>>

(* A header that was read is forgotten, as the cache is older. *)
ForgetHdr(c) ==
    /\ hdr' = IF isChanged[c] THEN Set(hdr, c, NoHdr) ELSE hdr
    /\ snap' = IF isChanged[c] THEN Set(snap, c, EmptyDb) ELSE snap

Truncate(c) ==
    /\ IsAt(c, "truncate")
    /\ log' = NoLog
    /\ ForgetHdr(c)
    /\ CkptReturn(c)

CkptEnd(c) ==
    /\ IsAt(c, "ckptEnd")
    /\ ~RestartsLog(c)
    /\ ForgetHdr(c)
    /\ CkptReturn(c)
    /\ UNCHANGED log

-----------------------------------------------------------------------------
(* Faults. *)

Forget(S) ==
    /\ hdr' = [c \in Conns |-> IF c \in S THEN NoHdr ELSE hdr[c]]
    /\ readLock' = [c \in Conns |-> IF c \in S THEN -1 ELSE readLock[c]]
    /\ slot' = [c \in Conns |-> IF c \in S THEN NoSlot ELSE slot[c]]
    /\ minFrame' = [c \in Conns |-> IF c \in S THEN 1 ELSE minFrame[c]]
    /\ reCksum' = [c \in Conns |-> IF c \in S THEN 0 ELSE reCksum[c]]
    /\ dirty' = [c \in Conns |-> IF c \in S THEN {} ELSE dirty[c]]
    /\ todo' = [c \in Conns |-> IF c \in S THEN {} ELSE todo[c]]
    /\ iFrame' = [c \in Conns |-> IF c \in S THEN 0 ELSE iFrame[c]]
    /\ commits' = [c \in Conns |-> IF c \in S THEN FALSE ELSE commits[c]]
    /\ mode' = [c \in Conns |-> IF c \in S THEN "none" ELSE mode[c]]
    /\ isChanged' = [c \in Conns |-> IF c \in S THEN FALSE ELSE isChanged[c]]
    /\ mxSafe' = [c \in Conns |-> IF c \in S THEN 0 ELSE mxSafe[c]]
    /\ next' = [c \in Conns |-> IF c \in S THEN 1 ELSE next[c]]
    /\ tx' = [c \in Conns |-> IF c \in S THEN Unchanged ELSE tx[c]]
    /\ snap' = [c \in Conns |-> IF c \in S THEN EmptyDb ELSE snap[c]]
    /\ writer' = IF writer \in S THEN None ELSE writer
    /\ ckpter' = IF ckpter \in S THEN None ELSE ckpter
    /\ nFaults < MaxFaults /\ nFaults' = nFaults + 1
    /\ UNCHANGED nWrites

(* A process is killed, perhaps in the middle of walIndexWriteHdr(): then    *)
(* the first copy of the header is the old one.  It does not come back, a    *)
(* bound.                                                                    *)
Restarts(c) ==
    /\ LogIsUnused(c)
    /\ (IsAt(c, "restart") /\ nBackfill > 0) \/ (IsAt(c, "ckptEnd") /\ RestartsLog(c))
WritesHdr(c) == (IsAt(c, "publish") /\ commits[c]) \/ (Restarts(c) /\ DiesInRestart)
Die(c) ==
    /\ at[c] \notin {"idle", "gone"} \/ readLock[c] >= 0
    /\ at[c] = "restartIndex" => DiesInRestart
    /\ Forget({c})
    /\ at' = Set(at, c, "gone")
    /\ intact' \in IF WritesHdr(c) THEN {intact, FALSE} ELSE {intact}
    /\ UNCHANGED <<files, live, nBackfill, aReadMark, latest, reported, unreported>>

(* The wal-index goes with the last process that has it open; one process    *)
(* is started again.                                                         *)
IndexIsLost ==
    /\ Forget(Conns)
    /\ \E c \in Conns : at' = [d \in Conns |-> IF d = c THEN "idle" ELSE "gone"]
    /\ live' = NoHdr /\ intact' = FALSE
    /\ nBackfill' = 0
    /\ aReadMark' = [i \in Slots |-> 0]

AllDie ==
    /\ IndexIsLost
    /\ UNCHANGED <<files, latest, reported, unreported>>

(* What a loss of power leaves: each page and each frame old, new or torn,   *)
(* the file cut off or not.                                                  *)
TornDbs ==
    LET changed == {pg \in Pages : db[pg] # dbDisk[pg]}
        torn == [pg \in Pages |-> Garbage]
    IN  {[pg \in Pages |-> IF pg \in changed THEN o[pg][pg] ELSE db[pg]] :
            o \in [changed -> {db, dbDisk, torn}]}
TornFrames ==
    LET changed == {i \in Frames : log.frame[i] # logDisk.frame[i]}
        torn == [i \in Frames |-> [log.frame[i] EXCEPT !.val = Garbage]]
    IN  IF log.frame = NoLog.frame THEN {log.frame, logDisk.frame}
        ELSE {[i \in Frames |-> IF i \in changed THEN o[i][i] ELSE log.frame[i]] :
                 o \in [changed -> {log.frame, logDisk.frame, torn}]}
TornSalts == IF log.salt = logDisk.salt THEN {log.salt} ELSE {log.salt, logDisk.salt, 0}
TornLogs == [salt : TornSalts, frame : TornFrames]

PowerLoss ==
    \E f \in TornDbs, l \in TornLogs :
        /\ IndexIsLost
        /\ db' = f /\ dbDisk' = f
        /\ log' = l /\ logDisk' = l
        /\ latest' = Recovered(f, l) /\ reported' = latest' /\ unreported' = {}

-----------------------------------------------------------------------------
Read(c) ==
    \/ ReadHdr(c) \/ RecoverHdr(c) \/ RecoverReset(c)
    \/ Choose(c) \/ Mark(c) \/ LockSlot(c) \/ Verify(c) \/ EndRead(c)
Write(c) ==
    \/ BeginWrite(c) \/ Commit(c) \/ Restart(c) \/ RestartIndex(c) \/ KeepLog(c)
    \/ WalHdr(c) \/ SyncHdr(c) \/ Overwrite(c) \/ AppendFrame(c)
    \/ RewriteChecksum(c) \/ SyncLog(c) \/ Publish(c) \/ Rollback(c)
    \/ \E pg \in Pages : Change(c, pg) \/ Spill(c, pg)
Backfill(c) ==
    \/ CkptSafe(c) \/ CkptNothing(c) \/ CkptLock(c) \/ CkptSkip(c) \/ CkptCopy(c)
    \/ CkptDone(c) \/ CkptRestart(c) \/ Truncate(c) \/ CkptEnd(c)
    \/ \E eMode \in {"PASSIVE", "TRUNCATE"} : Checkpoint(c, eMode)

Next ==
    \/ \E c \in Conns : Read(c) \/ Write(c) \/ Backfill(c) \/ Die(c)
    \/ AllDie
    \/ PowerLoss

Spec == Init /\ [][Next]_vars

-----------------------------------------------------------------------------
(* Each read transaction sees one committed database from its first page to  *)
(* its last, and a write transaction that one with its own changes, whatever *)
(* commits, checkpoints, restarts of the log and recoveries do meanwhile.    *)
SnapshotIsolation ==
    \A c \in Conns : InRead(c) =>
        \A pg \in Pages : View(c, pg) = Overlay(snap[c], tx[c])[pg]

(* A connection that finds the header it knows may keep its cache, and one   *)
(* that finds it when it begins to write writes to the last commit: no       *)
(* commit is built on an older one (pChanged, SQLITE_BUSY_SNAPSHOT).         *)
HdrNamesTheDatabase ==
    \A c \in Conns :
        IsAt(c, "idle") /\ hdr[c] # NoHdr /\ (hdr[c] = live \/ writer = c) /\ hdr[c].mxFrame = live.mxFrame
            => snap[c] = latest

(* At every moment processes that are killed leave files of which recovery   *)
(* makes the last commit, or the one that was being written.                 *)
DeathIsHarmless == Recovered(db, log) \in {latest} \cup unreported

(* At every moment a loss of power, which keeps any part of what was not     *)
(* synced, leaves such files: no commit that was reported is lost.           *)
PowerLossIsHarmless ==
    \A f \in TornDbs, l \in TornLogs : Recovered(f, l) \in {reported} \cup unreported
=============================================================================
