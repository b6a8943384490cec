-------------------------------- MODULE WalInv --------------------------------
(***************************************************************************)
(* The inductive invariant of Wal: what the wal-index says of the log and  *)
(* of the database file, what of both a reader may rely on, what a         *)
(* checkpoint has copied, and what a writer has appended; what frames that *)
(* nobody counts may hold; and what of the files a loss of power may undo. *)
(***************************************************************************)
EXTENDS Wal

Reading == {"choose", "mark", "lockSlot", "verify"}
Framing == {"walHdr", "syncHdr", "frames", "checksums", "sync", "publish"}
Checkpointing == {"ckptSafe", "ckptLock", "ckptCopy", "ckptDone", "ckptEnd"}

(* A write transaction, which is not the only use of the lock of the writer. *)
IsWriter(c) == writer = c /\ mode[c] = "none" /\ at[c] # "recoverReset"

(* The holder of a slot. *)
Holds(c) == readLock[c] >= 1 \/ IsAt(c, "verify")

-----------------------------------------------------------------------------
(* Where a connection can be with which locks. *)

PhaseOk(c) ==
    \/ /\ mode[c] = "none" /\ ckpter # c
       /\ \/ at[c] = "idle" /\ (readLock[c] = -1 => writer # c)
          \/ at[c] \in {"readHdr", "gone"} /\ readLock[c] = -1 /\ writer # c
          \/ at[c] \in Reading /\ readLock[c] = -1
          \/ at[c] \in {"restart", "restartIndex"} /\ readLock[c] = 0 /\ writer = c
          \/ at[c] \in Framing /\ readLock[c] >= 1 /\ writer = c
    \/ mode[c] = "none" /\ at[c] = "recoverReset" /\ readLock[c] = -1 /\ writer = c /\ ckpter = c
    \/ /\ mode[c] = "PASSIVE" /\ ckpter = c /\ readLock[c] = -1
       /\ \/ at[c] \in {"ckptHdr"} \cup Checkpointing /\ writer # c
          \/ at[c] = "recoverReset" /\ writer = c
    \/ /\ mode[c] = "TRUNCATE" /\ ckpter = c /\ readLock[c] = -1 /\ writer = c
       /\ at[c] \in {"ckptHdr", "recoverReset", "restartIndex", "truncate"} \cup Checkpointing

CountersOk(c) ==
    /\ IF at[c] = "ckptSafe" THEN next[c] \in Slots
       ELSE IF at[c] = "ckptCopy" THEN next[c] \in Pages ELSE next[c] = 1
    /\ mode[c] = "none" => mxSafe[c] = 0 /\ ~isChanged[c]
    /\ at[c] = "ckptHdr" => ~isChanged[c]
    /\ at[c] \in {"ckptHdr", "recoverReset"} => mxSafe[c] = 0
    /\ at[c] \in {"lockSlot", "verify"} => slot[c].i \in Slots /\ slot[c].mark <= hdr[c].mxFrame

Exclusive(c) ==
    /\ Restarting(c) => intact /\ \A d \in Conns \ {c} : ~Holds(d)
    /\ Copying(c) => \A d \in Conns : readLock[d] # 0

Phases == \A c \in Conns : PhaseOk(c) /\ CountersOk(c) /\ Exclusive(c)

-----------------------------------------------------------------------------
(* The wal-index. *)

(* What has been copied is in the database file, but for what came later.    *)
DbHas(n) == \A pg \in Pages : Find(log, pg, 1, live.mxFrame) < n => db[pg] = latest[pg]
RestartGoesOn == \E c \in Conns : at[c] = "restartIndex"

NoIndex ==
    /\ ~intact /\ nBackfill = 0
    /\ \A c \in Conns : hdr[c] = NoHdr /\ readLock[c] = -1 /\ at[c] \in {"idle", "gone", "ckptHdr"}

IndexInv ==
    /\ live.salt = -1 => live = NoHdr
    /\ live = NoHdr => NoIndex
    /\ live.mxFrame > 0 =>
          /\ live.salt = log.salt
          /\ Accepted(log, live.mxFrame) /\ log.frame[live.mxFrame].commit
    /\ live # NoHdr => \A pg \in Pages : latest[pg] = Content(db, log, pg, 1, live.mxFrame)
    /\ nBackfill <= live.mxFrame \/ RestartGoesOn
    /\ live # NoHdr => DbHas(nBackfill + 1)

-----------------------------------------------------------------------------
(* Headers that connections keep.  The same salt is the same log, which grows. *)

KnowsDb(c) ==
    \/ at[c] \in {"idle", "ckptHdr"}
    \/ mode[c] # "none" /\ ~isChanged[c]
SameLog(c) == hdr[c].salt = live.salt
HdrOk(c) ==
    /\ SameLog(c) /\ ~IsWriter(c) => hdr[c].mxFrame <= live.mxFrame
    /\ live # NoHdr /\ KnowsDb(c) /\ SameLog(c) /\ hdr[c].mxFrame = live.mxFrame => snap[c] = latest
    /\ ~intact /\ live.salt # log.salt /\ ~IsWriter(c) => hdr[c].salt # log.salt
Headers == \A c \in Conns : HdrOk(c)

-----------------------------------------------------------------------------
(* Readers. *)

Base(c) == IF IsWriter(c) THEN live.mxFrame ELSE hdr[c].mxFrame

LogReaderOk(c) ==
    readLock[c] >= 1 =>
        /\ Base(c) <= live.mxFrame
        /\ minFrame[c] <= live.mxFrame + 1
        /\ \A pg \in Pages :
              /\ snap[c][pg] = Content(db, log, pg, 1, Base(c))
              /\ Find(log, pg, 1, Base(c)) < minFrame[c] => db[pg] = snap[c][pg]
        /\ aReadMark[readLock[c]] <= Base(c)
DbReaderOk(c) ==
    readLock[c] = 0 =>
        /\ snap[c] = db
        /\ SameLog(c) /\ hdr[c].mxFrame = live.mxFrame /\ ~RestartGoesOn =>
              nBackfill \in {0, live.mxFrame}
VerifyOk(c) ==
    at[c] = "verify" => minFrame[c] <= live.mxFrame + 1 /\ DbHas(minFrame[c])
Readers == \A c \in Conns : LogReaderOk(c) /\ DbReaderOk(c) /\ VerifyOk(c)

-----------------------------------------------------------------------------
(* The checkpointer. *)

Passed(c, i) == at[c] # "ckptSafe" \/ i < next[c]
Copied(c, pg) ==
    LET i == Find(log, pg, 1, hdr[c].mxFrame)
    IN  i > nBackfill /\ i <= mxSafe[c] => db[pg] = log.frame[i].val
CkptOk(c) ==
    /\ at[c] \in Checkpointing /\ SameLog(c) =>
          /\ nBackfill <= hdr[c].mxFrame \/ RestartGoesOn
          /\ \A d \in Conns : Holds(d) => minFrame[d] <= hdr[c].mxFrame + 1
          /\ at[c] # "ckptEnd" =>
                /\ mxSafe[c] <= hdr[c].mxFrame
                /\ \A d \in Conns : readLock[d] >= 1 /\ Passed(c, readLock[d]) => mxSafe[c] <= Base(d)
    /\ Copying(c) =>
          /\ SameLog(c) /\ nBackfill < mxSafe[c]
          /\ \A pg \in Pages : at[c] = "ckptDone" \/ pg < next[c] => Copied(c, pg)
    /\ mode[c] = "TRUNCATE" /\ at[c] # "ckptHdr" => hdr[c] = live
    /\ at[c] = "recoverReset" => hdr[c] = live
    /\ Restarting(c) => live.mxFrame = 0
    /\ at[c] = "truncate" => nBackfill = 0
Checkpoints == \A c \in Conns : CkptOk(c)

-----------------------------------------------------------------------------
(* The writer. *)

InFrames == {"frames", "checksums", "sync", "publish"}
Top(c) == IF at[c] \in InFrames THEN iFrame[c] ELSE hdr[c].mxFrame
Commits(c) == at[c] \in {"checksums", "sync"} \/ (at[c] = "publish" /\ commits[c])
OwnFrames(c) == live.mxFrame + 1..Top(c)

WriterHdrOk(c) ==
    /\ live # NoHdr /\ hdr[c].salt \in Nat
    /\ hdr[c].mxFrame >= live.mxFrame
    /\ at[c] \in Reading \/ readLock[c] = 0 => hdr[c] = live
    /\ ~SameLog(c) => live.mxFrame = 0 /\ \A d \in Conns \ {c} : hdr[d].salt # hdr[c].salt
    /\ at[c] \in {"walHdr", "syncHdr"} => hdr[c].mxFrame = 0
    /\ at[c] \in InFrames \cup {"syncHdr"} \/ hdr[c].mxFrame > 0 =>
          log.salt = hdr[c].salt /\ log.salt # 0

ListOk(c) ==
    /\ at[c] = "idle" => ~commits[c] /\ iFrame[c] = 0
    /\ at[c] \in {"idle", "checksums", "sync", "publish"} => todo[c] = {}
    /\ at[c] \notin {"idle", "checksums", "sync", "publish"} => todo[c] # {} /\ iFrame[c] >= hdr[c].mxFrame
    /\ at[c] \in Reading \cup {"restart", "restartIndex", "walHdr", "syncHdr"} => iFrame[c] = hdr[c].mxFrame
    /\ at[c] \in InFrames => iFrame[c] >= hdr[c].mxFrame
    /\ at[c] \in {"checksums", "sync"} => commits[c]
    /\ IF commits[c] THEN dirty[c] \subseteq todo[c] /\ todo[c] \subseteq dirty[c] \cup {1}
                     ELSE todo[c] \subseteq dirty[c]
    /\ at[c] \in InFrames => \A k \in hdr[c].mxFrame + 1..iFrame[c] : log.frame[k].pg \notin todo[c]

PagesOk(c) ==
    \A pg \in Pages :
        IF pg \in dirty[c] THEN tx[c][pg] # 0
        ELSE LET i == Find(log, pg, live.mxFrame + 1, Top(c))
             IN  IF i = 0 THEN tx[c][pg] = 0 ELSE log.frame[i].val = Overlay(latest, tx[c])[pg]

ChecksumsOk(c) ==
    /\ reCksum[c] # 0 => reCksum[c] \in OwnFrames(c)
    /\ \A k \in OwnFrames(c) : reCksum[c] = 0 \/ k < reCksum[c] =>
          log.frame[k].salt = log.salt /\ log.frame[k].sum = Sum(log, k)
    /\ at[c] = "checksums" => reCksum[c] # 0
    /\ at[c] = "sync" \/ (at[c] = "publish" /\ commits[c]) => reCksum[c] = 0
    /\ Commits(c) => iFrame[c] > live.mxFrame /\ log.frame[iFrame[c]].commit

WriterOk(c) ==
    IF IsWriter(c)
    THEN /\ snap[c] = latest
         /\ WriterHdrOk(c) /\ ListOk(c) /\ PagesOk(c) /\ ChecksumsOk(c)
    ELSE /\ tx[c] = Unchanged /\ dirty[c] = {} /\ todo[c] = {}
         /\ reCksum[c] = 0 /\ iFrame[c] = 0 /\ commits[c] = FALSE
WriteInv == \A c \in Conns : WriterOk(c)

-----------------------------------------------------------------------------
IInv == TypeOK /\ Phases /\ IndexInv /\ Headers /\ Readers /\ Checkpoints /\ WriteInv

-----------------------------------------------------------------------------
(* What recovery makes of the files when all processes die: frames that no   *)
(* header counts, of the writer or left behind by another.                   *)

(* The frames that recovery accepts under a salt. *)
Accepts(l, salt, i) ==
    \A k \in 1..i : l.frame[k].salt = salt /\ salt # 0 /\ l.frame[k].sum = Sum(l, k)
DbAt(f, l, i) == [pg \in Pages |-> Content(f, l, pg, 1, i)]

(* The numbers of the changes made so far. *)
ValsUpTo(l, n) == \A k \in Frames :
    l.frame[k].val <= n /\ \A j \in DOMAIN l.frame[k].sum : l.frame[k].sum[j].val <= n
Numbered ==
    /\ ValsUpTo(log, nWrites) /\ ValsUpTo(logDisk, nWrites)
    /\ \A pg \in Pages : db[pg] <= nWrites /\ dbDisk[pg] <= nWrites /\ \A c \in Conns : tx[c][pg] <= nWrites

(* A commit beyond those that the wal-index counts is one of a writer that has *)
(* not reported it.                                                          *)
Unpublished ==
    live # NoHdr => \A i \in live.mxFrame + 1..MaxFrame :
        Accepts(log, live.salt, i) /\ log.frame[i].commit => DbAt(db, log, i) \in unreported

(* No frame, and no checksum, has what the transaction changed and has not  *)
(* written yet.                                                              *)
FreshOk(c) ==
    \A pg \in dirty[c] :
        /\ \A k \in Frames :
              /\ log.frame[k].val # tx[c][pg]
              /\ \A j \in DOMAIN log.frame[k].sum : log.frame[k].sum[j].val # tx[c][pg]
        /\ \A q \in dirty[c] \ {pg} : tx[c][q] # tx[c][pg]

(* What was written before behind the frames of the writer has other checksums. *)
CutOk(c) ==
    Top(c) > live.mxFrame => \A k \in Top(c) + 1..MaxFrame :
        LET i == live.mxFrame + 1
        IN  i \in DOMAIN log.frame[k].sum => log.frame[k].sum[i] # BodyOf(log.frame[i])

(* Only the last frame of a transaction commits, and makes what is not reported. *)
MarkedOk(c) ==
    /\ \A k \in OwnFrames(c) : log.frame[k].commit => k = Top(c) /\ Commits(c)
    /\ Commits(c) => Overlay(latest, tx[c]) \in unreported

(* The pages that a call of sqlite3WalFrames() has left to write. *)
CallOk(c) ==
    /\ \A pg \in todo[c] \ dirty[c] : dirty[c] = {} /\ todo[c] = {pg} /\ commits[c]
    /\ Top(c) = live.mxFrame => todo[c] \subseteq dirty[c]
    /\ hdr[c].mxFrame = 0 /\ at[c] \notin InFrames \cup {"syncHdr"} => SameLog(c)
    /\ at[c] = "publish" => Top(c) > 0

TransactionOk(c) == IsWriter(c) => FreshOk(c) /\ CutOk(c) /\ MarkedOk(c) /\ CallOk(c)
Transactions == \A c \in Conns : TransactionOk(c)

DeathInv == Numbered /\ Unpublished /\ DeathIsHarmless /\ Transactions

-----------------------------------------------------------------------------
(* What recovery makes of the files after a loss of power: some commit is     *)
(* durable, and any other that it may find instead may be kept.               *)

(* The databases that a loss of power may leave. *)
Kept == {reported} \cup unreported

(* The log with some frames as they are in memory, the others as on disk, and *)
(* the salts that its header has or gets.                                     *)
Mixed(S) == [frame |-> [k \in Frames |-> IF k \in S THEN log.frame[k] ELSE logDisk.frame[k]]]
Salts == {log.salt, logDisk.salt, live.salt}

(* No checksum covers what a loss of power tore. *)
CleanSums(l) == \A k \in Frames : \A j \in DOMAIN l.frame[k].sum : l.frame[k].sum[j].val # Garbage
NoGarbage ==
    /\ CleanSums(log) /\ CleanSums(logDisk)
    /\ latest \in Kept
    /\ \A d \in Kept, pg \in Pages : d[pg] # Garbage

(* A log that has been copied in full may start anew: the copy is on disk. *)
Done == live # NoHdr /\ nBackfill = live.mxFrame => db = dbDisk

(* The first b frames of the log on disk end in a commit; the file has no     *)
(* other frames there, unless it was emptied since.                           *)
Synced(b) ==
    b > 0 => /\ Accepts(logDisk, logDisk.salt, b) /\ logDisk.frame[b].commit
             /\ log.frame # NoLog.frame => \A k \in 1..b : log.frame[k] = logDisk.frame[k]

(* They hold each page that is not on disk as it is in the file; a commit at  *)
(* or behind their end, of whichever frames, may be kept.                     *)
Covered(b) == \A pg \in Pages : db[pg] # dbDisk[pg] => Find(logDisk, pg, 1, b) > 0
Known(b) ==
    \A S \in SUBSET Frames : \A salt \in Salts : \A m \in Frames :
        m >= b /\ Accepts(Mixed(S), salt, m) /\ Mixed(S).frame[m].commit => DbAt(db, Mixed(S), m) \in Kept

(* Where nothing may be left of the log, the database file does without.      *)
Bare(b) ==
    \/ b = 0
    \/ log.salt # logDisk.salt
    \/ log.frame = NoLog.frame
    \/ live # NoHdr /\ live.mxFrame = 0
Alone(b) == Bare(b) => db = dbDisk /\ db \in Kept

(* An emptied log gets another salt, which is on disk before its frames are,  *)
(* and nothing is copied that is not on disk.                                 *)
Headed == log.frame = NoLog.frame => logDisk.frame = NoLog.frame
Follows(b, c) ==
    /\ Copying(c) => mxSafe[c] <= b
    /\ IsWriter(c) /\ at[c] = "syncHdr" /\ b > 0 => log.salt # logDisk.salt
    /\ IsWriter(c) /\ (at[c] \in InFrames \/ hdr[c].mxFrame > 0) => b <= live.mxFrame /\ Headed
Fits(b) ==
    /\ b > 0 /\ log.frame = NoLog.frame => log.salt # logDisk.salt
    /\ b > 0 /\ live # NoHdr /\ live.mxFrame = 0 => live.salt # logDisk.salt
    /\ live.mxFrame > 0 => b <= live.mxFrame
    /\ \A c \in Conns : Follows(b, c)
Durable(b) == Synced(b) /\ Covered(b) /\ Known(b) /\ Alone(b) /\ Fits(b)

(* Frames on disk commit nothing that the writer makes, but for its own.      *)
CutDisk(c) ==
    Top(c) > live.mxFrame => \A k \in Frames :
        LET i == live.mxFrame + 1
            f == logDisk.frame[k]
        IN  f.commit /\ i \in DOMAIN f.sum /\ f.sum[i] = BodyOf(log.frame[i])
                => k = Top(c) /\ Commits(c) /\ f.sum = Sum(log, k)
FreshDisk(c) ==
    \A pg \in dirty[c], k \in Frames :
        \A j \in DOMAIN logDisk.frame[k].sum : logDisk.frame[k].sum[j].val # tx[c][pg]
CleanTx(c) ==
    /\ \A pg \in Pages : tx[c][pg] # Garbage
    /\ \A k \in OwnFrames(c) : log.frame[k].val # Garbage
Unfinished(c) == Commits(c) /\ reCksum[c] # 0 => log.frame[Top(c)].salt = 0 /\ log.frame[Top(c)].sum = << >>
DiskOk(c) ==
    IsWriter(c) =>
        /\ CleanTx(c) /\ FreshDisk(c) /\ CutDisk(c) /\ Unfinished(c)
        /\ at[c] = "publish" /\ commits[c] => logDisk = log
Disks == \A c \in Conns : DiskOk(c)

PowerInv == NoGarbage /\ Done /\ Disks /\ \E b \in 0..MaxFrame : Durable(b)
===============================================================================
