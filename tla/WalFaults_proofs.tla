------------------------- MODULE WalFaults_proofs --------------------------
(***************************************************************************)
(* What the files hold when processes die, and when power is lost.         *)
(* DeathInv of WalInv holds besides IInv, so recovery finds the last       *)
(* commit, or that of the writer whose call had written its commit frame.  *)
(* PowerInv holds besides both, so recovery of any mixture of what is      *)
(* synced and what is not finds the last commit that was reported, or one  *)
(* that was under way.                                                     *)
(*                                                                         *)
(* Both are about the behaviours in which no process is killed inside      *)
(* walRestartHdr() (RestartsAreWhole of Wal_proofs).                       *)
(***************************************************************************)
EXTENDS Wal_proofs

-----------------------------------------------------------------------------
(* Steps that leave the log, the last commit and what is not reported. *)

(* The changes keep their numbers, and the log its commits. *)
LEMMA NumberedStill ==
    ASSUME TypeOK, Numbered, nWrites' = nWrites, db' = db, dbDisk' \in {dbDisk, db},
           log' = log, logDisk' \in {logDisk, log},
           \A q \in Conns : tx'[q] = tx[q] \/ tx'[q] = Unchanged
    PROVE  Numbered'
<1>1. nWrites \in Nat
  <2>1. nWrites \in 0..MaxWrites
    BY DEF TypeOK
  <2> QED BY <2>1, BoundsAssumption
<1>2. ValsUpTo(log, nWrites)' /\ ValsUpTo(logDisk, nWrites)'
  BY DEF Numbered, ValsUpTo
<1>3. \A pg \in Pages : Unchanged[pg] <= nWrites
  BY <1>1 DEF Unchanged
<1>4. \A pg \in Pages : db'[pg] <= nWrites' /\ dbDisk'[pg] <= nWrites' /\ \A q \in Conns : tx'[q][pg] <= nWrites'
  BY <1>3 DEF Numbered
<1> QED BY <1>2, <1>4 DEF Numbered

LEMMA FilesStill ==
    ASSUME Unpublished, DeathIsHarmless, UNCHANGED <<db, log, live, latest>>, unreported \subseteq unreported'
    PROVE  Unpublished' /\ DeathIsHarmless'
<1>1. Recovered(db, log)' = Recovered(db, log)
  BY DEF Recovered, LastCommit, Accepted, Sum, Content, Find
<1>2. DeathIsHarmless'
  BY <1>1 DEF DeathIsHarmless
<1>3. \A i : Accepts(log, live.salt, i)' = Accepts(log, live.salt, i) /\ DbAt(db, log, i)' = DbAt(db, log, i)
  BY DEF Accepts, Sum, DbAt, Content, Find
<1>4. Unpublished'
  BY <1>3 DEF Unpublished
<1> QED BY <1>2, <1>4

(* The transaction of one that stays where it is, *)
LEMMA TransactionStill ==
    ASSUME NEW q, TransactionOk(q), IsWriter(q)' => IsWriter(q),
           UNCHANGED <<log, live, latest>>, unreported \subseteq unreported',
           IsWriter(q)' => /\ hdr'[q] = hdr[q] /\ dirty'[q] = dirty[q] /\ todo'[q] = todo[q] /\ tx'[q] = tx[q]
                           /\ commits'[q] = commits[q] /\ Top(q)' = Top(q) /\ Commits(q)' = Commits(q)
                           /\ at[q] \in InFrames \cup {"syncHdr"} => at'[q] \in InFrames \cup {"syncHdr"}
                           /\ at'[q] = "publish" => at[q] = "publish" \/ Top(q) > 0
    PROVE  TransactionOk(q)'
<1>1. SUFFICES ASSUME IsWriter(q)' PROVE (FreshOk(q) /\ CutOk(q) /\ MarkedOk(q) /\ CallOk(q))'
  BY DEF TransactionOk
<1>2. FreshOk(q) /\ CutOk(q) /\ MarkedOk(q) /\ CallOk(q)
  BY <1>1 DEF TransactionOk
<1>3. FreshOk(q)'
  BY <1>1, <1>2 DEF FreshOk
<1>4. CutOk(q)'
  BY <1>1, <1>2 DEF CutOk, BodyOf
<1>5. MarkedOk(q)'
  <2>1. OwnFrames(q)' = OwnFrames(q)
    BY <1>1 DEF OwnFrames
  <2>2. Overlay(latest, tx[q])' = Overlay(latest, tx[q])
    BY <1>1 DEF Overlay
  <2> QED BY <1>1, <1>2, <2>1, <2>2 DEF MarkedOk
<1>6. CallOk(q)'
  BY <1>1, <1>2 DEF CallOk, SameLog
<1> QED BY <1>3, <1>4, <1>5, <1>6

(* or whose files do. *)
LEMMA OtherStill ==
    ASSUME NEW q, Same(q), TransactionOk(q), UNCHANGED <<log, live, latest>>, unreported \subseteq unreported'
    PROVE  TransactionOk(q)'
<1>1. IsWriter(q)' = IsWriter(q)
  BY DEF IsWriter, Same
<1>2. Top(q)' = Top(q) /\ Commits(q)' = Commits(q)
  BY DEF Same, Top, Commits
<1> QED BY <1>1, <1>2, TransactionStill DEF Same

LEMMA StillStep ==
    ASSUME IInv, DeathInv, NEW c \in Conns, Others(c), UNCHANGED <<db, log, live, latest, unreported, nWrites>>,
           dbDisk' \in {dbDisk, db}, logDisk' \in {logDisk, log}, tx'[c] = tx[c] \/ tx'[c] = Unchanged,
           IsWriter(c)' => /\ IsWriter(c)
                           /\ hdr'[c] = hdr[c] /\ dirty'[c] = dirty[c] /\ todo'[c] = todo[c] /\ tx'[c] = tx[c]
                           /\ commits'[c] = commits[c] /\ Top(c)' = Top(c) /\ Commits(c)' = Commits(c)
                           /\ at[c] \in InFrames \cup {"syncHdr"} => at'[c] \in InFrames \cup {"syncHdr"}
                           /\ at'[c] = "publish" => at[c] = "publish" \/ Top(c) > 0
    PROVE  DeathInv'
<1>1. \A q \in Conns : tx'[q] = tx[q] \/ tx'[q] = Unchanged
  BY DEF Others, Same
<1>2. Numbered'
  BY <1>1, NumberedStill DEF IInv, DeathInv
<1>3. Unpublished' /\ DeathIsHarmless'
  BY FilesStill DEF DeathInv
<1>4. \A q \in Conns \ {c} : TransactionOk(q)'
  BY OtherStill DEF DeathInv, Transactions, Others
<1>5. TransactionOk(c)'
  BY TransactionStill DEF DeathInv, Transactions
<1> QED BY <1>2, <1>3, <1>4, <1>5 DEF DeathInv, Transactions

-----------------------------------------------------------------------------
(* Steps of one that is not a writer, or ceases to be. *)

Untouched == UNCHANGED <<db, log, live, latest, unreported, nWrites>> /\ dbDisk' \in {dbDisk, db} /\ logDisk' \in {logDisk, log}

LEMMA NoWriterStep ==
    ASSUME IInv, DeathInv, NEW c \in Conns, Others(c), Untouched, tx'[c] = tx[c] \/ tx'[c] = Unchanged, ~IsWriter(c)'
    PROVE  DeathInv'
BY StillStep DEF Untouched

(* walIndexTryHdr(). *)
LEMMA DeathReadHdr ==
    ASSUME IInv, DeathInv, NEW c \in Conns, ReadHdr(c)
    PROVE  DeathInv'
<1>1. Others(c) /\ tx'[c] = tx[c] /\ Untouched /\ mode'[c] = mode[c] /\ writer' = writer
  BY ReadHdrEffect DEF IInv, ReadHdr, files, index, locks, reading, writing, Untouched
<1>2. SelfOk(c) /\ (at[c] = "readHdr" \/ at[c] = "ckptHdr" \/ (at[c] = "idle" /\ readLock[c] = -1))
  BY SelfIs DEF ReadHdr, ReadsHdr, Idle, IsAt
<1>3. writer # c \/ mode[c] # "none"
  BY <1>2 DEF SelfOk, PhaseOk, Reading, Framing, Checkpointing
<1>4. ~IsWriter(c)'
  BY <1>1, <1>3 DEF IsWriter
<1> QED BY <1>1, <1>4, NoWriterStep

(* walIndexRecover() resets the read marks. *)
LEMMA DeathRecoverReset ==
    ASSUME IInv, DeathInv, NEW c \in Conns, RecoverReset(c)
    PROVE  DeathInv'
<1>1. SelfOk(c) /\ at[c] = "recoverReset"
  BY SelfIs DEF RecoverReset, IsAt
<1>2. writer = c /\ ckpter = c
  BY <1>1 DEF SelfOk, PhaseOk, Reading, Framing, Checkpointing
<1>3. Others(c) /\ tx'[c] = tx[c] /\ mode'[c] = mode[c]
  BY <1>2, RecoverResetEffect DEF IInv
<1>4. Untouched /\ (mode[c] = "TRUNCATE" \/ writer' = None)
  BY DEF RecoverReset, files, Untouched, ghosts
<1>5. ~IsWriter(c)'
  BY <1>3, <1>4, BoundsAssumption DEF IsWriter
<1> QED BY <1>3, <1>4, <1>5, NoWriterStep

(* The ends of transactions. *)
LEMMA DeathEndRead ==
    ASSUME IInv, DeathInv, NEW c \in Conns, EndRead(c)
    PROVE  DeathInv'
<1>1. Others(c) /\ tx'[c] = tx[c]
  BY EndReadEffect DEF IInv
<1>2. Untouched /\ writer' = writer /\ writer # c
  BY DEF EndRead, files, index, locks, ghosts, Untouched
<1>3. ~IsWriter(c)'
  BY <1>2 DEF IsWriter
<1> QED BY <1>1, <1>2, <1>3, NoWriterStep

LEMMA DeathRollback ==
    ASSUME IInv, DeathInv, NEW c \in Conns, Rollback(c)
    PROVE  DeathInv'
<1>1. Others(c) /\ tx'[c] = Unchanged
  BY RollbackEffect DEF IInv
<1>2. Untouched /\ writer' = None
  BY DEF Rollback, files, index, Untouched
<1>3. ~IsWriter(c)'
  BY <1>2, BoundsAssumption DEF IsWriter
<1> QED BY <1>1, <1>2, <1>3, NoWriterStep

(* A process dies. *)
LEMMA DeathDie ==
    ASSUME IInv, DeathInv, NEW c \in Conns, Die(c)
    PROVE  DeathInv'
<1>1. Others(c) /\ tx'[c] = Unchanged /\ writer' # c
  BY ForgetEffect DEF IInv, Die
<1>2. Untouched
  BY DEF Die, Forget, files, Untouched
<1>3. ~IsWriter(c)'
  BY <1>1 DEF IsWriter
<1> QED BY <1>1, <1>2, <1>3, NoWriterStep

LEMMA DeathCkptEnd ==
    ASSUME IInv, DeathInv, NEW c \in Conns, CkptEnd(c)
    PROVE  DeathInv'
<1>1. Others(c) /\ tx'[c] = tx[c] /\ writer' # c
  BY CkptEndEffect DEF IInv
<1>2. Untouched
  BY DEF CkptEnd, CkptReturn, index, Untouched
<1>3. ~IsWriter(c)'
  BY <1>1 DEF IsWriter
<1> QED BY <1>1, <1>2, <1>3, NoWriterStep

(* A checkpointer is no writer, even if it has the lock of the writer. *)
LEMMA CheckpointerStep ==
    ASSUME IInv, DeathInv, NEW c \in Conns, Others(c), Untouched, tx'[c] = tx[c], at[c] \in Checkpointing, mode'[c] = mode[c]
    PROVE  DeathInv'
<1>1. mode[c] # "none"
  BY CkptPlace
<1>2. ~IsWriter(c)'
  BY <1>1 DEF IsWriter
<1> QED BY <1>2, NoWriterStep

(* sqlite3WalCheckpoint(), before it copies and after. *)
LEMMA DeathCheckpoint ==
    ASSUME IInv, DeathInv, NEW c \in Conns, NEW eMode \in {"PASSIVE", "TRUNCATE"}, Checkpoint(c, eMode)
    PROVE  DeathInv'
<1>1. Others(c) /\ tx'[c] = tx[c] /\ mode'[c] = eMode
  BY CheckpointEffect DEF IInv
<1>2. Untouched
  BY DEF Checkpoint, files, index, ghosts, Untouched
<1>3. ~IsWriter(c)'
  BY <1>1 DEF IsWriter
<1> QED BY <1>1, <1>2, <1>3, NoWriterStep

LEMMA DeathCkptSafe ==
    ASSUME IInv, DeathInv, NEW c \in Conns, CkptSafe(c)
    PROVE  DeathInv'
<1>1. Others(c) /\ tx'[c] = tx[c] /\ mode'[c] = mode[c]
  BY CkptSafeEffect DEF IInv
<1>2. Untouched /\ at[c] \in Checkpointing
  BY DEF CkptSafe, files, ghosts, Untouched, IsAt, Checkpointing
<1> QED BY <1>1, <1>2, CheckpointerStep

LEMMA DeathCkptNothing ==
    ASSUME IInv, DeathInv, NEW c \in Conns, CkptNothing(c)
    PROVE  DeathInv'
<1>1. Others(c) /\ tx'[c] = tx[c] /\ mode'[c] = mode[c]
  BY CkptNothingEffect DEF IInv
<1>2. Untouched /\ at[c] \in Checkpointing
  BY DEF CkptNothing, files, index, ghosts, Untouched, IsAt, Checkpointing
<1> QED BY <1>1, <1>2, CheckpointerStep

LEMMA DeathCkptSkip ==
    ASSUME IInv, DeathInv, NEW c \in Conns, CkptSkip(c)
    PROVE  DeathInv'
<1>1. Others(c) /\ tx'[c] = tx[c] /\ mode'[c] = mode[c]
  BY CkptSkipEffect DEF IInv
<1>2. Untouched /\ at[c] \in Checkpointing
  BY DEF CkptSkip, files, index, ghosts, Untouched, IsAt, Checkpointing
<1> QED BY <1>1, <1>2, CheckpointerStep

LEMMA DeathCkptLock ==
    ASSUME IInv, DeathInv, NEW c \in Conns, CkptLock(c)
    PROVE  DeathInv'
<1>1. Others(c) /\ tx'[c] = tx[c] /\ mode'[c] = mode[c]
  BY CkptLockEffect DEF IInv
<1>2. Untouched /\ at[c] \in Checkpointing
  BY DEF CkptLock, files, index, ghosts, Untouched, IsAt, Checkpointing
<1> QED BY <1>1, <1>2, CheckpointerStep

LEMMA DeathCkptDone ==
    ASSUME IInv, DeathInv, NEW c \in Conns, CkptDone(c)
    PROVE  DeathInv'
<1>1. Others(c) /\ tx'[c] = tx[c] /\ mode'[c] = mode[c]
  BY CkptDoneEffect DEF IInv
<1>2. Untouched /\ at[c] \in Checkpointing
  BY DEF CkptDone, ghosts, Untouched, IsAt, Checkpointing
<1> QED BY <1>1, <1>2, CheckpointerStep

-----------------------------------------------------------------------------
(* Steps of a writer before it writes frames. *)

LEMMA WaitingStep ==
    ASSUME IInv, DeathInv, NEW c \in Conns, Others(c), Untouched,
           at[c] \in Reading \cup {"restart", "restartIndex"},
           at'[c] \in Reading \cup {"idle", "readHdr", "walHdr", "frames", "truncate"},
           writer' = writer, hdr'[c] = hdr[c], dirty'[c] = dirty[c], todo'[c] = todo[c], tx'[c] = tx[c],
           commits'[c] = commits[c], iFrame'[c] = iFrame[c], mode'[c] = mode[c]
    PROVE  DeathInv'
<1>1. SUFFICES ASSUME IsWriter(c)' PROVE DeathInv'
  BY NoWriterStep
<1>2. IsWriter(c)
  BY <1>1 DEF IsWriter, Reading
<1>3. iFrame[c] = hdr[c].mxFrame
  <2>1. ListOk(c)
    BY <1>2, WriterIs
  <2> QED BY <2>1 DEF ListOk
<1>4. Top(c) = hdr[c].mxFrame /\ Top(c)' = hdr[c].mxFrame
  BY <1>3 DEF Top, InFrames, Reading
<1>5. Commits(c) = FALSE /\ Commits(c)' = FALSE
  BY DEF Commits, Reading
<1>6. at[c] \notin InFrames \cup {"syncHdr"}
  BY DEF InFrames, Reading
<1>7. at'[c] # "publish"
  BY DEF Reading
<1> QED BY <1>2, <1>4, <1>5, <1>6, <1>7, StillStep DEF Untouched

(* walTryBeginRead(). *)
LEMMA DeathChoose ==
    ASSUME IInv, DeathInv, NEW c \in Conns, Choose(c)
    PROVE  DeathInv'
<1>1. /\ Others(c) /\ at'[c] \in {"idle", "mark", "readHdr"}
      /\ hdr'[c] = hdr[c] /\ dirty'[c] = dirty[c] /\ todo'[c] = todo[c] /\ tx'[c] = tx[c]
      /\ commits'[c] = commits[c] /\ iFrame'[c] = iFrame[c] /\ mode'[c] = mode[c]
  BY ChooseEffect DEF IInv
<1>2. Untouched /\ at[c] = "choose" /\ writer' = writer
  BY DEF Choose, files, index, locks, Untouched, IsAt
<1> QED BY <1>1, <1>2, WaitingStep DEF Reading

LEMMA DeathMark ==
    ASSUME IInv, DeathInv, NEW c \in Conns, Mark(c)
    PROVE  DeathInv'
<1>1. /\ Others(c) /\ at'[c] \in {"lockSlot", "choose", "readHdr"}
      /\ hdr'[c] = hdr[c] /\ dirty'[c] = dirty[c] /\ todo'[c] = todo[c] /\ tx'[c] = tx[c]
      /\ commits'[c] = commits[c] /\ iFrame'[c] = iFrame[c] /\ mode'[c] = mode[c]
  BY MarkEffect DEF IInv
<1>2. Untouched /\ at[c] = "mark" /\ writer' = writer
  BY DEF Mark, files, locks, ghosts, Untouched, IsAt
<1> QED BY <1>1, <1>2, WaitingStep DEF Reading

LEMMA DeathLockSlot ==
    ASSUME IInv, DeathInv, NEW c \in Conns, LockSlot(c)
    PROVE  DeathInv'
<1>1. /\ Others(c) /\ at'[c] \in {"verify", "choose", "readHdr"}
      /\ hdr'[c] = hdr[c] /\ dirty'[c] = dirty[c] /\ todo'[c] = todo[c] /\ tx'[c] = tx[c]
      /\ commits'[c] = commits[c] /\ iFrame'[c] = iFrame[c] /\ mode'[c] = mode[c]
  BY LockSlotEffect DEF IInv
<1>2. Untouched /\ at[c] = "lockSlot" /\ writer' = writer
  BY DEF LockSlot, files, index, locks, ghosts, Untouched, IsAt
<1> QED BY <1>1, <1>2, WaitingStep DEF Reading

LEMMA DeathVerify ==
    ASSUME IInv, DeathInv, NEW c \in Conns, Verify(c)
    PROVE  DeathInv'
<1>1. /\ Others(c) /\ at'[c] \in {"idle", "walHdr", "frames", "choose", "readHdr"}
      /\ hdr'[c] = hdr[c] /\ dirty'[c] = dirty[c] /\ todo'[c] = todo[c] /\ tx'[c] = tx[c]
      /\ commits'[c] = commits[c] /\ iFrame'[c] = iFrame[c] /\ mode'[c] = mode[c]
  BY VerifyEffect DEF IInv
<1>2. Untouched /\ at[c] = "verify" /\ writer' = writer
  BY DEF Verify, files, index, locks, Untouched, IsAt
<1> QED BY <1>1, <1>2, WaitingStep DEF Reading

(* walRestartLog(). *)
LEMMA DeathKeepLog ==
    ASSUME IInv, DeathInv, NEW c \in Conns, KeepLog(c)
    PROVE  DeathInv'
<1>1. /\ Others(c) /\ at'[c] = "choose"
      /\ hdr'[c] = hdr[c] /\ dirty'[c] = dirty[c] /\ todo'[c] = todo[c] /\ tx'[c] = tx[c]
      /\ commits'[c] = commits[c] /\ iFrame'[c] = iFrame[c] /\ mode'[c] = mode[c]
  BY KeepLogEffect DEF IInv
<1>2. Untouched /\ at[c] = "restart" /\ writer' = writer
  BY DEF KeepLog, files, index, locks, ghosts, Untouched, IsAt
<1> QED BY <1>1, <1>2, WaitingStep DEF Reading

LEMMA DeathRestartIndex ==
    ASSUME IInv, DeathInv, NEW c \in Conns, RestartIndex(c)
    PROVE  DeathInv'
<1>1. /\ Others(c) /\ at'[c] \in {"truncate", "choose"}
      /\ hdr'[c] = hdr[c] /\ dirty'[c] = dirty[c] /\ todo'[c] = todo[c] /\ tx'[c] = tx[c]
      /\ commits'[c] = commits[c] /\ iFrame'[c] = iFrame[c] /\ mode'[c] = mode[c]
  BY RestartIndexEffect DEF IInv
<1>2. Untouched /\ at[c] = "restartIndex" /\ writer' = writer
  BY DEF RestartIndex, files, locks, ghosts, Untouched, IsAt
<1> QED BY <1>1, <1>2, WaitingStep DEF Reading

-----------------------------------------------------------------------------
(* Steps of a writer that syncs. *)

LEMMA WriterFrames ==
    ASSUME IInv, NEW c \in Conns, at[c] \in Framing
    PROVE  IsWriter(c) /\ writer = c /\ mode[c] = "none"
<1>1. SelfOk(c)
  BY SelfIs
<1>2. writer = c
  BY <1>1 DEF SelfOk, PhaseOk, Reading, Framing, Checkpointing
<1> QED BY <1>2, WriterPlace

LEMMA DeathSyncHdr ==
    ASSUME IInv, DeathInv, NEW c \in Conns, SyncHdr(c)
    PROVE  DeathInv'
<1>1. /\ Others(c) /\ at'[c] = "frames"
      /\ hdr'[c] = hdr[c] /\ dirty'[c] = dirty[c] /\ todo'[c] = todo[c] /\ tx'[c] = tx[c]
      /\ commits'[c] = commits[c] /\ iFrame'[c] = iFrame[c] /\ mode'[c] = mode[c]
  BY SyncHdrEffect DEF IInv
<1>2. Untouched /\ at[c] = "syncHdr" /\ writer' = writer
  BY DEF SyncHdr, files, index, locks, ghosts, Untouched, IsAt
<1>3. IsWriter(c)
  BY <1>2, WriterFrames DEF Framing
<1>4. iFrame[c] = hdr[c].mxFrame
  <2>1. ListOk(c)
    BY <1>3, WriterIs
  <2> QED BY <1>2, <2>1 DEF ListOk
<1>5. Top(c)' = Top(c) /\ Commits(c)' = Commits(c)
  BY <1>1, <1>2, <1>4 DEF Top, Commits, InFrames
<1> QED BY <1>1, <1>2, <1>3, <1>5, StillStep DEF Untouched, InFrames

LEMMA DeathSyncLog ==
    ASSUME IInv, DeathInv, NEW c \in Conns, SyncLog(c)
    PROVE  DeathInv'
<1>1. /\ Others(c) /\ at'[c] = "publish"
      /\ hdr'[c] = hdr[c] /\ dirty'[c] = dirty[c] /\ todo'[c] = todo[c] /\ tx'[c] = tx[c]
      /\ commits'[c] = commits[c] /\ iFrame'[c] = iFrame[c] /\ mode'[c] = mode[c]
  BY SyncLogEffect DEF IInv
<1>2. Untouched /\ at[c] = "sync" /\ writer' = writer
  BY DEF SyncLog, files, index, locks, ghosts, Untouched, IsAt
<1>3. IsWriter(c)
  BY <1>2, WriterFrames DEF Framing
<1>4. commits[c] = TRUE
  <2>1. ListOk(c)
    BY <1>3, WriterIs
  <2>2. commits[c] \in BOOLEAN
    BY DEF IInv, TypeOK
  <2> QED BY <1>2, <2>1, <2>2 DEF ListOk
<1>5. Top(c)' = Top(c)
  BY <1>1, <1>2 DEF Top, InFrames
<1>6. Commits(c)' = Commits(c)
  BY <1>1, <1>2, <1>4 DEF Commits
<1>7. Top(c) > 0
  <2>1. ChecksumsOk(c) /\ live.mxFrame \in Nat /\ iFrame[c] \in Nat
    BY <1>3, WriterIs
  <2> QED BY <1>2, <2>1 DEF ChecksumsOk, Commits, Top, InFrames
<1> QED BY <1>1, <1>2, <1>3, <1>5, <1>6, <1>7, StillStep DEF Untouched, InFrames

-----------------------------------------------------------------------------
(* What recovery makes of the log. *)

(* The frames before an accepted one are. *)
LEMMA AcceptsLess ==
    ASSUME NEW l, NEW s, NEW n \in Nat, NEW m \in Nat, m <= n, Accepts(l, s, n)
    PROVE  Accepts(l, s, m)
BY DEF Accepts

LEMMA AcceptedIs ==
    ASSUME NEW l, NEW i
    PROVE  Accepted(l, i) = Accepts(l, l.salt, i)
BY DEF Accepted, Accepts

(* With a commit of the wal-index in the log recovery finds that one or a later one. *)
LEMMA IndexRecovers ==
    ASSUME IInv, live # NoHdr, Unpublished, live.salt = log.salt \/ LastCommit(log) = 0
    PROVE  DeathIsHarmless
<1> DEFINE j == LastCommit(log)
<1>1. /\ live.mxFrame \in 0..MaxFrame
      /\ live.mxFrame > 0 => Accepted(log, live.mxFrame) /\ log.frame[live.mxFrame].commit
      /\ \A pg \in Pages : latest[pg] = Content(db, log, pg, 1, live.mxFrame)
      /\ latest \in [Pages -> Contents] /\ MaxFrame \in Nat
  <2>1. live \in Hdr /\ latest \in [Pages -> Contents]
    BY DEF IInv, TypeOK
  <2> QED BY <2>1, BoundsAssumption DEF IInv, IndexInv, Hdr
<1>2. /\ j \in 0..MaxFrame
      /\ j # 0 => Accepted(log, j) /\ log.frame[j].commit
      /\ \A i \in Frames : Accepted(log, i) /\ log.frame[i].commit => i <= j
  BY LastCommitIs
<1>3. live.mxFrame <= j
  BY <1>1, <1>2 DEF Frames
<1>4. Recovered(db, log) = DbAt(db, log, j)
  BY DEF Recovered, DbAt
<1>5. CASE j = live.mxFrame
  <2>1. Recovered(db, log) = latest
    BY <1>1, <1>4, <1>5 DEF DbAt
  <2> QED BY <2>1 DEF DeathIsHarmless
<1>6. CASE j # live.mxFrame
  <2>1. j \in live.mxFrame + 1..MaxFrame /\ j # 0
    BY <1>1, <1>2, <1>3, <1>6
  <2>2. Accepts(log, live.salt, j) /\ log.frame[j].commit
    BY <1>2, <2>1, AcceptedIs
  <2>3. DbAt(db, log, j) \in unreported
    BY <2>1, <2>2 DEF Unpublished
  <2> QED BY <1>4, <2>3 DEF DeathIsHarmless
<1> QED BY <1>5, <1>6

(* The frames up to the commit frame of a writer are its transaction. *)
LEMMA OwnDb ==
    ASSUME IInv, NEW c \in Conns, IsWriter(c), Commits(c), Top(c) > live.mxFrame
    PROVE  DbAt(db, log, Top(c)) = Overlay(latest, tx[c])
<1> DEFINE m == live.mxFrame
           t == Top(c)
<1>1. m \in Nat /\ t \in Nat /\ m <= t /\ PagesOk(c) /\ ListOk(c)
  <2>1. t \in Nat /\ m \in Nat
    BY Numbers DEF IInv, NumbersOk, Top
  <2>2. m <= t
    BY <2>1
  <2> QED BY <2>1, <2>2, WriterIs
<1>2. dirty[c] = {}
  <2>1. at[c] \in {"checksums", "sync", "publish"} /\ commits[c]
    BY <1>1 DEF Commits, ListOk
  <2>2. todo[c] = {} /\ dirty[c] \subseteq todo[c]
    BY <1>1, <2>1 DEF ListOk
  <2> QED BY <2>2
<1>3. ASSUME NEW pg \in Pages PROVE Content(db, log, pg, 1, t) = Overlay(latest, tx[c])[pg]
  <2>1. latest[pg] = Content(db, log, pg, 1, m)
    <3>1. live # NoHdr
      BY WriterIs
    <3> QED BY <3>1 DEF IInv, IndexInv
  <2>2. /\ Find(log, pg, m + 1, t) # 0 => Find(log, pg, 1, t) = Find(log, pg, m + 1, t)
        /\ Find(log, pg, m + 1, t) = 0 => Find(log, pg, 1, t) = Find(log, pg, 1, m)
    BY <1>1, FindLonger
  <2>3. IF Find(log, pg, m + 1, t) = 0 THEN tx[c][pg] = 0
        ELSE log.frame[Find(log, pg, m + 1, t)].val = Overlay(latest, tx[c])[pg]
    BY <1>1, <1>2 DEF PagesOk
  <2>4. Overlay(latest, tx[c])[pg] = IF tx[c][pg] # 0 THEN tx[c][pg] ELSE latest[pg]
    BY DEF Overlay
  <2> QED BY <2>1, <2>2, <2>3, <2>4 DEF Content
<1> QED BY <1>3 DEF DbAt, Overlay

(* Of what a writer has appended recovery finds at most its commit. *)
LEMMA OwnCommit ==
    ASSUME IInv, NEW c \in Conns, IsWriter(c), CutOk(c), MarkedOk(c), Top(c) > live.mxFrame,
           NEW s, NEW i \in live.mxFrame + 1..MaxFrame, Accepts(log, s, i), log.frame[i].commit
    PROVE  i = Top(c) /\ DbAt(db, log, i) \in unreported
<1> DEFINE m == live.mxFrame
           t == Top(c)
<1>1. m \in Nat /\ t \in Nat /\ MaxFrame \in Nat /\ t <= MaxFrame /\ i \in Nat
  <2>1. hdr \in [Conns -> Hdr]
    BY DEF IInv, TypeOK
  <2>2. hdr[c].mxFrame \in 0..MaxFrame
    BY <2>1 DEF Hdr
  <2> QED BY <2>1, <2>2, WriterIs, BoundsAssumption DEF Top
<1>2. i <= t
  <2>1. SUFFICES ASSUME i > t PROVE FALSE
    BY <1>1
  <2>2. i \in t + 1..MaxFrame /\ m + 1 \in 1..i
    BY <1>1, <2>1
  <2>3. log.frame[i].sum = Sum(log, i)
    BY <1>1, <2>2 DEF Accepts
  <2>4. m + 1 \in DOMAIN Sum(log, i) /\ Sum(log, i)[m + 1] = BodyOf(log.frame[m + 1])
    BY <2>2 DEF Sum
  <2> QED BY <2>2, <2>3, <2>4 DEF CutOk
<1>3. i = t /\ Commits(c)
  <2>1. i \in OwnFrames(c)
    BY <1>1, <1>2 DEF OwnFrames
  <2> QED BY <2>1 DEF MarkedOk
<1>4. DbAt(db, log, i) = Overlay(latest, tx[c])
  BY <1>3, OwnDb
<1> QED BY <1>3, <1>4 DEF MarkedOk

LEMMA WriterRecovers ==
    ASSUME IInv, NEW c \in Conns, IsWriter(c), CutOk(c), MarkedOk(c), Top(c) > live.mxFrame
    PROVE  Unpublished /\ DeathIsHarmless
<1>1. Unpublished
  BY OwnCommit DEF Unpublished
<1>2. live # NoHdr
  BY WriterIs
<1>3. live.salt = log.salt => DeathIsHarmless
  BY <1>1, <1>2, IndexRecovers
<1>4. ASSUME live.salt # log.salt PROVE DeathIsHarmless
  <2>1. live.mxFrame = 0 /\ \A pg \in Pages : latest[pg] = Content(db, log, pg, 1, live.mxFrame)
    <3>1. live.mxFrame \in Nat
      BY WriterIs
    <3> QED BY <1>2, <1>4, <3>1 DEF IInv, IndexInv
  <2>2. latest \in [Pages -> Contents]
    BY DEF IInv, TypeOK
  <2>3. /\ LastCommit(log) \in 0..MaxFrame
        /\ LastCommit(log) # 0 => Accepted(log, LastCommit(log)) /\ log.frame[LastCommit(log)].commit
    BY LastCommitIs
  <2>4. Recovered(db, log) = DbAt(db, log, LastCommit(log))
    BY DEF Recovered, DbAt
  <2>5. CASE LastCommit(log) = 0
    <3>1. Recovered(db, log) = latest
      BY <2>1, <2>2, <2>4, <2>5 DEF DbAt
    <3> QED BY <3>1 DEF DeathIsHarmless
  <2>6. CASE LastCommit(log) # 0
    <3>1. LastCommit(log) \in live.mxFrame + 1..MaxFrame
      BY <2>1, <2>3, <2>6, BoundsAssumption
    <3>2. Accepts(log, log.salt, LastCommit(log)) /\ log.frame[LastCommit(log)].commit
      BY <2>3, <2>6, AcceptedIs
    <3>3. DbAt(db, log, LastCommit(log)) \in unreported
      BY <3>1, <3>2, OwnCommit
    <3> QED BY <2>4, <3>3 DEF DeathIsHarmless
  <2> QED BY <2>5, <2>6
<1> QED BY <1>1, <1>3, <1>4

(* The same after a step. *)
IndexRecoversWell ==
    IInv /\ live # NoHdr /\ Unpublished /\ (live.salt = log.salt \/ LastCommit(log) = 0) => DeathIsHarmless
WriterRecoversWell ==
    \A c \in Conns : IInv /\ IsWriter(c) /\ CutOk(c) /\ MarkedOk(c) /\ Top(c) > live.mxFrame
        => Unpublished /\ DeathIsHarmless

LEMMA IndexRecoversNext ==
    IndexRecoversWell'
<1>1. IndexRecoversWell
  BY IndexRecovers DEF IndexRecoversWell
<1> QED BY <1>1, PTL

LEMMA WriterRecoversNext ==
    WriterRecoversWell'
<1>1. WriterRecoversWell
  BY WriterRecovers DEF WriterRecoversWell
<1> QED BY <1>1, PTL

-----------------------------------------------------------------------------
(* Steps that only the writer can take. *)
LEMMA AloneStep ==
    ASSUME NEW c \in Conns, writer' \in {c, None}, Numbered', Unpublished', DeathIsHarmless', TransactionOk(c)'
    PROVE  DeathInv'
<1>1. \A q \in Conns \ {c} : ~IsWriter(q)'
  BY BoundsAssumption DEF IsWriter
<1>2. \A q \in Conns \ {c} : TransactionOk(q)'
  BY <1>1 DEF TransactionOk
<1> QED BY <1>2 DEF DeathInv, Transactions

-----------------------------------------------------------------------------
(* The header of the wal-index, and of the log. *)

(* walIndexRecover(): the frames up to the last commit are counted. *)
LEMMA DeathRecoverHdr ==
    ASSUME IInv, DeathInv, NEW c \in Conns, RecoverHdr(c)
    PROVE  DeathInv'
<1>1. /\ Others(c) /\ at'[c] = "recoverReset" /\ tx'[c] = tx[c]
  BY RecoverHdrEffect DEF IInv
<1>2. /\ UNCHANGED <<db, dbDisk, log, logDisk, nWrites, unreported>> /\ writer' = c
      /\ live' = [salt |-> log.salt, mxFrame |-> LastCommit(log), iChange |-> 0]
      /\ latest' = Recovered(db, log)
  BY DEF RecoverHdr, files
<1>3. Numbered'
  <2>1. \A q \in Conns : tx'[q] = tx[q]
    BY <1>1 DEF Others, Same
  <2> QED BY <1>2, <2>1, NumberedStill DEF IInv, DeathInv
<1>4. Unpublished'
  <2>1. live'.salt = log.salt /\ live'.mxFrame = LastCommit(log)
    BY <1>2
  <2>2. LastCommit(log) \in 0..MaxFrame /\ \A i \in Frames : Accepted(log, i) /\ log.frame[i].commit => i <= LastCommit(log)
    BY LastCommitIs
  <2>3. \A i \in LastCommit(log) + 1..MaxFrame : ~(Accepts(log, log.salt, i) /\ log.frame[i].commit)
    <3>1. \A i \in LastCommit(log) + 1..MaxFrame : i \in Frames /\ ~(i <= LastCommit(log))
      BY <2>2, BoundsAssumption DEF Frames
    <3> QED BY <2>2, <3>1, AcceptedIs
  <2>4. \A i \in live'.mxFrame + 1..MaxFrame : ~(Accepts(log', live'.salt, i) /\ log'.frame[i].commit)
    BY <1>2, <2>1, <2>3
  <2> QED BY <2>4 DEF Unpublished
<1>5. DeathIsHarmless'
  <2>1. Recovered(db, log)' = Recovered(db, log)
    BY <1>2 DEF Recovered, LastCommit, Accepted, Sum, Content, Find
  <2> QED BY <1>2, <2>1 DEF DeathIsHarmless
<1>6. ~IsWriter(c)'
  BY <1>1 DEF IsWriter
<1> QED BY <1>2, <1>3, <1>4, <1>5, <1>6, AloneStep DEF TransactionOk

(* A salt that no frame has. *)
LEMMA FreshUnpublished ==
    ASSUME NEW s, NEW l, NEW i \in 1..MaxFrame, \A k \in Frames : l.frame[k].salt # s
    PROVE  ~Accepts(l, s, i)
<1>1. 1 \in 1..i /\ 1 \in Frames
  BY BoundsAssumption DEF Frames
<1> QED BY <1>1 DEF Accepts

(* A header without frames of a salt that no frame has. *)
LEMMA RestartedIndex ==
    ASSUME IInv, DeathInv, NEW c \in Conns, RestartHdr(c),
           UNCHANGED <<db, dbDisk, log, logDisk, nWrites, tx, latest, unreported>>
    PROVE  Numbered' /\ Unpublished' /\ DeathIsHarmless'
<1>1. live'.salt = FreshSalt /\ live'.mxFrame = 0
  <2>1. live' = [salt |-> FreshSalt, mxFrame |-> 0, iChange |-> hdr[c].iChange]
    BY RestartHdrIs DEF IInv
  <2> QED BY <2>1
<1>2. Numbered'
  BY NumberedStill DEF IInv, DeathInv
<1>3. Unpublished'
  <2>1. \A i \in 1..MaxFrame : ~Accepts(log, FreshSalt, i)
    <3>1. \A k \in Frames : log.frame[k].salt # FreshSalt
      BY FreshSaltIs
    <3> QED BY <3>1, FreshUnpublished
  <2>2. \A i \in live'.mxFrame + 1..MaxFrame : ~Accepts(log', live'.salt, i)
    BY <1>1, <2>1
  <2> QED BY <2>2 DEF Unpublished
<1>4. DeathIsHarmless'
  <2>1. Recovered(db, log)' = Recovered(db, log)
    BY DEF Recovered, LastCommit, Accepted, Sum, Content, Find
  <2> QED BY <2>1 DEF DeathIsHarmless, DeathInv
<1> QED BY <1>2, <1>3, <1>4

(* walRestartLog() and walCheckpoint() start the log anew. *)
LEMMA DeathRestart ==
    ASSUME IInv, DeathInv, NEW c \in Conns, Restart(c)
    PROVE  DeathInv'
<1>1. SelfOk(c) /\ at[c] = "restart" /\ RestartHdr(c)
  BY SelfIs DEF Restart, IsAt
<1>2. writer = c /\ mode[c] = "none" /\ readLock[c] = 0 /\ IsWriter(c)
  BY <1>1 DEF SelfOk, PhaseOk, Reading, Framing, Checkpointing, IsWriter
<1>3. UNCHANGED <<db, dbDisk, log, logDisk, nWrites, tx, latest, unreported>> /\ writer' = writer
  BY DEF Restart, files, locks, ghosts
<1>4. /\ hdr'[c] = live' /\ at'[c] = "restartIndex" /\ iFrame'[c] = 0 /\ live'.mxFrame = 0
      /\ dirty'[c] = dirty[c] /\ todo'[c] = todo[c] /\ commits'[c] = commits[c] /\ mode'[c] = mode[c]
  <2>1. live' = [salt |-> FreshSalt, mxFrame |-> 0, iChange |-> hdr[c].iChange]
    BY <1>1, RestartHdrIs DEF IInv
  <2> QED BY <2>1, RestartEffect DEF IInv
<1>5. Top(c) = live.mxFrame
  <2>1. hdr[c] = live
    BY <1>2, WriterIs DEF WriterHdrOk
  <2> QED BY <1>1, <2>1 DEF Top, InFrames
<1>6. FreshOk(c) /\ CallOk(c)
  BY <1>2 DEF DeathInv, Transactions, TransactionOk
<1>7. Top(c)' = 0 /\ OwnFrames(c)' = 1..0 /\ Commits(c)' = FALSE
  BY <1>4 DEF Top, OwnFrames, InFrames, Commits
<1>8. FreshOk(c)'
  BY <1>3, <1>4, <1>6 DEF FreshOk
<1>9. CutOk(c)' /\ MarkedOk(c)'
  <2>1. ~(Top(c)' > live'.mxFrame)
    BY <1>4, <1>7
  <2>2. OwnFrames(c)' = {}
    BY <1>7
  <2> QED BY <1>7, <2>1, <2>2 DEF CutOk, MarkedOk
<1>10. CallOk(c)'
  BY <1>4, <1>5, <1>6 DEF CallOk, SameLog
<1> QED BY <1>1, <1>2, <1>3, <1>8, <1>9, <1>10, RestartedIndex, AloneStep DEF TransactionOk

LEMMA DeathCkptRestart ==
    ASSUME IInv, DeathInv, NEW c \in Conns, CkptRestart(c)
    PROVE  DeathInv'
<1>1. RestartHdr(c) /\ UNCHANGED <<db, dbDisk, log, logDisk, nWrites, tx, latest, unreported>> /\ writer' = writer
  BY DEF CkptRestart, files, locks, ghosts
<1>2. at[c] = "ckptEnd" /\ mode[c] = "TRUNCATE"
  BY DEF CkptRestart, IsAt, RestartsLog
<1>3. writer = c
  BY <1>2, CkptPlace DEF Checkpointing
<1>4. mode'[c] = mode[c]
  BY CkptRestartEffect DEF IInv
<1>5. ~IsWriter(c)'
  BY <1>2, <1>4 DEF IsWriter
<1> QED BY <1>1, <1>3, <1>5, RestartedIndex, AloneStep DEF TransactionOk

LEMMA NumberedLog ==
    ASSUME Numbered, UNCHANGED <<nWrites, db, dbDisk, logDisk, tx>>, ValsUpTo(log', nWrites)
    PROVE  Numbered'
BY DEF Numbered, ValsUpTo

(* sqlite3WalFrames(): the header of a new log. *)
LEMMA DeathWalHdr ==
    ASSUME IInv, IInv', DeathInv, NEW c \in Conns, WalHdr(c)
    PROVE  DeathInv'
<1>1. at[c] = "walHdr"
  BY DEF WalHdr, IsAt
<1>2. IsWriter(c) /\ writer = c
  BY <1>1, WriterFrames DEF Framing
<1>3. /\ WriterHdrOk(c) /\ ListOk(c) /\ hdr[c].salt \in Nat /\ live # NoHdr
      /\ hdr[c].mxFrame \in Nat /\ live.mxFrame \in Nat /\ live.mxFrame <= hdr[c].mxFrame
  BY <1>2, WriterIs
<1>4. PICK salt \in Nat \ {0}, h \in Hdr :
         /\ salt = FreshSalt \/ salt = hdr[c].salt
         /\ salt = FreshSalt => hdr[c].salt \in {0, log.salt}
         /\ h.salt = salt /\ h.mxFrame = hdr[c].mxFrame /\ hdr' = Set(hdr, c, h)
         /\ log' \in Log /\ log'.salt = salt /\ log'.frame = log.frame
  BY <1>3, WalHdrIs DEF IInv
<1>5. UNCHANGED <<db, dbDisk, logDisk, live, latest, writer, dirty, todo, iFrame, commits, tx, unreported, nWrites>>
  BY DEF WalHdr, index, locks, writing, ghosts
<1>6. hdr'[c] = h /\ at'[c] = "syncHdr"
  <2>1. hdr \in [Conns -> Hdr] /\ at \in [Conns -> Steps]
    BY DEF IInv, TypeOK
  <2> QED BY <1>4, <2>1 DEF WalHdr, Goto, Set
<1>7. hdr[c].mxFrame = 0 /\ live.mxFrame = 0
  BY <1>1, <1>3 DEF WriterHdrOk
<1>8. FreshOk(c) /\ CallOk(c)
  BY <1>2 DEF DeathInv, Transactions, TransactionOk
<1>9. SameLog(c)
  BY <1>1, <1>7, <1>8 DEF CallOk, InFrames
<1>10. Numbered'
  <2>1. ValsUpTo(log', nWrites)
    BY <1>4 DEF DeathInv, Numbered, ValsUpTo
  <2> QED BY <1>5, <2>1, NumberedLog DEF DeathInv
<1>11. Unpublished'
  <2>1. \A i : Accepts(log, live.salt, i)' = Accepts(log, live.salt, i) /\ DbAt(db, log, i)' = DbAt(db, log, i)
    BY <1>4, <1>5 DEF Accepts, Sum, DbAt, Content, Find
  <2> QED BY <1>4, <1>5, <2>1 DEF Unpublished, DeathInv
<1>12. DeathIsHarmless'
  <2>1. CASE salt = hdr[c].salt
    <3>1. live'.salt = log'.salt /\ live' # NoHdr
      BY <1>3, <1>4, <1>5, <1>9, <2>1 DEF SameLog, NoHdr
    <3> QED BY <1>11, <3>1, IndexRecoversNext DEF IndexRecoversWell
  <2>2. CASE salt = FreshSalt
    <3>1. \A i \in 1..MaxFrame : ~Accepts(log', salt, i)
      <4>1. \A k \in Frames : log'.frame[k].salt # salt
        BY <1>4, <2>2, FreshSaltIs
      <4> QED BY <4>1, FreshUnpublished
    <3>2. LastCommit(log') = 0
      <4>1. LastCommit(log') \in 0..MaxFrame /\ (LastCommit(log') # 0 => Accepted(log', LastCommit(log')))
        BY LastCommitIs
      <4> QED BY <1>4, <3>1, <4>1, AcceptedIs, BoundsAssumption
    <3>3. live' # NoHdr
      BY <1>3, <1>5 DEF NoHdr
    <3> QED BY <1>11, <3>2, <3>3, IndexRecoversNext DEF IndexRecoversWell
  <2> QED BY <1>4, <2>1, <2>2
<1>13. Top(c)' = 0 /\ OwnFrames(c)' = 1..0 /\ Commits(c)' = FALSE
  BY <1>4, <1>5, <1>6, <1>7 DEF Top, OwnFrames, InFrames, Commits
<1>14. FreshOk(c)'
  BY <1>4, <1>5, <1>8 DEF FreshOk
<1>15. CutOk(c)' /\ MarkedOk(c)'
  <2>1. ~(Top(c)' > live'.mxFrame)
    BY <1>5, <1>7, <1>13
  <2>2. OwnFrames(c)' = {}
    BY <1>13
  <2> QED BY <1>13, <2>1, <2>2 DEF CutOk, MarkedOk
<1>16. CallOk(c)'
  <2>1. Top(c) = live.mxFrame
    BY <1>1, <1>7 DEF Top, InFrames
  <2> QED BY <1>5, <1>6, <1>8, <2>1 DEF CallOk
<1> QED BY <1>2, <1>5, <1>10, <1>11, <1>12, <1>14, <1>15, <1>16, AloneStep DEF TransactionOk

(* An empty log. *)
LEMMA EmptyLog ==
    /\ \A s, i : i \in 1..MaxFrame => ~Accepts(NoLog, s, i)
    /\ LastCommit(NoLog) = 0 /\ \A n \in Nat : ValsUpTo(NoLog, n)
<1>1. \A k \in Frames : NoLog.frame[k] = NoFrame
  BY DEF NoLog
<1>2. NoFrame.salt = 0 /\ NoFrame.val = 0 /\ NoFrame.sum = << >>
  BY DEF NoFrame
<1>3. \A s, i : i \in 1..MaxFrame => ~Accepts(NoLog, s, i)
  <2>1. SUFFICES ASSUME NEW s, NEW i \in 1..MaxFrame, Accepts(NoLog, s, i) PROVE FALSE
    OBVIOUS
  <2>2. 1 \in 1..i /\ 1 \in Frames
    BY BoundsAssumption DEF Frames
  <2> QED BY <1>1, <1>2, <2>1, <2>2 DEF Accepts
<1>4. LastCommit(NoLog) = 0
  <2>1. LastCommit(NoLog) \in 0..MaxFrame /\ (LastCommit(NoLog) # 0 => Accepted(NoLog, LastCommit(NoLog)))
    BY LastCommitIs
  <2> QED BY <1>3, <2>1, AcceptedIs, BoundsAssumption
<1>5. \A n \in Nat : ValsUpTo(NoLog, n)
  BY <1>1, <1>2 DEF ValsUpTo
<1> QED BY <1>3, <1>4, <1>5

(* walCheckpoint(): the log is truncated. *)
LEMMA DeathTruncate ==
    ASSUME IInv, IInv', DeathInv, NEW c \in Conns, Truncate(c)
    PROVE  DeathInv'
<1>1. at[c] = "truncate"
  BY DEF Truncate, IsAt
<1>2. writer = c /\ live # NoHdr
  <2>1. SelfOk(c)
    BY SelfIs
  <2>2. writer = c
    BY <1>1, <2>1 DEF SelfOk, PhaseOk, Reading, Framing, Checkpointing
  <2> QED BY <1>1, <2>2, CkptPlace
<1>3. UNCHANGED <<db, dbDisk, logDisk, live, latest, unreported, tx, nWrites>> /\ log' = NoLog /\ writer' = None
  BY <1>2 DEF Truncate, CkptReturn, index, Unlocked
<1>4. Numbered'
  <2>1. nWrites \in Nat
    <3>1. nWrites \in 0..MaxWrites
      BY DEF IInv, TypeOK
    <3> QED BY <3>1, BoundsAssumption
  <2>2. ValsUpTo(log', nWrites)
    BY <1>3, <2>1, EmptyLog
  <2> QED BY <1>3, <2>2, NumberedLog DEF DeathInv
<1>5. Unpublished'
  <2>1. live.mxFrame \in 0..MaxFrame
    <3>1. live \in Hdr
      BY DEF IInv, TypeOK
    <3> QED BY <3>1 DEF Hdr
  <2>2. \A i \in live.mxFrame + 1..MaxFrame : i \in 1..MaxFrame
    BY <2>1, BoundsAssumption
  <2>3. \A i \in live'.mxFrame + 1..MaxFrame : ~Accepts(log', live'.salt, i)
    BY <1>3, <2>2, EmptyLog
  <2> QED BY <2>3 DEF Unpublished
<1>6. DeathIsHarmless'
  <2>1. live' # NoHdr /\ LastCommit(log') = 0
    BY <1>2, <1>3, EmptyLog DEF NoHdr
  <2> QED BY <1>5, <2>1, IndexRecoversNext DEF IndexRecoversWell
<1>7. ~IsWriter(c)'
  BY <1>3, BoundsAssumption DEF IsWriter
<1> QED BY <1>3, <1>4, <1>5, <1>6, <1>7, AloneStep DEF TransactionOk

(* All processes die. *)
LEMMA DeathAllDie ==
    ASSUME IInv, DeathInv, AllDie
    PROVE  DeathInv'
<1>1. /\ UNCHANGED <<db, dbDisk, log, logDisk, nWrites, latest, unreported>>
      /\ live' = NoHdr /\ writer' = None /\ \A q \in Conns : tx'[q] = Unchanged
  <2>1. writer \in Conns \cup {None}
    BY DEF IInv, TypeOK
  <2> QED BY <2>1 DEF AllDie, IndexIsLost, Forget, files
<1>2. Numbered'
  BY <1>1, NumberedStill DEF IInv, DeathInv
<1>3. Unpublished'
  BY <1>1 DEF Unpublished, NoHdr
<1>4. DeathIsHarmless'
  <2>1. Recovered(db, log)' = Recovered(db, log)
    BY <1>1 DEF Recovered, LastCommit, Accepted, Sum, Content, Find
  <2> QED BY <1>1, <2>1 DEF DeathIsHarmless, DeathInv
<1>5. \A q \in Conns : TransactionOk(q)'
  BY <1>1, BoundsAssumption DEF TransactionOk, IsWriter
<1> QED BY <1>2, <1>3, <1>4, <1>5 DEF DeathInv, Transactions

-----------------------------------------------------------------------------
(* The calls of a write transaction. *)

(* sqlite3WalBeginWriteTransaction(). *)
LEMMA DeathBeginWrite ==
    ASSUME IInv, DeathInv, NEW c \in Conns, BeginWrite(c)
    PROVE  DeathInv'
<1>1. SelfOk(c) /\ at[c] = "idle" /\ hdr[c] = live /\ writer = None
  BY SelfIs DEF BeginWrite, InRead, IsAt
<1>2. ~IsWriter(c)
  BY <1>1, BoundsAssumption DEF IsWriter
<1>3. dirty[c] = {} /\ todo[c] = {} /\ commits[c] = FALSE
  BY <1>1, <1>2 DEF SelfOk, WriterOk
<1>4. UNCHANGED <<db, dbDisk, log, logDisk, live, latest, unreported, nWrites>> /\ writer' = c
  BY DEF BeginWrite, files, index
<1>5. /\ Others(c) /\ tx'[c] = Unchanged /\ at'[c] = at[c] /\ hdr'[c] = hdr[c]
      /\ dirty'[c] = {} /\ todo'[c] = {} /\ commits'[c] = FALSE
  BY <1>3, BeginWriteEffect DEF IInv
<1>6. Numbered'
  <2>1. \A q \in Conns : tx'[q] = tx[q] \/ tx'[q] = Unchanged
    BY <1>5 DEF Others, Same
  <2> QED BY <1>4, <2>1, NumberedStill DEF IInv, DeathInv
<1>7. Unpublished' /\ DeathIsHarmless'
  BY <1>4, FilesStill DEF DeathInv
<1>8. Top(c)' = live.mxFrame /\ Commits(c)' = FALSE /\ OwnFrames(c)' = live.mxFrame + 1..live.mxFrame
  BY <1>1, <1>4, <1>5 DEF Top, InFrames, Commits, OwnFrames
<1>9. live.mxFrame \in Nat
  BY Numbers DEF IInv, NumbersOk
<1>10. TransactionOk(c)'
  <2>1. OwnFrames(c)' = {} /\ ~(Top(c)' > live'.mxFrame)
    BY <1>4, <1>8, <1>9
  <2>2. FreshOk(c)' /\ CutOk(c)' /\ MarkedOk(c)'
    BY <1>5, <1>8, <2>1 DEF FreshOk, CutOk, MarkedOk
  <2>3. CallOk(c)'
    BY <1>1, <1>4, <1>5 DEF CallOk, SameLog
  <2> QED BY <2>2, <2>3 DEF TransactionOk
<1> QED BY <1>4, <1>6, <1>7, <1>10, AloneStep

(* No frame has the number of the next change. *)
NextIsNew(l) == \A k \in Frames :
    l.frame[k].val # nWrites + 1 /\ \A j \in DOMAIN l.frame[k].sum : l.frame[k].sum[j].val # nWrites + 1

LEMMA ValsInt ==
    ASSUME NEW l \in Log, NEW k \in Frames
    PROVE  l.frame[k].val \in Int /\ \A j \in DOMAIN l.frame[k].sum : l.frame[k].sum[j].val \in Int
<1>1. Contents \subseteq Int
  BY BoundsAssumption DEF Contents
<1>2. l.frame[k] \in Frame
  BY DEF Log
<1>3. l.frame[k].val \in Contents /\ l.frame[k].sum \in Seq(Body)
  BY <1>2 DEF Frame
<1>4. \A j \in DOMAIN l.frame[k].sum : l.frame[k].sum[j] \in Body
  BY <1>3
<1>5. \A b \in Body : b.val \in Contents
  BY DEF Body
<1> QED BY <1>1, <1>3, <1>4, <1>5

LEMMA ValsTyped ==
    ASSUME NEW l \in Log, nWrites \in Nat, ValsUpTo(l, nWrites)
    PROVE  NextIsNew(l)
<1>1. \A k \in Frames : l.frame[k].val \in Int /\ \A j \in DOMAIN l.frame[k].sum : l.frame[k].sum[j].val \in Int
  BY ValsInt
<1> QED BY <1>1 DEF ValsUpTo, NextIsNew

LEMMA ValsMore ==
    ASSUME NEW l \in Log, NEW n \in Nat, ValsUpTo(l, n)
    PROVE  ValsUpTo(l, n + 1)
<1>1. \A k \in Frames : l.frame[k].val \in Int /\ \A j \in DOMAIN l.frame[k].sum : l.frame[k].sum[j].val \in Int
  BY ValsInt
<1> QED BY <1>1 DEF ValsUpTo

(* A page is changed in the cache. *)
LEMMA DeathChange ==
    ASSUME IInv, DeathInv, NEW c \in Conns, NEW pg \in Pages, Change(c, pg)
    PROVE  DeathInv'
<1>1. at[c] = "idle" /\ writer = c
  BY DEF Change, InWrite, IsAt
<1>2. IsWriter(c)
  BY <1>1, WriterPlace
<1>3. /\ UNCHANGED <<db, dbDisk, log, logDisk, live, latest, unreported, writer>> /\ nWrites' = nWrites + 1
  BY DEF Change, files, index, locks
<1>4. /\ Others(c) /\ tx'[c] = [tx[c] EXCEPT ![pg] = nWrites + 1] /\ dirty'[c] = dirty[c] \cup {pg}
      /\ at'[c] = at[c] /\ hdr'[c] = hdr[c] /\ todo'[c] = todo[c] /\ commits'[c] = commits[c]
  BY ChangeEffect DEF IInv
<1>5. nWrites \in Nat /\ tx[c] \in [Pages -> Contents] /\ Contents \subseteq Int /\ tx \in [Conns -> [Pages -> Contents]]
      /\ log \in Log /\ logDisk \in Log /\ db \in [Pages -> Contents] /\ dbDisk \in [Pages -> Contents]
  <2>1. nWrites \in 0..MaxWrites /\ tx \in [Conns -> [Pages -> Contents]]
        /\ log \in Log /\ logDisk \in Log /\ db \in [Pages -> Contents] /\ dbDisk \in [Pages -> Contents]
    BY DEF IInv, TypeOK
  <2> QED BY <2>1, BoundsAssumption DEF Contents
<1>6. tx'[c][pg] = nWrites + 1 /\ \A q \in Pages \ {pg} : tx'[c][q] = tx[c][q]
  BY <1>4, <1>5
<1>7. Numbered /\ FreshOk(c) /\ CutOk(c) /\ MarkedOk(c) /\ CallOk(c)
  BY <1>2 DEF DeathInv, Transactions, TransactionOk
<1>8. NextIsNew(log) /\ NextIsNew(logDisk)
  BY <1>5, <1>7, ValsTyped DEF Numbered, NextIsNew
<1>9. Numbered'
  <2>1. ValsUpTo(log, nWrites + 1) /\ ValsUpTo(logDisk, nWrites + 1)
    BY <1>5, <1>7, ValsMore DEF Numbered
  <2>2. \A q \in Pages : db[q] <= nWrites + 1 /\ dbDisk[q] <= nWrites + 1
    <3>1. \A q \in Pages : db[q] \in Int /\ dbDisk[q] \in Int /\ db[q] <= nWrites /\ dbDisk[q] <= nWrites
      BY <1>5, <1>7 DEF Numbered
    <3> QED BY <1>5, <3>1
  <2>3. \A d \in Conns, q \in Pages : tx'[d][q] <= nWrites + 1
    <3>1. \A d \in Conns, q \in Pages : tx[d][q] \in Int /\ tx[d][q] <= nWrites
      BY <1>5, <1>7 DEF Numbered
    <3>2. \A d \in Conns \ {c} : tx'[d] = tx[d]
      BY <1>4 DEF Others, Same
    <3> QED BY <1>5, <1>6, <3>1, <3>2
  <2>4. ValsUpTo(log, nWrites)' /\ ValsUpTo(logDisk, nWrites)'
    BY <1>3, <2>1
  <2> QED BY <1>3, <2>2, <2>3, <2>4 DEF Numbered
<1>10. Unpublished' /\ DeathIsHarmless'
  BY <1>3, FilesStill DEF DeathInv
<1>11. ListOk(c) /\ todo[c] = {} /\ ~commits[c]
  BY <1>1, <1>2, WriterIs DEF ListOk
<1>12. Top(c)' = Top(c) /\ Commits(c)' = FALSE /\ Commits(c) = FALSE /\ OwnFrames(c)' = OwnFrames(c)
  BY <1>1, <1>3, <1>4 DEF Top, InFrames, Commits, OwnFrames
<1>13. FreshOk(c)'
  <2>1. dirty[c] \subseteq Pages
    BY DEF IInv, TypeOK
  <2>2. \A q \in Pages : tx[c][q] \in Int /\ tx[c][q] <= nWrites
    BY <1>5, <1>7 DEF Numbered
  <2>3. ASSUME NEW p \in dirty'[c], NEW k \in Frames
        PROVE  log.frame[k].val # tx'[c][p] /\ \A j \in DOMAIN log.frame[k].sum : log.frame[k].sum[j].val # tx'[c][p]
    <3>1. CASE p = pg
      BY <1>6, <1>8, <3>1 DEF NextIsNew
    <3>2. CASE p # pg
      BY <1>4, <1>6, <1>7, <2>1, <3>2 DEF FreshOk
    <3> QED BY <3>1, <3>2
  <2>4. ASSUME NEW p \in dirty'[c], NEW q \in dirty'[c] \ {p}
        PROVE  tx'[c][q] # tx'[c][p]
    <3>1. CASE p = pg
      <4>1. q \in Pages \ {pg} /\ tx'[c][q] = tx[c][q]
        BY <1>4, <1>6, <2>1, <3>1
      <4> QED BY <1>5, <1>6, <2>2, <3>1, <4>1
    <3>2. CASE q = pg
      <4>1. p \in Pages \ {pg} /\ tx'[c][p] = tx[c][p]
        BY <1>4, <1>6, <2>1, <3>2
      <4> QED BY <1>5, <1>6, <2>2, <3>2, <4>1
    <3>3. CASE p # pg /\ q # pg
      <4>1. p \in dirty[c] /\ q \in dirty[c] \ {p} /\ p \in Pages \ {pg} /\ q \in Pages \ {pg}
        BY <1>4, <2>1, <3>3
      <4> QED BY <1>6, <1>7, <4>1 DEF FreshOk
    <3> QED BY <3>1, <3>2, <3>3
  <2> QED BY <1>3, <2>3, <2>4 DEF FreshOk
<1>14. CutOk(c)' /\ MarkedOk(c)'
  BY <1>3, <1>7, <1>12 DEF CutOk, MarkedOk, BodyOf
<1>15. CallOk(c)'
  BY <1>1, <1>3, <1>4, <1>7, <1>11 DEF CallOk, SameLog
<1> QED BY <1>1, <1>3, <1>9, <1>10, <1>13, <1>14, <1>15, AloneStep DEF TransactionOk

(* The pager calls sqlite3WalFrames(). *)
LEMMA DeathCallFrames ==
    ASSUME IInv, DeathInv, NEW c \in Conns, NEW list \in SUBSET Pages, NEW isCommit \in BOOLEAN,
           CallFrames(c, list, isCommit),
           \A pg \in list \ dirty[c] : dirty[c] = {} /\ list = {pg} /\ isCommit,
           Top(c) = live.mxFrame => list \subseteq dirty[c]
    PROVE  DeathInv'
<1>1. at[c] = "idle" /\ writer = c
  BY DEF CallFrames, InWrite, IsAt
<1>2. IsWriter(c)
  BY <1>1, WriterPlace
<1>3. UNCHANGED <<db, dbDisk, log, logDisk, live, latest, unreported, writer, nWrites>>
  BY DEF CallFrames, files, index, locks, ghosts
<1>4. /\ Others(c) /\ todo'[c] = list /\ commits'[c] = isCommit /\ iFrame'[c] = hdr[c].mxFrame
      /\ at'[c] \in {"restart", "walHdr", "frames"}
      /\ hdr'[c] = hdr[c] /\ dirty'[c] = dirty[c] /\ tx'[c] = tx[c]
  BY CallFramesEffect DEF IInv
<1>5. FreshOk(c) /\ CutOk(c) /\ MarkedOk(c) /\ CallOk(c)
  BY <1>2 DEF DeathInv, Transactions, TransactionOk
<1>6. Numbered'
  <2>1. \A q \in Conns : tx'[q] = tx[q]
    BY <1>4 DEF Others, Same
  <2> QED BY <1>3, <2>1, NumberedStill DEF IInv, DeathInv
<1>7. Unpublished' /\ DeathIsHarmless'
  BY <1>3, FilesStill DEF DeathInv
<1>8. Top(c)' = Top(c) /\ Commits(c)' = FALSE /\ Commits(c) = FALSE /\ OwnFrames(c)' = OwnFrames(c)
  BY <1>1, <1>3, <1>4 DEF Top, InFrames, Commits, OwnFrames
<1>9. FreshOk(c)' /\ CutOk(c)' /\ MarkedOk(c)'
  BY <1>3, <1>4, <1>5, <1>8 DEF FreshOk, CutOk, MarkedOk, BodyOf
<1>10. CallOk(c)'
  <2>1. hdr[c].mxFrame = 0 => SameLog(c)
    BY <1>1, <1>5 DEF CallOk, InFrames
  <2> QED BY <1>3, <1>4, <1>8, <2>1 DEF CallOk, SameLog
<1> QED BY <1>1, <1>3, <1>6, <1>7, <1>9, <1>10, AloneStep DEF TransactionOk

LEMMA DeathCommit ==
    ASSUME IInv, DeathInv, NEW c \in Conns, Commit(c)
    PROVE  DeathInv'
<1>1. tx[c] # Unchanged /\ CallFrames(c, IF dirty[c] = {} THEN {1} ELSE dirty[c], TRUE)
  BY DEF Commit
<1>2. IsWriter(c) /\ at[c] = "idle"
  <2>1. at[c] = "idle" /\ writer = c
    BY <1>1 DEF CallFrames, InWrite, IsAt
  <2> QED BY <2>1, WriterPlace
<1>3. dirty[c] \subseteq Pages /\ 1 \in Pages /\ tx[c] \in [Pages -> Contents]
  <2>1. dirty \in [Conns -> SUBSET Pages] /\ tx \in [Conns -> [Pages -> Contents]]
    BY DEF IInv, TypeOK
  <2> QED BY <2>1, BoundsAssumption DEF Pages
<1>4. ASSUME Top(c) = live.mxFrame, dirty[c] = {} PROVE FALSE
  <2>1. PagesOk(c) /\ live.mxFrame \in Nat
    BY <1>2, WriterIs
  <2>2. \A pg \in Pages : Find(log, pg, live.mxFrame + 1, live.mxFrame) = 0
    <3>1. live.mxFrame + 1 \in Nat \ {0} /\ live.mxFrame + 1..live.mxFrame = {}
      BY <2>1
    <3> QED BY <2>1, <3>1, FindIs DEF IsLastOf
  <2>3. \A pg \in Pages : tx[c][pg] = 0
    BY <1>4, <2>1, <2>2 DEF PagesOk
  <2>4. tx[c] = Unchanged
    BY <1>3, <2>3 DEF Unchanged
  <2> QED BY <1>1, <2>4
<1>5. CASE dirty[c] = {}
  BY <1>1, <1>3, <1>4, <1>5, DeathCallFrames
<1>6. CASE dirty[c] # {}
  BY <1>1, <1>3, <1>6, DeathCallFrames
<1> QED BY <1>5, <1>6

LEMMA DeathSpill ==
    ASSUME IInv, DeathInv, NEW c \in Conns, NEW pg \in Pages, Spill(c, pg)
    PROVE  DeathInv'
BY DeathCallFrames DEF Spill

-----------------------------------------------------------------------------
(* The header of a spill, and of a commit. *)

LEMMA DeathSpilled ==
    ASSUME IInv, DeathInv, NEW c \in Conns, Publish(c), ~commits[c]
    PROVE  DeathInv'
<1>1. at[c] = "publish"
  BY DEF Publish, IsAt
<1>2. IsWriter(c) /\ writer = c
  BY <1>1, WriterFrames DEF Framing
<1>3. /\ UNCHANGED <<db, dbDisk, log, logDisk, live, latest, unreported, writer, nWrites>>
  BY DEF Publish, files
<1>4. /\ Others(c) /\ hdr'[c].salt = hdr[c].salt /\ hdr'[c].mxFrame = iFrame[c] /\ commits'[c] = FALSE
      /\ at'[c] = "idle" /\ tx'[c] = tx[c] /\ dirty'[c] = dirty[c] /\ todo'[c] = todo[c]
  BY <1>2, PublishEffect DEF IInv
<1>5. FreshOk(c) /\ CutOk(c) /\ MarkedOk(c) /\ CallOk(c)
  BY <1>2 DEF DeathInv, Transactions, TransactionOk
<1>6. Numbered'
  <2>1. \A q \in Conns : tx'[q] = tx[q]
    BY <1>4 DEF Others, Same
  <2> QED BY <1>3, <2>1, NumberedStill DEF IInv, DeathInv
<1>7. Unpublished' /\ DeathIsHarmless'
  BY <1>3, FilesStill DEF DeathInv
<1>8. Top(c)' = Top(c) /\ Commits(c)' = FALSE /\ Commits(c) = FALSE /\ OwnFrames(c)' = OwnFrames(c)
  BY <1>1, <1>3, <1>4 DEF Top, InFrames, Commits, OwnFrames
<1>9. FreshOk(c)' /\ CutOk(c)' /\ MarkedOk(c)'
  BY <1>3, <1>4, <1>5, <1>8 DEF FreshOk, CutOk, MarkedOk, BodyOf
<1>10. CallOk(c)'
  <2>1. iFrame[c] # 0
    <3>1. Top(c) > 0 /\ Top(c) = iFrame[c]
      BY <1>1, <1>5 DEF CallOk, Top, InFrames
    <3> QED BY <3>1
  <2>2. todo[c] = {}
    <3>1. ListOk(c)
      BY <1>2, WriterIs
    <3> QED BY <1>1, <3>1 DEF ListOk
  <2> QED BY <1>4, <2>1, <2>2 DEF CallOk
<1> QED BY <1>2, <1>3, <1>6, <1>7, <1>9, <1>10, AloneStep DEF TransactionOk

LEMMA DeathPublish ==
    ASSUME IInv, IInv', DeathInv, NEW c \in Conns, Publish(c), commits[c]
    PROVE  DeathInv'
<1> DEFINE n == iFrame[c]
<1>1. at[c] = "publish"
  BY DEF Publish, IsAt
<1>2. IsWriter(c) /\ writer = c
  BY <1>1, WriterFrames DEF Framing
<1>3. UNCHANGED <<db, dbDisk, log, logDisk, nWrites>> /\ writer' = None /\ tx' = Set(tx, c, Unchanged)
  BY DEF Publish, files
<1>4. live'.salt = hdr[c].salt /\ live'.mxFrame = n /\ Others(c) /\ tx'[c] = Unchanged
  <2>1. TypeOK
    BY DEF IInv
  <2>2. live' = hdr'[c] /\ hdr'[c].salt = hdr[c].salt /\ hdr'[c].mxFrame = iFrame[c]
    BY <1>2, <2>1, PublishEffect
  <2>3. Others(c) /\ tx'[c] = Unchanged /\ at'[c] = "idle"
    BY <1>2, <2>1, PublishEffect
  <2> QED BY <2>2, <2>3
<1>5. CutOk(c)
  BY <1>2 DEF DeathInv, Transactions, TransactionOk
<1>6. /\ n \in Nat /\ live.mxFrame \in Nat /\ Top(c) = n /\ n > live.mxFrame /\ hdr[c].salt \in Nat
      /\ log.salt = hdr[c].salt
  <2>1. Top(c) = n /\ Commits(c)
    BY <1>1 DEF Top, InFrames, Commits
  <2> QED BY <1>1, <1>2, <2>1, WriterIs DEF ChecksumsOk, WriterHdrOk, InFrames
<1>7. Numbered'
  <2>1. \A q \in Conns : tx'[q] = tx[q] \/ tx'[q] = Unchanged
    BY <1>4 DEF Others, Same
  <2> QED BY <1>3, <2>1, NumberedStill DEF IInv, DeathInv
<1>8. Unpublished'
  <2>1. ASSUME NEW i \in n + 1..MaxFrame, Accepts(log, hdr[c].salt, i) PROVE FALSE
    <3>1. live.mxFrame + 1 \in 1..i /\ i \in 1..i
      BY <1>6
    <3>2. log.frame[i].sum = Sum(log, i)
      BY <2>1, <3>1 DEF Accepts
    <3>3. live.mxFrame + 1 \in DOMAIN Sum(log, i) /\ Sum(log, i)[live.mxFrame + 1] = BodyOf(log.frame[live.mxFrame + 1])
      BY <3>1 DEF Sum
    <3> QED BY <1>5, <1>6, <2>1, <3>2, <3>3 DEF CutOk
  <2>2. \A i \in live'.mxFrame + 1..MaxFrame : ~Accepts(log', live'.salt, i)
    BY <1>3, <1>4, <2>1
  <2> QED BY <2>2 DEF Unpublished
<1>9. DeathIsHarmless'
  <2>1. live' # NoHdr /\ live'.salt = log'.salt
    BY <1>3, <1>4, <1>6 DEF NoHdr
  <2> QED BY <1>8, <2>1, IndexRecoversNext DEF IndexRecoversWell
<1>10. ~IsWriter(c)'
  BY <1>3, BoundsAssumption DEF IsWriter
<1> QED BY <1>3, <1>7, <1>8, <1>9, <1>10, AloneStep DEF TransactionOk

-----------------------------------------------------------------------------
(* A page that a checkpoint writes has a frame that readers of later commits see. *)
LEMMA DeathCkptCopy ==
    ASSUME IInv, IInv', DeathInv, NEW c \in Conns, CkptCopy(c)
    PROVE  DeathInv'
<1> DEFINE pg == next[c]
           i == Find(log, next[c], 1, hdr[c].mxFrame)
<1>1. at[c] = "ckptCopy"
  BY DEF CkptCopy, IsAt
<1>2. /\ UNCHANGED <<dbDisk, log, logDisk, live, nWrites, tx, latest, unreported>>
      /\ db' = IF i > nBackfill /\ i <= mxSafe[c] THEN [db EXCEPT ![pg] = log.frame[i].val] ELSE db
  BY DEF CkptCopy, index, ghosts
<1>3. Others(c) /\ mode'[c] = mode[c]
  BY CkptCopyEffect DEF IInv
<1>4. mode[c] # "none" /\ live # NoHdr
  BY <1>1, CkptPlace DEF Checkpointing
<1>5. CASE db' = db
  <2>1. Untouched
    BY <1>2, <1>5 DEF Untouched
  <2>2. at[c] \in Checkpointing
    BY <1>1 DEF Checkpointing
  <2> QED BY <1>2, <1>3, <2>1, <2>2, CheckpointerStep
<1>6. CASE db' # db
  <2>1. i > nBackfill /\ i <= mxSafe[c] /\ db' = [db EXCEPT ![pg] = log.frame[i].val]
    BY <1>2, <1>6
  <2>2. hdr[c].mxFrame \in Nat /\ nBackfill \in Nat /\ live.mxFrame \in Nat /\ live.mxFrame <= MaxFrame
    BY Numbers DEF IInv, NumbersOk
  <2>3. SameLog(c) /\ hdr[c].mxFrame <= live.mxFrame
    <3>1. ~IsWriter(c) /\ SelfOk(c)
      BY <1>4, SelfIs DEF IsWriter
    <3> QED BY <1>1, <3>1 DEF SelfOk, CkptOk, Copying, HdrOk
  <2>4. i \in 1..hdr[c].mxFrame /\ log.frame[i].pg = pg
    <3>1. IsLastOf(i, log, pg, 1, hdr[c].mxFrame)
      BY <2>2, FindIs
    <3> QED BY <2>1, <2>2, <3>1 DEF IsLastOf
  <2> HIDE DEF i, pg
  <2>5. i \in Nat /\ i # 0 /\ i <= live.mxFrame /\ live.salt = log.salt /\ i \in Frames
    <3>1. i \in Nat /\ i # 0 /\ i <= live.mxFrame /\ i \in Frames
      BY <2>2, <2>3, <2>4, BoundsAssumption DEF Frames
    <3>2. live.mxFrame > 0
      BY <2>2, <3>1
    <3> QED BY <3>1, <3>2 DEF IInv, IndexInv
  <2>6. Numbered'
    <3>1. \A q \in Pages : db'[q] <= nWrites
      <4>1. log.frame[i].val <= nWrites /\ \A q \in Pages : db[q] <= nWrites
        BY <2>5 DEF DeathInv, Numbered, ValsUpTo
      <4>2. db \in [Pages -> Contents]
        BY DEF IInv, TypeOK
      <4> QED BY <2>1, <4>1, <4>2
    <3> QED BY <1>2, <3>1 DEF DeathInv, Numbered, ValsUpTo
  <2>7. ASSUME NEW n \in live.mxFrame + 1..MaxFrame PROVE DbAt(db', log, n) = DbAt(db, log, n)
    <3>1. ASSUME NEW q \in Pages PROVE Content(db', log, q, 1, n) = Content(db, log, q, 1, n)
      <4>1. CASE q = pg
        <5>1. IsLastOf(Find(log, q, 1, n), log, q, 1, n)
          BY <2>2, FindIs
        <5>2. i \in 1..n
          BY <2>2, <2>5
        <5>3. Find(log, q, 1, n) # 0
          BY <2>2, <2>4, <4>1, <5>1, <5>2 DEF IsLastOf
        <5> QED BY <5>3 DEF Content
      <4>2. CASE q # pg
        <5>1. db'[q] = db[q]
          <6>1. db \in [Pages -> Contents]
            BY DEF IInv, TypeOK
          <6> QED BY <2>1, <4>2, <6>1
        <5> QED BY <5>1 DEF Content
      <4> QED BY <4>1, <4>2
    <3> QED BY <3>1 DEF DbAt
  <2>8. Unpublished'
    <3>1. \A n \in live.mxFrame + 1..MaxFrame :
             Accepts(log, live.salt, n) /\ log.frame[n].commit => DbAt(db', log, n) \in unreported
      BY <1>4, <2>7 DEF Unpublished, DeathInv
    <3> QED BY <1>2, <3>1 DEF Unpublished
  <2>9. DeathIsHarmless'
    <3>1. live' # NoHdr /\ live'.salt = log'.salt
      BY <1>2, <1>4, <2>5 DEF NoHdr
    <3> QED BY <2>8, <3>1, IndexRecoversNext DEF IndexRecoversWell
  <2>10. \A q \in Conns \ {c} : TransactionOk(q)'
    BY <1>2, <1>3, OtherStill DEF Others, DeathInv, Transactions
  <2>11. TransactionOk(c)'
    BY <1>3, <1>4 DEF TransactionOk, IsWriter
  <2> QED BY <2>6, <2>8, <2>9, <2>10, <2>11 DEF DeathInv, Transactions
<1> QED BY <1>5, <1>6

-----------------------------------------------------------------------------
(* The frames of the writer. *)

(* Such a step only has to leave the transaction and the contents right. *)
LEMMA FrameStep ==
    ASSUME IInv', NEW c \in Conns, writer' = c, IsWriter(c)', Top(c)' > live'.mxFrame,
           Numbered', FreshOk(c)', CutOk(c)', MarkedOk(c)', CallOk(c)'
    PROVE  DeathInv'
<1>1. Unpublished' /\ DeathIsHarmless'
  BY WriterRecoversNext DEF WriterRecoversWell
<1> QED BY <1>1, AloneStep DEF TransactionOk

(* A frame whose values are in the log, but for that of its page. *)
LEMMA ValsWith ==
    ASSUME Numbered, log' \in Log, NEW i \in Frames,
           \A k \in Frames \ {i} : log'.frame[k] = log.frame[k],
           log'.frame[i].val <= nWrites,
           \A j \in DOMAIN log'.frame[i].sum : log'.frame[i].sum[j].val <= nWrites,
           UNCHANGED <<nWrites, db, dbDisk, logDisk, tx>>
    PROVE  Numbered'
<1>1. ValsUpTo(log', nWrites)
  BY DEF Numbered, ValsUpTo
<1> QED BY <1>1, NumberedLog

LEMMA FreshWith ==
    ASSUME NEW c \in Conns, FreshOk(c), NEW i \in Frames,
           \A k \in Frames \ {i} : log'.frame[k] = log.frame[k],
           tx' = tx, dirty'[c] \subseteq dirty[c],
           \A pg \in dirty'[c] :
              /\ log'.frame[i].val # tx[c][pg]
              /\ \A j \in DOMAIN log'.frame[i].sum : log'.frame[i].sum[j].val # tx[c][pg]
    PROVE  FreshOk(c)'
<1>1. ASSUME NEW pg \in dirty'[c], NEW k \in Frames
      PROVE  /\ log'.frame[k].val # tx[c][pg]
             /\ \A j \in DOMAIN log'.frame[k].sum : log'.frame[k].sum[j].val # tx[c][pg]
  BY DEF FreshOk
<1> QED BY <1>1 DEF FreshOk

(* The values in a checksum are those of frames. *)
LEMMA SumVals ==
    ASSUME NEW l \in Log, NEW i \in 0..MaxFrame
    PROVE  DOMAIN Sum(l, i) = 1..i /\ \A j \in 1..i : j \in Frames /\ Sum(l, i)[j].val = l.frame[j].val
BY BoundsAssumption DEF Sum, BodyOf, Frames

(* walRewriteChecksums(): one frame. *)
LEMMA DeathRewriteChecksum ==
    ASSUME IInv, IInv', DeathInv, NEW c \in Conns, RewriteChecksum(c)
    PROVE  DeathInv'
<1> DEFINE i == reCksum[c]
<1>1. at[c] = "checksums"
  BY DEF RewriteChecksum, IsAt
<1>2. IsWriter(c) /\ writer = c
  BY <1>1, WriterFrames DEF Framing
<1>3. /\ ChecksumsOk(c) /\ ListOk(c) /\ hdr[c].salt \in Nat /\ i \in Nat /\ i # 0 /\ live.mxFrame \in Nat
      /\ iFrame[c] \in Nat
  BY <1>1, <1>2, WriterIs DEF ChecksumsOk
<1>4. Top(c) = iFrame[c] /\ i \in live.mxFrame + 1..iFrame[c]
  BY <1>1, <1>3 DEF ChecksumsOk, OwnFrames, Top, InFrames
<1>5. /\ i \in Frames /\ log' \in Log
      /\ log'.frame[i].val = log.frame[i].val /\ log'.frame[i].commit = log.frame[i].commit
      /\ log'.frame[i].sum = Sum(log, i) /\ BodyOf(log'.frame[i]) = BodyOf(log.frame[i])
      /\ \A k \in Frames \ {i} : log'.frame[k] = log.frame[k]
  BY <1>3, RewriteIs DEF IInv
<1>6. UNCHANGED <<db, dbDisk, logDisk, live, latest, writer, unreported, nWrites, tx>>
  BY DEF RewriteChecksum, index, locks, ghosts
<1>7. /\ at'[c] \in {"checksums", "sync"} /\ hdr'[c] = hdr[c] /\ dirty'[c] = dirty[c] /\ todo'[c] = todo[c]
      /\ iFrame'[c] = iFrame[c] /\ commits'[c] = commits[c] /\ mode'[c] = mode[c]
  BY RewriteChecksumEffect DEF IInv
<1>8. Numbered /\ FreshOk(c) /\ CutOk(c) /\ MarkedOk(c) /\ CallOk(c)
  BY <1>2 DEF DeathInv, Transactions, TransactionOk
<1>9. DOMAIN Sum(log, i) = 1..i /\ \A j \in 1..i : j \in Frames /\ Sum(log, i)[j].val = log.frame[j].val
  <2>1. log \in Log /\ i \in 0..MaxFrame
    BY <1>5 DEF IInv, TypeOK, Frames
  <2> QED BY <2>1, SumVals
<1> HIDE DEF i
<1>10. Numbered'
  <2>1. log'.frame[i].val <= nWrites /\ \A j \in DOMAIN log'.frame[i].sum : log'.frame[i].sum[j].val <= nWrites
    BY <1>5, <1>8, <1>9 DEF Numbered, ValsUpTo
  <2> QED BY <1>5, <1>6, <1>8, <2>1, ValsWith
<1>11. FreshOk(c)'
  <2>1. ASSUME NEW pg \in dirty[c]
        PROVE  log'.frame[i].val # tx[c][pg] /\ \A j \in DOMAIN log'.frame[i].sum : log'.frame[i].sum[j].val # tx[c][pg]
    BY <1>5, <1>8, <1>9 DEF FreshOk
  <2> QED BY <1>5, <1>6, <1>7, <1>8, <2>1, FreshWith
<1>12. Top(c)' = Top(c) /\ Commits(c)' = TRUE /\ Commits(c) = TRUE /\ OwnFrames(c)' = OwnFrames(c) /\ IsWriter(c)'
  BY <1>1, <1>2, <1>4, <1>6, <1>7 DEF Top, InFrames, Commits, OwnFrames, IsWriter
<1>13. CutOk(c)'
  <2>1. \A k \in Top(c) + 1..MaxFrame : k # i /\ k \in Frames
    BY <1>3, <1>4, BoundsAssumption DEF Frames
  <2>2. live.mxFrame + 1 \in Frames
    BY <1>3, <1>4, <1>5, BoundsAssumption DEF Frames
  <2>3. BodyOf(log'.frame[live.mxFrame + 1]) = BodyOf(log.frame[live.mxFrame + 1])
    BY <1>5, <2>2
  <2>4. \A k \in Top(c) + 1..MaxFrame : log'.frame[k] = log.frame[k]
    BY <1>5, <2>1
  <2> QED BY <1>6, <1>8, <1>12, <2>3, <2>4 DEF CutOk
<1>14. MarkedOk(c)'
  <2>1. \A k \in OwnFrames(c) : k \in Frames
    <3>1. iFrame[c] <= MaxFrame
      BY <1>2, WriterIs
    <3> QED BY <1>3, <1>4, <3>1, BoundsAssumption DEF Frames, OwnFrames
  <2>2. \A k \in OwnFrames(c) : log'.frame[k].commit = log.frame[k].commit
    BY <1>5, <2>1
  <2>3. Overlay(latest, tx[c])' = Overlay(latest, tx[c])
    BY <1>6 DEF Overlay
  <2> QED BY <1>6, <1>8, <1>12, <2>2, <2>3 DEF MarkedOk
<1>15. CallOk(c)'
  <2>1. todo[c] = {}
    BY <1>1, <1>3 DEF ListOk
  <2> QED BY <1>7, <2>1 DEF CallOk, InFrames
<1>16. Top(c)' > live'.mxFrame
  BY <1>3, <1>4, <1>6, <1>12
<1> QED BY <1>2, <1>6, <1>10, <1>11, <1>12, <1>13, <1>14, <1>15, <1>16, FrameStep

(* sqlite3WalFrames(): the content of a spilled frame is replaced. *)
LEMMA DeathOverwrite ==
    ASSUME IInv, IInv', DeathInv, NEW c \in Conns, Overwrite(c)
    PROVE  DeathInv'
<1> DEFINE i == Spilled(c)
           p == Page(c)
<1>1. at[c] = "frames" /\ i > 0
  BY DEF Overwrite, IsAt
<1>2. /\ IsWriter(c) /\ writer = c /\ p \in todo[c] /\ p \in Pages
      /\ live.mxFrame <= hdr[c].mxFrame /\ hdr[c].mxFrame <= iFrame[c] /\ Top(c) = iFrame[c]
      /\ live.mxFrame \in Nat /\ hdr[c].mxFrame \in Nat /\ iFrame[c] \in Nat /\ iFrame[c] <= MaxFrame
  BY <1>1, WrittenPage
<1>3. Numbered /\ FreshOk(c) /\ CutOk(c) /\ MarkedOk(c) /\ CallOk(c)
  BY <1>2 DEF DeathInv, Transactions, TransactionOk
<1>4. i \in Frames /\ live.mxFrame < i /\ i <= hdr[c].mxFrame /\ ~(commits[c] /\ IsLast(c))
  BY <1>1, SpilledIs DEF IInv
<1>5. /\ log' \in Log
      /\ log'.frame[i] = [log.frame[i] EXCEPT !.val = View(c, p)]
      /\ log'.frame[i].val = View(c, p) /\ log'.frame[i].commit = log.frame[i].commit
      /\ \A k \in Frames \ {i} : log'.frame[k] = log.frame[k]
  BY <1>2, OverwriteIs DEF IInv
<1>6. UNCHANGED <<db, dbDisk, logDisk, live, latest, writer, unreported, nWrites, tx>>
  BY DEF Overwrite, index, locks, ghosts
<1>7. /\ at'[c] \in {"frames", "publish", "checksums"} /\ ~(commits[c] /\ at'[c] \in {"publish", "checksums"})
      /\ hdr'[c] = hdr[c] /\ dirty'[c] = dirty[c] \ {p} /\ todo'[c] = todo[c] \ {p}
      /\ iFrame'[c] = iFrame[c] /\ commits'[c] = commits[c] /\ mode'[c] = mode[c]
  <2>1. /\ at'[c] = IF ~IsLast(c) THEN at[c] ELSE IF ~commits[c] THEN "publish" ELSE IF TRUE THEN "checksums" ELSE "sync"
        /\ hdr'[c] = hdr[c] /\ dirty'[c] = dirty[c] \ {p} /\ todo'[c] = todo[c] \ {p}
        /\ iFrame'[c] = iFrame[c] /\ commits'[c] = commits[c] /\ mode'[c] = mode[c]
    BY OverwriteEffect DEF IInv
  <2> QED BY <1>1, <1>4, <2>1
<1>8. p \in dirty[c] /\ View(c, p) = tx[c][p]
  <2>1. p \in todo[c] \ dirty[c] => todo[c] = {p} /\ commits[c]
    BY <1>3 DEF CallOk
  <2>2. p \in dirty[c]
    BY <1>2, <1>4, <2>1 DEF IsLast
  <2> QED BY <2>2 DEF View
<1>9. log'.frame[i].sum = log.frame[i].sum
  <2>1. log.frame[i] \in Frame
    <3>1. log \in Log
      BY DEF IInv, TypeOK
    <3> QED BY <1>4, <3>1 DEF Log
  <2> QED BY <1>5, <2>1 DEF Frame
<1> HIDE DEF i, p
<1>10. Numbered'
  <2>1. log'.frame[i].val <= nWrites
    BY <1>2, <1>3, <1>5, <1>8 DEF Numbered
  <2>2. \A j \in DOMAIN log'.frame[i].sum : log'.frame[i].sum[j].val <= nWrites
    BY <1>3, <1>4, <1>9 DEF Numbered, ValsUpTo
  <2> QED BY <1>3, <1>4, <1>5, <1>6, <2>1, <2>2, ValsWith
<1>11. FreshOk(c)'
  <2>1. ASSUME NEW pg \in dirty'[c]
        PROVE  log'.frame[i].val # tx[c][pg] /\ \A j \in DOMAIN log'.frame[i].sum : log'.frame[i].sum[j].val # tx[c][pg]
    BY <1>3, <1>4, <1>5, <1>7, <1>8, <1>9 DEF FreshOk
  <2> QED BY <1>3, <1>4, <1>5, <1>6, <1>7, <2>1, FreshWith
<1>12. Top(c)' = Top(c) /\ Commits(c)' = FALSE /\ Commits(c) = FALSE /\ OwnFrames(c)' = OwnFrames(c) /\ IsWriter(c)'
  <2>1. commits[c] \in BOOLEAN
    BY DEF IInv, TypeOK
  <2>2. at'[c] # "sync" /\ at'[c] # "recoverReset" /\ (at'[c] = "checksums" => commits[c])
    BY <1>7, OverwriteEffect, <1>1 DEF IInv
  <2>3. Commits(c)' = FALSE /\ Commits(c) = FALSE
    BY <1>1, <1>7, <2>1, <2>2 DEF Commits
  <2> QED BY <1>1, <1>2, <1>6, <1>7, <2>2, <2>3 DEF Top, InFrames, OwnFrames, IsWriter
<1>13. CutOk(c)'
  <2>1. \A k \in Top(c) + 1..MaxFrame : k # i /\ k \in Frames
    BY <1>2, <1>4, BoundsAssumption DEF Frames
  <2>2. live.mxFrame + 1 \in Frames
    BY <1>2, <1>4, BoundsAssumption DEF Frames
  <2>3. \A k \in Top(c) + 1..MaxFrame : log'.frame[k] = log.frame[k]
    BY <1>5, <2>1
  <2>4. CASE i # live.mxFrame + 1
    <3>1. log'.frame[live.mxFrame + 1] = log.frame[live.mxFrame + 1]
      BY <1>5, <2>2, <2>4
    <3> QED BY <1>3, <1>6, <1>12, <2>3, <3>1 DEF CutOk
  <2>5. CASE i = live.mxFrame + 1
    <3>1. BodyOf(log'.frame[live.mxFrame + 1]).val = tx[c][p]
      BY <1>5, <1>8, <2>5 DEF BodyOf
    <3>2. \A k \in Frames : \A j \in DOMAIN log.frame[k].sum : log.frame[k].sum[j].val # tx[c][p]
      BY <1>3, <1>8 DEF FreshOk
    <3> QED BY <1>6, <1>12, <2>1, <2>3, <3>1, <3>2 DEF CutOk
  <2> QED BY <2>4, <2>5
<1>14. MarkedOk(c)'
  <2>1. \A k \in OwnFrames(c) : k \in Frames
    BY <1>2, BoundsAssumption DEF Frames, OwnFrames
  <2>2. \A k \in OwnFrames(c) : log'.frame[k].commit = log.frame[k].commit
    BY <1>5, <2>1
  <2> QED BY <1>3, <1>12, <2>2 DEF MarkedOk
<1>15. Top(c)' > live'.mxFrame
  <2>1. i \in Nat
    BY <1>4 DEF Frames
  <2> QED BY <1>2, <1>4, <1>6, <1>12, <2>1
<1>16. CallOk(c)'
  <2>1. Top(c)' # live'.mxFrame /\ Top(c)' > 0
    BY <1>2, <1>6, <1>12, <1>15
  <2>2. \A pg \in todo'[c] \ dirty'[c] : FALSE
    <3>1. ASSUME NEW pg \in todo'[c] \ dirty'[c] PROVE FALSE
      <4>1. pg \in todo[c] \ dirty[c] /\ pg # p
        BY <1>7
      <4>2. todo[c] = {pg}
        BY <1>3, <4>1 DEF CallOk
      <4> QED BY <1>2, <4>1, <4>2
    <3> QED BY <3>1
  <2> QED BY <1>7, <2>1, <2>2 DEF CallOk, InFrames
<1> QED BY <1>2, <1>6, <1>10, <1>11, <1>12, <1>13, <1>14, <1>15, <1>16, FrameStep

(* Contents depend on the frames up to the last. *)
LEMMA ContentUpTo ==
    ASSUME NEW f, NEW l, NEW n, NEW pg \in Pages, NEW max \in 0..MaxFrame,
           \A q \in Pages : f[q] <= n, \A k \in Frames : l.frame[k].val <= n
    PROVE  Content(f, l, pg, 1, max) <= n
<1>1. max \in Nat
  BY BoundsAssumption
<1>2. IsLastOf(Find(l, pg, 1, max), l, pg, 1, max)
  BY <1>1, FindIs
<1>3. Find(l, pg, 1, max) # 0 => Find(l, pg, 1, max) \in Frames
  BY <1>2, BoundsAssumption DEF IsLastOf, Frames
<1> QED BY <1>3 DEF Content

(* walWriteOneFrame(): one frame is added behind the last. *)
LEMMA DeathAppendFrame ==
    ASSUME IInv, IInv', DeathInv, NEW c \in Conns, AppendFrame(c)
    PROVE  DeathInv'
<1> DEFINE n == iFrame[c]
           i == iFrame[c] + 1
           p == Page(c)
           last == commits[c] /\ IsLast(c)
<1>1. at[c] = "frames"
  BY DEF AppendFrame, IsAt
<1>2. /\ IsWriter(c) /\ writer = c /\ p \in todo[c] /\ p \in Pages
      /\ View(c, p) = Overlay(latest, tx[c])[p]
      /\ live.mxFrame <= hdr[c].mxFrame /\ hdr[c].mxFrame <= n /\ Top(c) = n
      /\ live.mxFrame \in Nat /\ hdr[c].mxFrame \in Nat /\ n \in Nat /\ n <= MaxFrame /\ hdr[c].salt \in Nat
  BY <1>1, WrittenPage
<1>3. Numbered /\ FreshOk(c) /\ CutOk(c) /\ MarkedOk(c) /\ CallOk(c)
  BY <1>2 DEF DeathInv, Transactions, TransactionOk
<1>4. /\ i \in Frames /\ log' \in Log
      /\ log'.frame[i].val = View(c, p) /\ log'.frame[i].commit = last
      /\ reCksum[c] = 0 => log'.frame[i].sum = Append(Sum(log, i - 1), BodyOf(log'.frame[i]))
      /\ reCksum[c] # 0 => log'.frame[i].sum = << >>
      /\ \A k \in Frames \ {i} : log'.frame[k] = log.frame[k]
  BY <1>2, AppendIs DEF IInv
<1>5. /\ UNCHANGED <<db, dbDisk, logDisk, live, latest, writer, nWrites, tx>>
      /\ unreported' = unreported \cup IF last THEN {Overlay(latest, tx[c])} ELSE {}
  BY DEF AppendFrame, index, locks
<1>6. /\ at'[c] = IF ~IsLast(c) THEN at[c] ELSE IF ~commits[c] THEN "publish" ELSE IF reCksum[c] > 0 THEN "checksums" ELSE "sync"
      /\ hdr'[c] = hdr[c] /\ dirty'[c] = dirty[c] \ {p} /\ todo'[c] = todo[c] \ {p}
      /\ iFrame'[c] = i /\ commits'[c] = commits[c] /\ mode'[c] = mode[c]
  BY AppendFrameEffect DEF IInv
<1>7. i = n + 1 /\ i - 1 = n /\ i \in Nat /\ i <= MaxFrame /\ MaxFrame \in Nat
  BY <1>2, <1>4, BoundsAssumption DEF Frames
<1>8. \A j \in DOMAIN log'.frame[i].sum : log'.frame[i].sum[j].val = log'.frame[i].val
                                       \/ \E k \in Frames : log'.frame[i].sum[j].val = log.frame[k].val
  <2>1. CASE reCksum[c] = 0
    <3>1. log \in Log /\ n \in 0..MaxFrame
      BY <1>2 DEF IInv, TypeOK
    <3>2. /\ Sum(log, n) \in Seq(Body) /\ Len(Sum(log, n)) = n
          /\ \A k \in 1..n : Sum(log, n)[k].val = log.frame[k].val
      BY <3>1, SumTyped, SumVals
    <3>3. log'.frame[i].sum = Append(Sum(log, n), BodyOf(log'.frame[i])) /\ BodyOf(log'.frame[i]).val = log'.frame[i].val
      BY <1>4, <1>7, <2>1 DEF BodyOf
    <3> HIDE DEF i, n
    <3>4. \A s \in Seq(Body) : \A b : Len(s) = n =>
             /\ DOMAIN Append(s, b) = 1..n + 1 /\ Append(s, b)[n + 1] = b
             /\ \A k \in 1..n : Append(s, b)[k] = s[k]
      BY <1>2
    <3>5. \A k \in 1..n : k \in Frames
      BY <1>2, <1>7 DEF Frames
    <3>6. \A k \in 1..n + 1 : k = n + 1 \/ k \in 1..n
      BY <1>2
    <3> QED BY <3>2, <3>3, <3>4, <3>5, <3>6
  <2>2. CASE reCksum[c] # 0
    BY <1>4, <2>2
  <2> QED BY <2>1, <2>2
<1>9. p \in dirty[c] \/ dirty[c] = {}
  BY <1>2, <1>3 DEF CallOk
<1>10. p \in dirty[c] => View(c, p) = tx[c][p]
  BY DEF View
<1>11. View(c, p) <= nWrites
  <2>1. latest[p] <= nWrites
    <3>1. latest[p] = Content(db, log, p, 1, live.mxFrame) /\ live.mxFrame \in 0..MaxFrame
      <4>1. live # NoHdr
        BY <1>2, WriterIs
      <4> QED BY <1>2, <1>7, <4>1 DEF IInv, IndexInv
    <3>2. (\A q \in Pages : db[q] <= nWrites) /\ (\A k \in Frames : log.frame[k].val <= nWrites)
      BY <1>3 DEF Numbered, ValsUpTo
    <3> QED BY <1>2, <3>1, <3>2, ContentUpTo
  <2>2. tx[c][p] <= nWrites
    BY <1>2, <1>3 DEF Numbered
  <2> QED BY <1>2, <2>1, <2>2 DEF Overlay
<1> HIDE DEF n, i, p, last
<1>12. Numbered'
  <2>1. \A k \in Frames : log.frame[k].val <= nWrites
    BY <1>3 DEF Numbered, ValsUpTo
  <2>2. log'.frame[i].val <= nWrites /\ \A j \in DOMAIN log'.frame[i].sum : log'.frame[i].sum[j].val <= nWrites
    BY <1>4, <1>8, <1>11, <2>1
  <2> QED BY <1>3, <1>4, <1>5, <2>2, ValsWith
<1>13. FreshOk(c)'
  <2>1. ASSUME NEW pg \in dirty'[c]
        PROVE  log'.frame[i].val # tx[c][pg] /\ \A j \in DOMAIN log'.frame[i].sum : log'.frame[i].sum[j].val # tx[c][pg]
    <3>1. p \in dirty[c] /\ p # pg /\ pg \in dirty[c]
      BY <1>6, <1>9
    <3>2. tx[c][p] # tx[c][pg] /\ \A k \in Frames : log.frame[k].val # tx[c][pg]
      BY <1>3, <3>1 DEF FreshOk
    <3> QED BY <1>4, <1>8, <1>10, <3>1, <3>2
  <2> QED BY <1>3, <1>4, <1>5, <1>6, <2>1, FreshWith
<1>14. at'[c] \in InFrames /\ at'[c] # "recoverReset" /\ Commits(c)' = last /\ Commits(c) = FALSE
  <2>1. commits[c] \in BOOLEAN
    BY DEF IInv, TypeOK
  <2> QED BY <1>1, <1>6, <2>1 DEF Commits, InFrames, last
<1>15. Top(c)' = i /\ OwnFrames(c)' = live.mxFrame + 1..i /\ OwnFrames(c) = live.mxFrame + 1..n /\ IsWriter(c)'
  BY <1>2, <1>5, <1>6, <1>14 DEF Top, OwnFrames, IsWriter
<1>16. Top(c)' > live'.mxFrame /\ i > 0
  BY <1>2, <1>5, <1>7, <1>15
<1>17. CutOk(c)'
  <2>1. \A k \in i + 1..MaxFrame : k \in Frames \ {i} /\ k \in n + 1..MaxFrame
    BY <1>2, <1>7 DEF Frames
  <2>2. \A k \in i + 1..MaxFrame : log'.frame[k] = log.frame[k]
    BY <1>4, <2>1
  <2>3. CASE n > live.mxFrame
    <3>1. live.mxFrame + 1 \in Frames \ {i}
      BY <1>2, <1>7, <2>3 DEF Frames
    <3>2. log'.frame[live.mxFrame + 1] = log.frame[live.mxFrame + 1]
      BY <1>4, <3>1
    <3>3. \A k \in n + 1..MaxFrame : live.mxFrame + 1 \in DOMAIN log.frame[k].sum =>
             log.frame[k].sum[live.mxFrame + 1] # BodyOf(log.frame[live.mxFrame + 1])
      BY <1>2, <1>3, <2>3 DEF CutOk
    <3> QED BY <1>5, <1>15, <2>1, <2>2, <3>2, <3>3 DEF CutOk
  <2>4. CASE ~(n > live.mxFrame)
    <3>1. n = live.mxFrame
      BY <1>2, <2>4
    <3>2. p \in dirty[c]
      BY <1>2, <1>3, <3>1 DEF CallOk
    <3>3. BodyOf(log'.frame[live.mxFrame + 1]).val = tx[c][p]
      BY <1>4, <1>7, <1>10, <3>1, <3>2 DEF BodyOf
    <3>4. \A k \in Frames : \A j \in DOMAIN log.frame[k].sum : log.frame[k].sum[j].val # tx[c][p]
      BY <1>3, <3>2 DEF FreshOk
    <3> QED BY <1>5, <1>15, <2>1, <2>2, <3>3, <3>4 DEF CutOk
  <2> QED BY <2>3, <2>4
<1>18. MarkedOk(c)'
  <2>1. ASSUME NEW k \in live.mxFrame + 1..i, log'.frame[k].commit PROVE k = i /\ last
    <3>1. CASE k = i
      BY <1>4, <2>1, <3>1
    <3>2. CASE k # i
      <4>1. k \in live.mxFrame + 1..n /\ k \in Frames \ {i}
        BY <1>2, <1>7, <3>2 DEF Frames
      <4>2. log.frame[k].commit
        BY <1>4, <2>1, <4>1
      <4> QED BY <1>3, <1>14, <1>15, <4>1, <4>2 DEF MarkedOk
    <3> QED BY <3>1, <3>2
  <2>2. Overlay(latest, tx[c])' = Overlay(latest, tx[c])
    BY <1>5 DEF Overlay
  <2>3. Commits(c)' => Overlay(latest, tx[c])' \in unreported'
    BY <1>5, <1>14, <2>2
  <2>4. \A k \in OwnFrames(c)' : log'.frame[k].commit => k = Top(c)' /\ Commits(c)'
    BY <1>14, <1>15, <2>1
  <2> QED BY <2>3, <2>4 DEF MarkedOk
<1>19. CallOk(c)'
  <2>1. Top(c)' # live'.mxFrame /\ Top(c)' > 0
    BY <1>2, <1>5, <1>7, <1>15
  <2>2. ASSUME NEW pg \in todo'[c] \ dirty'[c] PROVE FALSE
    <3>1. pg \in todo[c] \ dirty[c] /\ pg # p
      BY <1>6
    <3>2. todo[c] = {pg}
      BY <1>3, <3>1 DEF CallOk
    <3> QED BY <1>2, <3>1, <3>2
  <2> QED BY <1>14, <2>1, <2>2 DEF CallOk
<1> QED BY <1>2, <1>5, <1>12, <1>13, <1>15, <1>16, <1>17, <1>18, <1>19, FrameStep

-----------------------------------------------------------------------------
(* A loss of power, the initial state, and all steps. *)

(* What a loss of power makes of the log has no other numbers. *)
LEMMA TornNumbered ==
    ASSUME TypeOK, Numbered, NEW f \in TornDbs, NEW l \in TornLogs
    PROVE  ValsUpTo(l, nWrites) /\ \A pg \in Pages : f[pg] <= nWrites
<1>1. log \in Log /\ logDisk \in Log
  BY DEF TypeOK
<1>2. nWrites \in Nat /\ Garbage <= nWrites
  <2>1. nWrites \in 0..MaxWrites
    BY DEF TypeOK
  <2>2. nWrites \in Nat
    BY <2>1, BoundsAssumption
  <2> QED BY <2>2 DEF Garbage
<1>3. \A pg \in Pages : f[pg] <= nWrites
  <2> DEFINE changed == {pg \in Pages : db[pg] # dbDisk[pg]}
             torn == [pg \in Pages |-> Garbage]
             Mix(o) == [pg \in Pages |-> IF pg \in changed THEN o[pg][pg] ELSE db[pg]]
  <2>1. \A pg \in Pages : torn[pg] <= nWrites /\ db[pg] <= nWrites /\ dbDisk[pg] <= nWrites
    BY <1>2 DEF Numbered
  <2>2. TornDbs = {Mix(o) : o \in [changed -> {db, dbDisk, torn}]}
    BY DEF TornDbs
  <2> HIDE DEF torn, changed, Mix
  <2>3. PICK o \in [changed -> {db, dbDisk, torn}] : f = Mix(o)
    BY <2>2
  <2>4. \A pg \in changed : o[pg] \in {db, dbDisk, torn}
    BY <2>3
  <2>5. \A pg \in Pages : f[pg] = IF pg \in changed THEN o[pg][pg] ELSE db[pg]
    BY <2>3 DEF Mix
  <2> QED BY <2>1, <2>4, <2>5
<1>4. ValsUpTo(l, nWrites)
  <2> DEFINE changed == {i \in Frames : log.frame[i] # logDisk.frame[i]}
             torn == [i \in Frames |-> [log.frame[i] EXCEPT !.val = Garbage]]
             Mix(o) == [i \in Frames |-> IF i \in changed THEN o[i][i] ELSE log.frame[i]]
             Old(g) == g.val <= nWrites /\ \A j \in DOMAIN g.sum : g.sum[j].val <= nWrites
  <2>1. \A k \in Frames : Old(log.frame[k]) /\ Old(logDisk.frame[k])
    BY DEF Numbered, ValsUpTo
  <2>2. \A k \in Frames : Old(torn[k])
    <3>1. ASSUME NEW k \in Frames PROVE torn[k].val = Garbage /\ torn[k].sum = log.frame[k].sum
      <4>1. log.frame[k] \in Frame
        BY <1>1 DEF Log
      <4> QED BY <4>1 DEF Frame
    <3> HIDE DEF torn
    <3> QED BY <1>2, <2>1, <3>1
  <2>3. TornFrames = IF log.frame = NoLog.frame THEN {log.frame, logDisk.frame}
                     ELSE {Mix(o) : o \in [changed -> {log.frame, logDisk.frame, torn}]}
    BY DEF TornFrames
  <2>4. l.frame \in TornFrames
    BY DEF TornLogs
  <2> HIDE DEF torn, changed, Mix, Old
  <2>5. \A k \in Frames : Old(l.frame[k])
    <3>1. CASE l.frame = log.frame \/ l.frame = logDisk.frame
      BY <2>1, <3>1
    <3>2. CASE \E o \in [changed -> {log.frame, logDisk.frame, torn}] : l.frame = Mix(o)
      <4>1. PICK o \in [changed -> {log.frame, logDisk.frame, torn}] : l.frame = Mix(o)
        BY <3>2
      <4>2. \A k \in changed : o[k] \in {log.frame, logDisk.frame, torn}
        BY <4>1
      <4>3. \A k \in Frames : l.frame[k] = IF k \in changed THEN o[k][k] ELSE log.frame[k]
        BY <4>1 DEF Mix
      <4> QED BY <2>1, <2>2, <4>2, <4>3
    <3> QED BY <2>3, <2>4, <3>1, <3>2
  <2> QED BY <2>5 DEF ValsUpTo, Old
<1> QED BY <1>3, <1>4

(* Power is lost. *)
LEMMA DeathPowerLoss ==
    ASSUME IInv, DeathInv, PowerLoss
    PROVE  DeathInv'
<1>1. PICK f \in TornDbs, l \in TornLogs :
        /\ IndexIsLost
        /\ db' = f /\ dbDisk' = f
        /\ log' = l /\ logDisk' = l
        /\ latest' = Recovered(f, l) /\ reported' = latest' /\ unreported' = {}
  BY DEF PowerLoss
<1>2. live' = NoHdr /\ writer' = None /\ nWrites' = nWrites /\ \A q \in Conns : tx'[q] = Unchanged
  <2>1. writer \in Conns \cup {None}
    BY DEF IInv, TypeOK
  <2> QED BY <1>1, <2>1 DEF IndexIsLost, Forget
<1>3. Numbered'
  <2>1. ValsUpTo(l, nWrites) /\ \A pg \in Pages : f[pg] <= nWrites
    BY TornNumbered DEF IInv, DeathInv
  <2>2. \A pg \in Pages : Unchanged[pg] <= nWrites
    <3>1. nWrites \in 0..MaxWrites
      BY DEF IInv, TypeOK
    <3> QED BY <3>1, BoundsAssumption DEF Unchanged
  <2> QED BY <1>1, <1>2, <2>1, <2>2 DEF Numbered, ValsUpTo
<1>4. Unpublished'
  BY <1>2 DEF Unpublished, NoHdr
<1>5. DeathIsHarmless'
  <2>1. Recovered(db, log)' = Recovered(f, l)
    BY <1>1 DEF Recovered, LastCommit, Accepted, Sum, Content, Find
  <2> QED BY <1>1, <2>1 DEF DeathIsHarmless
<1>6. \A q \in Conns : TransactionOk(q)'
  BY <1>2, BoundsAssumption DEF TransactionOk, IsWriter
<1> QED BY <1>3, <1>4, <1>5, <1>6 DEF DeathInv, Transactions

(* A log of one commit. *)
LEMMA LeftIs ==
    /\ LeftLog.salt = 1 /\ ValsUpTo(LeftLog, 1) /\ LastCommit(LeftLog) = 1
    /\ LeftLog.frame[1].pg = MaxPage /\ LeftLog.frame[1].val = 1
<1> DEFINE b == [pg |-> MaxPage, val |-> 1, commit |-> TRUE]
           f == [salt |-> 1, pg |-> MaxPage, val |-> 1, commit |-> TRUE, sum |-> <<b>>]
<1>1. MaxFrame \in Nat /\ 1 \in Frames /\ \A k \in Frames \ {1} : k > 1
  BY BoundsAssumption DEF Frames
<1>2. LeftLog.salt = 1 /\ LeftLog.frame[1] = f /\ \A k \in Frames \ {1} : LeftLog.frame[k] = NoFrame
  BY <1>1 DEF LeftLog, NoLog
<1>3. NoFrame.salt = 0 /\ NoFrame.val = 0 /\ NoFrame.sum = << >>
  BY DEF NoFrame
<1>4. ValsUpTo(LeftLog, 1)
  <2>1. f.val <= 1 /\ \A j \in DOMAIN f.sum : f.sum[j].val <= 1
    OBVIOUS
  <2>2. NoFrame.val <= 1 /\ \A j \in DOMAIN NoFrame.sum : NoFrame.sum[j].val <= 1
    BY <1>3
  <2> HIDE DEF f
  <2> QED BY <1>2, <2>1, <2>2 DEF ValsUpTo
<1>5. Accepted(LeftLog, 1) /\ LeftLog.frame[1].commit
  <2>1. Sum(LeftLog, 1) = <<b>>
    <3>1. BodyOf(f) = b
      BY DEF BodyOf
    <3>2. Sum(LeftLog, 1) = [k \in 1..1 |-> b]
      BY <1>2, <3>1 DEF Sum
    <3> HIDE DEF b, f
    <3>3. <<b>> = [k \in 1..1 |-> b]
      OBVIOUS
    <3> QED BY <3>2, <3>3
  <2>2. f.salt = 1 /\ f.sum = <<b>> /\ f.commit = TRUE
    OBVIOUS
  <2>3. f.commit
    BY <2>2, Zenon
  <2> HIDE DEF f
  <2>4. LeftLog.frame[1].salt = LeftLog.salt /\ LeftLog.salt # 0 /\ LeftLog.frame[1].sum = Sum(LeftLog, 1)
    BY <1>2, <2>1, <2>2
  <2>5. \A k \in 1..1 : k = 1
    OBVIOUS
  <2>6. Accepted(LeftLog, 1)
    BY <2>4, <2>5 DEF Accepted
  <2>7. LeftLog.frame[1].commit
    BY <1>2, <2>3, Zenon
  <2> QED BY <2>6, <2>7
<1>6. LastCommit(LeftLog) = 1
  <2> DEFINE j == LastCommit(LeftLog)
  <2>1. /\ j \in 0..MaxFrame /\ (j # 0 => Accepted(LeftLog, j)) /\ 1 <= j
    BY <1>1, <1>5, LastCommitIs
  <2>2. j > 1 => j \in Frames \ {1} /\ j \in 1..j
    BY <1>1, <2>1 DEF Frames
  <2>3. j > 1 => LeftLog.frame[j].salt = LeftLog.salt
    BY <2>1, <2>2 DEF Accepted
  <2> HIDE DEF j
  <2>4. j = 1
    BY <1>1, <1>2, <1>3, <2>1, <2>2, <2>3
  <2> QED BY <2>4 DEF j
<1>7. f.pg = MaxPage /\ f.val = 1
  OBVIOUS
<1> QED BY <1>2, <1>4, <1>6, <1>7

(* The initial state, with a log that an earlier process left. *)
LEMMA DeathInit ==
    ASSUME Init
    PROVE  DeathInv
<1>1. /\ db = EmptyDb /\ dbDisk = EmptyDb /\ log \in {NoLog, LeftLog} /\ logDisk = log /\ live = NoHdr
      /\ writer = None /\ nWrites = log.salt /\ tx = [c \in Conns |-> Unchanged]
      /\ latest = [pg \in Pages |-> IF pg = log.frame[1].pg THEN 1 ELSE 0]
  BY DEF Init
<1>2. NoLog.salt = 0 /\ 1 \in Frames /\ NoLog.frame[1].pg = 0
  BY BoundsAssumption DEF NoLog, NoFrame, Frames
<1>3. Numbered
  <2>1. ValsUpTo(log, nWrites) /\ nWrites \in Nat
    BY <1>1, <1>2, LeftIs, EmptyLog
  <2> QED BY <1>1, <2>1 DEF Numbered, EmptyDb, Unchanged
<1>4. Unpublished
  BY <1>1 DEF Unpublished
<1>5. DeathIsHarmless
  <2>1. CASE log = NoLog
    <3>1. LastCommit(log) = 0
      BY <2>1, EmptyLog
    <3>2. \A pg \in Pages : Find(log, pg, 1, 0) = 0
      <4>1. 0 \in Nat /\ 1 \in Nat \ {0} /\ 1..0 = {}
        OBVIOUS
      <4> QED BY <4>1, FindIs DEF IsLastOf
    <3>3. \A pg \in Pages : Content(db, log, pg, 1, 0) = 0 /\ pg # 0
      BY <1>1, <3>2 DEF Content, EmptyDb, Pages
    <3>4. Recovered(db, log) = latest
      BY <1>1, <1>2, <2>1, <3>1, <3>3 DEF Recovered
    <3> QED BY <3>4 DEF DeathIsHarmless
  <2>2. CASE log = LeftLog
    <3>1. LastCommit(log) = 1 /\ log.frame[1].pg = MaxPage /\ log.frame[1].val = 1
      BY <2>2, LeftIs
    <3>2. \A pg \in Pages : Find(log, pg, 1, 1) = IF pg = MaxPage THEN 1 ELSE 0
      <4>1. 1 \in Nat /\ 1 \in Nat \ {0}
        OBVIOUS
      <4>2. \A pg \in Pages : IsLastOf(Find(log, pg, 1, 1), log, pg, 1, 1)
        BY <4>1, FindIs
      <4> QED BY <3>1, <4>2 DEF IsLastOf
    <3>3. \A pg \in Pages : Content(db, log, pg, 1, 1) = IF pg = MaxPage THEN 1 ELSE 0
      BY <1>1, <3>1, <3>2 DEF Content, EmptyDb
    <3>4. Recovered(db, log) = latest
      BY <1>1, <3>1, <3>3 DEF Recovered
    <3> QED BY <3>4 DEF DeathIsHarmless
  <2> QED BY <1>1, <2>1, <2>2
<1>6. Transactions
  BY <1>1, BoundsAssumption DEF Transactions, TransactionOk, IsWriter
<1> QED BY <1>3, <1>4, <1>5, <1>6 DEF DeathInv

LEMMA DeathStutter ==
    ASSUME IInv, DeathInv, UNCHANGED vars
    PROVE  DeathInv'
<1>1. UNCHANGED <<db, dbDisk, log, logDisk, live, writer, at, hdr, dirty, todo, iFrame, commits, mode, nWrites, tx,
                  latest, unreported>>
  BY DEF vars, files, index, locks, writing, checkpointing, ghosts
<1>2. Numbered'
  BY <1>1, NumberedStill DEF IInv, DeathInv
<1>3. Unpublished' /\ DeathIsHarmless'
  BY <1>1, FilesStill DEF DeathInv
<1>4. \A q \in Conns : TransactionOk(q)'
  <2>1. \A q \in Conns : (IsWriter(q)' <=> IsWriter(q)) /\ Top(q)' = Top(q) /\ Commits(q)' = Commits(q)
    BY <1>1 DEF IsWriter, Top, Commits
  <2> QED BY <1>1, <2>1, TransactionStill DEF DeathInv, Transactions
<1> QED BY <1>2, <1>3, <1>4 DEF DeathInv, Transactions

(* The steps of readers, of the writer, of checkpoints. *)
LEMMA DeathRead ==
    ASSUME IInv, DeathInv, NEW c \in Conns, Read(c)
    PROVE  DeathInv'
BY DeathReadHdr, DeathRecoverHdr, DeathRecoverReset, DeathChoose, DeathMark, DeathLockSlot, DeathVerify,
   DeathEndRead DEF Read

LEMMA DeathWrite ==
    ASSUME IInv, IInv', DeathInv, NEW c \in Conns, Write(c)
    PROVE  DeathInv'
<1>1. CASE Publish(c)
  BY <1>1, DeathSpilled, DeathPublish
<1>2. CASE ~Publish(c)
  BY <1>2, DeathBeginWrite, DeathCommit, DeathRestart, DeathRestartIndex, DeathKeepLog, DeathWalHdr, DeathSyncHdr,
     DeathOverwrite, DeathAppendFrame, DeathRewriteChecksum, DeathSyncLog, DeathRollback, DeathChange, DeathSpill
     DEF Write
<1> QED BY <1>1, <1>2

LEMMA DeathBackfill ==
    ASSUME IInv, IInv', DeathInv, NEW c \in Conns, Backfill(c)
    PROVE  DeathInv'
BY DeathCkptSafe, DeathCkptNothing, DeathCkptLock, DeathCkptSkip, DeathCkptCopy, DeathCkptDone, DeathCkptRestart,
   DeathTruncate, DeathCkptEnd, DeathCheckpoint DEF Backfill

LEMMA DeathNext ==
    ASSUME IInv, IInv', DeathInv, Next
    PROVE  DeathInv'
<1>1. CASE \E c \in Conns : Read(c) \/ Write(c) \/ Backfill(c) \/ Die(c)
  BY <1>1, DeathRead, DeathWrite, DeathBackfill, DeathDie
<1> QED BY <1>1, DeathAllDie, DeathPowerLoss DEF Next

(* Processes that are killed anywhere but inside walRestartHdr() (lines       *)
(* 69676-69684) leave a log and a database file of which walIndexRecover()    *)
(* makes the last commit, or that of the writer whose call had written its    *)
(* commit frame.  A process killed between the stores of walRestartHdr()      *)
(* leaves a stale nBackfill, which a process that goes on uses: the code      *)
(* allows that, and of those behaviours the theorem says nothing.             *)
THEOREM DeathsAreHarmless == Spec /\ RestartsAreWhole => []DeathIsHarmless
<1>1. Init => DeathInv
  BY DeathInit
<1>2. IInv /\ IInv' /\ DeathInv /\ [Next]_vars => DeathInv'
  BY DeathNext, DeathStutter
<1>3. DeathInv => DeathIsHarmless
  BY DEF DeathInv
<1> QED BY <1>1, <1>2, <1>3, Inductive, PTL DEF Spec

-----------------------------------------------------------------------------
(* Losses of power: what recovery accepts of frames old, new and torn. *)

(* A commit that recovery accepts among frames old and new. *)
MixedCommit(l, salt, m) ==
    /\ salt \in Salts /\ m \in Frames /\ Accepts(l, salt, m) /\ l.frame[m].commit
    /\ \A k \in 1..m : l.frame[k] \in {log.frame[k], logDisk.frame[k]}
AnyKnown(b) == \A l, salt, m : MixedCommit(l, salt, m) /\ m >= b => DbAt(db, l, m) \in Kept

(* Frames alike are accepted alike, and hold the same database. *)
LEMMA AcceptsSame ==
    ASSUME NEW l, NEW m, NEW n \in Nat, SameFrames(l, m, n), NEW s
    PROVE  Accepts(m, s, n) = Accepts(l, s, n)
<1>1. \A k \in 1..n : Sum(m, k) = Sum(l, k) /\ m.frame[k] = l.frame[k]
  BY SumSame DEF SameFrames
<1> QED BY <1>1 DEF Accepts

LEMMA DbSame ==
    ASSUME NEW f, NEW l, NEW m, NEW n \in Nat, SameFrames(l, m, n)
    PROVE  DbAt(f, m, n) = DbAt(f, l, n)
<1>1. \A pg \in Pages : Content(f, m, pg, 1, n) = Content(f, l, pg, 1, n)
  BY ContentSame
<1> QED BY <1>1 DEF DbAt

(* The log with some frames as in memory and the others as on disk. *)
LEMMA MixIs ==
    ASSUME NEW S \in SUBSET Frames, NEW k \in Frames
    PROVE  Mixed(S).frame[k] = IF k \in S THEN log.frame[k] ELSE logDisk.frame[k]
BY DEF Mixed

(* Known speaks of each such commit, whichever way its frames are given. *)
LEMMA KnownIs ==
    ASSUME NEW b
    PROVE  Known(b) <=> AnyKnown(b)
<1>1. ASSUME Known(b), NEW l, NEW salt, NEW m, MixedCommit(l, salt, m), m >= b
      PROVE  DbAt(db, l, m) \in Kept
  <2> DEFINE S == {k \in 1..m : l.frame[k] = log.frame[k]}
  <2>1. m \in Nat /\ m \in Frames /\ S \in SUBSET Frames
    BY <1>1, FrameNumbers DEF MixedCommit, Frames
  <2>2. SameFrames(l, Mixed(S), m)
    <3>1. SUFFICES ASSUME NEW k \in 1..m PROVE Mixed(S).frame[k] = l.frame[k]
      BY DEF SameFrames
    <3>2. k \in Frames
      BY <2>1, FrameNumbers
    <3>3. l.frame[k] \in {log.frame[k], logDisk.frame[k]}
      BY <1>1 DEF MixedCommit
    <3> QED BY <2>1, <3>2, <3>3, MixIs
  <2>3. Accepts(Mixed(S), salt, m) /\ DbAt(db, Mixed(S), m) = DbAt(db, l, m)
    BY <1>1, <2>1, <2>2, AcceptsSame, DbSame DEF MixedCommit
  <2>4. Mixed(S).frame[m] = l.frame[m]
    BY <2>1, <2>2, FrameNumbers DEF SameFrames
  <2> HIDE DEF S
  <2> QED BY <1>1, <2>1, <2>3, <2>4 DEF Known, MixedCommit
<1>2. ASSUME AnyKnown(b), NEW S \in SUBSET Frames, NEW salt \in Salts, NEW m \in Frames,
             m >= b, Accepts(Mixed(S), salt, m), Mixed(S).frame[m].commit
      PROVE  DbAt(db, Mixed(S), m) \in Kept
  <2>1. \A k \in 1..m : Mixed(S).frame[k] \in {log.frame[k], logDisk.frame[k]}
    BY MixIs, FrameNumbers
  <2>2. MixedCommit(Mixed(S), salt, m)
    BY <1>2, <2>1 DEF MixedCommit
  <2> QED BY <1>2, <2>2 DEF AnyKnown
<1>3. Known(b) => AnyKnown(b)
  BY <1>1 DEF AnyKnown
<1>4. AnyKnown(b) => Known(b)
  BY <1>2 DEF Known
<1> QED BY <1>3, <1>4

KnownWell == \A b : Known(b) <=> AnyKnown(b)

(* The same of the next state. *)
LEMMA KnownNext == KnownWell'
<1>1. KnownWell
  BY KnownIs DEF KnownWell
<1> QED BY <1>1, PTL

-----------------------------------------------------------------------------
(* A frame after a loss of power: as in memory, as on disk, or torn. *)
LEMMA TornFrameIs ==
    ASSUME NEW l \in TornLogs
    PROVE  /\ l.salt \in {log.salt, logDisk.salt, 0} /\ (log.salt = logDisk.salt => l.salt = log.salt)
           /\ log.frame = NoLog.frame => l.frame \in {log.frame, logDisk.frame}
           /\ log.frame # NoLog.frame => \A k \in Frames :
                 \/ l.frame[k] = log.frame[k]
                 \/ /\ log.frame[k] # logDisk.frame[k]
                    /\ l.frame[k] \in {logDisk.frame[k], [log.frame[k] EXCEPT !.val = Garbage]}
<1>1. l.salt \in TornSalts /\ l.frame \in TornFrames
  BY DEF TornLogs
<1>2. l.salt \in {log.salt, logDisk.salt, 0} /\ (log.salt = logDisk.salt => l.salt = log.salt)
  BY <1>1 DEF TornSalts
<1>3. log.frame = NoLog.frame => l.frame \in {log.frame, logDisk.frame}
  BY <1>1 DEF TornFrames
<1>4. ASSUME log.frame # NoLog.frame, NEW k \in Frames
      PROVE  \/ l.frame[k] = log.frame[k]
             \/ /\ log.frame[k] # logDisk.frame[k]
                /\ l.frame[k] \in {logDisk.frame[k], [log.frame[k] EXCEPT !.val = Garbage]}
  <2> DEFINE changed == {i \in Frames : log.frame[i] # logDisk.frame[i]}
             torn == [i \in Frames |-> [log.frame[i] EXCEPT !.val = Garbage]]
  <2>1. PICK o \in [changed -> {log.frame, logDisk.frame, torn}] :
           l.frame = [i \in Frames |-> IF i \in changed THEN o[i][i] ELSE log.frame[i]]
    BY <1>1, <1>4 DEF TornFrames
  <2>2. l.frame[k] = IF k \in changed THEN o[k][k] ELSE log.frame[k]
    BY <2>1
  <2>3. k \in changed => o[k] \in {log.frame, logDisk.frame, torn}
    BY <2>1
  <2>4. torn[k] = [log.frame[k] EXCEPT !.val = Garbage]
    OBVIOUS
  <2>5. k \in changed => log.frame[k] # logDisk.frame[k]
    OBVIOUS
  <2> HIDE DEF changed, torn
  <2> QED BY <2>2, <2>3, <2>4, <2>5
<1> QED BY <1>2, <1>3, <1>4

(* A page that was synced is not torn. *)
LEMMA TornDbIs ==
    ASSUME NEW f \in TornDbs
    PROVE  \A pg \in Pages : db[pg] = dbDisk[pg] => f[pg] = db[pg]
BY DEF TornDbs

(* An empty frame ends the log. *)
LEMMA NothingAccepted ==
    ASSUME NEW l, NEW s, NEW m \in Frames, NEW k \in 1..m, l.frame[k] = NoFrame
    PROVE  ~Accepts(l, s, m)
<1>1. SUFFICES ASSUME Accepts(l, s, m) PROVE FALSE
  OBVIOUS
<1>2. m \in Nat /\ k \in Nat /\ 1 <= k
  BY FrameNumbers
<1>3. l.frame[k].sum = Sum(l, k) /\ l.frame[k].sum = << >>
  BY <1>1 DEF Accepts, NoFrame
<1>4. 1 \in DOMAIN Sum(l, k)
  BY <1>2 DEF Sum
<1> QED BY <1>3, <1>4

(* walDecodeFrame() accepts no torn frame, nor one behind it. *)
LEMMA UntornFrames ==
    ASSUME TypeOK, CleanSums(log), CleanSums(logDisk), NEW l \in TornLogs,
           NEW s, NEW m \in Frames, Accepts(l, s, m)
    PROVE  \A k \in 1..m : /\ l.frame[k] \in {log.frame[k], logDisk.frame[k]}
                           /\ log.frame[k] = logDisk.frame[k] => l.frame[k] = log.frame[k]
<1>1. SUFFICES ASSUME NEW k \in 1..m
               PROVE  /\ l.frame[k] \in {log.frame[k], logDisk.frame[k]}
                      /\ log.frame[k] = logDisk.frame[k] => l.frame[k] = log.frame[k]
  OBVIOUS
<1>2. k \in Frames /\ k \in Nat /\ 1 <= k
  BY FrameNumbers
<1>3. CASE log.frame = NoLog.frame
  BY <1>3, TornFrameIs
<1>4. CASE log.frame # NoLog.frame
  <2>1. \/ l.frame[k] = log.frame[k]
        \/ /\ log.frame[k] # logDisk.frame[k]
           /\ l.frame[k] \in {logDisk.frame[k], [log.frame[k] EXCEPT !.val = Garbage]}
    BY <1>2, <1>4, TornFrameIs
  <2>2. ASSUME l.frame[k] = [log.frame[k] EXCEPT !.val = Garbage] PROVE FALSE
    <3>1. log.frame[k] \in Frame
      BY <1>2 DEF TypeOK, Log
    <3>2. l.frame[k].val = Garbage /\ l.frame[k].sum = log.frame[k].sum
      BY <2>2, <3>1 DEF Frame
    <3>3. l.frame[k].sum = Sum(l, k)
      BY DEF Accepts
    <3>4. k \in DOMAIN Sum(l, k) /\ Sum(l, k)[k].val = l.frame[k].val
      BY <1>2 DEF Sum, BodyOf
    <3> QED BY <1>2, <3>2, <3>3, <3>4 DEF CleanSums
  <2> QED BY <2>1, <2>2
<1> QED BY <1>3, <1>4

-----------------------------------------------------------------------------
(* The durable commit, or a later one, is what recovery finds. *)

(* The frames of the durable commit are accepted still. *)
LEMMA TornAtLeast ==
    ASSUME TypeOK, NoGarbage, NEW b \in 0..MaxFrame, b > 0, Synced(b), NEW l \in TornLogs, NEW m \in Frames,
           Accepts(l, l.salt, m), \A i \in Frames : Accepts(l, l.salt, i) /\ l.frame[i].commit => i <= m
    PROVE  m >= b /\ \A k \in 1..b : l.frame[k] = logDisk.frame[k]
<1>1. /\ Accepts(logDisk, logDisk.salt, b) /\ logDisk.frame[b].commit
      /\ log.frame # NoLog.frame => \A k \in 1..b : log.frame[k] = logDisk.frame[k]
  BY DEF Synced
<1>2. b \in Nat /\ m \in Nat /\ 1 <= m /\ m <= MaxFrame /\ MaxFrame \in Nat /\ b \in Frames /\ b <= MaxFrame
  BY FrameNumbers
<1>3. \A k \in 1..m : /\ l.frame[k] \in {log.frame[k], logDisk.frame[k]}
                      /\ log.frame[k] = logDisk.frame[k] => l.frame[k] = log.frame[k]
  BY UntornFrames DEF NoGarbage
<1>4. ASSUME log.frame = NoLog.frame PROVE l.frame = logDisk.frame
  <2>1. l.frame \in {log.frame, logDisk.frame}
    BY <1>4, TornFrameIs
  <2>2. ASSUME l.frame = log.frame PROVE FALSE
    <3>1. l.frame[1] = NoFrame /\ 1 \in 1..m
      BY <1>2, <1>4, <2>2, FrameNumbers DEF NoLog
    <3> QED BY <3>1, NothingAccepted
  <2> QED BY <2>1, <2>2
<1>5. ASSUME log.frame # NoLog.frame, NEW k \in 1..b PROVE l.frame[k] = logDisk.frame[k]
  <2>1. k \in Frames /\ log.frame[k] = logDisk.frame[k]
    BY <1>1, <1>2, <1>5, FrameNumbers
  <2> QED BY <1>5, <2>1, TornFrameIs
<1>6. \A k \in 1..b : l.frame[k] = logDisk.frame[k]
  BY <1>4, <1>5
<1>7. l.salt = logDisk.salt
  <2>1. 1 \in 1..b /\ 1 \in 1..m
    BY <1>2
  <2>2. l.frame[1].salt = l.salt /\ logDisk.frame[1].salt = logDisk.salt
    BY <1>1, <2>1 DEF Accepts
  <2> QED BY <1>6, <2>1, <2>2
<1>8. Accepts(l, l.salt, b)
  <2>1. SameFrames(logDisk, l, b)
    BY <1>6 DEF SameFrames
  <2> QED BY <1>1, <1>2, <1>7, <2>1, AcceptsSame
<1>9. b \in 1..b /\ l.frame[b].commit
  BY <1>1, <1>2, <1>6
<1> QED BY <1>2, <1>6, <1>8, <1>9

(* Recovery finds no commit only where the database file does without. *)
LEMMA TornAllGone ==
    ASSUME TypeOK, NoGarbage, NEW b \in 0..MaxFrame, Synced(b), NEW l \in TornLogs,
           \A i \in Frames : ~(Accepts(l, l.salt, i) /\ l.frame[i].commit)
    PROVE  Bare(b)
<1>1. SUFFICES ASSUME b # 0, log.salt = logDisk.salt, log.frame # NoLog.frame PROVE FALSE
  BY DEF Bare
<1>2. /\ Accepts(logDisk, logDisk.salt, b) /\ logDisk.frame[b].commit
      /\ \A k \in 1..b : log.frame[k] = logDisk.frame[k]
  BY <1>1 DEF Synced
<1>3. b \in Frames /\ b \in Nat /\ b \in 1..b
  BY <1>1, FrameNumbers
<1>4. l.salt = logDisk.salt
  BY <1>1, TornFrameIs
<1>5. \A k \in 1..b : l.frame[k] = logDisk.frame[k]
  <2>1. SUFFICES ASSUME NEW k \in 1..b PROVE l.frame[k] = logDisk.frame[k]
    OBVIOUS
  <2>2. k \in Frames /\ log.frame[k] = logDisk.frame[k]
    BY <1>2, <1>3, FrameNumbers
  <2> QED BY <1>1, <2>2, TornFrameIs
<1>6. Accepts(l, l.salt, b)
  <2>1. SameFrames(logDisk, l, b)
    BY <1>5 DEF SameFrames
  <2> QED BY <1>2, <1>3, <1>4, <2>1, AcceptsSame
<1> QED BY <1>2, <1>3, <1>5, <1>6

(* What walIndexRecover() makes of what a loss of power leaves. *)
LEMMA TornRecovers ==
    ASSUME TypeOK, NoGarbage, NEW b \in 0..MaxFrame, Synced(b), Covered(b), Known(b), Alone(b),
           NEW f \in TornDbs, NEW l \in TornLogs
    PROVE  Recovered(f, l) \in Kept
<1> DEFINE m == LastCommit(l)
<1>1. /\ m \in 0..MaxFrame
      /\ m # 0 => Accepts(l, l.salt, m) /\ l.frame[m].commit
      /\ \A i \in Frames : Accepts(l, l.salt, i) /\ l.frame[i].commit => i <= m
  BY LastCommitIs, AcceptedIs
<1>2. Recovered(f, l) = DbAt(f, l, m)
  BY DEF Recovered, DbAt
<1>3. f \in [Pages -> Contents] /\ db \in [Pages -> Contents] /\ dbDisk \in [Pages -> Contents]
  BY TornTyped DEF TypeOK
<1>4. \A pg \in Pages : db[pg] = dbDisk[pg] => f[pg] = db[pg]
  BY TornDbIs
<1> HIDE DEF m
<1>5. CASE m = 0
  <2>1. \A i \in Frames : ~(Accepts(l, l.salt, i) /\ l.frame[i].commit)
    BY <1>1, <1>5, FrameNumbers
  <2>2. db = dbDisk /\ db \in Kept
    BY <2>1, TornAllGone DEF Alone
  <2>3. DbAt(f, l, 0) = f
    <3>1. \A pg \in Pages : Find(l, pg, 1, 0) = 0
      BY FindIs DEF IsLastOf
    <3> QED BY <1>3, <3>1 DEF DbAt, Content
  <2>4. f = db
    BY <1>3, <1>4, <2>2
  <2> QED BY <1>2, <1>5, <2>2, <2>3, <2>4
<1>6. CASE m # 0
  <2>1. m \in Frames /\ m \in Nat /\ m <= MaxFrame /\ MaxFrame \in Nat
    BY <1>1, <1>6, FrameNumbers
  <2>2. b > 0 => m >= b /\ \A k \in 1..b : l.frame[k] = logDisk.frame[k]
    BY <1>1, <1>6, <2>1, TornAtLeast
  <2>3. m >= b
    BY <2>1, <2>2
  <2>4. MixedCommit(l, l.salt, m)
    <3>1. \A k \in 1..m : l.frame[k] \in {log.frame[k], logDisk.frame[k]}
      BY <1>1, <1>6, <2>1, UntornFrames DEF NoGarbage
    <3>2. l.salt # 0
      <4>1. 1 \in 1..m
        BY <2>1, <1>6
      <4> QED BY <1>1, <1>6, <4>1 DEF Accepts
    <3>3. l.salt \in Salts
      BY <3>2, TornFrameIs DEF Salts
    <3> QED BY <1>1, <1>6, <2>1, <3>1, <3>3 DEF MixedCommit
  <2>5. DbAt(db, l, m) \in Kept
    BY <2>3, <2>4, KnownIs DEF AnyKnown
  <2>6. ASSUME NEW pg \in Pages PROVE Content(f, l, pg, 1, m) = Content(db, l, pg, 1, m)
    <3>1. CASE db[pg] = dbDisk[pg]
      BY <1>4, <3>1 DEF Content
    <3>2. CASE db[pg] # dbDisk[pg]
      <4>1. Find(logDisk, pg, 1, b) > 0
        BY <3>2 DEF Covered
      <4>2. b \in Nat
        OBVIOUS
      <4>3. Find(logDisk, pg, 1, b) \in 1..b /\ logDisk.frame[Find(logDisk, pg, 1, b)].pg = pg
        BY <4>1, <4>2, FindIs DEF IsLastOf
      <4>4. l.frame[Find(logDisk, pg, 1, b)].pg = pg /\ Find(logDisk, pg, 1, b) \in 1..m
        BY <2>1, <2>2, <2>3, <4>2, <4>3
      <4>5. Find(l, pg, 1, m) # 0
        BY <2>1, <4>4, FindIs DEF IsLastOf
      <4> QED BY <4>5 DEF Content
    <3> QED BY <3>1, <3>2
  <2>7. DbAt(f, l, m) = DbAt(db, l, m)
    BY <2>6 DEF DbAt
  <2> QED BY <1>2, <2>5, <2>7
<1> QED BY <1>5, <1>6

(* So PowerInv is enough. *)
LEMMA PowerHarmless ==
    ASSUME TypeOK, PowerInv
    PROVE  PowerLossIsHarmless
<1>1. PICK b \in 0..MaxFrame : Durable(b)
  BY DEF PowerInv
<1>2. NoGarbage /\ Synced(b) /\ Covered(b) /\ Known(b) /\ Alone(b)
  BY <1>1 DEF PowerInv, Durable
<1>3. \A f \in TornDbs, l \in TornLogs : Recovered(f, l) \in Kept
  BY <1>2, TornRecovers
<1> QED BY <1>3 DEF PowerLossIsHarmless, Kept

StillFiles == UNCHANGED <<db, dbDisk, log, logDisk, live, latest, reported, unreported>>
StillLogs == UNCHANGED <<log, logDisk, live>>

(* What a writer does that writes no frame. *)
Stay(q) ==
    IsWriter(q)' =>
        /\ IsWriter(q) /\ dirty'[q] \subseteq dirty[q] /\ tx'[q] = tx[q] /\ reCksum'[q] = reCksum[q]
        /\ Top(q)' = Top(q) /\ Commits(q)' = Commits(q)
        /\ at'[q] = "publish" /\ commits'[q] => at[q] = "publish" /\ commits[q]
        /\ at'[q] = "syncHdr" => at[q] = "syncHdr"
        /\ at'[q] \in InFrames \/ hdr'[q].mxFrame > 0 => at[q] \in InFrames \/ hdr[q].mxFrame > 0

-----------------------------------------------------------------------------
(* Losses of power: steps that leave the files. *)

(* One whose state no step changes. *)
LEMMA OtherStays ==
    ASSUME NEW q, Same(q)
    PROVE  Stay(q) /\ (Copying(q)' => Copying(q) /\ mxSafe'[q] = mxSafe[q])
<1>1. IsWriter(q)' => IsWriter(q)
  BY DEF IsWriter, Same
<1>2. Top(q)' = Top(q) /\ Commits(q)' = Commits(q)
  BY DEF Same, Top, Commits
<1> QED BY <1>1, <1>2 DEF Stay, Same, Copying

(* What is said of the transaction of one that stays where it is. *)
LEMMA DiskStill ==
    ASSUME NEW q, DiskOk(q), Stay(q), StillLogs
    PROVE  DiskOk(q)'
<1>1. SUFFICES ASSUME IsWriter(q)'
               PROVE  (/\ CleanTx(q) /\ FreshDisk(q) /\ CutDisk(q) /\ Unfinished(q)
                       /\ at[q] = "publish" /\ commits[q] => logDisk = log)'
  BY DEF DiskOk
<1>2. /\ CleanTx(q) /\ FreshDisk(q) /\ CutDisk(q) /\ Unfinished(q)
      /\ at[q] = "publish" /\ commits[q] => logDisk = log
  BY <1>1 DEF DiskOk, Stay
<1>3. /\ dirty'[q] \subseteq dirty[q] /\ tx'[q] = tx[q] /\ reCksum'[q] = reCksum[q]
      /\ Top(q)' = Top(q) /\ Commits(q)' = Commits(q)
      /\ at'[q] = "publish" /\ commits'[q] => at[q] = "publish" /\ commits[q]
  BY <1>1 DEF Stay
<1>4. CleanTx(q)'
  <2>1. OwnFrames(q)' = OwnFrames(q)
    BY <1>3 DEF OwnFrames, StillLogs
  <2> QED BY <1>2, <1>3, <2>1 DEF CleanTx, StillLogs
<1>5. FreshDisk(q)'
  BY <1>2, <1>3 DEF FreshDisk, StillLogs
<1>6. CutDisk(q)'
  <2>1. \A k : Sum(log, k)' = Sum(log, k)
    BY DEF Sum, BodyOf, StillLogs
  <2>2. \A i : BodyOf(log.frame[i])' = BodyOf(log.frame[i])
    BY DEF BodyOf, StillLogs
  <2> QED BY <1>2, <1>3, <2>1, <2>2 DEF CutDisk, StillLogs
<1>7. Unfinished(q)'
  BY <1>2, <1>3 DEF Unfinished, StillLogs
<1>8. (at[q] = "publish" /\ commits[q] => logDisk = log)'
  BY <1>2, <1>3 DEF StillLogs
<1> QED BY <1>4, <1>5, <1>6, <1>7, <1>8

LEMMA FollowsStill ==
    ASSUME NEW b, NEW q, Follows(b, q), Stay(q), StillLogs,
           Copying(q)' => Copying(q) /\ mxSafe'[q] = mxSafe[q]
    PROVE  Follows(b, q)'
<1>1. Headed' = Headed
  BY DEF Headed, StillLogs, NoLog
<1> QED BY <1>1 DEF Follows, Stay, StillLogs

(* The log and its commits stay. *)
LEMMA KnownStill ==
    ASSUME NEW b, Known(b), UNCHANGED <<db, log, logDisk>>, Salts' \subseteq Salts, Kept \subseteq Kept'
    PROVE  Known(b)'
<1>1. ASSUME NEW l, NEW salt, NEW m, MixedCommit(l, salt, m)' PROVE MixedCommit(l, salt, m)
  BY <1>1 DEF MixedCommit
<1>2. \A l, m : DbAt(db, l, m)' = DbAt(db, l, m)
  BY DEF DbAt, Content
<1>3. AnyKnown(b)
  BY KnownIs
<1>4. AnyKnown(b)'
  BY <1>1, <1>2, <1>3 DEF AnyKnown
<1> QED BY <1>4, KnownNext DEF KnownWell

LEMMA GarbageStill ==
    ASSUME NoGarbage, UNCHANGED <<log, logDisk, latest, reported, unreported>>
    PROVE  NoGarbage'
BY DEF NoGarbage, CleanSums, Kept

(* The durable commit stays durable. *)
LEMMA DurableStill ==
    ASSUME NEW b, Durable(b), StillFiles, \A q \in Conns : Follows(b, q)'
    PROVE  Durable(b)'
<1>1. Synced(b)'
  BY DEF Durable, Synced, StillFiles, Accepts, Sum, BodyOf, NoLog
<1>2. Covered(b)'
  BY DEF Durable, Covered, StillFiles, Find
<1>3. Salts' = Salts /\ Kept' = Kept
  BY DEF StillFiles, Salts, Kept
<1>4. Known(b)'
  BY <1>3, KnownStill DEF Durable, StillFiles
<1>5. Alone(b)'
  BY DEF Durable, Alone, Bare, StillFiles, Kept, NoLog, NoHdr
<1>6. Fits(b)'
  BY DEF Durable, Fits, StillFiles, NoLog, NoHdr
<1> QED BY <1>1, <1>2, <1>4, <1>5, <1>6 DEF Durable

(* Those who do not step. *)
LEMMA OthersDisks ==
    ASSUME Disks, NEW c \in Conns, Others(c), StillLogs, DiskOk(c)'
    PROVE  Disks'
<1>1. \A q \in Conns \ {c} : DiskOk(q)'
  BY OtherStays, DiskStill DEF Disks, Others
<1> QED BY <1>1 DEF Disks

LEMMA OthersFollow ==
    ASSUME NEW b, Durable(b), NEW c \in Conns, Others(c), StillLogs, Follows(b, c)'
    PROVE  \A q \in Conns : Follows(b, q)'
<1>1. \A q \in Conns \ {c} : Follows(b, q)'
  BY OtherStays, FollowsStill DEF Durable, Fits, Others
<1> QED BY <1>1

(* A step that leaves the files. *)
LEMMA PowerStill ==
    ASSUME PowerInv, NEW c \in Conns, Others(c), StillFiles, Stay(c), ~Copying(c)',
           \/ nBackfill' = nBackfill
           \/ live # NoHdr /\ live.mxFrame = 0
           \/ nBackfill' # live.mxFrame
    PROVE  PowerInv'
<1>1. StillLogs
  BY DEF StillFiles, StillLogs
<1>2. NoGarbage'
  BY GarbageStill DEF PowerInv, StillFiles
<1>3. Disks'
  BY <1>1, DiskStill, OthersDisks DEF PowerInv, Disks
<1>4. PICK b \in 0..MaxFrame : Durable(b)
  BY DEF PowerInv
<1>5. Follows(b, c)'
  BY <1>1, <1>4, FollowsStill DEF Durable, Fits
<1>6. Durable(b)'
  BY <1>1, <1>4, <1>5, OthersFollow, DurableStill
<1>7. Done'
  <2>1. CASE nBackfill' = nBackfill
    BY <2>1 DEF PowerInv, Done, StillFiles, NoHdr
  <2>2. CASE live # NoHdr /\ live.mxFrame = 0
    BY <1>4, <2>2 DEF Durable, Alone, Bare, Done, StillFiles, NoHdr
  <2>3. CASE nBackfill' # live.mxFrame
    BY <2>3 DEF Done, StillFiles
  <2> QED BY <2>1, <2>2, <2>3
<1>8. \E d \in 0..MaxFrame : Durable(d)'
  BY <1>4, <1>6
<1> QED BY <1>2, <1>3, <1>7, <1>8 DEF PowerInv

SameBackfill == nBackfill' = nBackfill \/ (nBackfill' = 0 /\ live # NoHdr)

LEMMA PowerStays ==
    ASSUME PowerInv, NEW c \in Conns, Others(c), StillFiles, Stay(c), ~Copying(c)', SameBackfill
    PROVE  PowerInv'
BY PowerStill DEF SameBackfill

(* A step of one that is no writer behind it. *)
LEMMA PowerNoWriter ==
    ASSUME PowerInv, NEW c \in Conns, Others(c), StillFiles, ~IsWriter(c)', ~Copying(c)', SameBackfill
    PROVE  PowerInv'
<1>1. Stay(c)
  BY DEF Stay
<1> QED BY <1>1, PowerStays

(* walIndexTryHdr(). *)
LEMMA PowerReadHdr ==
    ASSUME IInv, PowerInv, NEW c \in Conns, ReadHdr(c)
    PROVE  PowerInv'
<1>1. Others(c) /\ mode'[c] = mode[c] /\ at'[c] \in {"choose", "ckptSafe"}
  BY ReadHdrEffect DEF IInv
<1>2. StillFiles /\ SameBackfill /\ writer' = writer
  BY DEF ReadHdr, files, index, locks, StillFiles, SameBackfill
<1>3. SelfOk(c) /\ (at[c] = "readHdr" \/ at[c] = "ckptHdr" \/ (at[c] = "idle" /\ readLock[c] = -1))
  BY SelfIs DEF ReadHdr, ReadsHdr, Idle, IsAt
<1>4. writer # c \/ mode[c] # "none"
  BY <1>3 DEF SelfOk, PhaseOk, Reading, Framing, Checkpointing
<1>5. ~IsWriter(c)' /\ ~Copying(c)'
  BY <1>1, <1>2, <1>4 DEF IsWriter, Copying
<1> QED BY <1>1, <1>2, <1>5, PowerNoWriter

(* walIndexRecover() resets the read marks. *)
LEMMA PowerRecoverReset ==
    ASSUME IInv, PowerInv, NEW c \in Conns, RecoverReset(c)
    PROVE  PowerInv'
<1>1. SelfOk(c) /\ at[c] = "recoverReset"
  BY SelfIs DEF RecoverReset, IsAt
<1>2. writer = c /\ ckpter = c
  BY <1>1 DEF SelfOk, PhaseOk, Reading, Framing, Checkpointing
<1>3. Others(c) /\ mode'[c] = mode[c] /\ at'[c] \in {"choose", "ckptSafe"}
  BY <1>2, RecoverResetEffect DEF IInv
<1>4. live # NoHdr
  BY <1>1, IndexIsThere
<1>5. StillFiles /\ SameBackfill /\ (mode[c] = "TRUNCATE" \/ writer' = None)
  BY <1>4 DEF RecoverReset, files, ghosts, StillFiles, SameBackfill
<1>6. ~IsWriter(c)' /\ ~Copying(c)'
  BY <1>3, <1>5, BoundsAssumption DEF IsWriter, Copying
<1> QED BY <1>3, <1>5, <1>6, PowerNoWriter

(* The ends of transactions. *)
LEMMA PowerEndRead ==
    ASSUME IInv, PowerInv, NEW c \in Conns, EndRead(c)
    PROVE  PowerInv'
<1>1. Others(c) /\ at'[c] = at[c]
  BY EndReadEffect DEF IInv
<1>2. StillFiles /\ SameBackfill /\ writer' = writer /\ writer # c /\ at[c] = "idle"
  BY DEF EndRead, InRead, IsAt, files, index, locks, ghosts, StillFiles, SameBackfill
<1>3. ~IsWriter(c)' /\ ~Copying(c)'
  BY <1>1, <1>2 DEF IsWriter, Copying
<1> QED BY <1>1, <1>2, <1>3, PowerNoWriter

LEMMA PowerRollback ==
    ASSUME IInv, PowerInv, NEW c \in Conns, Rollback(c)
    PROVE  PowerInv'
<1>1. Others(c) /\ at'[c] = at[c]
  BY RollbackEffect DEF IInv
<1>2. StillFiles /\ SameBackfill /\ writer' = None /\ at[c] = "idle"
  BY DEF Rollback, InWrite, IsAt, files, index, StillFiles, SameBackfill
<1>3. ~IsWriter(c)' /\ ~Copying(c)'
  BY <1>1, <1>2, BoundsAssumption DEF IsWriter, Copying
<1> QED BY <1>1, <1>2, <1>3, PowerNoWriter

(* A process dies. *)
LEMMA PowerDie ==
    ASSUME IInv, PowerInv, NEW c \in Conns, Die(c)
    PROVE  PowerInv'
<1>1. Others(c) /\ writer' # c /\ at'[c] = "gone"
  BY ForgetEffect DEF IInv, Die
<1>2. StillFiles /\ SameBackfill
  BY DEF Die, files, StillFiles, SameBackfill
<1>3. ~IsWriter(c)' /\ ~Copying(c)'
  BY <1>1 DEF IsWriter, Copying
<1> QED BY <1>1, <1>2, <1>3, PowerNoWriter

(* sqlite3WalCheckpoint() begins and ends. *)
LEMMA PowerCkptEnd ==
    ASSUME IInv, PowerInv, NEW c \in Conns, CkptEnd(c)
    PROVE  PowerInv'
<1>1. Others(c) /\ writer' # c /\ at'[c] = "idle"
  BY CkptEndEffect DEF IInv
<1>2. StillFiles /\ SameBackfill
  BY DEF CkptEnd, CkptReturn, index, StillFiles, SameBackfill
<1>3. ~IsWriter(c)' /\ ~Copying(c)'
  BY <1>1 DEF IsWriter, Copying
<1> QED BY <1>1, <1>2, <1>3, PowerNoWriter

LEMMA PowerCheckpoint ==
    ASSUME IInv, PowerInv, NEW c \in Conns, NEW eMode \in {"PASSIVE", "TRUNCATE"}, Checkpoint(c, eMode)
    PROVE  PowerInv'
<1>1. Others(c) /\ mode'[c] = eMode /\ at'[c] = "ckptHdr"
  BY CheckpointEffect DEF IInv
<1>2. StillFiles /\ SameBackfill
  BY DEF Checkpoint, files, index, ghosts, StillFiles, SameBackfill
<1>3. ~IsWriter(c)' /\ ~Copying(c)'
  BY <1>1 DEF IsWriter, Copying
<1> QED BY <1>1, <1>2, <1>3, PowerNoWriter

(* A checkpoint, where it copies nothing. *)
LEMMA PowerCheckpointer ==
    ASSUME IInv, PowerInv, NEW c \in Conns, Others(c), StillFiles, SameBackfill,
           at[c] \in Checkpointing, mode'[c] = mode[c], ~Copying(c)'
    PROVE  PowerInv'
<1>1. mode[c] # "none"
  BY CkptPlace
<1>2. ~IsWriter(c)'
  BY <1>1 DEF IsWriter
<1> QED BY <1>2, PowerNoWriter

(* walCheckpoint() looks for the frame that no reader forbids. *)
LEMMA PowerCkptSafe ==
    ASSUME IInv, PowerInv, NEW c \in Conns, CkptSafe(c)
    PROVE  PowerInv'
<1>1. Others(c) /\ mode'[c] = mode[c] /\ at'[c] \in {"ckptLock", "ckptSafe"}
  BY CkptSafeEffect DEF IInv
<1>2. StillFiles /\ SameBackfill /\ at[c] \in Checkpointing
  BY DEF CkptSafe, files, ghosts, StillFiles, SameBackfill, IsAt, Checkpointing
<1>3. ~Copying(c)'
  BY <1>1 DEF Copying
<1> QED BY <1>1, <1>2, <1>3, PowerCheckpointer

LEMMA PowerCkptNothing ==
    ASSUME IInv, PowerInv, NEW c \in Conns, CkptNothing(c)
    PROVE  PowerInv'
<1>1. Others(c) /\ mode'[c] = mode[c] /\ at'[c] = "ckptEnd"
  BY CkptNothingEffect DEF IInv
<1>2. StillFiles /\ SameBackfill /\ at[c] \in Checkpointing
  BY DEF CkptNothing, files, index, ghosts, StillFiles, SameBackfill, IsAt, Checkpointing
<1>3. ~Copying(c)'
  BY <1>1 DEF Copying
<1> QED BY <1>1, <1>2, <1>3, PowerCheckpointer

LEMMA PowerCkptSkip ==
    ASSUME IInv, PowerInv, NEW c \in Conns, CkptSkip(c)
    PROVE  PowerInv'
<1>1. Others(c) /\ mode'[c] = mode[c] /\ at'[c] = "ckptEnd"
  BY CkptSkipEffect DEF IInv
<1>2. StillFiles /\ SameBackfill /\ at[c] \in Checkpointing
  BY DEF CkptSkip, files, index, ghosts, StillFiles, SameBackfill, IsAt, Checkpointing
<1>3. ~Copying(c)'
  BY <1>1 DEF Copying
<1> QED BY <1>1, <1>2, <1>3, PowerCheckpointer

-----------------------------------------------------------------------------
(* Steps of readers, and of a writer before it writes frames. *)

(* A step of one whose transaction has not reached the log. *)
LEMMA PowerWaiting ==
    ASSUME IInv, PowerInv, NEW c \in Conns, Others(c), StillFiles, SameBackfill,
           at[c] \in Reading \cup {"restart", "restartIndex"},
           at'[c] \in Reading \cup {"idle", "readHdr", "walHdr", "frames", "truncate"},
           at'[c] = "frames" => hdr[c].mxFrame > 0,
           writer' = writer, hdr'[c] = hdr[c], dirty'[c] = dirty[c], tx'[c] = tx[c],
           reCksum'[c] = reCksum[c], iFrame'[c] = iFrame[c], mode'[c] = mode[c]
    PROVE  PowerInv'
<1>1. ~Copying(c)'
  BY DEF Copying, Reading
<1>2. SUFFICES ASSUME IsWriter(c)' PROVE PowerInv'
  BY <1>1, PowerNoWriter
<1>3. IsWriter(c)
  BY <1>2 DEF IsWriter, Reading
<1>4. iFrame[c] = hdr[c].mxFrame
  <2>1. ListOk(c)
    BY <1>3, WriterIs
  <2> QED BY <2>1 DEF ListOk
<1>5. Top(c) = hdr[c].mxFrame /\ Top(c)' = hdr[c].mxFrame
  BY <1>4 DEF Top, InFrames, Reading
<1>6. Commits(c) = FALSE /\ Commits(c)' = FALSE
  BY DEF Commits, Reading
<1>7. at'[c] # "publish" /\ at'[c] # "syncHdr" /\ (at'[c] \in InFrames => at'[c] = "frames")
  BY DEF Reading, InFrames
<1>8. Stay(c)
  BY <1>3, <1>5, <1>6, <1>7 DEF Stay
<1> QED BY <1>1, <1>8, PowerStays

(* walTryBeginRead(). *)
LEMMA PowerChoose ==
    ASSUME IInv, PowerInv, NEW c \in Conns, Choose(c)
    PROVE  PowerInv'
<1>1. /\ Others(c) /\ at'[c] \in {"idle", "mark", "readHdr"}
      /\ hdr'[c] = hdr[c] /\ dirty'[c] = dirty[c] /\ tx'[c] = tx[c]
      /\ reCksum'[c] = reCksum[c] /\ iFrame'[c] = iFrame[c] /\ mode'[c] = mode[c]
  BY ChooseEffect DEF IInv
<1>2. StillFiles /\ SameBackfill /\ at[c] = "choose" /\ writer' = writer
  BY DEF Choose, files, index, locks, StillFiles, SameBackfill, IsAt
<1> QED BY <1>1, <1>2, PowerWaiting DEF Reading

LEMMA PowerMark ==
    ASSUME IInv, PowerInv, NEW c \in Conns, Mark(c)
    PROVE  PowerInv'
<1>1. /\ Others(c) /\ at'[c] \in {"lockSlot", "choose", "readHdr"}
      /\ hdr'[c] = hdr[c] /\ dirty'[c] = dirty[c] /\ tx'[c] = tx[c]
      /\ reCksum'[c] = reCksum[c] /\ iFrame'[c] = iFrame[c] /\ mode'[c] = mode[c]
  BY MarkEffect DEF IInv
<1>2. StillFiles /\ SameBackfill /\ at[c] = "mark" /\ writer' = writer
  BY DEF Mark, files, locks, ghosts, StillFiles, SameBackfill, IsAt
<1> QED BY <1>1, <1>2, PowerWaiting DEF Reading

LEMMA PowerLockSlot ==
    ASSUME IInv, PowerInv, NEW c \in Conns, LockSlot(c)
    PROVE  PowerInv'
<1>1. /\ Others(c) /\ at'[c] \in {"verify", "choose", "readHdr"}
      /\ hdr'[c] = hdr[c] /\ dirty'[c] = dirty[c] /\ tx'[c] = tx[c]
      /\ reCksum'[c] = reCksum[c] /\ iFrame'[c] = iFrame[c] /\ mode'[c] = mode[c]
  BY LockSlotEffect DEF IInv
<1>2. StillFiles /\ SameBackfill /\ at[c] = "lockSlot" /\ writer' = writer
  BY DEF LockSlot, files, index, locks, ghosts, StillFiles, SameBackfill, IsAt
<1> QED BY <1>1, <1>2, PowerWaiting DEF Reading

LEMMA PowerVerify ==
    ASSUME IInv, PowerInv, NEW c \in Conns, Verify(c)
    PROVE  PowerInv'
<1>1. /\ Others(c) /\ at'[c] \in {"idle", "walHdr", "frames", "choose", "readHdr"}
      /\ at'[c] = "frames" => hdr[c].mxFrame # 0
      /\ hdr'[c] = hdr[c] /\ dirty'[c] = dirty[c] /\ tx'[c] = tx[c]
      /\ reCksum'[c] = reCksum[c] /\ iFrame'[c] = iFrame[c] /\ mode'[c] = mode[c]
  BY VerifyEffect DEF IInv
<1>2. StillFiles /\ SameBackfill /\ at[c] = "verify" /\ writer' = writer
  BY DEF Verify, files, index, locks, StillFiles, SameBackfill, IsAt
<1>3. hdr[c].mxFrame \in Nat
  BY Numbers DEF IInv, NumbersOk
<1>4. at'[c] = "frames" => hdr[c].mxFrame > 0
  BY <1>1, <1>3
<1> QED BY <1>1, <1>2, <1>4, PowerWaiting DEF Reading

(* walRestartLog() keeps the log, or resets the wal-index. *)
LEMMA PowerKeepLog ==
    ASSUME IInv, PowerInv, NEW c \in Conns, KeepLog(c)
    PROVE  PowerInv'
<1>1. /\ Others(c) /\ at'[c] = "choose"
      /\ hdr'[c] = hdr[c] /\ dirty'[c] = dirty[c] /\ tx'[c] = tx[c]
      /\ reCksum'[c] = reCksum[c] /\ iFrame'[c] = iFrame[c] /\ mode'[c] = mode[c]
  BY KeepLogEffect DEF IInv
<1>2. StillFiles /\ SameBackfill /\ at[c] = "restart" /\ writer' = writer
  BY DEF KeepLog, files, index, locks, ghosts, StillFiles, SameBackfill, IsAt
<1> QED BY <1>1, <1>2, PowerWaiting DEF Reading

LEMMA PowerRestartIndex ==
    ASSUME IInv, PowerInv, NEW c \in Conns, RestartIndex(c)
    PROVE  PowerInv'
<1>1. /\ Others(c) /\ at'[c] \in {"truncate", "choose"}
      /\ hdr'[c] = hdr[c] /\ dirty'[c] = dirty[c] /\ tx'[c] = tx[c]
      /\ reCksum'[c] = reCksum[c] /\ iFrame'[c] = iFrame[c] /\ mode'[c] = mode[c]
  BY RestartIndexEffect DEF IInv
<1>2. at[c] = "restartIndex"
  BY DEF RestartIndex, IsAt
<1>3. live # NoHdr
  BY <1>2, IndexIsThere
<1>4. StillFiles /\ SameBackfill /\ writer' = writer
  BY <1>3 DEF RestartIndex, files, locks, ghosts, StillFiles, SameBackfill
<1> QED BY <1>1, <1>2, <1>4, PowerWaiting DEF Reading

-----------------------------------------------------------------------------
(* Steps of a writer that write no frame, and what is counted. *)

(* The pager calls sqlite3WalFrames(), to commit or to spill. *)
LEMMA PowerCallFrames ==
    ASSUME IInv, PowerInv, NEW c \in Conns, NEW list, NEW isCommit, CallFrames(c, list, isCommit)
    PROVE  PowerInv'
<1>1. /\ Others(c) /\ iFrame'[c] = hdr[c].mxFrame
      /\ at'[c] = IF readLock[c] = 0 THEN "restart" ELSE IF hdr[c].mxFrame = 0 THEN "walHdr" ELSE "frames"
      /\ hdr'[c] = hdr[c] /\ dirty'[c] = dirty[c] /\ tx'[c] = tx[c]
      /\ reCksum'[c] = reCksum[c] /\ mode'[c] = mode[c]
  BY CallFramesEffect DEF IInv
<1>2. StillFiles /\ SameBackfill /\ at[c] = "idle" /\ writer' = writer
  BY DEF CallFrames, InWrite, IsAt, files, index, locks, ghosts, StillFiles, SameBackfill
<1>3. hdr[c].mxFrame \in Nat
  BY Numbers DEF IInv, NumbersOk
<1>4. ~Copying(c)'
  BY <1>1 DEF Copying
<1>5. Stay(c)
  <2>1. Top(c) = hdr[c].mxFrame /\ Top(c)' = hdr[c].mxFrame
    BY <1>1, <1>2 DEF Top, InFrames
  <2>2. Commits(c) = FALSE /\ Commits(c)' = FALSE
    BY <1>1, <1>2 DEF Commits
  <2>3. IsWriter(c)' => IsWriter(c)
    BY <1>1, <1>2 DEF IsWriter
  <2>4. at'[c] # "publish" /\ at'[c] # "syncHdr"
    BY <1>1
  <2>5. at'[c] \in InFrames => hdr[c].mxFrame > 0
    BY <1>1, <1>3 DEF InFrames
  <2> QED BY <1>1, <2>1, <2>2, <2>3, <2>4, <2>5 DEF Stay
<1> QED BY <1>1, <1>2, <1>4, <1>5, PowerStays

LEMMA PowerCommit ==
    ASSUME IInv, PowerInv, NEW c \in Conns, Commit(c)
    PROVE  PowerInv'
BY PowerCallFrames DEF Commit

LEMMA PowerSpill ==
    ASSUME IInv, PowerInv, NEW c \in Conns, NEW pg \in Pages, Spill(c, pg)
    PROVE  PowerInv'
BY PowerCallFrames DEF Spill

(* sqlite3WalFrames() returns with pages spilled. *)
LEMMA PowerSpilled ==
    ASSUME IInv, PowerInv, NEW c \in Conns, Publish(c), ~commits[c]
    PROVE  PowerInv'
<1>1. at[c] = "publish"
  BY DEF Publish, IsAt
<1>2. IsWriter(c) /\ writer = c
  BY <1>1, WriterFrames DEF Framing
<1>3. /\ Others(c) /\ hdr'[c].mxFrame = iFrame[c] /\ at'[c] = "idle" /\ commits'[c] = FALSE
      /\ UNCHANGED <<live, intact, latest, writer>> /\ tx'[c] = tx[c]
      /\ reCksum'[c] = reCksum[c] /\ dirty'[c] = dirty[c] /\ mode'[c] = mode[c]
  BY <1>2, PublishEffect DEF IInv
<1>4. UNCHANGED <<reported, unreported>>
  BY DEF Publish
<1>5. StillFiles /\ SameBackfill
  BY <1>3, <1>4 DEF Publish, files, StillFiles, SameBackfill
<1>6. ~Copying(c)'
  BY <1>3 DEF Copying
<1>7. Stay(c)
  <2>1. Top(c) = iFrame[c] /\ Top(c)' = iFrame[c]
    BY <1>1, <1>3 DEF Top, InFrames
  <2>2. Commits(c) = FALSE /\ Commits(c)' = FALSE
    BY <1>1, <1>3 DEF Commits
  <2> QED BY <1>1, <1>2, <1>3, <2>1, <2>2 DEF Stay, InFrames
<1> QED BY <1>3, <1>5, <1>6, <1>7, PowerStays

(* The frames that the wal-index counts are accepted, and end in a commit. *)
LEMMA PublishedLog ==
    ASSUME IInv, live.mxFrame > 0
    PROVE  /\ live # NoHdr /\ live.mxFrame \in Frames /\ live.salt = log.salt
           /\ Accepts(log, log.salt, live.mxFrame) /\ log.frame[live.mxFrame].commit
           /\ log.frame # NoLog.frame /\ log.salt # 0
<1>1. live.mxFrame \in Frames /\ live.mxFrame \in Nat /\ 1 \in 1..live.mxFrame /\ 1 \in Frames
  BY Numbers, FrameNumbers DEF IInv, NumbersOk
<1>2. live.salt = log.salt /\ Accepted(log, live.mxFrame) /\ log.frame[live.mxFrame].commit
  BY DEF IInv, IndexInv
<1>3. Accepts(log, log.salt, live.mxFrame)
  BY <1>2, AcceptedIs
<1>4. log.frame # NoLog.frame
  <2>1. SUFFICES ASSUME log.frame = NoLog.frame PROVE FALSE
    OBVIOUS
  <2>2. log.frame[1] = NoFrame
    BY <1>1, <2>1 DEF NoLog
  <2> QED BY <1>1, <1>3, <2>2, NothingAccepted
<1>5. log.salt # 0
  BY <1>1, <1>3 DEF Accepts
<1>6. live # NoHdr
  BY <1>1 DEF NoHdr
<1> QED BY <1>1, <1>2, <1>3, <1>4, <1>5, <1>6

(* A step of a writer that leaves the files. *)
LEMMA PowerSelf ==
    ASSUME PowerInv, NEW c \in Conns, Others(c), StillFiles, SameBackfill, DiskOk(c)',
           \A b \in 0..MaxFrame : Durable(b) => Follows(b, c)'
    PROVE  PowerInv'
<1>1. StillLogs
  BY DEF StillFiles, StillLogs
<1>2. NoGarbage'
  BY GarbageStill DEF PowerInv, StillFiles
<1>3. Disks'
  BY <1>1, OthersDisks DEF PowerInv
<1>4. PICK b \in 0..MaxFrame : Durable(b)
  BY DEF PowerInv
<1>5. Durable(b)'
  BY <1>1, <1>4, OthersFollow, DurableStill
<1>6. Done'
  <2>1. CASE nBackfill' = nBackfill
    BY <2>1 DEF PowerInv, Done, StillFiles, NoHdr
  <2>2. CASE nBackfill' = 0 /\ live # NoHdr
    BY <1>4, <2>2 DEF Durable, Alone, Bare, Done, StillFiles, NoHdr
  <2> QED BY <2>1, <2>2 DEF SameBackfill
<1>7. \E d \in 0..MaxFrame : Durable(d)'
  BY <1>4, <1>5
<1> QED BY <1>2, <1>3, <1>6, <1>7 DEF PowerInv

(* sqlite3WalBeginWriteTransaction(). *)
LEMMA PowerBeginWrite ==
    ASSUME IInv, PowerInv, NEW c \in Conns, BeginWrite(c)
    PROVE  PowerInv'
<1>1. /\ Others(c) /\ tx'[c] = Unchanged /\ at'[c] = at[c] /\ hdr'[c] = hdr[c]
      /\ reCksum'[c] = reCksum[c] /\ dirty'[c] = dirty[c]
  BY BeginWriteEffect DEF IInv
<1>2. StillFiles /\ SameBackfill /\ at[c] = "idle" /\ writer = None /\ hdr[c] = live
  BY DEF BeginWrite, InRead, IsAt, files, index, StillFiles, SameBackfill
<1>3. dirty[c] = {}
  <2>1. WriterOk(c)
    BY DEF IInv, WriteInv
  <2>2. ~IsWriter(c)
    BY <1>2, BoundsAssumption DEF IsWriter
  <2> QED BY <2>1, <2>2 DEF WriterOk
<1>4. Top(c)' = live.mxFrame /\ live'.mxFrame = live.mxFrame /\ live.mxFrame \in Nat
  <2>1. live.mxFrame \in Nat
    BY Numbers DEF IInv, NumbersOk
  <2> QED BY <1>1, <1>2, <2>1 DEF Top, InFrames, StillFiles
<1>5. DiskOk(c)'
  <2>1. CleanTx(c)'
    <3>1. OwnFrames(c)' = {}
      BY <1>4 DEF OwnFrames
    <3>2. \A pg \in Pages : tx'[c][pg] # Garbage
      BY <1>1 DEF Unchanged, Garbage
    <3> QED BY <3>1, <3>2 DEF CleanTx
  <2>2. FreshDisk(c)'
    BY <1>1, <1>3 DEF FreshDisk
  <2>3. CutDisk(c)'
    BY <1>4 DEF CutDisk
  <2>4. Commits(c)' = FALSE
    BY <1>1, <1>2 DEF Commits
  <2>5. Unfinished(c)'
    BY <2>4 DEF Unfinished
  <2>6. at'[c] # "publish"
    BY <1>1, <1>2
  <2> QED BY <2>1, <2>2, <2>3, <2>5, <2>6 DEF DiskOk
<1>6. ASSUME NEW b \in 0..MaxFrame, Durable(b) PROVE Follows(b, c)'
  <2>1. at'[c] = "idle" /\ hdr'[c].mxFrame = live.mxFrame
    BY <1>1, <1>2
  <2>2. live.mxFrame > 0 => b <= live.mxFrame /\ log.frame # NoLog.frame
    BY <1>6, PublishedLog DEF Durable, Fits
  <2>3. live.mxFrame > 0 => Headed'
    BY <1>2, <2>2 DEF Headed, StillFiles, NoLog
  <2> QED BY <1>4, <2>1, <2>2, <2>3 DEF Follows, Copying, InFrames
<1> QED BY <1>1, <1>2, <1>5, <1>6, PowerSelf

(* A page is changed in the cache. *)
LEMMA PowerChange ==
    ASSUME IInv, DeathInv, PowerInv, NEW c \in Conns, NEW pg \in Pages, Change(c, pg)
    PROVE  PowerInv'
<1>1. /\ Others(c) /\ tx'[c] = [tx[c] EXCEPT ![pg] = nWrites + 1] /\ dirty'[c] = dirty[c] \cup {pg}
      /\ at'[c] = at[c] /\ hdr'[c] = hdr[c] /\ reCksum'[c] = reCksum[c] /\ mode'[c] = mode[c]
      /\ mxSafe'[c] = mxSafe[c]
  BY ChangeEffect DEF IInv
<1>2. StillFiles /\ SameBackfill /\ at[c] = "idle" /\ writer = c /\ writer' = c
  BY DEF Change, InWrite, IsAt, files, index, locks, StillFiles, SameBackfill
<1>3. IsWriter(c)
  BY <1>2, WriterPlace
<1>4. CleanTx(c) /\ FreshDisk(c) /\ CutDisk(c)
  BY <1>3 DEF PowerInv, Disks, DiskOk
<1>5. Top(c)' = Top(c) /\ Commits(c) = FALSE /\ Commits(c)' = FALSE
  BY <1>1, <1>2 DEF Top, Commits, InFrames
<1>6. nWrites \in Nat /\ logDisk \in Log /\ tx[c] \in [Pages -> Contents] /\ live.mxFrame \in Nat
  <2>1. nWrites \in 0..MaxWrites /\ logDisk \in Log /\ tx \in [Conns -> [Pages -> Contents]]
    BY DEF IInv, TypeOK
  <2> QED BY <2>1, BoundsAssumption, Numbers DEF IInv, NumbersOk
<1>7. DiskOk(c)'
  <2>1. CleanTx(c)'
    <3>1. OwnFrames(c)' = OwnFrames(c)
      BY <1>2, <1>5 DEF OwnFrames, StillFiles
    <3>2. \A p \in Pages : tx'[c][p] # Garbage
      BY <1>1, <1>4, <1>6 DEF CleanTx, Garbage
    <3>3. log' = log
      BY <1>2 DEF StillFiles
    <3> QED BY <1>4, <3>1, <3>2, <3>3 DEF CleanTx
  <2>2. FreshDisk(c)'
    <3>1. NextIsNew(logDisk)
      BY <1>6, ValsTyped DEF DeathInv, Numbered
    <3>2. ASSUME NEW p \in dirty'[c], NEW k \in Frames, NEW j \in DOMAIN logDisk.frame[k].sum
          PROVE  logDisk.frame[k].sum[j].val # tx'[c][p]
      <4>1. CASE p = pg
        <5>1. tx'[c][p] = nWrites + 1
          BY <1>1, <1>6, <4>1
        <5> QED BY <3>1, <5>1 DEF NextIsNew
      <4>2. CASE p # pg
        <5>1. p \in dirty[c] /\ dirty[c] \subseteq Pages
          BY <1>1, <4>2 DEF IInv, TypeOK
        <5>2. tx'[c][p] = tx[c][p]
          BY <1>1, <1>6, <4>2, <5>1
        <5> QED BY <1>4, <5>1, <5>2 DEF FreshDisk
      <4> QED BY <4>1, <4>2
    <3>3. logDisk' = logDisk
      BY <1>2 DEF StillFiles
    <3> QED BY <3>2, <3>3 DEF FreshDisk
  <2>3. CutDisk(c)'
    <3>1. \A i : BodyOf(log.frame[i])' = BodyOf(log.frame[i])
      BY <1>2 DEF BodyOf, StillFiles
    <3> QED BY <1>2, <1>4, <1>5, <3>1 DEF CutDisk, StillFiles
  <2>4. Unfinished(c)'
    BY <1>5 DEF Unfinished
  <2>5. at'[c] # "publish"
    BY <1>1, <1>2
  <2> QED BY <2>1, <2>2, <2>3, <2>4, <2>5 DEF DiskOk
<1>8. ASSUME NEW b \in 0..MaxFrame, Durable(b) PROVE Follows(b, c)'
  <2>1. Follows(b, c)
    BY <1>8 DEF Durable, Fits
  <2>2. Headed' = Headed
    BY <1>2 DEF Headed, StillFiles, NoLog
  <2> QED BY <1>1, <1>2, <1>3, <2>1, <2>2 DEF Follows, Copying, StillFiles
<1> QED BY <1>1, <1>2, <1>7, <1>8, PowerSelf

-----------------------------------------------------------------------------
(* Losses of power: the log is synced. *)

(* While frames are counted, the durable ones are among them. *)
LEMMA SameSalt ==
    ASSUME IInv, live.mxFrame > 0, NEW b \in 0..MaxFrame, Synced(b), b > 0
    PROVE  log.salt = logDisk.salt /\ SameFrames(logDisk, log, b) /\ log.frame # NoLog.frame
<1>1. log.frame # NoLog.frame /\ Accepts(log, log.salt, live.mxFrame) /\ live.mxFrame \in Frames
  BY PublishedLog
<1>2. Accepts(logDisk, logDisk.salt, b) /\ \A k \in 1..b : log.frame[k] = logDisk.frame[k]
  BY <1>1 DEF Synced
<1>3. 1 \in 1..b /\ 1 \in 1..live.mxFrame
  BY <1>1, FrameNumbers
<1>4. log.frame[1].salt = log.salt /\ logDisk.frame[1].salt = logDisk.salt
  BY <1>1, <1>2, <1>3 DEF Accepts
<1> QED BY <1>1, <1>2, <1>3, <1>4 DEF SameFrames

(* No commit appears that was not there. *)
LEMMA KnownFrom ==
    ASSUME NEW b, NEW d, Known(b), db' = db, Kept \subseteq Kept',
           \A l, salt, m : MixedCommit(l, salt, m)' /\ m >= d => MixedCommit(l, salt, m) /\ m >= b
    PROVE  Known(d)'
<1>1. \A l, m : DbAt(db, l, m)' = DbAt(db, l, m)
  BY DEF DbAt, Content
<1>2. AnyKnown(b)
  BY KnownIs
<1>3. AnyKnown(d)'
  BY <1>1, <1>2 DEF AnyKnown
<1> QED BY <1>3, KnownNext DEF KnownWell

LEMMA MixedSynced ==
    ASSUME log' = log, logDisk' = log, live' = live, NEW l, NEW salt, NEW m, MixedCommit(l, salt, m)'
    PROVE  MixedCommit(l, salt, m)
BY DEF MixedCommit, Salts

SyncsLog == logDisk' = log /\ UNCHANGED <<db, dbDisk, log, live, latest, reported, unreported, nBackfill>>

(* Once synced, the frames on disk are those of memory. *)
LEMMA SyncedDisk ==
    ASSUME IInv, DeathInv, NEW q \in Conns, DiskOk(q), SyncsLog,
           IsWriter(q)' => /\ IsWriter(q) /\ dirty'[q] = dirty[q] /\ tx'[q] = tx[q] /\ reCksum'[q] = reCksum[q]
                           /\ Top(q)' = Top(q) /\ Commits(q)' = Commits(q)
    PROVE  DiskOk(q)'
<1>1. SUFFICES ASSUME IsWriter(q)'
               PROVE  (/\ CleanTx(q) /\ FreshDisk(q) /\ CutDisk(q) /\ Unfinished(q)
                       /\ at[q] = "publish" /\ commits[q] => logDisk = log)'
  BY DEF DiskOk
<1>2. /\ IsWriter(q) /\ dirty'[q] = dirty[q] /\ tx'[q] = tx[q] /\ reCksum'[q] = reCksum[q]
      /\ Top(q)' = Top(q) /\ Commits(q)' = Commits(q)
      /\ CleanTx(q) /\ Unfinished(q) /\ FreshOk(q) /\ CutOk(q) /\ MarkedOk(q) /\ ChecksumsOk(q)
  BY <1>1, WriterIs DEF DiskOk, DeathInv, Transactions, TransactionOk
<1>3. log' = log /\ live' = live /\ logDisk' = log
  BY DEF SyncsLog
<1>4. CleanTx(q)'
  <2>1. OwnFrames(q)' = OwnFrames(q)
    BY <1>2, <1>3 DEF OwnFrames
  <2> QED BY <1>2, <1>3, <2>1 DEF CleanTx
<1>5. FreshDisk(q)'
  BY <1>2, <1>3 DEF FreshDisk, FreshOk
<1>6. CutDisk(q)'
  <2> DEFINE i == live.mxFrame + 1
  <2>1. SUFFICES ASSUME Top(q) > live.mxFrame, NEW k \in Frames, log.frame[k].commit,
                        i \in DOMAIN log.frame[k].sum, log.frame[k].sum[i] = BodyOf(log.frame[i])
                 PROVE  k = Top(q) /\ Commits(q) /\ log.frame[k].sum = Sum(log, k)
    <3>1. \A k : Sum(log, k)' = Sum(log, k)
      BY <1>3 DEF Sum, BodyOf
    <3>2. \A j : BodyOf(log.frame[j])' = BodyOf(log.frame[j])
      BY <1>3 DEF BodyOf
    <3> QED BY <1>2, <1>3, <3>1, <3>2 DEF CutDisk
  <2>2. live.mxFrame \in Nat /\ Top(q) \in Nat /\ Top(q) <= MaxFrame /\ MaxFrame \in Nat /\ k \in Nat /\ 1 <= k /\ k <= MaxFrame
    <3>1. Top(q) \in Nat /\ Top(q) <= MaxFrame
      BY Numbers DEF IInv, NumbersOk, Top
    <3> QED BY <3>1, Numbers, FrameNumbers DEF IInv, NumbersOk
  <2>3. ~(k > Top(q))
    BY <2>1, <2>2, <1>2 DEF CutOk
  <2>4. ~(k <= live.mxFrame)
    <3>1. SUFFICES ASSUME k <= live.mxFrame PROVE FALSE
      OBVIOUS
    <3>2. Accepts(log, log.salt, live.mxFrame) /\ k \in 1..live.mxFrame
      BY <2>2, <3>1, PublishedLog
    <3>3. log.frame[k].sum = Sum(log, k) /\ DOMAIN Sum(log, k) = 1..k
      BY <3>2 DEF Accepts, Sum
    <3> QED BY <2>1, <2>2, <3>1, <3>3
  <2>5. k \in OwnFrames(q)
    BY <2>2, <2>3, <2>4 DEF OwnFrames
  <2>6. k = Top(q) /\ Commits(q)
    BY <1>2, <2>1, <2>5 DEF MarkedOk
  <2>7. reCksum[q] = 0
    BY <1>2, <2>1, <2>6 DEF Unfinished
  <2> QED BY <1>2, <2>5, <2>6, <2>7 DEF ChecksumsOk
<1>7. Unfinished(q)'
  BY <1>2, <1>3 DEF Unfinished
<1> QED BY <1>3, <1>4, <1>5, <1>6, <1>7

LEMMA SyncStep ==
    ASSUME IInv, DeathInv, PowerInv, NEW c \in Conns, Others(c), SyncsLog,
           IsWriter(c)' => /\ IsWriter(c) /\ dirty'[c] = dirty[c] /\ tx'[c] = tx[c] /\ reCksum'[c] = reCksum[c]
                           /\ Top(c)' = Top(c) /\ Commits(c)' = Commits(c),
           \E d \in 0..MaxFrame : Durable(d)'
    PROVE  PowerInv'
<1>1. NoGarbage'
  BY DEF PowerInv, NoGarbage, SyncsLog, CleanSums, Kept
<1>2. Done'
  BY DEF PowerInv, Done, SyncsLog, NoHdr
<1>3. DiskOk(c)'
  BY SyncedDisk DEF PowerInv, Disks
<1>4. ASSUME NEW q \in Conns \ {c} PROVE DiskOk(q)'
  <2>1. Same(q)
    BY DEF Others
  <2>2. IsWriter(q)' => IsWriter(q)
    BY <2>1 DEF IsWriter, Same
  <2>3. Top(q)' = Top(q) /\ Commits(q)' = Commits(q)
    BY <2>1 DEF Same, Top, Commits
  <2> QED BY <2>1, <2>2, <2>3, SyncedDisk DEF PowerInv, Disks, Same
<1>5. Disks'
  BY <1>3, <1>4 DEF Disks
<1> QED BY <1>1, <1>2, <1>5 DEF PowerInv

(* sqlite3WalFrames() syncs the log. *)
LEMMA PowerSyncLog ==
    ASSUME IInv, DeathInv, PowerInv, NEW c \in Conns, SyncLog(c)
    PROVE  PowerInv'
<1>1. /\ Others(c) /\ at'[c] = "publish" /\ hdr'[c] = hdr[c] /\ dirty'[c] = dirty[c] /\ tx'[c] = tx[c]
      /\ reCksum'[c] = reCksum[c] /\ commits'[c] = commits[c] /\ iFrame'[c] = iFrame[c] /\ mode'[c] = mode[c]
  BY SyncLogEffect DEF IInv
<1>2. SyncsLog /\ at[c] = "sync"
  BY DEF SyncLog, index, ghosts, SyncsLog, IsAt
<1>3. IsWriter(c)
  BY <1>2, WriterFrames DEF Framing
<1>4. commits[c] = TRUE
  <2>1. ListOk(c)
    BY <1>3, WriterIs
  <2>2. commits[c] \in BOOLEAN
    BY DEF IInv, TypeOK
  <2> QED BY <1>2, <2>1, <2>2 DEF ListOk
<1>5. Top(c)' = Top(c) /\ Commits(c)' = Commits(c)
  BY <1>1, <1>2, <1>4 DEF Top, InFrames, Commits
<1>6. PICK b \in 0..MaxFrame : Durable(b)
  BY DEF PowerInv
<1>7. b <= live.mxFrame /\ b \in Nat /\ live.mxFrame \in Nat
  <2>1. Follows(b, c)
    BY <1>6 DEF Durable, Fits
  <2> QED BY <1>2, <1>3, <2>1, Numbers DEF Follows, InFrames, IInv, NumbersOk
<1>8. b > 0 => /\ log.salt = logDisk.salt /\ SameFrames(logDisk, log, b) /\ log.frame # NoLog.frame
               /\ live.mxFrame > 0 /\ Accepts(logDisk, logDisk.salt, b) /\ logDisk.frame[b].commit
  BY <1>6, <1>7, SameSalt DEF Durable, Synced
<1>9. log' = log /\ logDisk' = log /\ live' = live /\ db' = db /\ dbDisk' = dbDisk /\ Kept' = Kept
  BY <1>2 DEF SyncsLog, Kept
<1>10. Synced(b)'
  <2>1. b > 0 => Accepts(log, log.salt, b) /\ log.frame[b].commit
    <3>1. ASSUME b > 0 PROVE Accepts(log, log.salt, b) /\ log.frame[b].commit
      <4>1. b \in 1..b
        BY <1>7, <3>1
      <4>2. Accepts(log, logDisk.salt, b) = Accepts(logDisk, logDisk.salt, b)
        BY <1>7, <1>8, <3>1, AcceptsSame
      <4>3. log.frame[b] = logDisk.frame[b]
        BY <1>8, <3>1, <4>1 DEF SameFrames
      <4> QED BY <1>8, <3>1, <4>2, <4>3
    <3> QED BY <3>1
  <2>2. Accepts(log, log.salt, b)' = Accepts(log, log.salt, b)
    BY <1>9 DEF Accepts, Sum, BodyOf
  <2>3. Accepts(logDisk, logDisk.salt, b)' = Accepts(log, log.salt, b)'
    BY <1>9 DEF Accepts, Sum, BodyOf
  <2> QED BY <1>9, <2>1, <2>2, <2>3 DEF Synced
<1>11. Covered(b)'
  <2>1. SUFFICES ASSUME NEW pg \in Pages, db[pg] # dbDisk[pg] PROVE Find(log, pg, 1, b) > 0
    BY <1>9 DEF Covered, Find
  <2>2. Find(logDisk, pg, 1, b) > 0
    BY <1>6, <2>1 DEF Durable, Covered
  <2>3. b > 0
    <3>1. b = 0 => Find(logDisk, pg, 1, b) = 0
      BY <1>7, FindIs DEF IsLastOf
    <3> QED BY <1>7, <2>2, <3>1
  <2>4. \A k \in 1..b : log.frame[k].pg = logDisk.frame[k].pg
    BY <1>8, <2>3 DEF SameFrames
  <2> QED BY <1>7, <2>2, <2>4, FindSame
<1>12. Known(b)'
  <2>1. \A l, salt, m : MixedCommit(l, salt, m)' => MixedCommit(l, salt, m)
    BY <1>9, MixedSynced
  <2> QED BY <1>6, <1>9, <2>1, KnownFrom DEF Durable
<1>13. Alone(b)'
  <2>1. Bare(b)' => Bare(b)
    BY <1>9 DEF Bare, NoLog, NoHdr
  <2> QED BY <1>6, <1>9, <2>1 DEF Durable, Alone
<1>14. Fits(b)'
  <2>1. ASSUME NEW q \in Conns \ {c} PROVE Follows(b, q)'
    <3>1. Same(q) /\ ~IsWriter(q) /\ Follows(b, q)
      BY <1>1, <1>3, <1>6, WriterIs DEF Others, Durable, Fits
    <3>2. ~IsWriter(q)'
      BY <3>1 DEF Same, IsWriter
    <3> QED BY <3>1, <3>2 DEF Follows, Same, Copying
  <2>2. Follows(b, c)'
    BY <1>1, <1>7, <1>9 DEF Follows, Copying, Headed, NoLog
  <2> QED BY <1>6, <1>8, <1>9, <2>1, <2>2 DEF Durable, Fits, NoLog, NoHdr
<1>15. Durable(b)'
  BY <1>10, <1>11, <1>12, <1>13, <1>14 DEF Durable
<1> QED BY <1>1, <1>2, <1>3, <1>5, <1>15, SyncStep

-----------------------------------------------------------------------------
(* Losses of power: the log is copied into the database file. *)

LEMMA FindTyped ==
    ASSUME NEW l, NEW pg, NEW n \in Nat
    PROVE  Find(l, pg, 1, n) \in Nat /\ Find(l, pg, 1, n) <= n
<1>1. IsLastOf(Find(l, pg, 1, n), l, pg, 1, n)
  BY FindIs
<1>2. Find(l, pg, 1, n) \in {0} \cup 1..n
  BY <1>1 DEF IsLastOf
<1> QED BY <1>2

(* The frame that walFindFrame() finds. *)
LEMMA FoundIs ==
    ASSUME NEW l, NEW pg, NEW n \in Nat, Find(l, pg, 1, n) > 0
    PROVE  Find(l, pg, 1, n) \in 1..n /\ l.frame[Find(l, pg, 1, n)].pg = pg /\ n > 0
<1>1. IsLastOf(Find(l, pg, 1, n), l, pg, 1, n)
  BY FindIs
<1>2. Find(l, pg, 1, n) \in {0} \cup 1..n
  BY <1>1 DEF IsLastOf
<1>3. Find(l, pg, 1, n) \in 1..n
  BY <1>2
<1> QED BY <1>1, <1>3 DEF IsLastOf

(* A checkpointer that copies has a commit to copy. *)
LEMMA CopyPlace ==
    ASSUME IInv, NEW c \in Conns, at[c] \in {"ckptLock", "ckptCopy", "ckptDone"}, nBackfill < mxSafe[c] \/ Copying(c),
           SameLog(c) \/ Copying(c)
    PROVE  /\ nBackfill < mxSafe[c] /\ mxSafe[c] <= hdr[c].mxFrame /\ hdr[c].mxFrame <= live.mxFrame
           /\ nBackfill \in Nat /\ mxSafe[c] \in Nat /\ hdr[c].mxFrame \in Nat /\ live.mxFrame \in Nat
           /\ ~IsWriter(c) /\ live.mxFrame <= MaxFrame /\ MaxFrame \in Nat
<1>1. NumbersOk /\ SelfOk(c) /\ MaxFrame \in Nat
  BY SelfIs, Numbers, FrameNumbers DEF IInv
<1>2. ~IsWriter(c)
  BY CkptPlace DEF Checkpointing
<1>3. SameLog(c) /\ nBackfill < mxSafe[c]
  BY <1>1 DEF SelfOk, CkptOk
<1>4. mxSafe[c] <= hdr[c].mxFrame /\ hdr[c].mxFrame <= live.mxFrame
  BY <1>1, <1>2, <1>3 DEF SelfOk, CkptOk, HdrOk, Checkpointing
<1> QED BY <1>1, <1>2, <1>3, <1>4 DEF NumbersOk

(* walCheckpoint() syncs the log before it copies. *)
LEMMA PowerCkptLock ==
    ASSUME IInv, DeathInv, PowerInv, NEW c \in Conns, CkptLock(c)
    PROVE  PowerInv'
<1>0. PICK n \in 0..MaxFrame : n = live.mxFrame
  BY Numbers, FrameNumbers DEF IInv, NumbersOk
<1> USE <1>0
<1>1. /\ Others(c) /\ at'[c] = "ckptCopy" /\ mode'[c] = mode[c] /\ mxSafe'[c] = mxSafe[c]
  BY CkptLockEffect DEF IInv
<1>2. SyncsLog /\ at[c] = "ckptLock" /\ nBackfill < mxSafe[c] /\ SameLog(c) /\ writer' = writer
  BY DEF CkptLock, index, locks, ghosts, SyncsLog, IsAt, SameLog
<1>3. /\ nBackfill < mxSafe[c] /\ mxSafe[c] <= hdr[c].mxFrame /\ hdr[c].mxFrame <= n
      /\ nBackfill \in Nat /\ mxSafe[c] \in Nat /\ hdr[c].mxFrame \in Nat /\ n \in Nat
      /\ ~IsWriter(c) /\ n <= MaxFrame /\ MaxFrame \in Nat
  BY <1>2, CopyPlace
<1>4. ~IsWriter(c)'
  <2>1. mode[c] # "none"
    BY <1>2, CkptPlace DEF Checkpointing
  <2> QED BY <1>1, <2>1 DEF IsWriter
<1>5. PICK b \in 0..MaxFrame : Durable(b)
  BY DEF PowerInv
<1>6. n > 0 /\ n \in 0..MaxFrame /\ mxSafe[c] <= n
  BY <1>3
<1>7. b <= n /\ b \in Nat
  BY <1>5, <1>6 DEF Durable, Fits
<1>8. /\ n \in Frames /\ Accepts(log, log.salt, n) /\ log.frame[n].commit /\ log.frame # NoLog.frame
      /\ live.salt = log.salt
  BY <1>6, PublishedLog
<1>9. log' = log /\ logDisk' = log /\ live' = live /\ db' = db /\ dbDisk' = dbDisk /\ Kept' = Kept
  BY <1>2 DEF SyncsLog, Kept
<1>10. Synced(n)'
  <2>1. Accepts(logDisk, logDisk.salt, n)' = Accepts(log, log.salt, n)
    BY <1>9 DEF Accepts, Sum, BodyOf
  <2> QED BY <1>8, <1>9, <2>1 DEF Synced
<1>11. Covered(n)'
  <2>1. SUFFICES ASSUME NEW pg \in Pages, db[pg] # dbDisk[pg] PROVE Find(log, pg, 1, n) > 0
    BY <1>9 DEF Covered, Find
  <2>2. Find(logDisk, pg, 1, b) > 0
    BY <1>5, <2>1 DEF Durable, Covered
  <2>3. b > 0
    BY <1>7, <2>2, FoundIs
  <2>4. SameFrames(logDisk, log, b)
    BY <1>5, <1>6, <2>3, SameSalt DEF Durable
  <2>5. \A k \in 1..b : log.frame[k].pg = logDisk.frame[k].pg
    BY <2>4 DEF SameFrames
  <2>6. Find(log, pg, 1, b) > 0
    BY <1>7, <2>2, <2>5, FindSame
  <2>7. Find(log, pg, 1, b) <= Find(log, pg, 1, n)
    BY <1>3, <1>7, FindLonger
  <2>8. Find(log, pg, 1, n) \in Nat /\ Find(log, pg, 1, b) \in Nat
    BY <1>3, <1>7, FindTyped
  <2> QED BY <2>6, <2>7, <2>8
<1>12. Known(n)'
  <2>1. \A l, salt, m : MixedCommit(l, salt, m)' /\ m >= n => MixedCommit(l, salt, m) /\ m >= b
    <3>1. ASSUME NEW l, NEW salt, NEW m, MixedCommit(l, salt, m)', m >= n PROVE MixedCommit(l, salt, m) /\ m >= b
      <4>1. MixedCommit(l, salt, m)
        BY <1>9, <3>1, MixedSynced
      <4>2. m \in Nat
        BY <4>1, FrameNumbers DEF MixedCommit
      <4> QED BY <1>3, <1>7, <3>1, <4>1, <4>2
    <3> QED BY <3>1
  <2> QED BY <1>5, <1>9, <2>1, KnownFrom DEF Durable
<1>13. Alone(n)'
  BY <1>6, <1>8, <1>9 DEF Bare, Alone, NoLog
<1>14. Fits(n)'
  <2>1. ASSUME NEW q \in Conns \ {c} PROVE Follows(n, q)'
    <3>1. Same(q) /\ Follows(b, q)
      BY <1>1, <1>5 DEF Others, Durable, Fits
    <3>2. Copying(q) => mxSafe[q] <= n
      <4>1. mxSafe[q] \in Nat
        BY Numbers DEF IInv, NumbersOk
      <4> QED BY <1>3, <1>7, <3>1, <4>1 DEF Follows
    <3>3. IsWriter(q) => at[q] # "syncHdr"
      <4>1. SUFFICES ASSUME IsWriter(q), at[q] = "syncHdr" PROVE FALSE
        OBVIOUS
      <4>2. WriterHdrOk(q) /\ live.mxFrame <= hdr[q].mxFrame
        BY <4>1, WriterIs
      <4> QED BY <1>6, <4>1, <4>2 DEF WriterHdrOk
    <3>4. Headed'
      BY <1>9 DEF Headed
    <3>5. n <= live'.mxFrame
      BY <1>3, <1>9
    <3>6. IsWriter(q)' = IsWriter(q)
      BY <3>1 DEF Same, IsWriter
    <3> QED BY <3>1, <3>2, <3>3, <3>4, <3>5, <3>6 DEF Follows, Same, Copying
  <2>2. Follows(n, c)'
    BY <1>1, <1>4, <1>6 DEF Follows
  <2>3. n <= n
    BY <1>3
  <2> QED BY <1>6, <1>8, <1>9, <2>1, <2>2, <2>3 DEF Fits, NoLog
<1>15. Durable(n)'
  BY <1>10, <1>11, <1>12, <1>13, <1>14 DEF Durable
<1>16. \E d \in 0..MaxFrame : Durable(d)'
  <2> QED BY <1>6, <1>15
<1> QED BY <1>1, <1>2, <1>4, <1>16, SyncStep

-----------------------------------------------------------------------------
(* The database file is written, or synced. *)
LEMMA DbStep ==
    ASSUME PowerInv, NEW c \in Conns, Others(c), UNCHANGED <<log, logDisk, live, latest, reported, unreported>>,
           ~IsWriter(c)', Copying(c)' => Copying(c) /\ mxSafe'[c] = mxSafe[c],
           Done', NEW b \in 0..MaxFrame, Durable(b), Covered(b)', Known(b)', Alone(b)'
    PROVE  PowerInv'
<1>1. StillLogs
  BY DEF StillLogs
<1>2. Stay(c)
  BY DEF Stay
<1>3. NoGarbage'
  BY GarbageStill DEF PowerInv
<1>4. Disks'
  BY <1>1, <1>2, DiskStill, OthersDisks DEF PowerInv, Disks
<1>5. \A q \in Conns : Follows(b, q)'
  BY <1>1, <1>2, FollowsStill, OthersFollow DEF Durable, Fits
<1>6. Fits(b)'
  BY <1>5 DEF Durable, Fits, NoLog, NoHdr
<1>7. Synced(b)'
  BY DEF Durable, Synced, Accepts, Sum, BodyOf, NoLog
<1>8. Durable(b)'
  BY <1>6, <1>7 DEF Durable
<1>9. \E d \in 0..MaxFrame : Durable(d)'
  BY <1>8
<1> QED BY <1>3, <1>4, <1>9 DEF PowerInv

(* walCheckpoint() syncs the database file before it counts what it copied. *)
LEMMA PowerCkptDone ==
    ASSUME IInv, PowerInv, NEW c \in Conns, CkptDone(c)
    PROVE  PowerInv'
<1>1. Others(c) /\ at'[c] = "ckptEnd" /\ mode'[c] = mode[c]
  BY CkptDoneEffect DEF IInv
<1>2. /\ UNCHANGED <<log, logDisk, live, latest, reported, unreported, db>> /\ at[c] = "ckptDone"
      /\ dbDisk' = IF mxSafe[c] = live.mxFrame THEN db ELSE dbDisk
      /\ nBackfill' = mxSafe[c]
  BY DEF CkptDone, ghosts, IsAt
<1>3. ~IsWriter(c)' /\ ~Copying(c)'
  <2>1. mode[c] # "none"
    BY <1>2, CkptPlace DEF Checkpointing
  <2> QED BY <1>1, <2>1 DEF IsWriter, Copying
<1>4. PICK b \in 0..MaxFrame : Durable(b)
  BY DEF PowerInv
<1>5. Done'
  BY <1>2 DEF Done, NoHdr
<1>6. Covered(b)'
  <2>1. \A pg : Find(logDisk, pg, 1, b)' = Find(logDisk, pg, 1, b)
    BY <1>2 DEF Find
  <2> QED BY <1>2, <1>4, <2>1 DEF Durable, Covered
<1>7. Known(b)'
  <2>1. Salts' = Salts /\ Kept' = Kept
    BY <1>2 DEF Salts, Kept
  <2> QED BY <1>2, <1>4, <2>1, KnownStill DEF Durable
<1>8. Alone(b)'
  BY <1>2, <1>4 DEF Durable, Alone, Bare, Kept, NoLog, NoHdr
<1> QED BY <1>1, <1>2, <1>3, <1>4, <1>5, <1>6, <1>7, <1>8, DbStep

(* walCheckpoint() copies one page; the log holds it still. *)
LEMMA PowerCkptCopy ==
    ASSUME IInv, PowerInv, NEW c \in Conns, CkptCopy(c)
    PROVE  PowerInv'
<1> DEFINE p == next[c]
           h == hdr[c].mxFrame
           i == Find(log, p, 1, h)
           copies == i > nBackfill /\ i <= mxSafe[c]
<1>1. /\ Others(c) /\ at'[c] \in {"ckptCopy", "ckptDone"} /\ mode'[c] = mode[c] /\ mxSafe'[c] = mxSafe[c]
  BY CkptCopyEffect DEF IInv
<1>2. UNCHANGED <<log, logDisk, live, latest, reported, unreported, dbDisk, nBackfill>> /\ at[c] = "ckptCopy"
  BY DEF CkptCopy, index, ghosts, IsAt
<1>3. /\ nBackfill < mxSafe[c] /\ mxSafe[c] <= h /\ h <= live.mxFrame
      /\ nBackfill \in Nat /\ mxSafe[c] \in Nat /\ h \in Nat /\ live.mxFrame \in Nat
      /\ live.mxFrame <= MaxFrame /\ MaxFrame \in Nat /\ Copying(c)
  BY <1>2, CopyPlace DEF Copying
<1>4. ~IsWriter(c)'
  <2>1. mode[c] # "none"
    BY <1>2, CkptPlace DEF Checkpointing
  <2> QED BY <1>1, <2>1 DEF IsWriter
<1>5. PICK b \in 0..MaxFrame : Durable(b)
  BY DEF PowerInv
<1>6. mxSafe[c] <= b /\ b \in Nat
  BY <1>3, <1>5 DEF Durable, Fits, Follows
<1>7. log.salt = logDisk.salt /\ SameFrames(logDisk, log, b) /\ log.frame # NoLog.frame /\ b > 0 /\ live.mxFrame > 0
  BY <1>3, <1>5, <1>6, SameSalt DEF Durable
<1>8. IsLastOf(i, log, p, 1, h) /\ i \in Nat
  <2>1. IsLastOf(i, log, p, 1, h)
    BY <1>3, FindIs
  <2>2. i \in {0} \cup 1..h
    BY <2>1 DEF IsLastOf
  <2> QED BY <1>3, <2>1, <2>2
<1>9. /\ \A pg \in Pages \ {p} : db'[pg] = db[pg]
      /\ ~copies => db' = db
  <2>1. db \in [Pages -> Contents]
    BY DEF IInv, TypeOK
  <2>2. db' = IF copies THEN [db EXCEPT ![p] = log.frame[i].val] ELSE db
    BY DEF CkptCopy
  <2> HIDE DEF copies, i
  <2> QED BY <2>1, <2>2
<1>10. copies => i \in 1..b /\ log.frame[i].pg = p /\ logDisk.frame[i].pg = p
  <2>1. SUFFICES ASSUME copies PROVE i \in 1..b /\ log.frame[i].pg = p /\ logDisk.frame[i].pg = p
    OBVIOUS
  <2>2. i \in 1..b /\ i # 0
    BY <1>3, <1>6, <1>8, <2>1
  <2>3. log.frame[i].pg = p
    BY <1>8, <2>2 DEF IsLastOf
  <2>4. log.frame[i] = logDisk.frame[i]
    BY <1>7, <2>2 DEF SameFrames
  <2> QED BY <2>2, <2>3, <2>4
<1> HIDE DEF copies, i
<1>11. Covered(b)'
  <2>1. SUFFICES ASSUME NEW pg \in Pages, db'[pg] # dbDisk[pg] PROVE Find(logDisk, pg, 1, b) > 0
    BY <1>2 DEF Covered, Find
  <2>2. CASE db'[pg] = db[pg]
    BY <1>5, <2>1, <2>2 DEF Durable, Covered
  <2>3. CASE db'[pg] # db[pg]
    <3>1. pg = p /\ copies
      BY <1>9, <2>3
    <3>2. IsLastOf(Find(logDisk, pg, 1, b), logDisk, pg, 1, b)
      BY <1>6, FindIs
    <3>3. i <= Find(logDisk, pg, 1, b) /\ i \in 1..b
      BY <1>10, <3>1, <3>2 DEF IsLastOf
    <3>4. Find(logDisk, pg, 1, b) \in {0} \cup 1..b
      BY <3>2 DEF IsLastOf
    <3> QED BY <1>6, <3>3, <3>4
  <2> QED BY <2>2, <2>3
<1>12. Known(b)'
  <2>1. AnyKnown(b)
    BY <1>5, KnownIs DEF Durable
  <2>2. ASSUME NEW l, NEW salt, NEW m, MixedCommit(l, salt, m)', m >= b
        PROVE  DbAt(db', l, m) \in Kept'
    <3>1. MixedCommit(l, salt, m)
      BY <1>2, <2>2 DEF MixedCommit, Salts
    <3>2. DbAt(db, l, m) \in Kept /\ Kept' = Kept
      BY <1>2, <2>1, <2>2, <3>1 DEF AnyKnown, Kept
    <3>3. m \in Nat /\ m \in Frames
      BY <3>1, FrameNumbers DEF MixedCommit
    <3>4. ASSUME NEW pg \in Pages PROVE Content(db', l, pg, 1, m) = Content(db, l, pg, 1, m)
      <4>1. CASE db'[pg] = db[pg]
        BY <4>1 DEF Content
      <4>2. CASE db'[pg] # db[pg]
        <5>1. pg = p /\ copies
          BY <1>9, <4>2
        <5>2. i \in 1..b /\ i \in 1..m /\ l.frame[i].pg = pg
          <6>1. i \in 1..m
            BY <1>6, <1>10, <2>2, <3>3, <5>1
          <6>2. l.frame[i] \in {log.frame[i], logDisk.frame[i]}
            BY <3>1, <6>1 DEF MixedCommit
          <6> QED BY <1>10, <5>1, <6>1, <6>2
        <5>3. IsLastOf(Find(l, pg, 1, m), l, pg, 1, m)
          BY <3>3, FindIs
        <5>4. Find(l, pg, 1, m) # 0
          BY <3>3, <5>2, <5>3 DEF IsLastOf
        <5> QED BY <5>4 DEF Content
      <4> QED BY <4>1, <4>2
    <3>5. DbAt(db', l, m) = DbAt(db, l, m)
      BY <3>4 DEF DbAt
    <3> QED BY <3>2, <3>5
  <2>3. AnyKnown(b)'
    <3>1. \A l, m : DbAt(db, l, m)' = DbAt(db', l, m)
      BY DEF DbAt, Content, Find
    <3> QED BY <2>2, <3>1 DEF AnyKnown
  <2> QED BY <2>3, KnownNext DEF KnownWell
<1>13. Alone(b)'
  BY <1>2, <1>7 DEF Alone, Bare, NoLog
<1>14. Done'
  BY <1>2, <1>3 DEF Done
<1>15. Copying(c)' => Copying(c) /\ mxSafe'[c] = mxSafe[c]
  BY <1>1, <1>3
<1> QED BY <1>1, <1>2, <1>4, <1>5, <1>11, <1>12, <1>13, <1>14, <1>15, DbStep

-----------------------------------------------------------------------------
(* Losses of power: the log starts anew. *)

(* A salt that no frame has is accepted nowhere. *)
LEMMA SaltsFrom ==
    ASSUME NEW fresh, \A k \in Frames : log.frame[k].salt # fresh /\ logDisk.frame[k].salt # fresh,
           log'.frame = log.frame, logDisk'.frame = logDisk.frame, Salts' \subseteq Salts \cup {fresh},
           NEW l, NEW salt, NEW m, MixedCommit(l, salt, m)'
    PROVE  MixedCommit(l, salt, m)
<1>1. /\ salt \in Salts' /\ m \in Frames /\ Accepts(l, salt, m) /\ l.frame[m].commit
      /\ \A k \in 1..m : l.frame[k] \in {log.frame[k], logDisk.frame[k]}
  BY DEF MixedCommit
<1>2. 1 \in 1..m /\ 1 \in Frames
  BY <1>1, FrameNumbers
<1>3. l.frame[1].salt = salt /\ l.frame[1] \in {log.frame[1], logDisk.frame[1]}
  BY <1>1, <1>2 DEF Accepts
<1>4. salt # fresh
  BY <1>2, <1>3
<1> QED BY <1>1, <1>4 DEF MixedCommit

(* All of the log is in the database file, and synced. *)
LEMMA PowerRestarted ==
    ASSUME IInv, PowerInv, NEW c \in Conns, RestartedBy(c), writer = c,
           UNCHANGED <<dbDisk, logDisk, reported, unreported>>,
           live # NoHdr, nBackfill = live.mxFrame, \A q \in Conns \ {c} : ~Copying(q), DiskOk(c)'
    PROVE  PowerInv'
<1>1. /\ UNCHANGED <<db, log, nBackfill, latest, writer>> /\ live'.mxFrame = 0 /\ live'.salt = FreshSalt
      /\ Others(c) /\ hdr'[c] = live' /\ at'[c] = "restartIndex"
  BY DEF RestartedBy
<1>2. db = latest /\ db = dbDisk /\ db \in Kept
  <2>1. db = latest
    BY DbIsLatest
  <2> QED BY <2>1 DEF PowerInv, Done, NoGarbage
<1>3. NoGarbage'
  BY <1>1, GarbageStill DEF PowerInv
<1>4. Done'
  BY <1>1, <1>2 DEF Done
<1>5. \A q \in Conns \ {c} : ~IsWriter(q)' /\ ~Copying(q)'
  BY <1>1 DEF IsWriter, Others, Same, Copying
<1>6. Disks'
  BY <1>5 DEF Disks, DiskOk
<1>7. PICK b \in 0..MaxFrame : Durable(b)
  BY DEF PowerInv
<1>8. /\ \A k \in Frames : log.frame[k].salt # FreshSalt /\ logDisk.frame[k].salt # FreshSalt
      /\ FreshSalt # logDisk.salt
  BY FreshSaltIs
<1>9. Known(b)'
  <2>1. Salts' \subseteq Salts \cup {FreshSalt}
    BY <1>1 DEF Salts
  <2>2. \A l, salt, m : MixedCommit(l, salt, m)' => MixedCommit(l, salt, m)
    BY <1>1, <1>8, <2>1, SaltsFrom
  <2>3. Kept' = Kept
    BY DEF Kept
  <2> QED BY <1>1, <1>7, <2>2, <2>3, KnownFrom DEF Durable
<1>10. Alone(b)'
  BY <1>1, <1>2 DEF Alone, Kept
<1>11. Synced(b)'
  BY <1>1, <1>7 DEF Durable, Synced, Accepts, Sum, BodyOf, NoLog
<1>12. Covered(b)'
  BY <1>1, <1>7 DEF Durable, Covered, Find
<1>13. Follows(b, c)'
  <2>1. ~(hdr'[c].mxFrame > 0)
    BY <1>1
  <2> QED BY <1>1, <2>1 DEF Follows, Copying, InFrames
<1>14. \A q \in Conns : Follows(b, q)'
  BY <1>5, <1>13 DEF Follows
<1>15. Fits(b)'
  <2>1. ~(live'.mxFrame > 0)
    BY <1>1
  <2> QED BY <1>1, <1>7, <1>8, <1>14, <2>1 DEF Durable, Fits, NoLog
<1>16. Durable(b)'
  BY <1>9, <1>10, <1>11, <1>12, <1>15 DEF Durable
<1>17. \E d \in 0..MaxFrame : Durable(d)'
  BY <1>16
<1> QED BY <1>3, <1>4, <1>6, <1>17 DEF PowerInv

(* walRestartLog(), and a checkpoint that truncates. *)
LEMMA PowerRestart ==
    ASSUME IInv, PowerInv, NEW c \in Conns, Restart(c)
    PROVE  PowerInv'
<1>1. TypeOK /\ SelfOk(c) /\ at[c] = "restart" /\ nBackfill > 0 /\ LogIsUnused(c)
  BY SelfIs DEF IInv, Restart, IsAt
<1>2. /\ writer = c /\ mode[c] = "none" /\ readLock[c] = 0 /\ ckpter # c /\ IsWriter(c)
  BY <1>1 DEF SelfOk, PhaseOk, Reading, Framing, Checkpointing, IsWriter
<1>3. hdr[c] = live /\ live # NoHdr
  BY <1>2, WriterIs DEF WriterHdrOk
<1>4. \A q \in Conns \ {c} : ~Holds(q) /\ ~Restarting(q) /\ ~Copying(q)
  BY <1>1, <1>2, Unused DEF IInv, Phases, Exclusive
<1>5. nBackfill = live.mxFrame
  <2>1. ~RestartGoesOn
    BY <1>1, <1>4 DEF RestartGoesOn, Restarting
  <2>2. nBackfill \in {0, live.mxFrame}
    BY <1>1, <1>2, <1>3, <2>1 DEF SelfOk, DbReaderOk, SameLog
  <2> QED BY <1>1, <2>2
<1>6. UNCHANGED <<db, log, nBackfill, latest, writer, ckpter, dbDisk, logDisk, reported, unreported>> /\ RestartHdr(c)
  BY DEF Restart, files, locks, ghosts
<1>7. RestartedBy(c)
  <2>1. live' = [salt |-> FreshSalt, mxFrame |-> 0, iChange |-> hdr[c].iChange] /\ intact' = TRUE
    BY <1>1, <1>6, RestartHdrIs
  <2>2. live'.mxFrame = 0 /\ live'.salt = FreshSalt
    BY <2>1
  <2>3. intact'
    BY <2>1, Zenon
  <2> QED BY <1>1, <1>6, <2>2, <2>3, RestartEffect DEF RestartedBy
<1>8. /\ at'[c] = "restartIndex" /\ hdr'[c] = live' /\ live'.mxFrame = 0 /\ log' = log /\ logDisk' = logDisk
      /\ tx'[c] = tx[c] /\ dirty'[c] = dirty[c]
  BY <1>6, <1>7 DEF RestartedBy
<1>9. DiskOk(c)'
  <2>1. CleanTx(c) /\ FreshDisk(c)
    BY <1>2 DEF PowerInv, Disks, DiskOk
  <2>2. Top(c)' = 0 /\ Commits(c)' = FALSE
    BY <1>8 DEF Top, Commits, InFrames
  <2>3. OwnFrames(c)' = {} /\ ~(Top(c)' > live'.mxFrame)
    BY <1>8, <2>2 DEF OwnFrames
  <2>4. CleanTx(c)'
    BY <1>8, <2>1, <2>3 DEF CleanTx
  <2>5. FreshDisk(c)'
    BY <1>8, <2>1 DEF FreshDisk
  <2>6. CutDisk(c)' /\ Unfinished(c)'
    BY <2>2, <2>3 DEF CutDisk, Unfinished
  <2> QED BY <1>8, <2>4, <2>5, <2>6 DEF DiskOk
<1> QED BY <1>2, <1>3, <1>4, <1>5, <1>6, <1>7, <1>9, PowerRestarted

LEMMA PowerCkptRestart ==
    ASSUME IInv, PowerInv, NEW c \in Conns, CkptRestart(c)
    PROVE  PowerInv'
<1>1. TypeOK /\ SelfOk(c) /\ at[c] = "ckptEnd" /\ nBackfill = hdr[c].mxFrame /\ mode[c] = "TRUNCATE"
  BY SelfIs DEF IInv, CkptRestart, IsAt, RestartsLog
<1>2. /\ writer = c /\ ckpter = c /\ live # NoHdr
  BY <1>1, CkptPlace DEF Checkpointing
<1>3. hdr[c] = live
  BY <1>1 DEF SelfOk, CkptOk
<1>4. \A q \in Conns \ {c} : ~Copying(q)
  BY <1>2, OthersCopy DEF Copying, Checkpointing
<1>5. UNCHANGED <<db, log, nBackfill, latest, writer, ckpter, dbDisk, logDisk, reported, unreported>> /\ RestartHdr(c)
  BY DEF CkptRestart, files, locks, ghosts
<1>6. RestartedBy(c)
  <2>1. live' = [salt |-> FreshSalt, mxFrame |-> 0, iChange |-> hdr[c].iChange] /\ intact' = TRUE
    BY <1>1, <1>5, RestartHdrIs
  <2>2. live'.mxFrame = 0 /\ live'.salt = FreshSalt
    BY <2>1
  <2>3. intact'
    BY <2>1, Zenon
  <2> QED BY <1>1, <1>5, <2>2, <2>3, CkptRestartEffect DEF RestartedBy
<1>7. DiskOk(c)'
  BY <1>1, <1>6 DEF RestartedBy, DiskOk, IsWriter
<1> QED BY <1>1, <1>2, <1>3, <1>4, <1>5, <1>6, <1>7, PowerRestarted

-----------------------------------------------------------------------------
(* Losses of power: recovery, truncation and the header of a new log. *)

LEMMA SyncedStill ==
    ASSUME NEW b, Synced(b), log'.frame = log.frame, logDisk' = logDisk
    PROVE  Synced(b)'
<1>1. Accepts(logDisk, logDisk.salt, b)' = Accepts(logDisk, logDisk.salt, b)
  BY DEF Accepts, Sum, BodyOf
<1> QED BY <1>1 DEF Synced, NoLog

(* The wal-index counts no frames: the database file has everything. *)
LEMMA NothingCounted ==
    ASSUME live # NoHdr, live.mxFrame = 0, NEW b, Durable(b)
    PROVE  db = dbDisk /\ db \in Kept
BY DEF Durable, Alone, Bare

LEMMA NobodyCopies ==
    ASSUME IInv, live.mxFrame = 0
    PROVE  \A q \in Conns : ~Copying(q)
<1>1. SUFFICES ASSUME NEW q \in Conns, Copying(q) PROVE FALSE
  OBVIOUS
<1>2. at[q] \in {"ckptLock", "ckptCopy", "ckptDone"}
  BY <1>1 DEF Copying
<1>3. /\ nBackfill < mxSafe[q] /\ mxSafe[q] <= hdr[q].mxFrame /\ hdr[q].mxFrame <= live.mxFrame
      /\ nBackfill \in Nat /\ mxSafe[q] \in Nat /\ hdr[q].mxFrame \in Nat
  BY <1>1, <1>2, CopyPlace
<1> QED BY <1>3

(* What recovery finds in the log now, and what is on disk. *)
LEMMA RecoveredDisk ==
    ASSUME NEW b \in 0..MaxFrame, Synced(b)
    PROVE  /\ LastCommit(log) \in Nat /\ LastCommit(log) <= MaxFrame
           /\ LastCommit(log) = 0 /\ b > 0 /\ log.frame # NoLog.frame => log.salt # logDisk.salt
           /\ LastCommit(log) > 0 => b <= LastCommit(log)
<1> DEFINE m == LastCommit(log)
<1>1. /\ m \in 0..MaxFrame
      /\ m # 0 => Accepts(log, log.salt, m)
      /\ \A i \in Frames : Accepts(log, log.salt, i) /\ log.frame[i].commit => i <= m
  BY LastCommitIs, AcceptedIs
<1>2. MaxFrame \in Nat /\ b \in Nat /\ m \in Nat /\ m <= MaxFrame
  BY <1>1, FrameNumbers
<1> HIDE DEF m
<1>3. ASSUME b > 0, log.frame # NoLog.frame, log.salt = logDisk.salt PROVE b <= m
  <2>1. Accepts(logDisk, logDisk.salt, b) /\ logDisk.frame[b].commit /\ \A k \in 1..b : log.frame[k] = logDisk.frame[k]
    BY <1>3 DEF Synced
  <2>2. b \in Frames /\ b \in 1..b
    BY <1>2, <1>3, FrameNumbers
  <2>3. SameFrames(logDisk, log, b)
    BY <2>1 DEF SameFrames
  <2>4. Accepts(log, log.salt, b)
    BY <1>2, <1>3, <2>1, <2>3, AcceptsSame
  <2> QED BY <1>1, <2>1, <2>2, <2>4
<1>4. ASSUME m > 0, b > 0 PROVE log.frame # NoLog.frame /\ log.salt = logDisk.salt
  <2>1. m \in Frames /\ 1 \in 1..m /\ 1 \in 1..b /\ 1 \in Frames
    BY <1>2, <1>4, FrameNumbers
  <2>2. Accepts(log, log.salt, m)
    BY <1>1, <1>2, <1>4
  <2>3. log.frame # NoLog.frame
    <3>1. SUFFICES ASSUME log.frame = NoLog.frame PROVE FALSE
      OBVIOUS
    <3>2. log.frame[1] = NoFrame
      BY <2>1, <3>1 DEF NoLog
    <3> QED BY <2>1, <2>2, <3>2, NothingAccepted
  <2>4. Accepts(logDisk, logDisk.salt, b) /\ log.frame[1] = logDisk.frame[1]
    BY <1>4, <2>1, <2>3 DEF Synced
  <2> QED BY <2>1, <2>2, <2>3, <2>4 DEF Accepts
<1>5. m = 0 /\ b > 0 /\ log.frame # NoLog.frame => log.salt # logDisk.salt
  BY <1>2, <1>3
<1>6. m > 0 => b <= m
  BY <1>2, <1>3, <1>4
<1> QED BY <1>2, <1>5, <1>6 DEF m

(* All processes die. *)
LEMMA PowerAllDie ==
    ASSUME IInv, PowerInv, AllDie
    PROVE  PowerInv'
<1>1. /\ UNCHANGED <<db, dbDisk, log, logDisk, latest, reported, unreported>>
      /\ live' = NoHdr /\ writer' = None /\ \A q \in Conns : at'[q] \in {"idle", "gone"}
  <2>1. writer \in Conns \cup {None}
    BY DEF IInv, TypeOK
  <2> QED BY <2>1 DEF AllDie, IndexIsLost, Forget, files
<1>2. live'.salt = -1 /\ live'.mxFrame = 0 /\ ~(live'.mxFrame > 0) /\ live' = NoHdr'
  BY <1>1 DEF NoHdr
<1>3. \A q \in Conns : ~IsWriter(q)' /\ ~Copying(q)'
  BY <1>1, BoundsAssumption DEF IsWriter, Copying
<1>4. NoGarbage' /\ Done' /\ Disks'
  BY <1>1, <1>2, <1>3, GarbageStill DEF PowerInv, Done, Disks, DiskOk
<1>5. PICK b \in 0..MaxFrame : Durable(b)
  BY DEF PowerInv
<1>6. Known(b)'
  <2>1. \A k \in Frames : log.frame[k].salt # -1 /\ logDisk.frame[k].salt # -1
    <3>1. log \in Log /\ logDisk \in Log
      BY DEF IInv, TypeOK
    <3>2. \A k \in Frames : log.frame[k].salt \in Nat /\ logDisk.frame[k].salt \in Nat
      BY <3>1 DEF Log, Frame
    <3> QED BY <3>2
  <2>2. Salts' \subseteq Salts \cup {-1}
    BY <1>1, <1>2 DEF Salts
  <2>3. \A l, salt, m : MixedCommit(l, salt, m)' => MixedCommit(l, salt, m)
    BY <1>1, <2>1, <2>2, SaltsFrom
  <2>4. Kept' = Kept
    BY <1>1 DEF Kept
  <2> QED BY <1>1, <1>5, <2>3, <2>4, KnownFrom DEF Durable
<1>7. Alone(b)'
  BY <1>1, <1>2, <1>5 DEF Durable, Alone, Bare, Kept, NoLog
<1>8. Synced(b)'
  BY <1>1, <1>5, SyncedStill DEF Durable
<1>9. Covered(b)'
  BY <1>1, <1>5 DEF Durable, Covered, Find
<1>10. Fits(b)'
  BY <1>1, <1>2, <1>3, <1>5 DEF Durable, Fits, Follows, NoLog
<1>11. \E d \in 0..MaxFrame : Durable(d)'
  BY <1>6, <1>7, <1>8, <1>9, <1>10 DEF Durable
<1> QED BY <1>4, <1>11 DEF PowerInv

(* walIndexRecover() counts the frames up to the last commit. *)
LEMMA PowerRecoverHdr ==
    ASSUME IInv, DeathInv, PowerInv, NEW c \in Conns, RecoverHdr(c)
    PROVE  PowerInv'
<1>1. /\ Others(c) /\ at'[c] = "recoverReset"
  BY RecoverHdrEffect DEF IInv
<1>2. /\ UNCHANGED <<db, dbDisk, log, logDisk, reported, unreported, nBackfill>> /\ writer' = c
      /\ live' = [salt |-> log.salt, mxFrame |-> LastCommit(log), iChange |-> 0]
      /\ latest' = Recovered(db, log) /\ ~intact /\ ckpter \in {c, None}
  BY DEF RecoverHdr, files, Free
<1>3. live'.salt = log.salt /\ live'.mxFrame = LastCommit(log)
  BY <1>2
<1>4. Kept' = Kept /\ latest' \in Kept
  <2>1. Kept' = Kept
    BY <1>2 DEF Kept
  <2>2. latest' \in {latest} \cup unreported
    BY <1>2 DEF DeathInv, DeathIsHarmless
  <2> QED BY <2>1, <2>2 DEF PowerInv, NoGarbage, Kept
<1>5. \A q \in Conns : ~Copying(q)' /\ ~IsWriter(q)'
  <2>1. \A q \in Conns \ {c} : ~Copying(q)
    BY <1>2, CkptPlace, BoundsAssumption DEF Copying, Checkpointing
  <2>2. \A q \in Conns \ {c} : ~Copying(q)' /\ ~IsWriter(q)'
    BY <1>1, <1>2, <2>1 DEF Others, Same, Copying, IsWriter
  <2>3. ~Copying(c)' /\ ~IsWriter(c)'
    BY <1>1 DEF Copying, IsWriter
  <2> QED BY <2>2, <2>3
<1>6. NoGarbage'
  BY <1>2, <1>4 DEF PowerInv, NoGarbage, CleanSums
<1>7. Disks'
  BY <1>5 DEF Disks, DiskOk
<1>8. PICK b \in 0..MaxFrame : Durable(b)
  BY DEF PowerInv
<1>9. /\ LastCommit(log) \in Nat /\ LastCommit(log) <= MaxFrame /\ MaxFrame \in Nat /\ b \in Nat
      /\ LastCommit(log) = 0 /\ b > 0 /\ log.frame # NoLog.frame => log.salt # logDisk.salt
      /\ LastCommit(log) > 0 => b <= LastCommit(log)
  BY <1>8, RecoveredDisk, FrameNumbers DEF Durable
<1>10. LastCommit(log) = 0 => Bare(b)
  BY <1>9 DEF Bare
<1>11. LastCommit(log) = 0 => db = dbDisk /\ db \in Kept
  BY <1>8, <1>10 DEF Durable, Alone
<1>12. Done'
  <2>1. SUFFICES ASSUME nBackfill = LastCommit(log), LastCommit(log) # 0 PROVE db = dbDisk
    BY <1>2, <1>3, <1>11 DEF Done
  <2>2. live # NoHdr
    BY <2>1 DEF IInv, IndexInv, NoIndex
  <2>3. ~RestartGoesOn
    BY <1>2 DEF IInv, Phases, Exclusive, Restarting, RestartGoesOn
  <2>4. nBackfill <= live.mxFrame /\ nBackfill \in Nat /\ live.mxFrame \in Nat
    BY <2>3, Numbers DEF IInv, IndexInv, NumbersOk
  <2>5. live.mxFrame <= LastCommit(log)
    <3>1. live.mxFrame > 0
      BY <1>9, <2>1, <2>4
    <3>2. live.mxFrame \in Frames /\ Accepted(log, live.mxFrame) /\ log.frame[live.mxFrame].commit
      BY <3>1, PublishedLog, AcceptedIs
    <3> QED BY <3>2, LastCommitIs
  <2> QED BY <2>1, <2>2, <2>4, <2>5 DEF PowerInv, Done
<1>13. Known(b)'
  <2>1. \A l, salt, m : MixedCommit(l, salt, m)' => MixedCommit(l, salt, m)
    BY <1>2, <1>3 DEF MixedCommit, Salts
  <2> QED BY <1>2, <1>4, <1>8, <2>1, KnownFrom DEF Durable
<1>14. Alone(b)'
  <2>1. Bare(b)' => Bare(b)
    <3>1. Bare(b)' => b = 0 \/ log.salt # logDisk.salt \/ log.frame = NoLog.frame \/ LastCommit(log) = 0
      BY <1>2, <1>3 DEF Bare, NoLog
    <3> QED BY <1>10, <3>1 DEF Bare
  <2> QED BY <1>2, <1>4, <1>8, <2>1 DEF Durable, Alone
<1>15. Synced(b)'
  BY <1>2, <1>8, SyncedStill DEF Durable
<1>16. Covered(b)'
  BY <1>2, <1>8 DEF Durable, Covered, Find
<1>17. Fits(b)'
  <2>1. b > 0 /\ log.frame = NoLog.frame => log.salt # logDisk.salt
    BY <1>8 DEF Durable, Fits
  <2>2. (b > 0 /\ log.frame = NoLog.frame => log.salt # logDisk.salt)'
    BY <1>2, <2>1 DEF NoLog
  <2>3. (b > 0 /\ live # NoHdr /\ live.mxFrame = 0 => live.salt # logDisk.salt)'
    BY <1>2, <1>3, <1>9, <2>1
  <2>4. (live.mxFrame > 0 => b <= live.mxFrame)'
    BY <1>3, <1>9
  <2>5. \A q \in Conns : Follows(b, q)'
    BY <1>5 DEF Follows
  <2> QED BY <2>2, <2>3, <2>4, <2>5 DEF Fits
<1>18. \E d \in 0..MaxFrame : Durable(d)'
  BY <1>13, <1>14, <1>15, <1>16, <1>17 DEF Durable
<1> QED BY <1>6, <1>7, <1>12, <1>18 DEF PowerInv

(* walCheckpoint() truncates the log. *)
LEMMA PowerTruncate ==
    ASSUME IInv, PowerInv, NEW c \in Conns, Truncate(c)
    PROVE  PowerInv'
<1>1. /\ Others(c) /\ at'[c] = "idle" /\ writer' # c
  BY TruncateEffect DEF IInv
<1>2. at[c] = "truncate" /\ log' = NoLog /\ UNCHANGED <<db, dbDisk, logDisk, live, nBackfill, latest, reported, unreported>>
  BY DEF Truncate, CkptReturn, index, IsAt
<1>3. writer = c /\ ckpter = c /\ live # NoHdr /\ live.mxFrame = 0
  <2>1. SelfOk(c)
    BY SelfIs
  <2>2. writer = c /\ ckpter = c
    BY <1>2, <2>1 DEF SelfOk, PhaseOk, Reading, Framing, Checkpointing
  <2>3. live.mxFrame = 0
    BY <1>2, <2>1 DEF SelfOk, CkptOk, Restarting
  <2> QED BY <1>2, <2>2, <2>3, CkptPlace
<1>4. PICK b \in 0..MaxFrame : Durable(b)
  BY DEF PowerInv
<1>5. db = dbDisk /\ db \in Kept
  BY <1>3, <1>4, NothingCounted
<1>6. \A q \in Conns : ~Copying(q)' /\ ~IsWriter(q)'
  <2>1. \A q \in Conns \ {c} : ~Copying(q)' /\ ~IsWriter(q)'
    BY <1>1, <1>3, NobodyCopies DEF Others, Same, Copying, IsWriter
  <2> QED BY <1>1, <2>1 DEF Copying, IsWriter
<1>7. log'.frame = NoLog.frame /\ log'.salt = 0 /\ \A k \in Frames : log'.frame[k] = NoFrame
  BY <1>2 DEF NoLog
<1>8. Kept' = Kept
  BY <1>2 DEF Kept
<1>9. NoGarbage'
  <2>1. CleanSums(NoLog)
    BY DEF CleanSums, NoLog, NoFrame
  <2> QED BY <1>2, <1>8, <2>1 DEF PowerInv, NoGarbage, CleanSums
<1>10. Done' /\ Disks'
  BY <1>2, <1>5, <1>6 DEF Done, Disks, DiskOk
<1>11. Synced(b)'
  <2>1. Accepts(logDisk, logDisk.salt, b)' = Accepts(logDisk, logDisk.salt, b)
    BY <1>2 DEF Accepts, Sum, BodyOf
  <2>2. log'.frame = NoLog'.frame
    BY <1>7 DEF NoLog
  <2> QED BY <1>2, <1>4, <2>1, <2>2 DEF Durable, Synced
<1>12. Covered(b)' /\ Alone(b)'
  BY <1>2, <1>5, <1>8 DEF Covered, Alone
<1>13. Known(b)'
  <2>1. ASSUME NEW l, NEW salt, NEW m, MixedCommit(l, salt, m)' PROVE MixedCommit(l, salt, m)
    <3>1. /\ salt \in Salts' /\ m \in Frames /\ Accepts(l, salt, m) /\ l.frame[m].commit
          /\ \A k \in 1..m : l.frame[k] \in {log'.frame[k], logDisk.frame[k]}
      BY <1>2, <2>1 DEF MixedCommit
    <3>2. \A k \in 1..m : l.frame[k] = logDisk.frame[k]
      <4>1. SUFFICES ASSUME NEW k \in 1..m, l.frame[k] # logDisk.frame[k] PROVE FALSE
        OBVIOUS
      <4>2. k \in Frames
        BY <3>1, FrameNumbers
      <4>3. l.frame[k] = NoFrame
        BY <1>7, <3>1, <4>1, <4>2
      <4> QED BY <3>1, <4>3, NothingAccepted
    <3>3. salt # 0
      <4>1. 1 \in 1..m
        BY <3>1, FrameNumbers
      <4> QED BY <3>1, <4>1 DEF Accepts
    <3>4. salt \in Salts
      BY <1>2, <1>7, <3>1, <3>3 DEF Salts
    <3> QED BY <3>1, <3>2, <3>4 DEF MixedCommit
  <2> QED BY <1>2, <1>4, <1>8, <2>1, KnownFrom DEF Durable
<1>14. Fits(b)'
  <2>1. b > 0 => logDisk.salt # 0
    <3>1. b > 0 => 1 \in 1..b
      OBVIOUS
    <3> QED BY <1>4, <3>1 DEF Durable, Synced, Accepts
  <2>2. ~(live'.mxFrame > 0)
    BY <1>2, <1>3
  <2>3. (b > 0 /\ live # NoHdr /\ live.mxFrame = 0 => live.salt # logDisk.salt)'
    BY <1>2, <1>3, <1>4 DEF Durable, Fits
  <2>4. \A q \in Conns : Follows(b, q)'
    BY <1>6 DEF Follows
  <2> QED BY <1>2, <1>7, <2>1, <2>2, <2>3, <2>4 DEF Fits
<1>15. \E d \in 0..MaxFrame : Durable(d)'
  BY <1>11, <1>12, <1>13, <1>14 DEF Durable
<1> QED BY <1>9, <1>10, <1>15 DEF PowerInv

(* sqlite3WalFrames(): the header of a new log is written, then synced. *)
LEMMA PowerWalHdr ==
    ASSUME IInv, DeathInv, PowerInv, NEW c \in Conns, WalHdr(c)
    PROVE  PowerInv'
<1>1. at[c] = "walHdr"
  BY DEF WalHdr, IsAt
<1>2. IsWriter(c) /\ writer = c /\ mode[c] = "none"
  BY <1>1, WriterFrames DEF Framing
<1>3. /\ WriterHdrOk(c) /\ hdr[c].salt \in Nat /\ live # NoHdr
      /\ hdr[c].mxFrame \in Nat /\ live.mxFrame \in Nat /\ live.mxFrame <= hdr[c].mxFrame
  BY <1>2, WriterIs
<1>4. PICK salt \in Nat \ {0}, h \in Hdr :
         /\ salt = FreshSalt \/ salt = hdr[c].salt
         /\ h.salt = salt /\ h.mxFrame = hdr[c].mxFrame /\ hdr' = Set(hdr, c, h)
         /\ log'.salt = salt /\ log'.frame = log.frame
  BY <1>3, WalHdrIs DEF IInv
<1>5. UNCHANGED <<db, dbDisk, logDisk, live, latest, nBackfill, writer, dirty, tx, reCksum, mode, mxSafe, reported, unreported>>
  BY DEF WalHdr, index, locks, writing, checkpointing, ghosts
<1>6. hdr'[c] = h /\ at' = Set(at, c, "syncHdr") /\ at'[c] = "syncHdr"
  <2>1. hdr \in [Conns -> Hdr] /\ at \in [Conns -> Steps]
    BY DEF IInv, TypeOK
  <2> QED BY <1>4, <2>1 DEF WalHdr, Goto, Set
<1>7. hdr[c].mxFrame = 0 /\ live.mxFrame = 0
  BY <1>1, <1>3 DEF WriterHdrOk
<1>8. hdr[c].salt = live.salt
  <2>1. CallOk(c)
    BY <1>2 DEF DeathInv, Transactions, TransactionOk
  <2> QED BY <1>1, <1>7, <2>1 DEF CallOk, InFrames, SameLog
<1>9. PICK b \in 0..MaxFrame : Durable(b)
  BY DEF PowerInv
<1>10. db = dbDisk /\ db \in Kept
  BY <1>3, <1>7, <1>9, NothingCounted
<1>11. b > 0 => salt # logDisk.salt
  <2>1. b > 0 => live.salt # logDisk.salt
    BY <1>3, <1>7, <1>9 DEF Durable, Fits
  <2> QED BY <1>4, <1>8, <2>1, FreshSaltIs
<1>12. Kept' = Kept
  BY <1>5 DEF Kept
<1>13. NoGarbage' /\ Done'
  BY <1>4, <1>5, <1>10, <1>12 DEF PowerInv, NoGarbage, CleanSums, Done
<1>14. \A q \in Conns \ {c} : ~IsWriter(q)'
  BY <1>2, <1>5 DEF IsWriter
<1>15. \A q \in Conns : ~Copying(q)'
  <2>1. \A q \in Conns : ~Copying(q)
    BY <1>7, NobodyCopies
  <2>2. at \in [Conns -> Steps]
    BY DEF IInv, TypeOK
  <2> QED BY <1>6, <2>1, <2>2 DEF Set, Copying
<1>16. Top(c)' = 0 /\ Commits(c)' = FALSE /\ OwnFrames(c)' = {} /\ ~(Top(c)' > live'.mxFrame)
  <2>1. Top(c)' = 0 /\ Commits(c)' = FALSE
    BY <1>4, <1>6, <1>7 DEF Top, InFrames, Commits
  <2> QED BY <1>5, <1>7, <2>1 DEF OwnFrames
<1>17. DiskOk(c)'
  <2>1. CleanTx(c) /\ FreshDisk(c)
    BY <1>2 DEF PowerInv, Disks, DiskOk
  <2>2. CleanTx(c)'
    BY <1>5, <1>16, <2>1 DEF CleanTx
  <2>3. FreshDisk(c)'
    BY <1>5, <2>1 DEF FreshDisk
  <2>4. CutDisk(c)' /\ Unfinished(c)'
    BY <1>16 DEF CutDisk, Unfinished
  <2> QED BY <1>6, <2>2, <2>3, <2>4 DEF DiskOk
<1>18. Disks'
  BY <1>14, <1>17 DEF Disks, DiskOk
<1>19. Synced(b)'
  BY <1>4, <1>5, <1>9, SyncedStill DEF Durable
<1>20. Covered(b)' /\ Alone(b)'
  BY <1>5, <1>10, <1>12 DEF Covered, Alone
<1>21. Known(b)'
  <2>1. Salts' \subseteq Salts \cup {FreshSalt}
    BY <1>4, <1>5, <1>8 DEF Salts
  <2>2. \A k \in Frames : log.frame[k].salt # FreshSalt /\ logDisk.frame[k].salt # FreshSalt
    BY FreshSaltIs
  <2>3. \A l, s, m : MixedCommit(l, s, m)' => MixedCommit(l, s, m)
    BY <1>4, <1>5, <2>1, <2>2, SaltsFrom
  <2> QED BY <1>5, <1>9, <1>12, <2>3, KnownFrom DEF Durable
<1>22. Fits(b)'
  <2>1. Follows(b, c)'
    <3>1. ~(hdr'[c].mxFrame > 0) /\ (b > 0 => log'.salt # logDisk'.salt)
      BY <1>4, <1>5, <1>6, <1>7, <1>11
    <3> QED BY <1>6, <1>15, <3>1 DEF Follows, InFrames
  <2>2. \A q \in Conns : Follows(b, q)'
    BY <1>14, <1>15, <2>1 DEF Follows
  <2>3. (b > 0 /\ live # NoHdr /\ live.mxFrame = 0 => live.salt # logDisk.salt)'
    BY <1>3, <1>5, <1>7, <1>9 DEF Durable, Fits
  <2>4. ~(live'.mxFrame > 0)
    BY <1>5, <1>7
  <2> QED BY <1>4, <1>5, <1>11, <2>2, <2>3, <2>4 DEF Fits
<1>23. \E d \in 0..MaxFrame : Durable(d)'
  BY <1>19, <1>20, <1>21, <1>22 DEF Durable
<1> QED BY <1>13, <1>18, <1>23 DEF PowerInv

LEMMA PowerSyncHdr ==
    ASSUME IInv, DeathInv, PowerInv, NEW c \in Conns, SyncHdr(c)
    PROVE  PowerInv'
<1>1. /\ Others(c) /\ at'[c] = "frames" /\ hdr'[c] = hdr[c] /\ dirty'[c] = dirty[c] /\ tx'[c] = tx[c]
      /\ reCksum'[c] = reCksum[c] /\ iFrame'[c] = iFrame[c]
  BY SyncHdrEffect DEF IInv
<1>2. SyncsLog /\ at[c] = "syncHdr"
  BY DEF SyncHdr, index, ghosts, SyncsLog, IsAt
<1>3. IsWriter(c)
  BY <1>2, WriterFrames DEF Framing
<1>4. /\ WriterHdrOk(c) /\ ListOk(c) /\ live # NoHdr
      /\ hdr[c].mxFrame \in Nat /\ live.mxFrame \in Nat /\ live.mxFrame <= hdr[c].mxFrame
  BY <1>3, WriterIs
<1>5. hdr[c].mxFrame = 0 /\ live.mxFrame = 0 /\ iFrame[c] = 0
  BY <1>2, <1>4 DEF WriterHdrOk, ListOk
<1>6. Top(c)' = Top(c) /\ Commits(c)' = Commits(c)
  BY <1>1, <1>2, <1>5 DEF Top, InFrames, Commits
<1>7. PICK b \in 0..MaxFrame : Durable(b)
  BY DEF PowerInv
<1>8. db = dbDisk /\ db \in Kept
  BY <1>4, <1>5, <1>7, NothingCounted
<1>9. log' = log /\ logDisk' = log /\ live' = live /\ db' = db /\ dbDisk' = dbDisk /\ Kept' = Kept
  BY <1>2 DEF SyncsLog, Kept
<1>10. Known(0)'
  <2>1. ASSUME NEW l, NEW salt, NEW m, MixedCommit(l, salt, m)' PROVE MixedCommit(l, salt, m) /\ m >= b
    <3>1. MixedCommit(l, salt, m)
      BY <1>9, <2>1, MixedSynced
    <3>2. /\ m \in Frames /\ Accepts(l, salt, m) /\ salt \in {log.salt, live.salt}
          /\ \A k \in 1..m : l.frame[k] = log.frame[k]
      BY <1>9, <2>1 DEF MixedCommit, Salts
    <3>3. 1 \in 1..m /\ 1 \in Frames /\ m \in Nat
      BY <3>2, FrameNumbers
    <3>4. ASSUME b > 0 PROVE FALSE
      <4>1. log.frame # NoLog.frame
        <5>1. SUFFICES ASSUME log.frame = NoLog.frame PROVE FALSE
          OBVIOUS
        <5>2. l.frame[1] = NoFrame
          BY <3>2, <3>3, <5>1 DEF NoLog
        <5> QED BY <3>2, <3>3, <5>2, NothingAccepted
      <4>2. 1 \in 1..b
        BY <3>4
      <4>3. logDisk.frame[1].salt = logDisk.salt /\ log.frame[1] = logDisk.frame[1]
        BY <1>7, <3>4, <4>1, <4>2 DEF Durable, Synced, Accepts
      <4>4. log.salt # logDisk.salt
        BY <1>2, <1>3, <1>7, <3>4 DEF Durable, Fits, Follows
      <4>5. live.salt # logDisk.salt
        BY <1>4, <1>5, <1>7, <3>4 DEF Durable, Fits
      <4>6. l.frame[1].salt = salt
        BY <3>2, <3>3 DEF Accepts
      <4> QED BY <3>2, <3>3, <4>3, <4>4, <4>5, <4>6
    <3>5. m >= b
      BY <3>3, <3>4
    <3> QED BY <3>1, <3>5
  <2> QED BY <1>7, <1>9, <2>1, KnownFrom DEF Durable
<1>11. Synced(0)' /\ Covered(0)' /\ Alone(0)'
  BY <1>8, <1>9 DEF Synced, Covered, Alone
<1>12. Fits(0)'
  <2>1. \A q \in Conns : ~Copying(q)'
    <3>1. \A q \in Conns : ~Copying(q)
      BY <1>5, NobodyCopies
    <3> QED BY <1>1, <3>1 DEF Others, Same, Copying
  <2>2. Headed' /\ 0 <= live'.mxFrame
    BY <1>5, <1>9 DEF Headed
  <2>3. \A q \in Conns : Follows(0, q)'
    BY <2>1, <2>2 DEF Follows
  <2> QED BY <2>2, <2>3 DEF Fits
<1>13. 0 \in 0..MaxFrame
  BY FrameNumbers
<1>14. Durable(0)'
  BY <1>10, <1>11, <1>12 DEF Durable
<1>15. \E d \in 0..MaxFrame : Durable(d)'
  BY <1>13, <1>14
<1> QED BY <1>1, <1>2, <1>3, <1>6, <1>15, SyncStep

-----------------------------------------------------------------------------
(* Losses of power: the writer writes a frame. *)

(* Equal checksums cover equal frames. *)
LEMMA SameBodies ==
    ASSUME NEW f, NEW l, NEW m, NEW n \in Nat, Sum(l, n) = Sum(m, n)
    PROVE  DbAt(f, l, n) = DbAt(f, m, n)
<1>1. ASSUME NEW k \in 1..n PROVE l.frame[k].pg = m.frame[k].pg /\ l.frame[k].val = m.frame[k].val
  <2>1. Sum(l, n)[k] = BodyOf(l.frame[k]) /\ Sum(m, n)[k] = BodyOf(m.frame[k])
    BY DEF Sum
  <2>2. BodyOf(l.frame[k]) = BodyOf(m.frame[k])
    BY <2>1
  <2> QED BY <2>2 DEF BodyOf
<1>2. ASSUME NEW pg \in Pages PROVE Content(f, l, pg, 1, n) = Content(f, m, pg, 1, n)
  <2>1. Find(l, pg, 1, n) = Find(m, pg, 1, n)
    BY <1>1, FindSame
  <2>2. Find(m, pg, 1, n) = 0 \/ Find(m, pg, 1, n) \in 1..n
    BY FindIs DEF IsLastOf
  <2> QED BY <1>1, <2>1, <2>2 DEF Content
<1> QED BY <1>2 DEF DbAt

(* A commit at or behind the frames of a writer is its own. *)
LEMMA MixCommit ==
    ASSUME IInv, NEW c \in Conns, IsWriter(c), CutOk(c), MarkedOk(c), CutDisk(c), Unfinished(c),
           Top(c) > live.mxFrame,
           NEW l, NEW s, NEW m, MixedCommit(l, s, m), m > live.mxFrame,
           BodyOf(l.frame[live.mxFrame + 1]) = BodyOf(log.frame[live.mxFrame + 1])
    PROVE  DbAt(db, l, m) \in Kept
<1> DEFINE i == live.mxFrame + 1
<1>1. /\ live.mxFrame \in Nat /\ Top(c) \in Nat /\ m \in Nat /\ m \in Frames /\ m <= MaxFrame /\ MaxFrame \in Nat
      /\ i \in 1..m /\ m \in 1..m
  <2>1. Top(c) \in Nat /\ live.mxFrame \in Nat
    BY Numbers DEF IInv, NumbersOk, Top
  <2>2. m \in Frames
    BY DEF MixedCommit
  <2> QED BY <2>1, <2>2, FrameNumbers
<1>2. /\ l.frame[m].commit /\ l.frame[m].sum = Sum(l, m)
      /\ l.frame[m] = log.frame[m] \/ l.frame[m] = logDisk.frame[m]
  BY <1>1 DEF MixedCommit, Accepts
<1>3. i \in DOMAIN Sum(l, m) /\ Sum(l, m)[i] = BodyOf(log.frame[i])
  BY <1>1 DEF Sum
<1> HIDE DEF i
<1>4. ASSUME l.frame[m] = logDisk.frame[m] PROVE m = Top(c) /\ Commits(c) /\ Sum(l, m) = Sum(log, m)
  BY <1>1, <1>2, <1>3, <1>4 DEF CutDisk, i
<1>5. ASSUME l.frame[m] = log.frame[m] PROVE m = Top(c) /\ Commits(c) /\ Sum(l, m) = Sum(log, m)
  <2>1. ~(m > Top(c))
    <3>1. SUFFICES ASSUME m > Top(c) PROVE FALSE
      OBVIOUS
    <3>2. m \in Top(c) + 1..MaxFrame
      BY <1>1, <3>1
    <3> QED BY <1>2, <1>3, <1>5, <3>2 DEF CutOk, i
  <2>2. m \in OwnFrames(c)
    BY <1>1, <2>1 DEF OwnFrames
  <2>3. m = Top(c) /\ Commits(c)
    BY <1>2, <1>5, <2>2 DEF MarkedOk
  <2>4. reCksum[c] = 0
    <3>1. log.frame[m].sum # << >>
      BY <1>2, <1>3, <1>5
    <3> QED BY <2>3, <3>1 DEF Unfinished
  <2>5. log.frame[m].sum = Sum(log, m)
    BY <2>2, <2>4, WriterIs DEF ChecksumsOk
  <2> QED BY <1>2, <1>5, <2>3, <2>5
<1>6. m = Top(c) /\ Commits(c) /\ Sum(l, m) = Sum(log, m)
  BY <1>2, <1>4, <1>5
<1>7. DbAt(db, l, m) = DbAt(db, log, m)
  BY <1>1, <1>6, SameBodies
<1>8. DbAt(db, log, m) = Overlay(latest, tx[c])
  BY <1>6, OwnDb
<1>9. Overlay(latest, tx[c]) \in unreported
  BY <1>6 DEF MarkedOk
<1> QED BY <1>7, <1>8, <1>9 DEF Kept

MixCommitWell ==
    \A c \in Conns : \A l, s, m :
        /\ IInv /\ IsWriter(c) /\ CutOk(c) /\ MarkedOk(c) /\ CutDisk(c) /\ Unfinished(c)
        /\ Top(c) > live.mxFrame /\ MixedCommit(l, s, m) /\ m > live.mxFrame
        /\ BodyOf(l.frame[live.mxFrame + 1]) = BodyOf(log.frame[live.mxFrame + 1])
        => DbAt(db, l, m) \in Kept

(* The same of the next state. *)
LEMMA MixCommitNext == MixCommitWell'
<1>1. MixCommitWell
  BY MixCommit DEF MixCommitWell
<1> QED BY <1>1, PTL

-----------------------------------------------------------------------------
(* A step that writes frame i of the log. *)
Writes(c, i) ==
    /\ Others(c) /\ IsWriter(c) /\ IsWriter(c)' /\ writer' = c
    /\ at[c] \in InFrames /\ at'[c] \in InFrames /\ tx' = tx /\ dirty'[c] \subseteq dirty[c]
    /\ i \in Frames /\ i > live.mxFrame /\ i <= Top(c)'
    /\ \A k \in Frames \ {i} : log'.frame[k] = log.frame[k]
    /\ log'.frame[i] # NoFrame /\ log'.frame[i].val # Garbage /\ log'.salt = log.salt
    /\ UNCHANGED <<db, dbDisk, logDisk, live, latest, reported, nBackfill>>
    /\ unreported \subseteq unreported' /\ unreported' \subseteq unreported \cup {Overlay(latest, tx[c])}

(* Nobody takes it for a frame that is written over: either its checksum is *)
(* right, or it is not that of the frame.                                   *)
RightOrWrong(i) ==
    \/ log'.frame[i].sum = Sum(log', i)
    \/ i \notin DOMAIN log'.frame[i].sum
    \/ log'.frame[i].sum[i] # BodyOf(log'.frame[i])

(* So it is kept, whichever frames are on disk. *)
LEMMA WrittenKnown ==
    ASSUME IInv', DeathInv', NEW c \in Conns, NEW i, Writes(c, i), RightOrWrong(i), DiskOk(c)',
           NEW b, Known(b)
    PROVE  Known(b)'
<1>1. /\ i \in Frames /\ i > live.mxFrame /\ i <= Top(c)' /\ IsWriter(c)'
      /\ \A k \in Frames \ {i} : log'.frame[k] = log.frame[k]
      /\ log'.salt = log.salt /\ db' = db /\ logDisk' = logDisk /\ live' = live
      /\ reported' = reported /\ unreported \subseteq unreported'
  BY DEF Writes
<1>2. live.mxFrame \in Nat /\ i \in Nat /\ Top(c)' \in Nat /\ 1 <= i
  <2>1. live'.mxFrame \in Nat /\ Top(c)' \in Nat
    BY NumbersNext DEF IInv, NumbersOk, Top
  <2> QED BY <1>1, <2>1, FrameNumbers
<1>3. Kept \subseteq Kept'
  BY <1>1 DEF Kept
<1>4. \A l, m : DbAt(db, l, m)' = DbAt(db, l, m)
  BY <1>1 DEF DbAt, Content
<1>5. ASSUME NEW l, NEW s, NEW m, MixedCommit(l, s, m)', m >= b
      PROVE  DbAt(db, l, m)' \in Kept'
  <2>1. /\ s \in Salts' /\ m \in Frames /\ Accepts(l, s, m) /\ l.frame[m].commit
        /\ \A k \in 1..m : l.frame[k] = log'.frame[k] \/ l.frame[k] = logDisk.frame[k]
    BY <1>1, <1>5 DEF MixedCommit
  <2>2. Salts' = Salts /\ m \in Nat
    BY <1>1, <2>1, FrameNumbers DEF Salts
  <2>3. CASE \A k \in 1..m : l.frame[k] \in {log.frame[k], logDisk.frame[k]}
    <3>1. MixedCommit(l, s, m)
      BY <2>1, <2>2, <2>3 DEF MixedCommit
    <3>2. DbAt(db, l, m) \in Kept
      BY <1>5, <3>1, KnownIs DEF AnyKnown
    <3> QED BY <1>3, <1>4, <3>2
  <2>4. CASE ~\A k \in 1..m : l.frame[k] \in {log.frame[k], logDisk.frame[k]}
    <3>1. PICK k \in 1..m : l.frame[k] \notin {log.frame[k], logDisk.frame[k]}
      BY <2>4
    <3>2. k \in Frames
      BY <2>1, FrameNumbers
    <3>3. k = i /\ l.frame[i] = log'.frame[i]
      BY <1>1, <2>1, <3>1, <3>2
    <3>4. i \in 1..m /\ m > live.mxFrame /\ live.mxFrame + 1 \in 1..i
      BY <1>1, <1>2, <2>2, <3>1, <3>3
    <3>5. log'.frame[i].sum = Sum(l, i)
      BY <2>1, <3>3, <3>4 DEF Accepts
    <3>6. i \in DOMAIN Sum(l, i) /\ Sum(l, i)[i] = BodyOf(log'.frame[i])
      BY <1>2, <3>3 DEF Sum
    <3>7. log'.frame[i].sum = Sum(log', i)
      BY <3>5, <3>6 DEF RightOrWrong
    <3>8. BodyOf(l.frame[live.mxFrame + 1]) = BodyOf(log'.frame[live.mxFrame + 1])
      <4>1. Sum(l, i)[live.mxFrame + 1] = BodyOf(l.frame[live.mxFrame + 1])
        BY <3>4 DEF Sum
      <4>2. Sum(log', i)[live.mxFrame + 1] = BodyOf(log'.frame[live.mxFrame + 1])
        BY <3>4 DEF Sum
      <4> QED BY <3>5, <3>7, <4>1, <4>2
    <3>9. /\ CutOk(c)' /\ MarkedOk(c)' /\ CutDisk(c)' /\ Unfinished(c)'
      BY <1>1 DEF DeathInv, Transactions, TransactionOk, DiskOk
    <3>10. Top(c)' > live'.mxFrame /\ m > live'.mxFrame
      BY <1>1, <1>2, <3>4
    <3>11. BodyOf(l.frame[live'.mxFrame + 1]) = BodyOf(log'.frame[live'.mxFrame + 1])
      BY <1>1, <3>8
    <3> QED BY <1>1, <1>5, <3>9, <3>10, <3>11, MixCommitNext DEF MixCommitWell
  <2> QED BY <2>3, <2>4
<1>6. AnyKnown(b)'
  BY <1>5 DEF AnyKnown
<1> QED BY <1>6, KnownNext DEF KnownWell

(* The frames of the log up to the last of the writer are clean. *)
LEMMA CleanFrames ==
    ASSUME IInv, NoGarbage, NEW c \in Conns, CleanTx(c), IsWriter(c), NEW k \in 1..Top(c)
    PROVE  log.frame[k].val # Garbage
<1>1. live.mxFrame \in Nat /\ Top(c) \in Nat /\ k \in Nat
  BY Numbers DEF IInv, NumbersOk, Top
<1>2. CASE k > live.mxFrame
  <2>1. k \in OwnFrames(c)
    BY <1>1, <1>2 DEF OwnFrames
  <2> QED BY <2>1 DEF CleanTx
<1>3. CASE ~(k > live.mxFrame)
  <2>1. k \in 1..live.mxFrame /\ live.mxFrame > 0 /\ live.mxFrame \in 1..live.mxFrame
    BY <1>1, <1>3
  <2>2. live.mxFrame \in Frames /\ Accepts(log, log.salt, live.mxFrame)
    BY <2>1, PublishedLog
  <2>3. log.frame[live.mxFrame].sum = Sum(log, live.mxFrame)
    BY <2>1, <2>2 DEF Accepts
  <2>4. k \in DOMAIN Sum(log, live.mxFrame) /\ Sum(log, live.mxFrame)[k].val = log.frame[k].val
    BY <2>1 DEF Sum, BodyOf
  <2> QED BY <2>2, <2>3, <2>4 DEF NoGarbage, CleanSums
<1> QED BY <1>2, <1>3

LEMMA OverlayClean ==
    ASSUME NoGarbage, NEW c \in Conns, CleanTx(c)
    PROVE  \A pg \in Pages : Overlay(latest, tx[c])[pg] # Garbage
BY DEF NoGarbage, CleanTx, Overlay

LEMMA SumClean ==
    ASSUME NEW n \in Nat, NEW l, \A k \in 1..n : l.frame[k].val # Garbage
    PROVE  DOMAIN Sum(l, n) = 1..n /\ \A j \in 1..n : Sum(l, n)[j].val # Garbage
BY DEF Sum, BodyOf

(* A step that writes one frame. *)
LEMMA PowerFrameStep ==
    ASSUME IInv, IInv', DeathInv', PowerInv, NEW c \in Conns, NEW i, Writes(c, i), RightOrWrong(i),
           \A j \in DOMAIN log'.frame[i].sum : log'.frame[i].sum[j].val # Garbage,
           FreshDisk(c)', CutDisk(c)', Unfinished(c)', ~(at'[c] = "publish" /\ commits'[c]),
           OwnFrames(c)' \subseteq OwnFrames(c) \cup {i}
    PROVE  PowerInv'
<1>1. /\ Others(c) /\ IsWriter(c) /\ IsWriter(c)' /\ writer' = c
      /\ at[c] \in InFrames /\ at'[c] \in InFrames /\ tx' = tx
      /\ i \in Frames /\ i > live.mxFrame
      /\ \A k \in Frames \ {i} : log'.frame[k] = log.frame[k]
      /\ log'.frame[i] # NoFrame /\ log'.frame[i].val # Garbage /\ log'.salt = log.salt
  BY DEF Writes
<1>2. /\ db' = db /\ dbDisk' = dbDisk /\ logDisk' = logDisk /\ live' = live /\ latest' = latest
      /\ reported' = reported /\ nBackfill' = nBackfill
      /\ unreported \subseteq unreported' /\ unreported' \subseteq unreported \cup {Overlay(latest, tx[c])}
  BY DEF Writes
<1>3. NoGarbage /\ Done /\ CleanTx(c)
  BY <1>1 DEF PowerInv, Disks, DiskOk
<1>4. live.mxFrame \in Nat /\ i \in Nat /\ 1 <= i /\ Top(c) \in Nat /\ Top(c)' \in Nat
  <2>1. live.mxFrame \in Nat /\ Top(c) \in Nat
    BY Numbers DEF IInv, NumbersOk, Top
  <2>2. Top(c)' \in Nat
    BY NumbersNext DEF IInv, NumbersOk, Top
  <2> QED BY <1>1, <2>1, <2>2, FrameNumbers
<1>5. NoGarbage'
  <2>1. CleanSums(log)'
    <3>1. ASSUME NEW k \in Frames, NEW j \in DOMAIN log'.frame[k].sum PROVE log'.frame[k].sum[j].val # Garbage
      <4>1. CASE k = i
        BY <4>1
      <4>2. CASE k # i
        <5>1. log'.frame[k] = log.frame[k]
          BY <1>1, <4>2
        <5> QED BY <1>3, <5>1 DEF NoGarbage, CleanSums
      <4> QED BY <4>1, <4>2
    <3> QED BY <3>1 DEF CleanSums
  <2>2. CleanSums(logDisk)'
    BY <1>2, <1>3 DEF NoGarbage, CleanSums
  <2>3. Kept \subseteq Kept' /\ Kept' \subseteq Kept \cup {Overlay(latest, tx[c])}
    BY <1>2 DEF Kept
  <2>4. latest' \in Kept'
    BY <1>2, <1>3, <2>3 DEF NoGarbage
  <2>5. \A d \in Kept', pg \in Pages : d[pg] # Garbage
    BY <1>3, <2>3, OverlayClean DEF NoGarbage
  <2> QED BY <2>1, <2>2, <2>4, <2>5 DEF NoGarbage
<1>6. Done'
  BY <1>2, <1>3 DEF Done, NoHdr
<1>7. CleanTx(c)'
  <2>1. ASSUME NEW k \in OwnFrames(c)' PROVE log'.frame[k].val # Garbage
    <3>1. CASE k = i
      BY <1>1, <3>1
    <3>2. CASE k # i
      <4>1. k \in OwnFrames(c)
        BY <2>1, <3>2
      <4>2. k \in Frames
        <5>1. Top(c) <= MaxFrame
          BY Numbers DEF IInv, NumbersOk, Top
        <5> QED BY <1>4, <4>1, <5>1, FrameNumbers DEF OwnFrames
      <4>3. log'.frame[k] = log.frame[k]
        BY <1>1, <3>2, <4>2
      <4> QED BY <1>3, <4>1, <4>3 DEF CleanTx
    <3> QED BY <3>1, <3>2
  <2> QED BY <1>1, <1>3, <2>1 DEF CleanTx
<1>8. DiskOk(c)'
  <2>1. (at[c] = "publish" /\ commits[c] => logDisk = log)'
    OBVIOUS
  <2>2. FreshDisk(c)' /\ CutDisk(c)' /\ Unfinished(c)'
    OBVIOUS
  <2> QED BY <1>7, <2>1, <2>2 DEF DiskOk
<1>9. \A q \in Conns \ {c} : ~IsWriter(q)'
  BY <1>1 DEF IsWriter
<1>10. Disks'
  BY <1>8, <1>9 DEF Disks, DiskOk
<1>11. PICK b \in 0..MaxFrame : Durable(b)
  BY DEF PowerInv
<1>12. Synced(b) /\ Covered(b) /\ Known(b) /\ Alone(b) /\ Fits(b) /\ b <= live.mxFrame /\ Headed
  <2>1. Synced(b) /\ Covered(b) /\ Known(b) /\ Alone(b) /\ Fits(b)
    BY <1>11 DEF Durable
  <2> QED BY <1>1, <2>1 DEF Fits, Follows
<1>13. log'.frame # NoLog.frame
  <2>1. NoLog.frame[i] = NoFrame
    BY <1>1 DEF NoLog
  <2> QED BY <1>1, <2>1
<1>14. b > 0 => log.frame # NoLog.frame
  <2>1. SUFFICES ASSUME b > 0, log.frame = NoLog.frame PROVE FALSE
    OBVIOUS
  <2>2. b \in Frames /\ 1 \in 1..b /\ 1 \in Frames
    BY <2>1, FrameNumbers
  <2>3. logDisk.frame[1] = NoFrame
    BY <1>12, <2>1, <2>2 DEF Headed, NoLog
  <2>4. Accepts(logDisk, logDisk.salt, b)
    BY <1>12, <2>1 DEF Synced
  <2> QED BY <2>2, <2>3, <2>4, NothingAccepted
<1>15. Synced(b)'
  <2>1. SUFFICES ASSUME b > 0
                 PROVE  /\ Accepts(logDisk, logDisk.salt, b)' /\ logDisk'.frame[b].commit
                        /\ \A k \in 1..b : log'.frame[k] = logDisk'.frame[k]
    BY DEF Synced
  <2>2. /\ Accepts(logDisk, logDisk.salt, b) /\ logDisk.frame[b].commit
        /\ \A k \in 1..b : log.frame[k] = logDisk.frame[k]
    BY <1>12, <1>14, <2>1 DEF Synced
  <2>3. Accepts(logDisk, logDisk.salt, b)' = Accepts(logDisk, logDisk.salt, b)
    BY <1>2 DEF Accepts, Sum
  <2>4. \A k \in 1..b : k \in Frames \ {i}
    BY <1>1, <1>4, <1>12, FrameNumbers
  <2> QED BY <1>1, <1>2, <2>2, <2>3, <2>4
<1>16. Covered(b)'
  BY <1>2, <1>12 DEF Covered, Find
<1>17. Known(b)'
  BY <1>8, <1>12, WrittenKnown
<1>18. Alone(b)'
  <2>1. Bare(b)' => Bare(b)
    BY <1>1, <1>2, <1>13 DEF Bare, NoLog, NoHdr
  <2>2. Kept \subseteq Kept'
    BY <1>2 DEF Kept
  <2> QED BY <1>2, <1>12, <2>1, <2>2 DEF Alone
<1>19. Fits(b)'
  <2>1. ASSUME NEW q \in Conns \ {c} PROVE Follows(b, q)'
    <3>1. Copying(q)' => Copying(q) /\ mxSafe'[q] = mxSafe[q]
      BY <1>1, OtherStays DEF Others
    <3>2. Follows(b, q)
      BY <1>12 DEF Fits
    <3> QED BY <1>9, <3>1, <3>2 DEF Follows
  <2>2. Follows(b, c)'
    <3>1. ~Copying(c)' /\ at'[c] # "syncHdr"
      BY <1>1 DEF Copying, InFrames
    <3>2. Headed'
      BY <1>13 DEF Headed, NoLog
    <3> QED BY <1>2, <1>12, <3>1, <3>2 DEF Follows
  <2>3. \A q \in Conns : Follows(b, q)'
    BY <2>1, <2>2
  <2> QED BY <1>2, <1>12, <1>13, <2>3 DEF Fits, NoLog, NoHdr
<1>20. Durable(b)'
  BY <1>15, <1>16, <1>17, <1>18, <1>19 DEF Durable
<1>21. \E d \in 0..MaxFrame : Durable(d)'
  BY <1>20
<1> QED BY <1>5, <1>6, <1>10, <1>21 DEF PowerInv

-----------------------------------------------------------------------------
(* walRewriteChecksums(): one frame. *)
LEMMA PowerRewriteChecksum ==
    ASSUME IInv, IInv', DeathInv', PowerInv, NEW c \in Conns, RewriteChecksum(c)
    PROVE  PowerInv'
<1> DEFINE i == reCksum[c]
<1>1. at[c] = "checksums"
  BY DEF RewriteChecksum, IsAt
<1>2. IsWriter(c) /\ writer = c
  BY <1>1, WriterFrames DEF Framing
<1>3. /\ ChecksumsOk(c) /\ hdr[c].salt \in Nat /\ i \in Nat /\ i # 0 /\ live.mxFrame \in Nat
      /\ iFrame[c] \in Nat /\ iFrame[c] <= MaxFrame /\ PagesOk(c)
  BY <1>1, <1>2, WriterIs DEF ChecksumsOk
<1>4. Top(c) = iFrame[c] /\ i \in live.mxFrame + 1..iFrame[c]
  BY <1>1, <1>3 DEF ChecksumsOk, OwnFrames, Top, InFrames
<1>5. /\ i \in Frames /\ log' \in Log /\ log'.salt = log.salt
      /\ log'.frame[i].salt = hdr[c].salt /\ log'.frame[i].val = log.frame[i].val
      /\ log'.frame[i].sum = Sum(log, i) /\ BodyOf(log'.frame[i]) = BodyOf(log.frame[i])
      /\ \A k \in Frames \ {i} : log'.frame[k] = log.frame[k]
  BY <1>3, RewriteIs DEF IInv
<1>6. /\ UNCHANGED <<db, dbDisk, logDisk, live, latest, reported, nBackfill, writer, unreported, tx>>
  BY DEF RewriteChecksum, index, locks, ghosts
<1>7. /\ Others(c) /\ at'[c] \in {"checksums", "sync"} /\ hdr'[c] = hdr[c] /\ dirty'[c] = dirty[c]
      /\ iFrame'[c] = iFrame[c] /\ commits'[c] = commits[c] /\ mode'[c] = mode[c]
      /\ i = iFrame[c] => reCksum'[c] = 0
  BY RewriteChecksumEffect DEF IInv
<1>8. Top(c)' = Top(c) /\ Commits(c)' = TRUE /\ Commits(c) = TRUE /\ OwnFrames(c)' = OwnFrames(c) /\ IsWriter(c)'
  BY <1>1, <1>2, <1>4, <1>6, <1>7 DEF Top, InFrames, Commits, OwnFrames, IsWriter
<1>9. NoGarbage /\ CleanTx(c) /\ FreshDisk(c) /\ CutDisk(c) /\ Unfinished(c)
  BY <1>2 DEF PowerInv, Disks, DiskOk
<1> HIDE DEF i
<1>10. \A k \in Frames : BodyOf(log'.frame[k]) = BodyOf(log.frame[k])
  <2>1. \A k \in Frames \ {i} : BodyOf(log'.frame[k]) = BodyOf(log.frame[k])
    BY <1>5
  <2> QED BY <1>5, <2>1
<1>11. \A k \in Frames : Sum(log', k) = Sum(log, k)
  <2>1. ASSUME NEW k \in Frames PROVE Sum(log', k) = Sum(log, k)
    <3>1. \A j \in 1..k : j \in Frames
      BY FrameNumbers
    <3> QED BY <1>10, <3>1 DEF Sum
  <2> QED BY <2>1
<1>12. \A j \in DOMAIN log'.frame[i].sum : log'.frame[i].sum[j].val # Garbage
  <2>1. \A k \in 1..i : log.frame[k].val # Garbage
    <3>1. \A k \in 1..i : k \in 1..Top(c)
      BY <1>3, <1>4
    <3> QED BY <1>2, <1>9, <3>1, CleanFrames
  <2> QED BY <1>3, <1>5, <2>1, SumClean
<1>13. RightOrWrong(i)
  BY <1>5, <1>11 DEF RightOrWrong
<1>14. Writes(c, i)
  <2>1. log'.frame[i].val # Garbage
    BY <1>4, <1>5, <1>9 DEF CleanTx, OwnFrames
  <2>2. log'.frame[i] # NoFrame
    <3>1. hdr[c].salt # 0
      BY <1>1, <1>2, WriterIs DEF WriterHdrOk, InFrames
    <3> QED BY <1>5, <3>1 DEF NoFrame
  <2>3. i > live.mxFrame /\ i <= Top(c)'
    BY <1>3, <1>4, <1>8
  <2>4. at[c] \in InFrames /\ at'[c] \in InFrames
    BY <1>1, <1>7 DEF InFrames
  <2> QED BY <1>2, <1>5, <1>6, <1>7, <1>8, <2>1, <2>2, <2>3, <2>4 DEF Writes
<1>15. FreshDisk(c)'
  BY <1>6, <1>7, <1>9 DEF FreshDisk
<1>16. CutDisk(c)'
  <2>1. live.mxFrame + 1 \in Frames
    BY <1>3, <1>4, FrameNumbers
  <2>2. BodyOf(log'.frame[live.mxFrame + 1]) = BodyOf(log.frame[live.mxFrame + 1])
    BY <1>10, <2>1
  <2> QED BY <1>6, <1>8, <1>9, <1>11, <2>2 DEF CutDisk
<1>17. Unfinished(c)'
  <2>1. SUFFICES ASSUME reCksum'[c] # 0 PROVE log'.frame[Top(c)].salt = 0 /\ log'.frame[Top(c)].sum = << >>
    BY <1>8 DEF Unfinished
  <2>2. Top(c) # i /\ Top(c) \in Frames
    BY <1>3, <1>4, <1>7, <2>1, FrameNumbers
  <2>3. log'.frame[Top(c)] = log.frame[Top(c)]
    BY <1>5, <2>2
  <2> QED BY <1>3, <1>8, <1>9, <2>3 DEF Unfinished, i
<1>18. ~(at'[c] = "publish" /\ commits'[c]) /\ OwnFrames(c)' \subseteq OwnFrames(c) \cup {i}
  BY <1>7, <1>8
<1> QED BY <1>12, <1>13, <1>14, <1>15, <1>16, <1>17, <1>18, PowerFrameStep
(* sqlite3WalFrames(): the content of a spilled frame is replaced. *)
LEMMA PowerOverwrite ==
    ASSUME IInv, IInv', DeathInv, DeathInv', PowerInv, NEW c \in Conns, Overwrite(c)
    PROVE  PowerInv'
<1> DEFINE i == Spilled(c)
           p == Page(c)
<1>1. at[c] = "frames" /\ i > 0
  BY DEF Overwrite, IsAt
<1>2. /\ IsWriter(c) /\ writer = c /\ p \in todo[c] /\ p \in Pages
      /\ live.mxFrame <= hdr[c].mxFrame /\ hdr[c].mxFrame <= iFrame[c] /\ Top(c) = iFrame[c]
      /\ live.mxFrame \in Nat /\ hdr[c].mxFrame \in Nat /\ iFrame[c] \in Nat /\ iFrame[c] <= MaxFrame
  BY <1>1, WrittenPage
<1>3. FreshOk(c) /\ CallOk(c)
  BY <1>2 DEF DeathInv, Transactions, TransactionOk
<1>4. i \in Frames /\ i \in Nat /\ live.mxFrame < i /\ i <= hdr[c].mxFrame /\ ~(commits[c] /\ IsLast(c))
      /\ log.frame[i].pg = p
  BY <1>1, SpilledIs, FrameNumbers DEF IInv
<1>5. /\ log' \in Log /\ log'.salt = log.salt
      /\ log'.frame[i] = [log.frame[i] EXCEPT !.val = View(c, p)]
      /\ log'.frame[i].val = View(c, p) /\ log'.frame[i].pg = log.frame[i].pg
      /\ \A k \in Frames \ {i} : log'.frame[k] = log.frame[k]
  BY <1>2, OverwriteIs DEF IInv
<1>6. UNCHANGED <<db, dbDisk, logDisk, live, latest, reported, nBackfill, writer, unreported, tx>>
  BY DEF Overwrite, index, locks, ghosts
<1>7. /\ Others(c) /\ at'[c] \in {"frames", "publish", "checksums"} /\ ~(commits[c] /\ at'[c] \in {"publish", "checksums"})
      /\ hdr'[c] = hdr[c] /\ dirty'[c] = dirty[c] \ {p}
      /\ iFrame'[c] = iFrame[c] /\ commits'[c] = commits[c] /\ mode'[c] = mode[c]
  <2>1. /\ at'[c] = IF ~IsLast(c) THEN at[c] ELSE IF ~commits[c] THEN "publish" ELSE IF TRUE THEN "checksums" ELSE "sync"
        /\ hdr'[c] = hdr[c] /\ dirty'[c] = dirty[c] \ {p} /\ Others(c)
        /\ iFrame'[c] = iFrame[c] /\ commits'[c] = commits[c] /\ mode'[c] = mode[c]
    BY OverwriteEffect DEF IInv
  <2> QED BY <1>1, <1>4, <2>1
<1>8. p \in dirty[c] /\ View(c, p) = tx[c][p]
  <2>1. p \in todo[c] \ dirty[c] => todo[c] = {p} /\ commits[c]
    BY <1>3 DEF CallOk
  <2>2. p \in dirty[c]
    BY <1>2, <1>4, <2>1 DEF IsLast
  <2> QED BY <2>2 DEF View
<1>9. log'.frame[i].sum = log.frame[i].sum
  <2>1. log.frame[i] \in Frame
    <3>1. log \in Log
      BY DEF IInv, TypeOK
    <3> QED BY <1>4, <3>1 DEF Log
  <2> QED BY <1>5, <2>1 DEF Frame
<1>10. NoGarbage /\ CleanTx(c) /\ FreshDisk(c) /\ CutDisk(c) /\ Unfinished(c)
  BY <1>2 DEF PowerInv, Disks, DiskOk
<1> HIDE DEF i, p
<1>11. Top(c)' = Top(c) /\ Commits(c)' = FALSE /\ Commits(c) = FALSE /\ OwnFrames(c)' = OwnFrames(c) /\ IsWriter(c)'
  <2>1. commits[c] \in BOOLEAN
    BY DEF IInv, TypeOK
  <2>2. at'[c] # "sync" /\ at'[c] # "recoverReset" /\ (at'[c] = "checksums" => commits[c])
    BY <1>7, OverwriteEffect, <1>1 DEF IInv
  <2>3. Commits(c)' = FALSE /\ Commits(c) = FALSE
    BY <1>1, <1>7, <2>1, <2>2 DEF Commits
  <2> QED BY <1>1, <1>2, <1>6, <1>7, <2>2, <2>3 DEF Top, InFrames, OwnFrames, IsWriter
<1>12. \A j \in DOMAIN log'.frame[i].sum : log'.frame[i].sum[j].val # Garbage
  BY <1>4, <1>9, <1>10 DEF NoGarbage, CleanSums
<1>13. RightOrWrong(i)
  <2>1. \A j \in DOMAIN log.frame[i].sum : log.frame[i].sum[j].val # tx[c][p]
    BY <1>3, <1>4, <1>8 DEF FreshOk
  <2>2. BodyOf(log'.frame[i]).val = tx[c][p]
    BY <1>5, <1>8 DEF BodyOf
  <2> QED BY <1>9, <2>1, <2>2 DEF RightOrWrong
<1>14. Writes(c, i)
  <2>1. log'.frame[i].val # Garbage
    BY <1>2, <1>5, <1>8, <1>10 DEF CleanTx
  <2>2. log'.frame[i] # NoFrame
    BY <1>2, <1>4, <1>5 DEF NoFrame, Pages
  <2>3. i > live.mxFrame /\ i <= Top(c)'
    BY <1>2, <1>4, <1>11
  <2>4. at[c] \in InFrames /\ at'[c] \in InFrames
    BY <1>1, <1>7 DEF InFrames
  <2> QED BY <1>2, <1>4, <1>5, <1>6, <1>7, <1>11, <2>1, <2>2, <2>3, <2>4 DEF Writes
<1>15. FreshDisk(c)'
  BY <1>6, <1>7, <1>10 DEF FreshDisk
<1>16. CutDisk(c)'
  <2>1. SUFFICES ASSUME NEW k \in Frames, live.mxFrame + 1 \in DOMAIN logDisk.frame[k].sum, logDisk.frame[k].commit,
                        logDisk.frame[k].sum[live.mxFrame + 1] = BodyOf(log'.frame[live.mxFrame + 1])
                 PROVE  FALSE
    BY <1>6 DEF CutDisk
  <2>2. live.mxFrame + 1 \in Frames
    BY <1>2, <1>4, FrameNumbers
  <2>3. CASE i = live.mxFrame + 1
    <3>1. BodyOf(log'.frame[live.mxFrame + 1]).val = tx[c][p]
      BY <1>5, <1>8, <2>3 DEF BodyOf
    <3> QED BY <1>8, <1>10, <2>1, <3>1 DEF FreshDisk
  <2>4. CASE i # live.mxFrame + 1
    <3>1. log'.frame[live.mxFrame + 1] = log.frame[live.mxFrame + 1]
      BY <1>5, <2>2, <2>4
    <3>2. Top(c) > live.mxFrame
      BY <1>2, <1>4
    <3> QED BY <1>10, <1>11, <2>1, <3>1, <3>2 DEF CutDisk
  <2> QED BY <2>3, <2>4
<1>17. Unfinished(c)'
  BY <1>11 DEF Unfinished
<1>18. ~(at'[c] = "publish" /\ commits'[c]) /\ OwnFrames(c)' \subseteq OwnFrames(c) \cup {i}
  BY <1>7, <1>11
<1> QED BY <1>12, <1>13, <1>14, <1>15, <1>16, <1>17, <1>18, PowerFrameStep

(* walWriteOneFrame(): one frame is added behind the last. *)
LEMMA PowerAppendFrame ==
    ASSUME IInv, IInv', DeathInv, DeathInv', PowerInv, NEW c \in Conns, AppendFrame(c)
    PROVE  PowerInv'
<1> DEFINE n == iFrame[c]
           i == iFrame[c] + 1
           p == Page(c)
           last == commits[c] /\ IsLast(c)
<1>1. at[c] = "frames"
  BY DEF AppendFrame, IsAt
<1>2. /\ IsWriter(c) /\ writer = c /\ p \in todo[c] /\ p \in Pages
      /\ View(c, p) = Overlay(latest, tx[c])[p]
      /\ live.mxFrame <= hdr[c].mxFrame /\ hdr[c].mxFrame <= n /\ Top(c) = n
      /\ live.mxFrame \in Nat /\ hdr[c].mxFrame \in Nat /\ n \in Nat /\ n <= MaxFrame /\ hdr[c].salt \in Nat
  BY <1>1, WrittenPage
<1>3. FreshOk(c) /\ CallOk(c) /\ MarkedOk(c)
  BY <1>2 DEF DeathInv, Transactions, TransactionOk
<1>4. /\ i \in Frames /\ log' \in Log /\ log'.salt = log.salt
      /\ log'.frame[i].pg = p /\ log'.frame[i].val = View(c, p)
      /\ reCksum[c] = 0 => log'.frame[i].sum = Append(Sum(log, i - 1), BodyOf(log'.frame[i]))
      /\ reCksum[c] # 0 => log'.frame[i].salt = 0 /\ log'.frame[i].sum = << >>
      /\ \A k \in Frames \ {i} : log'.frame[k] = log.frame[k]
  BY <1>2, AppendIs DEF IInv
<1>5. /\ UNCHANGED <<db, dbDisk, logDisk, live, latest, reported, nBackfill, writer, tx>>
      /\ unreported' = unreported \cup IF last THEN {Overlay(latest, tx[c])} ELSE {}
  BY DEF AppendFrame, index, locks
<1>6. /\ Others(c)
      /\ at'[c] = IF ~IsLast(c) THEN at[c] ELSE IF ~commits[c] THEN "publish" ELSE IF reCksum[c] > 0 THEN "checksums" ELSE "sync"
      /\ hdr'[c] = hdr[c] /\ dirty'[c] = dirty[c] \ {p} /\ reCksum'[c] = reCksum[c]
      /\ iFrame'[c] = i /\ commits'[c] = commits[c] /\ mode'[c] = mode[c]
  BY AppendFrameEffect DEF IInv
<1>7. i = n + 1 /\ i - 1 = n /\ i \in Nat /\ i <= MaxFrame /\ MaxFrame \in Nat /\ log \in Log
  <2>1. log \in Log
    BY DEF IInv, TypeOK
  <2> QED BY <1>2, <1>4, <2>1, FrameNumbers
<1>8. reCksum[c] = 0 => log'.frame[i].sum = Sum(log', i)
  <2>1. SUFFICES ASSUME reCksum[c] = 0 PROVE log'.frame[i].sum = Sum(log', i)
    OBVIOUS
  <2>2. SameFrames(log, log', n)
    <3>1. \A k \in 1..n : k \in Frames \ {i}
      BY <1>2, <1>7, FrameNumbers
    <3> QED BY <1>4, <3>1 DEF SameFrames
  <2>3. log'.frame[i].sum = Append(Sum(log, n), BodyOf(log'.frame[i]))
    BY <1>4, <1>7, <2>1
  <2>4. Sum(log', n + 1) = Append(Sum(log, n), BodyOf(log'.frame[n + 1]))
    BY <1>2, <1>4, <1>7, <2>2, SumLonger
  <2> QED BY <1>7, <2>3, <2>4
<1>9. NoGarbage /\ CleanTx(c) /\ FreshDisk(c) /\ CutDisk(c) /\ Unfinished(c)
  BY <1>2 DEF PowerInv, Disks, DiskOk
<1>10. View(c, p) # Garbage
  BY <1>2, <1>9, OverlayClean
<1> HIDE DEF n, i, p, last
<1>11. at'[c] \in InFrames /\ at'[c] # "recoverReset" /\ Commits(c)' = last /\ Commits(c) = FALSE
  <2>1. commits[c] \in BOOLEAN
    BY DEF IInv, TypeOK
  <2> QED BY <1>1, <1>6, <2>1 DEF Commits, InFrames, last
<1>12. Top(c)' = i /\ OwnFrames(c)' = live.mxFrame + 1..i /\ OwnFrames(c) = live.mxFrame + 1..n /\ IsWriter(c)'
  BY <1>2, <1>5, <1>6, <1>11 DEF Top, OwnFrames, IsWriter
<1>13. \A j \in DOMAIN log'.frame[i].sum : log'.frame[i].sum[j].val # Garbage
  <2>1. CASE reCksum[c] = 0
    <3>1. \A k \in 1..i : log'.frame[k].val # Garbage
      <4>1. ASSUME NEW k \in 1..i, k # i PROVE log'.frame[k].val # Garbage
        <5>1. k \in 1..Top(c) /\ k \in Frames \ {i}
          BY <1>2, <1>7, <4>1, FrameNumbers
        <5>2. log.frame[k].val # Garbage
          BY <1>2, <1>9, <5>1, CleanFrames
        <5> QED BY <1>4, <5>1, <5>2
      <4> QED BY <1>4, <1>10, <4>1
    <3>2. DOMAIN Sum(log', i) = 1..i /\ \A j \in 1..i : Sum(log', i)[j].val # Garbage
      BY <1>7, <3>1, SumClean
    <3> QED BY <1>8, <2>1, <3>2
  <2>2. CASE reCksum[c] # 0
    BY <1>4, <2>2
  <2> QED BY <2>1, <2>2
<1>14. RightOrWrong(i)
  BY <1>4, <1>8 DEF RightOrWrong
<1>15. Writes(c, i)
  <2>1. log'.frame[i] # NoFrame
    BY <1>2, <1>4 DEF NoFrame, Pages
  <2>2. i > live.mxFrame /\ i <= Top(c)'
    BY <1>2, <1>7, <1>12
  <2>3. at[c] \in InFrames /\ dirty'[c] \subseteq dirty[c]
    BY <1>1, <1>6 DEF InFrames
  <2>4. unreported \subseteq unreported' /\ unreported' \subseteq unreported \cup {Overlay(latest, tx[c])}
    BY <1>5
  <2> QED BY <1>2, <1>4, <1>5, <1>6, <1>10, <1>11, <1>12, <2>1, <2>2, <2>3, <2>4 DEF Writes
<1>16. FreshDisk(c)'
  BY <1>5, <1>6, <1>9 DEF FreshDisk
<1>17. CutDisk(c)'
  <2>1. SUFFICES ASSUME NEW k \in Frames, live.mxFrame + 1 \in DOMAIN logDisk.frame[k].sum, logDisk.frame[k].commit,
                        logDisk.frame[k].sum[live.mxFrame + 1] = BodyOf(log'.frame[live.mxFrame + 1])
                 PROVE  FALSE
    BY <1>5 DEF CutDisk
  <2>2. CASE n = live.mxFrame
    <3>1. p \in dirty[c]
      BY <1>2, <1>3, <2>2 DEF CallOk
    <3>2. BodyOf(log'.frame[live.mxFrame + 1]).val = tx[c][p]
      BY <1>4, <1>7, <2>2, <3>1 DEF BodyOf, View
    <3> QED BY <1>9, <2>1, <3>1, <3>2 DEF FreshDisk
  <2>3. CASE n # live.mxFrame
    <3>1. live.mxFrame + 1 \in Frames \ {i} /\ Top(c) > live.mxFrame
      BY <1>2, <1>7, <2>3, FrameNumbers
    <3>2. log'.frame[live.mxFrame + 1] = log.frame[live.mxFrame + 1]
      BY <1>4, <3>1
    <3> QED BY <1>9, <1>11, <2>1, <3>1, <3>2 DEF CutDisk
  <2> QED BY <2>2, <2>3
<1>18. Unfinished(c)'
  BY <1>4, <1>6, <1>12 DEF Unfinished
<1>19. ~(at'[c] = "publish" /\ commits'[c]) /\ OwnFrames(c)' \subseteq OwnFrames(c) \cup {i}
  <2>1. ~(at'[c] = "publish" /\ commits'[c])
    BY <1>1, <1>6
  <2> QED BY <1>2, <1>7, <1>12, <2>1
<1> QED BY <1>13, <1>14, <1>15, <1>16, <1>17, <1>18, <1>19, PowerFrameStep

-----------------------------------------------------------------------------
(* Losses of power: a commit is reported, and files that agree. *)

(* sqlite3WalFrames() counts the frames of a commit that it synced. *)
LEMMA PowerPublish ==
    ASSUME IInv, IInv', DeathInv, PowerInv, NEW c \in Conns, Publish(c), commits[c]
    PROVE  PowerInv'
<1>0. PICK n : n = Top(c)
  OBVIOUS
<1> USE <1>0
<1>1. at[c] = "publish"
  BY DEF Publish, IsAt
<1>2. IsWriter(c) /\ writer = c
  BY <1>1, WriterFrames DEF Framing
<1>3. UNCHANGED <<db, dbDisk, log, logDisk, nBackfill>> /\ writer' = None /\ reported' = latest' /\ unreported' = {}
  BY DEF Publish, files
<1>4. /\ live'.salt = hdr[c].salt /\ live'.mxFrame = iFrame[c] /\ Others(c) /\ at'[c] = "idle"
  <2>1. TypeOK
    BY DEF IInv
  <2>2. live' = hdr'[c] /\ hdr'[c].salt = hdr[c].salt /\ hdr'[c].mxFrame = iFrame[c]
    BY <1>2, <2>1, PublishEffect
  <2>3. Others(c) /\ tx'[c] = Unchanged /\ at'[c] = "idle"
    BY <1>2, <2>1, PublishEffect
  <2> QED BY <2>2, <2>3
<1>5. Commits(c) /\ n = iFrame[c]
  BY <1>1 DEF Top, InFrames, Commits
<1>6. NoGarbage /\ CleanTx(c) /\ logDisk = log /\ CutOk(c)
  BY <1>1, <1>2 DEF PowerInv, Disks, DiskOk, DeathInv, Transactions, TransactionOk
<1>7. /\ n \in Nat /\ live.mxFrame \in Nat /\ n > live.mxFrame /\ log.salt = hdr[c].salt /\ hdr[c].salt \in Nat
      /\ n \in Frames /\ MaxFrame \in Nat /\ n <= MaxFrame
  <2>1. /\ iFrame[c] \in Nat /\ iFrame[c] <= MaxFrame /\ live.mxFrame \in Nat
        /\ n > live.mxFrame /\ log.salt = hdr[c].salt /\ hdr[c].salt \in Nat
    BY <1>1, <1>2, <1>5, WriterIs DEF ChecksumsOk, WriterHdrOk, InFrames
  <2>2. n \in Nat /\ n <= MaxFrame /\ 1 <= n
    BY <1>5, <2>1
  <2> QED BY <2>1, <2>2, FrameNumbers
<1>8. live' # NoHdr /\ live'.salt = log.salt /\ live'.mxFrame = n
  BY <1>4, <1>5, <1>7 DEF NoHdr
<1>9. Accepts(log, log.salt, n) /\ log.frame[n].commit
  <2>1. Accepted(log', live'.mxFrame) /\ log'.frame[live'.mxFrame].commit
    BY <1>7, <1>8 DEF IInv, IndexInv
  <2>2. log' = log
    BY <1>3
  <2> QED BY <1>8, <2>1, <2>2, AcceptedIs
<1>10. DbAt(db, log, n) = Overlay(latest, tx[c])
  BY <1>2, <1>5, <1>7, OwnDb
<1>11. latest' = DbAt(db, log, n)
  <2>1. latest' = [pg \in Pages |-> Content(db, log, pg, 1, iFrame[c])]
    BY DEF Publish
  <2> QED BY <1>5, <2>1 DEF DbAt
<1>12. Kept' = {latest'}
  BY <1>3 DEF Kept
<1>13. PICK b \in 0..MaxFrame : Durable(b)
  BY DEF PowerInv
<1>14. b <= live.mxFrame /\ b \in Nat
  <2>1. Follows(b, c)
    BY <1>13 DEF Durable, Fits
  <2> QED BY <1>1, <1>2, <1>13, <1>7, <2>1 DEF Follows, InFrames
<1>15. log.frame # NoLog.frame
  <2>1. SUFFICES ASSUME log.frame = NoLog.frame PROVE FALSE
    OBVIOUS
  <2>2. log.frame[n] = NoFrame /\ n \in 1..n
    BY <1>7, <2>1, FrameNumbers DEF NoLog
  <2> QED BY <1>7, <1>9, <2>2, NothingAccepted
<1>16. NoGarbage'
  <2>1. CleanSums(log)' /\ CleanSums(logDisk)'
    BY <1>3, <1>6 DEF NoGarbage, CleanSums
  <2>2. \A pg \in Pages : latest'[pg] # Garbage
    BY <1>6, <1>10, <1>11, OverlayClean
  <2> QED BY <1>12, <2>1, <2>2 DEF NoGarbage
<1>17. Done'
  <2>1. ~RestartGoesOn
    BY <1>1, <1>2, OthersRestart DEF RestartGoesOn, Restarting
  <2>2. nBackfill <= live.mxFrame /\ nBackfill \in Nat
    BY <2>1, Numbers DEF IInv, IndexInv, NumbersOk
  <2> QED BY <1>3, <1>7, <1>8, <2>2 DEF Done
<1>18. \A q \in Conns : ~IsWriter(q)'
  BY <1>3, BoundsAssumption DEF IsWriter
<1>19. Disks'
  BY <1>18 DEF Disks, DiskOk
<1>20. Synced(n)'
  <2>1. \A d : Synced(d)' <=> (d > 0 => /\ Accepts(log, log.salt, d) /\ log.frame[d].commit)
    <3>1. \A d : Accepts(log, log.salt, d)' = Accepts(log, log.salt, d)
      BY <1>3 DEF Accepts, Sum
    <3>2. \A d : Accepts(logDisk, logDisk.salt, d)' = Accepts(log, log.salt, d)'
      BY <1>3, <1>6
    <3> QED BY <1>3, <1>6, <3>1, <3>2 DEF Synced
  <2> QED BY <1>9, <2>1
<1>21. Covered(n)'
  <2>1. SUFFICES ASSUME NEW pg \in Pages, db[pg] # dbDisk[pg] PROVE Find(log, pg, 1, n) > 0
    BY <1>3, <1>6 DEF Covered, Find
  <2>2. Find(log, pg, 1, b) > 0
    BY <1>6, <1>13, <2>1 DEF Durable, Covered
  <2>3. Find(log, pg, 1, b) <= Find(log, pg, 1, n)
    BY <1>7, <1>14, FindLonger
  <2> QED BY <1>7, <1>14, <2>2, <2>3, FindTyped
<1>22. Known(n)'
  <2>1. ASSUME NEW l, NEW s, NEW m, MixedCommit(l, s, m)', m >= n
        PROVE  DbAt(db, l, m)' \in Kept'
    <3>1. /\ m \in Frames /\ Accepts(l, s, m) /\ l.frame[m].commit /\ \A k \in 1..m : l.frame[k] = log.frame[k]
      BY <1>3, <1>6, <2>1 DEF MixedCommit
    <3>2. m \in Nat /\ m <= MaxFrame /\ m \in 1..m
      BY <3>1, FrameNumbers
    <3>3. SameFrames(log, l, m)
      BY <3>1 DEF SameFrames
    <3>4. ~(m > n)
      <4>1. SUFFICES ASSUME m > n PROVE FALSE
        OBVIOUS
      <4>2. m \in Top(c) + 1..MaxFrame /\ live.mxFrame + 1 \in 1..m
        BY <1>7, <3>2, <4>1
      <4>3. log.frame[m].sum = Sum(log, m)
        <5>1. Accepts(log, s, m)
          BY <3>1, <3>2, <3>3, AcceptsSame
        <5> QED BY <3>2, <5>1 DEF Accepts
      <4>4. live.mxFrame + 1 \in DOMAIN Sum(log, m) /\ Sum(log, m)[live.mxFrame + 1] = BodyOf(log.frame[live.mxFrame + 1])
        BY <4>2 DEF Sum
      <4> QED BY <1>6, <1>7, <4>2, <4>3, <4>4 DEF CutOk
    <3>5. m = n
      BY <1>7, <2>1, <3>2, <3>4
    <3>6. DbAt(db, l, m) = DbAt(db, log, m)
      BY <3>2, <3>3, DbSame
    <3>7. DbAt(db, l, m)' = DbAt(db, l, m)
      BY <1>3 DEF DbAt, Content
    <3> QED BY <1>11, <1>12, <3>5, <3>6, <3>7
  <2>2. AnyKnown(n)'
    BY <2>1 DEF AnyKnown
  <2> QED BY <2>2, KnownNext DEF KnownWell
<1>23. Alone(n)'
  <2>1. n # 0
    BY <1>7
  <2> QED BY <1>3, <1>6, <1>8, <1>15, <2>1 DEF Alone, Bare, NoLog
<1>24. Fits(n)'
  <2>1. ASSUME NEW q \in Conns PROVE Follows(n, q)'
    <3>1. CASE q = c
      BY <1>4, <1>18, <3>1 DEF Follows, Copying
    <3>2. CASE q # c
      <4>1. Copying(q)' => Copying(q) /\ mxSafe'[q] = mxSafe[q]
        BY <1>4, <3>2, OtherStays DEF Others
      <4>2. Copying(q) => mxSafe[q] <= b
        BY <1>13 DEF Durable, Fits, Follows
      <4>3. mxSafe[q] \in Nat
        BY Numbers DEF IInv, NumbersOk
      <4>4. Copying(q)' => mxSafe'[q] <= n
        BY <1>7, <1>14, <4>1, <4>2, <4>3
      <4> QED BY <1>18, <4>4 DEF Follows
    <3> QED BY <3>1, <3>2
  <2>2. n <= live'.mxFrame /\ live'.mxFrame # 0
    BY <1>7, <1>8
  <2> QED BY <1>3, <1>15, <2>1, <2>2 DEF Fits, NoLog
<1>25. n \in 0..MaxFrame
  BY <1>7
<1>26. \E d \in 0..MaxFrame : Durable(d)'
  BY <1>20, <1>21, <1>22, <1>23, <1>24, <1>25 DEF Durable
<1> QED BY <1>16, <1>17, <1>19, <1>26 DEF PowerInv

-----------------------------------------------------------------------------
(* Where nothing runs, memory and disk agree. *)
Quiescent ==
    /\ TypeOK /\ db = dbDisk /\ log = logDisk /\ live = NoHdr /\ writer = None
    /\ \A q \in Conns : ~Copying(q)
    /\ latest = Recovered(db, log) /\ reported = latest
    /\ CleanSums(log) /\ unreported = {} /\ \A pg \in Pages : latest[pg] # Garbage

(* Where nothing runs, memory and disk agree. *)
LEMMA PowerFirst == Quiescent => PowerInv
<1>1. SUFFICES ASSUME Quiescent PROVE PowerInv
  OBVIOUS
<1>2. /\ TypeOK /\ db = dbDisk /\ log = logDisk /\ live = NoHdr
      /\ latest = Recovered(db, log) /\ reported = latest /\ unreported = {}
  BY <1>1 DEF Quiescent
<1>3. \A q \in Conns : ~IsWriter(q) /\ ~Copying(q)
  BY <1>1, BoundsAssumption DEF Quiescent, IsWriter
<1>4. Kept = {latest}
  BY <1>2 DEF Kept
<1>5. NoGarbage /\ Done /\ Disks
  BY <1>1, <1>3, <1>4 DEF Quiescent, NoGarbage, Done, Disks, DiskOk
<1> DEFINE b == LastCommit(log)
<1>6. /\ b \in 0..MaxFrame
      /\ b # 0 => Accepts(log, log.salt, b) /\ log.frame[b].commit
      /\ \A i \in Frames : Accepts(log, log.salt, i) /\ log.frame[i].commit => i <= b
  BY LastCommitIs, AcceptedIs
<1>7. latest = DbAt(db, log, b)
  BY <1>2 DEF Recovered, DbAt
<1> HIDE DEF b
<1>8. b \in Nat /\ b <= MaxFrame /\ MaxFrame \in Nat
  BY <1>6, FrameNumbers
<1>9. Synced(b)
  BY <1>2, <1>6, <1>8 DEF Synced
<1>10. Covered(b)
  BY <1>2 DEF Covered
<1>11. Known(b)
  <2>1. ASSUME NEW l, NEW s, NEW m, MixedCommit(l, s, m), m >= b
        PROVE  DbAt(db, l, m) \in Kept
    <3>1. /\ m \in Frames /\ Accepts(l, s, m) /\ l.frame[m].commit /\ \A k \in 1..m : l.frame[k] = log.frame[k]
          /\ s \in {log.salt, -1}
      BY <1>2, <2>1 DEF MixedCommit, Salts, NoHdr
    <3>2. m \in Nat /\ m <= MaxFrame /\ m \in 1..m /\ 1 \in 1..m /\ 1 \in Frames
      BY <3>1, FrameNumbers
    <3>3. SameFrames(log, l, m)
      BY <3>1 DEF SameFrames
    <3>4. Accepts(log, s, m) /\ log.frame[m].commit
      BY <3>1, <3>2, <3>3, AcceptsSame
    <3>5. s = log.salt
      <4>1. log \in Log
        BY <1>2 DEF TypeOK
      <4>2. log.frame[1].salt \in Nat
        BY <3>2, <4>1 DEF Log, Frame
      <4>3. log.frame[1].salt = s
        BY <3>2, <3>4 DEF Accepts
      <4> QED BY <3>1, <4>2, <4>3
    <3>6. m <= b
      BY <1>6, <3>1, <3>4, <3>5
    <3>7. m = b
      BY <1>8, <2>1, <3>2, <3>6
    <3>8. DbAt(db, l, m) = DbAt(db, log, m)
      BY <3>2, <3>3, DbSame
    <3> QED BY <1>4, <1>7, <3>7, <3>8
  <2>2. AnyKnown(b)
    BY <2>1 DEF AnyKnown
  <2> QED BY <2>2, KnownIs
<1>12. log.frame = NoLog.frame => b = 0
  <2>1. SUFFICES ASSUME log.frame = NoLog.frame, b # 0 PROVE FALSE
    OBVIOUS
  <2>2. b \in Frames /\ b \in 1..b
    BY <1>8, <2>1, FrameNumbers
  <2>3. log.frame[b] = NoFrame
    BY <2>1, <2>2 DEF NoLog
  <2> QED BY <1>6, <2>1, <2>2, <2>3, NothingAccepted
<1>13. Alone(b)
  <2>1. Bare(b) => b = 0
    BY <1>2, <1>12 DEF Bare
  <2>2. b = 0 => latest = db
    <3>1. \A pg \in Pages : Find(log, pg, 1, 0) = 0
      BY FindIs DEF IsLastOf
    <3>2. db \in [Pages -> Contents]
      BY <1>2 DEF TypeOK
    <3>3. b = 0 => \A pg \in Pages : latest[pg] = db[pg]
      BY <1>7, <3>1 DEF DbAt, Content
    <3>4. latest \in [Pages -> Contents]
      BY <1>2 DEF TypeOK
    <3> QED BY <3>2, <3>3, <3>4
  <2> QED BY <1>2, <1>4, <2>1, <2>2 DEF Alone
<1>14. Fits(b)
  BY <1>2, <1>3, <1>8, <1>12 DEF Fits, Follows, NoHdr
<1>15. \E d \in 0..MaxFrame : Durable(d)
  BY <1>6, <1>9, <1>10, <1>11, <1>13, <1>14 DEF Durable
<1> QED BY <1>5, <1>15 DEF PowerInv

LEMMA PowerFirstNext == Quiescent' => PowerInv'
BY PowerFirst, PTL

-----------------------------------------------------------------------------
(* Losses of power: power is lost, and all steps together. *)

(* Checksums in the log that is left cover nothing torn. *)
LEMMA TornClean ==
    ASSUME TypeOK, CleanSums(log), CleanSums(logDisk), NEW l \in TornLogs
    PROVE  CleanSums(l)
<1>1. ASSUME NEW k \in Frames PROVE l.frame[k].sum \in {log.frame[k].sum, logDisk.frame[k].sum}
  <2>1. log.frame[k] \in Frame
    BY DEF TypeOK, Log
  <2>2. [log.frame[k] EXCEPT !.val = Garbage].sum = log.frame[k].sum
    BY <2>1 DEF Frame
  <2>3. CASE log.frame = NoLog.frame
    BY <2>3, TornFrameIs
  <2>4. CASE log.frame # NoLog.frame
    <3>1. l.frame[k] \in {log.frame[k], logDisk.frame[k], [log.frame[k] EXCEPT !.val = Garbage]}
      BY <2>4, TornFrameIs
    <3> QED BY <2>2, <3>1
  <2> QED BY <2>3, <2>4
<1> QED BY <1>1 DEF CleanSums

(* Power is lost: what is left is on disk. *)
LEMMA PowerPowerLoss ==
    ASSUME IInv, PowerInv, PowerLoss
    PROVE  PowerInv'
<1>1. PICK f \in TornDbs, l \in TornLogs :
        /\ IndexIsLost
        /\ db' = f /\ dbDisk' = f
        /\ log' = l /\ logDisk' = l
        /\ latest' = Recovered(f, l) /\ reported' = latest' /\ unreported' = {}
  BY DEF PowerLoss
<1>2. TypeOK'
  BY PowerLossTyped DEF IInv
<1>3. live' = NoHdr /\ writer' = None /\ \A q \in Conns : at'[q] \in {"idle", "gone"}
  <2>1. writer \in Conns \cup {None}
    BY DEF IInv, TypeOK
  <2> QED BY <1>1, <2>1 DEF IndexIsLost, Forget
<1>4. CleanSums(l)
  BY TornClean DEF IInv, PowerInv, NoGarbage
<1>5. Recovered(f, l) \in Kept
  BY PowerHarmless DEF IInv, PowerLossIsHarmless, Kept
<1>6. \A pg \in Pages : latest'[pg] # Garbage
  BY <1>1, <1>5 DEF PowerInv, NoGarbage
<1>7. Recovered(db, log)' = Recovered(f, l)
  BY <1>1 DEF Recovered, LastCommit, Accepted, Sum, Content, Find
<1>8. CleanSums(log)'
  BY <1>1, <1>4 DEF CleanSums
<1>9. live' = NoHdr'
  BY <1>3 DEF NoHdr
<1>10. Quiescent'
  BY <1>1, <1>2, <1>3, <1>6, <1>7, <1>8, <1>9 DEF Quiescent, Copying
<1> QED BY <1>10, PowerFirstNext

(* The initial state, with a log that an earlier process left. *)
LEMMA PowerInit ==
    ASSUME Init
    PROVE  PowerInv
<1>1. /\ db = dbDisk /\ log \in {NoLog, LeftLog} /\ logDisk = log /\ live = NoHdr
      /\ writer = None /\ at = [c \in Conns |-> "idle"]
      /\ latest = [pg \in Pages |-> IF pg = log.frame[1].pg THEN 1 ELSE 0] /\ reported = latest /\ unreported = {}
  BY DEF Init
<1>2. TypeOK
  BY InitTyped
<1>3. latest = Recovered(db, log)
  BY <1>1, DeathInit DEF DeathInv, DeathIsHarmless
<1>4. \A pg \in Pages : latest[pg] # Garbage
  BY <1>1 DEF Garbage
<1>5. CleanSums(NoLog)
  BY DEF CleanSums, NoLog, NoFrame
<1>6. CleanSums(LeftLog)
  <2> DEFINE b == [pg |-> MaxPage, val |-> 1, commit |-> TRUE]
             f == [salt |-> 1, pg |-> MaxPage, val |-> 1, commit |-> TRUE, sum |-> <<b>>]
  <2>1. \A j \in DOMAIN f.sum : f.sum[j].val # Garbage
    BY DEF Garbage
  <2>2. \A k \in Frames : LeftLog.frame[k] = IF k = 1 THEN f ELSE NoFrame
    BY FrameNumbers DEF LeftLog, NoLog
  <2>3. NoFrame.sum = << >>
    BY DEF NoFrame
  <2> HIDE DEF f
  <2> QED BY <2>1, <2>2, <2>3 DEF CleanSums
<1>7. Quiescent
  BY <1>1, <1>2, <1>3, <1>4, <1>5, <1>6 DEF Quiescent, Copying
<1> QED BY <1>7, PowerFirst

LEMMA PowerStutter ==
    ASSUME PowerInv, UNCHANGED vars
    PROVE  PowerInv'
<1>1. UNCHANGED <<db, dbDisk, log, logDisk, live, latest, reported, unreported, nBackfill, writer, at, hdr, dirty,
                  reCksum, iFrame, commits, mode, mxSafe, tx>>
  BY DEF vars, files, index, locks, writing, checkpointing, ghosts
<1>2. StillFiles /\ StillLogs
  BY <1>1 DEF StillFiles, StillLogs
<1>3. ASSUME NEW q \in Conns
      PROVE  Stay(q) /\ (Copying(q)' => Copying(q) /\ mxSafe'[q] = mxSafe[q])
  <2>1. IsWriter(q)' => IsWriter(q)
    BY <1>1 DEF IsWriter
  <2>2. Top(q)' = Top(q) /\ Commits(q)' = Commits(q)
    BY <1>1 DEF Top, Commits
  <2> QED BY <1>1, <2>1, <2>2 DEF Stay, Copying
<1>4. NoGarbage' /\ Disks'
  BY <1>1, <1>2, <1>3, GarbageStill, DiskStill DEF PowerInv, Disks
<1>5. Done'
  BY <1>1 DEF PowerInv, Done, NoHdr
<1>6. PICK b \in 0..MaxFrame : Durable(b)
  BY DEF PowerInv
<1>7. \A q \in Conns : Follows(b, q)'
  BY <1>2, <1>3, <1>6, FollowsStill DEF Durable, Fits
<1>8. Durable(b)'
  BY <1>2, <1>6, <1>7, DurableStill
<1>9. \E d \in 0..MaxFrame : Durable(d)'
  BY <1>8
<1> QED BY <1>4, <1>5, <1>9 DEF PowerInv

(* The steps of readers, of the writer, of checkpoints. *)
LEMMA PowerRead ==
    ASSUME IInv, DeathInv, PowerInv, NEW c \in Conns, Read(c)
    PROVE  PowerInv'
BY PowerReadHdr, PowerRecoverHdr, PowerRecoverReset, PowerChoose, PowerMark, PowerLockSlot, PowerVerify,
   PowerEndRead DEF Read

LEMMA PowerWrite ==
    ASSUME IInv, IInv', DeathInv, DeathInv', PowerInv, NEW c \in Conns, Write(c)
    PROVE  PowerInv'
<1>1. CASE Publish(c)
  BY <1>1, PowerSpilled, PowerPublish
<1>2. CASE ~Publish(c)
  BY <1>2, PowerBeginWrite, PowerCommit, PowerRestart, PowerRestartIndex, PowerKeepLog, PowerWalHdr, PowerSyncHdr,
     PowerOverwrite, PowerAppendFrame, PowerRewriteChecksum, PowerSyncLog, PowerRollback, PowerChange, PowerSpill
     DEF Write
<1> QED BY <1>1, <1>2

LEMMA PowerBackfill ==
    ASSUME IInv, DeathInv, PowerInv, NEW c \in Conns, Backfill(c)
    PROVE  PowerInv'
BY PowerCkptSafe, PowerCkptNothing, PowerCkptLock, PowerCkptSkip, PowerCkptCopy, PowerCkptDone, PowerCkptRestart,
   PowerTruncate, PowerCkptEnd, PowerCheckpoint DEF Backfill

LEMMA PowerNext ==
    ASSUME IInv, IInv', DeathInv, DeathInv', PowerInv, Next
    PROVE  PowerInv'
<1>1. CASE \E c \in Conns : Read(c) \/ Write(c) \/ Backfill(c) \/ Die(c)
  BY <1>1, PowerRead, PowerWrite, PowerBackfill, PowerDie
<1> QED BY <1>1, PowerAllDie, PowerPowerLoss DEF Next

(* A loss of power at any moment, which may keep of each page and each frame *)
(* not synced the old content, the new or neither, leaves a log and a        *)
(* database file of which walIndexRecover() makes the last commit that was   *)
(* reported, or one whose sqlite3WalFrames() had not returned.  As above, of *)
(* behaviours with a process killed inside walRestartHdr() nothing is said.  *)
THEOREM PowerLossesAreHarmless == Spec /\ RestartsAreWhole => []PowerLossIsHarmless
<1>1. Init => DeathInv /\ PowerInv
  BY DeathInit, PowerInit
<1>2. IInv /\ IInv' /\ DeathInv /\ [Next]_vars => DeathInv'
  BY DeathNext, DeathStutter
<1>3. IInv /\ IInv' /\ DeathInv /\ DeathInv' /\ PowerInv /\ [Next]_vars => PowerInv'
  BY PowerNext, PowerStutter
<1>4. IInv /\ PowerInv => PowerLossIsHarmless
  BY PowerHarmless DEF IInv
<1> QED BY <1>1, <1>2, <1>3, <1>4, Inductive, PTL DEF Spec
=============================================================================
