-------------------------- MODULE RollbackJournalInv --------------------------
(***************************************************************************)
(* The inductive invariant of RollbackJournal: what the files on the disk  *)
(* and in memory have to do with the last commit, what the journal is      *)
(* good for, and what each pager may rely on at each of its system calls.  *)
(***************************************************************************)
EXTENDS RollbackJournal

-----------------------------------------------------------------------------
(* Files and journals. *)

(* A database that a commit can have made: whole pages without a gap. *)
GoodPage(v) == v = NoPage \/ v.tx >= 1
Solid(f) == \A pg, q \in Pages : q <= pg /\ f[pg] # NoPage => f[q] # NoPage
Good(f) == (\A pg \in Pages : GoodPage(f[pg])) /\ Solid(f)

(* The records that the header counts are pages of f... *)
IsHeaded(j) == j.exists /\ j.hdr
Protects(j, f) ==
    IsHeaded(j) =>
        /\ j.mx = Size(f)
        /\ j.nRec <= Len(j.recs)
        /\ \A i \in 1..j.nRec : f[j.recs[i].pg] # NoPage /\ j.recs[i].val = f[j.recs[i].pg]

(* ...and playing them back makes page pg what it is in f. *)
Counted(j, pg) == \E i \in 1..j.nRec : j.recs[i].pg = pg
Restores(j, pg, f) == IsHeaded(j) /\ (f[pg] = NoPage \/ Counted(j, pg))

Covers(f, g) == \A pg \in Pages : g[pg] # NoPage => f[pg] # NoPage

(* What of a file is not as committed, a journal on the disk restores. *)
SafeOn(f) == \A pg \in Pages : f[pg] # committed[pg] => named /\ Restores(jdisk, pg, committed)

FilesInv ==
    /\ Good(committed) /\ Good(before)
    /\ Covers(db, committed) /\ Covers(disk, committed)
    /\ SafeOn(db)
    /\ committed # EmptyFile => SafeOn(disk)

(* The journal on the disk is the journal as it was some time ago, or one    *)
(* that has been unlinked and leads back to the last commit or the one       *)
(* before.                                                                   *)
WellFormed(j) == (~j.exists => j = NoJournal) /\ (~j.hdr => j.nRec = 0)
Earlier(i, j) ==
    /\ i.exists = j.exists /\ i.mx = j.mx
    /\ i.hdr => j.hdr
    /\ i.nRec <= j.nRec /\ j.nRec <= Len(i.recs) /\ Len(i.recs) <= Len(j.recs)
    /\ \A k \in 1..Len(i.recs) : i.recs[k] = j.recs[k]
LeadsBack(j, f) ==
    /\ Protects(j, f)
    /\ Covers(committed, f)
    /\ \A pg \in Pages : committed[pg] # f[pg] => Restores(j, pg, f)

JournalInv ==
    /\ WellFormed(jrnl) /\ WellFormed(jdisk)
    /\ Protects(jrnl, committed)
    /\ named => Earlier(jdisk, jrnl)
    /\ ~named => ~jrnl.hdr
    /\ ~named /\ IsHeaded(jdisk) => \E f \in {committed, before} : LeadsBack(jdisk, f)

-----------------------------------------------------------------------------
(* Pagers. *)

(* Where a pager can be in which state with which lock. *)
Syncing == {"exclusive", "syncRecords", "writeNRec", "syncHeader"}
Undoing == {"playback", "syncRestored", "finish"}
PhaseOk(p) ==
    \/ eState[p] = "OPEN" /\ at[p] = "idle" /\ level[p] = 0
    \/ /\ eState[p] = "OPEN" /\ level[p] = 1
       /\ at[p] \in {"access", "checkReserved", "readHeader", "reserveToDelete", "lockHot", "check"}
    \/ eState[p] = "OPEN" /\ at[p] \in {"deleteStale", "downgrade"} /\ level[p] = 2
    \/ eState[p] = "OPEN" /\ at[p] \in Undoing \cup {"syncHot", "downgrade"} /\ level[p] = 4
    \/ eState[p] \in {"READER", "ERROR"} /\ at[p] = "idle" /\ level[p] = 1
    \/ eState[p] = "WRITER_LOCKED" /\ at[p] \in {"idle", "downgrade"} /\ level[p] = 2
    \/ /\ eState[p] = "WRITER_CACHEMOD" /\ level[p] = 2
       /\ at[p] \in {"idle", "exclusive", "playback", "finish", "downgrade"}
    \/ eState[p] = "WRITER_CACHEMOD" /\ at[p] = "exclusive" /\ level[p] = 3
    \/ /\ eState[p] = "WRITER_CACHEMOD" /\ level[p] = 4
       /\ at[p] \in {"syncRecords", "writeNRec", "syncHeader"}
    \/ /\ eState[p] = "WRITER_DBMOD" /\ level[p] = 4
       /\ at[p] \in {"idle", "spill", "writePages", "downgrade"} \cup Syncing \cup Undoing
    \/ eState[p] = "WRITER_FINISHED" /\ at[p] \in {"idle", "downgrade"} /\ level[p] = 4

(* The cache, the counter and the dirty pages, by themselves. *)
CacheOk(p) ==
    /\ \A pg \in Pages : Cached(p, pg) => cache[p][pg].tx >= 1
    /\ eState[p] \in {"OPEN", "READER", "WRITER_LOCKED", "WRITER_FINISHED"} \/ at[p] = "downgrade"
          => dirty[p] = {}
    /\ countDone[p] => \/ eState[p] = "WRITER_FINISHED" \/ at[p] = "writePages"
                       \/ at[p] \in Syncing /\ committing[p]

(* What a pager sees in its cache, with a lock and without one. *)
HasCache(p) == \E pg \in Pages : Cached(p, pg)
Matches(p) == \A pg \in Pages : cache[p][pg] \in {NotCached, committed[pg]}
OpenOk(p) ==
    eState[p] = "OPEN" /\ HasCache(p) =>
        /\ vers[p] <= committed[1].cnt
        /\ vers[p] = committed[1].cnt => Matches(p)
ReadOk(p) ==
    eState[p] \in {"READER", "WRITER_LOCKED"} \/ (eState[p] # "OPEN" /\ at[p] = "downgrade") =>
        /\ Matches(p)
        /\ HasCache(p) => vers[p] = committed[1].cnt

(* Who has looked for a hot journal finds the database as committed. *)
AsCommitted == db = committed /\ (committed # EmptyFile => disk = committed)
LockedOk(p) ==
    /\ at[p] \in {"check", "finish", "downgrade"} => AsCommitted
    /\ eState[p] \in {"READER", "WRITER_LOCKED", "WRITER_CACHEMOD"} => AsCommitted
    /\ at[p] \in {"reserveToDelete", "deleteStale"} => db = EmptyFile
    /\ at[p] = "syncRestored" => db = committed

(* Playback: what has been played is restored. *)
PlaybackOk(p) ==
    at[p] = "playback" =>
        /\ pos[p] >= 1
        /\ \A pg \in Pages : committed[pg] = NoPage => db[pg] = NoPage
        /\ \A i \in 1..jrnl.nRec : i < pos[p] => db[jrnl.recs[i].pg] = committed[jrnl.recs[i].pg]
        /\ eState[p] = "OPEN" => jrnl.exists /\ named

(* A writer and its journal. *)
VersOld(p) ==
    /\ vers[p] >= committed[1].cnt
    /\ committed[1] # NoPage => vers[p] = committed[1].cnt
VersNew(p) == vers[p] > committed[1].cnt /\ db[1].cnt = vers[p]

IsWriter(p) ==
    eState[p] \in {"WRITER_CACHEMOD", "WRITER_DBMOD", "WRITER_FINISHED"} /\ at[p] # "downgrade"
BeginOk(p) ==
    /\ eState[p] = "WRITER_LOCKED" => tx[p] >= 1
    /\ eState[p] = "WRITER_LOCKED" /\ at[p] = "idle" /\ committed[1] # NoPage => Cached(p, 1)
WriterOk(p) ==
    IsWriter(p) =>
        /\ jrnl.exists /\ jrnl.tx = tx[p] /\ jrnl.mx = Size(committed)
        /\ tx[p] >= 1
        /\ \A i \in 1..Len(jrnl.recs) :
              committed[jrnl.recs[i].pg] # NoPage /\ jrnl.recs[i].val = committed[jrnl.recs[i].pg]
        /\ eState[p] = "WRITER_CACHEMOD" /\ jrnl.hdr => at[p] = "syncHeader"
        /\ eState[p] # "WRITER_CACHEMOD" =>
              /\ named /\ jdisk.hdr
              /\ at[p] # "syncHeader" => jdisk.nRec = jrnl.nRec
              /\ \A pg \in Pages : GoodPage(db[pg])
        /\ at[p] \in {"writeNRec", "syncHeader", "writePages", "spill"} =>
              named /\ Len(jdisk.recs) = Len(jrnl.recs)
        /\ at[p] \in {"syncHeader", "writePages", "spill"} =>
              jrnl.hdr /\ jrnl.nRec = Len(jrnl.recs)

(* The image that it makes has no gap, and its clean pages are those of the  *)
(* file.                                                                     *)
EditOk(p) ==
    IsWriter(p) /\ at[p] \notin Undoing =>
        /\ \A pg \in Pages : pg \in dirty[p] \/ cache[p][pg] \in {NotCached, db[pg]}
        /\ \A pg \in dirty[p] : committed[pg] # NoPage => InJournal(pg)
        /\ Solid(Image(p))
        /\ db[1] # NoPage => Cached(p, 1)
        /\ at[p] \in Syncing /\ committing[p] => 1 \in dirty[p]
        /\ IF (at[p] = "writePages" \/ eState[p] = "WRITER_FINISHED") /\ 1 \notin dirty[p]
           THEN VersNew(p) ELSE VersOld(p)
        /\ eState[p] = "WRITER_FINISHED" => disk = db

(* What its rollback has not restored yet is still to be played back. *)
UndoOk(p) ==
    IsWriter(p) /\ at[p] \in Undoing =>
        /\ \A pg \in Pages : committed[pg] # NoPage =>
              \/ cache[p][pg] \in {NotCached, committed[pg]}
              \/ at[p] = "playback" /\ \E i \in 1..Len(jrnl.recs) : i >= pos[p] /\ jrnl.recs[i].pg = pg
        /\ VersOld(p)

PagerOk(p) ==
    /\ PhaseOk(p) /\ CacheOk(p)
    /\ OpenOk(p) /\ ReadOk(p) /\ LockedOk(p) /\ PlaybackOk(p)
    /\ BeginOk(p) /\ WriterOk(p) /\ EditOk(p) /\ UndoOk(p)
PagersInv == \A p \in Pagers : PagerOk(p)

Inv == TypeOK /\ Locks!Excludes /\ FilesInv /\ JournalInv /\ PagersInv
=============================================================================
