------------------------ MODULE RollbackJournal_proofs ------------------------
(***************************************************************************)
(* The proofs about RollbackJournal, for any pagers, pages and             *)
(* transactions: Inv of RollbackJournalInv is inductive, and what readers  *)
(* see and what a death or a loss of power leaves follows from it.         *)
(*                                                                         *)
(* PowerFrom = 1 is assumed where power may go, so the theorems say        *)
(* nothing of losses of power while the database is empty:                 *)
(* PowerLossIsAtomic does not hold before the first commit                 *)
(* (DeleteStaleJournal without a sync).                                    *)
(***************************************************************************)
EXTENDS RollbackJournalInv, FiniteSetTheorems, SequenceTheorems, WellFoundedInduction, TLAPS

-----------------------------------------------------------------------------
(* The size of a file. *)

LEMMA SizeIs ==
    ASSUME NEW f
    PROVE  /\ Size(f) \in 0..MaxPage
           /\ \A pg \in Pages : pg <= Size(f) <=> \E q \in pg..MaxPage : f[q] # NoPage
<1> USE BoundsAssumption
<1> DEFINE S == {pg \in Pages : \E q \in pg..MaxPage : f[q] # NoPage}
           T == {m \in Nat : m + 1 \notin S}
<1>1. MaxPage \in T
  BY DEF Pages
<1>2. \E n \in T : \A m \in T : ~(m < n)
  <2>1. \E n \in T : \A m \in T : ~(<<m, n>> \in OpToRel(<, Nat))
    BY <1>1, NatLessThanWellFounded, WFMin, Zenon
  <2> QED BY <2>1 DEF OpToRel
<1>3. PICK n \in T : \A m \in T : ~(m < n)
  BY <1>2
<1>4. n <= MaxPage
  BY <1>1, <1>3
<1>5. S = 1..n
  <2>1. ASSUME NEW pg \in 1..n PROVE pg \in S
    <3>1. pg - 1 \in Nat /\ pg - 1 < n
      BY <1>3
    <3>2. pg - 1 \notin T
      BY <1>3, <3>1
    <3> QED BY <3>1, <3>2
  <2>2. ASSUME NEW pg \in S PROVE pg \in 1..n
    <3>1. pg \in Nat \ {0}
      BY DEF Pages
    <3>2. n + 1 \in Nat /\ n + 1 \notin S
      BY <1>3
    <3>3. CASE pg > n
      <4>1. n + 1 \in Pages
        BY <3>3, <2>2 DEF Pages
      <4>2. \E q \in pg..MaxPage : f[q] # NoPage
        BY <2>2
      <4>3. \E q \in n + 1..MaxPage : f[q] # NoPage
        BY <3>1, <3>2, <3>3, <4>2
      <4> QED BY <3>2, <4>1, <4>3
    <3> QED BY <1>3, <3>1, <3>3
  <2> QED BY <2>1, <2>2
<1>6. Size(f) = n
  <2>1. Size(f) = Cardinality(S)
    BY DEF Size
  <2>2. Cardinality(1..n) = n
    BY <1>3, FS_Interval
  <2> QED BY <1>5, <2>1, <2>2
<1>7. ASSUME NEW pg \in Pages PROVE pg <= Size(f) <=> \E q \in pg..MaxPage : f[q] # NoPage
  BY <1>3, <1>5, <1>6 DEF Pages
<1> QED BY <1>3, <1>4, <1>6, <1>7

LEMMA SolidSize ==
    ASSUME NEW f, Solid(f), NEW pg \in Pages
    PROVE  pg <= Size(f) <=> f[pg] # NoPage
<1>1. pg \in Nat /\ pg \in pg..MaxPage
  BY BoundsAssumption DEF Pages
<1>2. \A q \in pg..MaxPage : q \in Pages /\ pg <= q
  BY BoundsAssumption DEF Pages
<1> QED BY <1>1, <1>2, SizeIs DEF Solid

LEMMA EmptySize ==
    ASSUME NEW f \in [Pages -> Content], Size(f) = 0
    PROVE  f = EmptyFile
<1>1. ASSUME NEW pg \in Pages PROVE f[pg] = NoPage
  <2>1. pg \in pg..MaxPage /\ ~(pg <= 0)
    BY BoundsAssumption DEF Pages
  <2> QED BY <2>1, SizeIs
<1> QED BY <1>1 DEF EmptyFile

-----------------------------------------------------------------------------
(* What recovery makes of a file. *)

LEMMA GoodIsWhole ==
    ASSUME NEW f, Good(f), NEW pg \in Pages
    PROVE  f[pg] # Garbage /\ f[pg] # NotCached
BY DEF Good, GoodPage, NoPage, Garbage, NotCached

LEMMA ValidRecords ==
    ASSUME NEW f, Good(f), NEW j \in Journals, NEW n \in Nat, n <= Len(j.recs),
           \A i \in 1..n : j.recs[i].val = f[j.recs[i].pg]
    PROVE  Valid(j, n) = 1..n
<1>1. j.recs \in Seq(Record)
  BY DEF Journals
<1>2. \A i \in 1..n : j.recs[i] \in Record /\ i <= Len(j.recs)
  BY <1>1, ElementOfSeq, LenProperties
<1>3. \A i \in 1..n : j.recs[i].val # Garbage
  BY <1>2, GoodIsWhole DEF Record
<1> QED BY <1>2, <1>3 DEF Valid

LEMMA RecoversTo ==
    ASSUME NEW f \in [Pages -> Content], NEW j \in Journals, NEW base \in [Pages -> Content],
           Good(base), Covers(f, base), Protects(j, base),
           \A pg \in Pages : f[pg] # base[pg] => Restores(j, pg, base)
    PROVE  Recovered(f, j) = base
<1>1. CASE ~IsHeaded(j)
  BY <1>1 DEF IsHeaded, Recovered, Restores
<1>2. CASE IsHeaded(j) /\ Size(f) = 0
  <2>1. f = EmptyFile
    BY <1>2, EmptySize
  <2>2. \A pg \in Pages : base[pg] = NoPage
    BY <2>1 DEF Covers, EmptyFile
  <2> QED BY <1>2, <2>1, <2>2 DEF Recovered, EmptyFile
<1>3. CASE IsHeaded(j) /\ Size(f) > 0
  <2>1. /\ j.mx = Size(base) /\ j.nRec \in Nat /\ j.nRec <= Len(j.recs)
        /\ \A i \in 1..j.nRec : j.recs[i].val = base[j.recs[i].pg]
    BY <1>3 DEF Protects, Journals
  <2>2. Valid(j, j.nRec) = 1..j.nRec
    BY <2>1, ValidRecords
  <2>3. ASSUME NEW pg \in Pages PROVE PlayedBack(f, j)[pg] = base[pg]
    <3>1. pg > j.mx <=> base[pg] = NoPage
      <4>1. pg <= Size(base) <=> base[pg] # NoPage
        BY SolidSize DEF Good
      <4>2. Size(base) \in Nat /\ pg \in Nat
        BY SizeIs, BoundsAssumption DEF Pages
      <4> QED BY <2>1, <4>1, <4>2
    <3> DEFINE of == {i \in 1..j.nRec : j.recs[i].pg = pg}
    <3>2. of # {} => j.recs[CHOOSE i \in of : TRUE].val = base[pg]
      BY <2>1
    <3>3. of = {} /\ base[pg] # NoPage => f[pg] = base[pg]
      BY DEF Restores, Counted
    <3>4. PlayedBack(f, j)[pg] = IF pg > j.mx THEN NoPage
                                 ELSE IF of = {} THEN f[pg] ELSE j.recs[CHOOSE i \in of : TRUE].val
      BY <2>2 DEF PlayedBack
    <3> QED BY <3>1, <3>2, <3>3, <3>4
  <2>4. PlayedBack(f, j) = base
    BY <2>3 DEF PlayedBack
  <2> QED BY <1>3, <2>4 DEF Recovered, IsHeaded
<1>4. Size(f) \in Nat
  BY SizeIs, BoundsAssumption
<1> QED BY <1>1, <1>2, <1>3, <1>4

-----------------------------------------------------------------------------
(* What a step that leaves something alone leaves true. *)

Same(q) ==
    /\ level'[q] = level[q] /\ eState'[q] = eState[q] /\ at'[q] = at[q]
    /\ committing'[q] = committing[q] /\ cache'[q] = cache[q] /\ dirty'[q] = dirty[q]
    /\ vers'[q] = vers[q] /\ countDone'[q] = countDone[q] /\ tx'[q] = tx[q] /\ pos'[q] = pos[q]

LEMMA FilesKeep ==
    ASSUME FilesInv, UNCHANGED <<dbFile, jdisk, named, ghosts>>
    PROVE  FilesInv'
BY DEF FilesInv, dbFile, ghosts, Good, GoodPage, Solid, Covers, SafeOn, Restores, IsHeaded, Counted,
       EmptyFile, NoPage

LEMMA JournalKeep ==
    ASSUME JournalInv, UNCHANGED <<journal, ghosts>>
    PROVE  JournalInv'
BY DEF JournalInv, journal, ghosts, WellFormed, Protects, IsHeaded, Size, Earlier, LeadsBack, Covers,
       Restores, Counted

LEMMA PagerKeep ==
    ASSUME NEW q \in Pagers, PagerOk(q), Same(q), UNCHANGED <<dbFile, journal, ghosts>>
    PROVE  PagerOk(q)'
<1> USE DEF Same, dbFile, journal, ghosts
<1>1. PhaseOk(q)'
  BY DEF PagerOk, PhaseOk
<1>2. CacheOk(q)'
  BY DEF PagerOk, CacheOk, Cached
<1>3. OpenOk(q)'
  BY DEF PagerOk, OpenOk, HasCache, Matches, Cached
<1>4. ReadOk(q)'
  BY DEF PagerOk, ReadOk, HasCache, Matches, Cached
<1>5. LockedOk(q)'
  BY DEF PagerOk, LockedOk, AsCommitted, EmptyFile, NoPage
<1>6. PlaybackOk(q)'
  BY DEF PagerOk, PlaybackOk
<1>7. BeginOk(q)'
  BY DEF PagerOk, BeginOk, Cached
<1>8. WriterOk(q)'
  BY DEF PagerOk, WriterOk, IsWriter, Size, GoodPage
<1>9. EditOk(q)'
  <2>1. Image(q)' = Image(q) /\ Solid(Image(q))' = Solid(Image(q))
    BY DEF Image, Cached, Solid
  <2>2. VersNew(q)' = VersNew(q) /\ VersOld(q)' = VersOld(q)
    BY DEF VersNew, VersOld
  <2> QED BY <2>1, <2>2 DEF PagerOk, EditOk, IsWriter, InJournal, Cached
<1>10. UndoOk(q)'
  BY DEF PagerOk, UndoOk, IsWriter, VersOld
<1> QED BY <1>1, <1>2, <1>3, <1>4, <1>5, <1>6, <1>7, <1>8, <1>9, <1>10 DEF PagerOk

(* A pager that only reads does not look at the journal again. *)
LEMMA ReaderKeep ==
    ASSUME NEW q \in Pagers, PagerOk(q), Same(q), level[q] <= 1, UNCHANGED <<dbFile, ghosts>>
    PROVE  PagerOk(q)'
<1> USE DEF Same, dbFile, ghosts
<1>1. PhaseOk(q)'
  BY DEF PagerOk, PhaseOk
<1>2. CacheOk(q)'
  BY DEF PagerOk, CacheOk, Cached
<1>3. OpenOk(q)'
  BY DEF PagerOk, OpenOk, HasCache, Matches, Cached
<1>4. ReadOk(q)'
  BY DEF PagerOk, ReadOk, HasCache, Matches, Cached
<1>5. LockedOk(q)'
  BY DEF PagerOk, LockedOk, AsCommitted, EmptyFile, NoPage
<1>6. BeginOk(q)'
  BY DEF PagerOk, BeginOk, Cached
<1>7. at[q] # "playback" /\ ~IsWriter(q)
  BY DEF PagerOk, PhaseOk, Undoing, Syncing, IsWriter
<1>8. PlaybackOk(q)' /\ WriterOk(q)' /\ EditOk(q)' /\ UndoOk(q)'
  BY <1>7 DEF PlaybackOk, WriterOk, EditOk, UndoOk, IsWriter
<1> QED BY <1>1, <1>2, <1>3, <1>4, <1>5, <1>6, <1>8 DEF PagerOk

(* One without a lock does not look at the files either. *)
LEMMA OutsiderKeep ==
    ASSUME NEW q \in Pagers, PagerOk(q), Same(q), level[q] = 0, UNCHANGED committed
    PROVE  PagerOk(q)'
<1> USE DEF Same
<1>1. eState[q] = "OPEN" /\ at[q] = "idle"
  BY DEF PagerOk, PhaseOk
<1>2. PhaseOk(q)' /\ CacheOk(q)'
  BY DEF PagerOk, PhaseOk, CacheOk, Cached
<1>3. OpenOk(q)'
  BY DEF PagerOk, OpenOk, HasCache, Matches, Cached
<1>4. ReadOk(q)' /\ LockedOk(q)' /\ PlaybackOk(q)' /\ BeginOk(q)'
  BY <1>1 DEF ReadOk, LockedOk, PlaybackOk, BeginOk
<1>5. WriterOk(q)' /\ EditOk(q)' /\ UndoOk(q)'
  BY <1>1 DEF WriterOk, EditOk, UndoOk, IsWriter
<1> QED BY <1>2, <1>3, <1>4, <1>5 DEF PagerOk

-----------------------------------------------------------------------------
(* What is left to show of a step of pager p: of one that leaves the files   *)
(* alone, of one under a RESERVED lock that changes the journal only, of one *)
(* under the EXCLUSIVE lock.                                                 *)

LEMMA LocalStep ==
    ASSUME Inv, NEW p \in Pagers, \A q \in Pagers \ {p} : Same(q),
           UNCHANGED <<dbFile, journal, ghosts>>,
           TypeOK', Locks!Excludes', PagerOk(p)'
    PROVE  Inv'
<1>1. FilesInv' /\ JournalInv'
  BY FilesKeep, JournalKeep DEF Inv, journal
<1>2. \A q \in Pagers \ {p} : PagerOk(q)'
  BY PagerKeep DEF Inv, PagersInv
<1> QED BY <1>1, <1>2 DEF Inv, PagersInv

LEMMA ReservedStep ==
    ASSUME Inv, NEW p \in Pagers, level[p] >= 2, \A q \in Pagers \ {p} : Same(q),
           UNCHANGED <<dbFile, ghosts>>,
           TypeOK', Locks!Excludes', FilesInv', JournalInv', PagerOk(p)'
    PROVE  Inv'
<1>1. \A q \in Pagers \ {p} : level[q] <= 1
  BY DEF Inv, Locks!Excludes, Locks!RESERVED_LOCK, Locks!SHARED_LOCK
<1>2. \A q \in Pagers \ {p} : PagerOk(q)'
  BY <1>1, ReaderKeep DEF Inv, PagersInv
<1> QED BY <1>2 DEF Inv, PagersInv

LEMMA ExclusiveStep ==
    ASSUME Inv, NEW p \in Pagers, level[p] = 4, \A q \in Pagers \ {p} : Same(q),
           UNCHANGED committed,
           TypeOK', Locks!Excludes', FilesInv', JournalInv', PagerOk(p)'
    PROVE  Inv'
<1>1. \A q \in Pagers \ {p} : level[q] = 0
  BY DEF Inv, Locks!Excludes, Locks!EXCLUSIVE_LOCK, Locks!NO_LOCK
<1>2. \A q \in Pagers \ {p} : PagerOk(q)'
  BY <1>1, OutsiderKeep DEF Inv, PagersInv
<1> QED BY <1>2 DEF Inv, PagersInv

-----------------------------------------------------------------------------
(* The locks. *)

LEMMA LockSteps ==
    ASSUME level \in [Pagers -> 0..4], Locks!Excludes, NEW p \in Pagers
    PROVE  /\ Locks!Share(p) => level[p] = 0 /\ level' = [level EXCEPT ![p] = 1] /\ Locks!Excludes'
           /\ Locks!Reserve(p) => level[p] = 1 /\ level' = [level EXCEPT ![p] = 2] /\ Locks!Excludes'
           /\ Locks!Pend(p) => level[p] = 2 /\ level' = [level EXCEPT ![p] = 3] /\ Locks!Excludes'
           /\ Locks!Exclude(p) =>
                 level[p] \in {1, 3} /\ level' = [level EXCEPT ![p] = 4] /\ Locks!Excludes'
           /\ Locks!Downgrade(p) => level[p] > 1 /\ level' = [level EXCEPT ![p] = 1] /\ Locks!Excludes'
           /\ Locks!Release({p}) => level' = [level EXCEPT ![p] = 0] /\ Locks!Excludes'
           /\ UNCHANGED level => Locks!Excludes'
<1> USE DEF Locks!Excludes, Locks!Move, Locks!Others, Locks!NO_LOCK, Locks!SHARED_LOCK,
            Locks!RESERVED_LOCK, Locks!PENDING_LOCK, Locks!EXCLUSIVE_LOCK
<1>1. Locks!Share(p) => level[p] = 0 /\ level' = [level EXCEPT ![p] = 1] /\ Locks!Excludes'
  BY DEF Locks!Share, Locks!KeepsOut
<1>2. Locks!Reserve(p) => level[p] = 1 /\ level' = [level EXCEPT ![p] = 2] /\ Locks!Excludes'
  BY DEF Locks!Reserve, Locks!OthersOnlyRead
<1>3. Locks!Pend(p) => level[p] = 2 /\ level' = [level EXCEPT ![p] = 3] /\ Locks!Excludes'
  BY DEF Locks!Pend
<1>4. Locks!Exclude(p) => level[p] \in {1, 3} /\ level' = [level EXCEPT ![p] = 4] /\ Locks!Excludes'
  BY DEF Locks!Exclude, Locks!IsAlone
<1>5. Locks!Downgrade(p) => level[p] > 1 /\ level' = [level EXCEPT ![p] = 1] /\ Locks!Excludes'
  BY DEF Locks!Downgrade
<1>6. Locks!Release({p}) => level' = [level EXCEPT ![p] = 0] /\ Locks!Excludes'
  <2>1. Locks!Release({p}) => level' = [level EXCEPT ![p] = 0]
    BY DEF Locks!Release
  <2>2. level' = [level EXCEPT ![p] = 0] => Locks!Excludes'
    OBVIOUS
  <2> QED BY <2>1, <2>2
<1> QED BY <1>1, <1>2, <1>3, <1>4, <1>5, <1>6

(* Without a header on the disk, and in an empty file, nothing is left to    *)
(* restore.                                                                  *)
LEMMA SettledWithoutHeader ==
    ASSUME Inv, ~IsHeaded(jrnl)
    PROVE  AsCommitted
<1>1. ~(named /\ IsHeaded(jdisk))
  BY DEF Inv, JournalInv, Earlier, IsHeaded
<1>2. \A pg \in Pages : db[pg] = committed[pg]
  BY <1>1 DEF Inv, FilesInv, SafeOn, Restores
<1>3. committed # EmptyFile => \A pg \in Pages : disk[pg] = committed[pg]
  BY <1>1 DEF Inv, FilesInv, SafeOn, Restores
<1> QED BY <1>2, <1>3 DEF Inv, TypeOK, AsCommitted

LEMMA SettledWhenEmpty ==
    ASSUME Inv, db = EmptyFile
    PROVE  committed = EmptyFile /\ AsCommitted
<1>1. \A pg \in Pages : committed[pg] = NoPage
  BY DEF Inv, FilesInv, Covers, EmptyFile
<1> QED BY <1>1 DEF Inv, TypeOK, AsCommitted, EmptyFile

LEMMA EarlierProtects ==
    ASSUME TypeOK, JournalInv, named, NEW f, Protects(jrnl, f)
    PROVE  Protects(jdisk, f)
<1> SUFFICES ASSUME IsHeaded(jdisk)
             PROVE  /\ jdisk.mx = Size(f)
                    /\ jdisk.nRec <= Len(jdisk.recs)
                    /\ \A i \in 1..jdisk.nRec :
                          f[jdisk.recs[i].pg] # NoPage /\ jdisk.recs[i].val = f[jdisk.recs[i].pg]
  BY DEF Protects
<1>1. Earlier(jdisk, jrnl) /\ Len(jdisk.recs) \in Nat /\ jdisk.nRec \in Nat /\ jrnl.nRec \in Nat
  BY LenProperties DEF TypeOK, JournalInv, Journals
<1>2. IsHeaded(jrnl)
  BY <1>1 DEF Earlier, IsHeaded
<1>3. jdisk.nRec <= Len(jdisk.recs) /\ jdisk.nRec <= jrnl.nRec /\ jdisk.mx = jrnl.mx
  BY <1>1 DEF Earlier
<1>4. ASSUME NEW i \in 1..jdisk.nRec
      PROVE  i \in 1..jrnl.nRec /\ jdisk.recs[i] = jrnl.recs[i]
  BY <1>1, <1>3 DEF Earlier
<1> QED BY <1>2, <1>3, <1>4 DEF Protects

LEMMA LaterRestores ==
    ASSUME TypeOK, JournalInv, named, NEW f, NEW pg, Restores(jdisk, pg, f)
    PROVE  Restores(jrnl, pg, f)
<1>1. Earlier(jdisk, jrnl) /\ Len(jdisk.recs) \in Nat /\ jdisk.nRec \in Nat /\ jrnl.nRec \in Nat
  BY LenProperties DEF TypeOK, JournalInv, Journals
<1>2. IsHeaded(jrnl)
  BY <1>1 DEF Earlier, IsHeaded, Restores
<1>3. ASSUME NEW i \in 1..jdisk.nRec
      PROVE  i \in 1..jrnl.nRec /\ jdisk.recs[i] = jrnl.recs[i]
  BY <1>1 DEF Earlier
<1> QED BY <1>2, <1>3 DEF Restores, Counted

(* Without its name in the directory the journal on the disk leads back. *)
LEMMA NameGoes ==
    ASSUME TypeOK, JournalInv, ~named', jdisk' = jdisk, UNCHANGED ghosts,
           WellFormed(jrnl)', ~jrnl'.hdr
    PROVE  JournalInv'
<1> USE DEF ghosts
<1>1. named => Protects(jdisk, committed)
  BY EarlierProtects DEF JournalInv
<1>2. named => LeadsBack(jdisk, committed)
  BY <1>1 DEF LeadsBack, Covers
<1>3. IsHeaded(jdisk) => \E f \in {committed, before} : LeadsBack(jdisk, f)
  BY <1>2 DEF JournalInv
<1>4. IsHeaded(jdisk)' => \E f \in {committed', before'} : LeadsBack(jdisk, f)'
  BY <1>3 DEF LeadsBack, Protects, Covers, Restores, Counted, IsHeaded, Size
<1>5. WellFormed(jdisk)' /\ Protects(jrnl, committed)'
  BY DEF JournalInv, WellFormed, Protects, IsHeaded
<1> QED BY <1>4, <1>5 DEF JournalInv

LEMMA UnlinkKeeps ==
    ASSUME TypeOK, FilesInv, JournalInv, AsCommitted, UnlinkJournal, UNCHANGED <<dbFile, ghosts>>
    PROVE  FilesInv' /\ JournalInv'
<1>1. JournalInv'
  BY NameGoes DEF UnlinkJournal, WellFormed, NoJournal
<1>2. FilesInv'
  BY DEF FilesInv, AsCommitted, SafeOn, Good, GoodPage, Solid, Covers, dbFile, ghosts, EmptyFile, NoPage
<1> QED BY <1>1, <1>2

-----------------------------------------------------------------------------
(* The steps of Read. *)

LEMMA SharedLockKeeps ==
    ASSUME Inv, NEW p \in Pagers, SharedLock(p)
    PROVE  Inv'
<1> USE DEF SharedLock, Goto, Set, caches, dbFile, journal, ghosts
<1>1. level[p] = 0 /\ level' = [level EXCEPT ![p] = 1] /\ Locks!Excludes'
  BY LockSteps DEF Inv, TypeOK
<1>2. eState[p] = "OPEN" /\ at[p] = "idle"
  BY DEF Idle
<1>3. TypeOK' /\ \A q \in Pagers \ {p} : Same(q)
  <2>1. TypeOK'
    BY <1>1 DEF Inv, TypeOK, Calls
  <2>2. \A q \in Pagers \ {p} : Same(q)
    BY <1>1 DEF Inv, TypeOK, Same
  <2> QED BY <2>1, <2>2
<1>4. PagerOk(p)'
  BY <1>1, <1>2 DEF Inv, PagersInv, TypeOK, PagerOk, PhaseOk, CacheOk, OpenOk, ReadOk, LockedOk,
     PlaybackOk, BeginOk, WriterOk, EditOk, UndoOk, Cached, HasCache, Matches, IsWriter, Syncing, Undoing
<1> QED BY <1>1, <1>3, <1>4, LocalStep

LEMMA AccessJournalKeeps ==
    ASSUME Inv, NEW p \in Pagers, AccessJournal(p)
    PROVE  Inv'
<1> USE DEF AccessJournal, Goto, Set, caches, dbFile, journal, ghosts
<1>1. at[p] = "access" /\ eState[p] = "OPEN" /\ level[p] = 1
  BY DEF IsAt, Inv, PagersInv, PagerOk, PhaseOk, Undoing, Syncing
<1>2. TypeOK' /\ Locks!Excludes' /\ \A q \in Pagers \ {p} : Same(q)
  <2>1. TypeOK'
    BY DEF Inv, TypeOK, Calls
  <2>2. \A q \in Pagers \ {p} : Same(q)
    BY DEF Inv, TypeOK, Same
  <2>3. Locks!Excludes'
    BY LockSteps DEF Inv, TypeOK
  <2> QED BY <2>1, <2>2, <2>3
<1>3. ~jrnl.exists => AsCommitted
  BY SettledWithoutHeader DEF IsHeaded
<1>4. AsCommitted' = AsCommitted
  BY DEF AsCommitted, EmptyFile, NoPage
<1>5. PagerOk(p)'
  BY <1>1, <1>3, <1>4 DEF Inv, PagersInv, TypeOK, PagerOk, PhaseOk, CacheOk, OpenOk, ReadOk, LockedOk,
     PlaybackOk, BeginOk, WriterOk, EditOk, UndoOk, Cached, HasCache, Matches, IsWriter, Syncing, Undoing
<1> QED BY <1>2, <1>5, LocalStep

LEMMA CheckReservedLockKeeps ==
    ASSUME Inv, NEW p \in Pagers, CheckReservedLock(p)
    PROVE  Inv'
<1> USE DEF CheckReservedLock, Goto, Set, caches, dbFile, journal, ghosts
<1>1. at[p] = "checkReserved" /\ eState[p] = "OPEN" /\ level[p] = 1
  BY DEF IsAt, Inv, PagersInv, PagerOk, PhaseOk, Undoing, Syncing
<1>2. TypeOK' /\ Locks!Excludes' /\ \A q \in Pagers \ {p} : Same(q)
  <2>1. TypeOK'
    BY DEF Inv, TypeOK, Calls
  <2>2. \A q \in Pagers \ {p} : Same(q)
    BY DEF Inv, TypeOK, Same
  <2>3. Locks!Excludes'
    BY LockSteps DEF Inv, TypeOK
  <2> QED BY <2>1, <2>2, <2>3
<1>3. ASSUME NEW q \in Pagers \ {p}, level[q] >= 2
      PROVE  AsCommitted
  <2>1. level[q] \in {2, 3} /\ PagerOk(q)
    <3>1. level[q] # 4
      BY <1>1 DEF Inv, Locks!Excludes, Locks!EXCLUSIVE_LOCK, Locks!NO_LOCK
    <3> QED BY <1>3, <3>1 DEF Inv, PagersInv, TypeOK
  <2>2. at[q] = "deleteStale" \/ at[q] = "downgrade" \/ eState[q] \in {"WRITER_LOCKED", "WRITER_CACHEMOD"}
    BY <2>1 DEF PagerOk, PhaseOk, Undoing, Syncing
  <2> QED BY <2>1, <2>2, SettledWhenEmpty DEF PagerOk, LockedOk
<1>4. at[p]' = "check" => AsCommitted
  BY <1>1, <1>3 DEF RESERVED_LOCK, Inv, TypeOK
<1>5. AsCommitted' = AsCommitted
  BY DEF AsCommitted, EmptyFile, NoPage
<1>6. PagerOk(p)'
  BY <1>1, <1>4, <1>5 DEF Inv, PagersInv, TypeOK, PagerOk, PhaseOk, CacheOk, OpenOk, ReadOk, LockedOk,
     PlaybackOk, BeginOk, WriterOk, EditOk, UndoOk, Cached, HasCache, Matches, IsWriter, Syncing, Undoing
<1> QED BY <1>2, <1>6, LocalStep

LEMMA ReadHeaderKeeps ==
    ASSUME Inv, NEW p \in Pagers, ReadHeader(p)
    PROVE  Inv'
<1> USE DEF ReadHeader, Goto, Set, caches, dbFile, journal, ghosts
<1>1. at[p] = "readHeader" /\ eState[p] = "OPEN" /\ level[p] = 1
  BY DEF IsAt, Inv, PagersInv, PagerOk, PhaseOk, Undoing, Syncing
<1>2. TypeOK' /\ Locks!Excludes' /\ \A q \in Pagers \ {p} : Same(q)
  <2>1. TypeOK'
    BY DEF Inv, TypeOK, Calls
  <2>2. \A q \in Pagers \ {p} : Same(q)
    BY DEF Inv, TypeOK, Same
  <2>3. Locks!Excludes'
    BY LockSteps DEF Inv, TypeOK
  <2> QED BY <2>1, <2>2, <2>3
<1>3. /\ Size(db) = 0 => db = EmptyFile
      /\ ~jrnl.hdr => AsCommitted
  BY EmptySize, SettledWithoutHeader DEF IsHeaded, Inv, TypeOK
<1>4. AsCommitted' = AsCommitted /\ EmptyFile' = EmptyFile
  BY DEF AsCommitted, EmptyFile, NoPage
<1>5. /\ at[p]' \in {"check", "reserveToDelete", "lockHot"}
      /\ at[p]' = "check" => AsCommitted
      /\ at[p]' = "reserveToDelete" => db = EmptyFile
  BY <1>1, <1>3 DEF Inv, TypeOK
<1>6. PagerOk(p)'
  BY <1>1, <1>4, <1>5 DEF Inv, PagersInv, TypeOK, PagerOk, PhaseOk, CacheOk, OpenOk, ReadOk, LockedOk,
     PlaybackOk, BeginOk, WriterOk, EditOk, UndoOk, Cached, HasCache, Matches, IsWriter, Syncing, Undoing
<1> QED BY <1>2, <1>6, LocalStep

LEMMA ReserveToDeleteKeeps ==
    ASSUME Inv, NEW p \in Pagers, ReserveToDelete(p)
    PROVE  Inv'
<1> USE DEF ReserveToDelete, Goto, Set, caches, dbFile, journal, ghosts
<1>1. at[p] = "reserveToDelete" /\ eState[p] = "OPEN" /\ level[p] = 1 /\ db = EmptyFile
  BY DEF IsAt, Inv, PagersInv, PagerOk, PhaseOk, LockedOk, Undoing, Syncing
<1>2. /\ Locks!Excludes'
      /\ \/ at' = [at EXCEPT ![p] = "deleteStale"] /\ level' = [level EXCEPT ![p] = 2]
         \/ at' = [at EXCEPT ![p] = "check"] /\ level' = level
  BY LockSteps DEF Inv, TypeOK
<1>3. TypeOK' /\ \A q \in Pagers \ {p} : Same(q)
  <2>1. TypeOK'
    <3> HIDE DEF ReserveToDelete
    <3>1. level' \in [Pagers -> 0..4]
      <4>1. level \in [Pagers -> 0..4]
        BY DEF Inv, TypeOK
      <4> QED BY <1>2, <4>1
    <3>2. at' \in [Pagers -> Calls]
      BY <1>2 DEF Inv, TypeOK, Calls
    <3> QED BY <3>1, <3>2 DEF Inv, TypeOK, ReserveToDelete
  <2>2. \A q \in Pagers \ {p} : Same(q)
    BY <1>2 DEF Inv, TypeOK, Same
  <2> QED BY <2>1, <2>2
<1>4. AsCommitted' /\ (db = EmptyFile)'
  BY <1>1, SettledWhenEmpty DEF AsCommitted, EmptyFile, NoPage
<1>5. PagerOk(p)'
  BY <1>1, <1>2, <1>4 DEF Inv, PagersInv, TypeOK, PagerOk, PhaseOk, CacheOk, OpenOk, ReadOk, LockedOk,
     PlaybackOk, BeginOk, WriterOk, EditOk, UndoOk, Cached, HasCache, Matches, IsWriter, Syncing, Undoing
<1> QED BY <1>2, <1>3, <1>5, LocalStep

LEMMA DeleteStaleJournalKeeps ==
    ASSUME Inv, NEW p \in Pagers, DeleteStaleJournal(p)
    PROVE  Inv'
<1> USE DEF DeleteStaleJournal, Goto, Set, caches, dbFile, ghosts
<1>1. at[p] = "deleteStale" /\ eState[p] = "OPEN" /\ level[p] = 2 /\ db = EmptyFile
  BY DEF IsAt, Inv, PagersInv, PagerOk, PhaseOk, LockedOk, Undoing, Syncing
<1>2. NoJournal \in Journals
  BY EmptySeq DEF NoJournal, Journals
<1>3. TypeOK' /\ Locks!Excludes' /\ \A q \in Pagers \ {p} : Same(q)
  <2>1. TypeOK'
    BY <1>2 DEF Inv, TypeOK, Calls, UnlinkJournal
  <2>2. \A q \in Pagers \ {p} : Same(q)
    BY <1>2 DEF Inv, TypeOK, Same
  <2>3. Locks!Excludes'
    BY LockSteps DEF Inv, TypeOK
  <2> QED BY <2>1, <2>2, <2>3
<1>4. AsCommitted
  BY <1>1, SettledWhenEmpty
<1>5. FilesInv' /\ JournalInv'
  BY <1>4, UnlinkKeeps DEF Inv
<1>6. AsCommitted'
  BY <1>4 DEF AsCommitted, EmptyFile, NoPage
<1>7. PagerOk(p)'
  BY <1>1, <1>6 DEF Inv, PagersInv, TypeOK, PagerOk, PhaseOk, CacheOk, OpenOk, ReadOk, LockedOk,
     PlaybackOk, BeginOk, WriterOk, EditOk, UndoOk, Cached, HasCache, Matches, IsWriter, Syncing, Undoing
<1> QED BY <1>1, <1>3, <1>5, <1>7, ReservedStep

LEMMA LockHotKeeps ==
    ASSUME Inv, NEW p \in Pagers, LockHot(p)
    PROVE  Inv'
<1> USE DEF LockHot, Goto, Set, caches, dbFile, journal, ghosts
<1>1. at[p] = "lockHot" /\ eState[p] = "OPEN" /\ level[p] = 1
  BY DEF IsAt, Inv, PagersInv, PagerOk, PhaseOk, Undoing, Syncing
<1>2. level' = [level EXCEPT ![p] = 4] /\ Locks!Excludes'
  BY LockSteps DEF Inv, TypeOK
<1>3. TypeOK' /\ \A q \in Pagers \ {p} : Same(q)
  <2>1. TypeOK'
    BY <1>2 DEF Inv, TypeOK, Calls
  <2>2. \A q \in Pagers \ {p} : Same(q)
    BY <1>2 DEF Inv, TypeOK, Same
  <2> QED BY <2>1, <2>2
<1>4. PagerOk(p)'
  BY <1>1, <1>2 DEF Inv, PagersInv, TypeOK, PagerOk, PhaseOk, CacheOk, OpenOk, ReadOk, LockedOk,
     PlaybackOk, BeginOk, WriterOk, EditOk, UndoOk, Cached, HasCache, Matches, IsWriter, Syncing, Undoing
<1> QED BY <1>2, <1>3, <1>4, LocalStep

LEMMA LockHotBusyKeeps ==
    ASSUME Inv, NEW p \in Pagers, LockHotBusy(p)
    PROVE  Inv'
<1> USE DEF LockHotBusy, UnlockDb, Goto, Set, caches, dbFile, journal, ghosts
<1>1. at[p] = "lockHot" /\ eState[p] = "OPEN" /\ level[p] = 1
  BY DEF IsAt, Inv, PagersInv, PagerOk, PhaseOk, Undoing, Syncing
<1>2. level' = [level EXCEPT ![p] = 0] /\ Locks!Excludes'
  BY LockSteps DEF Inv, TypeOK
<1>3. TypeOK' /\ \A q \in Pagers \ {p} : Same(q)
  <2>1. TypeOK'
    BY <1>2 DEF Inv, TypeOK, Calls
  <2>2. \A q \in Pagers \ {p} : Same(q)
    BY <1>2 DEF Inv, TypeOK, Same
  <2> QED BY <2>1, <2>2
<1>4. PagerOk(p)'
  BY <1>1, <1>2 DEF Inv, PagersInv, TypeOK, PagerOk, PhaseOk, CacheOk, OpenOk, ReadOk, LockedOk,
     PlaybackOk, BeginOk, WriterOk, EditOk, UndoOk, Cached, HasCache, Matches, IsWriter, Syncing, Undoing
<1> QED BY <1>2, <1>3, <1>4, LocalStep

-----------------------------------------------------------------------------
(* The journal is synced, the database restored. *)

LEMMA CommittedSize ==
    ASSUME Inv, NEW pg \in Pages
    PROVE  pg > Size(committed) <=> committed[pg] = NoPage
<1>1. pg <= Size(committed) <=> committed[pg] # NoPage
  BY SolidSize DEF Inv, FilesInv, Good
<1>2. Size(committed) \in Nat /\ pg \in Nat
  BY SizeIs, BoundsAssumption DEF Pages
<1> QED BY <1>1, <1>2

LEMMA SyncKeeps ==
    ASSUME TypeOK, JournalInv, SyncJournalFile, UNCHANGED ghosts
    PROVE  JournalInv'
<1> USE DEF SyncJournalFile, ghosts
<1>1. jrnl.nRec <= Len(jrnl.recs) /\ Len(jrnl.recs) \in Nat /\ jrnl.nRec \in Nat
  <2>1. Len(jrnl.recs) \in Nat /\ jrnl.nRec \in Nat
    BY LenProperties DEF TypeOK, Journals
  <2>2. CASE IsHeaded(jrnl)
    BY <2>1, <2>2 DEF JournalInv, Protects
  <2>3. CASE ~IsHeaded(jrnl)
    <3>1. jrnl.nRec = 0
      BY <2>3 DEF JournalInv, WellFormed, IsHeaded, NoJournal
    <3> QED BY <2>1, <3>1
  <2> QED BY <2>1, <2>2, <2>3
<1>2. Earlier(jrnl, jrnl)
  BY <1>1 DEF Earlier
<1>3. Earlier(jdisk, jrnl)'
  BY <1>2 DEF Earlier
<1>4. WellFormed(jrnl)' /\ WellFormed(jdisk)' /\ Protects(jrnl, committed)'
  BY DEF JournalInv, WellFormed, Protects, IsHeaded
<1> QED BY <1>3, <1>4 DEF JournalInv

LEMMA FilesToward ==
    ASSUME TypeOK, FilesInv, JournalInv,
           \A pg \in Pages : db'[pg] \in {db[pg], committed[pg]},
           UNCHANGED <<disk, ghosts>>,
           SyncJournalFile \/ UNCHANGED <<jdisk, named>>
    PROVE  FilesInv'
<1> USE DEF ghosts
<1>1. ASSUME NEW pg \in Pages, named, Restores(jdisk, pg, committed)
      PROVE  named' /\ Restores(jdisk, pg, committed)'
  <2>1. CASE SyncJournalFile
    BY <1>1, <2>1, LaterRestores DEF SyncJournalFile, Restores, Counted, IsHeaded
  <2>2. CASE UNCHANGED <<jdisk, named>>
    BY <1>1, <2>2 DEF Restores, Counted, IsHeaded
  <2> QED BY <2>1, <2>2
<1>2. SafeOn(db)'
  BY <1>1 DEF FilesInv, SafeOn
<1>3. SafeOn(disk) => SafeOn(disk)'
  BY <1>1 DEF SafeOn
<1>4. Good(committed)' /\ Good(before)'
  BY DEF FilesInv, Good, GoodPage, Solid
<1>5. Covers(db, committed)' /\ Covers(disk, committed)'
  BY DEF FilesInv, Covers
<1>6. (committed # EmptyFile)' => SafeOn(disk)
  BY DEF FilesInv, EmptyFile, NoPage
<1> QED BY <1>2, <1>3, <1>4, <1>5, <1>6 DEF FilesInv

LEMMA TruncatedToward ==
    ASSUME Inv, jrnl.mx = Size(committed), NEW pg \in Pages
    PROVE  /\ Truncated(db, jrnl.mx)[pg] \in {db[pg], committed[pg]}
           /\ committed[pg] = NoPage => Truncated(db, jrnl.mx)[pg] = NoPage
BY CommittedSize DEF Truncated, NoPage

LEMMA TruncatedType ==
    ASSUME TypeOK, NEW n
    PROVE  Truncated(db, n) \in [Pages -> Content]
BY DEF Truncated, TypeOK, Content, NoPage

LEMMA SyncHotJournalKeeps ==
    ASSUME Inv, NEW p \in Pagers, SyncHotJournal(p)
    PROVE  Inv'
<1> USE DEF Goto, Set, caches, dbFile, ghosts
<1>1. at[p] = "syncHot" /\ eState[p] = "OPEN" /\ level[p] = 4
  BY DEF SyncHotJournal, IsAt, Inv, PagersInv, PagerOk, PhaseOk, Undoing, Syncing
<1>2. \A q \in Pagers \ {p} : Same(q)
  BY DEF SyncHotJournal, Inv, TypeOK, Same
<1>3. Locks!Excludes'
  BY LockSteps DEF SyncHotJournal, Inv, TypeOK
<1>4. CASE jrnl.exists
  <2>1. db' = IF jrnl.hdr THEN Truncated(db, jrnl.mx) ELSE db
    BY <1>4 DEF SyncHotJournal
  <2>2. /\ SyncJournalFile /\ pos' = [pos EXCEPT ![p] = 1] /\ at' = [at EXCEPT ![p] = "playback"]
        /\ UNCHANGED <<level, eState, committing, cache, dirty, vers, countDone, tx, disk, serial, ghosts>>
    BY <1>4 DEF SyncHotJournal
  <2>3. jrnl.hdr => jrnl.mx = Size(committed)
    BY <1>4 DEF Inv, JournalInv, Protects, IsHeaded
  <2>4. ~jrnl.hdr => db = committed
    BY SettledWithoutHeader DEF IsHeaded, AsCommitted
  <2>5. \A pg \in Pages : db'[pg] \in {db[pg], committed[pg]} /\ (committed[pg] = NoPage => db'[pg] = NoPage)
    BY <2>1, <2>3, <2>4, TruncatedToward
  <2>6. FilesInv' /\ JournalInv'
    BY <2>2, <2>5, FilesToward, SyncKeeps DEF Inv
  <2>7. TypeOK'
    <3>1. db' \in [Pages -> Content]
      BY <2>1, TruncatedType DEF Inv, TypeOK
    <3> QED BY <2>2, <3>1 DEF Inv, TypeOK, Calls, SyncJournalFile
  <2>8. PagerOk(p)'
    <3>1. PlaybackOk(p)'
      <4>1. pos'[p] = 1 /\ jrnl'.exists /\ named'
        BY <1>4, <2>2 DEF Inv, TypeOK, SyncJournalFile
      <4>2. jrnl'.nRec \in Nat
        BY <2>2 DEF Inv, TypeOK, SyncJournalFile, Journals
      <4> QED BY <2>2, <2>5, <4>1, <4>2 DEF PlaybackOk
    <3> QED BY <1>1, <2>2, <3>1 DEF Inv, PagersInv, TypeOK, PagerOk, PhaseOk, CacheOk, OpenOk, ReadOk,
          LockedOk, BeginOk, WriterOk, EditOk, UndoOk, Cached, HasCache, Matches, IsWriter, Syncing, Undoing
  <2> QED BY <1>1, <1>2, <1>3, <2>2, <2>6, <2>7, <2>8, ExclusiveStep
<1>5. CASE ~jrnl.exists
  <2>1. /\ at' = [at EXCEPT ![p] = "downgrade"]
        /\ UNCHANGED <<level, eState, committing, cache, dirty, vers, countDone, tx, pos, dbFile, journal,
                       serial, ghosts>>
    BY <1>5 DEF SyncHotJournal
  <2>2. AsCommitted
    BY <1>5, SettledWithoutHeader DEF IsHeaded
  <2>3. AsCommitted'
    BY <2>1, <2>2 DEF AsCommitted, EmptyFile, NoPage
  <2>4. TypeOK'
    BY <2>1 DEF Inv, TypeOK, Calls, journal
  <2>5. PagerOk(p)'
    BY <1>1, <2>1, <2>3 DEF Inv, PagersInv, TypeOK, PagerOk, PhaseOk, CacheOk, OpenOk, ReadOk, LockedOk,
       PlaybackOk, BeginOk, WriterOk, EditOk, UndoOk, Cached, HasCache, Matches, IsWriter, Syncing, Undoing
  <2> QED BY <1>2, <1>3, <2>1, <2>4, <2>5, LocalStep
<1> QED BY <1>4, <1>5

LEMMA CheckCacheKeeps ==
    ASSUME Inv, NEW p \in Pagers, CheckCache(p)
    PROVE  Inv'
<1> USE DEF CheckCache, Goto, Become, Set, dbFile, journal, ghosts
<1>1. at[p] = "check" /\ eState[p] = "OPEN" /\ level[p] = 1
  BY DEF IsAt, Inv, PagersInv, PagerOk, PhaseOk, Undoing, Syncing
<1>2. AsCommitted /\ AsCommitted'
  BY <1>1 DEF Inv, PagersInv, PagerOk, LockedOk, AsCommitted, EmptyFile, NoPage
<1>3. \A pg \in Pages : cache'[p][pg] \in {NotCached, cache[p][pg]}
  BY DEF Inv, TypeOK, EmptyCache
<1>4. TypeOK' /\ Locks!Excludes' /\ \A q \in Pagers \ {p} : Same(q)
  <2>1. EmptyCache \in [Pages -> Content]
    BY DEF EmptyCache, NotCached, Content
  <2>2. dirty[p] = {}
    BY <1>1 DEF Inv, PagersInv, PagerOk, CacheOk
  <2>3. cache' \in [Pagers -> [Pages -> Content]] /\ \A q \in Pagers \ {p} : cache'[q] = cache[q]
    BY <2>1 DEF Inv, TypeOK
  <2>4. TypeOK'
    BY <2>2, <2>3 DEF Inv, TypeOK, Calls, EStates
  <2>5. \A q \in Pagers \ {p} : Same(q)
    BY DEF Inv, TypeOK, Same
  <2>6. Locks!Excludes'
    BY LockSteps DEF Inv, TypeOK
  <2> QED BY <2>4, <2>5, <2>6
<1>5. ReadOk(p)'
  <2>1. 1 \in Pages /\ db[1].cnt = committed[1].cnt
    BY <1>2, BoundsAssumption DEF AsCommitted, Pages
  <2>2. CASE vers[p] = db[1].cnt
    <3>1. cache' = cache
      BY <2>2
    <3>2. HasCache(p) => Matches(p)
      BY <1>1, <2>1, <2>2 DEF Inv, PagersInv, PagerOk, OpenOk
    <3>3. Matches(p)
      BY <3>2 DEF HasCache, Matches, Cached
    <3> QED BY <2>1, <2>2, <3>1, <3>3 DEF ReadOk, Matches
  <2>3. CASE vers[p] # db[1].cnt
    <3>1. \A pg \in Pages : cache'[p][pg] = NotCached
      BY <2>3 DEF Inv, TypeOK, EmptyCache
    <3> QED BY <3>1 DEF ReadOk, Matches, HasCache, Cached
  <2> QED BY <2>2, <2>3
<1>6. CacheOk(p)'
  BY <1>1, <1>3 DEF Inv, PagersInv, TypeOK, PagerOk, CacheOk, Cached, Syncing
<1>7. PagerOk(p)'
  BY <1>1, <1>2, <1>5, <1>6 DEF Inv, TypeOK, PagerOk, PhaseOk, OpenOk, LockedOk,
     PlaybackOk, BeginOk, WriterOk, EditOk, UndoOk, IsWriter, Syncing, Undoing
<1> QED BY <1>4, <1>7, LocalStep

LEMMA UnlockKeeps ==
    ASSUME Inv, NEW p \in Pagers, Unlock(p)
    PROVE  Inv'
<1> USE DEF Unlock, UnlockDb, Become, Set, dbFile, journal, ghosts
<1>1. at[p] = "idle" /\ eState[p] = "READER" /\ level[p] = 1
  BY DEF Idle, Inv, PagersInv, PagerOk, PhaseOk, Undoing, Syncing
<1>2. level' = [level EXCEPT ![p] = 0] /\ Locks!Excludes'
  BY LockSteps DEF Inv, TypeOK
<1>3. TypeOK' /\ \A q \in Pagers \ {p} : Same(q)
  <2>1. TypeOK'
    BY <1>2 DEF Inv, TypeOK, EStates
  <2>2. \A q \in Pagers \ {p} : Same(q)
    BY <1>2 DEF Inv, TypeOK, Same
  <2> QED BY <2>1, <2>2
<1>4. OpenOk(p)'
  <2>1. committed[1].cnt \in Nat
    BY BoundsAssumption DEF Inv, TypeOK, Pages, Content
  <2> QED BY <1>1, <2>1 DEF Inv, PagersInv, PagerOk, ReadOk, OpenOk, Matches, HasCache, Cached
<1>5. PagerOk(p)'
  BY <1>1, <1>2, <1>4 DEF Inv, PagersInv, TypeOK, PagerOk, PhaseOk, CacheOk, ReadOk, LockedOk,
     PlaybackOk, BeginOk, WriterOk, EditOk, UndoOk, Cached, IsWriter, Syncing, Undoing
<1> QED BY <1>2, <1>3, <1>5, LocalStep

(* A page that is not in the cache is read as the writer sees it: the file   *)
(* may have gaps that the cache fills.                                       *)
LEMMA ReadsAPage ==
    ASSUME Inv, NEW p \in Pagers, NEW pg \in Pages, ~Cached(p, pg), pg <= Size(db),
           at[p] = "idle", eState[p] \in {"READER", "WRITER_LOCKED", "WRITER_CACHEMOD", "WRITER_DBMOD"}
    PROVE  db[pg].tx >= 1 /\ db[pg] # NoPage
<1>1. GoodPage(db[pg])
  BY DEF Inv, PagersInv, PagerOk, LockedOk, WriterOk, IsWriter, AsCommitted, FilesInv, Good
<1>2. CASE eState[p] # "WRITER_DBMOD"
  <2>1. Solid(db)
    BY <1>2 DEF Inv, PagersInv, PagerOk, LockedOk, AsCommitted, FilesInv, Good
  <2> QED BY <1>1, <2>1, SolidSize DEF GoodPage
<1>3. CASE eState[p] = "WRITER_DBMOD"
  <2>1. Solid(Image(p))
    BY <1>3 DEF Inv, PagersInv, PagerOk, EditOk, IsWriter, Undoing
  <2>2. PICK q \in pg..MaxPage : db[q] # NoPage
    BY SizeIs
  <2>3. q \in Pages /\ pg <= q
    BY <2>2, BoundsAssumption DEF Pages
  <2>4. Image(p)[q] # NoPage
    BY <2>2, <2>3 DEF Image, NoPage, Inv, PagersInv, PagerOk, CacheOk
  <2>5. Image(p)[pg] # NoPage
    BY <2>1, <2>3, <2>4 DEF Solid
  <2> QED BY <1>1, <2>5 DEF Image, GoodPage
<1> QED BY <1>2, <1>3

LEMMA ReadPageKeeps ==
    ASSUME Inv, NEW p \in Pagers, NEW pg \in Pages, ReadPage(p, pg)
    PROVE  Inv'
<1> USE DEF Set, dbFile, journal, ghosts
<1>1. /\ at[p] = "idle"
      /\ eState[p] \in {"READER", "WRITER_LOCKED", "WRITER_CACHEMOD", "WRITER_DBMOD"}
      /\ ~Cached(p, pg) /\ pg <= Size(db) /\ (pg = 1 \/ Cached(p, 1))
      /\ cache' = [cache EXCEPT ![p][pg] = db[pg]]
      /\ vers' = IF pg = 1 THEN [vers EXCEPT ![p] = db[1].cnt] ELSE vers
      /\ UNCHANGED <<level, eState, at, committing, dirty, countDone, tx, pos, dbFile, journal, serial, ghosts>>
  BY DEF ReadPage, Idle, Writing
<1>2. db[pg].tx >= 1 /\ db[pg] # NoPage /\ db[pg] \in Content
  BY <1>1, ReadsAPage DEF Inv, TypeOK
<1>3. /\ \A r \in Pages : cache'[p][r] = IF r = pg THEN db[pg] ELSE cache[p][r]
      /\ \A r \in Pages : Cached(p, r)' <=> r = pg \/ Cached(p, r)
  BY <1>1, <1>2 DEF Inv, TypeOK, Cached, NotCached
<1>4. TypeOK' /\ Locks!Excludes' /\ \A q \in Pagers \ {p} : Same(q)
  <2>1. vers' \in [Pagers -> Nat] /\ \A q \in Pagers \ {p} : vers'[q] = vers[q]
    BY <1>1, BoundsAssumption DEF Inv, TypeOK, Content, Pages
  <2>2. cache' \in [Pagers -> [Pages -> Content]] /\ \A q \in Pagers \ {p} : cache'[q] = cache[q]
    BY <1>1, <1>2 DEF Inv, TypeOK
  <2>3. \A q \in Pagers : dirty'[q] \subseteq {r \in Pages : cache'[q][r] # NotCached}
    BY <1>1, <1>3, <2>2 DEF Inv, TypeOK, Cached
  <2>4. TypeOK'
    BY <1>1, <2>1, <2>2, <2>3 DEF Inv, TypeOK
  <2>5. \A q \in Pagers \ {p} : Same(q)
    BY <1>1, <2>1, <2>2 DEF Same
  <2>6. Locks!Excludes'
    BY <1>1, LockSteps DEF Inv, TypeOK
  <2> QED BY <2>4, <2>5, <2>6
<1>5. eState[p] # "WRITER_DBMOD" => db = committed
  BY <1>1 DEF Inv, PagersInv, PagerOk, LockedOk, AsCommitted
<1>6. ReadOk(p)'
  <2>1. SUFFICES ASSUME eState[p] \in {"READER", "WRITER_LOCKED"}
                 PROVE  Matches(p)' /\ vers'[p] = committed[1].cnt
    BY <1>1 DEF ReadOk
  <2>2. Matches(p) /\ (HasCache(p) => vers[p] = committed[1].cnt)
    BY <2>1 DEF Inv, PagersInv, PagerOk, ReadOk
  <2>3. Matches(p)'
    BY <1>1, <1>3, <1>5, <2>1, <2>2 DEF Matches
  <2>4. vers'[p] = committed[1].cnt
    BY <1>1, <1>5, <2>1, <2>2, BoundsAssumption DEF Inv, TypeOK, HasCache, Pages
  <2> QED BY <2>3, <2>4
<1>7. CacheOk(p)'
  BY <1>1, <1>2, <1>3 DEF Inv, PagersInv, PagerOk, CacheOk, Cached
<1>8. EditOk(p)'
  <2>1. SUFFICES ASSUME eState[p] \in {"WRITER_CACHEMOD", "WRITER_DBMOD"}
                 PROVE  EditOk(p)'
    BY <1>1 DEF EditOk, IsWriter
  <2>2. EditOk(p) /\ IsWriter(p) /\ at[p] \notin Undoing
    BY <1>1, <2>1 DEF Inv, PagersInv, PagerOk, IsWriter, Undoing
  <2>3. pg # 1 /\ vers' = vers
    BY <1>1, <1>2, <2>2 DEF EditOk
  <2>4. \A r \in Pages : Image(p)'[r] = Image(p)[r]
    BY <1>1, <1>3 DEF Image, Cached
  <2>5. Solid(Image(p))'
    BY <2>2, <2>4 DEF EditOk, Solid
  <2>6. /\ \A r \in Pages : r \in dirty'[p] \/ cache'[p][r] \in {NotCached, db'[r]}
        /\ \A r \in dirty'[p] : committed'[r] # NoPage => InJournal(r)'
        /\ (db[1] # NoPage => Cached(p, 1))'
    BY <1>1, <1>3, <2>2 DEF EditOk, InJournal, Cached, NoPage
  <2>7. VersOld(p)'
    BY <1>1, <2>2, <2>3 DEF EditOk, VersOld, NoPage
  <2> QED BY <1>1, <2>5, <2>6, <2>7 DEF EditOk, Syncing
<1>9. BeginOk(p)' /\ LockedOk(p)'
  BY <1>1, <1>3 DEF Inv, PagersInv, PagerOk, BeginOk, LockedOk, AsCommitted, EmptyFile, NoPage, Cached
<1>10. WriterOk(p)'
  BY <1>1 DEF Inv, PagersInv, PagerOk, WriterOk, IsWriter, Size, GoodPage
<1>11. PhaseOk(p)' /\ OpenOk(p)' /\ PlaybackOk(p)' /\ UndoOk(p)'
  BY <1>1 DEF Inv, PagersInv, PagerOk, PhaseOk, OpenOk, PlaybackOk, UndoOk, Undoing
<1>12. PagerOk(p)'
  BY <1>6, <1>7, <1>8, <1>9, <1>10, <1>11 DEF PagerOk
<1> QED BY <1>1, <1>4, <1>12, LocalStep

-----------------------------------------------------------------------------
(* The steps of Undo. *)

LEMMA CountedRecords ==
    ASSUME Inv
    PROVE  /\ jrnl.nRec \in Nat /\ Len(jrnl.recs) \in Nat /\ jrnl.nRec <= Len(jrnl.recs)
           /\ \A i \in 1..Len(jrnl.recs) : jrnl.recs[i].pg \in Pages
           /\ \A i \in 1..jrnl.nRec :
                 committed[jrnl.recs[i].pg] # NoPage /\ jrnl.recs[i].val = committed[jrnl.recs[i].pg]
           /\ Valid(jrnl, jrnl.nRec) = 1..jrnl.nRec
<1>1. jrnl.nRec \in Nat /\ Len(jrnl.recs) \in Nat
  BY LenProperties DEF Inv, TypeOK, Journals
<1>2. ASSUME NEW i \in 1..Len(jrnl.recs) PROVE jrnl.recs[i].pg \in Pages
  <2>1. jrnl.recs \in Seq(Record)
    BY DEF Inv, TypeOK, Journals
  <2>2. jrnl.recs[i] \in Record
    BY <2>1, ElementOfSeq
  <2> QED BY <2>2 DEF Record
<1>3. /\ jrnl.nRec <= Len(jrnl.recs)
      /\ \A i \in 1..jrnl.nRec :
            committed[jrnl.recs[i].pg] # NoPage /\ jrnl.recs[i].val = committed[jrnl.recs[i].pg]
  <2>1. CASE IsHeaded(jrnl)
    BY <2>1 DEF Inv, JournalInv, Protects
  <2>2. CASE ~IsHeaded(jrnl)
    <3>1. jrnl.nRec = 0
      BY <2>2 DEF Inv, JournalInv, WellFormed, IsHeaded, NoJournal
    <3> QED BY <1>1, <3>1
  <2> QED BY <2>1, <2>2
<1>4. Valid(jrnl, jrnl.nRec) = 1..jrnl.nRec
  <2>1. Good(committed) /\ jrnl \in Journals
    BY DEF Inv, TypeOK, FilesInv
  <2> QED BY <1>1, <1>3, <2>1, ValidRecords
<1> QED BY <1>1, <1>2, <1>3, <1>4

LEMMA OwnRecords ==
    ASSUME Inv, NEW p \in Pagers, IsWriter(p)
    PROVE  /\ \A i \in 1..Len(jrnl.recs) :
                 committed[jrnl.recs[i].pg] # NoPage /\ jrnl.recs[i].val = committed[jrnl.recs[i].pg]
           /\ Valid(jrnl, Len(jrnl.recs)) = 1..Len(jrnl.recs)
<1>1. \A i \in 1..Len(jrnl.recs) :
         committed[jrnl.recs[i].pg] # NoPage /\ jrnl.recs[i].val = committed[jrnl.recs[i].pg]
  BY DEF Inv, PagersInv, PagerOk, WriterOk
<1>2. Valid(jrnl, Len(jrnl.recs)) = 1..Len(jrnl.recs)
  <2>1. Good(committed) /\ jrnl \in Journals /\ Len(jrnl.recs) \in Nat
    BY CountedRecords DEF Inv, TypeOK, FilesInv
  <2> QED BY <1>1, <2>1, ValidRecords
<1> QED BY <1>1, <1>2

(* What differs from the last commit is among the records that are counted.  *)
LEMMA DiffersIsCounted ==
    ASSUME Inv, NEW pg \in Pages, db[pg] # committed[pg], committed[pg] # NoPage
    PROVE  \E i \in 1..jrnl.nRec : jrnl.recs[i].pg = pg
<1>1. named /\ Restores(jdisk, pg, committed)
  BY DEF Inv, FilesInv, SafeOn
<1> QED BY <1>1, LaterRestores DEF Inv, Restores, Counted

LEMMA RollbackKeeps ==
    ASSUME Inv, NEW p \in Pagers, Rollback(p)
    PROVE  Inv'
<1> USE DEF Set, Goto, ghosts
<1>1. PagerOk(p) /\ at[p] = "idle"
  BY DEF Rollback, Inv, PagersInv
<1>2. \A q \in Pagers \ {p} : Same(q)
  BY DEF Rollback, Inv, TypeOK, Same
<1>3. Locks!Excludes'
  BY LockSteps DEF Rollback, Inv, TypeOK
<1>4. CASE eState[p] = "WRITER_LOCKED"
  <2>1. /\ at' = [at EXCEPT ![p] = "downgrade"] /\ level[p] = 2
        /\ UNCHANGED <<level, eState, committing, cache, dirty, vers, countDone, tx, pos, dbFile, journal,
                       serial, ghosts>>
    BY <1>1, <1>4 DEF Rollback, PagerOk, PhaseOk, dbFile, Syncing, Undoing
  <2>2. TypeOK'
    BY <2>1 DEF Inv, TypeOK, Calls, dbFile, journal
  <2>3. AsCommitted /\ AsCommitted'
    BY <1>1, <1>4, <2>1 DEF PagerOk, LockedOk, AsCommitted, EmptyFile, NoPage, dbFile
  <2>4. PagerOk(p)'
    BY <1>1, <1>4, <2>1, <2>3 DEF Inv, TypeOK, PagerOk, PhaseOk, CacheOk, OpenOk, ReadOk, LockedOk,
       PlaybackOk, BeginOk, WriterOk, EditOk, UndoOk, Cached, HasCache, Matches, IsWriter, Syncing, Undoing
  <2> QED BY <1>2, <1>3, <2>1, <2>2, <2>4, LocalStep
<1>5. CASE eState[p] \in {"WRITER_CACHEMOD", "WRITER_DBMOD"}
  <2>1. /\ at' = [at EXCEPT ![p] = "playback"] /\ pos' = [pos EXCEPT ![p] = 1]
        /\ db' = IF eState[p] = "WRITER_DBMOD" THEN Truncated(db, jrnl.mx) ELSE db
        /\ UNCHANGED <<level, eState, committing, cache, dirty, vers, countDone, tx, disk, journal, serial,
                       ghosts>>
    BY <1>5 DEF Rollback, WritesDb
  <2>2. /\ level[p] = IF eState[p] = "WRITER_DBMOD" THEN 4 ELSE 2
        /\ IsWriter(p) /\ at[p] \notin Undoing /\ WriterOk(p) /\ EditOk(p)
    BY <1>1, <1>5 DEF PagerOk, PhaseOk, IsWriter, Syncing, Undoing
  <2>3. jrnl.mx = Size(committed)
    BY <2>2 DEF WriterOk
  <2>4. eState[p] # "WRITER_DBMOD" => AsCommitted
    BY <1>1, <1>5 DEF PagerOk, LockedOk
  <2>5. \A pg \in Pages : db'[pg] \in {db[pg], committed[pg]} /\ (committed[pg] = NoPage => db'[pg] = NoPage)
    BY <2>1, <2>3, <2>4, TruncatedToward DEF AsCommitted
  <2>6. FilesInv' /\ JournalInv'
    BY <2>1, <2>5, FilesToward, JournalKeep DEF Inv, journal
  <2>7. TypeOK'
    <3>1. db' \in [Pages -> Content]
      BY <2>1, TruncatedType DEF Inv, TypeOK
    <3> QED BY <2>1, <3>1 DEF Inv, TypeOK, Calls, journal
  <2>8. at'[p] = "playback" /\ pos'[p] = 1
    BY <2>1 DEF Inv, TypeOK
  <2>9. PlaybackOk(p)'
    BY <1>5, <2>1, <2>5, <2>8, CountedRecords DEF PlaybackOk, journal
  <2>10. UndoOk(p)'
    <3>1. VersOld(p)'
      BY <1>1, <1>5, <2>1, <2>2 DEF EditOk, VersOld, NoPage
    <3>2. ASSUME NEW pg \in Pages, committed[pg] # NoPage
          PROVE  \/ cache[p][pg] \in {NotCached, committed[pg]}
                 \/ \E i \in 1..Len(jrnl.recs) : i >= 1 /\ jrnl.recs[i].pg = pg
      <4>1. CASE pg \in dirty[p]
        <5>1. DOMAIN jrnl.recs = 1..Len(jrnl.recs)
          BY LenProperties DEF Inv, TypeOK, Journals
        <5> QED BY <2>2, <3>2, <4>1, <5>1 DEF EditOk, InJournal
      <4>2. CASE pg \notin dirty[p]
        <5>1. cache[p][pg] \in {NotCached, db[pg]}
          BY <2>2, <4>2 DEF EditOk
        <5>2. CASE db[pg] # committed[pg]
          BY <3>2, <5>2, DiffersIsCounted, CountedRecords
        <5> QED BY <5>1, <5>2
      <4> QED BY <4>1, <4>2
    <3> QED BY <2>1, <2>8, <3>1, <3>2 DEF UndoOk, journal
  <2>11. WriterOk(p)'
    <3>1. \A pg \in Pages : GoodPage(db[pg]) /\ GoodPage(committed[pg])
      BY <2>2, <2>4 DEF WriterOk, IsWriter, AsCommitted, Inv, FilesInv, Good
    <3>2. \A pg \in Pages : GoodPage(db[pg])'
      BY <2>5, <3>1 DEF GoodPage
    <3> QED BY <1>1, <2>1, <2>2, <2>8, <3>2 DEF WriterOk, IsWriter, Size, journal
  <2>12. LockedOk(p)'
    BY <1>5, <2>1, <2>4, <2>8 DEF LockedOk, AsCommitted, EmptyFile, NoPage
  <2>13. PhaseOk(p)' /\ CacheOk(p)' /\ OpenOk(p)' /\ ReadOk(p)' /\ BeginOk(p)' /\ EditOk(p)'
    BY <1>1, <1>5, <2>1, <2>2, <2>8 DEF PagerOk, PhaseOk, CacheOk, OpenOk, ReadOk, BeginOk, EditOk, Cached,
       Syncing, Undoing
  <2>14. PagerOk(p)'
    BY <2>9, <2>10, <2>11, <2>12, <2>13 DEF PagerOk
  <2>15. CASE eState[p] = "WRITER_DBMOD"
    BY <1>2, <1>3, <2>1, <2>2, <2>6, <2>7, <2>14, <2>15, ExclusiveStep
  <2>16. CASE eState[p] # "WRITER_DBMOD"
    BY <1>2, <1>3, <2>1, <2>2, <2>6, <2>7, <2>14, <2>16, LocalStep DEF dbFile
  <2> QED BY <2>15, <2>16
<1> QED BY <1>4, <1>5 DEF Rollback

LEMMA PlaybackOnePageKeeps ==
    ASSUME Inv, NEW p \in Pagers, PlaybackOnePage(p)
    PROVE  Inv'
<1> USE DEF Set, ghosts
<1> DEFINE r == jrnl.recs[pos[p]]
<1>1. /\ at[p] = "playback" /\ pos[p] \in Valid(jrnl, NumRecords(p))
      /\ db' = IF WritesDb(p) /\ pos[p] <= jrnl.nRec THEN [db EXCEPT ![r.pg] = r.val] ELSE db
      /\ cache' = IF IsHot(p) THEN [cache EXCEPT ![p] = EmptyCache]
                  ELSE IF Cached(p, r.pg) THEN [cache EXCEPT ![p][r.pg] = r.val] ELSE cache
      /\ vers' = IF ~IsHot(p) /\ r.pg = 1 THEN [vers EXCEPT ![p] = r.val.cnt] ELSE vers
      /\ pos' = [pos EXCEPT ![p] = pos[p] + 1]
      /\ UNCHANGED <<level, eState, at, committing, dirty, countDone, tx, disk, journal, serial, ghosts>>
  BY DEF PlaybackOnePage, IsAt
<1>2. /\ PagerOk(p) /\ PlaybackOk(p) /\ pos[p] \in Nat
      /\ \/ eState[p] = "OPEN" /\ level[p] = 4
         \/ eState[p] = "WRITER_CACHEMOD" /\ level[p] = 2
         \/ eState[p] = "WRITER_DBMOD" /\ level[p] = 4
  BY <1>1 DEF Inv, PagersInv, TypeOK, PagerOk, PhaseOk, Syncing, Undoing
<1>3. eState[p] # "OPEN" => IsWriter(p) /\ WriterOk(p) /\ UndoOk(p)
  BY <1>1, <1>2 DEF PagerOk, IsWriter
<1>4. /\ pos[p] \in 1..Len(jrnl.recs) /\ r.pg \in Pages
      /\ committed[r.pg] # NoPage /\ r.val = committed[r.pg]
      /\ eState[p] = "OPEN" => pos[p] <= jrnl.nRec
  BY <1>1, <1>2, <1>3, CountedRecords, OwnRecords DEF NumRecords, IsHot
<1>5. r.val \in Content /\ r.val.tx >= 1 /\ r.val # NotCached
  BY <1>4 DEF Inv, TypeOK, FilesInv, Good, GoodPage, NotCached
<1>6. \A pg \in Pages :
         /\ db'[pg] = IF WritesDb(p) /\ pos[p] <= jrnl.nRec /\ pg = r.pg THEN committed[pg] ELSE db[pg]
         /\ cache'[p][pg] = IF IsHot(p) THEN NotCached
                            ELSE IF pg = r.pg /\ Cached(p, pg) THEN committed[pg] ELSE cache[p][pg]
  BY <1>1, <1>4 DEF Inv, TypeOK, EmptyCache
<1>7. pos'[p] = pos[p] + 1
  BY <1>1 DEF Inv, TypeOK
<1>8. eState[p] = "OPEN" => dirty[p] = {}
  BY <1>2 DEF PagerOk, CacheOk
<1>9. TypeOK' /\ Locks!Excludes' /\ \A q \in Pagers \ {p} : Same(q)
  <2>1. db' \in [Pages -> Content]
    BY <1>1, <1>4, <1>5 DEF Inv, TypeOK
  <2>2. EmptyCache \in [Pages -> Content]
    BY DEF EmptyCache, NotCached, Content
  <2>3. cache' \in [Pagers -> [Pages -> Content]] /\ \A q \in Pagers \ {p} : cache'[q] = cache[q]
    BY <1>1, <1>4, <1>5, <2>2 DEF Inv, TypeOK
  <2>4. vers' \in [Pagers -> Nat] /\ \A q \in Pagers \ {p} : vers'[q] = vers[q]
    BY <1>1, <1>5 DEF Inv, TypeOK, Content
  <2>5. pos' \in [Pagers -> Nat] /\ \A q \in Pagers \ {p} : pos'[q] = pos[q]
    BY <1>1 DEF Inv, TypeOK
  <2>6. \A q \in Pagers : dirty'[q] \subseteq {pg \in Pages : cache'[q][pg] # NotCached}
    <3>1. \A pg \in dirty[p] : cache'[p][pg] # NotCached
      BY <1>4, <1>5, <1>6, <1>8 DEF Inv, TypeOK, IsHot
    <3>2. dirty'[p] \subseteq Pages /\ dirty' = dirty
      BY <1>1 DEF Inv, TypeOK
    <3> QED BY <2>3, <3>1, <3>2 DEF Inv, TypeOK
  <2>7. TypeOK'
    BY <1>1, <2>1, <2>3, <2>4, <2>5, <2>6 DEF Inv, TypeOK, journal
  <2>8. \A q \in Pagers \ {p} : Same(q)
    BY <1>1, <2>3, <2>4, <2>5 DEF Same
  <2>9. Locks!Excludes'
    BY <1>1, LockSteps DEF Inv, TypeOK
  <2> QED BY <2>7, <2>8, <2>9
<1>10. FilesInv' /\ JournalInv'
  <2>1. \A pg \in Pages : db'[pg] \in {db[pg], committed[pg]}
    BY <1>6
  <2> QED BY <1>1, <2>1, FilesToward, JournalKeep DEF Inv, journal
<1>11. eState[p] = "WRITER_CACHEMOD" => AsCommitted /\ db' = db
  BY <1>1, <1>2 DEF PagerOk, LockedOk, WritesDb
<1>12. PlaybackOk(p)'
  <2>1. \A pg \in Pages : committed[pg] = NoPage => db'[pg] = NoPage
    BY <1>1, <1>2, <1>6 DEF PlaybackOk
  <2>2. ASSUME NEW i \in 1..jrnl.nRec, i < pos[p] + 1
        PROVE  db'[jrnl.recs[i].pg] = committed[jrnl.recs[i].pg]
    <3>1. jrnl.recs[i].pg \in Pages /\ i \in Nat
      BY CountedRecords
    <3>2. CASE i = pos[p]
      <4>1. CASE eState[p] = "WRITER_CACHEMOD"
        BY <1>11, <3>1, <4>1 DEF AsCommitted
      <4>2. CASE eState[p] # "WRITER_CACHEMOD"
        BY <1>2, <1>6, <3>1, <3>2, <4>2, CountedRecords DEF WritesDb
      <4> QED BY <4>1, <4>2
    <3>3. CASE i # pos[p]
      <4>1. i < pos[p]
        BY <1>2, <2>2, <3>1, <3>3
      <4> QED BY <1>1, <1>2, <1>6, <3>1, <4>1 DEF PlaybackOk
    <3> QED BY <3>2, <3>3
  <2> QED BY <1>1, <1>2, <1>7, <2>1, <2>2 DEF PlaybackOk, journal
<1>13. UndoOk(p)'
  <2>1. SUFFICES ASSUME eState[p] # "OPEN"
                 PROVE  UndoOk(p)'
    BY <1>1 DEF UndoOk, IsWriter
  <2>2. ASSUME NEW pg \in Pages, committed[pg] # NoPage
        PROVE  \/ cache'[p][pg] \in {NotCached, committed[pg]}
               \/ \E i \in 1..Len(jrnl.recs) : i >= pos[p] + 1 /\ jrnl.recs[i].pg = pg
    <3>1. \/ cache[p][pg] \in {NotCached, committed[pg]}
          \/ \E i \in 1..Len(jrnl.recs) : i >= pos[p] /\ jrnl.recs[i].pg = pg
      BY <1>1, <1>3, <2>1, <2>2 DEF UndoOk, Undoing
    <3>2. CASE pg = r.pg
      BY <1>6, <2>1, <3>2 DEF IsHot, Cached
    <3>3. CASE pg # r.pg
      <4>1. cache'[p][pg] = cache[p][pg]
        BY <1>6, <2>1, <3>3 DEF IsHot
      <4>2. ASSUME NEW i \in 1..Len(jrnl.recs), i >= pos[p], jrnl.recs[i].pg = pg
            PROVE  i >= pos[p] + 1
        BY <1>2, <3>3, <4>2
      <4> QED BY <3>1, <4>1, <4>2
    <3> QED BY <3>2, <3>3
  <2>3. VersOld(p)'
    <3>1. VersOld(p)
      BY <1>1, <1>3, <2>1 DEF UndoOk, Undoing
    <3>2. vers'[p] = IF r.pg = 1 THEN committed[1].cnt ELSE vers[p]
      BY <1>1, <1>4, <2>1 DEF IsHot, Inv, TypeOK
    <3>3. committed[1].cnt \in Nat
      BY BoundsAssumption DEF Inv, TypeOK, Content, Pages
    <3> QED BY <1>1, <3>1, <3>2, <3>3 DEF VersOld, NoPage
  <2> QED BY <1>1, <1>7, <2>2, <2>3 DEF UndoOk, journal, Undoing, NotCached, NoPage
<1>14. WriterOk(p)'
  <2>1. \A pg \in Pages : GoodPage(committed[pg])
    BY DEF Inv, FilesInv, Good
  <2>2. ASSUME eState[p] = "WRITER_DBMOD" PROVE \A pg \in Pages : GoodPage(db[pg])'
    BY <1>1, <1>3, <1>6, <2>1, <2>2 DEF WriterOk, GoodPage, NoPage
  <2> QED BY <1>1, <1>2, <1>3, <2>2 DEF WriterOk, IsWriter, Size, journal
<1>15. CacheOk(p)' /\ OpenOk(p)' /\ LockedOk(p)'
  <2>1. CacheOk(p)'
    BY <1>1, <1>2, <1>4, <1>5, <1>6 DEF PagerOk, CacheOk, Cached, NotCached, IsHot
  <2>2. OpenOk(p)'
    BY <1>1, <1>6 DEF OpenOk, HasCache, Cached, IsHot
  <2>3. LockedOk(p)'
    BY <1>1, <1>2, <1>11 DEF LockedOk, AsCommitted, EmptyFile, NoPage
  <2> QED BY <2>1, <2>2, <2>3
<1>16. PhaseOk(p)' /\ ReadOk(p)' /\ BeginOk(p)' /\ EditOk(p)'
  BY <1>1, <1>2 DEF PagerOk, PhaseOk, ReadOk, BeginOk, EditOk, Syncing, Undoing
<1>17. PagerOk(p)'
  BY <1>12, <1>13, <1>14, <1>15, <1>16 DEF PagerOk
<1>18. CASE level[p] = 4
  BY <1>1, <1>9, <1>10, <1>17, <1>18, ExclusiveStep
<1>19. CASE eState[p] = "WRITER_CACHEMOD"
  BY <1>1, <1>9, <1>11, <1>17, <1>19, LocalStep DEF dbFile
<1> QED BY <1>2, <1>18, <1>19

LEMMA PlaybackEndsKeeps ==
    ASSUME Inv, NEW p \in Pagers, PlaybackEnds(p)
    PROVE  Inv'
<1> USE DEF Set, Goto, dbFile, journal, ghosts
<1>1. /\ at[p] = "playback" /\ pos[p] \notin Valid(jrnl, NumRecords(p))
      /\ at' = [at EXCEPT ![p] = IF WritesDb(p) THEN "syncRestored" ELSE "finish"]
      /\ UNCHANGED <<level, eState, committing, cache, dirty, vers, countDone, tx, pos, dbFile, journal,
                     serial, ghosts>>
  BY DEF PlaybackEnds, IsAt, caches
<1>2. /\ PagerOk(p) /\ PlaybackOk(p) /\ pos[p] \in Nat
      /\ \/ eState[p] = "OPEN" /\ level[p] = 4
         \/ eState[p] = "WRITER_CACHEMOD" /\ level[p] = 2
         \/ eState[p] = "WRITER_DBMOD" /\ level[p] = 4
  BY <1>1 DEF Inv, PagersInv, TypeOK, PagerOk, PhaseOk, Syncing, Undoing
<1>3. eState[p] # "OPEN" => IsWriter(p) /\ WriterOk(p) /\ UndoOk(p)
  BY <1>1, <1>2 DEF PagerOk, IsWriter
<1>4. /\ pos[p] > jrnl.nRec
      /\ eState[p] # "OPEN" => pos[p] > Len(jrnl.recs)
  BY <1>1, <1>2, <1>3, CountedRecords, OwnRecords DEF NumRecords, IsHot, PlaybackOk
<1>5. db = committed
  <2>1. ASSUME NEW pg \in Pages, db[pg] # committed[pg]
        PROVE  FALSE
    <3>1. committed[pg] # NoPage
      BY <1>1, <1>2, <2>1 DEF PlaybackOk
    <3>2. PICK i \in 1..jrnl.nRec : jrnl.recs[i].pg = pg
      BY <2>1, <3>1, DiffersIsCounted
    <3>3. i < pos[p]
      BY <1>2, <1>4, CountedRecords
    <3> QED BY <1>1, <1>2, <2>1, <3>2, <3>3 DEF PlaybackOk
  <2> QED BY <2>1 DEF Inv, TypeOK
<1>6. TypeOK' /\ Locks!Excludes' /\ \A q \in Pagers \ {p} : Same(q)
  <2>1. TypeOK'
    BY <1>1 DEF Inv, TypeOK, Calls
  <2>2. \A q \in Pagers \ {p} : Same(q)
    BY <1>1 DEF Inv, TypeOK, Same
  <2>3. Locks!Excludes'
    BY <1>1, LockSteps DEF Inv, TypeOK
  <2> QED BY <2>1, <2>2, <2>3
<1>7. /\ at'[p] = IF eState[p] = "WRITER_CACHEMOD" THEN "finish" ELSE "syncRestored"
      /\ eState[p] = "WRITER_CACHEMOD" => AsCommitted
  BY <1>1, <1>2 DEF Inv, TypeOK, WritesDb, PagerOk, LockedOk
<1>8. LockedOk(p)'
  BY <1>1, <1>2, <1>5, <1>7 DEF LockedOk, AsCommitted, EmptyFile, NoPage
<1>9. UndoOk(p)'
  <2>1. SUFFICES ASSUME eState[p] # "OPEN"
                 PROVE  UndoOk(p)'
    BY <1>1 DEF UndoOk, IsWriter
  <2>2. UndoOk(p) /\ IsWriter(p) /\ \A i \in 1..Len(jrnl.recs) : ~(i >= pos[p])
    BY <1>2, <1>3, <1>4, <2>1, CountedRecords
  <2> QED BY <1>1, <2>2 DEF UndoOk, Undoing, VersOld, NoPage, NotCached
<1>10. WriterOk(p)'
  BY <1>1, <1>2, <1>3, <1>7 DEF WriterOk, IsWriter, Size, GoodPage
<1>11. PhaseOk(p)' /\ CacheOk(p)' /\ ReadOk(p)' /\ BeginOk(p)' /\ PlaybackOk(p)' /\ EditOk(p)'
  BY <1>1, <1>2, <1>7 DEF PagerOk, PhaseOk, CacheOk, ReadOk, BeginOk, PlaybackOk, EditOk, Cached, Syncing,
     Undoing
<1>12. OpenOk(p)'
  BY <1>1, <1>2 DEF PagerOk, OpenOk, HasCache, Matches, Cached
<1>13. PagerOk(p)'
  BY <1>8, <1>9, <1>10, <1>11, <1>12 DEF PagerOk
<1> QED BY <1>1, <1>6, <1>13, LocalStep

LEMMA SyncRestoredKeeps ==
    ASSUME Inv, NEW p \in Pagers, SyncRestored(p)
    PROVE  Inv'
<1> USE DEF Set, Goto, ghosts
<1>1. /\ at[p] = "syncRestored" /\ at' = [at EXCEPT ![p] = "finish"] /\ disk' = db
      /\ UNCHANGED <<level, eState, committing, cache, dirty, vers, countDone, tx, pos, db, journal,
                     serial, ghosts>>
  BY DEF SyncRestored, IsAt, caches
<1>2. /\ PagerOk(p) /\ level[p] = 4 /\ eState[p] \in {"OPEN", "WRITER_DBMOD"}
      /\ db = committed
  BY <1>1 DEF Inv, PagersInv, PagerOk, PhaseOk, LockedOk, Syncing, Undoing
<1>3. at'[p] = "finish"
  BY <1>1 DEF Inv, TypeOK
<1>4. TypeOK' /\ Locks!Excludes' /\ \A q \in Pagers \ {p} : Same(q)
  <2>1. TypeOK'
    BY <1>1 DEF Inv, TypeOK, Calls, journal
  <2>2. \A q \in Pagers \ {p} : Same(q)
    BY <1>1 DEF Inv, TypeOK, Same
  <2>3. Locks!Excludes'
    BY <1>1, LockSteps DEF Inv, TypeOK
  <2> QED BY <2>1, <2>2, <2>3
<1>5. FilesInv' /\ JournalInv'
  <2>1. JournalInv'
    BY <1>1, JournalKeep DEF Inv
  <2>2. SafeOn(db)' /\ SafeOn(disk)' /\ Covers(db, committed)' /\ Covers(disk, committed)'
    BY <1>1, <1>2 DEF SafeOn, Covers
  <2>3. Good(committed)' /\ Good(before)'
    BY <1>1 DEF Inv, FilesInv, Good, GoodPage, Solid, NoPage
  <2> QED BY <2>1, <2>2, <2>3 DEF FilesInv
<1>6. AsCommitted'
  BY <1>1, <1>2 DEF AsCommitted
<1>7. LockedOk(p)'
  BY <1>1, <1>2, <1>3, <1>6 DEF LockedOk
<1>8. UndoOk(p)'
  BY <1>1, <1>2, <1>3 DEF PagerOk, UndoOk, IsWriter, Undoing, VersOld, NoPage, NotCached
<1>9. WriterOk(p)'
  BY <1>1, <1>2, <1>3 DEF PagerOk, WriterOk, IsWriter, Size, GoodPage, journal
<1>10. PhaseOk(p)' /\ CacheOk(p)' /\ ReadOk(p)' /\ BeginOk(p)' /\ PlaybackOk(p)' /\ EditOk(p)'
  BY <1>1, <1>2, <1>3 DEF PagerOk, PhaseOk, CacheOk, ReadOk, BeginOk, PlaybackOk, EditOk, Cached, Syncing,
     Undoing
<1>11. OpenOk(p)'
  BY <1>1, <1>2 DEF PagerOk, OpenOk, HasCache, Matches, Cached
<1>12. PagerOk(p)'
  BY <1>7, <1>8, <1>9, <1>10, <1>11 DEF PagerOk
<1> QED BY <1>1, <1>2, <1>4, <1>5, <1>12, ExclusiveStep

LEMMA FinishRollbackKeeps ==
    ASSUME Inv, NEW p \in Pagers, FinishRollback(p)
    PROVE  Inv'
<1> USE DEF Set, Goto, dbFile, ghosts
<1>1. /\ at[p] = "finish" /\ at' = [at EXCEPT ![p] = "downgrade"] /\ UnlinkJournal
      /\ dirty' = [dirty EXCEPT ![p] = {}]
      /\ cache' = [cache EXCEPT ![p] = [pg \in Pages |-> IF pg > jrnl.mx THEN NotCached ELSE cache[p][pg]]]
      /\ UNCHANGED <<level, eState, committing, vers, countDone, tx, pos, dbFile, serial, ghosts>>
  BY DEF FinishRollback, IsAt
<1>2. /\ PagerOk(p) /\ level[p] >= 2 /\ eState[p] \in {"OPEN", "WRITER_CACHEMOD", "WRITER_DBMOD"}
      /\ AsCommitted
      /\ eState[p] = "OPEN" => level[p] = 4
      /\ eState[p] = "WRITER_CACHEMOD" => level[p] = 2
      /\ eState[p] = "WRITER_DBMOD" => level[p] = 4
  BY <1>1 DEF Inv, PagersInv, PagerOk, PhaseOk, LockedOk, Syncing, Undoing
<1>3. /\ at'[p] = "downgrade" /\ dirty'[p] = {}
      /\ \A pg \in Pages : cache'[p][pg] = IF pg > jrnl.mx THEN NotCached ELSE cache[p][pg]
  BY <1>1 DEF Inv, TypeOK
<1>4. TypeOK' /\ Locks!Excludes' /\ \A q \in Pagers \ {p} : Same(q)
  <2>1. cache' \in [Pagers -> [Pages -> Content]] /\ \A q \in Pagers \ {p} : cache'[q] = cache[q]
    BY <1>1 DEF Inv, TypeOK, NotCached, Content
  <2>2. dirty' \in [Pagers -> SUBSET Pages] /\ \A q \in Pagers \ {p} : dirty'[q] = dirty[q]
    BY <1>1 DEF Inv, TypeOK
  <2>3. NoJournal \in Journals
    BY EmptySeq DEF NoJournal, Journals
  <2>4. \A q \in Pagers : dirty'[q] \subseteq {pg \in Pages : cache'[q][pg] # NotCached}
    BY <1>3, <2>1, <2>2 DEF Inv, TypeOK
  <2>5. TypeOK'
    BY <1>1, <2>1, <2>2, <2>3, <2>4 DEF Inv, TypeOK, Calls, UnlinkJournal
  <2>6. \A q \in Pagers \ {p} : Same(q)
    BY <1>1, <2>1, <2>2 DEF Inv, TypeOK, Same
  <2>7. Locks!Excludes'
    BY <1>1, LockSteps DEF Inv, TypeOK
  <2> QED BY <2>5, <2>6, <2>7
<1>5. FilesInv' /\ JournalInv'
  BY <1>1, <1>2, UnlinkKeeps DEF Inv
<1>6. AsCommitted'
  BY <1>1, <1>2 DEF AsCommitted, EmptyFile, NoPage
<1>7. ReadOk(p)'
  <2>1. SUFFICES ASSUME eState[p] # "OPEN"
                 PROVE  ReadOk(p)'
    BY <1>1, <1>2 DEF ReadOk
  <2>2. jrnl.mx = Size(committed) /\ UndoOk(p) /\ IsWriter(p) /\ at[p] \in Undoing /\ at[p] # "playback"
    BY <1>1, <1>2, <2>1 DEF PagerOk, WriterOk, IsWriter, Undoing
  <2>3. \A pg \in Pages : cache'[p][pg] \in {NotCached, committed[pg]}
    BY <1>3, <2>2, CommittedSize DEF UndoOk
  <2>4. ASSUME NEW pg \in Pages, cache'[p][pg] # NotCached
        PROVE  vers[p] = committed[1].cnt
    <3>1. committed[pg] # NoPage
      BY <1>3, <2>2, <2>4, CommittedSize
    <3>2. 1 \in Pages /\ 1 <= pg
      BY BoundsAssumption DEF Pages
    <3>3. committed[1] # NoPage
      BY <3>1, <3>2 DEF Inv, FilesInv, Good, Solid
    <3> QED BY <2>2, <3>3 DEF UndoOk, VersOld
  <2> QED BY <1>1, <2>3, <2>4 DEF ReadOk, Matches, HasCache, Cached
<1>8. OpenOk(p)'
  BY <1>1, <1>2, <1>3 DEF PagerOk, OpenOk, HasCache, Matches, Cached
<1>9. CacheOk(p)'
  BY <1>1, <1>2, <1>3 DEF PagerOk, CacheOk, Cached, Syncing
<1>10. LockedOk(p)'
  BY <1>1, <1>2, <1>3, <1>6 DEF LockedOk
<1>11. PhaseOk(p)' /\ PlaybackOk(p)' /\ BeginOk(p)' /\ WriterOk(p)' /\ EditOk(p)' /\ UndoOk(p)'
  BY <1>1, <1>2, <1>3 DEF PhaseOk, PlaybackOk, BeginOk, WriterOk, EditOk, UndoOk, IsWriter, Undoing
<1>12. PagerOk(p)'
  BY <1>7, <1>8, <1>9, <1>10, <1>11 DEF PagerOk
<1> QED BY <1>1, <1>2, <1>4, <1>5, <1>12, ReservedStep

LEMMA DowngradeKeeps ==
    ASSUME Inv, NEW p \in Pagers, Downgrade(p)
    PROVE  Inv'
<1> USE DEF Set, Goto, Become, dbFile, journal, ghosts
<1>1. /\ at[p] = "downgrade" /\ countDone' = [countDone EXCEPT ![p] = FALSE]
      /\ level' = [level EXCEPT ![p] = 1] /\ Locks!Excludes'
      /\ IF eState[p] = "OPEN" THEN at' = [at EXCEPT ![p] = "check"] /\ UNCHANGED eState
                               ELSE at' = [at EXCEPT ![p] = "idle"] /\ eState' = [eState EXCEPT ![p] = "READER"]
      /\ UNCHANGED <<committing, cache, dirty, vers, tx, pos, dbFile, journal, serial, ghosts>>
  BY LockSteps DEF Downgrade, IsAt, UnlockDb, IsHot, Inv, TypeOK
<1>2. PagerOk(p) /\ AsCommitted /\ dirty[p] = {}
  BY <1>1 DEF Inv, PagersInv, PagerOk, LockedOk, CacheOk
<1>3. AsCommitted'
  BY <1>1, <1>2 DEF AsCommitted, EmptyFile, NoPage
<1>4. /\ level'[p] = 1 /\ ~countDone'[p]
      /\ at'[p] = IF eState[p] = "OPEN" THEN "check" ELSE "idle"
      /\ eState'[p] = IF eState[p] = "OPEN" THEN "OPEN" ELSE "READER"
  BY <1>1 DEF Inv, TypeOK
<1>5. TypeOK' /\ \A q \in Pagers \ {p} : Same(q)
  <2>1. level' \in [Pagers -> 0..4] /\ countDone' \in [Pagers -> BOOLEAN]
    BY <1>1 DEF Inv, TypeOK
  <2>2. at' \in [Pagers -> Calls] /\ eState' \in [Pagers -> EStates]
    BY <1>1 DEF Inv, TypeOK, Calls, EStates
  <2>3. TypeOK'
    BY <1>1, <2>1, <2>2 DEF Inv, TypeOK
  <2>4. \A q \in Pagers \ {p} : Same(q)
    BY <1>1 DEF Inv, TypeOK, Same
  <2> QED BY <2>3, <2>4
<1>6. PhaseOk(p)' /\ CacheOk(p)' /\ LockedOk(p)'
  BY <1>1, <1>2, <1>3, <1>4 DEF PagerOk, PhaseOk, CacheOk, LockedOk, Cached
<1>7. OpenOk(p)' /\ ReadOk(p)'
  BY <1>1, <1>2, <1>4 DEF PagerOk, OpenOk, ReadOk, HasCache, Matches, Cached
<1>8. PlaybackOk(p)' /\ BeginOk(p)' /\ WriterOk(p)' /\ EditOk(p)' /\ UndoOk(p)'
  BY <1>4 DEF PlaybackOk, BeginOk, WriterOk, EditOk, UndoOk, IsWriter
<1>9. PagerOk(p)'
  BY <1>6, <1>7, <1>8 DEF PagerOk
<1> QED BY <1>1, <1>5, <1>9, LocalStep

LEMMA UnlinkFailsKeeps ==
    ASSUME Inv, NEW p \in Pagers, UnlinkFails(p)
    PROVE  Inv'
<1> USE DEF Set, Goto, Become, dbFile, journal, ghosts
<1>1. /\ countDone' = [countDone EXCEPT ![p] = FALSE]
      /\ level' = [level EXCEPT ![p] = 1] /\ Locks!Excludes'
      /\ at' = [at EXCEPT ![p] = "idle"] /\ eState' = [eState EXCEPT ![p] = "ERROR"]
      /\ UNCHANGED <<committing, cache, dirty, vers, tx, pos, dbFile, journal, serial, ghosts>>
  BY LockSteps DEF UnlinkFails, UnlockDb, Inv, TypeOK
<1>2. PagerOk(p)
  BY DEF Inv, PagersInv
<1>3. level'[p] = 1 /\ ~countDone'[p] /\ at'[p] = "idle" /\ eState'[p] = "ERROR"
  BY <1>1 DEF Inv, TypeOK
<1>4. TypeOK' /\ \A q \in Pagers \ {p} : Same(q)
  <2>1. TypeOK'
    BY <1>1 DEF Inv, TypeOK, Calls, EStates
  <2>2. \A q \in Pagers \ {p} : Same(q)
    BY <1>1 DEF Inv, TypeOK, Same
  <2> QED BY <2>1, <2>2
<1>5. PhaseOk(p)' /\ CacheOk(p)' /\ LockedOk(p)'
  BY <1>1, <1>2, <1>3 DEF PagerOk, PhaseOk, CacheOk, LockedOk, Cached
<1>6. OpenOk(p)' /\ ReadOk(p)' /\ PlaybackOk(p)' /\ BeginOk(p)' /\ WriterOk(p)' /\ EditOk(p)' /\ UndoOk(p)'
  BY <1>3 DEF OpenOk, ReadOk, PlaybackOk, BeginOk, WriterOk, EditOk, UndoOk, IsWriter
<1>7. PagerOk(p)'
  BY <1>5, <1>6 DEF PagerOk
<1> QED BY <1>1, <1>4, <1>7, LocalStep

-----------------------------------------------------------------------------
(* The steps of Write. *)

LEMMA BeginKeeps ==
    ASSUME Inv, NEW p \in Pagers, Begin(p)
    PROVE  Inv'
<1> USE DEF Set, Become, dbFile, journal, ghosts
<1>1. /\ at[p] = "idle" /\ eState[p] = "READER" /\ (Size(db) > 0 => Cached(p, 1)) /\ serial < MaxTx
      /\ level' = [level EXCEPT ![p] = 2] /\ Locks!Excludes'
      /\ eState' = [eState EXCEPT ![p] = "WRITER_LOCKED"]
      /\ serial' = serial + 1 /\ tx' = [tx EXCEPT ![p] = serial + 1]
      /\ UNCHANGED <<at, committing, cache, dirty, vers, countDone, pos, dbFile, journal, ghosts>>
  BY LockSteps DEF Begin, Idle, Inv, TypeOK
<1>2. PagerOk(p) /\ AsCommitted
  BY <1>1 DEF Inv, PagersInv, PagerOk, LockedOk
<1>3. AsCommitted'
  BY <1>1, <1>2 DEF AsCommitted, EmptyFile, NoPage
<1>4. serial + 1 \in 1..MaxTx
  BY <1>1, BoundsAssumption DEF Inv, TypeOK
<1>5. level'[p] = 2 /\ eState'[p] = "WRITER_LOCKED" /\ tx'[p] >= 1
  BY <1>1, <1>4 DEF Inv, TypeOK
<1>6. TypeOK' /\ \A q \in Pagers \ {p} : Same(q)
  <2>1. tx' \in [Pagers -> 0..MaxTx] /\ serial' \in 0..MaxTx
    BY <1>1, <1>4 DEF Inv, TypeOK
  <2>2. TypeOK'
    BY <1>1, <2>1 DEF Inv, TypeOK, EStates
  <2>3. \A q \in Pagers \ {p} : Same(q)
    BY <1>1 DEF Inv, TypeOK, Same
  <2> QED BY <2>2, <2>3
<1>7. committed[1] # NoPage => Cached(p, 1)
  <2>1. 1 \in Pages /\ 1 \in 1..MaxPage
    BY BoundsAssumption DEF Pages
  <2>2. db[1] # NoPage => 1 <= Size(db)
    BY <2>1, SizeIs
  <2>3. Size(db) \in Nat
    BY SizeIs, BoundsAssumption
  <2> QED BY <1>1, <1>2, <2>2, <2>3 DEF AsCommitted
<1>8. BeginOk(p)'
  BY <1>1, <1>5, <1>7 DEF BeginOk, Cached, NoPage, NotCached
<1>9. OpenOk(p)' /\ ReadOk(p)'
  BY <1>1, <1>2, <1>5 DEF PagerOk, OpenOk, ReadOk, HasCache, Matches, Cached
<1>10. PhaseOk(p)' /\ CacheOk(p)' /\ LockedOk(p)'
  BY <1>1, <1>2, <1>3, <1>5 DEF PagerOk, PhaseOk, CacheOk, LockedOk, Cached
<1>11. PlaybackOk(p)' /\ WriterOk(p)' /\ EditOk(p)' /\ UndoOk(p)'
  BY <1>1, <1>5 DEF PlaybackOk, WriterOk, EditOk, UndoOk, IsWriter
<1>12. PagerOk(p)'
  BY <1>8, <1>9, <1>10, <1>11 DEF PagerOk
<1> QED BY <1>1, <1>6, <1>12, LocalStep

LEMMA OpenJournalKeeps ==
    ASSUME Inv, NEW p \in Pagers, OpenJournal(p)
    PROVE  Inv'
<1> USE DEF Set, Become, dbFile, ghosts
<1>1. /\ at[p] = "idle" /\ eState[p] = "WRITER_LOCKED"
      /\ jrnl' = [NoJournal EXCEPT !.exists = TRUE, !.tx = tx[p], !.mx = Size(db)]
      /\ named' = FALSE /\ eState' = [eState EXCEPT ![p] = "WRITER_CACHEMOD"]
      /\ UNCHANGED <<level, at, committing, cache, dirty, vers, countDone, tx, pos, dbFile, jdisk, serial,
                     ghosts>>
  BY DEF OpenJournal, Idle, caches
<1>2. PagerOk(p) /\ AsCommitted /\ level[p] = 2
  BY <1>1 DEF Inv, PagersInv, PagerOk, PhaseOk, LockedOk
<1>3. eState'[p] = "WRITER_CACHEMOD"
  BY <1>1 DEF Inv, TypeOK
<1>4. jrnl' = [exists |-> TRUE, tx |-> tx[p], mx |-> Size(committed), hdr |-> FALSE, nRec |-> 0, recs |-> << >>]
  BY <1>1, <1>2 DEF NoJournal, AsCommitted
<1>5. AsCommitted'
  BY <1>1, <1>2 DEF AsCommitted, EmptyFile, NoPage
<1>6. TypeOK' /\ Locks!Excludes' /\ \A q \in Pagers \ {p} : Same(q)
  <2>1. jrnl' \in Journals
    BY <1>4, EmptySeq, SizeIs, BoundsAssumption DEF Inv, TypeOK, Journals
  <2>2. TypeOK'
    BY <1>1, <2>1 DEF Inv, TypeOK, EStates
  <2>3. \A q \in Pagers \ {p} : Same(q)
    BY <1>1 DEF Inv, TypeOK, Same
  <2>4. Locks!Excludes'
    BY <1>1, LockSteps DEF Inv, TypeOK
  <2> QED BY <2>2, <2>3, <2>4
<1>7. FilesInv' /\ JournalInv'
  <2>1. JournalInv'
    <3>1. WellFormed(jrnl)' /\ ~jrnl'.hdr
      BY <1>4 DEF WellFormed
    <3> QED BY <1>1, <3>1, NameGoes DEF Inv
  <2>2. FilesInv'
    BY <1>1, <1>2 DEF Inv, FilesInv, AsCommitted, SafeOn, Good, GoodPage, Solid, Covers, EmptyFile, NoPage
  <2> QED BY <2>1, <2>2
<1>8. Matches(p) /\ (HasCache(p) => vers[p] = committed[1].cnt) /\ dirty[p] = {}
      /\ (committed[1] # NoPage => Cached(p, 1)) /\ tx[p] >= 1
  BY <1>1, <1>2 DEF PagerOk, ReadOk, CacheOk, BeginOk
<1>9. WriterOk(p)'
  <2>1. jrnl'.exists /\ ~jrnl'.hdr /\ jrnl'.tx = tx[p] /\ jrnl'.mx = Size(committed) /\ Len(jrnl'.recs) = 0
    BY <1>4
  <2>2. Size(committed)' = Size(committed) /\ tx'[p] = tx[p] /\ at'[p] = "idle"
    BY <1>1 DEF Size
  <2> QED BY <1>3, <1>8, <2>1, <2>2 DEF WriterOk
<1>10. EditOk(p)'
  <2>1. \A pg \in Pages : cache[p][pg] \in {NotCached, db[pg]}
    BY <1>2, <1>8 DEF Matches, AsCommitted
  <2>2. \A pg \in Pages : Image(p)'[pg] = committed[pg]
    BY <1>1, <1>2, <2>1 DEF Image, Cached, AsCommitted
  <2>3. Solid(Image(p))'
    BY <2>2 DEF Inv, FilesInv, Good, Solid
  <2>4. VersOld(p)'
    <3>1. vers[p] \in Nat /\ committed[1].cnt \in Nat /\ 1 \in Pages
      BY BoundsAssumption DEF Inv, TypeOK, Content, Pages
    <3>2. committed[1] # NoPage => vers[p] = committed[1].cnt
      BY <1>8, <3>1 DEF HasCache
    <3>3. committed[1] = NoPage => committed[1].cnt = 0
      BY DEF NoPage
    <3> QED BY <1>1, <3>1, <3>2, <3>3 DEF VersOld, NoPage
  <2> QED BY <1>1, <1>2, <1>3, <1>8, <2>1, <2>3, <2>4 DEF EditOk, AsCommitted, Cached, NoPage, Syncing
<1>11. PhaseOk(p)' /\ CacheOk(p)' /\ LockedOk(p)' /\ OpenOk(p)' /\ ReadOk(p)'
  BY <1>1, <1>2, <1>3, <1>5 DEF PagerOk, PhaseOk, CacheOk, LockedOk, OpenOk, ReadOk, Cached
<1>12. PlaybackOk(p)' /\ BeginOk(p)' /\ UndoOk(p)'
  BY <1>1, <1>3 DEF PlaybackOk, BeginOk, UndoOk, Undoing
<1>13. PagerOk(p)'
  BY <1>9, <1>10, <1>11, <1>12 DEF PagerOk
<1> QED BY <1>1, <1>2, <1>6, <1>7, <1>13, ReservedStep

(* Page pg goes to the journal as the last commit left it, unless it is      *)
(* there.                                                                    *)
LEMMA MakeWritableKeeps ==
    ASSUME Inv, NEW p \in Pagers, Writing(p), NEW pg \in Pages,
           Cached(p, pg) \/ committed[pg] = NoPage,
           MakeWritable(p, pg), UNCHANGED ghosts
    PROVE  /\ jrnl' \in Journals /\ JournalInv'
           /\ jrnl'.exists = jrnl.exists /\ jrnl'.tx = jrnl.tx /\ jrnl'.mx = jrnl.mx
           /\ jrnl'.hdr = jrnl.hdr /\ jrnl'.nRec = jrnl.nRec
           /\ \A i \in 1..Len(jrnl'.recs) :
                 committed[jrnl'.recs[i].pg] # NoPage /\ jrnl'.recs[i].val = committed[jrnl'.recs[i].pg]
           /\ \A r \in Pages : InJournal(r) => InJournal(r)'
           /\ committed[pg] # NoPage => InJournal(pg)'
<1>1. /\ jdisk' = jdisk /\ named' = named
      /\ jrnl' = IF pg > jrnl.mx \/ InJournal(pg) THEN jrnl
                 ELSE [jrnl EXCEPT !.recs = Append(@, [pg |-> pg, val |-> cache[p][pg]])]
  BY DEF MakeWritable
<1>2. WriterOk(p) /\ EditOk(p) /\ IsWriter(p) /\ at[p] \notin Undoing /\ jrnl.mx = Size(committed) /\ jrnl.exists
  BY DEF Writing, Inv, PagersInv, PagerOk, WriterOk, IsWriter, Undoing
<1>3. jrnl.recs \in Seq(Record) /\ Len(jrnl.recs) \in Nat /\ jrnl.nRec \in Nat /\ jrnl.nRec <= Len(jrnl.recs)
      /\ DOMAIN jrnl.recs = 1..Len(jrnl.recs)
  BY LenProperties, CountedRecords DEF Inv, TypeOK, Journals
<1>4. pg > jrnl.mx <=> committed[pg] = NoPage
  BY <1>2, CommittedSize
<1>5. CASE pg > jrnl.mx \/ InJournal(pg)
  <2>1. jrnl' = jrnl
    BY <1>1, <1>5
  <2>2. JournalInv'
    BY <1>1, <2>1, JournalKeep DEF Inv, journal
  <2>3. InJournal(pg) => InJournal(pg)'
    BY <2>1 DEF InJournal
  <2> QED BY <1>2, <1>4, <1>5, <2>1, <2>2, <2>3 DEF Inv, TypeOK, WriterOk, InJournal
<1>6. CASE ~(pg > jrnl.mx \/ InJournal(pg))
  <2> DEFINE rec == [pg |-> pg, val |-> cache[p][pg]]
  <2>1. committed[pg] # NoPage /\ Cached(p, pg)
    BY <1>4, <1>6
  <2>2. cache[p][pg] = committed[pg]
    <3>1. pg \notin dirty[p]
      BY <1>2, <1>6, <2>1 DEF EditOk
    <3>2. cache[p][pg] = db[pg]
      BY <1>2, <2>1, <3>1 DEF EditOk, Cached
    <3>3. db[pg] = committed[pg]
      BY <1>3, <1>6, <2>1, DiffersIsCounted DEF InJournal
    <3> QED BY <3>2, <3>3
  <2>3. rec \in Record
    BY <2>2 DEF Record, Inv, TypeOK
  <2>4. /\ jrnl' = [jrnl EXCEPT !.recs = Append(@, rec)] /\ jrnl'.recs = Append(jrnl.recs, rec)
        /\ jrnl'.exists = jrnl.exists /\ jrnl'.tx = jrnl.tx /\ jrnl'.mx = jrnl.mx
        /\ jrnl'.hdr = jrnl.hdr /\ jrnl'.nRec = jrnl.nRec
    BY <1>1, <1>6 DEF Inv, TypeOK, Journals
  <2>5. /\ jrnl'.recs \in Seq(Record) /\ Len(jrnl'.recs) = Len(jrnl.recs) + 1
        /\ \A i \in 1..Len(jrnl.recs) : jrnl'.recs[i] = jrnl.recs[i]
        /\ jrnl'.recs[Len(jrnl.recs) + 1] = rec
    BY <1>3, <2>3, <2>4, AppendProperties
  <2>6. jrnl' \in Journals
    BY <2>4, <2>5 DEF Inv, TypeOK, Journals
  <2>7. ASSUME NEW i \in 1..Len(jrnl'.recs)
        PROVE  committed[jrnl'.recs[i].pg] # NoPage /\ jrnl'.recs[i].val = committed[jrnl'.recs[i].pg]
    <3>1. CASE i = Len(jrnl.recs) + 1
      BY <2>1, <2>2, <2>5, <3>1
    <3>2. CASE i # Len(jrnl.recs) + 1
      <4>1. i \in 1..Len(jrnl.recs)
        BY <1>3, <2>5, <3>2
      <4> QED BY <1>2, <2>5, <4>1 DEF WriterOk
    <3> QED BY <3>1, <3>2
  <2>8. DOMAIN jrnl'.recs = 1..Len(jrnl.recs) + 1
    BY <1>3, <2>5, LenProperties
  <2>9. InJournal(pg)' /\ \A r \in Pages : InJournal(r) => InJournal(r)'
    <3>1. Len(jrnl.recs) + 1 \in DOMAIN jrnl'.recs /\ \A i \in DOMAIN jrnl.recs : i \in DOMAIN jrnl'.recs
      BY <1>3, <2>8
    <3> QED BY <1>3, <2>5, <3>1 DEF InJournal
  <2>10. JournalInv'
    <3>1. WellFormed(jrnl)' /\ WellFormed(jdisk)'
      BY <1>1, <1>2, <2>4 DEF Inv, JournalInv, WellFormed
    <3>2. Protects(jrnl, committed)'
      BY <1>3, <2>4, <2>5, <2>7 DEF Inv, JournalInv, Protects, IsHeaded, ghosts, Size
    <3>3. named' => Earlier(jdisk, jrnl)'
      <4>1. SUFFICES ASSUME named
                     PROVE  Earlier(jdisk, jrnl)'
        BY <1>1
      <4>2. Earlier(jdisk, jrnl) /\ Len(jdisk.recs) \in Nat
        BY <4>1, LenProperties DEF Inv, TypeOK, JournalInv, Journals
      <4>3. \A k \in 1..Len(jdisk.recs) : k \in 1..Len(jrnl.recs)
        BY <1>3, <4>2 DEF Earlier
      <4> QED BY <1>1, <1>3, <2>4, <2>5, <4>2, <4>3 DEF Earlier
    <3>4. ~named' => ~jrnl'.hdr
      BY <1>1, <2>4 DEF Inv, JournalInv
    <3>5. ~named' /\ IsHeaded(jdisk)' => \E f \in {committed', before'} : LeadsBack(jdisk, f)'
      BY <1>1 DEF Inv, JournalInv, LeadsBack, Protects, Covers, Restores, Counted, IsHeaded, Size, ghosts
    <3> QED BY <3>1, <3>2, <3>3, <3>4, <3>5 DEF JournalInv
  <2> QED BY <2>4, <2>6, <2>7, <2>9, <2>10
<1> QED BY <1>5, <1>6

(* Page pg is changed in the cache, by the statement or for the counter.     *)
LEMMA EditKeeps ==
    ASSUME Inv, NEW p \in Pagers, Writing(p), NEW pg \in Pages,
           Cached(p, pg) \/ pg = Size(Image(p)) + 1,
           MakeWritable(p, pg),
           NEW v \in Content, v.tx >= 1, cache' = [cache EXCEPT ![p][pg] = v],
           at' \in [Pagers -> Calls], committing' \in [Pagers -> BOOLEAN], countDone' \in [Pagers -> BOOLEAN],
           \A q \in Pagers \ {p} :
               at'[q] = at[q] /\ committing'[q] = committing[q] /\ countDone'[q] = countDone[q],
           \/ at'[p] = "idle" /\ countDone'[p] = FALSE
           \/ at'[p] = "exclusive" /\ committing'[p] /\ pg = 1,
           UNCHANGED <<level, eState, vers, tx, pos, dbFile, serial, ghosts>>
    PROVE  Inv'
<1> USE DEF dbFile, ghosts
<1>1. /\ PagerOk(p) /\ WriterOk(p) /\ EditOk(p) /\ IsWriter(p) /\ at[p] = "idle"
      /\ \/ eState[p] = "WRITER_CACHEMOD" /\ level[p] = 2 /\ AsCommitted
         \/ eState[p] = "WRITER_DBMOD" /\ level[p] = 4
  BY DEF Writing, Inv, PagersInv, PagerOk, PhaseOk, IsWriter, LockedOk, Syncing, Undoing
<1>2. /\ Solid(Image(p)) /\ VersOld(p)
      /\ \A r \in Pages : r \in dirty[p] \/ cache[p][r] \in {NotCached, db[r]}
      /\ \A r \in dirty[p] : committed[r] # NoPage => InJournal(r)
      /\ db[1] # NoPage => Cached(p, 1)
  BY <1>1 DEF EditOk, Undoing
<1>3. Cached(p, pg) => Image(p)[pg] # NoPage
  BY DEF Image, Inv, PagersInv, PagerOk, CacheOk, NoPage
<1>4. /\ Size(Image(p)) \in Nat
      /\ \A r \in Pages : r <= Size(Image(p)) <=> Image(p)[r] # NoPage
  BY <1>2, SizeIs, SolidSize, BoundsAssumption
<1>5. Cached(p, pg) \/ committed[pg] = NoPage
  <2>1. CASE ~Cached(p, pg)
    <3>1. Image(p)[pg] = NoPage /\ Image(p)[pg] = db[pg]
      <4>1. pg = Size(Image(p)) + 1
        BY <2>1
      <4>2. ~(pg <= Size(Image(p)))
        BY <1>4, <4>1
      <4> QED BY <1>4, <2>1, <4>2 DEF Image
    <3> QED BY <3>1 DEF Inv, FilesInv, Covers
  <2> QED BY <2>1
<1>6. /\ dirty' = [dirty EXCEPT ![p] = @ \cup {pg}] /\ jdisk' = jdisk /\ named' = named
      /\ dirty'[p] = dirty[p] \cup {pg}
      /\ \A r \in Pages : cache'[p][r] = IF r = pg THEN v ELSE cache[p][r]
      /\ v # NotCached /\ v # NoPage
  BY DEF MakeWritable, Inv, TypeOK, NotCached, NoPage
<1>7. /\ jrnl' \in Journals /\ JournalInv'
      /\ jrnl'.exists = jrnl.exists /\ jrnl'.tx = jrnl.tx /\ jrnl'.mx = jrnl.mx
      /\ jrnl'.hdr = jrnl.hdr /\ jrnl'.nRec = jrnl.nRec
      /\ \A i \in 1..Len(jrnl'.recs) :
            committed[jrnl'.recs[i].pg] # NoPage /\ jrnl'.recs[i].val = committed[jrnl'.recs[i].pg]
      /\ \A r \in Pages : InJournal(r) => InJournal(r)'
      /\ committed[pg] # NoPage => InJournal(pg)'
  BY <1>5, MakeWritableKeeps
<1>8. TypeOK' /\ Locks!Excludes' /\ \A q \in Pagers \ {p} : Same(q)
  <2>1. cache' \in [Pagers -> [Pages -> Content]] /\ \A q \in Pagers \ {p} : cache'[q] = cache[q]
    BY DEF Inv, TypeOK
  <2>2. dirty' \in [Pagers -> SUBSET Pages] /\ \A q \in Pagers \ {p} : dirty'[q] = dirty[q]
    BY <1>6 DEF Inv, TypeOK
  <2>3. \A q \in Pagers : dirty'[q] \subseteq {r \in Pages : cache'[q][r] # NotCached}
    <3>1. \A r \in dirty'[p] : r \in Pages /\ cache'[p][r] # NotCached
      BY <1>6 DEF Inv, TypeOK
    <3>2. \A q \in Pagers \ {p} : dirty[q] \subseteq {r \in Pages : cache[q][r] # NotCached}
      BY DEF Inv, TypeOK
    <3> QED BY <2>1, <2>2, <3>1, <3>2
  <2>4. TypeOK'
    BY <1>6, <1>7, <2>1, <2>2, <2>3 DEF Inv, TypeOK
  <2>5. \A q \in Pagers \ {p} : Same(q)
    BY <2>1, <2>2 DEF Same
  <2>6. Locks!Excludes'
    BY LockSteps DEF Inv, TypeOK
  <2> QED BY <2>4, <2>5, <2>6
<1>9. FilesInv'
  BY <1>6, FilesKeep DEF Inv
<1>10. WriterOk(p)'
  BY <1>1, <1>6, <1>7 DEF WriterOk, IsWriter, Size, GoodPage
<1>11. EditOk(p)'
  <2>1. \A r \in Pages : Image(p)'[r] = IF r = pg THEN v ELSE Image(p)[r]
    BY <1>6 DEF Image, Cached
  <2>2. ASSUME NEW r \in Pages, NEW q \in Pages, q <= r, Image(p)'[r] # NoPage
        PROVE  Image(p)'[q] # NoPage
    <3>1. CASE q = pg
      BY <1>6, <2>1, <3>1
    <3>2. CASE q # pg /\ r # pg
      BY <1>2, <2>1, <2>2, <3>2 DEF Solid
    <3>3. CASE q # pg /\ r = pg /\ Cached(p, pg)
      BY <1>2, <1>3, <2>1, <2>2, <3>3 DEF Solid
    <3>4. CASE q # pg /\ r = pg /\ ~Cached(p, pg)
      <4>1. q <= Size(Image(p))
        BY <1>4, <2>2, <3>4 DEF Pages
      <4> QED BY <1>4, <2>1, <3>4, <4>1
    <3> QED BY <3>1, <3>2, <3>3, <3>4
  <2>3. Solid(Image(p))'
    BY <2>2 DEF Solid, NoPage
  <2>4. VersOld(p)'
    BY <1>2 DEF VersOld, NoPage
  <2>5. /\ \A r \in Pages : r \in dirty'[p] \/ cache'[p][r] \in {NotCached, db'[r]}
        /\ \A r \in dirty'[p] : committed'[r] # NoPage => InJournal(r)'
        /\ (db[1] # NoPage => Cached(p, 1))'
    <3>1. dirty[p] \subseteq Pages
      BY DEF Inv, TypeOK
    <3> QED BY <1>2, <1>6, <1>7, <3>1 DEF Cached
  <2>6. at'[p] \in Syncing => 1 \in dirty'[p]
    BY <1>6 DEF Syncing
  <2> QED BY <1>1, <2>3, <2>4, <2>5, <2>6 DEF EditOk, NoPage, NotCached
<1>12. CacheOk(p)'
  BY <1>1, <1>6 DEF PagerOk, CacheOk, Cached, Syncing
<1>13. PhaseOk(p)' /\ LockedOk(p)' /\ OpenOk(p)' /\ ReadOk(p)'
  BY <1>1 DEF PagerOk, PhaseOk, LockedOk, AsCommitted, OpenOk, ReadOk, EmptyFile, NoPage, Syncing
<1>14. PlaybackOk(p)' /\ BeginOk(p)' /\ UndoOk(p)'
  BY <1>1 DEF PlaybackOk, BeginOk, UndoOk, Undoing
<1>15. PagerOk(p)'
  BY <1>10, <1>11, <1>12, <1>13, <1>14 DEF PagerOk
<1> QED BY <1>1, <1>7, <1>8, <1>9, <1>15, ReservedStep

LEMMA WritePageKeeps ==
    ASSUME Inv, NEW p \in Pagers, NEW pg \in Pages, WritePage(p, pg)
    PROVE  Inv'
<1> DEFINE v == [cnt |-> IF Cached(p, pg) THEN cache[p][pg].cnt ELSE 0, tx |-> tx[p]]
<1>1. /\ Writing(p) /\ (Cached(p, pg) \/ pg = Size(Image(p)) + 1) /\ MakeWritable(p, pg)
      /\ cache' = [cache EXCEPT ![p][pg] = v]
      /\ UNCHANGED <<level, eState, at, committing, vers, countDone, tx, pos, dbFile, serial, ghosts>>
  BY DEF WritePage, Inv, TypeOK
<1>2. tx[p] >= 1 /\ at[p] = "idle" /\ ~countDone[p]
  BY <1>1 DEF Writing, Inv, PagersInv, PagerOk, WriterOk, IsWriter, CacheOk, Syncing
<1>3. v \in Content /\ v.tx >= 1
  BY <1>2, BoundsAssumption DEF Inv, TypeOK, Content
<1>4. /\ at' \in [Pagers -> Calls] /\ committing' \in [Pagers -> BOOLEAN] /\ countDone' \in [Pagers -> BOOLEAN]
      /\ at'[p] = "idle" /\ countDone'[p] = FALSE
      /\ \A q \in Pagers \ {p} :
             at'[q] = at[q] /\ committing'[q] = committing[q] /\ countDone'[q] = countDone[q]
  BY <1>1, <1>2 DEF Inv, TypeOK
<1>5. UNCHANGED <<level, eState, vers, tx, pos, dbFile, serial, ghosts>>
  BY <1>1
<1> HIDE DEF v
<1> QED BY <1>1, <1>3, <1>4, <1>5, EditKeeps

LEMMA CommitPhaseOneKeeps ==
    ASSUME Inv, NEW p \in Pagers, CommitPhaseOne(p)
    PROVE  Inv'
<1> DEFINE v == [cache[p][1] EXCEPT !.cnt = vers[p] + 1]
<1>1. Writing(p) /\ Cached(p, 1) /\ at[p] = "idle" /\ ~countDone[p] /\ 1 \in Pages
  BY BoundsAssumption DEF CommitPhaseOne, Writing, Inv, PagersInv, PagerOk, CacheOk, Syncing, Pages
<1>2. /\ committing' = [committing EXCEPT ![p] = TRUE] /\ at' = [at EXCEPT ![p] = "exclusive"]
      /\ MakeWritable(p, 1) /\ cache' = [cache EXCEPT ![p][1] = v]
      /\ countDone' = [countDone EXCEPT ![p] = TRUE]
      /\ UNCHANGED <<level, eState, vers, tx, pos, dbFile, serial, ghosts>>
  BY <1>1 DEF CommitPhaseOne, Goto, Set, Inv, TypeOK
<1>3. v \in Content /\ v.tx >= 1
  <2>1. cache[p][1] \in Content /\ cache[p][1].tx >= 1 /\ vers[p] + 1 \in Nat
    BY <1>1 DEF Inv, TypeOK, PagersInv, PagerOk, CacheOk
  <2> QED BY <2>1 DEF Content
<1>4. /\ at' \in [Pagers -> Calls] /\ committing' \in [Pagers -> BOOLEAN] /\ countDone' \in [Pagers -> BOOLEAN]
      /\ at'[p] = "exclusive" /\ committing'[p]
      /\ \A q \in Pagers \ {p} :
             at'[q] = at[q] /\ committing'[q] = committing[q] /\ countDone'[q] = countDone[q]
  BY <1>2 DEF Inv, TypeOK, Calls
<1> HIDE DEF v
<1> QED BY <1>1, <1>2, <1>3, <1>4, EditKeeps

LEMMA StressKeeps ==
    ASSUME Inv, NEW p \in Pagers, Stress(p)
    PROVE  Inv'
<1> USE DEF dbFile, journal, ghosts
<1>1. /\ Writing(p) /\ committing' = [committing EXCEPT ![p] = FALSE] /\ at' = [at EXCEPT ![p] = "exclusive"]
      /\ UNCHANGED <<level, eState, cache, dirty, vers, countDone, tx, pos, dbFile, journal, serial, ghosts>>
  BY DEF Stress, Goto, Set, caches
<1>2. /\ PagerOk(p) /\ WriterOk(p) /\ EditOk(p) /\ IsWriter(p) /\ at[p] = "idle"
      /\ \/ eState[p] = "WRITER_CACHEMOD" /\ level[p] = 2 /\ AsCommitted
         \/ eState[p] = "WRITER_DBMOD" /\ level[p] = 4
  BY <1>1 DEF Writing, Inv, PagersInv, PagerOk, PhaseOk, IsWriter, LockedOk, Syncing, Undoing
<1>3. at'[p] = "exclusive" /\ ~committing'[p]
  BY <1>1 DEF Inv, TypeOK
<1>4. TypeOK' /\ Locks!Excludes' /\ \A q \in Pagers \ {p} : Same(q)
  <2>1. TypeOK'
    BY <1>1 DEF Inv, TypeOK, Calls
  <2>2. \A q \in Pagers \ {p} : Same(q)
    <3>1. \A q \in Pagers \ {p} : at'[q] = at[q] /\ committing'[q] = committing[q]
      BY <1>1 DEF Inv, TypeOK
    <3> QED BY <1>1, <3>1 DEF Same
  <2>3. Locks!Excludes'
    BY <1>1, LockSteps DEF Inv, TypeOK
  <2> QED BY <2>1, <2>2, <2>3
<1>5. EditOk(p)'
  <2>1. Image(p)' = Image(p) /\ Solid(Image(p))' = Solid(Image(p)) /\ VersOld(p)' = VersOld(p)
    BY <1>1 DEF Image, Cached, Solid, VersOld
  <2> QED BY <1>1, <1>2, <1>3, <2>1 DEF EditOk, InJournal, Cached, Undoing
<1>6. WriterOk(p)'
  BY <1>1, <1>2, <1>3 DEF WriterOk, IsWriter, Size, GoodPage
<1>7. PhaseOk(p)' /\ CacheOk(p)' /\ LockedOk(p)' /\ OpenOk(p)' /\ ReadOk(p)'
  BY <1>1, <1>2, <1>3 DEF PagerOk, PhaseOk, CacheOk, LockedOk, AsCommitted, OpenOk, ReadOk, EmptyFile, NoPage,
     Cached, Syncing
<1>8. PlaybackOk(p)' /\ BeginOk(p)' /\ UndoOk(p)'
  BY <1>1, <1>2, <1>3 DEF PlaybackOk, BeginOk, UndoOk, Undoing
<1>9. PagerOk(p)'
  BY <1>5, <1>6, <1>7, <1>8 DEF PagerOk
<1> QED BY <1>1, <1>4, <1>9, LocalStep

LEMMA ExclusiveLockKeeps ==
    ASSUME Inv, NEW p \in Pagers, ExclusiveLock(p)
    PROVE  Inv'
<1> USE DEF dbFile, journal, ghosts
<1>1. /\ at[p] = "exclusive" /\ Locks!Excludes'
      /\ \/ level[p] = 2 /\ level' = [level EXCEPT ![p] = 3] /\ UNCHANGED at
         \/ level[p] = 3 /\ level' = [level EXCEPT ![p] = 4] /\ at' = [at EXCEPT ![p] = "syncRecords"]
         \/ level[p] = 4 /\ UNCHANGED level /\ at' = [at EXCEPT ![p] = "syncRecords"]
      /\ UNCHANGED <<eState, committing, cache, dirty, vers, countDone, tx, pos, dbFile, journal, serial, ghosts>>
  BY LockSteps DEF ExclusiveLock, Goto, Set, IsAt, caches, PENDING_LOCK, EXCLUSIVE_LOCK, Inv, TypeOK
<1>2. /\ PagerOk(p) /\ WriterOk(p) /\ EditOk(p) /\ IsWriter(p)
      /\ \/ eState[p] = "WRITER_CACHEMOD" /\ level[p] \in {2, 3} /\ AsCommitted
         \/ eState[p] = "WRITER_DBMOD" /\ level[p] = 4
  BY <1>1 DEF Inv, PagersInv, PagerOk, PhaseOk, IsWriter, LockedOk, Syncing, Undoing
<1>3. \/ level'[p] = 3 /\ at'[p] = "exclusive" /\ eState[p] = "WRITER_CACHEMOD"
      \/ level'[p] = 4 /\ at'[p] = "syncRecords"
  BY <1>1, <1>2 DEF Inv, TypeOK
<1>4. TypeOK' /\ \A q \in Pagers \ {p} : Same(q)
  <2>1. level' \in [Pagers -> 0..4] /\ \A q \in Pagers \ {p} : level'[q] = level[q]
    <3>1. level \in [Pagers -> 0..4]
      BY DEF Inv, TypeOK
    <3> QED BY <1>1, <3>1
  <2>2. at' \in [Pagers -> Calls] /\ \A q \in Pagers \ {p} : at'[q] = at[q]
    BY <1>1 DEF Inv, TypeOK, Calls
  <2>3. TypeOK'
    BY <1>1, <2>1, <2>2 DEF Inv, TypeOK
  <2>4. \A q \in Pagers \ {p} : Same(q)
    BY <1>1, <2>1, <2>2 DEF Same
  <2> QED BY <2>3, <2>4
<1>5. EditOk(p)'
  <2>1. Image(p)' = Image(p) /\ Solid(Image(p))' = Solid(Image(p)) /\ VersOld(p)' = VersOld(p)
    BY <1>1 DEF Image, Cached, Solid, VersOld
  <2> QED BY <1>1, <1>2, <1>3, <2>1 DEF EditOk, InJournal, Cached, Undoing, Syncing
<1>6. WriterOk(p)'
  BY <1>1, <1>2, <1>3 DEF WriterOk, IsWriter, Size, GoodPage
<1>7. PhaseOk(p)' /\ CacheOk(p)' /\ LockedOk(p)' /\ OpenOk(p)' /\ ReadOk(p)'
  BY <1>1, <1>2, <1>3 DEF PagerOk, PhaseOk, CacheOk, LockedOk, AsCommitted, OpenOk, ReadOk, EmptyFile, NoPage,
     Cached, Syncing
<1>8. PlaybackOk(p)' /\ BeginOk(p)' /\ UndoOk(p)'
  BY <1>1, <1>2, <1>3 DEF PlaybackOk, BeginOk, UndoOk, Undoing
<1>9. PagerOk(p)'
  BY <1>5, <1>6, <1>7, <1>8 DEF PagerOk
<1> QED BY <1>1, <1>4, <1>9, LocalStep

LEMMA SyncRecordsKeeps ==
    ASSUME Inv, NEW p \in Pagers, SyncRecords(p)
    PROVE  Inv'
<1> USE DEF dbFile, ghosts
<1>1. /\ at[p] = "syncRecords" /\ at' = [at EXCEPT ![p] = "writeNRec"] /\ SyncJournalFile
      /\ UNCHANGED <<level, eState, committing, cache, dirty, vers, countDone, tx, pos, dbFile, serial, ghosts>>
  BY DEF SyncRecords, Goto, Set, IsAt, caches
<1>2. /\ PagerOk(p) /\ WriterOk(p) /\ EditOk(p) /\ IsWriter(p) /\ level[p] = 4
      /\ \/ eState[p] = "WRITER_CACHEMOD" /\ AsCommitted /\ ~jrnl.hdr
         \/ eState[p] = "WRITER_DBMOD" /\ jrnl.hdr
  <2>1. PagerOk(p) /\ level[p] = 4 /\ eState[p] \in {"WRITER_CACHEMOD", "WRITER_DBMOD"} /\ IsWriter(p)
    BY <1>1 DEF Inv, PagersInv, PagerOk, PhaseOk, IsWriter, Undoing
  <2>2. WriterOk(p) /\ EditOk(p) /\ (eState[p] = "WRITER_CACHEMOD" => AsCommitted)
    BY <2>1 DEF PagerOk, LockedOk
  <2>3. eState[p] = "WRITER_CACHEMOD" => ~jrnl.hdr
    BY <1>1, <2>1, <2>2 DEF WriterOk
  <2>4. eState[p] = "WRITER_DBMOD" => jrnl.hdr
    BY <2>1, <2>2 DEF WriterOk, Inv, JournalInv, Earlier
  <2> QED BY <2>1, <2>2, <2>3, <2>4
<1>3. at'[p] = "writeNRec"
  BY <1>1 DEF Inv, TypeOK
<1>4. TypeOK' /\ Locks!Excludes' /\ \A q \in Pagers \ {p} : Same(q)
  <2>1. TypeOK'
    BY <1>1 DEF Inv, TypeOK, Calls, SyncJournalFile
  <2>2. \A q \in Pagers \ {p} : Same(q)
    BY <1>1 DEF Inv, TypeOK, Same
  <2>3. Locks!Excludes'
    BY <1>1, LockSteps DEF Inv, TypeOK
  <2> QED BY <2>1, <2>2, <2>3
<1>5. FilesInv' /\ JournalInv'
  BY <1>1, FilesToward, SyncKeeps DEF Inv
<1>6. EditOk(p)'
  <2>1. Image(p)' = Image(p) /\ Solid(Image(p))' = Solid(Image(p)) /\ VersOld(p)' = VersOld(p)
    BY <1>1 DEF Image, Cached, Solid, VersOld
  <2> QED BY <1>1, <1>2, <1>3, <2>1 DEF EditOk, InJournal, Cached, Undoing, Syncing, SyncJournalFile
<1>7. WriterOk(p)'
  BY <1>1, <1>2, <1>3 DEF WriterOk, IsWriter, Size, GoodPage, SyncJournalFile
<1>8. PhaseOk(p)' /\ CacheOk(p)' /\ LockedOk(p)' /\ OpenOk(p)' /\ ReadOk(p)'
  BY <1>1, <1>2, <1>3 DEF PagerOk, PhaseOk, CacheOk, LockedOk, AsCommitted, OpenOk, ReadOk, EmptyFile, NoPage,
     Cached, Syncing
<1>9. PlaybackOk(p)' /\ BeginOk(p)' /\ UndoOk(p)'
  BY <1>1, <1>2, <1>3 DEF PlaybackOk, BeginOk, UndoOk, Undoing
<1>10. PagerOk(p)'
  BY <1>6, <1>7, <1>8, <1>9 DEF PagerOk
<1> QED BY <1>1, <1>2, <1>4, <1>5, <1>10, ExclusiveStep

LEMMA WriteNRecKeeps ==
    ASSUME Inv, NEW p \in Pagers, WriteNRec(p)
    PROVE  Inv'
<1> USE DEF dbFile, ghosts
<1>1. /\ at[p] = "writeNRec" /\ at' = [at EXCEPT ![p] = "syncHeader"]
      /\ jrnl' = [jrnl EXCEPT !.hdr = TRUE, !.nRec = Len(jrnl.recs)]
      /\ UNCHANGED <<level, eState, committing, cache, dirty, vers, countDone, tx, pos, dbFile, jdisk, named,
                     serial, ghosts>>
  BY DEF WriteNRec, Goto, Set, IsAt, caches
<1>2. /\ PagerOk(p) /\ WriterOk(p) /\ EditOk(p) /\ IsWriter(p) /\ level[p] = 4
      /\ \/ eState[p] = "WRITER_CACHEMOD" /\ AsCommitted
         \/ eState[p] = "WRITER_DBMOD"
  <2>1. PagerOk(p) /\ level[p] = 4 /\ eState[p] \in {"WRITER_CACHEMOD", "WRITER_DBMOD"} /\ IsWriter(p)
    BY <1>1 DEF Inv, PagersInv, PagerOk, PhaseOk, IsWriter, Undoing
  <2> QED BY <2>1 DEF PagerOk, LockedOk
<1>3. at'[p] = "syncHeader"
  BY <1>1 DEF Inv, TypeOK
<1>4. /\ Len(jrnl.recs) \in Nat /\ jrnl.nRec \in Nat /\ jrnl.nRec <= Len(jrnl.recs)
      /\ jrnl'.exists = jrnl.exists /\ jrnl'.tx = jrnl.tx /\ jrnl'.mx = jrnl.mx /\ jrnl'.recs = jrnl.recs
      /\ jrnl'.hdr /\ jrnl'.nRec = Len(jrnl.recs) /\ jrnl' \in Journals
  BY <1>1, CountedRecords DEF Inv, TypeOK, Journals
<1>5. /\ jrnl.exists /\ jrnl.mx = Size(committed) /\ named /\ Len(jdisk.recs) = Len(jrnl.recs)
      /\ \A i \in 1..Len(jrnl.recs) :
            committed[jrnl.recs[i].pg] # NoPage /\ jrnl.recs[i].val = committed[jrnl.recs[i].pg]
  BY <1>1, <1>2 DEF WriterOk
<1>6. TypeOK' /\ Locks!Excludes' /\ \A q \in Pagers \ {p} : Same(q)
  <2>1. TypeOK'
    BY <1>1, <1>4 DEF Inv, TypeOK, Calls
  <2>2. \A q \in Pagers \ {p} : Same(q)
    BY <1>1 DEF Inv, TypeOK, Same
  <2>3. Locks!Excludes'
    BY <1>1, LockSteps DEF Inv, TypeOK
  <2> QED BY <2>1, <2>2, <2>3
<1>7. FilesInv'
  BY <1>1, FilesKeep DEF Inv
<1>8. JournalInv'
  <2>1. WellFormed(jrnl)' /\ WellFormed(jdisk)'
    BY <1>1, <1>4, <1>5 DEF Inv, JournalInv, WellFormed
  <2>2. Protects(jrnl, committed)'
    BY <1>1, <1>4, <1>5 DEF Protects, Size
  <2>3. Earlier(jdisk, jrnl)'
    <3>1. Earlier(jdisk, jrnl) /\ jdisk.nRec \in Nat
      BY <1>5 DEF Inv, TypeOK, Journals, JournalInv
    <3>2. jdisk.nRec <= Len(jrnl.recs)
      BY <1>4, <3>1 DEF Earlier
    <3> QED BY <1>1, <1>4, <1>5, <3>1, <3>2 DEF Earlier
  <2> QED BY <1>1, <1>5, <2>1, <2>2, <2>3 DEF JournalInv
<1>9. EditOk(p)'
  <2>1. Image(p)' = Image(p) /\ Solid(Image(p))' = Solid(Image(p)) /\ VersOld(p)' = VersOld(p)
    BY <1>1 DEF Image, Cached, Solid, VersOld
  <2> QED BY <1>1, <1>2, <1>3, <1>4, <2>1 DEF EditOk, InJournal, Cached, Undoing, Syncing
<1>10. WriterOk(p)'
  BY <1>1, <1>2, <1>3, <1>4, <1>5 DEF WriterOk, IsWriter, Size, GoodPage
<1>11. PhaseOk(p)' /\ CacheOk(p)' /\ LockedOk(p)' /\ OpenOk(p)' /\ ReadOk(p)'
  BY <1>1, <1>2, <1>3 DEF PagerOk, PhaseOk, CacheOk, LockedOk, AsCommitted, OpenOk, ReadOk, EmptyFile, NoPage,
     Cached, Syncing
<1>12. PlaybackOk(p)' /\ BeginOk(p)' /\ UndoOk(p)'
  BY <1>1, <1>2, <1>3 DEF PlaybackOk, BeginOk, UndoOk, Undoing
<1>13. PagerOk(p)'
  BY <1>9, <1>10, <1>11, <1>12 DEF PagerOk
<1> QED BY <1>1, <1>2, <1>6, <1>7, <1>8, <1>13, ExclusiveStep

LEMMA SyncHeaderKeeps ==
    ASSUME Inv, NEW p \in Pagers, SyncHeader(p)
    PROVE  Inv'
<1> USE DEF dbFile, ghosts
<1>1. /\ at[p] = "syncHeader" /\ at' = [at EXCEPT ![p] = IF committing[p] THEN "writePages" ELSE "spill"]
      /\ SyncJournalFile /\ eState' = [eState EXCEPT ![p] = "WRITER_DBMOD"]
      /\ UNCHANGED <<level, committing, cache, dirty, vers, countDone, tx, pos, dbFile, serial, ghosts>>
  BY DEF SyncHeader, Goto, Become, Set, IsAt, caches
<1>2. /\ PagerOk(p) /\ WriterOk(p) /\ EditOk(p) /\ IsWriter(p) /\ level[p] = 4
      /\ eState[p] \in {"WRITER_CACHEMOD", "WRITER_DBMOD"}
      /\ eState[p] = "WRITER_CACHEMOD" => AsCommitted
  <2>1. PagerOk(p) /\ level[p] = 4 /\ eState[p] \in {"WRITER_CACHEMOD", "WRITER_DBMOD"} /\ IsWriter(p)
    BY <1>1 DEF Inv, PagersInv, PagerOk, PhaseOk, IsWriter, Undoing
  <2> QED BY <2>1 DEF PagerOk, LockedOk
<1>3. eState'[p] = "WRITER_DBMOD" /\ at'[p] = IF committing[p] THEN "writePages" ELSE "spill"
  BY <1>1 DEF Inv, TypeOK
<1>4. jrnl.nRec = Len(jrnl.recs) /\ (eState[p] = "WRITER_DBMOD" => \A pg \in Pages : GoodPage(db[pg]))
  BY <1>1, <1>2 DEF WriterOk
<1>5. \A pg \in Pages : GoodPage(db[pg])
  BY <1>2, <1>4 DEF AsCommitted, Inv, FilesInv, Good
<1>6. jrnl.hdr
  BY <1>1, <1>2 DEF WriterOk
<1>7. TypeOK' /\ Locks!Excludes' /\ \A q \in Pagers \ {p} : Same(q)
  <2>1. TypeOK'
    BY <1>1 DEF Inv, TypeOK, Calls, EStates, SyncJournalFile
  <2>2. \A q \in Pagers \ {p} : Same(q)
    BY <1>1 DEF Inv, TypeOK, Same
  <2>3. Locks!Excludes'
    BY <1>1, LockSteps DEF Inv, TypeOK
  <2> QED BY <2>1, <2>2, <2>3
<1>8. FilesInv' /\ JournalInv'
  BY <1>1, FilesToward, SyncKeeps DEF Inv
<1>9. EditOk(p)'
  <2>1. Image(p)' = Image(p) /\ Solid(Image(p))' = Solid(Image(p)) /\ VersOld(p)' = VersOld(p)
    BY <1>1 DEF Image, Cached, Solid, VersOld
  <2> QED BY <1>1, <1>2, <1>3, <2>1 DEF EditOk, InJournal, Cached, Undoing, Syncing, SyncJournalFile
<1>10. WriterOk(p)'
  BY <1>1, <1>2, <1>3, <1>4, <1>5, <1>6 DEF WriterOk, IsWriter, Size, GoodPage, SyncJournalFile
<1>11. PhaseOk(p)' /\ CacheOk(p)' /\ LockedOk(p)' /\ OpenOk(p)' /\ ReadOk(p)'
  <2>1. PhaseOk(p)'
    BY <1>1, <1>2, <1>3 DEF PhaseOk
  <2>2. CacheOk(p)'
    BY <1>1, <1>2, <1>3 DEF PagerOk, CacheOk, Cached, Syncing
  <2>3. LockedOk(p)' /\ OpenOk(p)' /\ ReadOk(p)'
    BY <1>3 DEF LockedOk, OpenOk, ReadOk
  <2> QED BY <2>1, <2>2, <2>3
<1>12. PlaybackOk(p)' /\ BeginOk(p)' /\ UndoOk(p)'
  BY <1>1, <1>2, <1>3 DEF PlaybackOk, BeginOk, UndoOk, Undoing
<1>13. PagerOk(p)'
  BY <1>9, <1>10, <1>11, <1>12 DEF PagerOk
<1> QED BY <1>1, <1>2, <1>7, <1>8, <1>13, ExclusiveStep

(* A dirty page goes to the database once a record of it is counted.         *)
LEMMA RestoredWhenCounted ==
    ASSUME Inv, NEW p \in Pagers, IsWriter(p), at[p] \notin Undoing, eState[p] = "WRITER_DBMOD",
           at[p] # "syncHeader", NEW pg \in dirty[p], jrnl.nRec = Len(jrnl.recs) \/ ~NeedSync(p, pg)
    PROVE  named /\ Restores(jdisk, pg, committed)
<1>1. WriterOk(p) /\ EditOk(p) /\ pg \in Pages
  BY DEF Inv, TypeOK, PagersInv, PagerOk
<1>2. named /\ jdisk.hdr /\ jdisk.nRec = jrnl.nRec /\ jrnl.exists
  BY <1>1 DEF WriterOk
<1>3. Earlier(jdisk, jrnl) /\ jrnl.nRec \in Nat /\ Len(jdisk.recs) \in Nat /\ DOMAIN jrnl.recs = 1..Len(jrnl.recs)
  BY <1>2, LenProperties DEF Inv, TypeOK, Journals, JournalInv
<1>4. IsHeaded(jdisk)
  BY <1>2, <1>3 DEF IsHeaded, Earlier
<1>5. ASSUME committed[pg] # NoPage PROVE Counted(jdisk, pg)
  <2>1. PICK i \in 1..Len(jrnl.recs) : jrnl.recs[i].pg = pg
    BY <1>1, <1>3, <1>5 DEF EditOk, InJournal
  <2>2. i \in 1..jrnl.nRec
    BY <1>3, <2>1 DEF NeedSync
  <2>3. i \in 1..jdisk.nRec /\ i \in 1..Len(jdisk.recs)
    BY <1>2, <1>3, <2>2 DEF Earlier
  <2>4. jdisk.recs[i].pg = pg
    BY <1>3, <2>1, <2>3 DEF Earlier
  <2> QED BY <2>3, <2>4 DEF Counted
<1> QED BY <1>2, <1>4, <1>5 DEF Restores

LEMMA DirtyPageToward ==
    ASSUME Inv, NEW pg \in Pages, named, Restores(jdisk, pg, committed),
           NEW v \in Content, v.tx >= 1, db' = [db EXCEPT ![pg] = v],
           UNCHANGED <<disk, journal, ghosts>>
    PROVE  FilesInv' /\ JournalInv'
<1> USE DEF ghosts
<1>1. JournalInv'
  BY JournalKeep DEF Inv
<1>2. \A r \in Pages : db'[r] = IF r = pg THEN v ELSE db[r]
  BY DEF Inv, TypeOK
<1>3. v # NoPage
  BY DEF NoPage
<1>4. Covers(db, committed)' /\ Covers(disk, committed)'
  BY <1>2, <1>3 DEF Inv, FilesInv, Covers, NoPage
<1>5. SafeOn(db)'
  BY <1>2 DEF Inv, FilesInv, SafeOn, Restores, Counted, IsHeaded, journal, NoPage
<1>6. (committed # EmptyFile)' => SafeOn(disk)'
  BY DEF Inv, FilesInv, SafeOn, Restores, Counted, IsHeaded, journal, NoPage, EmptyFile
<1>7. Good(committed)' /\ Good(before)'
  BY DEF Inv, FilesInv, Good, GoodPage, Solid, NoPage
<1> QED BY <1>1, <1>4, <1>5, <1>6, <1>7 DEF FilesInv

LEMMA SpillPageKeeps ==
    ASSUME Inv, NEW p \in Pagers, NEW pg \in Pages, SpillPage(p, pg)
    PROVE  Inv'
<1> USE DEF ghosts
<1>1. /\ IsAt(p, "spill") \/ (Idle(p, "WRITER_DBMOD") /\ ~NeedSync(p, pg))
      /\ pg \in dirty[p] /\ pg # 1
      /\ db' = [db EXCEPT ![pg] = cache[p][pg]] /\ cache' = [cache EXCEPT ![p][pg] = NotCached]
      /\ dirty' = [dirty EXCEPT ![p] = @ \ {pg}] /\ at' = [at EXCEPT ![p] = "idle"]
      /\ UNCHANGED <<level, eState, committing, vers, countDone, tx, pos, disk, journal, serial, ghosts>>
  BY DEF SpillPage, Goto, Set
<1>2. PagerOk(p) /\ eState[p] = "WRITER_DBMOD" /\ level[p] = 4 /\ at[p] \in {"idle", "spill"} /\ IsWriter(p)
  BY <1>1 DEF IsAt, Idle, Inv, PagersInv, PagerOk, PhaseOk, IsWriter, Syncing, Undoing
<1>3. WriterOk(p) /\ EditOk(p) /\ at[p] \notin Undoing /\ at[p] # "syncHeader" /\ at[p] # "writePages"
  BY <1>2 DEF PagerOk, Undoing
<1>4. jrnl.nRec = Len(jrnl.recs) \/ ~NeedSync(p, pg)
  BY <1>1, <1>2, <1>3 DEF IsAt, Idle, WriterOk
<1>5. Cached(p, pg) /\ cache[p][pg] \in Content /\ cache[p][pg].tx >= 1
  BY <1>1, <1>2 DEF Cached, Inv, TypeOK, PagerOk, CacheOk
<1>6. /\ at'[p] = "idle" /\ dirty'[p] = dirty[p] \ {pg}
      /\ \A r \in Pages : cache'[p][r] = IF r = pg THEN NotCached ELSE cache[p][r]
      /\ \A r \in Pages : db'[r] = IF r = pg THEN cache[p][pg] ELSE db[r]
  BY <1>1 DEF Inv, TypeOK
<1>7. TypeOK' /\ Locks!Excludes' /\ \A q \in Pagers \ {p} : Same(q)
  <2>1. cache' \in [Pagers -> [Pages -> Content]] /\ \A q \in Pagers \ {p} : cache'[q] = cache[q]
    BY <1>1 DEF Inv, TypeOK, NotCached, Content
  <2>2. dirty' \in [Pagers -> SUBSET Pages] /\ \A q \in Pagers \ {p} : dirty'[q] = dirty[q]
    BY <1>1 DEF Inv, TypeOK
  <2>3. \A q \in Pagers : dirty'[q] \subseteq {r \in Pages : cache'[q][r] # NotCached}
    <3>1. \A r \in dirty'[p] : r \in Pages /\ cache'[p][r] # NotCached
      BY <1>6 DEF Inv, TypeOK
    <3>2. \A q \in Pagers \ {p} : dirty[q] \subseteq {r \in Pages : cache[q][r] # NotCached}
      BY DEF Inv, TypeOK
    <3> QED BY <2>1, <2>2, <3>1, <3>2
  <2>4. db' \in [Pages -> Content] /\ at' \in [Pagers -> Calls]
    BY <1>1, <1>5 DEF Inv, TypeOK, Calls
  <2>5. TypeOK'
    BY <1>1, <2>1, <2>2, <2>3, <2>4 DEF Inv, TypeOK, journal
  <2>6. \A q \in Pagers \ {p} : Same(q)
    BY <1>1, <2>1, <2>2 DEF Inv, TypeOK, Same
  <2>7. Locks!Excludes'
    BY <1>1, LockSteps DEF Inv, TypeOK
  <2> QED BY <2>5, <2>6, <2>7
<1>8. FilesInv' /\ JournalInv'
  <2>1. named /\ Restores(jdisk, pg, committed)
    BY <1>1, <1>2, <1>3, <1>4, RestoredWhenCounted
  <2> QED BY <1>1, <1>5, <2>1, DirtyPageToward
<1>9. EditOk(p)'
  <2>1. \A r \in Pages : Image(p)'[r] = Image(p)[r]
    BY <1>5, <1>6 DEF Image, Cached
  <2>2. Solid(Image(p))'
    BY <1>2, <1>3, <2>1 DEF EditOk, Solid, NoPage
  <2>3. VersOld(p)'
    BY <1>1, <1>2, <1>3 DEF EditOk, VersOld, NoPage
  <2>4. /\ \A r \in Pages : r \in dirty'[p] \/ cache'[p][r] \in {NotCached, db'[r]}
        /\ \A r \in dirty'[p] : committed'[r] # NoPage => InJournal(r)'
    BY <1>1, <1>2, <1>3, <1>6 DEF EditOk, InJournal, journal
  <2>5. (db[1] # NoPage => Cached(p, 1))'
    BY <1>1, <1>2, <1>3, <1>6, BoundsAssumption DEF EditOk, Cached, NoPage, Pages
  <2> QED BY <1>1, <1>2, <1>6, <2>2, <2>3, <2>4, <2>5 DEF EditOk, Syncing, NotCached, NoPage
<1>10. WriterOk(p)'
  <2>1. \A r \in Pages : GoodPage(db[r])'
    BY <1>2, <1>3, <1>5, <1>6 DEF WriterOk, GoodPage, NoPage
  <2> QED BY <1>1, <1>2, <1>3, <1>6, <2>1 DEF WriterOk, IsWriter, Size, journal
<1>11. PhaseOk(p)' /\ CacheOk(p)' /\ LockedOk(p)' /\ OpenOk(p)' /\ ReadOk(p)'
  <2>1. PhaseOk(p)'
    BY <1>1, <1>2, <1>6 DEF PhaseOk
  <2>2. CacheOk(p)'
    BY <1>1, <1>2, <1>3, <1>6 DEF PagerOk, CacheOk, Cached, Syncing
  <2>3. LockedOk(p)' /\ OpenOk(p)' /\ ReadOk(p)'
    BY <1>1, <1>2, <1>6 DEF LockedOk, OpenOk, ReadOk
  <2> QED BY <2>1, <2>2, <2>3
<1>12. PlaybackOk(p)' /\ BeginOk(p)' /\ UndoOk(p)'
  BY <1>1, <1>2, <1>6 DEF PlaybackOk, BeginOk, UndoOk, Undoing
<1>13. PagerOk(p)'
  BY <1>9, <1>10, <1>11, <1>12 DEF PagerOk
<1> QED BY <1>1, <1>2, <1>7, <1>8, <1>13, ExclusiveStep

LEMMA WriteDirtyPageKeeps ==
    ASSUME Inv, NEW p \in Pagers, NEW pg \in Pages, WriteDirtyPage(p, pg)
    PROVE  Inv'
<1> USE DEF ghosts
<1> DEFINE v == IF pg = 1 THEN [cache[p][1] EXCEPT !.cnt = vers[p] + 1] ELSE cache[p][pg]
<1>1. /\ at[p] = "writePages" /\ pg \in dirty[p] /\ (\A q \in dirty[p] : pg <= q)
      /\ db' = [db EXCEPT ![pg] = v] /\ cache' = [cache EXCEPT ![p][pg] = v]
      /\ vers' = IF pg = 1 THEN [vers EXCEPT ![p] = vers[p] + 1] ELSE vers
      /\ dirty' = [dirty EXCEPT ![p] = @ \ {pg}]
      /\ UNCHANGED <<level, eState, at, committing, countDone, tx, pos, disk, journal, serial, ghosts>>
  BY DEF WriteDirtyPage, IsAt, Set
<1>2. PagerOk(p) /\ eState[p] = "WRITER_DBMOD" /\ level[p] = 4 /\ IsWriter(p)
  BY <1>1 DEF Inv, PagersInv, PagerOk, PhaseOk, IsWriter, Syncing, Undoing
<1>3. WriterOk(p) /\ EditOk(p) /\ at[p] \notin Undoing
  BY <1>1, <1>2 DEF PagerOk, Undoing
<1>4. jrnl.nRec = Len(jrnl.recs)
  BY <1>1, <1>2, <1>3 DEF WriterOk
<1>5. Cached(p, pg) /\ cache[p][pg] \in Content /\ cache[p][pg].tx >= 1 /\ vers[p] \in Nat
  BY <1>1, <1>2 DEF Cached, Inv, TypeOK, PagerOk, CacheOk
<1>6. /\ v \in Content /\ v.tx >= 1 /\ (pg = 1 => v.cnt = vers[p] + 1)
      /\ v # NoPage /\ v # NotCached
  <2>1. v \in Content /\ v.tx >= 1 /\ (pg = 1 => v.cnt = vers[p] + 1)
    BY <1>5 DEF Content
  <2> QED BY <2>1 DEF NoPage, NotCached
<1> HIDE DEF v
<1>7. /\ dirty'[p] = dirty[p] \ {pg}
      /\ vers'[p] = IF pg = 1 THEN vers[p] + 1 ELSE vers[p]
      /\ \A r \in Pages : cache'[p][r] = IF r = pg THEN v ELSE cache[p][r]
      /\ \A r \in Pages : db'[r] = IF r = pg THEN v ELSE db[r]
  BY <1>1 DEF Inv, TypeOK
<1>8. TypeOK' /\ Locks!Excludes' /\ \A q \in Pagers \ {p} : Same(q)
  <2>1. cache' \in [Pagers -> [Pages -> Content]] /\ \A q \in Pagers \ {p} : cache'[q] = cache[q]
    BY <1>1, <1>6 DEF Inv, TypeOK
  <2>2. dirty' \in [Pagers -> SUBSET Pages] /\ \A q \in Pagers \ {p} : dirty'[q] = dirty[q]
    BY <1>1 DEF Inv, TypeOK
  <2>3. \A q \in Pagers : dirty'[q] \subseteq {r \in Pages : cache'[q][r] # NotCached}
    <3>1. \A r \in dirty'[p] : r \in Pages /\ cache'[p][r] # NotCached
      BY <1>7 DEF Inv, TypeOK
    <3>2. \A q \in Pagers \ {p} : dirty[q] \subseteq {r \in Pages : cache[q][r] # NotCached}
      BY DEF Inv, TypeOK
    <3> QED BY <2>1, <2>2, <3>1, <3>2
  <2>4. vers' \in [Pagers -> Nat] /\ \A q \in Pagers \ {p} : vers'[q] = vers[q]
    BY <1>1, <1>5 DEF Inv, TypeOK
  <2>5. db' \in [Pages -> Content]
    BY <1>1, <1>6 DEF Inv, TypeOK
  <2>6. TypeOK'
    BY <1>1, <2>1, <2>2, <2>3, <2>4, <2>5 DEF Inv, TypeOK, journal
  <2>7. \A q \in Pagers \ {p} : Same(q)
    BY <1>1, <2>1, <2>2, <2>4 DEF Same
  <2>8. Locks!Excludes'
    BY <1>1, LockSteps DEF Inv, TypeOK
  <2> QED BY <2>6, <2>7, <2>8
<1>9. FilesInv' /\ JournalInv'
  <2>1. named /\ Restores(jdisk, pg, committed)
    BY <1>1, <1>2, <1>3, <1>4, RestoredWhenCounted
  <2> QED BY <1>1, <1>6, <2>1, DirtyPageToward
<1>10. EditOk(p)'
  <2>1. \A r \in Pages : Image(p)'[r] = IF r = pg THEN v ELSE Image(p)[r]
    BY <1>6, <1>7 DEF Image, Cached
  <2>2. Image(p)[pg] # NoPage
    BY <1>5 DEF Image, NoPage
  <2>3. Solid(Image(p))'
    BY <1>2, <1>3, <1>6, <2>1, <2>2 DEF EditOk, Solid, NoPage
  <2>4. /\ \A r \in Pages : r \in dirty'[p] \/ cache'[p][r] \in {NotCached, db'[r]}
        /\ \A r \in dirty'[p] : committed'[r] # NoPage => InJournal(r)'
    BY <1>1, <1>2, <1>3, <1>7 DEF EditOk, InJournal, journal
  <2>5. (db[1] # NoPage => Cached(p, 1))'
    BY <1>2, <1>3, <1>6, <1>7, BoundsAssumption DEF EditOk, Cached, NoPage, Pages
  <2>6. IF 1 \notin dirty'[p] THEN VersNew(p)' ELSE VersOld(p)'
    <3>1. 1 \in Pages /\ committed[1].cnt \in Nat
      BY BoundsAssumption DEF Pages, Inv, TypeOK, Content
    <3>2. CASE pg = 1
      <4>1. VersOld(p)
        BY <1>1, <1>2, <1>3, <3>2 DEF EditOk
      <4> QED BY <1>1, <1>5, <1>6, <1>7, <3>1, <3>2, <4>1 DEF VersOld, VersNew
    <3>3. CASE pg # 1
      <4>1. 1 \notin dirty[p]
        BY <1>1, <3>3 DEF Pages
      <4>2. VersNew(p)
        BY <1>1, <1>2, <1>3, <4>1 DEF EditOk
      <4> QED BY <1>1, <1>7, <3>1, <3>3, <4>1, <4>2 DEF VersNew
    <3> QED BY <3>2, <3>3
  <2> QED BY <1>1, <1>2, <2>3, <2>4, <2>5, <2>6 DEF EditOk, Syncing
<1>11. WriterOk(p)'
  <2>1. \A r \in Pages : GoodPage(db[r])'
    BY <1>2, <1>3, <1>6, <1>7 DEF WriterOk, GoodPage, NoPage
  <2> QED BY <1>1, <1>2, <1>3, <2>1 DEF WriterOk, IsWriter, Size, journal
<1>12. PhaseOk(p)' /\ CacheOk(p)' /\ LockedOk(p)' /\ OpenOk(p)' /\ ReadOk(p)'
  <2>1. PhaseOk(p)'
    BY <1>1, <1>2 DEF PhaseOk
  <2>2. CacheOk(p)'
    BY <1>1, <1>2, <1>6, <1>7 DEF PagerOk, CacheOk, Cached
  <2>3. LockedOk(p)' /\ OpenOk(p)' /\ ReadOk(p)'
    BY <1>1, <1>2 DEF LockedOk, OpenOk, ReadOk
  <2> QED BY <2>1, <2>2, <2>3
<1>13. PlaybackOk(p)' /\ BeginOk(p)' /\ UndoOk(p)'
  BY <1>1, <1>2 DEF PlaybackOk, BeginOk, UndoOk, Undoing
<1>14. PagerOk(p)'
  BY <1>10, <1>11, <1>12, <1>13 DEF PagerOk
<1> QED BY <1>1, <1>2, <1>8, <1>9, <1>14, ExclusiveStep

LEMMA SyncDatabaseKeeps ==
    ASSUME Inv, NEW p \in Pagers, SyncDatabase(p)
    PROVE  Inv'
<1> USE DEF ghosts
<1>1. /\ at[p] = "writePages" /\ dirty[p] = {} /\ disk' = db
      /\ at' = [at EXCEPT ![p] = "idle"] /\ eState' = [eState EXCEPT ![p] = "WRITER_FINISHED"]
      /\ UNCHANGED <<level, committing, cache, dirty, vers, countDone, tx, pos, db, journal, serial, ghosts>>
  BY DEF SyncDatabase, Goto, Become, Set, IsAt, caches
<1>2. PagerOk(p) /\ eState[p] = "WRITER_DBMOD" /\ level[p] = 4 /\ IsWriter(p) /\ at[p] \notin Undoing
  BY <1>1 DEF Inv, PagersInv, PagerOk, PhaseOk, IsWriter, Syncing, Undoing
<1>3. /\ WriterOk(p) /\ EditOk(p)
      /\ eState'[p] = "WRITER_FINISHED" /\ at'[p] = "idle"
  BY <1>1, <1>2 DEF PagerOk, Inv, TypeOK
<1>4. TypeOK' /\ Locks!Excludes' /\ \A q \in Pagers \ {p} : Same(q)
  <2>1. TypeOK'
    BY <1>1 DEF Inv, TypeOK, Calls, EStates, journal
  <2>2. \A q \in Pagers \ {p} : Same(q)
    BY <1>1 DEF Inv, TypeOK, Same
  <2>3. Locks!Excludes'
    BY <1>1, LockSteps DEF Inv, TypeOK
  <2> QED BY <2>1, <2>2, <2>3
<1>5. FilesInv' /\ JournalInv'
  <2>1. JournalInv'
    BY <1>1, JournalKeep DEF Inv
  <2>2. SafeOn(db)' /\ SafeOn(disk)'
    BY <1>1 DEF Inv, FilesInv, SafeOn, Restores, Counted, IsHeaded, journal, NoPage
  <2>3. Covers(db, committed)' /\ Covers(disk, committed)' /\ Good(committed)' /\ Good(before)'
    BY <1>1 DEF Inv, FilesInv, Covers, Good, GoodPage, Solid, NoPage
  <2> QED BY <2>1, <2>2, <2>3 DEF FilesInv
<1>6. EditOk(p)'
  <2>1. Image(p)' = Image(p) /\ Solid(Image(p))' = Solid(Image(p)) /\ VersNew(p)' = VersNew(p)
    BY <1>1 DEF Image, Cached, Solid, VersNew
  <2>2. VersNew(p) /\ Solid(Image(p)) /\ (db[1] # NoPage => Cached(p, 1))
        /\ \A pg \in Pages : cache[p][pg] \in {NotCached, db[pg]}
    BY <1>1, <1>2, <1>3 DEF EditOk
  <2> QED BY <1>1, <1>3, <2>1, <2>2 DEF EditOk, Cached, Syncing, NoPage, NotCached
<1>7. WriterOk(p)'
  BY <1>1, <1>2, <1>3 DEF WriterOk, IsWriter, Size, GoodPage, journal
<1>8. PhaseOk(p)' /\ CacheOk(p)' /\ LockedOk(p)' /\ OpenOk(p)' /\ ReadOk(p)'
  BY <1>1, <1>2, <1>3 DEF PagerOk, PhaseOk, CacheOk, LockedOk, OpenOk, ReadOk, Cached
<1>9. PlaybackOk(p)' /\ BeginOk(p)' /\ UndoOk(p)'
  BY <1>3 DEF PlaybackOk, BeginOk, UndoOk, Undoing
<1>10. PagerOk(p)'
  BY <1>6, <1>7, <1>8, <1>9 DEF PagerOk
<1> QED BY <1>1, <1>2, <1>4, <1>5, <1>10, ExclusiveStep

(* The commit: what was written is the database now, and the caches of the   *)
(* others are of an older counter.                                           *)
LEMMA CommitPhaseTwoKeeps ==
    ASSUME Inv, NEW p \in Pagers, CommitPhaseTwo(p)
    PROVE  Inv'
<1>1. /\ at[p] = "idle" /\ eState[p] = "WRITER_FINISHED" /\ UnlinkJournal
      /\ committed' = Image(p) /\ before' = committed /\ at' = [at EXCEPT ![p] = "downgrade"]
      /\ UNCHANGED <<level, eState, committing, cache, dirty, vers, countDone, tx, pos, db, disk, serial>>
  BY DEF CommitPhaseTwo, Idle, Goto, Set, caches, dbFile
<1>2. PagerOk(p) /\ level[p] = 4 /\ IsWriter(p) /\ at[p] \notin Undoing
  BY <1>1 DEF Inv, PagersInv, PagerOk, PhaseOk, IsWriter, Syncing, Undoing
<1>3. /\ WriterOk(p) /\ EditOk(p) /\ dirty[p] = {} /\ at'[p] = "downgrade"
      /\ named /\ disk = db /\ VersNew(p) /\ Solid(Image(p))
      /\ \A pg \in Pages : GoodPage(db[pg]) /\ cache[p][pg] \in {NotCached, db[pg]}
  <2>1. WriterOk(p) /\ EditOk(p) /\ dirty[p] = {} /\ at'[p] = "downgrade"
    BY <1>1, <1>2 DEF PagerOk, CacheOk, Inv, TypeOK
  <2>2. named /\ \A pg \in Pages : GoodPage(db[pg])
    BY <1>1, <1>2, <2>1 DEF WriterOk
  <2>3. disk = db /\ VersNew(p) /\ Solid(Image(p)) /\ \A pg \in Pages : cache[p][pg] \in {NotCached, db[pg]}
    BY <1>1, <1>2, <2>1 DEF EditOk
  <2> QED BY <2>1, <2>2, <2>3
<1>4. Image(p) = db
  BY <1>3 DEF Image, Cached, Inv, TypeOK
<1>5. TypeOK' /\ Locks!Excludes' /\ \A q \in Pagers \ {p} : Same(q)
  <2>1. NoJournal \in Journals
    BY EmptySeq DEF NoJournal, Journals
  <2>2. TypeOK'
    BY <1>1, <1>4, <2>1 DEF Inv, TypeOK, Calls, UnlinkJournal
  <2>3. \A q \in Pagers \ {p} : Same(q)
    BY <1>1 DEF Inv, TypeOK, Same
  <2>4. Locks!Excludes'
    BY <1>1, LockSteps DEF Inv, TypeOK
  <2> QED BY <2>2, <2>3, <2>4
<1>6. FilesInv'
  <2>1. Good(db)
    BY <1>3, <1>4 DEF Good
  <2>2. Good(committed)' /\ Good(before)'
    BY <1>1, <1>4, <2>1 DEF Inv, FilesInv, Good, GoodPage, Solid, NoPage
  <2>3. Covers(db, committed)' /\ Covers(disk, committed)' /\ SafeOn(db)' /\ SafeOn(disk)'
    BY <1>1, <1>3, <1>4 DEF Covers, SafeOn
  <2> QED BY <2>2, <2>3 DEF FilesInv
<1>7. JournalInv'
  <2>1. /\ ~named' /\ ~jrnl'.hdr /\ WellFormed(jrnl)' /\ WellFormed(jdisk)' /\ Protects(jrnl, committed)'
    BY <1>1 DEF UnlinkJournal, NoJournal, WellFormed, Protects, IsHeaded, Inv, JournalInv
  <2>2. LeadsBack(jdisk, before)'
    <3>1. Protects(jdisk, committed)
      BY <1>3, EarlierProtects DEF Inv, JournalInv
    <3>2. Protects(jdisk, before)'
      BY <1>1, <3>1 DEF Protects, IsHeaded, Size, UnlinkJournal, NoPage
    <3>3. Covers(committed, before)'
      BY <1>1, <1>4 DEF Inv, FilesInv, Covers, NoPage
    <3>4. \A pg \in Pages : committed'[pg] # before'[pg] => Restores(jdisk, pg, before)'
      BY <1>1, <1>4 DEF Inv, FilesInv, SafeOn, Restores, Counted, IsHeaded, UnlinkJournal, NoPage
    <3> QED BY <3>2, <3>3, <3>4 DEF LeadsBack
  <2> QED BY <2>1, <2>2 DEF JournalInv
<1>8. /\ vers[p] = db[1].cnt /\ db[1].cnt > committed[1].cnt
      /\ committed[1].cnt \in Nat /\ db[1].cnt \in Nat
  BY <1>3, BoundsAssumption DEF VersNew, Inv, TypeOK, Content, Pages
<1>9. PagerOk(p)'
  <2>1. AsCommitted'
    BY <1>1, <1>3, <1>4 DEF AsCommitted
  <2>2. ReadOk(p)'
    BY <1>1, <1>3, <1>4, <1>8 DEF ReadOk, Matches, HasCache
  <2>3. LockedOk(p)'
    BY <1>1, <1>3, <2>1 DEF LockedOk
  <2>4. PhaseOk(p)' /\ CacheOk(p)'
    BY <1>1, <1>2, <1>3 DEF PagerOk, PhaseOk, CacheOk, Cached
  <2>5. OpenOk(p)' /\ PlaybackOk(p)' /\ BeginOk(p)' /\ WriterOk(p)' /\ EditOk(p)' /\ UndoOk(p)'
    BY <1>1, <1>3 DEF OpenOk, PlaybackOk, BeginOk, WriterOk, EditOk, UndoOk, IsWriter
  <2> QED BY <2>2, <2>3, <2>4, <2>5 DEF PagerOk
<1>10. ASSUME NEW q \in Pagers \ {p} PROVE PagerOk(q)'
  <2>1. PagerOk(q) /\ level[q] = 0 /\ Same(q) /\ vers[q] \in Nat
    BY <1>2, <1>5 DEF Inv, PagersInv, TypeOK, Locks!Excludes, Locks!EXCLUSIVE_LOCK, Locks!NO_LOCK
  <2>2. eState[q] = "OPEN" /\ at[q] = "idle"
    BY <2>1 DEF PagerOk, PhaseOk
  <2>3. OpenOk(q)'
    BY <1>1, <1>4, <1>8, <2>1, <2>2 DEF Same, PagerOk, OpenOk, HasCache, Cached
  <2>4. PhaseOk(q)' /\ CacheOk(q)'
    BY <2>1, <2>2 DEF Same, PagerOk, PhaseOk, CacheOk, Cached
  <2>5. ReadOk(q)' /\ LockedOk(q)' /\ PlaybackOk(q)' /\ BeginOk(q)' /\ WriterOk(q)' /\ EditOk(q)' /\ UndoOk(q)'
    BY <2>1, <2>2 DEF Same, ReadOk, LockedOk, PlaybackOk, BeginOk, WriterOk, EditOk, UndoOk, IsWriter
  <2> QED BY <2>3, <2>4, <2>5 DEF PagerOk
<1> QED BY <1>5, <1>6, <1>7, <1>9, <1>10 DEF Inv, PagersInv

-----------------------------------------------------------------------------
(* The faults. *)

LEMMA ForgottenIsOk ==
    ASSUME NEW p \in Pagers,
           level'[p] = 0, eState'[p] = "OPEN", at'[p] = "idle", cache'[p] = EmptyCache, dirty'[p] = {},
           countDone'[p] = FALSE
    PROVE  PagerOk(p)'
<1>1. \A pg \in Pages : ~Cached(p, pg)'
  BY DEF Cached, EmptyCache, NotCached
<1>2. PhaseOk(p)' /\ CacheOk(p)' /\ OpenOk(p)'
  BY <1>1 DEF PhaseOk, CacheOk, OpenOk, HasCache
<1>3. ReadOk(p)' /\ LockedOk(p)' /\ PlaybackOk(p)' /\ BeginOk(p)' /\ WriterOk(p)' /\ EditOk(p)' /\ UndoOk(p)'
  BY DEF ReadOk, LockedOk, PlaybackOk, BeginOk, WriterOk, EditOk, UndoOk, IsWriter
<1> QED BY <1>2, <1>3 DEF PagerOk

LEMMA AbandonKeeps ==
    ASSUME Inv, NEW p \in Pagers, Abandon(p)
    PROVE  Inv'
<1> USE DEF Abandon, Forget, Set, dbFile, journal, ghosts
<1>1. level' = [level EXCEPT ![p] = 0] /\ Locks!Excludes'
  BY LockSteps DEF Inv, TypeOK
<1>2. EmptyCache \in [Pages -> Content]
  BY DEF EmptyCache, NotCached, Content
<1>3. TypeOK'
  <2>1. cache' \in [Pagers -> [Pages -> Content]] /\ \A q \in Pagers \ {p} : cache'[q] = cache[q]
    BY <1>2 DEF Inv, TypeOK
  <2>2. dirty' \in [Pagers -> SUBSET Pages] /\ dirty'[p] = {} /\ \A q \in Pagers \ {p} : dirty'[q] = dirty[q]
    BY DEF Inv, TypeOK
  <2>3. \A q \in Pagers : dirty'[q] \subseteq {pg \in Pages : cache'[q][pg] # NotCached}
    BY <2>1, <2>2 DEF Inv, TypeOK
  <2> QED BY <1>1, <2>1, <2>2, <2>3 DEF Inv, TypeOK, Calls, EStates
<1>4. \A q \in Pagers \ {p} : Same(q)
  BY <1>1 DEF Inv, TypeOK, Same
<1>5. PagerOk(p)'
  BY <1>1, ForgottenIsOk DEF Inv, TypeOK
<1> QED BY <1>1, <1>3, <1>4, <1>5, LocalStep

(* A record that is not synced, and the header before it, may be lost: what  *)
(* the journal on the disk restores is restored by what is left.             *)
LEMMA TornJournal ==
    ASSUME TypeOK, JournalInv, NEW j \in TornJournals, named, jrnl.exists, Protects(jrnl, committed)
    PROVE  /\ j \in Journals /\ WellFormed(j)
           /\ Protects(j, committed)
           /\ \A pg \in Pages : Restores(jdisk, pg, committed) => Restores(j, pg, committed)
<1>1. PICK r \in TornRecords(Len(jdisk.recs)), h \in {jdisk, jrnl} :
          j = [jrnl EXCEPT !.recs = r, !.hdr = h.hdr, !.nRec = h.nRec]
  BY DEF TornJournals, TornWith
<1>2. /\ jrnl.recs \in Seq(Record) /\ Len(jrnl.recs) \in Nat /\ DOMAIN jrnl.recs = 1..Len(jrnl.recs)
      /\ jdisk.recs \in Seq(Record) /\ Len(jdisk.recs) \in Nat
      /\ h.nRec \in Nat /\ h.hdr \in BOOLEAN /\ jdisk.nRec \in Nat /\ jrnl.nRec \in Nat
      /\ jrnl \in Journals /\ jdisk \in Journals /\ jrnl.mx \in Nat /\ jrnl.tx \in Nat
  BY LenProperties DEF TypeOK, Journals
<1>3. Earlier(jdisk, jrnl)
  BY DEF JournalInv
<1>4. \A i \in 1..Len(jrnl.recs) : jrnl.recs[i] \in Record
  BY <1>2, ElementOfSeq
<1>5. /\ r \in [1..Len(jrnl.recs) -> Record]
      /\ \A i \in 1..Len(jrnl.recs) : i <= Len(jdisk.recs) => r[i] = jrnl.recs[i]
  <2>1. [pg |-> 1, val |-> Garbage] \in Record
    BY BoundsAssumption DEF Record, Pages, Garbage, Content
  <2>2. r \in [1..Len(jrnl.recs) -> {jrnl.recs[i] : i \in 1..Len(jrnl.recs)} \cup {[pg |-> 1, val |-> Garbage]}]
    BY <1>2 DEF TornRecords
  <2>3. r \in [1..Len(jrnl.recs) -> Record]
    BY <1>4, <2>1, <2>2
  <2>4. \A i \in 1..Len(jrnl.recs) : i <= Len(jdisk.recs) => r[i] = jrnl.recs[i]
    BY <1>2 DEF TornRecords
  <2> QED BY <2>3, <2>4
<1>6. r \in Seq(Record) /\ Len(r) = Len(jrnl.recs)
  <2>1. r \in Seq(Record)
    BY <1>2, <1>5, SeqDef
  <2>2. Len(r) \in Nat /\ 1..Len(r) = 1..Len(jrnl.recs)
    BY <1>5, <2>1, LenProperties
  <2> QED BY <1>2, <2>1, <2>2
<1>7. /\ j.exists = jrnl.exists /\ j.tx = jrnl.tx /\ j.mx = jrnl.mx
      /\ j.hdr = h.hdr /\ j.nRec = h.nRec /\ j.recs = r
      /\ j \in Journals
  BY <1>1, <1>2, <1>6 DEF Journals
<1>8. /\ h.hdr => jrnl.hdr
      /\ h.nRec <= jrnl.nRec /\ jrnl.nRec <= Len(jdisk.recs) /\ Len(jdisk.recs) <= Len(jrnl.recs)
  BY <1>2, <1>3 DEF Earlier
<1>9. WellFormed(j)
  BY <1>7 DEF JournalInv, WellFormed
<1>10. \A i \in 1..h.nRec : i \in 1..jrnl.nRec /\ j.recs[i] = jrnl.recs[i]
  BY <1>2, <1>5, <1>7, <1>8
<1>11. Protects(j, committed)
  <2>1. SUFFICES ASSUME IsHeaded(j) PROVE Protects(j, committed)
    BY DEF Protects
  <2>2. IsHeaded(jrnl)
    BY <2>1, <1>7, <1>8 DEF IsHeaded
  <2>3. j.mx = Size(committed)
    BY <2>2, <1>7 DEF Protects
  <2>4. j.nRec <= Len(j.recs)
    BY <1>2, <1>6, <1>7, <1>8
  <2>5. \A i \in 1..j.nRec : committed[j.recs[i].pg] # NoPage /\ j.recs[i].val = committed[j.recs[i].pg]
    BY <2>2, <1>7, <1>10 DEF Protects
  <2> QED BY <2>3, <2>4, <2>5 DEF Protects
<1>12. ASSUME NEW pg \in Pages, Restores(jdisk, pg, committed) PROVE Restores(j, pg, committed)
  <2>1. jdisk.exists /\ jdisk.hdr
    BY <1>12 DEF Restores, IsHeaded
  <2>2. IsHeaded(j)
    BY <2>1, <1>3, <1>7 DEF Earlier, IsHeaded
  <2>3. ASSUME NEW i \in 1..jdisk.nRec PROVE i \in 1..h.nRec /\ j.recs[i] = jdisk.recs[i]
    <3>1. i \in 1..Len(jdisk.recs) /\ i \in 1..h.nRec
      BY <1>2, <1>3, <1>8 DEF Earlier
    <3> QED BY <3>1, <1>3, <1>10 DEF Earlier
  <2> QED BY <1>7, <1>12, <2>2, <2>3 DEF Restores, Counted
<1> QED BY <1>7, <1>9, <1>11, <1>12

(* What a loss of power leaves leads back to one committed database. *)
LedBy(f, j, g) ==
    /\ Good(g) /\ Covers(f, g) /\ Protects(j, g)
    /\ \A pg \in Pages : f[pg] # g[pg] => Restores(j, pg, g)

LEMMA TornPage ==
    ASSUME TypeOK, NEW f \in TornPages
    PROVE  /\ f \in [Pages -> Content]
           /\ \A pg \in Pages : f[pg] \in {db[pg], disk[pg]} \/ (db[pg] # disk[pg] /\ f[pg] = Garbage)
<1>1. Garbage \in Content
  BY DEF Garbage, Content
<1>2. f \in [Pages -> {db[pg] : pg \in Pages} \cup {disk[pg] : pg \in Pages} \cup {Garbage}]
  BY DEF TornPages
<1>3. f \in [Pages -> Content]
  BY <1>1, <1>2 DEF TypeOK
<1>4. \A pg \in Pages : f[pg] \in IF db[pg] = disk[pg] THEN {db[pg]} ELSE {db[pg], disk[pg], Garbage}
  BY DEF TornPages
<1> QED BY <1>3, <1>4

LEMMA PowerLossSafe ==
    ASSUME Inv, Size(committed) >= 1, NEW f \in TornPages, NEW j \in TornJournals
    PROVE  /\ f \in [Pages -> Content] /\ j \in Journals /\ WellFormed(j)
           /\ \E g \in {committed, before} : g \in [Pages -> Content] /\ LedBy(f, j, g)
<1>1. TypeOK /\ FilesInv /\ JournalInv
  BY DEF Inv
<1>2. /\ f \in [Pages -> Content]
      /\ \A pg \in Pages : f[pg] \in {db[pg], disk[pg]} \/ (db[pg] # disk[pg] /\ f[pg] = Garbage)
  BY <1>1, TornPage
<1>3. committed \in [Pages -> Content] /\ before \in [Pages -> Content] /\ Good(committed) /\ Good(before)
  BY <1>1 DEF TypeOK, FilesInv
<1>4. committed # EmptyFile
  <2>1. 1 \in Pages /\ 1 <= Size(committed) => \E q \in 1..MaxPage : committed[q] # NoPage
    BY SizeIs, BoundsAssumption DEF Pages
  <2>2. Size(committed) \in Nat
    BY SizeIs, BoundsAssumption
  <2> QED BY <2>1, <2>2, BoundsAssumption DEF EmptyFile, Pages
<1>5. SafeOn(db) /\ SafeOn(disk)
  BY <1>1, <1>4 DEF FilesInv
<1>6. Covers(f, committed)
  <2>1. Garbage # NoPage
    BY DEF Garbage, NoPage
  <2> QED BY <1>1, <1>2, <2>1 DEF FilesInv, Covers
<1>7. \A pg \in Pages : f[pg] # committed[pg] => db[pg] # committed[pg] \/ disk[pg] # committed[pg]
  BY <1>2
<1>8. \A pg \in Pages : f[pg] # committed[pg] => named /\ Restores(jdisk, pg, committed)
  BY <1>5, <1>7 DEF SafeOn
<1>9. CASE named /\ jrnl.exists
  <2>1. Protects(jrnl, committed)
    BY <1>1 DEF JournalInv
  <2>2. /\ j \in Journals /\ WellFormed(j) /\ Protects(j, committed)
        /\ \A pg \in Pages : Restores(jdisk, pg, committed) => Restores(j, pg, committed)
    BY <1>1, <1>9, <2>1, TornJournal
  <2>3. LedBy(f, j, committed)
    BY <1>3, <1>6, <1>8, <2>2 DEF LedBy
  <2> QED BY <1>2, <1>3, <2>2, <2>3
<1>10. CASE named /\ ~jrnl.exists
  <2>1. jdisk = NoJournal
    BY <1>1, <1>10 DEF JournalInv, Earlier, WellFormed
  <2>2. j = NoJournal
    BY <1>10, <2>1 DEF TornJournals
  <2>3. j \in Journals /\ WellFormed(j) /\ ~IsHeaded(j) /\ ~IsHeaded(jdisk)
    BY <1>1, <2>1, <2>2 DEF TypeOK, JournalInv, NoJournal, IsHeaded
  <2>4. LedBy(f, j, committed)
    BY <1>3, <1>6, <1>8, <2>3 DEF LedBy, Protects, Restores
  <2> QED BY <1>2, <1>3, <2>3, <2>4
<1>11. CASE ~named
  <2>1. f = committed
    BY <1>2, <1>3, <1>8, <1>11
  <2>2. ASSUME j \in Journals, WellFormed(j), ~IsHeaded(j)
        PROVE  LedBy(f, j, committed)
    BY <1>3, <1>6, <2>1, <2>2 DEF LedBy, Protects
  <2>3. CASE j = jdisk
    <3>1. j \in Journals /\ WellFormed(j)
      BY <1>1, <2>3 DEF TypeOK, JournalInv
    <3>2. CASE IsHeaded(jdisk)
      <4>1. PICK g \in {committed, before} : LeadsBack(jdisk, g)
        BY <1>1, <1>11, <3>2 DEF JournalInv
      <4>2. LedBy(f, j, g)
        BY <1>3, <2>1, <2>3, <4>1 DEF LeadsBack, LedBy
      <4> QED BY <1>2, <1>3, <3>1, <4>2
    <3>3. CASE ~IsHeaded(jdisk)
      BY <1>2, <1>3, <2>2, <2>3, <3>1, <3>3
    <3> QED BY <3>2, <3>3
  <2>4. CASE j = NoJournal
    <3>1. j \in Journals /\ WellFormed(j) /\ ~IsHeaded(j)
      BY <2>4 DEF NoJournal, Journals, WellFormed, IsHeaded
    <3> QED BY <1>2, <1>3, <2>2, <3>1
  <2>5. CASE jrnl.exists /\ j # jdisk
    <3>1. PICK r \in TornRecords(0), h \in {NoJournal, jrnl} :
              j = [jrnl EXCEPT !.recs = r, !.hdr = h.hdr, !.nRec = h.nRec]
      BY <1>11, <2>5 DEF TornJournals, TornWith
    <3>2. h.hdr = FALSE /\ h.nRec = 0
      BY <1>1, <1>11 DEF JournalInv, WellFormed, TypeOK, Journals, NoJournal
    <3>3. /\ jrnl.recs \in Seq(Record) /\ Len(jrnl.recs) \in Nat /\ DOMAIN jrnl.recs = 1..Len(jrnl.recs)
          /\ jrnl \in Journals /\ jrnl.mx \in Nat /\ jrnl.tx \in Nat
      BY <1>1, LenProperties DEF TypeOK, Journals
    <3>4. r \in Seq(Record)
      <4>1. [pg |-> 1, val |-> Garbage] \in Record
        BY BoundsAssumption DEF Record, Pages, Garbage, Content
      <4>2. \A i \in 1..Len(jrnl.recs) : jrnl.recs[i] \in Record
        BY <3>3, ElementOfSeq
      <4>3. r \in [1..Len(jrnl.recs) -> {jrnl.recs[i] : i \in 1..Len(jrnl.recs)} \cup {[pg |-> 1, val |-> Garbage]}]
        BY <3>3 DEF TornRecords
      <4>4. r \in [1..Len(jrnl.recs) -> Record]
        BY <4>1, <4>2, <4>3
      <4> QED BY <3>3, <4>4, SeqDef
    <3>5. j.exists /\ j.hdr = FALSE /\ j.nRec = 0 /\ j.recs = r /\ j \in Journals
      <4>1. jrnl.exists \in BOOLEAN
        BY <3>3 DEF Journals
      <4>2. j = [jrnl EXCEPT !.recs = r, !.hdr = FALSE, !.nRec = 0]
        BY <3>1, <3>2, Zenon
      <4>3. j \in Journals
        BY <3>3, <3>4, <4>2 DEF Journals
      <4>4. j.exists = jrnl.exists /\ j.hdr = FALSE /\ j.nRec = 0 /\ j.recs = r
        BY <3>3, <4>2 DEF Journals
      <4> QED BY <2>5, <4>1, <4>3, <4>4
    <3>6. WellFormed(j) /\ ~IsHeaded(j)
      BY <3>5 DEF WellFormed, IsHeaded
    <3> QED BY <1>2, <1>3, <2>2, <3>5, <3>6
  <2>6. jrnl.exists \/ j \in {NoJournal, jdisk}
    BY DEF TornJournals
  <2> QED BY <2>3, <2>4, <2>5, <2>6
<1> QED BY <1>9, <1>10, <1>11

LEMMA PowerLossKeeps ==
    ASSUME Inv, PowerFrom = 1, PowerLoss
    PROVE  Inv'
<1>1. PICK f \in TornPages, j \in TornJournals :
          /\ db' = f /\ disk' = f
          /\ jrnl' = j /\ jdisk' = j /\ named' = TRUE
          /\ committed' = Recovered(f, j) /\ before' = Recovered(f, j)
  BY DEF PowerLoss
<1>2. Size(committed) >= 1
  BY DEF PowerLoss
<1>3. f \in [Pages -> Content] /\ j \in Journals /\ WellFormed(j)
  BY <1>2, PowerLossSafe
<1>4. PICK g \in {committed, before} : g \in [Pages -> Content] /\ LedBy(f, j, g)
  BY <1>2, PowerLossSafe
<1>5. committed' = g /\ before' = g
  BY <1>1, <1>3, <1>4, RecoversTo DEF LedBy
<1>6. \A p \in Pagers : /\ level'[p] = 0 /\ eState'[p] = "OPEN" /\ at'[p] = "idle"
                        /\ cache'[p] = EmptyCache /\ dirty'[p] = {} /\ countDone'[p] = FALSE
  BY DEF PowerLoss, NO_LOCK
<1>7. TypeOK'
  <2>1. EmptyCache \in [Pages -> Content]
    BY DEF EmptyCache, NotCached, Content
  <2>2. /\ level' \in [Pagers -> 0..4] /\ eState' \in [Pagers -> EStates] /\ at' \in [Pagers -> Calls]
        /\ countDone' \in [Pagers -> BOOLEAN]
    BY DEF PowerLoss, NO_LOCK, EStates, Calls
  <2>3. /\ cache' \in [Pagers -> [Pages -> Content]] /\ dirty' \in [Pagers -> SUBSET Pages]
        /\ \A p \in Pagers : dirty'[p] \subseteq {pg \in Pages : cache'[p][pg] # NotCached}
    BY <2>1 DEF PowerLoss
  <2>4. /\ committing' \in [Pagers -> BOOLEAN] /\ vers' \in [Pagers -> Nat] /\ tx' \in [Pagers -> 0..MaxTx]
        /\ pos' \in [Pagers -> Nat] /\ serial' \in 0..MaxTx
    BY DEF PowerLoss, Inv, TypeOK
  <2>5. /\ db' \in [Pages -> Content] /\ disk' \in [Pages -> Content]
        /\ jrnl' \in Journals /\ jdisk' \in Journals /\ named' \in BOOLEAN
        /\ committed' \in [Pages -> Content] /\ before' \in [Pages -> Content]
    BY <1>1, <1>3, <1>4, <1>5
  <2> QED BY <2>2, <2>3, <2>4, <2>5 DEF TypeOK
<1>8. Locks!Excludes'
  BY <1>6 DEF Locks!Excludes, Locks!EXCLUSIVE_LOCK, Locks!RESERVED_LOCK
<1>9. FilesInv'
  <2>1. Good(committed)' /\ Good(before)'
    BY <1>4, <1>5 DEF LedBy, Good, GoodPage, Solid
  <2>2. Covers(db, committed)' /\ Covers(disk, committed)'
    BY <1>1, <1>4, <1>5 DEF LedBy, Covers
  <2>3. SafeOn(db)' /\ SafeOn(disk)'
    BY <1>1, <1>4, <1>5 DEF LedBy, SafeOn, Restores, IsHeaded, Counted
  <2> QED BY <2>1, <2>2, <2>3 DEF FilesInv
<1>10. JournalInv'
  <2>1. WellFormed(jrnl)' /\ WellFormed(jdisk)'
    BY <1>1, <1>3 DEF WellFormed
  <2>2. Protects(jrnl, committed)'
    BY <1>1, <1>4, <1>5 DEF LedBy, Protects, IsHeaded, Size
  <2>3. j.nRec <= Len(j.recs) /\ j.nRec \in Nat /\ Len(j.recs) \in Nat
    <3>1. j.nRec \in Nat /\ j.recs \in Seq(Record)
      BY <1>3 DEF Journals
    <3>2. Len(j.recs) \in Nat
      BY <3>1, LenProperties
    <3>3. ~j.hdr \/ ~j.exists => j.nRec = 0
      BY <1>3 DEF WellFormed, NoJournal
    <3>4. j.hdr /\ j.exists => j.nRec <= Len(j.recs)
      BY <1>4 DEF LedBy, Protects, IsHeaded
    <3> QED BY <3>1, <3>2, <3>3, <3>4
  <2>4. Earlier(jdisk, jrnl)'
    BY <1>1, <2>3 DEF Earlier
  <2> QED BY <1>1, <2>1, <2>2, <2>4 DEF JournalInv
<1>11. PagersInv'
  BY <1>6, ForgottenIsOk DEF PagersInv
<1> QED BY <1>7, <1>8, <1>9, <1>10, <1>11 DEF Inv

-----------------------------------------------------------------------------
(* The invariant. *)

LEMMA InitInv == Init => Inv
<1> SUFFICES ASSUME Init PROVE Inv
  OBVIOUS
<1> USE DEF Init
<1>1. EmptyFile \in [Pages -> Content] /\ EmptyCache \in [Pages -> Content]
  BY DEF EmptyFile, NoPage, EmptyCache, NotCached, Content
<1>2. NoJournal \in Journals
  BY DEF NoJournal, Journals
<1>3. TypeOK
  <2>1. /\ level \in [Pagers -> 0..4] /\ eState \in [Pagers -> EStates] /\ at \in [Pagers -> Calls]
        /\ committing \in [Pagers -> BOOLEAN] /\ countDone \in [Pagers -> BOOLEAN]
        /\ vers \in [Pagers -> Nat] /\ tx \in [Pagers -> 0..MaxTx] /\ pos \in [Pagers -> Nat]
        /\ serial \in 0..MaxTx
    BY BoundsAssumption DEF NO_LOCK, EStates, Calls
  <2>2. /\ cache \in [Pagers -> [Pages -> Content]] /\ dirty \in [Pagers -> SUBSET Pages]
        /\ \A p \in Pagers : dirty[p] \subseteq {pg \in Pages : cache[p][pg] # NotCached}
    BY <1>1
  <2> QED BY <1>1, <1>2, <2>1, <2>2 DEF TypeOK
<1>4. Locks!Excludes
  BY DEF Locks!Excludes, Locks!EXCLUSIVE_LOCK, Locks!RESERVED_LOCK, NO_LOCK
<1>5. FilesInv
  BY DEF FilesInv, Good, GoodPage, Solid, Covers, SafeOn, EmptyFile
<1>6. JournalInv
  BY DEF JournalInv, NoJournal, WellFormed, Protects, IsHeaded
<1>7. ASSUME NEW p \in Pagers PROVE PagerOk(p)
  <2>1. /\ level[p] = 0 /\ eState[p] = "OPEN" /\ at[p] = "idle" /\ cache[p] = EmptyCache
        /\ dirty[p] = {} /\ countDone[p] = FALSE
    BY DEF NO_LOCK
  <2>2. \A pg \in Pages : ~Cached(p, pg)
    BY <2>1 DEF Cached, EmptyCache
  <2>3. PhaseOk(p) /\ CacheOk(p) /\ OpenOk(p)
    BY <2>1, <2>2 DEF PhaseOk, CacheOk, OpenOk, HasCache
  <2>4. ReadOk(p) /\ LockedOk(p) /\ PlaybackOk(p) /\ BeginOk(p)
    BY <2>1 DEF ReadOk, LockedOk, PlaybackOk, BeginOk
  <2>5. WriterOk(p) /\ EditOk(p) /\ UndoOk(p)
    BY <2>1 DEF WriterOk, EditOk, UndoOk, IsWriter
  <2> QED BY <2>3, <2>4, <2>5 DEF PagerOk
<1> QED BY <1>3, <1>4, <1>5, <1>6, <1>7 DEF Inv, PagersInv

LEMMA StutterKeeps ==
    ASSUME Inv, UNCHANGED vars
    PROVE  Inv'
<1> USE DEF vars, caches, dbFile, journal, ghosts
<1>1. TypeOK'
  BY DEF Inv, TypeOK
<1>2. Locks!Excludes'
  BY DEF Inv, Locks!Excludes
<1>3. FilesInv' /\ JournalInv'
  BY FilesKeep, JournalKeep DEF Inv
<1>4. \A q \in Pagers : Same(q)
  BY DEF Same
<1>5. \A q \in Pagers : PagerOk(q)'
  BY <1>4, PagerKeep DEF Inv, PagersInv
<1> QED BY <1>1, <1>2, <1>3, <1>5 DEF Inv, PagersInv

LEMMA ReadKeeps ==
    ASSUME Inv, NEW p \in Pagers, Read(p)
    PROVE  Inv'
<1>1. CASE SharedLock(p)
  BY <1>1, SharedLockKeeps
<1>2. CASE AccessJournal(p)
  BY <1>2, AccessJournalKeeps
<1>3. CASE CheckReservedLock(p)
  BY <1>3, CheckReservedLockKeeps
<1>4. CASE ReadHeader(p)
  BY <1>4, ReadHeaderKeeps
<1>5. CASE ReserveToDelete(p)
  BY <1>5, ReserveToDeleteKeeps
<1>6. CASE DeleteStaleJournal(p)
  BY <1>6, DeleteStaleJournalKeeps
<1>7. CASE LockHot(p)
  BY <1>7, LockHotKeeps
<1>8. CASE LockHotBusy(p)
  BY <1>8, LockHotBusyKeeps
<1>9. CASE SyncHotJournal(p)
  BY <1>9, SyncHotJournalKeeps
<1>10. CASE CheckCache(p)
  BY <1>10, CheckCacheKeeps
<1>11. CASE Unlock(p)
  BY <1>11, UnlockKeeps
<1>12. CASE \E pg \in Pages : ReadPage(p, pg)
  BY <1>12, ReadPageKeeps
<1> QED BY <1>1, <1>2, <1>3, <1>4, <1>5, <1>6, <1>7, <1>8, <1>9, <1>10, <1>11, <1>12 DEF Read

LEMMA UndoKeeps ==
    ASSUME Inv, NEW p \in Pagers, Undo(p)
    PROVE  Inv'
<1>1. CASE Rollback(p)
  BY <1>1, RollbackKeeps
<1>2. CASE PlaybackOnePage(p)
  BY <1>2, PlaybackOnePageKeeps
<1>3. CASE PlaybackEnds(p)
  BY <1>3, PlaybackEndsKeeps
<1>4. CASE SyncRestored(p)
  BY <1>4, SyncRestoredKeeps
<1>5. CASE FinishRollback(p)
  BY <1>5, FinishRollbackKeeps
<1>6. CASE Downgrade(p)
  BY <1>6, DowngradeKeeps
<1>7. CASE UnlinkFails(p)
  BY <1>7, UnlinkFailsKeeps
<1> QED BY <1>1, <1>2, <1>3, <1>4, <1>5, <1>6, <1>7 DEF Undo

LEMMA WriteKeeps ==
    ASSUME Inv, NEW p \in Pagers, Write(p)
    PROVE  Inv'
<1>1. CASE Begin(p)
  BY <1>1, BeginKeeps
<1>2. CASE OpenJournal(p)
  BY <1>2, OpenJournalKeeps
<1>3. CASE CommitPhaseOne(p)
  BY <1>3, CommitPhaseOneKeeps
<1>4. CASE Stress(p)
  BY <1>4, StressKeeps
<1>5. CASE ExclusiveLock(p)
  BY <1>5, ExclusiveLockKeeps
<1>6. CASE SyncRecords(p)
  BY <1>6, SyncRecordsKeeps
<1>7. CASE WriteNRec(p)
  BY <1>7, WriteNRecKeeps
<1>8. CASE SyncHeader(p)
  BY <1>8, SyncHeaderKeeps
<1>9. CASE SyncDatabase(p)
  BY <1>9, SyncDatabaseKeeps
<1>10. CASE CommitPhaseTwo(p)
  BY <1>10, CommitPhaseTwoKeeps
<1>11. ASSUME NEW pg \in Pages, WritePage(p, pg) PROVE Inv'
  BY <1>11, WritePageKeeps
<1>12. ASSUME NEW pg \in Pages, SpillPage(p, pg) PROVE Inv'
  BY <1>12, SpillPageKeeps
<1>13. ASSUME NEW pg \in Pages, WriteDirtyPage(p, pg) PROVE Inv'
  BY <1>13, WriteDirtyPageKeeps
<1> QED BY <1>1, <1>2, <1>3, <1>4, <1>5, <1>6, <1>7, <1>8, <1>9, <1>10, <1>11, <1>12, <1>13 DEF Write

LEMMA NextKeeps ==
    ASSUME Inv, [Next]_vars, PowerFrom = 1 \/ ~PowerLoss
    PROVE  Inv'
<1>1. CASE UNCHANGED vars
  BY <1>1, StutterKeeps
<1>2. ASSUME NEW p \in Pagers, Read(p) \/ Undo(p) \/ Write(p) PROVE Inv'
  BY <1>2, ReadKeeps, UndoKeeps, WriteKeeps
<1>3. ASSUME NEW p \in Pagers, Abandon(p) PROVE Inv'
  BY <1>3, AbandonKeeps
<1>4. CASE PowerLoss
  BY <1>4, PowerLossKeeps
<1> QED BY <1>1, <1>2, <1>3, <1>4 DEF Next

-----------------------------------------------------------------------------
(* What follows from the invariant. *)

LEMMA InvSeesCommitted == Inv => ReadersSeeCommitted
<1> SUFFICES ASSUME Inv, NEW p \in Pagers, at[p] = "idle",
                    eState[p] \in {"READER", "WRITER_LOCKED", "WRITER_CACHEMOD"},
                    NEW pg \in Pages \ dirty[p]
             PROVE  cache[p][pg] \in {NotCached, committed[pg]}
  BY DEF ReadersSeeCommitted
<1>1. PagerOk(p)
  BY DEF Inv, PagersInv
<1>2. CASE eState[p] \in {"READER", "WRITER_LOCKED"}
  BY <1>1, <1>2 DEF PagerOk, ReadOk, Matches
<1>3. CASE eState[p] = "WRITER_CACHEMOD"
  <2>1. db = committed
    BY <1>1, <1>3 DEF PagerOk, LockedOk, AsCommitted
  <2>2. IsWriter(p) /\ at[p] \notin Undoing
    BY <1>3 DEF IsWriter, Undoing
  <2> QED BY <1>1, <2>1, <2>2 DEF PagerOk, EditOk
<1> QED BY <1>2, <1>3

LEMMA InvDeathIsHarmless == Inv => DeathIsHarmless
<1> SUFFICES ASSUME Inv PROVE Recovered(db, jrnl) = committed
  BY DEF DeathIsHarmless
<1>1. ASSUME NEW pg \in Pages, db[pg] # committed[pg] PROVE Restores(jrnl, pg, committed)
  BY <1>1, LaterRestores DEF Inv, FilesInv, SafeOn
<1>2. /\ db \in [Pages -> Content] /\ jrnl \in Journals /\ committed \in [Pages -> Content]
      /\ Good(committed) /\ Covers(db, committed) /\ Protects(jrnl, committed)
  BY DEF Inv, TypeOK, FilesInv, JournalInv
<1> QED BY <1>1, <1>2, RecoversTo

LEMMA InvPowerLossIsAtomic ==
    ASSUME PowerFrom = 1
    PROVE  Inv => PowerLossIsAtomic
<1> SUFFICES ASSUME Inv, Size(committed) >= 1, NEW f \in TornPages, NEW j \in TornJournals
             PROVE  Recovered(f, j) \in {committed, before}
  BY DEF PowerLossIsAtomic
<1>1. f \in [Pages -> Content] /\ j \in Journals
  BY PowerLossSafe
<1>2. PICK g \in {committed, before} : g \in [Pages -> Content] /\ LedBy(f, j, g)
  BY PowerLossSafe
<1>3. Recovered(f, j) = g
  BY <1>1, <1>2, RecoversTo DEF LedBy
<1> QED BY <1>3

LEMMA InvJournalOutlives == Inv => JournalOutlivesItsWriter
BY DEF Inv, PagersInv, PagerOk, WriterOk, IsWriter, JournalOutlivesItsWriter

-----------------------------------------------------------------------------
(* The theorems. *)

(* If power goes only from the first commit on (PowerFrom = 1), Inv holds    *)
(* in every reachable state: what is not as committed in the file            *)
(* or on the disk, a journal on the disk restores, and every pager is at a   *)
(* system call with the lock, the cache and the journal that this call       *)
(* counts on.                                                                *)
THEOREM RollbackInvariant ==
    ASSUME PowerFrom = 1
    PROVE  Spec => []Inv
<1>1. Inv /\ [Next]_vars => Inv'
  BY NextKeeps
<1> QED BY <1>1, InitInv, PTL DEF Spec

(* With PowerFrom = 1 every reachable state is of its type: no pager has a   *)
(* dirty page that is not in its cache.                                      *)
THEOREM RollbackTyped ==
    ASSUME PowerFrom = 1
    PROVE  Spec => []TypeOK
<1>1. Inv => TypeOK
  BY DEF Inv
<1> QED BY <1>1, RollbackInvariant, PTL

(* A reader sees one committed database, and a writer that one with its own  *)
(* changes, whatever the caches have kept and whoever died in between;       *)
(* losses of power, which may come from the first commit on, included.       *)
THEOREM SeesCommitted ==
    ASSUME PowerFrom = 1
    PROVE  Spec => []ReadersSeeCommitted
<1> QED BY InvSeesCommitted, RollbackInvariant, PTL

(* A process that is killed between any two of its system calls, in a commit, *)
(* a rollback or a recovery, leaves files that recover to the last commit,    *)
(* also when power goes in between, which it may from the first commit on.    *)
THEOREM DeathRecovers ==
    ASSUME PowerFrom = 1
    PROVE  Spec => []DeathIsHarmless
<1> QED BY InvDeathIsHarmless, RollbackInvariant, PTL

(* A loss of power at any moment from the first commit on (PowerFrom = 1;    *)
(* of an empty database nothing is said) leaves files that recover to the    *)
(* last commit or the one before it.                                         *)
THEOREM PowerLossRecovers ==
    ASSUME PowerFrom = 1
    PROVE  Spec => []PowerLossIsAtomic
<1>1. Inv => PowerLossIsAtomic
  BY InvPowerLossIsAtomic
<1> QED BY <1>1, RollbackInvariant, PTL

(* Nobody deletes or rolls back the journal of a transaction that runs, with *)
(* losses of power from the first commit on (PowerFrom = 1) in between.      *)
THEOREM JournalStaysWithItsWriter ==
    ASSUME PowerFrom = 1
    PROVE  Spec => []JournalOutlivesItsWriter
<1> QED BY InvJournalOutlives, RollbackInvariant, PTL

(* As long as only processes die, all of it holds from the first transaction *)
(* of an empty database on.                                                  *)
THEOREM WithoutPowerLoss ==
    Spec /\ [][~PowerLoss]_vars =>
        [](TypeOK /\ ReadersSeeCommitted /\ DeathIsHarmless /\ JournalOutlivesItsWriter)
<1>1. Inv /\ [Next]_vars /\ [~PowerLoss]_vars => Inv'
  BY NextKeeps, StutterKeeps
<1>2. Inv => TypeOK /\ ReadersSeeCommitted /\ DeathIsHarmless /\ JournalOutlivesItsWriter
  BY InvSeesCommitted, InvDeathIsHarmless, InvJournalOutlives DEF Inv
<1> QED BY <1>1, <1>2, InitInv, PTL DEF Spec

-----------------------------------------------------------------------------
(* Each system call of a pager, a death and a loss of power take one of the  *)
(* steps of FileLocks or leave the locks alone: a pager counts on no lock    *)
(* that UnixLocks, which implements FileLocks, does not give it.             *)
THEOREM PagersUseFileLocks == Spec => Locks!Spec
<1>1. Init => Locks!Init
  BY DEF Init, Locks!Init, NO_LOCK, Locks!NO_LOCK
<1>2. [Next]_vars => [Locks!Next]_level
  <2> SUFFICES ASSUME [Next]_vars PROVE Locks!Next \/ UNCHANGED level
    OBVIOUS
  <2>1. ASSUME NEW p \in Pagers, Read(p) PROVE Locks!Next \/ UNCHANGED level
    BY <2>1 DEF Read, SharedLock, AccessJournal, CheckReservedLock, ReadHeader, ReserveToDelete,
       DeleteStaleJournal, LockHot, LockHotBusy, SyncHotJournal, CheckCache, Unlock, ReadPage, UnlockDb,
       Locks!Next
  <2>2. ASSUME NEW p \in Pagers, Undo(p) PROVE Locks!Next \/ UNCHANGED level
    BY <2>2 DEF Undo, Rollback, PlaybackOnePage, PlaybackEnds, SyncRestored, FinishRollback, Downgrade,
       UnlinkFails, UnlockDb, Locks!Next
  <2>3. ASSUME NEW p \in Pagers, Write(p) PROVE Locks!Next \/ UNCHANGED level
    BY <2>3 DEF Write, Begin, OpenJournal, CommitPhaseOne, Stress, ExclusiveLock, SyncRecords, WriteNRec,
       SyncHeader, SyncDatabase, CommitPhaseTwo, WritePage, SpillPage, WriteDirtyPage, Locks!Next
  <2>4. ASSUME NEW p \in Pagers, Abandon(p) PROVE Locks!Next
    BY <2>4 DEF Abandon, Locks!Next
  <2>5. ASSUME PowerLoss PROVE Locks!Next
    <3>1. Locks!Release(Pagers)
      BY <2>5 DEF PowerLoss, Locks!Release, NO_LOCK, Locks!NO_LOCK
    <3> QED BY <3>1 DEF Locks!Next
  <2> QED BY <2>1, <2>2, <2>3, <2>4, <2>5 DEF Next, vars
<1> QED BY <1>1, <1>2, PTL DEF Spec, Locks!Spec
=============================================================================
