---------------------------- MODULE Wal_proofs -----------------------------
(***************************************************************************)
(* The proofs about Wal, for any connections, pages, frames and read       *)
(* marks, any number of changes and of faults: IInv of WalInv is           *)
(* inductive, and its types, what readers see and what headers name follow *)
(* from it. First facts about the operators of Wal, and that each of its   *)
(* steps keeps the types of its variables; the steps of the writer need    *)
(* more than types, where they take a page from its list or a salt from    *)
(* its header.                                                             *)
(*                                                                         *)
(* They are about the behaviours in which no process is killed inside      *)
(* walRestartHdr() (RestartsAreWhole): after such a death the wal-index    *)
(* has the header of a new log and the count of what was copied of the     *)
(* old one, and SnapshotIsolation does not hold (run                       *)
(* doc_wal_restart_death).                                                 *)
(***************************************************************************)
EXTENDS WalInv, FiniteSetTheorems, SequenceTheorems, WellFoundedInduction, TLAPS

(* A process is killed inside walRestartHdr(), while it writes the new       *)
(* header (line 69680) or before it has reset nBackfill and the read marks   *)
(* (to 69684), and others go on.  The code does not see to it that this does *)
(* not happen: a behaviour of Spec may have such a step when DiesInRestart   *)
(* is TRUE.  The death of all processes there, and a loss of power, which    *)
(* take the wal-index with them, are not excluded.                           *)
KilledInRestart ==
    \E c \in Conns : Die(c) /\ (at[c] = "restartIndex" \/ (Restarts(c) /\ intact' # intact))
RestartsAreWhole == [][~KilledInRestart]_vars

-----------------------------------------------------------------------------
(* The least and the largest element of a set of numbers. *)

LEMMA MinIs ==
    ASSUME NEW S \in SUBSET Nat, S # {}
    PROVE  Min(S) \in S /\ \A y \in S : Min(S) <= y
<1>1. \E x \in S : \A y \in S : ~(y < x)
  <2>1. \E x \in S : \A y \in S : ~(<<y, x>> \in OpToRel(<, Nat))
    BY NatLessThanWellFounded, WFMin, Zenon
  <2> QED BY <2>1 DEF OpToRel
<1>2. \E x \in S : \A y \in S : x <= y
  BY <1>1
<1> QED BY <1>2, Zenon DEF Min

LEMMA MaxIs ==
    ASSUME NEW n \in Nat, NEW S \in SUBSET (0..n), S # {}
    PROVE  Max(S) \in S /\ \A y \in S : y <= Max(S)
<1> DEFINE T == {m \in Nat : \A y \in S : y <= m}
<1>1. n \in T
  OBVIOUS
<1>2. Min(T) \in T /\ \A m \in T : Min(T) <= m
  <2>1. T \in SUBSET Nat /\ T # {}
    BY <1>1
  <2> HIDE DEF T
  <2> QED BY <2>1, MinIs
<1>3. PICK m \in T : \A k \in T : m <= k
  BY <1>2
<1>4. m \in S
  <2>1. CASE m = 0
    <3>1. PICK y \in S : TRUE
      OBVIOUS
    <3> QED BY <2>1, <3>1, <1>3
  <2>2. CASE m # 0
    <3>1. m - 1 \in Nat /\ m - 1 \notin T
      BY <2>2, <1>3
    <3>2. PICK y \in S : ~(y <= m - 1)
      BY <3>1
    <3> QED BY <3>1, <3>2, <1>3
  <2> QED BY <2>1, <2>2
<1>5. \E x \in S : \A y \in S : x >= y
  BY <1>3, <1>4
<1>6. Max(S) \in S /\ \A y \in S : Max(S) >= y
  BY <1>5, Zenon DEF Max
<1> QED BY <1>6

-----------------------------------------------------------------------------
(* The last frame of a page, and the last commit. *)

IsLastOf(j, l, pg, min, max) ==
    /\ j \in {0} \cup min..max
    /\ j = 0 => \A k \in min..max : l.frame[k].pg # pg
    /\ j # 0 => l.frame[j].pg = pg
    /\ \A k \in min..max : l.frame[k].pg = pg => k <= j

(* walFindFrame(): the last frame of the page, or 0. *)
LEMMA FindIs ==
    ASSUME NEW l, NEW pg, NEW min \in Nat \ {0}, NEW max \in Nat
    PROVE  IsLastOf(Find(l, pg, min, max), l, pg, min, max)
<1> DEFINE S == {0} \cup {i \in min..max : l.frame[i].pg = pg}
<1>1. S \in SUBSET (0..max) /\ S # {}
  OBVIOUS
<1>2. Find(l, pg, min, max) = Max(S)
  BY DEF Find
<1>3. Max(S) \in S /\ \A y \in S : y <= Max(S)
  <2> HIDE DEF S
  <2> QED BY <1>1, MaxIs
<1> QED BY <1>2, <1>3 DEF IsLastOf

(* There is one such frame. *)
LEMMA FindUnique ==
    ASSUME NEW l, NEW pg, NEW min \in Nat \ {0}, NEW max \in Nat, NEW j,
           IsLastOf(j, l, pg, min, max)
    PROVE  Find(l, pg, min, max) = j
<1> DEFINE i == Find(l, pg, min, max)
<1>1. IsLastOf(i, l, pg, min, max)
  BY FindIs
<1> HIDE DEF i
<1>2. i \in {0} \cup min..max /\ j \in {0} \cup min..max
  BY <1>1 DEF IsLastOf
<1>3. i # 0 => j # 0 /\ i <= j
  BY <1>1, <1>2 DEF IsLastOf
<1>4. j # 0 => i # 0 /\ j <= i
  BY <1>1, <1>2 DEF IsLastOf
<1>5. i = j
  BY <1>2, <1>3, <1>4
<1> QED BY <1>5 DEF i

(* Frames that are not looked at do not matter. *)
LEMMA FindSame ==
    ASSUME NEW l, NEW m, NEW pg, NEW min \in Nat \ {0}, NEW max \in Nat,
           \A k \in min..max : m.frame[k].pg = l.frame[k].pg
    PROVE  Find(m, pg, min, max) = Find(l, pg, min, max)
<1>1. IsLastOf(Find(l, pg, min, max), l, pg, min, max)
  BY FindIs
<1>2. IsLastOf(Find(l, pg, min, max), m, pg, min, max)
  BY <1>1 DEF IsLastOf
<1> QED BY <1>2, FindUnique

(* A longer log, of which the additional frames hold page pg or do not. *)
LEMMA FindLonger ==
    ASSUME NEW l, NEW pg, NEW a \in Nat, NEW b \in Nat, a <= b
    PROVE  /\ Find(l, pg, a + 1, b) # 0 => Find(l, pg, 1, b) = Find(l, pg, a + 1, b)
           /\ Find(l, pg, a + 1, b) = 0 => Find(l, pg, 1, b) = Find(l, pg, 1, a)
           /\ Find(l, pg, 1, a) <= Find(l, pg, 1, b)
           /\ Find(l, pg, 1, b) <= a => Find(l, pg, a + 1, b) = 0
<1> DEFINE i == Find(l, pg, a + 1, b)
           j == Find(l, pg, 1, a)
           k == Find(l, pg, 1, b)
<1>1. IsLastOf(i, l, pg, a + 1, b) /\ IsLastOf(j, l, pg, 1, a) /\ IsLastOf(k, l, pg, 1, b)
  BY FindIs
<1> HIDE DEF i, j, k
<1>2. i \in Nat /\ j \in Nat /\ k \in Nat /\ i <= b /\ j <= a /\ k <= b /\ (i # 0 => i > a)
  BY <1>1 DEF IsLastOf
<1>3. i # 0 => k = i
  <2>1. i # 0 => l.frame[i].pg = pg /\ i \in 1..b
    BY <1>1, <1>2 DEF IsLastOf
  <2>2. i # 0 => i <= k
    BY <1>1, <2>1 DEF IsLastOf
  <2>3. i # 0 => k \in a + 1..b /\ l.frame[k].pg = pg
    BY <1>1, <1>2, <2>2 DEF IsLastOf
  <2>4. i # 0 => k <= i
    BY <1>1, <2>3 DEF IsLastOf
  <2> QED BY <1>2, <2>2, <2>4
<1>4. j <= k
  <2>1. j # 0 => l.frame[j].pg = pg /\ j \in 1..b
    BY <1>1, <1>2 DEF IsLastOf
  <2> QED BY <1>1, <1>2, <2>1 DEF IsLastOf
<1>5. i = 0 => k = j
  <2>1. i = 0 /\ k # 0 => k \in 1..a
    BY <1>1, <1>2 DEF IsLastOf
  <2>2. i = 0 /\ k # 0 => k <= j
    BY <1>1, <1>2, <2>1 DEF IsLastOf
  <2> QED BY <1>2, <1>4, <2>2
<1>6. k <= a => i = 0
  BY <1>2, <1>3
<1> QED BY <1>3, <1>4, <1>5, <1>6 DEF i, j, k

(* walIndexRecover(): the last accepted frame that commits. *)
LEMMA LastCommitIs ==
    ASSUME NEW l
    PROVE  /\ LastCommit(l) \in 0..MaxFrame
           /\ LastCommit(l) # 0 => Accepted(l, LastCommit(l)) /\ l.frame[LastCommit(l)].commit
           /\ \A i \in Frames : Accepted(l, i) /\ l.frame[i].commit => i <= LastCommit(l)
<1> DEFINE S == {0} \cup {i \in Frames : Accepted(l, i) /\ l.frame[i].commit}
<1>1. S \in SUBSET (0..MaxFrame) /\ S # {} /\ MaxFrame \in Nat
  BY BoundsAssumption DEF Frames
<1>2. LastCommit(l) = Max(S)
  BY DEF LastCommit
<1>3. Max(S) \in S /\ \A y \in S : y <= Max(S)
  <2> HIDE DEF S
  <2> QED BY <1>1, MaxIs
<1> QED BY <1>1, <1>2, <1>3

-----------------------------------------------------------------------------
(* There is always a salt that is not in use. *)

LEMMA ImageCardinality ==
    ASSUME NEW S, IsFiniteSet(S), NEW f
    PROVE  LET T == {f[x] : x \in S} IN IsFiniteSet(T) /\ Cardinality(T) <= Cardinality(S)
<1> DEFINE T == {f[x] : x \in S}
           g == [x \in S |-> f[x]]
<1>1. g \in Surjection(S, T)
  BY DEF Surjection
<1> HIDE DEF g, T
<1>2. IsFiniteSet(T) /\ Cardinality(T) <= Cardinality(S)
  BY <1>1, FS_Surjection
<1> QED BY <1>2 DEF T

(* Finitely many numbers leave one out. *)
LEMMA UnionCardinality ==
    ASSUME NEW S, NEW T, IsFiniteSet(S), IsFiniteSet(T), NEW m \in Nat, NEW n \in Nat,
           Cardinality(S) <= m, Cardinality(T) <= n
    PROVE  IsFiniteSet(S \cup T) /\ Cardinality(S \cup T) <= m + n
<1>1. Cardinality(S) \in Nat /\ Cardinality(T) \in Nat
  BY FS_CardinalityType
<1>2. IsFiniteSet(S \cap T)
  BY FS_Intersection
<1>3. Cardinality(S \cap T) \in Nat
  BY <1>2, FS_CardinalityType
<1>4. IsFiniteSet(S \cup T) /\ Cardinality(S \cup T) = Cardinality(S) + Cardinality(T) - Cardinality(S \cap T)
  BY FS_Union
<1> QED BY <1>1, <1>3, <1>4

(* The salt that a restart takes is no header's and not the log's. *)
LEMMA FreshSaltIs ==
    /\ FreshSalt \in Nat \ {0}
    /\ FreshSalt # live.salt /\ FreshSalt # log.salt /\ FreshSalt # logDisk.salt
    /\ \A c \in Conns : FreshSalt # hdr[c].salt
    /\ \A i \in Frames : FreshSalt # log.frame[i].salt /\ FreshSalt # logDisk.frame[i].salt
<1> DEFINE A == {live.salt}
           B == {hdr[c].salt : c \in Conns}
           C == {log.salt} \cup {log.frame[i].salt : i \in Frames}
           D == {logDisk.salt} \cup {logDisk.frame[i].salt : i \in Frames}
           n == 2 * MaxFrame + Cardinality(Conns) + 4
<1>1. SaltsInUse = (A \cup B) \cup (C \cup D)
  BY DEF SaltsInUse
<1>2. Cardinality(Conns) \in Nat /\ IsFiniteSet(Conns)
  BY BoundsAssumption, FS_CardinalityType
<1>3. IsFiniteSet(A) /\ Cardinality(A) <= 1
  <2>1. IsFiniteSet(A) /\ Cardinality(A) = 1
    BY FS_Singleton
  <2> QED BY <2>1
<1>4. IsFiniteSet(B) /\ Cardinality(B) <= Cardinality(Conns)
  <2> DEFINE f == [c \in Conns |-> hdr[c].salt]
  <2>1. B = {f[c] : c \in Conns}
    OBVIOUS
  <2> HIDE DEF f
  <2> QED BY <1>2, <2>1, ImageCardinality
<1>5. IsFiniteSet(Frames) /\ Cardinality(Frames) = MaxFrame /\ MaxFrame \in Nat
  BY BoundsAssumption, FS_Interval DEF Frames
<1>6. ASSUME NEW l
      PROVE  LET E == {l.salt} \cup {l.frame[i].salt : i \in Frames}
             IN  IsFiniteSet(E) /\ Cardinality(E) <= MaxFrame + 1
  <2> DEFINE f == [i \in Frames |-> l.frame[i].salt]
             F == {l.frame[i].salt : i \in Frames}
  <2>1. F = {f[i] : i \in Frames}
    OBVIOUS
  <2>2. IsFiniteSet(F) /\ Cardinality(F) <= MaxFrame
    <3> HIDE DEF f
    <3> QED BY <1>5, <2>1, ImageCardinality
  <2> HIDE DEF F
  <2>3. IsFiniteSet({l.salt}) /\ Cardinality({l.salt}) = 1
    BY FS_Singleton
  <2>4. IsFiniteSet({l.salt} \cup F) /\ Cardinality({l.salt} \cup F) <= 1 + MaxFrame
    <3>1. Cardinality({l.salt}) <= 1 /\ MaxFrame \in Nat /\ 1 \in Nat
      BY <1>5, <2>3
    <3> QED BY <2>2, <2>3, <3>1, UnionCardinality
  <2> QED BY <1>5, <2>4 DEF F
<1>7. IsFiniteSet(C) /\ Cardinality(C) <= MaxFrame + 1 /\ IsFiniteSet(D) /\ Cardinality(D) <= MaxFrame + 1
  BY <1>6
<1> HIDE DEF A, B, C, D
<1> DEFINE p == MaxFrame + 1
           q == 1 + Cardinality(Conns)
<1>0. p \in Nat /\ q \in Nat
  BY <1>2, <1>5
<1>8. IsFiniteSet(A \cup B) /\ Cardinality(A \cup B) <= q
  BY <1>2, <1>3, <1>4, UnionCardinality
<1>9. IsFiniteSet(C \cup D) /\ Cardinality(C \cup D) <= p + p
  <2> HIDE DEF p
  <2> QED BY <1>0, <1>7, UnionCardinality DEF p
<1>10. IsFiniteSet(SaltsInUse) /\ Cardinality(SaltsInUse) <= q + (p + p)
  <2> HIDE DEF p, q
  <2>1. p + p \in Nat
    BY <1>0
  <2> QED BY <1>0, <1>1, <1>8, <1>9, <2>1, UnionCardinality DEF q
<1>11. (1..n) \ SaltsInUse # {}
  <2>1. SUFFICES ASSUME (1..n) \subseteq SaltsInUse PROVE FALSE
    OBVIOUS
  <2>2. n \in Nat /\ n > 0 /\ n > q + (p + p)
    BY <1>2, <1>5
  <2> HIDE DEF n, p, q
  <2>5. IsFiniteSet(1..n) /\ Cardinality(1..n) = n
    BY <2>2, FS_Interval
  <2>3. Cardinality(1..n) <= Cardinality(SaltsInUse)
    BY <2>1, <1>10, FS_Subset
  <2>4. Cardinality(SaltsInUse) \in Nat
    BY <1>10, FS_CardinalityType
  <2> QED BY <1>0, <1>10, <2>2, <2>3, <2>4, <2>5
<1>12. FreshSalt \in (1..n) \ SaltsInUse
  <2>1. (1..n) \ SaltsInUse \in SUBSET Nat
    BY <1>2, <1>5
  <2>2. FreshSalt = Min((1..n) \ SaltsInUse)
    BY DEF FreshSalt
  <2> HIDE DEF n
  <2> QED BY <1>11, <2>1, <2>2, MinIs
<1>13. FreshSalt \in Nat \ {0}
  BY <1>2, <1>5, <1>12
<1> QED BY <1>1, <1>12, <1>13 DEF A, B, C, D

-----------------------------------------------------------------------------
(* What the constants and the operators on logs are. *)

LEMMA FrameNumbers == MaxFrame \in Nat \ {0} /\ Frames = 1..MaxFrame /\ Pages = 1..MaxPage /\ Slots = 1..ReadMarks
BY BoundsAssumption DEF Frames, Pages, Slots

(* A page has a content, in the log or in the database file. *)
LEMMA ContentTyped ==
    ASSUME NEW f \in [Pages -> Contents], NEW l \in Log, NEW pg \in Pages,
           NEW min \in Nat \ {0}, NEW max \in 0..MaxFrame
    PROVE  Content(f, l, pg, min, max) \in Contents
<1> DEFINE i == Find(l, pg, min, max)
<1>1. i \in {0} \cup min..max
  BY FindIs DEF IsLastOf
<1>2. i # 0 => i \in Frames
  BY <1>1, FrameNumbers
<1>3. i # 0 => l.frame[i].val \in Contents
  BY <1>2 DEF Log, Frame
<1> QED BY <1>3 DEF Content

(* What recovery reads is a header. *)
LEMMA RecoveredTyped ==
    ASSUME NEW f \in [Pages -> Contents], NEW l \in Log
    PROVE  Recovered(f, l) \in [Pages -> Contents]
<1>1. LastCommit(l) \in 0..MaxFrame
  BY LastCommitIs
<1>2. \A pg \in Pages : Content(f, l, pg, 1, LastCommit(l)) \in Contents
  BY <1>1, ContentTyped
<1> QED BY <1>2 DEF Recovered

(* The initial values. *)
LEMMA ConstantsTyped ==
    /\ EmptyDb \in [Pages -> Contents] /\ Unchanged \in [Pages -> Contents]
    /\ NoHdr \in Hdr /\ NoLog \in Log
    /\ NoSlot \in [i : 0..ReadMarks, mark : 0..MaxFrame]
<1>1. 0 \in Contents /\ 0 \in 0..MaxPage /\ 0 \in 0..MaxFrame /\ 0 \in 0..ReadMarks
  BY BoundsAssumption DEF Contents
<1>2. NoFrame \in Frame
  BY <1>1 DEF NoFrame, Frame
<1>3. NoLog \in Log
  BY <1>2 DEF NoLog, Log
<1> QED BY <1>1, <1>3 DEF EmptyDb, Unchanged, NoHdr, Hdr, NoSlot

(* walRestartHdr(): the header of the new log. *)
LEMMA RestartHdrIs ==
    ASSUME TypeOK, NEW c \in Conns, RestartHdr(c)
    PROVE  /\ live' \in Hdr /\ live' = [salt |-> FreshSalt, mxFrame |-> 0, iChange |-> hdr[c].iChange]
           /\ hdr' = Set(hdr, c, live') /\ intact' = TRUE /\ Goto(c, "restartIndex")
<1>1. hdr[c] \in Hdr /\ FreshSalt \in Nat /\ 0 \in 0..MaxFrame
  BY FreshSaltIs, FrameNumbers DEF TypeOK
<1>3. live' = [salt |-> FreshSalt, mxFrame |-> 0, iChange |-> hdr[c].iChange]
  BY DEF RestartHdr
<1>4. live' \in Hdr
  BY <1>1, <1>3 DEF Hdr
<1> QED BY <1>3, <1>4 DEF RestartHdr


-----------------------------------------------------------------------------
(* Each step keeps the types: readers and recovery. *)

LEMMA ReadHdrTyped ==
    ASSUME TypeOK, NEW c \in Conns, ReadHdr(c)
    PROVE  TypeOK'
<1>1. hdr' \in [Conns -> Hdr]
  <2>1. hdr \in [Conns -> Hdr] /\ live \in Hdr
    BY DEF TypeOK
  <2> QED BY <2>1 DEF ReadHdr, Set, Goto, AfterHdr
<1>2. isChanged' \in [Conns -> BOOLEAN]
  <2>1. isChanged \in [Conns -> BOOLEAN]
    BY DEF TypeOK
  <2> QED BY <2>1 DEF ReadHdr, Set, Goto, AfterHdr
<1>3. snap' \in [Conns -> [Pages -> Contents]]
  <2>1. snap \in [Conns -> [Pages -> Contents]]
    BY DEF TypeOK
  <2> QED BY <2>1, ConstantsTyped DEF ReadHdr, Set, Goto, AfterHdr
<1>4. at' \in [Conns -> Steps]
  <2>1. at \in [Conns -> Steps]
    BY DEF TypeOK
  <2> QED BY <2>1 DEF ReadHdr, Set, Goto, Goto, AfterHdr, Steps
<1> QED BY <1>1, <1>2, <1>3, <1>4 DEF TypeOK, ReadHdr, Goto, AfterHdr, files, index, locks, reading,
                                      writing, checkpointing, ghosts

LEMMA RecoverHdrTyped ==
    ASSUME TypeOK, NEW c \in Conns, RecoverHdr(c)
    PROVE  TypeOK'
<1>1. writer' \in Conns \cup {None}
  <2>1. writer \in Conns \cup {None}
    BY DEF TypeOK
  <2> QED BY <2>1 DEF RecoverHdr, Set, Goto
<1>2. ckpter' \in Conns \cup {None}
  <2>1. ckpter \in Conns \cup {None}
    BY DEF TypeOK
  <2> QED BY <2>1 DEF RecoverHdr, Set, Goto
<1>3. hdr' \in [Conns -> Hdr]
  <2>1. hdr \in [Conns -> Hdr] /\ log \in Log
    BY DEF TypeOK
  <2> QED BY <2>1, LastCommitIs DEF RecoverHdr, Set, Goto, Hdr, Log
<1>4. live' \in Hdr
  <2>1. live \in Hdr /\ log \in Log
    BY DEF TypeOK
  <2> QED BY <2>1, LastCommitIs DEF RecoverHdr, Set, Goto, Hdr, Log
<1>5. intact' \in BOOLEAN
  <2>1. intact \in BOOLEAN
    BY DEF TypeOK
  <2> QED BY <2>1 DEF RecoverHdr, Set, Goto
<1>6. latest' \in [Pages -> Contents]
  <2>1. latest \in [Pages -> Contents] /\ db \in [Pages -> Contents] /\ log \in Log
    BY DEF TypeOK
  <2> QED BY <2>1, RecoveredTyped DEF RecoverHdr, Set, Goto
<1>7. isChanged' \in [Conns -> BOOLEAN]
  <2>1. isChanged \in [Conns -> BOOLEAN]
    BY DEF TypeOK
  <2> QED BY <2>1 DEF RecoverHdr, Set, Goto
<1>8. snap' \in [Conns -> [Pages -> Contents]]
  <2>1. snap \in [Conns -> [Pages -> Contents]]
    BY DEF TypeOK
  <2> QED BY <2>1, ConstantsTyped DEF RecoverHdr, Set, Goto
<1>9. at' \in [Conns -> Steps]
  <2>1. at \in [Conns -> Steps]
    BY DEF TypeOK
  <2> QED BY <2>1 DEF RecoverHdr, Set, Goto, Goto, Steps
<1> QED BY <1>1, <1>2, <1>3, <1>4, <1>5, <1>6, <1>7, <1>8, <1>9 DEF TypeOK, RecoverHdr, Goto, files, index,
                                        reading, writing, checkpointing, ghosts

LEMMA RecoverResetTyped ==
    ASSUME TypeOK, NEW c \in Conns, RecoverReset(c)
    PROVE  TypeOK'
<1>1. nBackfill' \in 0..MaxFrame
  <2>1. nBackfill \in 0..MaxFrame /\ live \in Hdr
    BY DEF TypeOK
  <2> QED BY <2>1, FrameNumbers DEF RecoverReset, Set, Goto, AfterHdr, Hdr
<1>2. aReadMark' \in [Slots -> 0..READMARK_NOT_USED]
  <2>1. aReadMark \in [Slots -> 0..READMARK_NOT_USED] /\ live \in Hdr
    BY DEF TypeOK
  <2> QED BY <2>1, FrameNumbers DEF RecoverReset, Set, Goto, AfterHdr, Hdr, READMARK_NOT_USED
<1>3. writer' \in Conns \cup {None}
  <2>1. writer \in Conns \cup {None}
    BY DEF TypeOK
  <2> QED BY <2>1 DEF RecoverReset, Set, Goto, AfterHdr
<1>4. ckpter' \in Conns \cup {None}
  <2>1. ckpter \in Conns \cup {None}
    BY DEF TypeOK
  <2> QED BY <2>1 DEF RecoverReset, Set, Goto, AfterHdr
<1>5. at' \in [Conns -> Steps]
  <2>1. at \in [Conns -> Steps]
    BY DEF TypeOK
  <2> QED BY <2>1 DEF RecoverReset, Set, Goto, Goto, AfterHdr, Steps
<1> QED BY <1>1, <1>2, <1>3, <1>4, <1>5 DEF TypeOK, RecoverReset, Goto, AfterHdr, files, index, reading,
                                        writing, checkpointing, ghosts

(* walTryBeginRead(), as far as it needs no slot to be chosen. *)
LEMMA ChooseTyped ==
    ASSUME TypeOK, NEW c \in Conns, Choose(c)
    PROVE  TypeOK'
<1>1. at' \in [Conns -> Steps]
  <2>1. at \in [Conns -> Steps]
    BY DEF TypeOK
  <2> QED BY <2>1 DEF Choose, Set, Goto, Goto, Retry, Opened, WhereToWrite, Steps
<1>2. readLock' \in [Conns -> -1..ReadMarks]
  <2>1. readLock \in [Conns -> -1..ReadMarks]
    BY DEF TypeOK
  <2> QED BY <2>1, BoundsAssumption DEF Choose, Set, Goto, Retry, Opened, WhereToWrite
<1>3. snap' \in [Conns -> [Pages -> Contents]]
  <2>1. snap \in [Conns -> [Pages -> Contents]] /\ latest \in [Pages -> Contents]
    BY DEF TypeOK
  <2> QED BY <2>1 DEF Choose, Set, Goto, Retry, Opened, WhereToWrite
<1> QED BY <1>1, <1>2, <1>3 DEF TypeOK, Choose, Goto, Retry, Opened, WhereToWrite, files, index, locks,
                                reading, writing, checkpointing, ghosts

LEMMA LockSlotTyped ==
    ASSUME TypeOK, NEW c \in Conns, LockSlot(c)
    PROVE  TypeOK'
<1>1. minFrame' \in [Conns -> 1..MaxFrame + 1]
  <2>1. minFrame \in [Conns -> 1..MaxFrame + 1] /\ nBackfill \in 0..MaxFrame
    BY DEF TypeOK
  <2> QED BY <2>1, FrameNumbers DEF LockSlot, Set, Goto, Retry
<1>2. at' \in [Conns -> Steps]
  <2>1. at \in [Conns -> Steps]
    BY DEF TypeOK
  <2> QED BY <2>1 DEF LockSlot, Set, Goto, Goto, Retry, Steps
<1> QED BY <1>1, <1>2 DEF TypeOK, LockSlot, Goto, Retry, files, index, locks, reading, writing,
                          checkpointing, ghosts

LEMMA VerifyTyped ==
    ASSUME TypeOK, NEW c \in Conns, Verify(c)
    PROVE  TypeOK'
<1>1. readLock' \in [Conns -> -1..ReadMarks]
  <2>1. readLock \in [Conns -> -1..ReadMarks] /\ slot \in [Conns -> [i : 0..ReadMarks, mark : 0..MaxFrame]]
    BY DEF TypeOK
  <2> QED BY <2>1, BoundsAssumption DEF Verify, Set, Goto, Retry, Opened, WhereToWrite
<1>2. snap' \in [Conns -> [Pages -> Contents]]
  <2>1. snap \in [Conns -> [Pages -> Contents]] /\ latest \in [Pages -> Contents]
    BY DEF TypeOK
  <2> QED BY <2>1 DEF Verify, Set, Goto, Retry, Opened, WhereToWrite
<1>3. at' \in [Conns -> Steps]
  <2>1. at \in [Conns -> Steps]
    BY DEF TypeOK
  <2> QED BY <2>1 DEF Verify, Set, Goto, Goto, Retry, Opened, WhereToWrite, Steps
<1>4. slot' \in [Conns -> [i : 0..ReadMarks, mark : 0..MaxFrame]]
  <2>1. slot \in [Conns -> [i : 0..ReadMarks, mark : 0..MaxFrame]]
    BY DEF TypeOK
  <2> QED BY <2>1, ConstantsTyped DEF Verify, Set, Goto, Retry, Opened, WhereToWrite
<1> QED BY <1>1, <1>2, <1>3, <1>4 DEF TypeOK, Verify, Goto, Retry, Opened, WhereToWrite, files, index,
                                      locks, reading, writing, checkpointing, ghosts

LEMMA EndReadTyped ==
    ASSUME TypeOK, NEW c \in Conns, EndRead(c)
    PROVE  TypeOK'
<1>1. readLock' \in [Conns -> -1..ReadMarks]
  <2>1. readLock \in [Conns -> -1..ReadMarks]
    BY DEF TypeOK
  <2> QED BY <2>1, BoundsAssumption DEF EndRead, Set
<1>2. minFrame' \in [Conns -> 1..MaxFrame + 1]
  <2>1. minFrame \in [Conns -> 1..MaxFrame + 1]
    BY DEF TypeOK
  <2> QED BY <2>1, FrameNumbers DEF EndRead, Set
<1> QED BY <1>1, <1>2 DEF TypeOK, EndRead, files, index, locks, reading, writing, checkpointing, ghosts

-----------------------------------------------------------------------------
(* Each step keeps the types: the writer. *)

LEMMA BeginWriteTyped ==
    ASSUME TypeOK, NEW c \in Conns, BeginWrite(c)
    PROVE  TypeOK'
<1>1. writer' \in Conns \cup {None}
  <2>1. writer \in Conns \cup {None}
    BY DEF TypeOK
  <2> QED BY <2>1 DEF BeginWrite, Set
<1>2. tx' \in [Conns -> [Pages -> Contents]]
  <2>1. tx \in [Conns -> [Pages -> Contents]]
    BY DEF TypeOK
  <2> QED BY <2>1, ConstantsTyped DEF BeginWrite, Set
<1> QED BY <1>1, <1>2 DEF TypeOK, BeginWrite, files, index, locks, reading, writing, checkpointing, ghosts

LEMMA ChangeTyped ==
    ASSUME TypeOK, NEW c \in Conns, NEW pg \in Pages, Change(c, pg)
    PROVE  TypeOK'
<1>1. nWrites' \in 0..MaxWrites
  <2>1. nWrites \in 0..MaxWrites
    BY DEF TypeOK
  <2> QED BY <2>1, BoundsAssumption DEF Change, Set
<1>2. tx' \in [Conns -> [Pages -> Contents]]
  <2>1. tx \in [Conns -> [Pages -> Contents]] /\ nWrites \in 0..MaxWrites
    BY DEF TypeOK
  <2> QED BY <2>1, BoundsAssumption DEF Change, Set, Contents
<1>3. dirty' \in [Conns -> SUBSET Pages]
  <2>1. dirty \in [Conns -> SUBSET Pages]
    BY DEF TypeOK
  <2> QED BY <2>1 DEF Change, Set
<1> QED BY <1>1, <1>2, <1>3 DEF TypeOK, Change, files, index, locks, reading, writing, checkpointing, ghosts

LEMMA CallFramesTyped ==
    ASSUME TypeOK, NEW c \in Conns, NEW list \in SUBSET Pages, NEW isCommit \in BOOLEAN, CallFrames(c, list, isCommit)
    PROVE  TypeOK'
<1>1. todo' \in [Conns -> SUBSET Pages]
  <2>1. todo \in [Conns -> SUBSET Pages]
    BY DEF TypeOK
  <2> QED BY <2>1 DEF CallFrames, Set, Goto, WhereToWrite
<1>2. commits' \in [Conns -> BOOLEAN]
  <2>1. commits \in [Conns -> BOOLEAN]
    BY DEF TypeOK
  <2> QED BY <2>1 DEF CallFrames, Set, Goto, WhereToWrite
<1>3. iFrame' \in [Conns -> 0..MaxFrame]
  <2>1. iFrame \in [Conns -> 0..MaxFrame] /\ hdr \in [Conns -> Hdr]
    BY DEF TypeOK
  <2> QED BY <2>1 DEF CallFrames, Set, Goto, WhereToWrite, Hdr
<1>4. at' \in [Conns -> Steps]
  <2>1. at \in [Conns -> Steps]
    BY DEF TypeOK
  <2> QED BY <2>1 DEF CallFrames, Set, Goto, Goto, WhereToWrite, Steps
<1> QED BY <1>1, <1>2, <1>3, <1>4 DEF TypeOK, CallFrames, Goto, WhereToWrite, files, index, locks, reading,
                                      writing, checkpointing, ghosts

LEMMA RestartTyped ==
    ASSUME TypeOK, NEW c \in Conns, Restart(c)
    PROVE  TypeOK'
<1>1. hdr' \in [Conns -> Hdr]
  <2>1. hdr \in [Conns -> Hdr] /\ hdr \in [Conns -> Hdr]
    BY DEF TypeOK
  <2> QED BY <2>1, RestartHdrIs DEF TypeOK, Restart, Set, RestartHdr, Goto
<1>2. live' \in Hdr
  <2>1. live \in Hdr /\ hdr \in [Conns -> Hdr]
    BY DEF TypeOK
  <2> QED BY <2>1, RestartHdrIs DEF TypeOK, Restart, Set, RestartHdr, Goto
<1>3. intact' \in BOOLEAN
  <2>1. intact \in BOOLEAN
    BY DEF TypeOK
  <2> QED BY <2>1 DEF Restart, Set, RestartHdr, Goto
<1>4. at' \in [Conns -> Steps]
  <2>1. at \in [Conns -> Steps]
    BY DEF TypeOK
  <2> QED BY <2>1 DEF Restart, Set, Goto, RestartHdr, Goto, Steps
<1>5. iFrame' \in [Conns -> 0..MaxFrame]
  <2>1. iFrame \in [Conns -> 0..MaxFrame]
    BY DEF TypeOK
  <2> QED BY <2>1, FrameNumbers DEF Restart, Set, RestartHdr, Goto
<1> QED BY <1>1, <1>2, <1>3, <1>4, <1>5 DEF TypeOK, Restart, RestartHdr, Goto, files, index, locks,
                                        reading, writing, checkpointing, ghosts

LEMMA RestartIndexTyped ==
    ASSUME TypeOK, NEW c \in Conns, RestartIndex(c)
    PROVE  TypeOK'
<1>1. nBackfill' \in 0..MaxFrame
  <2>1. nBackfill \in 0..MaxFrame
    BY DEF TypeOK
  <2> QED BY <2>1, FrameNumbers DEF RestartIndex, Set, Goto
<1>2. aReadMark' \in [Slots -> 0..READMARK_NOT_USED]
  <2>1. aReadMark \in [Slots -> 0..READMARK_NOT_USED]
    BY DEF TypeOK
  <2> QED BY <2>1, FrameNumbers DEF RestartIndex, Set, Goto, READMARK_NOT_USED
<1>3. at' \in [Conns -> Steps]
  <2>1. at \in [Conns -> Steps]
    BY DEF TypeOK
  <2> QED BY <2>1 DEF RestartIndex, Set, Goto, Goto, Steps
<1>4. readLock' \in [Conns -> -1..ReadMarks]
  <2>1. readLock \in [Conns -> -1..ReadMarks]
    BY DEF TypeOK
  <2> QED BY <2>1, BoundsAssumption DEF RestartIndex, Set, Goto
<1> QED BY <1>1, <1>2, <1>3, <1>4 DEF TypeOK, RestartIndex, Goto, files, index, locks, reading, writing,
                                      checkpointing, ghosts

LEMMA KeepLogTyped ==
    ASSUME TypeOK, NEW c \in Conns, KeepLog(c)
    PROVE  TypeOK'
<1>1. readLock' \in [Conns -> -1..ReadMarks]
  <2>1. readLock \in [Conns -> -1..ReadMarks]
    BY DEF TypeOK
  <2> QED BY <2>1, BoundsAssumption DEF KeepLog, Set, Goto
<1>2. at' \in [Conns -> Steps]
  <2>1. at \in [Conns -> Steps]
    BY DEF TypeOK
  <2> QED BY <2>1 DEF KeepLog, Set, Goto, Goto, Steps
<1> QED BY <1>1, <1>2 DEF TypeOK, KeepLog, Goto, files, index, locks, reading, writing, checkpointing, ghosts

LEMMA SyncHdrTyped ==
    ASSUME TypeOK, NEW c \in Conns, SyncHdr(c)
    PROVE  TypeOK'
<1>1. logDisk' \in Log
  <2>1. logDisk \in Log /\ log \in Log
    BY DEF TypeOK
  <2> QED BY <2>1 DEF SyncHdr, Set, Goto
<1>2. at' \in [Conns -> Steps]
  <2>1. at \in [Conns -> Steps]
    BY DEF TypeOK
  <2> QED BY <2>1 DEF SyncHdr, Set, Goto, Goto, Steps
<1> QED BY <1>1, <1>2 DEF TypeOK, SyncHdr, Goto, files, index, locks, reading, writing, checkpointing, ghosts

LEMMA SyncLogTyped ==
    ASSUME TypeOK, NEW c \in Conns, SyncLog(c)
    PROVE  TypeOK'
<1>1. logDisk' \in Log
  <2>1. logDisk \in Log /\ log \in Log
    BY DEF TypeOK
  <2> QED BY <2>1 DEF SyncLog, Set, Goto
<1>2. at' \in [Conns -> Steps]
  <2>1. at \in [Conns -> Steps]
    BY DEF TypeOK
  <2> QED BY <2>1 DEF SyncLog, Set, Goto, Goto, Steps
<1> QED BY <1>1, <1>2 DEF TypeOK, SyncLog, Goto, files, index, locks, reading, writing, checkpointing, ghosts

LEMMA RollbackTyped ==
    ASSUME TypeOK, NEW c \in Conns, Rollback(c)
    PROVE  TypeOK'
<1>1. hdr' \in [Conns -> Hdr]
  <2>1. hdr \in [Conns -> Hdr] /\ live \in Hdr
    BY DEF TypeOK
  <2> QED BY <2>1 DEF Rollback, Set
<1>2. reCksum' \in [Conns -> 0..MaxFrame]
  <2>1. reCksum \in [Conns -> 0..MaxFrame]
    BY DEF TypeOK
  <2> QED BY <2>1, FrameNumbers DEF Rollback, Set
<1>3. dirty' \in [Conns -> SUBSET Pages]
  <2>1. dirty \in [Conns -> SUBSET Pages]
    BY DEF TypeOK
  <2> QED BY <2>1 DEF Rollback, Set
<1>4. tx' \in [Conns -> [Pages -> Contents]]
  <2>1. tx \in [Conns -> [Pages -> Contents]]
    BY DEF TypeOK
  <2> QED BY <2>1, ConstantsTyped DEF Rollback, Set
<1>5. writer' \in Conns \cup {None}
  <2>1. writer \in Conns \cup {None}
    BY DEF TypeOK
  <2> QED BY <2>1 DEF Rollback, Set
<1> QED BY <1>1, <1>2, <1>3, <1>4, <1>5 DEF TypeOK, Rollback, files, index, locks, reading, writing,
                                        checkpointing, ghosts

-----------------------------------------------------------------------------
(* Each step keeps the types: checkpoints. *)

LEMMA CheckpointTyped ==
    ASSUME TypeOK, NEW c \in Conns, NEW eMode \in {"PASSIVE", "TRUNCATE"}, Checkpoint(c, eMode)
    PROVE  TypeOK'
<1>1. ckpter' \in Conns \cup {None}
  <2>1. ckpter \in Conns \cup {None}
    BY DEF TypeOK
  <2> QED BY <2>1 DEF Checkpoint, Set, Goto
<1>2. writer' \in Conns \cup {None}
  <2>1. writer \in Conns \cup {None}
    BY DEF TypeOK
  <2> QED BY <2>1 DEF Checkpoint, Set, Goto
<1>3. mode' \in [Conns -> Modes]
  <2>1. mode \in [Conns -> Modes]
    BY DEF TypeOK
  <2> QED BY <2>1 DEF Checkpoint, Set, Goto, Modes
<1>4. at' \in [Conns -> Steps]
  <2>1. at \in [Conns -> Steps]
    BY DEF TypeOK
  <2> QED BY <2>1 DEF Checkpoint, Set, Goto, Goto, Steps
<1> QED BY <1>1, <1>2, <1>3, <1>4 DEF TypeOK, Checkpoint, Goto, files, index, reading, writing,
                                      checkpointing, ghosts

LEMMA CkptNothingTyped ==
    ASSUME TypeOK, NEW c \in Conns, CkptNothing(c)
    PROVE  TypeOK'
<1>1. at' \in [Conns -> Steps]
  <2>1. at \in [Conns -> Steps]
    BY DEF TypeOK
  <2> QED BY <2>1 DEF CkptNothing, Set, Goto, Goto, Steps
<1> QED BY <1>1 DEF TypeOK, CkptNothing, Goto, files, index, locks, reading, writing, checkpointing, ghosts

LEMMA CkptLockTyped ==
    ASSUME TypeOK, NEW c \in Conns, CkptLock(c)
    PROVE  TypeOK'
<1>1. logDisk' \in Log
  <2>1. logDisk \in Log /\ log \in Log
    BY DEF TypeOK
  <2> QED BY <2>1 DEF CkptLock, Set, Goto
<1>2. at' \in [Conns -> Steps]
  <2>1. at \in [Conns -> Steps]
    BY DEF TypeOK
  <2> QED BY <2>1 DEF CkptLock, Set, Goto, Goto, Steps
<1> QED BY <1>1, <1>2 DEF TypeOK, CkptLock, Goto, files, index, locks, reading, writing, checkpointing, ghosts

LEMMA CkptSkipTyped ==
    ASSUME TypeOK, NEW c \in Conns, CkptSkip(c)
    PROVE  TypeOK'
<1>1. at' \in [Conns -> Steps]
  <2>1. at \in [Conns -> Steps]
    BY DEF TypeOK
  <2> QED BY <2>1 DEF CkptSkip, Set, Goto, Goto, Steps
<1> QED BY <1>1 DEF TypeOK, CkptSkip, Goto, files, index, locks, reading, writing, checkpointing, ghosts

LEMMA CkptDoneTyped ==
    ASSUME TypeOK, NEW c \in Conns, CkptDone(c)
    PROVE  TypeOK'
<1>1. dbDisk' \in [Pages -> Contents]
  <2>1. dbDisk \in [Pages -> Contents] /\ db \in [Pages -> Contents]
    BY DEF TypeOK
  <2> QED BY <2>1 DEF CkptDone, Set, Goto
<1>2. nBackfill' \in 0..MaxFrame
  <2>1. nBackfill \in 0..MaxFrame /\ mxSafe \in [Conns -> 0..MaxFrame]
    BY DEF TypeOK
  <2> QED BY <2>1 DEF CkptDone, Set, Goto
<1>3. at' \in [Conns -> Steps]
  <2>1. at \in [Conns -> Steps]
    BY DEF TypeOK
  <2> QED BY <2>1 DEF CkptDone, Set, Goto, Goto, Steps
<1> QED BY <1>1, <1>2, <1>3 DEF TypeOK, CkptDone, Goto, files, index, locks, reading, writing,
                                checkpointing, ghosts

LEMMA CkptRestartTyped ==
    ASSUME TypeOK, NEW c \in Conns, CkptRestart(c)
    PROVE  TypeOK'
<1>1. hdr' \in [Conns -> Hdr]
  <2>1. hdr \in [Conns -> Hdr] /\ hdr \in [Conns -> Hdr]
    BY DEF TypeOK
  <2> QED BY <2>1, RestartHdrIs DEF TypeOK, CkptRestart, Set, RestartHdr, Goto
<1>2. live' \in Hdr
  <2>1. live \in Hdr /\ hdr \in [Conns -> Hdr]
    BY DEF TypeOK
  <2> QED BY <2>1, RestartHdrIs DEF TypeOK, CkptRestart, Set, RestartHdr, Goto
<1>3. intact' \in BOOLEAN
  <2>1. intact \in BOOLEAN
    BY DEF TypeOK
  <2> QED BY <2>1 DEF CkptRestart, Set, RestartHdr, Goto
<1>4. at' \in [Conns -> Steps]
  <2>1. at \in [Conns -> Steps]
    BY DEF TypeOK
  <2> QED BY <2>1 DEF CkptRestart, Set, Goto, RestartHdr, Goto, Steps
<1> QED BY <1>1, <1>2, <1>3, <1>4 DEF TypeOK, CkptRestart, RestartHdr, Goto, files, index, locks, reading,
                                      writing, checkpointing, ghosts

LEMMA CkptEndTyped ==
    ASSUME TypeOK, NEW c \in Conns, CkptEnd(c)
    PROVE  TypeOK'
<1>1. hdr' \in [Conns -> Hdr]
  <2>1. hdr \in [Conns -> Hdr]
    BY DEF TypeOK
  <2> QED BY <2>1, ConstantsTyped DEF CkptEnd, Set, CkptReturn, Unlocked, Goto, ForgetHdr
<1>2. snap' \in [Conns -> [Pages -> Contents]]
  <2>1. snap \in [Conns -> [Pages -> Contents]]
    BY DEF TypeOK
  <2> QED BY <2>1, ConstantsTyped DEF CkptEnd, Set, CkptReturn, Unlocked, Goto, ForgetHdr
<1>3. writer' \in Conns \cup {None}
  <2>1. writer \in Conns \cup {None}
    BY DEF TypeOK
  <2> QED BY <2>1 DEF CkptEnd, Set, CkptReturn, Unlocked, Goto
<1>4. ckpter' \in Conns \cup {None}
  <2>1. ckpter \in Conns \cup {None}
    BY DEF TypeOK
  <2> QED BY <2>1 DEF CkptEnd, Set, CkptReturn, Unlocked, Goto
<1>5. mode' \in [Conns -> Modes]
  <2>1. mode \in [Conns -> Modes]
    BY DEF TypeOK
  <2> QED BY <2>1 DEF CkptEnd, Set, CkptReturn, Unlocked, Goto, Modes
<1>6. isChanged' \in [Conns -> BOOLEAN]
  <2>1. isChanged \in [Conns -> BOOLEAN]
    BY DEF TypeOK
  <2> QED BY <2>1 DEF CkptEnd, Set, CkptReturn, Unlocked, Goto
<1>7. mxSafe' \in [Conns -> 0..MaxFrame]
  <2>1. mxSafe \in [Conns -> 0..MaxFrame]
    BY DEF TypeOK
  <2> QED BY <2>1, FrameNumbers DEF CkptEnd, Set, CkptReturn, Unlocked, Goto
<1>8. at' \in [Conns -> Steps]
  <2>1. at \in [Conns -> Steps]
    BY DEF TypeOK
  <2> QED BY <2>1 DEF CkptEnd, Set, Goto, CkptReturn, Unlocked, Goto, Steps
<1> QED BY <1>1, <1>2, <1>3, <1>4, <1>5, <1>6, <1>7, <1>8 DEF TypeOK, CkptEnd, CkptReturn, Unlocked, Goto,
                                        files, index, reading, writing, checkpointing, ghosts

LEMMA TruncateTyped ==
    ASSUME TypeOK, NEW c \in Conns, Truncate(c)
    PROVE  TypeOK'
<1>1. log' \in Log
  <2>1. log \in Log
    BY DEF TypeOK
  <2> QED BY <2>1, ConstantsTyped DEF Truncate, Set, CkptReturn, Unlocked, Goto
<1>2. hdr' \in [Conns -> Hdr]
  <2>1. hdr \in [Conns -> Hdr]
    BY DEF TypeOK
  <2> QED BY <2>1, ConstantsTyped DEF Truncate, Set, CkptReturn, Unlocked, Goto, ForgetHdr
<1>3. snap' \in [Conns -> [Pages -> Contents]]
  <2>1. snap \in [Conns -> [Pages -> Contents]]
    BY DEF TypeOK
  <2> QED BY <2>1, ConstantsTyped DEF Truncate, Set, CkptReturn, Unlocked, Goto, ForgetHdr
<1>4. writer' \in Conns \cup {None}
  <2>1. writer \in Conns \cup {None}
    BY DEF TypeOK
  <2> QED BY <2>1 DEF Truncate, Set, CkptReturn, Unlocked, Goto
<1>5. ckpter' \in Conns \cup {None}
  <2>1. ckpter \in Conns \cup {None}
    BY DEF TypeOK
  <2> QED BY <2>1 DEF Truncate, Set, CkptReturn, Unlocked, Goto
<1>6. mode' \in [Conns -> Modes]
  <2>1. mode \in [Conns -> Modes]
    BY DEF TypeOK
  <2> QED BY <2>1 DEF Truncate, Set, CkptReturn, Unlocked, Goto, Modes
<1>7. isChanged' \in [Conns -> BOOLEAN]
  <2>1. isChanged \in [Conns -> BOOLEAN]
    BY DEF TypeOK
  <2> QED BY <2>1 DEF Truncate, Set, CkptReturn, Unlocked, Goto
<1>8. mxSafe' \in [Conns -> 0..MaxFrame]
  <2>1. mxSafe \in [Conns -> 0..MaxFrame]
    BY DEF TypeOK
  <2> QED BY <2>1, FrameNumbers DEF Truncate, Set, CkptReturn, Unlocked, Goto
<1>9. at' \in [Conns -> Steps]
  <2>1. at \in [Conns -> Steps]
    BY DEF TypeOK
  <2> QED BY <2>1 DEF Truncate, Set, Goto, CkptReturn, Unlocked, Goto, Steps
<1> QED BY <1>1, <1>2, <1>3, <1>4, <1>5, <1>6, <1>7, <1>8, <1>9 DEF TypeOK, Truncate, CkptReturn, Unlocked,
                                        Goto, files, index, reading, writing, checkpointing, ghosts

-----------------------------------------------------------------------------
(* Each step keeps the types: frames. A log with one frame replaced. *)

LEMMA LogWith ==
    ASSUME NEW l \in Log, NEW i \in Frames, NEW f \in Frame
    PROVE  LET m == [l EXCEPT !.frame[i] = f]
           IN  /\ m \in Log /\ m.salt = l.salt /\ m.frame[i] = f
               /\ \A k \in Frames \ {i} : m.frame[k] = l.frame[k]
BY DEF Log

(* sqlite3WalFrames(): what a new header of the log leaves. *)
LEMMA WalHdrIs ==
    ASSUME TypeOK, NEW c \in Conns, WalHdr(c), hdr[c].salt \in Nat
    PROVE  \E salt \in Nat \ {0}, h \in Hdr :
              /\ salt = FreshSalt \/ salt = hdr[c].salt
              /\ salt = FreshSalt => hdr[c].salt \in {0, log.salt}
              /\ h.salt = salt /\ h.mxFrame = hdr[c].mxFrame /\ hdr' = Set(hdr, c, h)
              /\ log' \in Log /\ log'.salt = salt /\ log'.frame = log.frame
<1>1. hdr \in [Conns -> Hdr] /\ log \in Log /\ FreshSalt \in Nat \ {0} /\ FreshSalt # hdr[c].salt
  BY FreshSaltIs DEF TypeOK
<1>2. PICK salt \in ({hdr[c].salt} \ {0}) \cup IF hdr[c].salt \in {0, log.salt} THEN {FreshSalt} ELSE {} :
         hdr' = [hdr EXCEPT ![c].salt = salt] /\ log' = [log EXCEPT !.salt = salt]
  BY DEF WalHdr
<1>3. salt \in Nat \ {0} /\ (salt = FreshSalt \/ salt = hdr[c].salt)
      /\ (salt = FreshSalt => hdr[c].salt \in {0, log.salt})
  BY <1>1, <1>2
<1> DEFINE h == [salt |-> salt, mxFrame |-> hdr[c].mxFrame, iChange |-> hdr[c].iChange]
<1>4. h \in Hdr
  BY <1>1, <1>3 DEF Hdr
<1>5. [hdr[c] EXCEPT !.salt = salt] = h
  BY <1>1 DEF Hdr
<1>6. hdr' = Set(hdr, c, h)
  BY <1>1, <1>2, <1>5 DEF Set
<1>7. log' \in Log /\ log'.salt = salt /\ log'.frame = log.frame
  BY <1>1, <1>2, <1>3 DEF Log
<1>8. h.salt = salt /\ h.mxFrame = hdr[c].mxFrame
  OBVIOUS
<1> HIDE DEF h
<1> QED BY <1>3, <1>4, <1>6, <1>7, <1>8

LEMMA WalHdrTyped ==
    ASSUME TypeOK, NEW c \in Conns, WalHdr(c), hdr[c].salt \in Nat
    PROVE  TypeOK'
<1>1. hdr' \in [Conns -> Hdr] /\ log' \in Log
  <2>1. hdr \in [Conns -> Hdr]
    BY DEF TypeOK
  <2>2. \A h \in Hdr : Set(hdr, c, h) \in [Conns -> Hdr]
    BY <2>1 DEF Set
  <2> QED BY <2>2, WalHdrIs
<1>2. at' \in [Conns -> Steps]
  BY DEF TypeOK, WalHdr, Goto, Set, Steps
<1> QED BY <1>1, <1>2 DEF TypeOK, WalHdr, files, index, locks, reading, writing, checkpointing, ghosts

(* What the writer is about to write. *)
LEMMA PageIs ==
    ASSUME TypeOK, NEW c \in Conns, todo[c] # {}
    PROVE  /\ Page(c) \in todo[c] /\ Page(c) \in Pages
           /\ \A pg \in Pages : View(c, pg) \in Contents
<1>1. todo[c] \in SUBSET Nat /\ todo[c] \subseteq Pages
  <2>1. todo \in [Conns -> SUBSET Pages]
    BY DEF TypeOK
  <2> QED BY <2>1, FrameNumbers
<1>2. Page(c) \in todo[c]
  BY <1>1, MinIs DEF Page
<1>3. ASSUME NEW pg \in Pages PROVE View(c, pg) \in Contents
  <2>1. tx[c][pg] \in Contents /\ db[pg] \in Contents
    BY DEF TypeOK
  <2>2. Content(db, log, pg, minFrame[c], hdr[c].mxFrame) \in Contents
    <3>1. db \in [Pages -> Contents] /\ log \in Log /\ minFrame[c] \in Nat \ {0} /\ hdr[c].mxFrame \in 0..MaxFrame
      <4>1. db \in [Pages -> Contents] /\ log \in Log /\ minFrame \in [Conns -> 1..MaxFrame + 1] /\ hdr \in [Conns -> Hdr]
        BY DEF TypeOK
      <4> QED BY <4>1, FrameNumbers DEF Hdr
    <3> QED BY <3>1, ContentTyped
  <2> QED BY <2>1, <2>2 DEF View
<1> QED BY <1>1, <1>2, <1>3

(* The frame that this transaction already wrote for the page, if there is *)
(* one.                                                                    *)
LEMMA SpilledIs ==
    ASSUME TypeOK, NEW c \in Conns
    PROVE  /\ Spilled(c) # 0 =>
                 /\ Spilled(c) \in Frames /\ live.mxFrame < Spilled(c) /\ Spilled(c) <= hdr[c].mxFrame
                 /\ hdr[c] # live /\ ~(commits[c] /\ IsLast(c))
                 /\ log.frame[Spilled(c)].pg = Page(c)
                 /\ \A k \in Spilled(c) + 1..hdr[c].mxFrame : log.frame[k].pg # Page(c)
           /\ Spilled(c) = 0 /\ hdr[c] # live /\ ~(commits[c] /\ IsLast(c)) =>
                 \A k \in live.mxFrame + 1..hdr[c].mxFrame : log.frame[k].pg # Page(c)
<1> DEFINE i == Find(log, Page(c), live.mxFrame + 1, hdr[c].mxFrame)
<1>1. live.mxFrame \in Nat /\ hdr[c].mxFrame \in 0..MaxFrame
  BY FrameNumbers DEF TypeOK, Hdr
<1>2. IsLastOf(i, log, Page(c), live.mxFrame + 1, hdr[c].mxFrame)
  BY <1>1, FrameNumbers, FindIs
<1>3. Spilled(c) = IF hdr[c] = live \/ (commits[c] /\ IsLast(c)) THEN 0 ELSE i
  BY DEF Spilled
<1> HIDE DEF i
<1>4. i # 0 => /\ i \in Frames /\ live.mxFrame < i /\ i <= hdr[c].mxFrame /\ log.frame[i].pg = Page(c)
               /\ \A k \in i + 1..hdr[c].mxFrame : log.frame[k].pg # Page(c)
  BY <1>1, <1>2, FrameNumbers DEF IsLastOf
<1>5. i = 0 => \A k \in live.mxFrame + 1..hdr[c].mxFrame : log.frame[k].pg # Page(c)
  BY <1>2 DEF IsLastOf
<1> QED BY <1>3, <1>4, <1>5

(* sqlite3WalFrames(): the content of a spilled frame is replaced, its *)
(* checksum is not.                                                    *)
LEMMA OverwriteIs ==
    ASSUME TypeOK, NEW c \in Conns, Overwrite(c), todo[c] # {}
    PROVE  LET i == Spilled(c)
           IN  /\ log' \in Log /\ log'.salt = log.salt /\ i \in Frames
               /\ log'.frame[i] = [log.frame[i] EXCEPT !.val = View(c, Page(c))]
               /\ log'.frame[i].pg = log.frame[i].pg /\ log'.frame[i].val = View(c, Page(c))
               /\ log'.frame[i].commit = log.frame[i].commit
               /\ log'.frame[i].salt = log.frame[i].salt
               /\ \A k \in Frames \ {i} : log'.frame[k] = log.frame[k]
<1> DEFINE i == Spilled(c)
           v == View(c, Page(c))
           f == [log.frame[i] EXCEPT !.val = v]
<1>1. i \in Frames /\ v \in Contents
  BY PageIs, SpilledIs, FrameNumbers DEF Overwrite
<1>2. log \in Log /\ log.frame[i] \in Frame
  BY <1>1 DEF TypeOK, Log
<1>3. f \in Frame /\ f.pg = log.frame[i].pg /\ f.val = v /\ f.commit = log.frame[i].commit /\ f.salt = log.frame[i].salt
  BY <1>1, <1>2 DEF Frame
<1>4. log' = [log EXCEPT !.frame[i] = f]
  BY DEF Overwrite
<1> HIDE DEF f, i, v
<1>5. log' \in Log /\ log'.salt = log.salt /\ log'.frame[i] = f /\ \A k \in Frames \ {i} : log'.frame[k] = log.frame[k]
  BY <1>1, <1>2, <1>3, <1>4, LogWith
<1> QED BY <1>1, <1>3, <1>5 DEF i, f, v

(* A page is taken from the list. *)
LEMMA WrittenTyped ==
    ASSUME TypeOK, NEW c \in Conns, NEW stale, Written(c, stale)
    PROVE  at' \in [Conns -> Steps] /\ todo' \in [Conns -> SUBSET Pages] /\ dirty' \in [Conns -> SUBSET Pages]
<1>1. at \in [Conns -> Steps] /\ todo \in [Conns -> SUBSET Pages] /\ dirty \in [Conns -> SUBSET Pages]
  BY DEF TypeOK
<1> QED BY <1>1 DEF Written, Goto, Set, Steps

LEMMA OverwriteTyped ==
    ASSUME TypeOK, NEW c \in Conns, Overwrite(c), todo[c] # {}
    PROVE  TypeOK'
<1>1. log' \in Log
  BY OverwriteIs
<1>2. at' \in [Conns -> Steps] /\ todo' \in [Conns -> SUBSET Pages] /\ dirty' \in [Conns -> SUBSET Pages]
  BY WrittenTyped DEF Overwrite
<1>3. reCksum' \in [Conns -> 0..MaxFrame]
  <2>1. reCksum \in [Conns -> 0..MaxFrame] /\ Spilled(c) \in 0..MaxFrame
    <3>1. Spilled(c) \in Frames
      BY SpilledIs DEF Overwrite
    <3>2. reCksum \in [Conns -> 0..MaxFrame]
      BY DEF TypeOK
    <3> QED BY <3>1, <3>2, FrameNumbers
  <2>2. Min({reCksum[c], Spilled(c)}) \in {reCksum[c], Spilled(c)}
    <3>1. {reCksum[c], Spilled(c)} \in SUBSET Nat
      BY <2>1
    <3> QED BY <3>1, MinIs
  <2>3. Min({reCksum[c], Spilled(c)}) \in 0..MaxFrame
    BY <2>1, <2>2
  <2> QED BY <2>1, <2>3 DEF Overwrite
<1> QED BY <1>1, <1>2, <1>3 DEF TypeOK, Overwrite, files, index, locks, reading, writing, checkpointing,
                                ghosts

(* Checksums and frames. *)
LEMMA SumTyped ==
    ASSUME NEW l \in Log, NEW i \in 0..MaxFrame
    PROVE  Sum(l, i) \in Seq(Body) /\ Len(Sum(l, i)) = i /\ \A k \in 1..i : Sum(l, i)[k] = BodyOf(l.frame[k])
<1>1. \A k \in 1..i : BodyOf(l.frame[k]) \in Body
  BY FrameNumbers DEF Log, Frame, BodyOf, Body
<1> QED BY <1>1, FrameNumbers DEF Sum

LEMMA EncodedTyped ==
    ASSUME NEW salt \in Nat, NEW body \in Body, NEW sum \in Seq(Body)
    PROVE  LET f == Encoded(salt, body, sum)
           IN  /\ f \in Frame /\ f.salt = salt /\ f.sum = sum /\ BodyOf(f) = body
               /\ f.pg = body.pg /\ f.val = body.val /\ f.commit = body.commit
BY DEF Body, Encoded, Frame, BodyOf

(* walWriteOneFrame(): one frame is added behind the last. *)
LEMMA AppendIs ==
    ASSUME TypeOK, NEW c \in Conns, AppendFrame(c), todo[c] # {}, hdr[c].salt \in Nat
    PROVE  LET i == iFrame[c] + 1
               f == log'.frame[i]
           IN  /\ i \in Frames /\ log' \in Log /\ log'.salt = log.salt
               /\ f.pg = Page(c) /\ f.val = View(c, Page(c)) /\ f.commit = (commits[c] /\ IsLast(c))
               /\ reCksum[c] = 0 => f.salt = hdr[c].salt /\ f.sum = Append(Sum(log, i - 1), BodyOf(f))
               /\ reCksum[c] # 0 => f.salt = 0 /\ f.sum = << >>
               /\ \A k \in Frames \ {i} : log'.frame[k] = log.frame[k]
<1> DEFINE i == iFrame[c] + 1
           body == [pg |-> Page(c), val |-> View(c, Page(c)), commit |-> commits[c] /\ IsLast(c)]
           good == Encoded(hdr[c].salt, body, Append(Sum(log, i - 1), body))
           bad == Encoded(0, body, << >>)
           f == IF reCksum[c] = 0 THEN good ELSE bad
<1>1. i \in Frames /\ i - 1 \in 0..MaxFrame
  <2>1. iFrame[c] \in 0..MaxFrame /\ iFrame[c] < MaxFrame
    BY DEF TypeOK, AppendFrame
  <2> QED BY <2>1, FrameNumbers
<1>2. body \in Body /\ body.pg = Page(c) /\ body.val = View(c, Page(c)) /\ body.commit = (commits[c] /\ IsLast(c))
  <2>1. Page(c) \in 0..MaxPage /\ View(c, Page(c)) \in Contents
    BY PageIs, FrameNumbers
  <2> QED BY <2>1 DEF Body
<1>3. log' = [log EXCEPT !.frame[i] = f]
  BY DEF AppendFrame
<1>4. log \in Log /\ Sum(log, i - 1) \in Seq(Body)
  BY <1>1, SumTyped DEF TypeOK
<1> HIDE DEF i, body
<1>5. Append(Sum(log, i - 1), body) \in Seq(Body) /\ << >> \in Seq(Body)
  BY <1>2, <1>4
<1>6. good \in Frame /\ good.salt = hdr[c].salt /\ BodyOf(good) = body
      /\ good.pg = body.pg /\ good.val = body.val /\ good.commit = body.commit
      /\ good.sum = Append(Sum(log, i - 1), body)
  BY <1>2, <1>5 DEF Encoded, Frame, Body, BodyOf
<1>7. bad \in Frame /\ bad.salt = 0 /\ bad.sum = << >> /\ bad.pg = body.pg /\ bad.val = body.val /\ bad.commit = body.commit
  BY <1>2, <1>5 DEF Encoded, Frame, Body, BodyOf
<1> HIDE DEF good, bad
<1>8. f \in Frame
  BY <1>6, <1>7
<1>9. log' \in Log /\ log'.salt = log.salt /\ log'.frame[i] = f /\ \A k \in Frames \ {i} : log'.frame[k] = log.frame[k]
  <2> HIDE DEF f
  <2> QED BY <1>1, <1>3, <1>4, <1>8, LogWith
<1> QED BY <1>1, <1>2, <1>6, <1>7, <1>9 DEF i

LEMMA AppendFrameTyped ==
    ASSUME TypeOK, NEW c \in Conns, AppendFrame(c), todo[c] # {}, hdr[c].salt \in Nat
    PROVE  TypeOK'
<1>1. log' \in Log /\ iFrame[c] + 1 \in Frames
  BY AppendIs
<1>2. at' \in [Conns -> Steps] /\ todo' \in [Conns -> SUBSET Pages] /\ dirty' \in [Conns -> SUBSET Pages]
  BY WrittenTyped DEF AppendFrame
<1>3. iFrame' \in [Conns -> 0..MaxFrame]
  <2>1. iFrame \in [Conns -> 0..MaxFrame] /\ iFrame[c] + 1 \in 0..MaxFrame
    <3>1. iFrame \in [Conns -> 0..MaxFrame]
      BY DEF TypeOK
    <3> QED BY <1>1, <3>1, FrameNumbers
  <2>2. iFrame' = Set(iFrame, c, iFrame[c] + 1)
    BY DEF AppendFrame
  <2> QED BY <2>1, <2>2 DEF Set
<1>4. unreported' \subseteq [Pages -> Contents]
  <2>1. latest \in [Pages -> Contents] /\ tx[c] \in [Pages -> Contents] /\ unreported \subseteq [Pages -> Contents]
    BY DEF TypeOK
  <2>2. Overlay(latest, tx[c]) \in [Pages -> Contents]
    BY <2>1 DEF Overlay
  <2>3. unreported' \subseteq unreported \cup {Overlay(latest, tx[c])}
    BY DEF AppendFrame
  <2> QED BY <2>1, <2>2, <2>3
<1> QED BY <1>1, <1>2, <1>3, <1>4 DEF TypeOK, AppendFrame, files, index, locks, reading, writing,
                                      checkpointing, ghosts

(* walRewriteChecksums(): one frame gets the checksum of what it holds. *)
LEMMA RewriteIs ==
    ASSUME TypeOK, NEW c \in Conns, RewriteChecksum(c), hdr[c].salt \in Nat, reCksum[c] # 0
    PROVE  LET i == reCksum[c]
               f == log'.frame[i]
           IN  /\ i \in Frames /\ log' \in Log /\ log'.salt = log.salt
               /\ f.pg = log.frame[i].pg /\ f.val = log.frame[i].val /\ f.commit = log.frame[i].commit
               /\ f.salt = hdr[c].salt /\ f.sum = Sum(log, i) /\ BodyOf(f) = BodyOf(log.frame[i])
               /\ \A k \in Frames \ {i} : log'.frame[k] = log.frame[k]
<1> DEFINE i == reCksum[c]
           body == BodyOf(log.frame[i])
           f == Encoded(hdr[c].salt, body, Sum(log, i))
<1>1. i \in Frames /\ i \in 0..MaxFrame
  BY FrameNumbers DEF TypeOK
<1>2. log \in Log /\ log.frame[i] \in Frame
  BY <1>1 DEF TypeOK, Log
<1>3. body \in Body /\ body.pg = log.frame[i].pg /\ body.val = log.frame[i].val /\ body.commit = log.frame[i].commit
  BY <1>2 DEF Frame, BodyOf, Body
<1>4. Sum(log, i) \in Seq(Body)
  BY <1>1, <1>2, SumTyped
<1>5. log' = [log EXCEPT !.frame[i] = f]
  BY <1>2 DEF RewriteChecksum, Log
<1> HIDE DEF i, body
<1>6. f \in Frame /\ f.salt = hdr[c].salt /\ f.sum = Sum(log, i) /\ BodyOf(f) = body
      /\ f.pg = body.pg /\ f.val = body.val /\ f.commit = body.commit
  BY <1>3, <1>4, EncodedTyped
<1> HIDE DEF f
<1>7. log' \in Log /\ log'.salt = log.salt /\ log'.frame[i] = f /\ \A k \in Frames \ {i} : log'.frame[k] = log.frame[k]
  BY <1>1, <1>2, <1>5, <1>6, LogWith
<1> QED BY <1>1, <1>3, <1>6, <1>7 DEF i, body

LEMMA RewriteChecksumTyped ==
    ASSUME TypeOK, NEW c \in Conns, RewriteChecksum(c), hdr[c].salt \in Nat, reCksum[c] # 0, reCksum[c] <= iFrame[c]
    PROVE  TypeOK'
<1>1. log' \in Log
  BY RewriteIs
<1>2. at' \in [Conns -> Steps]
  <2>1. at \in [Conns -> Steps]
    BY DEF TypeOK
  <2> QED BY <2>1 DEF RewriteChecksum, Goto, Set, Steps
<1>3. reCksum' \in [Conns -> 0..MaxFrame]
  <2>1. reCksum \in [Conns -> 0..MaxFrame] /\ iFrame[c] \in 0..MaxFrame /\ reCksum[c] \in 0..MaxFrame
    BY DEF TypeOK
  <2>2. CASE reCksum[c] = iFrame[c]
    BY <2>1, <2>2, FrameNumbers DEF RewriteChecksum, Set
  <2>3. CASE reCksum[c] # iFrame[c]
    <3>1. reCksum[c] + 1 \in 0..MaxFrame
      BY <2>1, <2>3, FrameNumbers
    <3> QED BY <2>1, <2>3, <3>1 DEF RewriteChecksum, Set
  <2> QED BY <2>2, <2>3
<1> QED BY <1>1, <1>2, <1>3 DEF TypeOK, RewriteChecksum, files, index, locks, reading, writing,
                                checkpointing, ghosts

(* sqlite3WalFrames(): the header after the frames. *)
LEMMA PublishIs ==
    ASSUME TypeOK, NEW c \in Conns, Publish(c)
    PROVE  LET h == hdr'[c]
           IN  /\ h \in Hdr /\ h.salt = hdr[c].salt /\ h.mxFrame = iFrame[c] /\ hdr' = Set(hdr, c, h)
               /\ commits[c] =>
                     /\ live' = h /\ intact' = TRUE
                     /\ latest' \in [Pages -> Contents]
                     /\ \A pg \in Pages : latest'[pg] = Content(db, log, pg, 1, iFrame[c])
<1> DEFINE h == [salt |-> hdr[c].salt, mxFrame |-> iFrame[c],
                 iChange |-> IF commits[c] THEN hdr[c].iChange + 1 ELSE hdr[c].iChange]
<1>1. hdr \in [Conns -> Hdr] /\ hdr[c] \in Hdr /\ iFrame[c] \in 0..MaxFrame
      /\ db \in [Pages -> Contents] /\ log \in Log
  BY DEF TypeOK
<1>2. h \in Hdr /\ h.salt = hdr[c].salt /\ h.mxFrame = iFrame[c]
  BY <1>1 DEF Hdr
<1>3. /\ hdr' = Set(hdr, c, h)
      /\ commits[c] => live' = h /\ intact' = TRUE
                       /\ latest' = [pg \in Pages |-> Content(db, log, pg, 1, h.mxFrame)]
  BY DEF Publish
<1> HIDE DEF h
<1>4. hdr'[c] = h
  BY <1>1, <1>2, <1>3 DEF Set
<1>5. \A pg \in Pages : Content(db, log, pg, 1, iFrame[c]) \in Contents
  BY <1>1, ContentTyped
<1> QED BY <1>2, <1>3, <1>4, <1>5

LEMMA PublishTyped ==
    ASSUME TypeOK, NEW c \in Conns, Publish(c)
    PROVE  TypeOK'
<1>1. hdr' \in [Conns -> Hdr] /\ live' \in Hdr /\ intact' \in BOOLEAN /\ latest' \in [Pages -> Contents]
  <2>1. hdr \in [Conns -> Hdr] /\ live \in Hdr /\ intact \in BOOLEAN /\ latest \in [Pages -> Contents]
    BY DEF TypeOK
  <2>2. hdr' \in [Conns -> Hdr]
    BY <2>1, PublishIs DEF Set
  <2>3. CASE commits[c]
    BY <2>2, <2>3, PublishIs
  <2>4. CASE ~commits[c]
    BY <2>1, <2>2, <2>4 DEF Publish
  <2> QED BY <2>3, <2>4
<1>2. reported' \in [Pages -> Contents] /\ unreported' \subseteq [Pages -> Contents]
  BY <1>1 DEF Publish, TypeOK
<1>3. snap' \in [Conns -> [Pages -> Contents]] /\ tx' \in [Conns -> [Pages -> Contents]]
  <2>1. snap \in [Conns -> [Pages -> Contents]] /\ tx \in [Conns -> [Pages -> Contents]]
    BY DEF TypeOK
  <2> QED BY <1>1, <2>1, ConstantsTyped DEF Publish, Set
<1>4. writer' \in Conns \cup {None} /\ commits' \in [Conns -> BOOLEAN]
  <2>1. writer \in Conns \cup {None} /\ commits \in [Conns -> BOOLEAN]
    BY DEF TypeOK
  <2> QED BY <2>1 DEF Publish, Set
<1>5. iFrame' \in [Conns -> 0..MaxFrame] /\ at' \in [Conns -> Steps]
  <2>1. iFrame \in [Conns -> 0..MaxFrame] /\ at \in [Conns -> Steps]
    BY DEF TypeOK
  <2> QED BY <2>1, FrameNumbers DEF Publish, Set, Goto, Steps
<1> QED BY <1>1, <1>2, <1>3, <1>4, <1>5 DEF TypeOK, Publish, files, index, locks, reading, writing,
                                        checkpointing, ghosts

(* walTryBeginRead(): the slot that is chosen. *)
LEMMA BestIs ==
    ASSUME TypeOK, NEW c \in Conns
    PROVE  /\ Best(c) \in [i : 0..ReadMarks, mark : 0..MaxFrame]
           /\ Best(c).i # 0 => Best(c).i \in Slots /\ aReadMark[Best(c).i] = Best(c).mark
                               /\ Best(c).mark <= hdr[c].mxFrame
<1> DEFINE ok == {i \in Slots : aReadMark[i] <= hdr[c].mxFrame}
           marks == {aReadMark[i] : i \in ok}
           mx == Max(marks)
           of == {i \in ok : aReadMark[i] = mx}
           i == Max(of)
<1>1. aReadMark \in [Slots -> 0..READMARK_NOT_USED] /\ hdr[c].mxFrame \in 0..MaxFrame
  <2>1. hdr \in [Conns -> Hdr]
    BY DEF TypeOK
  <2> QED BY <2>1 DEF TypeOK, Hdr
<1>2. ok \in SUBSET (0..ReadMarks) /\ ReadMarks \in Nat
  BY BoundsAssumption DEF Slots
<1>3. ASSUME ok # {}
      PROVE  mx \in 0..MaxFrame /\ mx <= hdr[c].mxFrame /\ i \in Slots /\ aReadMark[i] = mx
  <2>1. marks # {} /\ marks \in SUBSET (0..MaxFrame) /\ MaxFrame \in Nat
    BY <1>1, <1>3, FrameNumbers DEF READMARK_NOT_USED
  <2>2. mx \in marks
    <3> HIDE DEF marks
    <3> QED BY <2>1, MaxIs
  <2>3. of # {} /\ of \in SUBSET (0..ReadMarks)
    <3> HIDE DEF mx
    <3> QED BY <1>2, <2>2
  <2>4. i \in of
    <3> HIDE DEF of
    <3> QED BY <1>2, <2>3, MaxIs
  <2>5. mx <= hdr[c].mxFrame /\ mx \in 0..MaxFrame
    <3> HIDE DEF mx
    <3> QED BY <2>1, <2>2
  <2> HIDE DEF mx, i
  <2> QED BY <2>4, <2>5
<1>4. Best(c) = IF ok = {} THEN NoSlot ELSE [i |-> i, mark |-> mx]
  BY DEF Best
<1> HIDE DEF ok, mx, i
<1>5. CASE ok = {}
  BY <1>4, <1>5, ConstantsTyped DEF NoSlot
<1>6. CASE ok # {}
  <2>1. mx \in 0..MaxFrame /\ mx <= hdr[c].mxFrame /\ i \in Slots /\ aReadMark[i] = mx /\ i \in 0..ReadMarks
    BY <1>3, <1>6, FrameNumbers
  <2> QED BY <1>4, <1>6, <2>1
<1> QED BY <1>5, <1>6

(* The slot is one whose mark is low enough, and its mark may be raised if *)
(* nobody holds it.                                                        *)
LEMMA MarkIs ==
    ASSUME TypeOK, NEW c \in Conns, Mark(c)
    PROVE  \E s \in [i : 0..ReadMarks, mark : 0..MaxFrame] :
              /\ slot' = Set(slot, c, s)
              /\ s.i # 0 => s.i \in Slots /\ s.mark <= hdr[c].mxFrame /\ Goto(c, "lockSlot")
              /\ s.i = 0 => Retry(c)
              /\ \/ UNCHANGED aReadMark
                 \/ /\ ExclusiveIsFree(s.i, c) /\ s.i \in Slots
                    /\ aReadMark' = [aReadMark EXCEPT ![s.i] = hdr[c].mxFrame]
<1> DEFINE free == {i \in Slots : ExclusiveIsFree(i, c)}
           best == Best(c)
           claims == (best.i = 0 \/ best.mark < hdr[c].mxFrame) /\ free # {}
           s == IF claims THEN [i |-> Min(free), mark |-> hdr[c].mxFrame] ELSE best
<1>1. hdr[c].mxFrame \in 0..MaxFrame /\ slot \in [Conns -> [i : 0..ReadMarks, mark : 0..MaxFrame]]
  <2>1. hdr \in [Conns -> Hdr]
    BY DEF TypeOK
  <2> QED BY <2>1 DEF TypeOK, Hdr
<1>2. free # {} => Min(free) \in free /\ Min(free) \in Slots /\ Min(free) \in 0..ReadMarks
  <2>1. free \in SUBSET Nat
    BY FrameNumbers
  <2>2. free # {} => Min(free) \in free
    <3> HIDE DEF free
    <3> QED BY <2>1, MinIs
  <2> QED BY <2>2, FrameNumbers
<1>3. /\ slot' = Set(slot, c, s)
      /\ aReadMark' = IF claims THEN [aReadMark EXCEPT ![Min(free)] = hdr[c].mxFrame] ELSE aReadMark
      /\ IF slot'[c].i = 0 THEN Retry(c) ELSE Goto(c, "lockSlot")
  BY DEF Mark
<1>4. best \in [i : 0..ReadMarks, mark : 0..MaxFrame] /\ (best.i # 0 => best.i \in Slots /\ best.mark <= hdr[c].mxFrame)
  BY BestIs
<1> HIDE DEF best, free
<1>5. CASE claims
  <2>1. s = [i |-> Min(free), mark |-> hdr[c].mxFrame]
    BY <1>5
  <2>2. s \in [i : 0..ReadMarks, mark : 0..MaxFrame] /\ s.i = Min(free) /\ s.mark = hdr[c].mxFrame
    BY <1>1, <1>2, <1>5, <2>1
  <2> HIDE DEF s
  <2>3. slot'[c] = s
    BY <1>1, <1>3, <2>2 DEF Set
  <2>4. s.i \in Slots /\ s.i # 0 /\ ExclusiveIsFree(s.i, c)
    BY <1>2, <1>5, <2>2, FrameNumbers DEF free
  <2>5. s.mark <= hdr[c].mxFrame
    BY <1>1, <2>2
  <2> HIDE DEF claims
  <2>6. aReadMark' = [aReadMark EXCEPT ![s.i] = hdr[c].mxFrame]
    BY <1>3, <1>5, <2>2
  <2>7. Goto(c, "lockSlot")
    BY <1>3, <2>3, <2>4
  <2> QED BY <1>3, <2>2, <2>4, <2>5, <2>6, <2>7
<1>6. CASE ~claims
  <2>1. s = best
    BY <1>6
  <2> HIDE DEF s, claims
  <2>2. slot'[c] = s
    BY <1>1, <1>3, <1>4, <2>1 DEF Set
  <2>3. aReadMark' = aReadMark
    BY <1>3, <1>6
  <2> QED BY <1>3, <1>4, <2>1, <2>2, <2>3
<1> QED BY <1>5, <1>6

LEMMA MarkTyped ==
    ASSUME TypeOK, NEW c \in Conns, Mark(c)
    PROVE  TypeOK'
<1>0. PICK s \in [i : 0..ReadMarks, mark : 0..MaxFrame] :
              /\ slot' = Set(slot, c, s)
              /\ s.i # 0 => Goto(c, "lockSlot")
              /\ s.i = 0 => Retry(c)
              /\ \/ UNCHANGED aReadMark
                 \/ s.i \in Slots /\ aReadMark' = [aReadMark EXCEPT ![s.i] = hdr[c].mxFrame]
  BY MarkIs
<1>1. slot' \in [Conns -> [i : 0..ReadMarks, mark : 0..MaxFrame]]
  BY <1>0 DEF TypeOK, Set
<1>2. aReadMark' \in [Slots -> 0..READMARK_NOT_USED]
  <2>1. hdr \in [Conns -> Hdr] /\ aReadMark \in [Slots -> 0..READMARK_NOT_USED]
    BY DEF TypeOK
  <2>2. hdr[c].mxFrame \in 0..READMARK_NOT_USED
    BY <2>1, FrameNumbers DEF Hdr, READMARK_NOT_USED
  <2> QED BY <1>0, <2>1, <2>2
<1>3. at' \in [Conns -> Steps]
  <2>1. at \in [Conns -> Steps]
    BY DEF TypeOK
  <2> QED BY <1>0, <2>1 DEF Retry, Goto, Set, Steps
<1> QED BY <1>1, <1>2, <1>3 DEF TypeOK, Mark, files, index, locks, reading, writing, checkpointing, ghosts

(* walCheckpoint(): what may be copied, and the pages that are. *)
LEMMA CkptSafeTyped ==
    ASSUME TypeOK, NEW c \in Conns, CkptSafe(c), next[c] \in Slots
    PROVE  TypeOK'
<1>1. hdr[c].mxFrame \in 0..MaxFrame /\ mxSafe \in [Conns -> 0..MaxFrame] /\ mxSafe[c] \in 0..MaxFrame
      /\ aReadMark \in [Slots -> 0..READMARK_NOT_USED] /\ next \in [Conns -> Nat]
      /\ at \in [Conns -> Steps]
  <2>1. hdr \in [Conns -> Hdr] /\ mxSafe \in [Conns -> 0..MaxFrame]
    BY DEF TypeOK
  <2> QED BY <2>1 DEF TypeOK, Hdr
<1> DEFINE i == next[c]
           mx == IF i = 1 THEN hdr[c].mxFrame ELSE mxSafe[c]
           held == ~ExclusiveIsFree(i, c)
<1>2. mx \in 0..MaxFrame /\ aReadMark[i] \in 0..READMARK_NOT_USED
  BY <1>1
<1>3. /\ mxSafe' = Set(mxSafe, c, IF mx > aReadMark[i] /\ held THEN aReadMark[i] ELSE mx)
      /\ aReadMark' = IF mx <= aReadMark[i] \/ held THEN aReadMark
                      ELSE [aReadMark EXCEPT ![i] = IF i = 1 THEN mx ELSE READMARK_NOT_USED]
      /\ NextStep(c, ReadMarks, "ckptLock")
  BY DEF CkptSafe
<1> HIDE DEF mx, held
<1>4. mxSafe' \in [Conns -> 0..MaxFrame]
  <2>1. mx > aReadMark[i] => aReadMark[i] \in 0..MaxFrame
    BY <1>2, FrameNumbers DEF READMARK_NOT_USED
  <2> QED BY <1>1, <1>2, <1>3, <2>1 DEF Set
<1>5. aReadMark' \in [Slots -> 0..READMARK_NOT_USED]
  <2>1. mx \in 0..READMARK_NOT_USED /\ READMARK_NOT_USED \in 0..READMARK_NOT_USED
    BY <1>2, FrameNumbers DEF READMARK_NOT_USED
  <2> QED BY <1>1, <1>3, <2>1
<1>6. next' \in [Conns -> Nat] /\ at' \in [Conns -> Steps]
  BY <1>1, <1>3 DEF NextStep, Goto, Set, Steps
<1> QED BY <1>4, <1>5, <1>6 DEF TypeOK, CkptSafe, files, locks, reading, writing, ghosts

LEMMA CkptCopyTyped ==
    ASSUME TypeOK, NEW c \in Conns, CkptCopy(c), next[c] \in Pages
    PROVE  TypeOK'
<1> DEFINE i == Find(log, next[c], 1, hdr[c].mxFrame)
<1>1. /\ db \in [Pages -> Contents] /\ log \in Log /\ next \in [Conns -> Nat] /\ at \in [Conns -> Steps]
      /\ hdr[c].mxFrame \in 0..MaxFrame /\ nBackfill \in Nat
  <2>1. hdr \in [Conns -> Hdr] /\ nBackfill \in 0..MaxFrame
    BY DEF TypeOK
  <2>2. hdr[c].mxFrame \in 0..MaxFrame /\ nBackfill \in Nat
    BY <2>1, FrameNumbers DEF Hdr
  <2> QED BY <2>2 DEF TypeOK
<1>2. i \in 0..MaxFrame
  <2>1. i \in {0} \cup 1..hdr[c].mxFrame
    <3>1. hdr[c].mxFrame \in Nat /\ 1 \in Nat \ {0}
      BY <1>1
    <3>2. IsLastOf(i, log, next[c], 1, hdr[c].mxFrame)
      BY <3>1, FindIs
    <3> QED BY <3>2 DEF IsLastOf
  <2> QED BY <1>1, <2>1, FrameNumbers
<1>3. i # 0 => log.frame[i].val \in Contents
  BY <1>1, <1>2, FrameNumbers DEF Log, Frame
<1>4. db' = IF i > nBackfill /\ i <= mxSafe[c] THEN [db EXCEPT ![next[c]] = log.frame[i].val] ELSE db
  BY DEF CkptCopy
<1> HIDE DEF i
<1>5. db' \in [Pages -> Contents]
  BY <1>1, <1>2, <1>3, <1>4
<1>6. next' \in [Conns -> Nat] /\ at' \in [Conns -> Steps]
  BY <1>1 DEF CkptCopy, NextStep, Goto, Set, Steps
<1> QED BY <1>5, <1>6 DEF TypeOK, CkptCopy, index, locks, reading, writing, ghosts

-----------------------------------------------------------------------------
(* Each step keeps the types: deaths and losses of power. *)

LEMMA ForgetTyped ==
    ASSUME TypeOK, NEW S \in SUBSET Conns, Forget(S), at' \in [Conns -> Steps],
           live' \in Hdr, intact' \in BOOLEAN, nBackfill' \in 0..MaxFrame,
           aReadMark' \in [Slots -> 0..READMARK_NOT_USED],
           db' \in [Pages -> Contents], dbDisk' \in [Pages -> Contents], log' \in Log, logDisk' \in Log,
           latest' \in [Pages -> Contents], reported' \in [Pages -> Contents],
           unreported' \subseteq [Pages -> Contents]
    PROVE  TypeOK'
<1>1. hdr' \in [Conns -> Hdr]
  <2>1. hdr \in [Conns -> Hdr]
    BY DEF TypeOK
  <2> QED BY <2>1, ConstantsTyped DEF Forget
<1>2. readLock' \in [Conns -> -1..ReadMarks] /\ minFrame' \in [Conns -> 1..MaxFrame + 1]
  <2>1. readLock \in [Conns -> -1..ReadMarks] /\ minFrame \in [Conns -> 1..MaxFrame + 1]
    BY DEF TypeOK
  <2>2. -1 \in -1..ReadMarks /\ 1 \in 1..MaxFrame + 1
    BY BoundsAssumption
  <2> QED BY <2>1, <2>2 DEF Forget
<1>3. slot' \in [Conns -> [i : 0..ReadMarks, mark : 0..MaxFrame]]
  <2>1. slot \in [Conns -> [i : 0..ReadMarks, mark : 0..MaxFrame]]
    BY DEF TypeOK
  <2> QED BY <2>1, ConstantsTyped DEF Forget
<1>4. /\ reCksum' \in [Conns -> 0..MaxFrame] /\ iFrame' \in [Conns -> 0..MaxFrame]
      /\ mxSafe' \in [Conns -> 0..MaxFrame] /\ next' \in [Conns -> Nat]
  <2>1. /\ reCksum \in [Conns -> 0..MaxFrame] /\ iFrame \in [Conns -> 0..MaxFrame]
        /\ mxSafe \in [Conns -> 0..MaxFrame] /\ next \in [Conns -> Nat]
    BY DEF TypeOK
  <2> QED BY <2>1, FrameNumbers DEF Forget
<1>5. /\ dirty' \in [Conns -> SUBSET Pages] /\ todo' \in [Conns -> SUBSET Pages]
      /\ commits' \in [Conns -> BOOLEAN] /\ mode' \in [Conns -> Modes] /\ isChanged' \in [Conns -> BOOLEAN]
  <2>1. /\ dirty \in [Conns -> SUBSET Pages] /\ todo \in [Conns -> SUBSET Pages]
        /\ commits \in [Conns -> BOOLEAN] /\ mode \in [Conns -> Modes] /\ isChanged \in [Conns -> BOOLEAN]
    BY DEF TypeOK
  <2> QED BY <2>1 DEF Forget, Modes
<1>6. tx' \in [Conns -> [Pages -> Contents]] /\ snap' \in [Conns -> [Pages -> Contents]]
  <2>1. tx \in [Conns -> [Pages -> Contents]] /\ snap \in [Conns -> [Pages -> Contents]]
    BY DEF TypeOK
  <2> QED BY <2>1, ConstantsTyped DEF Forget
<1>7. writer' \in Conns \cup {None} /\ ckpter' \in Conns \cup {None}
  BY DEF TypeOK, Forget
<1>8. nWrites' \in 0..MaxWrites /\ nFaults' \in 0..MaxFaults
  BY BoundsAssumption DEF TypeOK, Forget
<1> QED BY <1>1, <1>2, <1>3, <1>4, <1>5, <1>6, <1>7, <1>8 DEF TypeOK

LEMMA DieTyped ==
    ASSUME TypeOK, NEW c \in Conns, Die(c)
    PROVE  TypeOK'
<1>1. at' \in [Conns -> Steps] /\ intact' \in BOOLEAN
  <2>1. at \in [Conns -> Steps] /\ intact \in BOOLEAN
    BY DEF TypeOK
  <2> QED BY <2>1 DEF Die, Set, Steps
<1>2. /\ live' \in Hdr /\ nBackfill' \in 0..MaxFrame /\ aReadMark' \in [Slots -> 0..READMARK_NOT_USED]
      /\ db' \in [Pages -> Contents] /\ dbDisk' \in [Pages -> Contents] /\ log' \in Log /\ logDisk' \in Log
      /\ latest' \in [Pages -> Contents] /\ reported' \in [Pages -> Contents]
      /\ unreported' \subseteq [Pages -> Contents]
  BY DEF TypeOK, Die, files
<1>3. Forget({c}) /\ {c} \in SUBSET Conns
  BY DEF Die
<1> QED BY <1>1, <1>2, <1>3, ForgetTyped

LEMMA IndexIsLostTyped ==
    ASSUME TypeOK, IndexIsLost,
           db' \in [Pages -> Contents], dbDisk' \in [Pages -> Contents], log' \in Log, logDisk' \in Log,
           latest' \in [Pages -> Contents], reported' \in [Pages -> Contents],
           unreported' \subseteq [Pages -> Contents]
    PROVE  TypeOK'
<1>1. at' \in [Conns -> Steps] /\ intact' \in BOOLEAN /\ live' \in Hdr /\ nBackfill' \in 0..MaxFrame
  <2>1. at' \in [Conns -> Steps]
    BY DEF IndexIsLost, Steps
  <2>2. live' = NoHdr /\ intact' = FALSE /\ nBackfill' = 0
    BY DEF IndexIsLost
  <2>3. 0 \in 0..MaxFrame
    BY FrameNumbers
  <2> QED BY <2>1, <2>2, <2>3, ConstantsTyped
<1>2. aReadMark' \in [Slots -> 0..READMARK_NOT_USED]
  BY FrameNumbers DEF IndexIsLost, READMARK_NOT_USED
<1>3. Forget(Conns) /\ Conns \in SUBSET Conns
  BY DEF IndexIsLost
<1> QED BY <1>1, <1>2, <1>3, ForgetTyped

LEMMA AllDieTyped ==
    ASSUME TypeOK, AllDie
    PROVE  TypeOK'
<1>1. /\ db' \in [Pages -> Contents] /\ dbDisk' \in [Pages -> Contents] /\ log' \in Log /\ logDisk' \in Log
      /\ latest' \in [Pages -> Contents] /\ reported' \in [Pages -> Contents]
      /\ unreported' \subseteq [Pages -> Contents]
  BY DEF TypeOK, AllDie, files
<1> QED BY <1>1, IndexIsLostTyped DEF AllDie

(* What a loss of power makes of the log has the type of a log. *)
LEMMA TornTyped ==
    ASSUME TypeOK
    PROVE  TornDbs \subseteq [Pages -> Contents] /\ TornLogs \subseteq Log
<1>1. db \in [Pages -> Contents] /\ dbDisk \in [Pages -> Contents] /\ log \in Log /\ logDisk \in Log
  BY DEF TypeOK
<1>2. Garbage \in Contents
  BY BoundsAssumption DEF Garbage, Contents
<1>3. TornDbs \subseteq [Pages -> Contents]
  <2> DEFINE changed == {pg \in Pages : db[pg] # dbDisk[pg]}
             torn == [pg \in Pages |-> Garbage]
             Mix(o) == [pg \in Pages |-> IF pg \in changed THEN o[pg][pg] ELSE db[pg]]
  <2>1. torn \in [Pages -> Contents]
    BY <1>2
  <2> HIDE DEF torn, changed
  <2>2. ASSUME NEW o \in [changed -> {db, dbDisk, torn}] PROVE Mix(o) \in [Pages -> Contents]
    <3>1. \A pg \in changed : o[pg] \in [Pages -> Contents]
      BY <1>1, <2>1
    <3> QED BY <1>1, <3>1
  <2>3. TornDbs = {Mix(o) : o \in [changed -> {db, dbDisk, torn}]}
    BY DEF TornDbs, torn, changed
  <2> HIDE DEF Mix
  <2> QED BY <2>2, <2>3
<1>4. TornFrames \subseteq [Frames -> Frame]
  <2> DEFINE changed == {i \in Frames : log.frame[i] # logDisk.frame[i]}
             torn == [i \in Frames |-> [log.frame[i] EXCEPT !.val = Garbage]]
             Mix(o) == [i \in Frames |-> IF i \in changed THEN o[i][i] ELSE log.frame[i]]
  <2>0. log.frame \in [Frames -> Frame] /\ logDisk.frame \in [Frames -> Frame]
    BY <1>1 DEF Log
  <2>1. torn \in [Frames -> Frame]
    <3>1. ASSUME NEW f \in Frame PROVE [f EXCEPT !.val = Garbage] \in Frame
      BY <1>2 DEF Frame
    <3> QED BY <2>0, <3>1
  <2> HIDE DEF torn, changed
  <2>2. ASSUME NEW o \in [changed -> {log.frame, logDisk.frame, torn}] PROVE Mix(o) \in [Frames -> Frame]
    <3>1. \A i \in changed : o[i] \in [Frames -> Frame]
      BY <2>0, <2>1
    <3> QED BY <2>0, <3>1
  <2>3. TornFrames = IF log.frame = NoLog.frame THEN {log.frame, logDisk.frame}
                     ELSE {Mix(o) : o \in [changed -> {log.frame, logDisk.frame, torn}]}
    BY DEF TornFrames, torn, changed
  <2> HIDE DEF Mix
  <2> QED BY <2>0, <2>2, <2>3
<1>5. TornSalts \subseteq Nat
  BY <1>1 DEF TornSalts, Log
<1> QED BY <1>3, <1>4, <1>5 DEF TornLogs, Log

LEMMA PowerLossTyped ==
    ASSUME TypeOK, PowerLoss
    PROVE  TypeOK'
<1>1. PICK f \in TornDbs, l \in TornLogs :
        /\ IndexIsLost
        /\ db' = f /\ dbDisk' = f
        /\ log' = l /\ logDisk' = l
        /\ latest' = Recovered(f, l) /\ reported' = latest' /\ unreported' = {}
  BY DEF PowerLoss
<1>2. f \in [Pages -> Contents] /\ l \in Log
  BY TornTyped
<1>3. Recovered(f, l) \in [Pages -> Contents]
  BY <1>2, RecoveredTyped
<1> QED BY <1>1, <1>2, <1>3, IndexIsLostTyped

-----------------------------------------------------------------------------
(* Numbers that the types make numbers. *)

NumbersOk ==
    /\ live.mxFrame \in Nat /\ live.mxFrame <= MaxFrame /\ nBackfill \in Nat /\ nBackfill <= MaxFrame
    /\ \A c \in Conns :
          /\ hdr[c].mxFrame \in Nat /\ hdr[c].mxFrame <= MaxFrame
          /\ minFrame[c] \in Nat \ {0} /\ mxSafe[c] \in Nat
          /\ iFrame[c] \in Nat /\ iFrame[c] <= MaxFrame /\ reCksum[c] \in Nat /\ reCksum[c] <= MaxFrame
          /\ next[c] \in Nat
          /\ readLock[c] \in Int /\ readLock[c] <= ReadMarks /\ (readLock[c] >= 1 => readLock[c] \in Slots)
          /\ slot[c].mark \in Nat
    /\ \A i \in Slots : aReadMark[i] \in Nat

LEMMA Numbers == TypeOK => NumbersOk
<1>1. SUFFICES ASSUME TypeOK PROVE NumbersOk
  OBVIOUS
<1>2. live \in Hdr /\ nBackfill \in 0..MaxFrame /\ aReadMark \in [Slots -> 0..READMARK_NOT_USED]
  BY <1>1 DEF TypeOK
<1>3. ASSUME NEW c \in Conns
      PROVE  /\ hdr[c].mxFrame \in Nat /\ hdr[c].mxFrame <= MaxFrame
             /\ minFrame[c] \in Nat \ {0} /\ mxSafe[c] \in Nat
             /\ iFrame[c] \in Nat /\ iFrame[c] <= MaxFrame /\ reCksum[c] \in Nat /\ reCksum[c] <= MaxFrame
             /\ next[c] \in Nat
             /\ readLock[c] \in Int /\ readLock[c] <= ReadMarks /\ (readLock[c] >= 1 => readLock[c] \in Slots)
             /\ slot[c].mark \in Nat
  <2>1. /\ hdr \in [Conns -> Hdr] /\ slot \in [Conns -> [i : 0..ReadMarks, mark : 0..MaxFrame]]
    BY <1>1 DEF TypeOK
  <2>2. /\ minFrame \in [Conns -> 1..MaxFrame + 1] /\ mxSafe \in [Conns -> 0..MaxFrame]
        /\ iFrame \in [Conns -> 0..MaxFrame] /\ reCksum \in [Conns -> 0..MaxFrame]
    BY <1>1 DEF TypeOK
  <2>3. next \in [Conns -> Nat] /\ readLock \in [Conns -> -1..ReadMarks]
    BY <1>1 DEF TypeOK
  <2>4. hdr[c].mxFrame \in Nat /\ hdr[c].mxFrame <= MaxFrame /\ slot[c].mark \in Nat
    BY <2>1, FrameNumbers DEF Hdr
  <2>5. /\ minFrame[c] \in Nat \ {0} /\ mxSafe[c] \in Nat
        /\ iFrame[c] \in Nat /\ iFrame[c] <= MaxFrame /\ reCksum[c] \in Nat /\ reCksum[c] <= MaxFrame
    BY <2>2, FrameNumbers
  <2>6. readLock[c] \in Int /\ readLock[c] <= ReadMarks /\ (readLock[c] >= 1 => readLock[c] \in Slots)
    BY <2>3, BoundsAssumption DEF Slots
  <2> QED BY <2>3, <2>4, <2>5, <2>6
<1>4. ASSUME NEW i \in Slots PROVE aReadMark[i] \in Nat
  BY <1>2, FrameNumbers DEF READMARK_NOT_USED
<1>5. live.mxFrame \in Nat /\ live.mxFrame <= MaxFrame /\ nBackfill \in Nat /\ nBackfill <= MaxFrame
  BY <1>2, FrameNumbers DEF Hdr
<1> QED BY <1>3, <1>4, <1>5 DEF NumbersOk

LEMMA NumbersNext == TypeOK' => NumbersOk'
BY Numbers, PTL

-----------------------------------------------------------------------------
(* Logs that have the same first frames. *)

SameFrames(l, m, n) == \A k \in 1..n : m.frame[k] = l.frame[k]

(* Their checksums, the frames recovery accepts, and contents are the *)
(* same.                                                              *)
LEMMA SumSame ==
    ASSUME NEW l, NEW m, NEW n \in Nat, SameFrames(l, m, n), NEW k \in 0..n
    PROVE  Sum(m, k) = Sum(l, k)
BY DEF SameFrames, Sum

LEMMA AcceptedSame ==
    ASSUME NEW l, NEW m, NEW n \in Nat, SameFrames(l, m, n), m.salt = l.salt
    PROVE  Accepted(m, n) = Accepted(l, n)
<1>1. \A k \in 1..n : Sum(m, k) = Sum(l, k) /\ m.frame[k] = l.frame[k]
  BY SumSame DEF SameFrames
<1> QED BY <1>1 DEF Accepted

LEMMA ContentSame ==
    ASSUME NEW l, NEW m, NEW n \in Nat, SameFrames(l, m, n),
           NEW pg, NEW min \in Nat \ {0}, NEW max \in 0..n
    PROVE  /\ Find(m, pg, min, max) = Find(l, pg, min, max)
           /\ \A f : Content(f, m, pg, min, max) = Content(f, l, pg, min, max)
<1>1. \A k \in min..max : m.frame[k] = l.frame[k]
  BY DEF SameFrames
<1>2. Find(m, pg, min, max) = Find(l, pg, min, max)
  BY <1>1, FindSame
<1>3. Find(l, pg, min, max) \in {0} \cup min..max
  BY FindIs DEF IsLastOf
<1> QED BY <1>1, <1>2, <1>3 DEF Content

-----------------------------------------------------------------------------
(* What a step of connection c leaves true. *)

Same(q) ==
    /\ at'[q] = at[q] /\ hdr'[q] = hdr[q] /\ readLock'[q] = readLock[q] /\ slot'[q] = slot[q]
    /\ minFrame'[q] = minFrame[q] /\ reCksum'[q] = reCksum[q] /\ dirty'[q] = dirty[q]
    /\ todo'[q] = todo[q] /\ iFrame'[q] = iFrame[q] /\ commits'[q] = commits[q]
    /\ mode'[q] = mode[q] /\ isChanged'[q] = isChanged[q] /\ mxSafe'[q] = mxSafe[q]
    /\ next'[q] = next[q] /\ tx'[q] = tx[q] /\ snap'[q] = snap[q]
    /\ (writer' = q) = (writer = q) /\ (ckpter' = q) = (ckpter = q)
Others(c) == \A q \in Conns \ {c} : Same(q)

(* The others stay where they are, with the same locks. *)
LEMMA PhaseKeep ==
    ASSUME NEW q, Same(q), PhaseOk(q), CountersOk(q)
    PROVE  PhaseOk(q)' /\ CountersOk(q)'
<1>1. PhaseOk(q)'
  BY DEF Same, PhaseOk
<1>2. CountersOk(q)'
  BY DEF Same, CountersOk
<1> QED BY <1>1, <1>2

(* Who has a lock exclusively keeps it. *)
LEMMA ExclusiveKeep ==
    ASSUME NEW c \in Conns, NEW q \in Conns \ {c}, Others(c), Exclusive(q),
           Restarting(q) => intact' /\ ~Holds(c)',
           Copying(q) => readLock'[c] # 0
    PROVE  Exclusive(q)'
<1>1. Same(q) /\ \A d \in Conns \ {c} : Same(d)
  BY DEF Others
<1>2. Restarting(q)' = Restarting(q) /\ Copying(q)' = Copying(q)
  BY <1>1 DEF Same, Restarting, Copying
<1>3. \A d \in Conns \ {c} : Holds(d)' = Holds(d) /\ readLock'[d] = readLock[d]
  BY <1>1 DEF Same, Holds, IsAt
<1> QED BY <1>1, <1>2, <1>3 DEF Exclusive

(* A step that leaves the database file, the header of the wal-index and the *)
(* frames that it counts as they are; what the rest of the wal-index says    *)
(* may change.                                                               *)
SameIndex(c) == nBackfill' = nBackfill /\ (at'[c] = "restartIndex" <=> at[c] = "restartIndex")
Calm(c) ==
    /\ Others(c)
    /\ UNCHANGED <<db, live, latest>>
    /\ \/ intact' = intact
       \/ /\ ~intact' /\ live # NoHdr /\ log' = log
          /\ \A q \in Conns \ {c} : ~Restarting(q) /\ (live.salt # log.salt => hdr[q].salt # log.salt)
    /\ \/ log' = log
       \/ /\ writer = c /\ SameFrames(log, log', live.mxFrame)
          /\ \/ log'.salt = log.salt
             \/ live.mxFrame = 0 /\ (intact \/ log'.salt = live.salt \/ \A q \in Conns \ {c} : hdr[q].salt # log'.salt)
    /\ \A i \in Slots : aReadMark'[i] = aReadMark[i] \/ ExclusiveIsFree(i, c)
    /\ \/ SameIndex(c)
       \/ /\ live # NoHdr /\ nBackfill' <= live.mxFrame /\ DbHas(nBackfill' + 1)
          /\ nBackfill' = 0 \/ \A q \in Conns : readLock[q] # 0
          /\ \A q \in Conns \ {c} :
                at[q] \in Checkpointing \cup {"truncate"} => nBackfill' = 0 /\ ~Copying(q)

(* Nobody begins a restart. *)
LEMMA CalmRestart ==
    ASSUME NEW c \in Conns, Others(c), SameIndex(c)
    PROVE  RestartGoesOn' = RestartGoesOn
<1>1. \A q \in Conns : (at'[q] = "restartIndex") = (at[q] = "restartIndex")
  BY DEF Others, Same, SameIndex
<1> QED BY <1>1 DEF RestartGoesOn

(* The last frame of a page stays the last. *)
LEMMA CalmFind ==
    ASSUME TypeOK, NEW c \in Conns, Calm(c)
    PROVE  \A pg, min, max :
              min \in Nat \ {0} /\ max \in 0..live.mxFrame =>
                  /\ Find(log', pg, min, max) = Find(log, pg, min, max)
                  /\ \A f : Content(f, log', pg, min, max) = Content(f, log, pg, min, max)
<1>1. live.mxFrame \in Nat
  BY FrameNumbers DEF TypeOK, Hdr
<1>2. SameFrames(log, log', live.mxFrame)
  BY DEF Calm, SameFrames
<1> QED BY <1>1, <1>2, ContentSame

(* The wal-index stays right, and so do the headers, the readers, the *)
(* checkpointer                                                       *)
LEMMA CalmIndex ==
    ASSUME TypeOK, IndexInv, NEW c \in Conns, Calm(c),
           live = NoHdr => hdr'[c] = NoHdr /\ readLock'[c] = -1 /\ at'[c] \in {"idle", "gone", "ckptHdr"}
    PROVE  IndexInv'
<1>1. live.mxFrame \in 0..MaxFrame /\ live' = live /\ db' = db /\ latest' = latest
  BY DEF TypeOK, Hdr, Calm
<1>2. live.mxFrame \in Nat /\ 1 \in Nat \ {0} /\ live.mxFrame \in 0..live.mxFrame
  BY <1>1, FrameNumbers
<1>3. \A pg \in Pages : Find(log', pg, 1, live.mxFrame) = Find(log, pg, 1, live.mxFrame)
                        /\ Content(db, log', pg, 1, live.mxFrame) = Content(db, log, pg, 1, live.mxFrame)
  BY <1>2, CalmFind
<1>4. live' = NoHdr => NoIndex'
  <2>1. live = NoHdr => NoIndex
    BY DEF IndexInv
  <2>2. \A q \in Conns \ {c} : hdr'[q] = hdr[q] /\ readLock'[q] = readLock[q] /\ at'[q] = at[q]
    BY DEF Calm, Others, Same
  <2>3. live = NoHdr => intact' = intact /\ nBackfill' = nBackfill
    BY DEF Calm, SameIndex
  <2> QED BY <1>1, <2>1, <2>2, <2>3 DEF NoIndex, NoHdr
<1>5. live'.mxFrame > 0 => /\ live'.salt = log'.salt
                           /\ Accepted(log', live'.mxFrame) /\ log'.frame[live'.mxFrame].commit
  <2>1. CASE live.mxFrame > 0
    <3>1. SameFrames(log, log', live.mxFrame) /\ log'.salt = log.salt
      BY <1>2, <2>1 DEF Calm, SameFrames
    <3>2. Accepted(log', live.mxFrame) = Accepted(log, live.mxFrame)
      BY <1>2, <3>1, AcceptedSame
    <3>3. log'.frame[live.mxFrame] = log.frame[live.mxFrame]
      BY <1>2, <2>1, <3>1 DEF SameFrames
    <3> QED BY <1>1, <2>1, <3>1, <3>2, <3>3 DEF IndexInv
  <2> QED BY <1>1, <2>1
<1>6. nBackfill' <= live'.mxFrame \/ RestartGoesOn'
  <2>1. CASE SameIndex(c)
    <3>1. RestartGoesOn' = RestartGoesOn /\ nBackfill' = nBackfill
      BY <2>1, CalmRestart DEF Calm, SameIndex
    <3> QED BY <1>1, <3>1 DEF IndexInv
  <2>2. CASE ~SameIndex(c)
    BY <1>1, <2>2 DEF Calm
  <2> QED BY <2>1, <2>2
<1>7. live' # NoHdr => \A pg \in Pages : latest'[pg] = Content(db', log', pg, 1, live'.mxFrame)
  BY <1>1, <1>3 DEF IndexInv, NoHdr
<1>8. live' # NoHdr => DbHas(nBackfill + 1)'
  <2>1. live # NoHdr => DbHas(nBackfill' + 1)
    BY <1>1 DEF IndexInv, Calm, SameIndex
  <2> QED BY <1>1, <1>3, <2>1 DEF DbHas, NoHdr
<1>9. live'.salt = -1 => live' = NoHdr'
  BY <1>1 DEF IndexInv, NoHdr
<1> QED BY <1>4, <1>5, <1>6, <1>7, <1>8, <1>9 DEF IndexInv, NoHdr

LEMMA CalmHdr ==
    ASSUME Headers, NEW c \in Conns, NEW q \in Conns \ {c}, Calm(c)
    PROVE  HdrOk(q)'
<1>1. Same(q) /\ live' = live /\ latest' = latest
  BY DEF Calm, Others
<1>2. IsWriter(q)' = IsWriter(q) /\ KnowsDb(q)' = KnowsDb(q) /\ SameLog(q)' = SameLog(q)
  BY <1>1 DEF IsWriter, KnowsDb, SameLog, Same
<1>3. log'.salt = log.salt \/ intact \/ log'.salt = live.salt \/ hdr[q].salt # log'.salt
  BY DEF Calm
<1>4. HdrOk(q)
  BY DEF Headers
<1>5. ~intact' /\ live'.salt # log'.salt /\ ~IsWriter(q)' => hdr'[q].salt # log'.salt
  <2>1. CASE intact' = intact
    BY <1>1, <1>2, <1>3, <1>4, <2>1 DEF HdrOk, Same
  <2>2. CASE intact' # intact
    <3>1. log' = log /\ (live.salt # log.salt => hdr[q].salt # log.salt)
      BY <2>2 DEF Calm
    <3> QED BY <1>1, <3>1 DEF Same
  <2> QED BY <2>1, <2>2
<1> QED BY <1>1, <1>2, <1>4, <1>5 DEF HdrOk, Same, NoHdr

LEMMA CalmReader ==
    ASSUME TypeOK, IndexInv, Readers, NEW c \in Conns, NEW q \in Conns \ {c}, Calm(c)
    PROVE  LogReaderOk(q)' /\ DbReaderOk(q)' /\ VerifyOk(q)'
<1>1. Same(q) /\ live' = live /\ latest' = latest /\ db' = db
  BY DEF Calm, Others
<1>2. Base(q)' = Base(q) /\ IsWriter(q)' = IsWriter(q) /\ SameLog(q)' = SameLog(q)
  BY <1>1 DEF Base, IsWriter, SameLog, Same
<1>3. live.mxFrame \in Nat /\ hdr[q].mxFrame \in Nat /\ 1 \in Nat \ {0} /\ Base(q) \in Nat
  BY FrameNumbers DEF TypeOK, Hdr, Base
<1>4. LogReaderOk(q)'
  <2>0. LogReaderOk(q)
    BY DEF Readers
  <2>1. SUFFICES ASSUME readLock[q] >= 1 PROVE LogReaderOk(q)'
    BY <1>1 DEF LogReaderOk, Same
  <2>2. Base(q) <= live.mxFrame /\ Base(q) \in 0..live.mxFrame
    BY <1>3, <2>0, <2>1 DEF LogReaderOk
  <2>3. \A pg \in Pages : Find(log', pg, 1, Base(q)) = Find(log, pg, 1, Base(q))
                          /\ Content(db, log', pg, 1, Base(q)) = Content(db, log, pg, 1, Base(q))
    BY <1>3, <2>2, CalmFind
  <2>4. readLock[q] \in Slots
    <3>1. readLock \in [Conns -> -1..ReadMarks]
      BY DEF TypeOK
    <3> QED BY <2>1, <3>1, FrameNumbers, BoundsAssumption
  <2>5. aReadMark'[readLock[q]] = aReadMark[readLock[q]]
    BY <2>4 DEF Calm, ExclusiveIsFree
  <2> QED BY <1>1, <1>2, <2>0, <2>1, <2>2, <2>3, <2>5 DEF LogReaderOk, Same
<1>5. DbReaderOk(q)'
  <2>1. DbReaderOk(q)
    BY DEF Readers
  <2>2. readLock'[q] = readLock[q] /\ snap'[q] = snap[q] /\ hdr'[q] = hdr[q]
    BY <1>1 DEF Same
  <2>3. CASE SameIndex(c)
    <3>1. RestartGoesOn' = RestartGoesOn /\ nBackfill' = nBackfill
      BY <2>3, CalmRestart DEF Calm, SameIndex
    <3> QED BY <1>1, <1>2, <2>1, <2>2, <3>1 DEF DbReaderOk
  <2>4. CASE ~SameIndex(c)
    <3>1. nBackfill' = 0 \/ readLock[q] # 0
      BY <2>4 DEF Calm
    <3> QED BY <1>1, <2>1, <2>2, <3>1 DEF DbReaderOk
  <2> QED BY <2>3, <2>4
<1>6. VerifyOk(q)'
  <2>1. \A pg \in Pages : Find(log', pg, 1, live.mxFrame) = Find(log, pg, 1, live.mxFrame)
    BY <1>3, CalmFind
  <2> QED BY <1>1, <2>1 DEF Readers, VerifyOk, Same, DbHas
<1> QED BY <1>4, <1>5, <1>6

LEMMA CalmCkpt ==
    ASSUME TypeOK, TypeOK', Checkpoints, Headers, NEW c \in Conns, NEW q \in Conns \ {c}, PhaseOk(q), Calm(c),
           Holds(c)' => \/ Holds(c) /\ minFrame'[c] = minFrame[c]
                        \/ minFrame'[c] <= nBackfill + 1 /\ ~RestartGoesOn,
           readLock'[c] >= 1 => \/ readLock'[c] = readLock[c] /\ Base(c)' >= Base(c)
                                \/ Base(c)' = live.mxFrame
    PROVE  CkptOk(q)'
<1>1. Same(q) /\ live' = live /\ db' = db
  BY DEF Calm, Others
<1>2. /\ SameLog(q)' = SameLog(q) /\ Copying(q)' = Copying(q) /\ Restarting(q)' = Restarting(q)
      /\ \A i : Passed(q, i)' = Passed(q, i)
  BY <1>1 DEF SameLog, Same, Copying, Restarting, Passed
<1>3. \A d \in Conns \ {c} : /\ Holds(d)' = Holds(d) /\ minFrame'[d] = minFrame[d]
                             /\ readLock'[d] = readLock[d] /\ Base(d)' = Base(d)
  BY <1>1 DEF Calm, Others, Same, Holds, IsAt, Base, IsWriter
<1>4. CkptOk(q)
  BY DEF Checkpoints
<1>0. at[q] \in Checkpointing \cup {"truncate"} =>
          \/ nBackfill' = nBackfill /\ RestartGoesOn' = RestartGoesOn
          \/ nBackfill' = 0 /\ ~Copying(q)
  <2>1. SameIndex(c) => nBackfill' = nBackfill /\ RestartGoesOn' = RestartGoesOn
    BY CalmRestart DEF Calm, SameIndex
  <2> QED BY <2>1 DEF Calm
<1>5. live.mxFrame \in Nat /\ hdr[q].mxFrame \in Nat /\ mxSafe[q] \in Nat /\ nBackfill \in Nat
      /\ 1 \in Nat \ {0} /\ Base(c)' \in Nat /\ Base(c) \in Nat /\ minFrame'[c] \in Nat
  BY Numbers, NumbersNext DEF NumbersOk, Base
<1>6. at[q] \in Checkpointing => ~IsWriter(q)
  BY DEF PhaseOk, IsWriter, Checkpointing, Reading, Framing
<1>7. at[q] \in Checkpointing /\ SameLog(q) =>
          /\ hdr[q].mxFrame <= live.mxFrame
          /\ nBackfill <= hdr[q].mxFrame \/ RestartGoesOn
          /\ \A d \in Conns : Holds(d) => minFrame[d] <= hdr[q].mxFrame + 1
          /\ at[q] # "ckptEnd" =>
                /\ mxSafe[q] <= hdr[q].mxFrame
                /\ \A d \in Conns : readLock[d] >= 1 /\ Passed(q, readLock[d]) => mxSafe[q] <= Base(d)
  BY <1>4, <1>6 DEF CkptOk, Headers, HdrOk
<1>8. at[q] \in Checkpointing /\ SameLog(q) =>
          /\ nBackfill' <= hdr[q].mxFrame \/ RestartGoesOn'
          /\ \A d \in Conns : Holds(d)' => minFrame'[d] <= hdr[q].mxFrame + 1
          /\ at[q] # "ckptEnd" =>
                /\ mxSafe[q] <= hdr[q].mxFrame
                /\ \A d \in Conns : readLock'[d] >= 1 /\ Passed(q, readLock'[d]) => mxSafe[q] <= Base(d)'
  <2>1. SUFFICES ASSUME at[q] \in Checkpointing, SameLog(q)
                 PROVE  /\ nBackfill' <= hdr[q].mxFrame \/ RestartGoesOn'
                        /\ \A d \in Conns : Holds(d)' => minFrame'[d] <= hdr[q].mxFrame + 1
                        /\ at[q] # "ckptEnd" =>
                              /\ mxSafe[q] <= hdr[q].mxFrame
                              /\ \A d \in Conns : readLock'[d] >= 1 /\ Passed(q, readLock'[d]) => mxSafe[q] <= Base(d)'
    OBVIOUS
  <2>2. Holds(c)' => minFrame'[c] <= hdr[q].mxFrame + 1
    <3>1. CASE Holds(c) /\ minFrame'[c] = minFrame[c]
      BY <1>7, <2>1, <3>1
    <3>2. CASE minFrame'[c] <= nBackfill + 1 /\ ~RestartGoesOn
      BY <1>5, <1>7, <2>1, <3>2
    <3> QED BY <3>1, <3>2
  <2>3. at[q] # "ckptEnd" /\ readLock'[c] >= 1 /\ Passed(q, readLock'[c]) => mxSafe[q] <= Base(c)'
    <3>1. CASE readLock'[c] = readLock[c] /\ Base(c)' >= Base(c)
      BY <1>5, <1>7, <2>1, <3>1
    <3>2. CASE Base(c)' = live.mxFrame
      BY <1>5, <1>7, <2>1, <3>2
    <3> QED BY <3>1, <3>2
  <2>4. nBackfill' <= hdr[q].mxFrame \/ RestartGoesOn'
    BY <1>0, <1>5, <1>7, <2>1
  <2> QED BY <1>3, <1>7, <2>1, <2>2, <2>3, <2>4
<1>9. Copying(q) => nBackfill' = nBackfill /\ \A pg \in Pages : Copied(q, pg)' = Copied(q, pg)
  <2>0. Copying(q) => nBackfill' = nBackfill
    BY <1>0 DEF Copying, Checkpointing
  <2>1. SUFFICES ASSUME Copying(q), NEW pg \in Pages PROVE Copied(q, pg)' = Copied(q, pg)
    BY <2>0
  <2>2. SameLog(q) /\ at[q] \in Checkpointing
    BY <1>4, <2>1 DEF CkptOk, Copying, Checkpointing
  <2>3. hdr[q].mxFrame \in 0..live.mxFrame
    BY <1>5, <1>7, <2>2
  <2>4. Find(log', pg, 1, hdr[q].mxFrame) = Find(log, pg, 1, hdr[q].mxFrame)
    BY <1>5, <2>3, CalmFind
  <2>5. Find(log, pg, 1, hdr[q].mxFrame) \in {0} \cup 1..hdr[q].mxFrame
    BY <1>5, FindIs DEF IsLastOf
  <2>6. SameFrames(log, log', live.mxFrame)
    BY DEF Calm, SameFrames
  <2>7. Find(log, pg, 1, hdr[q].mxFrame) # 0 =>
           log'.frame[Find(log, pg, 1, hdr[q].mxFrame)] = log.frame[Find(log, pg, 1, hdr[q].mxFrame)]
    BY <1>5, <2>3, <2>5, <2>6 DEF SameFrames
  <2> QED BY <1>1, <1>5, <2>0, <2>1, <2>4, <2>5, <2>7 DEF Copied, Same
<1>10. Copying(q)' => /\ SameLog(q)' /\ nBackfill' < mxSafe'[q]
                      /\ \A pg \in Pages : at'[q] = "ckptDone" \/ pg < next'[q] => Copied(q, pg)'
  BY <1>1, <1>2, <1>4, <1>9 DEF CkptOk, Same
<1>11. at'[q] \in Checkpointing /\ SameLog(q)' =>
          /\ nBackfill' <= hdr'[q].mxFrame \/ RestartGoesOn'
          /\ \A d \in Conns : Holds(d)' => minFrame'[d] <= hdr'[q].mxFrame + 1
          /\ at'[q] # "ckptEnd" =>
                /\ mxSafe'[q] <= hdr'[q].mxFrame
                /\ \A d \in Conns : readLock'[d] >= 1 /\ Passed(q, readLock[d])' => mxSafe'[q] <= Base(d)'
  BY <1>1, <1>2, <1>8 DEF Same, Passed
<1>12. /\ mode'[q] = "TRUNCATE" /\ at'[q] # "ckptHdr" => hdr'[q] = live'
       /\ at'[q] = "recoverReset" => hdr'[q] = live'
       /\ Restarting(q)' => live'.mxFrame = 0
       /\ at'[q] = "truncate" => nBackfill' = 0
  BY <1>0, <1>1, <1>2, <1>4 DEF CkptOk, Same
<1> QED BY <1>10, <1>11, <1>12 DEF CkptOk, Checkpointing

LEMMA CalmWriter ==
    ASSUME TypeOK, WriteInv, NEW c \in Conns, NEW q \in Conns \ {c}, Calm(c),
           IsWriter(q) /\ ~SameLog(q) => hdr'[c].salt # hdr[q].salt
    PROVE  WriterOk(q)'
<1>1. Same(q) /\ live' = live /\ latest' = latest
  BY DEF Calm, Others
<1>2. IsWriter(q)' = IsWriter(q) /\ SameLog(q)' = SameLog(q) /\ WriterOk(q)
  BY <1>1 DEF IsWriter, SameLog, Same, WriteInv
<1>3. CASE ~IsWriter(q)
  BY <1>1, <1>2, <1>3 DEF WriterOk, Same, Unchanged
<1>4. CASE IsWriter(q)
  <2>1. log' = log
    BY <1>4 DEF Calm, IsWriter
  <2>2. Top(q)' = Top(q) /\ OwnFrames(q)' = OwnFrames(q) /\ Commits(q)' = Commits(q)
    BY <1>1 DEF Same, Top, OwnFrames, Commits
  <2>3. WriterHdrOk(q)'
    <3>1. \A d \in Conns \ {q} : d # c => hdr'[d] = hdr[d]
      BY DEF Calm, Others, Same
    <3>2. WriterHdrOk(q)
      BY <1>2, <1>4 DEF WriterOk
    <3> QED BY <1>1, <1>2, <1>4, <2>1, <3>1, <3>2 DEF WriterHdrOk, Same, NoHdr
  <2>4. ListOk(q)'
    BY <1>1, <1>2, <1>4, <2>1 DEF WriterOk, ListOk, Same
  <2>5. PagesOk(q)'
    BY <1>1, <1>2, <1>4, <2>1, <2>2 DEF WriterOk, PagesOk, Same
  <2>6. ChecksumsOk(q)'
    BY <1>1, <1>2, <1>4, <2>1, <2>2 DEF WriterOk, ChecksumsOk, Same
  <2>7. snap'[q] = latest'
    BY <1>1, <1>2, <1>4 DEF WriterOk, Same
  <2> QED BY <1>2, <1>4, <2>3, <2>4, <2>5, <2>6, <2>7 DEF WriterOk
<1> QED BY <1>3, <1>4

SelfOk(c) ==
    /\ PhaseOk(c) /\ CountersOk(c) /\ Exclusive(c)
    /\ HdrOk(c) /\ LogReaderOk(c) /\ DbReaderOk(c) /\ VerifyOk(c) /\ CkptOk(c) /\ WriterOk(c)

(* The invariant is one condition on the wal-index and one on each *)
(* connection.                                                     *)
LEMMA SelfIs ==
    IInv <=> TypeOK /\ IndexInv /\ \A c \in Conns : SelfOk(c)
BY DEF IInv, SelfOk, Phases, Headers, Readers, Checkpoints, WriteInv

(* So it remains to show that c itself is right. *)
LEMMA CalmStep ==
    ASSUME IInv, TypeOK', NEW c \in Conns, Calm(c),
           live = NoHdr => hdr'[c] = NoHdr /\ readLock'[c] = -1 /\ at'[c] \in {"idle", "gone", "ckptHdr"},
           \A q \in Conns \ {c} : /\ Restarting(q) => ~Holds(c)'
                                  /\ Copying(q) => readLock'[c] # 0
                                  /\ IsWriter(q) /\ ~SameLog(q) => hdr'[c].salt # hdr[q].salt,
           Holds(c)' => \/ Holds(c) /\ minFrame'[c] = minFrame[c]
                        \/ minFrame'[c] <= nBackfill + 1 /\ ~RestartGoesOn,
           readLock'[c] >= 1 => \/ readLock'[c] = readLock[c] /\ Base(c)' >= Base(c)
                                \/ Base(c)' = live.mxFrame,
           SelfOk(c)'
    PROVE  IInv'
<1>1. ASSUME NEW q \in Conns \ {c} PROVE SelfOk(q)'
  <2>1. SelfOk(q) /\ Same(q) /\ Others(c)
    BY SelfIs DEF Calm, Others
  <2>2. PhaseOk(q)' /\ CountersOk(q)'
    BY <2>1, PhaseKeep DEF SelfOk
  <2>3. Exclusive(q)'
    <3>1. Restarting(q) => intact'
      BY <2>1 DEF SelfOk, Exclusive, Calm
    <3> QED BY <2>1, <3>1, ExclusiveKeep DEF SelfOk
  <2>4. HdrOk(q)'
    BY CalmHdr DEF IInv
  <2>5. LogReaderOk(q)' /\ DbReaderOk(q)' /\ VerifyOk(q)'
    BY CalmReader DEF IInv
  <2>6. CkptOk(q)'
    BY <2>1, CalmCkpt DEF IInv, SelfOk
  <2>7. WriterOk(q)'
    BY CalmWriter DEF IInv
  <2> QED BY <2>2, <2>3, <2>4, <2>5, <2>6, <2>7 DEF SelfOk
<1>2. IndexInv'
  BY CalmIndex DEF IInv
<1>3. \A q \in Conns : SelfOk(q)'
  BY <1>1
<1> QED BY <1>2, <1>3 DEF IInv, SelfOk, Phases, Headers, Readers, Checkpoints, WriteInv

-----------------------------------------------------------------------------
(* A step that also leaves the rest of the wal-index, but for read marks that *)
(* nobody holds.                                                              *)
Quiet(c) ==
    /\ Others(c)
    /\ UNCHANGED <<db, live, intact, nBackfill, latest>>
    /\ \/ log' = log
       \/ /\ writer = c /\ SameFrames(log, log', live.mxFrame)
          /\ \/ log'.salt = log.salt
             \/ live.mxFrame = 0 /\ (intact \/ log'.salt = live.salt \/ \A q \in Conns \ {c} : hdr[q].salt # log'.salt)
    /\ \A i \in Slots : aReadMark'[i] = aReadMark[i] \/ ExclusiveIsFree(i, c)
    /\ at'[c] = "restartIndex" <=> at[c] = "restartIndex"

LEMMA QuietIsCalm ==
    ASSUME NEW c \in Conns, Quiet(c)
    PROVE  Calm(c)
BY DEF Quiet, Calm, SameIndex

LEMMA QuietRestart ==
    ASSUME NEW c \in Conns, Quiet(c)
    PROVE  RestartGoesOn' = RestartGoesOn
BY CalmRestart DEF Quiet, SameIndex

LEMMA QuietFind ==
    ASSUME TypeOK, NEW c \in Conns, Quiet(c)
    PROVE  \A pg, min, max :
              min \in Nat \ {0} /\ max \in 0..live.mxFrame =>
                  /\ Find(log', pg, min, max) = Find(log, pg, min, max)
                  /\ \A f : Content(f, log', pg, min, max) = Content(f, log, pg, min, max)
BY QuietIsCalm, CalmFind

LEMMA QuietStep ==
    ASSUME IInv, TypeOK', NEW c \in Conns, Quiet(c),
           live = NoHdr => hdr'[c] = NoHdr /\ readLock'[c] = -1 /\ at'[c] \in {"idle", "gone", "ckptHdr"},
           \A q \in Conns \ {c} : /\ Restarting(q) => ~Holds(c)'
                                  /\ Copying(q) => readLock'[c] # 0
                                  /\ IsWriter(q) /\ ~SameLog(q) => hdr'[c].salt # hdr[q].salt,
           Holds(c)' => \/ Holds(c) /\ minFrame'[c] = minFrame[c]
                        \/ minFrame'[c] <= nBackfill + 1 /\ ~RestartGoesOn,
           readLock'[c] >= 1 => \/ readLock'[c] = readLock[c] /\ Base(c)' >= Base(c)
                                \/ Base(c)' = live.mxFrame,
           SelfOk(c)'
    PROVE  IInv'
BY QuietIsCalm, CalmStep

-----------------------------------------------------------------------------
(* What each step leaves alone, and what it does to its own connection. *)

LEMMA ReadHdrEffect ==
    ASSUME TypeOK, NEW c \in Conns, ReadHdr(c)
    PROVE  /\ Others(c)
           /\ hdr'[c] = live
           /\ isChanged'[c] = (mode[c] # "none" /\ hdr[c] # live)
           /\ (hdr[c] = live => snap'[c] = snap[c])
           /\ at'[c] = IF mode[c] = "none" THEN "choose" ELSE "ckptSafe"
           /\ readLock'[c] = readLock[c] /\ slot'[c] = slot[c] /\ minFrame'[c] = minFrame[c]
           /\ reCksum'[c] = reCksum[c] /\ dirty'[c] = dirty[c] /\ todo'[c] = todo[c]
           /\ iFrame'[c] = iFrame[c] /\ commits'[c] = commits[c] /\ mode'[c] = mode[c]
           /\ mxSafe'[c] = mxSafe[c] /\ next'[c] = next[c] /\ tx'[c] = tx[c]
<1>1. hdr \in [Conns -> Hdr] /\ isChanged \in [Conns -> BOOLEAN] /\ snap \in [Conns -> [Pages -> Contents]] /\ at \in [Conns -> Steps]
  BY DEF TypeOK
<1>2. \A q \in Conns \ {c} : hdr'[q] = hdr[q] /\ isChanged'[q] = isChanged[q] /\ snap'[q] = snap[q] /\ at'[q] = at[q]
  BY <1>1 DEF ReadHdr, Goto, AfterHdr, Set
<1>3. Others(c)
  BY <1>2, BoundsAssumption DEF Others, Same, Unlocked, Free, ReadHdr, Goto, AfterHdr, Set, files, index,
                                locks, reading, writing, checkpointing, ghosts
<1>4. hdr'[c] = live
  BY <1>1, BoundsAssumption DEF ReadHdr, Goto, AfterHdr, Set
<1>5. isChanged'[c] = (mode[c] # "none" /\ hdr[c] # live)
  BY <1>1, BoundsAssumption DEF ReadHdr, Goto, AfterHdr, Set
<1>6. (hdr[c] = live => snap'[c] = snap[c])
  BY <1>1, BoundsAssumption DEF ReadHdr, Goto, AfterHdr, Set
<1>7. at'[c] = IF mode[c] = "none" THEN "choose" ELSE "ckptSafe"
  BY <1>1, BoundsAssumption DEF ReadHdr, Goto, AfterHdr, Set
<1> QED BY <1>3, <1>4, <1>5, <1>6, <1>7 DEF ReadHdr, Goto, AfterHdr, Set, files, index, locks, reading,
                                        writing, checkpointing, ghosts

LEMMA RecoverHdrEffect ==
    ASSUME TypeOK, NEW c \in Conns, RecoverHdr(c)
    PROVE  /\ Others(c)
           /\ hdr'[c] = live'
           /\ isChanged'[c] = (mode[c] # "none")
           /\ at'[c] = "recoverReset"
           /\ readLock'[c] = readLock[c] /\ slot'[c] = slot[c] /\ minFrame'[c] = minFrame[c]
           /\ reCksum'[c] = reCksum[c] /\ dirty'[c] = dirty[c] /\ todo'[c] = todo[c]
           /\ iFrame'[c] = iFrame[c] /\ commits'[c] = commits[c] /\ mode'[c] = mode[c]
           /\ mxSafe'[c] = mxSafe[c] /\ next'[c] = next[c] /\ tx'[c] = tx[c]
<1>1. hdr \in [Conns -> Hdr] /\ isChanged \in [Conns -> BOOLEAN] /\ snap \in [Conns -> [Pages -> Contents]] /\ at \in [Conns -> Steps]
  BY DEF TypeOK
<1>2. \A q \in Conns \ {c} : hdr'[q] = hdr[q] /\ isChanged'[q] = isChanged[q] /\ snap'[q] = snap[q] /\ at'[q] = at[q]
  BY <1>1 DEF RecoverHdr, Goto, Set
<1>3. Others(c)
  BY <1>2, BoundsAssumption DEF Others, Same, Unlocked, Free, RecoverHdr, Goto, Set, files, index, locks,
                                reading, writing, checkpointing, ghosts
<1>4. hdr'[c] = live'
  BY <1>1, BoundsAssumption DEF RecoverHdr, Goto, Set
<1>5. isChanged'[c] = (mode[c] # "none")
  BY <1>1, BoundsAssumption DEF RecoverHdr, Goto, Set
<1>6. at'[c] = "recoverReset"
  BY <1>1, BoundsAssumption DEF RecoverHdr, Goto, Set
<1> QED BY <1>3, <1>4, <1>5, <1>6 DEF RecoverHdr, Goto, Set, files, index, locks, reading, writing,
                                      checkpointing, ghosts

LEMMA RecoverResetEffect ==
    ASSUME TypeOK, NEW c \in Conns, RecoverReset(c), writer = c, ckpter = c
    PROVE  /\ Others(c)
           /\ at'[c] = IF mode[c] = "none" THEN "choose" ELSE "ckptSafe"
           /\ hdr'[c] = hdr[c] /\ readLock'[c] = readLock[c] /\ slot'[c] = slot[c]
           /\ minFrame'[c] = minFrame[c] /\ reCksum'[c] = reCksum[c] /\ dirty'[c] = dirty[c]
           /\ todo'[c] = todo[c] /\ iFrame'[c] = iFrame[c] /\ commits'[c] = commits[c]
           /\ mode'[c] = mode[c] /\ isChanged'[c] = isChanged[c] /\ mxSafe'[c] = mxSafe[c]
           /\ next'[c] = next[c] /\ tx'[c] = tx[c] /\ snap'[c] = snap[c]
<1>1. at \in [Conns -> Steps]
  BY DEF TypeOK
<1>2. \A q \in Conns \ {c} : at'[q] = at[q]
  BY <1>1 DEF RecoverReset, Goto, AfterHdr, Set
<1>3. Others(c)
  BY <1>2, BoundsAssumption DEF Others, Same, Unlocked, Free, RecoverReset, Goto, AfterHdr, Set, files,
                                index, locks, reading, writing, checkpointing, ghosts
<1>4. at'[c] = IF mode[c] = "none" THEN "choose" ELSE "ckptSafe"
  BY <1>1, BoundsAssumption DEF RecoverReset, Goto, AfterHdr, Set
<1> QED BY <1>3, <1>4 DEF RecoverReset, Goto, AfterHdr, Set, files, index, locks, reading, writing,
                          checkpointing, ghosts

LEMMA ChooseEffect ==
    ASSUME TypeOK, NEW c \in Conns, Choose(c)
    PROVE  /\ Others(c)
           /\ \/ /\ writer # c /\ nBackfill = hdr[c].mxFrame /\ SharedIsFree(0, c) /\ hdr[c] = live
                 /\ readLock'[c] = 0 /\ snap'[c] = latest /\ at'[c] = "idle"
              \/ /\ readLock'[c] = readLock[c] /\ snap'[c] = snap[c]
                 /\ at'[c] = "mark" \/ (writer # c /\ at'[c] = "readHdr")
           /\ hdr'[c] = hdr[c] /\ slot'[c] = slot[c] /\ minFrame'[c] = minFrame[c]
           /\ reCksum'[c] = reCksum[c] /\ dirty'[c] = dirty[c] /\ todo'[c] = todo[c]
           /\ iFrame'[c] = iFrame[c] /\ commits'[c] = commits[c] /\ mode'[c] = mode[c]
           /\ isChanged'[c] = isChanged[c] /\ mxSafe'[c] = mxSafe[c] /\ next'[c] = next[c]
           /\ tx'[c] = tx[c]
<1>1. at \in [Conns -> Steps] /\ readLock \in [Conns -> -1..ReadMarks] /\ snap \in [Conns -> [Pages -> Contents]]
  BY DEF TypeOK
<1>2. \A q \in Conns \ {c} : at'[q] = at[q] /\ readLock'[q] = readLock[q] /\ snap'[q] = snap[q]
  BY <1>1 DEF Choose, Goto, Retry, Opened, WhereToWrite, Set
<1>3. Others(c)
  BY <1>2, BoundsAssumption DEF Others, Same, Unlocked, Free, Choose, Goto, Retry, Opened, WhereToWrite,
                                Set, files, index, locks, reading, writing, checkpointing, ghosts
<1>4. \/ /\ writer # c /\ nBackfill = hdr[c].mxFrame /\ SharedIsFree(0, c) /\ hdr[c] = live
         /\ readLock'[c] = 0 /\ snap'[c] = latest /\ at'[c] = "idle"
      \/ /\ readLock'[c] = readLock[c] /\ snap'[c] = snap[c]
         /\ at'[c] = "mark" \/ (writer # c /\ at'[c] = "readHdr")
  BY <1>1, BoundsAssumption DEF Choose, Goto, Retry, Opened, WhereToWrite, Set
<1> QED BY <1>3, <1>4 DEF Choose, Goto, Retry, Opened, WhereToWrite, Set, files, index, locks, reading,
                          writing, checkpointing, ghosts

LEMMA MarkEffect ==
    ASSUME TypeOK, NEW c \in Conns, Mark(c)
    PROVE  /\ Others(c)
           /\ \/ at'[c] = "lockSlot" /\ slot'[c].i \in Slots /\ slot'[c].mark <= hdr[c].mxFrame
              \/ at'[c] = IF writer = c THEN "choose" ELSE "readHdr"
           /\ \A i \in Slots : \/ aReadMark'[i] = aReadMark[i]
                               \/ ExclusiveIsFree(i, c) /\ aReadMark'[i] = hdr[c].mxFrame
           /\ hdr'[c] = hdr[c] /\ readLock'[c] = readLock[c] /\ minFrame'[c] = minFrame[c]
           /\ reCksum'[c] = reCksum[c] /\ dirty'[c] = dirty[c] /\ todo'[c] = todo[c]
           /\ iFrame'[c] = iFrame[c] /\ commits'[c] = commits[c] /\ mode'[c] = mode[c]
           /\ isChanged'[c] = isChanged[c] /\ mxSafe'[c] = mxSafe[c] /\ next'[c] = next[c]
           /\ tx'[c] = tx[c] /\ snap'[c] = snap[c]
<1>0. aReadMark \in [Slots -> 0..READMARK_NOT_USED] /\ at \in [Conns -> Steps]
      /\ slot \in [Conns -> [i : 0..ReadMarks, mark : 0..MaxFrame]]
  BY DEF TypeOK
<1>a. PICK s \in [i : 0..ReadMarks, mark : 0..MaxFrame] :
         /\ slot' = Set(slot, c, s)
         /\ s.i # 0 => s.i \in Slots /\ s.mark <= hdr[c].mxFrame /\ Goto(c, "lockSlot")
         /\ s.i = 0 => Retry(c)
         /\ \/ UNCHANGED aReadMark
            \/ /\ ExclusiveIsFree(s.i, c) /\ s.i \in Slots
               /\ aReadMark' = [aReadMark EXCEPT ![s.i] = hdr[c].mxFrame]
  BY MarkIs
<1>b. slot'[c] = s
  BY <1>0, <1>a DEF Set
<1>1. slot \in [Conns -> [i : 0..ReadMarks, mark : 0..MaxFrame]] /\ at \in [Conns -> Steps]
  BY DEF TypeOK
<1>2. \A q \in Conns \ {c} : slot'[q] = slot[q] /\ at'[q] = at[q]
  BY <1>1, MarkIs DEF Mark, Goto, Retry, Set
<1>3. Others(c)
  BY <1>2, BoundsAssumption, MarkIs DEF Others, Same, Unlocked, Free, Mark, Goto, Retry, Set, files, index,
                                        locks, reading, writing, checkpointing, ghosts
<1>4. \/ at'[c] = "lockSlot" /\ slot'[c].i \in Slots /\ slot'[c].mark <= hdr[c].mxFrame
      \/ at'[c] = IF writer = c THEN "choose" ELSE "readHdr"
  BY <1>0, <1>a, <1>b, BoundsAssumption DEF Goto, Retry, Set
<1>5. \A i \in Slots : \/ aReadMark'[i] = aReadMark[i]
                       \/ ExclusiveIsFree(i, c) /\ aReadMark'[i] = hdr[c].mxFrame
  BY <1>0, <1>a, <1>b, BoundsAssumption DEF Goto, Retry, Set
<1> QED BY <1>3, <1>4, <1>5, MarkIs DEF Mark, Goto, Retry, Set, files, index, locks, reading, writing,
                                        checkpointing, ghosts

LEMMA LockSlotEffect ==
    ASSUME TypeOK, NEW c \in Conns, LockSlot(c)
    PROVE  /\ Others(c)
           /\ \/ SharedIsFree(slot[c].i, c) /\ minFrame'[c] = nBackfill + 1 /\ at'[c] = "verify"
              \/ minFrame'[c] = minFrame[c] /\ at'[c] = IF writer = c THEN "choose" ELSE "readHdr"
           /\ hdr'[c] = hdr[c] /\ readLock'[c] = readLock[c] /\ slot'[c] = slot[c]
           /\ reCksum'[c] = reCksum[c] /\ dirty'[c] = dirty[c] /\ todo'[c] = todo[c]
           /\ iFrame'[c] = iFrame[c] /\ commits'[c] = commits[c] /\ mode'[c] = mode[c]
           /\ isChanged'[c] = isChanged[c] /\ mxSafe'[c] = mxSafe[c] /\ next'[c] = next[c]
           /\ tx'[c] = tx[c] /\ snap'[c] = snap[c]
<1>1. minFrame \in [Conns -> 1..MaxFrame + 1] /\ at \in [Conns -> Steps]
  BY DEF TypeOK
<1>2. \A q \in Conns \ {c} : minFrame'[q] = minFrame[q] /\ at'[q] = at[q]
  BY <1>1 DEF LockSlot, Goto, Retry, Set
<1>3. Others(c)
  BY <1>2, BoundsAssumption DEF Others, Same, Unlocked, Free, LockSlot, Goto, Retry, Set, files, index,
                                locks, reading, writing, checkpointing, ghosts
<1>4. \/ SharedIsFree(slot[c].i, c) /\ minFrame'[c] = nBackfill + 1 /\ at'[c] = "verify"
      \/ minFrame'[c] = minFrame[c] /\ at'[c] = IF writer = c THEN "choose" ELSE "readHdr"
  BY <1>1, BoundsAssumption DEF LockSlot, Goto, Retry, Set
<1> QED BY <1>3, <1>4 DEF LockSlot, Goto, Retry, Set, files, index, locks, reading, writing, checkpointing,
                          ghosts

LEMMA VerifyEffect ==
    ASSUME TypeOK, NEW c \in Conns, Verify(c)
    PROVE  /\ Others(c)
           /\ \/ /\ aReadMark[slot[c].i] = slot[c].mark /\ hdr[c] = live /\ readLock'[c] = slot[c].i
                 /\ snap'[c] = IF writer = c THEN snap[c] ELSE latest
                 /\ at'[c] = IF writer # c THEN "idle" ELSE IF hdr[c].mxFrame = 0 THEN "walHdr" ELSE "frames"
              \/ /\ readLock'[c] = readLock[c] /\ snap'[c] = snap[c]
                 /\ at'[c] = IF writer = c THEN "choose" ELSE "readHdr"
           /\ hdr'[c] = hdr[c] /\ minFrame'[c] = minFrame[c] /\ reCksum'[c] = reCksum[c]
           /\ dirty'[c] = dirty[c] /\ todo'[c] = todo[c] /\ iFrame'[c] = iFrame[c]
           /\ commits'[c] = commits[c] /\ mode'[c] = mode[c] /\ isChanged'[c] = isChanged[c]
           /\ mxSafe'[c] = mxSafe[c] /\ next'[c] = next[c] /\ tx'[c] = tx[c]
<1>1. at \in [Conns -> Steps] /\ readLock \in [Conns -> -1..ReadMarks] /\ snap \in [Conns -> [Pages -> Contents]] /\ slot \in [Conns -> [i : 0..ReadMarks, mark : 0..MaxFrame]]
  BY DEF TypeOK
<1>2. \A q \in Conns \ {c} : at'[q] = at[q] /\ readLock'[q] = readLock[q] /\ snap'[q] = snap[q] /\ slot'[q] = slot[q]
  BY <1>1 DEF Verify, Goto, Retry, Opened, WhereToWrite, Set
<1>3. Others(c)
  BY <1>2, BoundsAssumption DEF Others, Same, Unlocked, Free, Verify, Goto, Retry, Opened, WhereToWrite,
                                Set, files, index, locks, reading, writing, checkpointing, ghosts
<1>4. \/ /\ aReadMark[slot[c].i] = slot[c].mark /\ hdr[c] = live /\ readLock'[c] = slot[c].i
         /\ snap'[c] = IF writer = c THEN snap[c] ELSE latest
         /\ at'[c] = IF writer # c THEN "idle" ELSE IF hdr[c].mxFrame = 0 THEN "walHdr" ELSE "frames"
      \/ /\ readLock'[c] = readLock[c] /\ snap'[c] = snap[c]
         /\ at'[c] = IF writer = c THEN "choose" ELSE "readHdr"
  BY <1>1, BoundsAssumption DEF Verify, Goto, Retry, Opened, WhereToWrite, Set
<1> QED BY <1>3, <1>4 DEF Verify, Goto, Retry, Opened, WhereToWrite, Set, files, index, locks, reading,
                          writing, checkpointing, ghosts

LEMMA EndReadEffect ==
    ASSUME TypeOK, NEW c \in Conns, EndRead(c)
    PROVE  /\ Others(c)
           /\ readLock'[c] = -1
           /\ minFrame'[c] = 1
           /\ at'[c] = at[c] /\ hdr'[c] = hdr[c] /\ slot'[c] = slot[c]
           /\ reCksum'[c] = reCksum[c] /\ dirty'[c] = dirty[c] /\ todo'[c] = todo[c]
           /\ iFrame'[c] = iFrame[c] /\ commits'[c] = commits[c] /\ mode'[c] = mode[c]
           /\ isChanged'[c] = isChanged[c] /\ mxSafe'[c] = mxSafe[c] /\ next'[c] = next[c]
           /\ tx'[c] = tx[c] /\ snap'[c] = snap[c]
<1>1. readLock \in [Conns -> -1..ReadMarks] /\ minFrame \in [Conns -> 1..MaxFrame + 1]
  BY DEF TypeOK
<1>2. \A q \in Conns \ {c} : readLock'[q] = readLock[q] /\ minFrame'[q] = minFrame[q]
  BY <1>1 DEF EndRead, Set
<1>3. Others(c)
  BY <1>2, BoundsAssumption DEF Others, Same, Unlocked, Free, EndRead, Set, files, index, locks, reading,
                                writing, checkpointing, ghosts
<1>4. readLock'[c] = -1
  BY <1>1, BoundsAssumption DEF EndRead, Set
<1>5. minFrame'[c] = 1
  BY <1>1, BoundsAssumption DEF EndRead, Set
<1> QED BY <1>3, <1>4, <1>5 DEF EndRead, Set, files, index, locks, reading, writing, checkpointing, ghosts

LEMMA BeginWriteEffect ==
    ASSUME TypeOK, NEW c \in Conns, BeginWrite(c)
    PROVE  /\ Others(c)
           /\ tx'[c] = Unchanged
           /\ at'[c] = at[c] /\ hdr'[c] = hdr[c] /\ readLock'[c] = readLock[c]
           /\ slot'[c] = slot[c] /\ minFrame'[c] = minFrame[c] /\ reCksum'[c] = reCksum[c]
           /\ dirty'[c] = dirty[c] /\ todo'[c] = todo[c] /\ iFrame'[c] = iFrame[c]
           /\ commits'[c] = commits[c] /\ mode'[c] = mode[c] /\ isChanged'[c] = isChanged[c]
           /\ mxSafe'[c] = mxSafe[c] /\ next'[c] = next[c] /\ snap'[c] = snap[c]
<1>1. tx \in [Conns -> [Pages -> Contents]]
  BY DEF TypeOK
<1>2. \A q \in Conns \ {c} : tx'[q] = tx[q]
  BY <1>1 DEF BeginWrite, Set
<1>3. Others(c)
  BY <1>2, BoundsAssumption DEF Others, Same, Unlocked, Free, BeginWrite, Set, files, index, locks,
                                reading, writing, checkpointing, ghosts
<1>4. tx'[c] = Unchanged
  BY <1>1, BoundsAssumption DEF BeginWrite, Set
<1> QED BY <1>3, <1>4 DEF BeginWrite, Set, files, index, locks, reading, writing, checkpointing, ghosts

LEMMA ChangeEffect ==
    ASSUME TypeOK, NEW c \in Conns, NEW pg \in Pages, Change(c, pg)
    PROVE  /\ Others(c)
           /\ tx'[c] = [tx[c] EXCEPT ![pg] = nWrites + 1]
           /\ dirty'[c] = dirty[c] \cup {pg}
           /\ at'[c] = at[c] /\ hdr'[c] = hdr[c] /\ readLock'[c] = readLock[c]
           /\ slot'[c] = slot[c] /\ minFrame'[c] = minFrame[c] /\ reCksum'[c] = reCksum[c]
           /\ todo'[c] = todo[c] /\ iFrame'[c] = iFrame[c] /\ commits'[c] = commits[c]
           /\ mode'[c] = mode[c] /\ isChanged'[c] = isChanged[c] /\ mxSafe'[c] = mxSafe[c]
           /\ next'[c] = next[c] /\ snap'[c] = snap[c]
<1>1. tx \in [Conns -> [Pages -> Contents]] /\ dirty \in [Conns -> SUBSET Pages]
  BY DEF TypeOK
<1>2. \A q \in Conns \ {c} : tx'[q] = tx[q] /\ dirty'[q] = dirty[q]
  BY <1>1 DEF Change, Set
<1>3. Others(c)
  BY <1>2, BoundsAssumption DEF Others, Same, Unlocked, Free, Change, Set, files, index, locks, reading,
                                writing, checkpointing, ghosts
<1>4. tx'[c] = [tx[c] EXCEPT ![pg] = nWrites + 1]
  BY <1>1, BoundsAssumption DEF Change, Set
<1>5. dirty'[c] = dirty[c] \cup {pg}
  BY <1>1, BoundsAssumption DEF Change, Set
<1> QED BY <1>3, <1>4, <1>5 DEF Change, Set, files, index, locks, reading, writing, checkpointing, ghosts

LEMMA CallFramesEffect ==
    ASSUME TypeOK, NEW c \in Conns, NEW list, NEW isCommit, CallFrames(c, list, isCommit)
    PROVE  /\ Others(c)
           /\ todo'[c] = list
           /\ commits'[c] = isCommit
           /\ iFrame'[c] = hdr[c].mxFrame
           /\ at'[c] = IF readLock[c] = 0 THEN "restart" ELSE IF hdr[c].mxFrame = 0 THEN "walHdr" ELSE "frames"
           /\ hdr'[c] = hdr[c] /\ readLock'[c] = readLock[c] /\ slot'[c] = slot[c]
           /\ minFrame'[c] = minFrame[c] /\ reCksum'[c] = reCksum[c] /\ dirty'[c] = dirty[c]
           /\ mode'[c] = mode[c] /\ isChanged'[c] = isChanged[c] /\ mxSafe'[c] = mxSafe[c]
           /\ next'[c] = next[c] /\ tx'[c] = tx[c] /\ snap'[c] = snap[c]
<1>1. todo \in [Conns -> SUBSET Pages] /\ commits \in [Conns -> BOOLEAN] /\ iFrame \in [Conns -> 0..MaxFrame] /\ at \in [Conns -> Steps]
  BY DEF TypeOK
<1>2. \A q \in Conns \ {c} : todo'[q] = todo[q] /\ commits'[q] = commits[q] /\ iFrame'[q] = iFrame[q] /\ at'[q] = at[q]
  BY <1>1 DEF CallFrames, Goto, WhereToWrite, Set
<1>3. Others(c)
  BY <1>2, BoundsAssumption DEF Others, Same, Unlocked, Free, CallFrames, Goto, WhereToWrite, Set, files,
                                index, locks, reading, writing, checkpointing, ghosts
<1>4. todo'[c] = list
  BY <1>1, BoundsAssumption DEF CallFrames, Goto, WhereToWrite, Set
<1>5. commits'[c] = isCommit
  BY <1>1, BoundsAssumption DEF CallFrames, Goto, WhereToWrite, Set
<1>6. iFrame'[c] = hdr[c].mxFrame
  BY <1>1, BoundsAssumption DEF CallFrames, Goto, WhereToWrite, Set
<1>7. at'[c] = IF readLock[c] = 0 THEN "restart" ELSE IF hdr[c].mxFrame = 0 THEN "walHdr" ELSE "frames"
  BY <1>1, BoundsAssumption DEF CallFrames, Goto, WhereToWrite, Set
<1> QED BY <1>3, <1>4, <1>5, <1>6, <1>7 DEF CallFrames, Goto, WhereToWrite, Set, files, index, locks,
                                        reading, writing, checkpointing, ghosts

LEMMA KeepLogEffect ==
    ASSUME TypeOK, NEW c \in Conns, KeepLog(c)
    PROVE  /\ Others(c)
           /\ readLock'[c] = -1
           /\ at'[c] = "choose"
           /\ hdr'[c] = hdr[c] /\ slot'[c] = slot[c] /\ minFrame'[c] = minFrame[c]
           /\ reCksum'[c] = reCksum[c] /\ dirty'[c] = dirty[c] /\ todo'[c] = todo[c]
           /\ iFrame'[c] = iFrame[c] /\ commits'[c] = commits[c] /\ mode'[c] = mode[c]
           /\ isChanged'[c] = isChanged[c] /\ mxSafe'[c] = mxSafe[c] /\ next'[c] = next[c]
           /\ tx'[c] = tx[c] /\ snap'[c] = snap[c]
<1>1. readLock \in [Conns -> -1..ReadMarks] /\ at \in [Conns -> Steps]
  BY DEF TypeOK
<1>2. \A q \in Conns \ {c} : readLock'[q] = readLock[q] /\ at'[q] = at[q]
  BY <1>1 DEF KeepLog, Goto, Set
<1>3. Others(c)
  BY <1>2, BoundsAssumption DEF Others, Same, Unlocked, Free, KeepLog, Goto, Set, files, index, locks,
                                reading, writing, checkpointing, ghosts
<1>4. readLock'[c] = -1
  BY <1>1, BoundsAssumption DEF KeepLog, Goto, Set
<1>5. at'[c] = "choose"
  BY <1>1, BoundsAssumption DEF KeepLog, Goto, Set
<1> QED BY <1>3, <1>4, <1>5 DEF KeepLog, Goto, Set, files, index, locks, reading, writing, checkpointing,
                                ghosts

LEMMA RestartIndexEffect ==
    ASSUME TypeOK, NEW c \in Conns, RestartIndex(c)
    PROVE  /\ Others(c)
           /\ at'[c] = IF mode[c] = "TRUNCATE" THEN "truncate" ELSE "choose"
           /\ readLock'[c] = IF mode[c] = "TRUNCATE" THEN readLock[c] ELSE -1
           /\ hdr'[c] = hdr[c] /\ slot'[c] = slot[c] /\ minFrame'[c] = minFrame[c]
           /\ reCksum'[c] = reCksum[c] /\ dirty'[c] = dirty[c] /\ todo'[c] = todo[c]
           /\ iFrame'[c] = iFrame[c] /\ commits'[c] = commits[c] /\ mode'[c] = mode[c]
           /\ isChanged'[c] = isChanged[c] /\ mxSafe'[c] = mxSafe[c] /\ next'[c] = next[c]
           /\ tx'[c] = tx[c] /\ snap'[c] = snap[c]
<1>1. at \in [Conns -> Steps] /\ readLock \in [Conns -> -1..ReadMarks]
  BY DEF TypeOK
<1>2. \A q \in Conns \ {c} : at'[q] = at[q] /\ readLock'[q] = readLock[q]
  BY <1>1 DEF RestartIndex, Goto, Set
<1>3. Others(c)
  BY <1>2, BoundsAssumption DEF Others, Same, Unlocked, Free, RestartIndex, Goto, Set, files, index, locks,
                                reading, writing, checkpointing, ghosts
<1>4. at'[c] = IF mode[c] = "TRUNCATE" THEN "truncate" ELSE "choose"
  BY <1>1, BoundsAssumption DEF RestartIndex, Goto, Set
<1>5. readLock'[c] = IF mode[c] = "TRUNCATE" THEN readLock[c] ELSE -1
  BY <1>1, BoundsAssumption DEF RestartIndex, Goto, Set
<1> QED BY <1>3, <1>4, <1>5 DEF RestartIndex, Goto, Set, files, index, locks, reading, writing,
                                checkpointing, ghosts

LEMMA SyncHdrEffect ==
    ASSUME TypeOK, NEW c \in Conns, SyncHdr(c)
    PROVE  /\ Others(c)
           /\ at'[c] = "frames"
           /\ hdr'[c] = hdr[c] /\ readLock'[c] = readLock[c] /\ slot'[c] = slot[c]
           /\ minFrame'[c] = minFrame[c] /\ reCksum'[c] = reCksum[c] /\ dirty'[c] = dirty[c]
           /\ todo'[c] = todo[c] /\ iFrame'[c] = iFrame[c] /\ commits'[c] = commits[c]
           /\ mode'[c] = mode[c] /\ isChanged'[c] = isChanged[c] /\ mxSafe'[c] = mxSafe[c]
           /\ next'[c] = next[c] /\ tx'[c] = tx[c] /\ snap'[c] = snap[c]
<1>1. at \in [Conns -> Steps]
  BY DEF TypeOK
<1>2. \A q \in Conns \ {c} : at'[q] = at[q]
  BY <1>1 DEF SyncHdr, Goto, Set
<1>3. Others(c)
  BY <1>2, BoundsAssumption DEF Others, Same, Unlocked, Free, SyncHdr, Goto, Set, files, index, locks,
                                reading, writing, checkpointing, ghosts
<1>4. at'[c] = "frames"
  BY <1>1, BoundsAssumption DEF SyncHdr, Goto, Set
<1> QED BY <1>3, <1>4 DEF SyncHdr, Goto, Set, files, index, locks, reading, writing, checkpointing, ghosts

LEMMA SyncLogEffect ==
    ASSUME TypeOK, NEW c \in Conns, SyncLog(c)
    PROVE  /\ Others(c)
           /\ at'[c] = "publish"
           /\ hdr'[c] = hdr[c] /\ readLock'[c] = readLock[c] /\ slot'[c] = slot[c]
           /\ minFrame'[c] = minFrame[c] /\ reCksum'[c] = reCksum[c] /\ dirty'[c] = dirty[c]
           /\ todo'[c] = todo[c] /\ iFrame'[c] = iFrame[c] /\ commits'[c] = commits[c]
           /\ mode'[c] = mode[c] /\ isChanged'[c] = isChanged[c] /\ mxSafe'[c] = mxSafe[c]
           /\ next'[c] = next[c] /\ tx'[c] = tx[c] /\ snap'[c] = snap[c]
<1>1. at \in [Conns -> Steps]
  BY DEF TypeOK
<1>2. \A q \in Conns \ {c} : at'[q] = at[q]
  BY <1>1 DEF SyncLog, Goto, Set
<1>3. Others(c)
  BY <1>2, BoundsAssumption DEF Others, Same, Unlocked, Free, SyncLog, Goto, Set, files, index, locks,
                                reading, writing, checkpointing, ghosts
<1>4. at'[c] = "publish"
  BY <1>1, BoundsAssumption DEF SyncLog, Goto, Set
<1> QED BY <1>3, <1>4 DEF SyncLog, Goto, Set, files, index, locks, reading, writing, checkpointing, ghosts

LEMMA OverwriteEffect ==
    ASSUME TypeOK, NEW c \in Conns, Overwrite(c)
    PROVE  /\ Others(c)
           /\ at'[c] = IF ~IsLast(c) THEN at[c] ELSE IF ~commits[c] THEN "publish" ELSE IF TRUE THEN "checksums" ELSE "sync"
           /\ todo'[c] = todo[c] \ {Page(c)}
           /\ dirty'[c] = dirty[c] \ {Page(c)}
           /\ reCksum'[c] = IF reCksum[c] = 0 THEN Spilled(c) ELSE Min({reCksum[c], Spilled(c)})
           /\ hdr'[c] = hdr[c] /\ readLock'[c] = readLock[c] /\ slot'[c] = slot[c]
           /\ minFrame'[c] = minFrame[c] /\ iFrame'[c] = iFrame[c] /\ commits'[c] = commits[c]
           /\ mode'[c] = mode[c] /\ isChanged'[c] = isChanged[c] /\ mxSafe'[c] = mxSafe[c]
           /\ next'[c] = next[c] /\ tx'[c] = tx[c] /\ snap'[c] = snap[c]
<1>1. at \in [Conns -> Steps] /\ todo \in [Conns -> SUBSET Pages] /\ dirty \in [Conns -> SUBSET Pages] /\ reCksum \in [Conns -> 0..MaxFrame]
  BY DEF TypeOK
<1>2. \A q \in Conns \ {c} : at'[q] = at[q] /\ todo'[q] = todo[q] /\ dirty'[q] = dirty[q] /\ reCksum'[q] = reCksum[q]
  BY <1>1 DEF Overwrite, Written, Goto, Set
<1>3. Others(c)
  BY <1>2, BoundsAssumption DEF Others, Same, Unlocked, Free, Overwrite, Written, Goto, Set, files, index,
                                locks, reading, writing, checkpointing, ghosts
<1>4. at'[c] = IF ~IsLast(c) THEN at[c] ELSE IF ~commits[c] THEN "publish" ELSE IF TRUE THEN "checksums" ELSE "sync"
  BY <1>1, BoundsAssumption DEF Overwrite, Written, Goto, Set
<1>5. todo'[c] = todo[c] \ {Page(c)}
  BY <1>1, BoundsAssumption DEF Overwrite, Written, Goto, Set
<1>6. dirty'[c] = dirty[c] \ {Page(c)}
  BY <1>1, BoundsAssumption DEF Overwrite, Written, Goto, Set
<1>7. reCksum'[c] = IF reCksum[c] = 0 THEN Spilled(c) ELSE Min({reCksum[c], Spilled(c)})
  BY <1>1, BoundsAssumption DEF Overwrite, Written, Goto, Set
<1> QED BY <1>3, <1>4, <1>5, <1>6, <1>7 DEF Overwrite, Written, Goto, Set, files, index, locks, reading,
                                        writing, checkpointing, ghosts

LEMMA AppendFrameEffect ==
    ASSUME TypeOK, NEW c \in Conns, AppendFrame(c)
    PROVE  /\ Others(c)
           /\ at'[c] = IF ~IsLast(c) THEN at[c] ELSE IF ~commits[c] THEN "publish" ELSE IF reCksum[c] > 0 THEN "checksums" ELSE "sync"
           /\ todo'[c] = todo[c] \ {Page(c)}
           /\ dirty'[c] = dirty[c] \ {Page(c)}
           /\ iFrame'[c] = iFrame[c] + 1
           /\ hdr'[c] = hdr[c] /\ readLock'[c] = readLock[c] /\ slot'[c] = slot[c]
           /\ minFrame'[c] = minFrame[c] /\ reCksum'[c] = reCksum[c]
           /\ commits'[c] = commits[c] /\ mode'[c] = mode[c] /\ isChanged'[c] = isChanged[c]
           /\ mxSafe'[c] = mxSafe[c] /\ next'[c] = next[c] /\ tx'[c] = tx[c]
           /\ snap'[c] = snap[c]
<1>1. at \in [Conns -> Steps] /\ todo \in [Conns -> SUBSET Pages] /\ dirty \in [Conns -> SUBSET Pages] /\ iFrame \in [Conns -> 0..MaxFrame]
  BY DEF TypeOK
<1>2. \A q \in Conns \ {c} : at'[q] = at[q] /\ todo'[q] = todo[q] /\ dirty'[q] = dirty[q] /\ iFrame'[q] = iFrame[q]
  BY <1>1 DEF AppendFrame, Written, Goto, Set
<1>3. Others(c)
  BY <1>2, BoundsAssumption DEF Others, Same, Unlocked, Free, AppendFrame, Written, Goto, Set, files,
                                index, locks, reading, writing, checkpointing, ghosts
<1>4. at'[c] = IF ~IsLast(c) THEN at[c] ELSE IF ~commits[c] THEN "publish" ELSE IF reCksum[c] > 0 THEN "checksums" ELSE "sync"
  BY <1>1, BoundsAssumption DEF AppendFrame, Written, Goto, Set
<1>5. todo'[c] = todo[c] \ {Page(c)}
  BY <1>1, BoundsAssumption DEF AppendFrame, Written, Goto, Set
<1>6. dirty'[c] = dirty[c] \ {Page(c)}
  BY <1>1, BoundsAssumption DEF AppendFrame, Written, Goto, Set
<1>7. iFrame'[c] = iFrame[c] + 1
  BY <1>1, BoundsAssumption DEF AppendFrame, Written, Goto, Set
<1> QED BY <1>3, <1>4, <1>5, <1>6, <1>7 DEF AppendFrame, Written, Goto, Set, files, index, locks, reading,
                                        writing, checkpointing, ghosts

LEMMA RewriteChecksumEffect ==
    ASSUME TypeOK, NEW c \in Conns, RewriteChecksum(c)
    PROVE  /\ Others(c)
           /\ at'[c] = IF reCksum[c] = iFrame[c] THEN "sync" ELSE "checksums"
           /\ reCksum'[c] = IF reCksum[c] = iFrame[c] THEN 0 ELSE reCksum[c] + 1
           /\ hdr'[c] = hdr[c] /\ readLock'[c] = readLock[c] /\ slot'[c] = slot[c]
           /\ minFrame'[c] = minFrame[c] /\ dirty'[c] = dirty[c] /\ todo'[c] = todo[c]
           /\ iFrame'[c] = iFrame[c] /\ commits'[c] = commits[c] /\ mode'[c] = mode[c]
           /\ isChanged'[c] = isChanged[c] /\ mxSafe'[c] = mxSafe[c] /\ next'[c] = next[c]
           /\ tx'[c] = tx[c] /\ snap'[c] = snap[c]
<1>1. at \in [Conns -> Steps] /\ reCksum \in [Conns -> 0..MaxFrame]
  BY DEF TypeOK
<1>2. \A q \in Conns \ {c} : at'[q] = at[q] /\ reCksum'[q] = reCksum[q]
  BY <1>1 DEF RewriteChecksum, Goto, IsAt, Set
<1>3. Others(c)
  BY <1>2, BoundsAssumption DEF Others, Same, Unlocked, Free, RewriteChecksum, Goto, IsAt, Set, files,
                                index, locks, reading, writing, checkpointing, ghosts
<1>4. at'[c] = IF reCksum[c] = iFrame[c] THEN "sync" ELSE "checksums"
  BY <1>1, BoundsAssumption DEF RewriteChecksum, Goto, IsAt, Set
<1>5. reCksum'[c] = IF reCksum[c] = iFrame[c] THEN 0 ELSE reCksum[c] + 1
  BY <1>1, BoundsAssumption DEF RewriteChecksum, Goto, IsAt, Set
<1> QED BY <1>3, <1>4, <1>5 DEF RewriteChecksum, Goto, IsAt, Set, files, index, locks, reading, writing,
                                checkpointing, ghosts

LEMMA RollbackEffect ==
    ASSUME TypeOK, NEW c \in Conns, Rollback(c)
    PROVE  /\ Others(c)
           /\ hdr'[c] = live
           /\ reCksum'[c] = 0
           /\ dirty'[c] = {}
           /\ tx'[c] = Unchanged
           /\ at'[c] = at[c] /\ readLock'[c] = readLock[c] /\ slot'[c] = slot[c]
           /\ minFrame'[c] = minFrame[c] /\ todo'[c] = todo[c] /\ iFrame'[c] = iFrame[c]
           /\ commits'[c] = commits[c] /\ mode'[c] = mode[c] /\ isChanged'[c] = isChanged[c]
           /\ mxSafe'[c] = mxSafe[c] /\ next'[c] = next[c] /\ snap'[c] = snap[c]
<1>1. hdr \in [Conns -> Hdr] /\ reCksum \in [Conns -> 0..MaxFrame] /\ dirty \in [Conns -> SUBSET Pages] /\ tx \in [Conns -> [Pages -> Contents]]
  BY DEF TypeOK
<1>2. \A q \in Conns \ {c} : hdr'[q] = hdr[q] /\ reCksum'[q] = reCksum[q] /\ dirty'[q] = dirty[q] /\ tx'[q] = tx[q]
  BY <1>1 DEF Rollback, InWrite, Set
<1>3. Others(c)
  BY <1>2, BoundsAssumption DEF Others, Same, Unlocked, Free, Rollback, InWrite, Set, files, index, locks,
                                reading, writing, checkpointing, ghosts
<1>4. hdr'[c] = live
  BY <1>1, BoundsAssumption DEF Rollback, InWrite, Set
<1>5. reCksum'[c] = 0
  BY <1>1, BoundsAssumption DEF Rollback, InWrite, Set
<1>6. dirty'[c] = {}
  BY <1>1, BoundsAssumption DEF Rollback, InWrite, Set
<1>7. tx'[c] = Unchanged
  BY <1>1, BoundsAssumption DEF Rollback, InWrite, Set
<1> QED BY <1>3, <1>4, <1>5, <1>6, <1>7 DEF Rollback, InWrite, Set, files, index, locks, reading, writing,
                                        checkpointing, ghosts

LEMMA CheckpointEffect ==
    ASSUME TypeOK, NEW c \in Conns, NEW eMode, Checkpoint(c, eMode)
    PROVE  /\ Others(c)
           /\ mode'[c] = eMode
           /\ at'[c] = "ckptHdr"
           /\ hdr'[c] = hdr[c] /\ readLock'[c] = readLock[c] /\ slot'[c] = slot[c]
           /\ minFrame'[c] = minFrame[c] /\ reCksum'[c] = reCksum[c] /\ dirty'[c] = dirty[c]
           /\ todo'[c] = todo[c] /\ iFrame'[c] = iFrame[c] /\ commits'[c] = commits[c]
           /\ isChanged'[c] = isChanged[c] /\ mxSafe'[c] = mxSafe[c] /\ next'[c] = next[c]
           /\ tx'[c] = tx[c] /\ snap'[c] = snap[c]
<1>1. mode \in [Conns -> Modes] /\ at \in [Conns -> Steps]
  BY DEF TypeOK
<1>2. \A q \in Conns \ {c} : mode'[q] = mode[q] /\ at'[q] = at[q]
  BY <1>1 DEF Checkpoint, Goto, Set
<1>3. Others(c)
  BY <1>2, BoundsAssumption DEF Others, Same, Unlocked, Free, Checkpoint, Goto, Set, files, index, locks,
                                reading, writing, checkpointing, ghosts
<1>4. mode'[c] = eMode
  BY <1>1, BoundsAssumption DEF Checkpoint, Goto, Set
<1>5. at'[c] = "ckptHdr"
  BY <1>1, BoundsAssumption DEF Checkpoint, Goto, Set
<1> QED BY <1>3, <1>4, <1>5 DEF Checkpoint, Goto, Set, files, index, locks, reading, writing,
                                checkpointing, ghosts

LEMMA CkptNothingEffect ==
    ASSUME TypeOK, NEW c \in Conns, CkptNothing(c)
    PROVE  /\ Others(c)
           /\ at'[c] = "ckptEnd"
           /\ hdr'[c] = hdr[c] /\ readLock'[c] = readLock[c] /\ slot'[c] = slot[c]
           /\ minFrame'[c] = minFrame[c] /\ reCksum'[c] = reCksum[c] /\ dirty'[c] = dirty[c]
           /\ todo'[c] = todo[c] /\ iFrame'[c] = iFrame[c] /\ commits'[c] = commits[c]
           /\ mode'[c] = mode[c] /\ isChanged'[c] = isChanged[c] /\ mxSafe'[c] = mxSafe[c]
           /\ next'[c] = next[c] /\ tx'[c] = tx[c] /\ snap'[c] = snap[c]
<1>1. at \in [Conns -> Steps]
  BY DEF TypeOK
<1>2. \A q \in Conns \ {c} : at'[q] = at[q]
  BY <1>1 DEF CkptNothing, Goto, Set
<1>3. Others(c)
  BY <1>2, BoundsAssumption DEF Others, Same, Unlocked, Free, CkptNothing, Goto, Set, files, index, locks,
                                reading, writing, checkpointing, ghosts
<1>4. at'[c] = "ckptEnd"
  BY <1>1, BoundsAssumption DEF CkptNothing, Goto, Set
<1> QED BY <1>3, <1>4 DEF CkptNothing, Goto, Set, files, index, locks, reading, writing, checkpointing, ghosts

LEMMA CkptSkipEffect ==
    ASSUME TypeOK, NEW c \in Conns, CkptSkip(c)
    PROVE  /\ Others(c)
           /\ at'[c] = "ckptEnd"
           /\ hdr'[c] = hdr[c] /\ readLock'[c] = readLock[c] /\ slot'[c] = slot[c]
           /\ minFrame'[c] = minFrame[c] /\ reCksum'[c] = reCksum[c] /\ dirty'[c] = dirty[c]
           /\ todo'[c] = todo[c] /\ iFrame'[c] = iFrame[c] /\ commits'[c] = commits[c]
           /\ mode'[c] = mode[c] /\ isChanged'[c] = isChanged[c] /\ mxSafe'[c] = mxSafe[c]
           /\ next'[c] = next[c] /\ tx'[c] = tx[c] /\ snap'[c] = snap[c]
<1>1. at \in [Conns -> Steps]
  BY DEF TypeOK
<1>2. \A q \in Conns \ {c} : at'[q] = at[q]
  BY <1>1 DEF CkptSkip, Goto, Set
<1>3. Others(c)
  BY <1>2, BoundsAssumption DEF Others, Same, Unlocked, Free, CkptSkip, Goto, Set, files, index, locks,
                                reading, writing, checkpointing, ghosts
<1>4. at'[c] = "ckptEnd"
  BY <1>1, BoundsAssumption DEF CkptSkip, Goto, Set
<1> QED BY <1>3, <1>4 DEF CkptSkip, Goto, Set, files, index, locks, reading, writing, checkpointing, ghosts

LEMMA CkptLockEffect ==
    ASSUME TypeOK, NEW c \in Conns, CkptLock(c)
    PROVE  /\ Others(c)
           /\ at'[c] = "ckptCopy"
           /\ hdr'[c] = hdr[c] /\ readLock'[c] = readLock[c] /\ slot'[c] = slot[c]
           /\ minFrame'[c] = minFrame[c] /\ reCksum'[c] = reCksum[c] /\ dirty'[c] = dirty[c]
           /\ todo'[c] = todo[c] /\ iFrame'[c] = iFrame[c] /\ commits'[c] = commits[c]
           /\ mode'[c] = mode[c] /\ isChanged'[c] = isChanged[c] /\ mxSafe'[c] = mxSafe[c]
           /\ next'[c] = next[c] /\ tx'[c] = tx[c] /\ snap'[c] = snap[c]
<1>1. at \in [Conns -> Steps]
  BY DEF TypeOK
<1>2. \A q \in Conns \ {c} : at'[q] = at[q]
  BY <1>1 DEF CkptLock, Goto, Set
<1>3. Others(c)
  BY <1>2, BoundsAssumption DEF Others, Same, Unlocked, Free, CkptLock, Goto, Set, files, index, locks,
                                reading, writing, checkpointing, ghosts
<1>4. at'[c] = "ckptCopy"
  BY <1>1, BoundsAssumption DEF CkptLock, Goto, Set
<1> QED BY <1>3, <1>4 DEF CkptLock, Goto, Set, files, index, locks, reading, writing, checkpointing, ghosts

LEMMA CkptSafeEffect ==
    ASSUME TypeOK, NEW c \in Conns, CkptSafe(c)
    PROVE  /\ Others(c)
           /\ mxSafe'[c] = LET mx == IF next[c] = 1 THEN hdr[c].mxFrame ELSE mxSafe[c]
                           IN IF mx > aReadMark[next[c]] /\ ~ExclusiveIsFree(next[c], c) THEN aReadMark[next[c]] ELSE mx
           /\ \/ next[c] = ReadMarks /\ next'[c] = 1 /\ at'[c] = "ckptLock"
              \/ next[c] # ReadMarks /\ next'[c] = next[c] + 1 /\ at'[c] = "ckptSafe"
           /\ hdr'[c] = hdr[c] /\ readLock'[c] = readLock[c] /\ slot'[c] = slot[c]
           /\ minFrame'[c] = minFrame[c] /\ reCksum'[c] = reCksum[c] /\ dirty'[c] = dirty[c]
           /\ todo'[c] = todo[c] /\ iFrame'[c] = iFrame[c] /\ commits'[c] = commits[c]
           /\ mode'[c] = mode[c] /\ isChanged'[c] = isChanged[c] /\ tx'[c] = tx[c]
           /\ snap'[c] = snap[c]
<1>1. at \in [Conns -> Steps] /\ next \in [Conns -> Nat] /\ mxSafe \in [Conns -> 0..MaxFrame]
  BY DEF TypeOK
<1>2. \A q \in Conns \ {c} : at'[q] = at[q] /\ next'[q] = next[q] /\ mxSafe'[q] = mxSafe[q]
  BY <1>1 DEF CkptSafe, Goto, NextStep, IsAt, Set
<1>3. Others(c)
  BY <1>2, BoundsAssumption DEF Others, Same, Unlocked, Free, CkptSafe, Goto, NextStep, IsAt, Set, files,
                                index, locks, reading, writing, checkpointing, ghosts
<1>4. mxSafe'[c] = LET mx == IF next[c] = 1 THEN hdr[c].mxFrame ELSE mxSafe[c]
                   IN IF mx > aReadMark[next[c]] /\ ~ExclusiveIsFree(next[c], c) THEN aReadMark[next[c]] ELSE mx
  BY <1>1, BoundsAssumption DEF CkptSafe, Goto, NextStep, IsAt, Set
<1>5. \/ next[c] = ReadMarks /\ next'[c] = 1 /\ at'[c] = "ckptLock"
      \/ next[c] # ReadMarks /\ next'[c] = next[c] + 1 /\ at'[c] = "ckptSafe"
  BY <1>1, BoundsAssumption DEF CkptSafe, Goto, NextStep, IsAt, Set
<1> QED BY <1>3, <1>4, <1>5 DEF CkptSafe, Goto, NextStep, IsAt, Set, files, index, locks, reading, writing,
                                checkpointing, ghosts

LEMMA CkptCopyEffect ==
    ASSUME TypeOK, NEW c \in Conns, CkptCopy(c)
    PROVE  /\ Others(c)
           /\ \/ next[c] = MaxPage /\ next'[c] = 1 /\ at'[c] = "ckptDone"
              \/ next[c] # MaxPage /\ next'[c] = next[c] + 1 /\ at'[c] = "ckptCopy"
           /\ hdr'[c] = hdr[c] /\ readLock'[c] = readLock[c] /\ slot'[c] = slot[c]
           /\ minFrame'[c] = minFrame[c] /\ reCksum'[c] = reCksum[c] /\ dirty'[c] = dirty[c]
           /\ todo'[c] = todo[c] /\ iFrame'[c] = iFrame[c] /\ commits'[c] = commits[c]
           /\ mode'[c] = mode[c] /\ isChanged'[c] = isChanged[c] /\ mxSafe'[c] = mxSafe[c]
           /\ tx'[c] = tx[c] /\ snap'[c] = snap[c]
<1>1. at \in [Conns -> Steps] /\ next \in [Conns -> Nat]
  BY DEF TypeOK
<1>2. \A q \in Conns \ {c} : at'[q] = at[q] /\ next'[q] = next[q]
  BY <1>1 DEF CkptCopy, Goto, NextStep, IsAt, Set
<1>3. Others(c)
  BY <1>2, BoundsAssumption DEF Others, Same, Unlocked, Free, CkptCopy, Goto, NextStep, IsAt, Set, files,
                                index, locks, reading, writing, checkpointing, ghosts
<1>4. \/ next[c] = MaxPage /\ next'[c] = 1 /\ at'[c] = "ckptDone"
      \/ next[c] # MaxPage /\ next'[c] = next[c] + 1 /\ at'[c] = "ckptCopy"
  BY <1>1, BoundsAssumption DEF CkptCopy, Goto, NextStep, IsAt, Set
<1> QED BY <1>3, <1>4 DEF CkptCopy, Goto, NextStep, IsAt, Set, files, index, locks, reading, writing,
                          checkpointing, ghosts

LEMMA CkptDoneEffect ==
    ASSUME TypeOK, NEW c \in Conns, CkptDone(c)
    PROVE  /\ Others(c)
           /\ at'[c] = "ckptEnd"
           /\ hdr'[c] = hdr[c] /\ readLock'[c] = readLock[c] /\ slot'[c] = slot[c]
           /\ minFrame'[c] = minFrame[c] /\ reCksum'[c] = reCksum[c] /\ dirty'[c] = dirty[c]
           /\ todo'[c] = todo[c] /\ iFrame'[c] = iFrame[c] /\ commits'[c] = commits[c]
           /\ mode'[c] = mode[c] /\ isChanged'[c] = isChanged[c] /\ mxSafe'[c] = mxSafe[c]
           /\ next'[c] = next[c] /\ tx'[c] = tx[c] /\ snap'[c] = snap[c]
<1>1. at \in [Conns -> Steps]
  BY DEF TypeOK
<1>2. \A q \in Conns \ {c} : at'[q] = at[q]
  BY <1>1 DEF CkptDone, Goto, Set
<1>3. Others(c)
  BY <1>2, BoundsAssumption DEF Others, Same, Unlocked, Free, CkptDone, Goto, Set, files, index, locks,
                                reading, writing, checkpointing, ghosts
<1>4. at'[c] = "ckptEnd"
  BY <1>1, BoundsAssumption DEF CkptDone, Goto, Set
<1> QED BY <1>3, <1>4 DEF CkptDone, Goto, Set, files, index, locks, reading, writing, checkpointing, ghosts

LEMMA CkptRestartEffect ==
    ASSUME TypeOK, NEW c \in Conns, CkptRestart(c)
    PROVE  /\ Others(c)
           /\ hdr'[c] = live'
           /\ at'[c] = "restartIndex"
           /\ readLock'[c] = readLock[c] /\ slot'[c] = slot[c] /\ minFrame'[c] = minFrame[c]
           /\ reCksum'[c] = reCksum[c] /\ dirty'[c] = dirty[c] /\ todo'[c] = todo[c]
           /\ iFrame'[c] = iFrame[c] /\ commits'[c] = commits[c] /\ mode'[c] = mode[c]
           /\ isChanged'[c] = isChanged[c] /\ mxSafe'[c] = mxSafe[c] /\ next'[c] = next[c]
           /\ tx'[c] = tx[c] /\ snap'[c] = snap[c]
<1>1. hdr \in [Conns -> Hdr] /\ at \in [Conns -> Steps]
  BY DEF TypeOK
<1>2. \A q \in Conns \ {c} : hdr'[q] = hdr[q] /\ at'[q] = at[q]
  BY <1>1 DEF CkptRestart, RestartHdr, Goto, Set
<1>3. Others(c)
  BY <1>2, BoundsAssumption DEF Others, Same, Unlocked, Free, CkptRestart, RestartHdr, Goto, Set, files,
                                index, locks, reading, writing, checkpointing, ghosts
<1>4. hdr'[c] = live'
  BY <1>1, BoundsAssumption DEF CkptRestart, RestartHdr, Goto, Set
<1>5. at'[c] = "restartIndex"
  BY <1>1, BoundsAssumption DEF CkptRestart, RestartHdr, Goto, Set
<1> QED BY <1>3, <1>4, <1>5 DEF CkptRestart, RestartHdr, Goto, Set, files, index, locks, reading, writing,
                                checkpointing, ghosts

LEMMA RestartEffect ==
    ASSUME TypeOK, NEW c \in Conns, Restart(c)
    PROVE  /\ Others(c)
           /\ hdr'[c] = live'
           /\ at'[c] = "restartIndex"
           /\ iFrame'[c] = 0
           /\ readLock'[c] = readLock[c] /\ slot'[c] = slot[c] /\ minFrame'[c] = minFrame[c]
           /\ reCksum'[c] = reCksum[c] /\ dirty'[c] = dirty[c] /\ todo'[c] = todo[c]
           /\ commits'[c] = commits[c] /\ mode'[c] = mode[c] /\ isChanged'[c] = isChanged[c]
           /\ mxSafe'[c] = mxSafe[c] /\ next'[c] = next[c] /\ tx'[c] = tx[c]
           /\ snap'[c] = snap[c]
<1>1. hdr \in [Conns -> Hdr] /\ at \in [Conns -> Steps] /\ iFrame \in [Conns -> 0..MaxFrame]
  BY DEF TypeOK
<1>2. \A q \in Conns \ {c} : hdr'[q] = hdr[q] /\ at'[q] = at[q] /\ iFrame'[q] = iFrame[q]
  BY <1>1 DEF Restart, RestartHdr, Goto, Set
<1>3. Others(c)
  BY <1>2, BoundsAssumption DEF Others, Same, Unlocked, Free, Restart, RestartHdr, Goto, Set, files, index,
                                locks, reading, writing, checkpointing, ghosts
<1>4. hdr'[c] = live'
  BY <1>1, BoundsAssumption DEF Restart, RestartHdr, Goto, Set
<1>5. at'[c] = "restartIndex"
  BY <1>1, BoundsAssumption DEF Restart, RestartHdr, Goto, Set
<1>6. iFrame'[c] = 0
  BY <1>1, BoundsAssumption DEF Restart, RestartHdr, Goto, Set
<1> QED BY <1>3, <1>4, <1>5, <1>6 DEF Restart, RestartHdr, Goto, Set, files, index, locks, reading,
                                      writing, checkpointing, ghosts

LEMMA TruncateEffect ==
    ASSUME TypeOK, NEW c \in Conns, Truncate(c)
    PROVE  /\ Others(c)
           /\ hdr'[c] = IF isChanged[c] THEN NoHdr ELSE hdr[c]
           /\ (~isChanged[c] => snap'[c] = snap[c])
           /\ mode'[c] = "none"
           /\ isChanged'[c] = FALSE
           /\ mxSafe'[c] = 0
           /\ at'[c] = "idle"
           /\ writer' # c /\ ckpter' # c
           /\ readLock'[c] = readLock[c] /\ slot'[c] = slot[c] /\ minFrame'[c] = minFrame[c]
           /\ reCksum'[c] = reCksum[c] /\ dirty'[c] = dirty[c] /\ todo'[c] = todo[c]
           /\ iFrame'[c] = iFrame[c] /\ commits'[c] = commits[c] /\ next'[c] = next[c]
           /\ tx'[c] = tx[c]
<1>1. hdr \in [Conns -> Hdr] /\ snap \in [Conns -> [Pages -> Contents]] /\ mode \in [Conns -> Modes] /\ isChanged \in [Conns -> BOOLEAN] /\ mxSafe \in [Conns -> 0..MaxFrame] /\ at \in [Conns -> Steps]
  BY DEF TypeOK
<1>2. \A q \in Conns \ {c} : hdr'[q] = hdr[q] /\ snap'[q] = snap[q] /\ mode'[q] = mode[q] /\ isChanged'[q] = isChanged[q] /\ mxSafe'[q] = mxSafe[q] /\ at'[q] = at[q]
  BY <1>1 DEF Truncate, ForgetHdr, CkptReturn, Goto, Unlocked, Set
<1>3. Others(c)
  BY <1>2, BoundsAssumption DEF Others, Same, Unlocked, Free, Truncate, ForgetHdr, CkptReturn, Goto,
                                Unlocked, Set, files, index, locks, reading, writing, checkpointing, ghosts
<1>4. hdr'[c] = IF isChanged[c] THEN NoHdr ELSE hdr[c]
  BY <1>1, BoundsAssumption DEF Truncate, ForgetHdr, CkptReturn, Goto, Unlocked, Set
<1>5. (~isChanged[c] => snap'[c] = snap[c])
  BY <1>1, BoundsAssumption DEF Truncate, ForgetHdr, CkptReturn, Goto, Unlocked, Set
<1>6. mode'[c] = "none"
  BY <1>1, BoundsAssumption DEF Truncate, ForgetHdr, CkptReturn, Goto, Unlocked, Set
<1>7. isChanged'[c] = FALSE
  BY <1>1, BoundsAssumption DEF Truncate, ForgetHdr, CkptReturn, Goto, Unlocked, Set
<1>8. mxSafe'[c] = 0
  BY <1>1, BoundsAssumption DEF Truncate, ForgetHdr, CkptReturn, Goto, Unlocked, Set
<1>9. at'[c] = "idle"
  BY <1>1, BoundsAssumption DEF Truncate, ForgetHdr, CkptReturn, Goto, Unlocked, Set
<1>10. writer' # c /\ ckpter' # c
  BY <1>1, BoundsAssumption DEF Truncate, ForgetHdr, CkptReturn, Goto, Unlocked, Set
<1> QED BY <1>3, <1>4, <1>5, <1>6, <1>7, <1>8, <1>9, <1>10 DEF Truncate, ForgetHdr, CkptReturn, Goto,
                                        Unlocked, Set, files, index, locks, reading, writing,
                                        checkpointing, ghosts

LEMMA CkptEndEffect ==
    ASSUME TypeOK, NEW c \in Conns, CkptEnd(c)
    PROVE  /\ Others(c)
           /\ hdr'[c] = IF isChanged[c] THEN NoHdr ELSE hdr[c]
           /\ (~isChanged[c] => snap'[c] = snap[c])
           /\ mode'[c] = "none"
           /\ isChanged'[c] = FALSE
           /\ mxSafe'[c] = 0
           /\ at'[c] = "idle"
           /\ writer' # c /\ ckpter' # c
           /\ readLock'[c] = readLock[c] /\ slot'[c] = slot[c] /\ minFrame'[c] = minFrame[c]
           /\ reCksum'[c] = reCksum[c] /\ dirty'[c] = dirty[c] /\ todo'[c] = todo[c]
           /\ iFrame'[c] = iFrame[c] /\ commits'[c] = commits[c] /\ next'[c] = next[c]
           /\ tx'[c] = tx[c]
<1>1. hdr \in [Conns -> Hdr] /\ snap \in [Conns -> [Pages -> Contents]] /\ mode \in [Conns -> Modes] /\ isChanged \in [Conns -> BOOLEAN] /\ mxSafe \in [Conns -> 0..MaxFrame] /\ at \in [Conns -> Steps]
  BY DEF TypeOK
<1>2. \A q \in Conns \ {c} : hdr'[q] = hdr[q] /\ snap'[q] = snap[q] /\ mode'[q] = mode[q] /\ isChanged'[q] = isChanged[q] /\ mxSafe'[q] = mxSafe[q] /\ at'[q] = at[q]
  BY <1>1 DEF CkptEnd, ForgetHdr, CkptReturn, Goto, Unlocked, Set
<1>3. Others(c)
  BY <1>2, BoundsAssumption DEF Others, Same, Unlocked, Free, CkptEnd, ForgetHdr, CkptReturn, Goto,
                                Unlocked, Set, files, index, locks, reading, writing, checkpointing, ghosts
<1>4. hdr'[c] = IF isChanged[c] THEN NoHdr ELSE hdr[c]
  BY <1>1, BoundsAssumption DEF CkptEnd, ForgetHdr, CkptReturn, Goto, Unlocked, Set
<1>5. (~isChanged[c] => snap'[c] = snap[c])
  BY <1>1, BoundsAssumption DEF CkptEnd, ForgetHdr, CkptReturn, Goto, Unlocked, Set
<1>6. mode'[c] = "none"
  BY <1>1, BoundsAssumption DEF CkptEnd, ForgetHdr, CkptReturn, Goto, Unlocked, Set
<1>7. isChanged'[c] = FALSE
  BY <1>1, BoundsAssumption DEF CkptEnd, ForgetHdr, CkptReturn, Goto, Unlocked, Set
<1>8. mxSafe'[c] = 0
  BY <1>1, BoundsAssumption DEF CkptEnd, ForgetHdr, CkptReturn, Goto, Unlocked, Set
<1>9. at'[c] = "idle"
  BY <1>1, BoundsAssumption DEF CkptEnd, ForgetHdr, CkptReturn, Goto, Unlocked, Set
<1>10. writer' # c /\ ckpter' # c
  BY <1>1, BoundsAssumption DEF CkptEnd, ForgetHdr, CkptReturn, Goto, Unlocked, Set
<1> QED BY <1>3, <1>4, <1>5, <1>6, <1>7, <1>8, <1>9, <1>10 DEF CkptEnd, ForgetHdr, CkptReturn, Goto,
                                        Unlocked, Set, files, index, locks, reading, writing,
                                        checkpointing, ghosts

-----------------------------------------------------------------------------
(* What a step of connection c, that is quiet, leaves true of c itself. *)

LEMMA IndexIsThere ==
    ASSUME IInv, NEW c \in Conns,
           at[c] \notin {"idle", "gone", "ckptHdr"} \/ readLock[c] # -1 \/ hdr[c] # NoHdr \/ intact
    PROVE  /\ live # NoHdr /\ live.salt \in Nat /\ live.mxFrame \in Nat
           /\ nBackfill \in Nat /\ (nBackfill <= live.mxFrame \/ RestartGoesOn)
           /\ \A pg \in Pages : latest[pg] = Content(db, log, pg, 1, live.mxFrame)
           /\ DbHas(nBackfill + 1)
<1>1. live # NoHdr
  BY DEF IInv, IndexInv, NoIndex
<1>2. live \in Hdr /\ NumbersOk
  BY Numbers DEF IInv, TypeOK
<1>3. live.salt \in Nat
  BY <1>1, <1>2 DEF IInv, IndexInv, Hdr
<1> QED BY <1>1, <1>2, <1>3 DEF IInv, IndexInv, NumbersOk

(* Who is not in a checkpoint has nothing to show for it. *)
LEMMA NoCheckpoint ==
    ASSUME NEW c, mode'[c] = "none",
           at'[c] \notin Checkpointing \cup {"recoverReset", "restartIndex", "truncate"}
    PROVE  CkptOk(c)' /\ Exclusive(c)'
BY DEF CkptOk, Exclusive, Checkpointing, Copying, Restarting

(* Who has no read lock has nothing to show for it. *)
LEMMA NoReader ==
    ASSUME NEW c, readLock'[c] = -1, at'[c] # "verify"
    PROVE  LogReaderOk(c)' /\ DbReaderOk(c)' /\ VerifyOk(c)' /\ ~Holds(c)'
BY DEF LogReaderOk, DbReaderOk, VerifyOk, Holds, IsAt

(* A reader whose frames are the same reads the same. *)
LEMMA ReaderKeep ==
    ASSUME IInv, NEW c \in Conns, Quiet(c), at'[c] # "verify",
           readLock'[c] = readLock[c], snap'[c] = snap[c], minFrame'[c] = minFrame[c],
           Base(c)' = Base(c), readLock[c] = 0 => hdr'[c] = hdr[c],
           readLock[c] >= 1 => aReadMark' = aReadMark
    PROVE  LogReaderOk(c)' /\ DbReaderOk(c)' /\ VerifyOk(c)'
<1>1. live' = live /\ db' = db /\ nBackfill' = nBackfill /\ RestartGoesOn' = RestartGoesOn
  BY QuietRestart DEF Quiet
<1>2. LogReaderOk(c)'
  <2>0. LogReaderOk(c) /\ NumbersOk
    BY Numbers DEF IInv, Readers
  <2>1. SUFFICES ASSUME readLock[c] >= 1 PROVE LogReaderOk(c)'
    BY DEF LogReaderOk
  <2>2. Base(c) \in 0..live.mxFrame /\ 1 \in Nat \ {0}
    BY <2>0, <2>1 DEF LogReaderOk, Base, NumbersOk
  <2>3. \A pg \in Pages : Find(log', pg, 1, Base(c)) = Find(log, pg, 1, Base(c))
                          /\ Content(db, log', pg, 1, Base(c)) = Content(db, log, pg, 1, Base(c))
    BY <2>2, QuietFind DEF IInv
  <2> QED BY <1>1, <2>0, <2>1, <2>3 DEF LogReaderOk
<1>3. DbReaderOk(c)'
  BY <1>1 DEF IInv, Readers, DbReaderOk, SameLog
<1>4. VerifyOk(c)'
  BY DEF VerifyOk
<1> QED BY <1>2, <1>3, <1>4

(* Who is not the writer has an empty transaction. *)
LEMMA NotWriter ==
    ASSUME NEW c, WriterOk(c), ~IsWriter(c), ~IsWriter(c)', tx'[c] = tx[c], dirty'[c] = dirty[c],
           todo'[c] = todo[c], reCksum'[c] = reCksum[c], iFrame'[c] = iFrame[c], commits'[c] = commits[c]
    PROVE  WriterOk(c)'
BY DEF WriterOk, Unchanged

(* A connection that reads the wal-index until it has a read lock. *)
LEMMA ReadingSelf ==
    ASSUME IInv, TypeOK', NEW c \in Conns, Quiet(c), log' = log,
           at[c] \in Reading \cup {"restart"}, at'[c] \in Reading \cup {"readHdr"},
           at[c] = "restart" => at'[c] = "choose",
           at'[c] = "readHdr" => writer # c,
           readLock'[c] = -1, hdr'[c] = hdr[c], snap'[c] = snap[c],
           at'[c] \in {"lockSlot", "verify"} => slot'[c].i \in Slots /\ slot'[c].mark <= hdr[c].mxFrame,
           at'[c] = "verify" => minFrame'[c] <= live.mxFrame + 1 /\ DbHas(minFrame'[c]),
           reCksum'[c] = reCksum[c], dirty'[c] = dirty[c], todo'[c] = todo[c], iFrame'[c] = iFrame[c],
           commits'[c] = commits[c], mode'[c] = mode[c], isChanged'[c] = isChanged[c],
           mxSafe'[c] = mxSafe[c], next'[c] = next[c], tx'[c] = tx[c],
           writer' = writer, ckpter' = ckpter
    PROVE  SelfOk(c)'
<1>1. SelfOk(c) /\ live' = live /\ latest' = latest /\ intact' = intact /\ db' = db
  BY SelfIs DEF Quiet
<1>2. mode[c] = "none" /\ mode'[c] = "none"
  BY <1>1 DEF SelfOk, PhaseOk, Reading, Checkpointing
<1>3. PhaseOk(c)'
  BY <1>1, <1>2 DEF SelfOk, PhaseOk, Reading, Framing
<1>4. CountersOk(c)'
  BY <1>1, <1>2 DEF SelfOk, CountersOk, Reading
<1>5. CkptOk(c)' /\ Exclusive(c)'
  BY <1>2, NoCheckpoint DEF Reading, Checkpointing
<1>6. IsWriter(c)' = IsWriter(c)
  BY <1>2 DEF IsWriter, Reading
<1>7. HdrOk(c)'
  BY <1>1, <1>2, <1>6 DEF SelfOk, HdrOk, KnowsDb, SameLog, Reading
<1>8. LogReaderOk(c)' /\ DbReaderOk(c)'
  BY DEF LogReaderOk, DbReaderOk
<1>9. VerifyOk(c)'
  <2>1. DbHas(minFrame'[c]) => DbHas(minFrame[c])'
    BY <1>1 DEF DbHas
  <2> QED BY <1>1, <2>1 DEF VerifyOk
<1>10. WriterOk(c)'
  <2>1. CASE ~IsWriter(c)
    BY <1>1, <1>6, <2>1, NotWriter DEF SelfOk
  <2>2. CASE IsWriter(c)
    <3>0. at'[c] \in Reading
      BY <2>2 DEF IsWriter
    <3>1. Top(c)' = Top(c) /\ OwnFrames(c)' = OwnFrames(c) /\ ~Commits(c)'
      BY <1>1, <3>0 DEF Top, OwnFrames, Reading, InFrames, Commits
    <3>2. snap[c] = latest /\ WriterHdrOk(c) /\ ListOk(c) /\ PagesOk(c) /\ ChecksumsOk(c)
      BY <1>1, <2>2 DEF SelfOk, WriterOk
    <3>3. WriterHdrOk(c)'
      <4>1. hdr[c] = live
        <5>1. at[c] = "restart" => readLock[c] = 0
          BY <1>1 DEF SelfOk, PhaseOk, Reading, Framing, Checkpointing
        <5> QED BY <3>2, <5>1 DEF WriterHdrOk
      <4>2. \A d \in Conns \ {c} : hdr'[d] = hdr[d]
        BY DEF Quiet, Others, Same
      <4> QED BY <1>1, <3>0, <3>2, <4>1, <4>2 DEF WriterHdrOk, SameLog, Reading, InFrames, NoHdr
    <3>4. ListOk(c)'
      BY <3>0, <3>2 DEF ListOk, Reading, InFrames
    <3>5. PagesOk(c)'
      BY <1>1, <3>1, <3>2 DEF PagesOk
    <3>6. ChecksumsOk(c)'
      BY <3>0, <3>1, <3>2 DEF ChecksumsOk, Reading
    <3> QED BY <1>1, <1>6, <2>2, <3>2, <3>3, <3>4, <3>5, <3>6 DEF WriterOk
  <2> QED BY <2>1, <2>2
<1> QED BY <1>3, <1>4, <1>5, <1>7, <1>8, <1>9, <1>10 DEF SelfOk

-----------------------------------------------------------------------------
(* The steps of readers. *)

(* walIndexTryHdr(): the header is copied. *)
LEMMA ReadHdrStep ==
    ASSUME IInv, NEW c \in Conns, ReadHdr(c)
    PROVE  IInv'
<1>1. TypeOK /\ TypeOK' /\ SelfOk(c) /\ intact
  BY ReadHdrTyped, SelfIs DEF IInv, ReadHdr
<1>2. live # NoHdr /\ live.salt \in Nat /\ live.mxFrame \in Nat
      /\ (nBackfill <= live.mxFrame \/ RestartGoesOn)
  BY <1>1, IndexIsThere
<1>3. /\ readLock[c] = -1 /\ at[c] \in {"idle", "readHdr", "ckptHdr"}
      /\ (mode[c] = "none" => at[c] # "ckptHdr" /\ writer # c /\ ckpter # c)
      /\ (mode[c] # "none" => at[c] = "ckptHdr")
  BY <1>1 DEF ReadHdr, ReadsHdr, Idle, IsAt, SelfOk, PhaseOk, Reading, Framing, Checkpointing
<1>4. UNCHANGED <<db, log, live, intact, nBackfill, latest, writer, ckpter, aReadMark>>
  BY DEF ReadHdr, files, index, locks
<1>5. Others(c) /\ readLock'[c] = -1 /\ hdr'[c] = live /\ mode'[c] = mode[c] /\ at'[c] = AfterHdr(c)
  BY <1>1, <1>3, ReadHdrEffect DEF AfterHdr
<1>6. Quiet(c)
  BY <1>3, <1>4, <1>5 DEF Quiet, AfterHdr
<1>7. ~IsWriter(c) /\ ~IsWriter(c)'
  BY <1>3, <1>4, <1>5 DEF IsWriter
<1>8. SelfOk(c)'
  <2>1. PhaseOk(c)'
    BY <1>1, <1>3, <1>4, <1>5 DEF SelfOk, PhaseOk, AfterHdr, Reading, Framing, Checkpointing
  <2>2. CountersOk(c)'
    <3>1. next[c] = 1 /\ 1 \in Slots /\ mxSafe[c] = 0
      BY <1>1, <1>3, BoundsAssumption DEF SelfOk, CountersOk, Slots
    <3>2. next'[c] = 1 /\ mxSafe'[c] = 0 /\ (mode[c] = "none" => ~isChanged'[c])
      BY <1>1, <3>1, ReadHdrEffect
    <3> QED BY <1>5, <3>1, <3>2 DEF CountersOk, AfterHdr
  <2>3. Exclusive(c)'
    BY <1>5 DEF Exclusive, Copying, Restarting, AfterHdr
  <2>4. HdrOk(c)'
    <3>1. KnowsDb(c)' => mode[c] # "none" /\ hdr[c] = live /\ snap'[c] = snap[c]
      BY <1>1, <1>5, ReadHdrEffect DEF KnowsDb, AfterHdr
    <3>2. KnowsDb(c)' => snap'[c] = latest
      BY <1>1, <1>2, <1>3, <3>1 DEF SelfOk, HdrOk, KnowsDb, SameLog
    <3> QED BY <1>1, <1>2, <1>4, <1>5, <3>2 DEF HdrOk
  <2>5. LogReaderOk(c)' /\ DbReaderOk(c)' /\ VerifyOk(c)'
    BY <1>5, NoReader DEF AfterHdr
  <2>6. CkptOk(c)'
    <3>1. CASE mode[c] = "none"
      BY <1>5, <3>1, NoCheckpoint DEF AfterHdr, Checkpointing
    <3>2. CASE mode[c] # "none"
      <4>1. at'[c] = "ckptSafe" /\ mxSafe'[c] = 0
        BY <1>1, <1>3, <1>5, <3>2, ReadHdrEffect DEF AfterHdr, SelfOk, CountersOk
      <4>2. \A d \in Conns : Holds(d)' => minFrame'[d] <= live.mxFrame + 1
        <5>1. \A d \in Conns : Holds(d) => minFrame[d] <= live.mxFrame + 1
          BY DEF IInv, Readers, Holds, LogReaderOk, VerifyOk, IsAt
        <5>2. ~Holds(c)'
          BY <1>5, <4>1 DEF Holds, IsAt
        <5> QED BY <1>5, <5>1, <5>2 DEF Others, Same, Holds, IsAt
      <4>3. \A d \in Conns : 0 <= Base(d)'
        BY <1>1, NumbersNext DEF NumbersOk, Base
      <4>4. RestartGoesOn' = RestartGoesOn
        BY <1>6, QuietRestart
      <4>5. nBackfill' <= live'.mxFrame \/ RestartGoesOn'
        BY <1>2, <1>4, <4>4
      <4>6. live'.mxFrame >= 0
        BY <1>2, <1>4
      <4> QED BY <1>4, <1>5, <4>1, <4>2, <4>3, <4>5, <4>6 DEF CkptOk, Copying, Restarting
    <3> QED BY <3>1, <3>2
  <2>7. WriterOk(c)'
    BY <1>1, <1>7, NotWriter, ReadHdrEffect DEF SelfOk
  <2> QED BY <2>1, <2>2, <2>3, <2>4, <2>5, <2>6, <2>7 DEF SelfOk
<1>9. ~Holds(c)'
  BY <1>5 DEF Holds, IsAt, AfterHdr
<1>10. \A q \in Conns : IsWriter(q) /\ ~SameLog(q) => hdr'[c].salt # hdr[q].salt
  BY <1>5 DEF SameLog
<1> QED BY <1>1, <1>2, <1>5, <1>6, <1>8, <1>9, <1>10, QuietStep

(* A step from choosing a slot until its lock. *)
LEMMA ReadingStep ==
    ASSUME IInv, TypeOK', NEW c \in Conns, Quiet(c), log' = log,
           at[c] \in Reading \cup {"restart"}, at'[c] \in Reading \cup {"readHdr"},
           at[c] = "restart" => at'[c] = "choose",
           at'[c] = "readHdr" => writer # c,
           readLock'[c] = -1, hdr'[c] = hdr[c], snap'[c] = snap[c],
           at'[c] \in {"lockSlot", "verify"} => slot'[c].i \in Slots /\ slot'[c].mark <= hdr[c].mxFrame,
           at'[c] = "verify" =>
              /\ minFrame'[c] <= live.mxFrame + 1 /\ DbHas(minFrame'[c])
              /\ minFrame'[c] <= nBackfill + 1 /\ \A q \in Conns : ~Restarting(q),
           reCksum'[c] = reCksum[c], dirty'[c] = dirty[c], todo'[c] = todo[c], iFrame'[c] = iFrame[c],
           commits'[c] = commits[c], mode'[c] = mode[c], isChanged'[c] = isChanged[c],
           mxSafe'[c] = mxSafe[c], next'[c] = next[c], tx'[c] = tx[c],
           writer' = writer, ckpter' = ckpter
    PROVE  IInv'
<1>1. SelfOk(c)'
  BY ReadingSelf
<1>2. live # NoHdr
  BY IndexIsThere DEF Reading
<1>3. \A q \in Conns \ {c} : IsWriter(q) /\ ~SameLog(q) => hdr'[c].salt # hdr[q].salt
  BY DEF IInv, WriteInv, WriterOk, WriterHdrOk
<1>4. Holds(c)' => minFrame'[c] <= nBackfill + 1 /\ ~RestartGoesOn /\ \A q \in Conns : ~Restarting(q)
  BY DEF Holds, IsAt, RestartGoesOn, Restarting
<1> QED BY <1>1, <1>2, <1>3, <1>4, QuietStep

(* walTryBeginRead(): slot 0 when everything is copied. *)
LEMMA ChooseStep ==
    ASSUME IInv, NEW c \in Conns, Choose(c)
    PROVE  IInv'
<1>1. TypeOK /\ TypeOK' /\ SelfOk(c) /\ at[c] = "choose"
  BY ChooseTyped, SelfIs DEF IInv, Choose, IsAt
<1>2. live # NoHdr /\ DbHas(nBackfill + 1) /\ nBackfill \in Nat
  BY <1>1, IndexIsThere
<1>3. mode[c] = "none" /\ readLock[c] = -1 /\ ckpter # c
  BY <1>1 DEF SelfOk, PhaseOk, Reading, Framing, Checkpointing
<1>4. UNCHANGED <<db, log, live, intact, nBackfill, latest, writer, ckpter, aReadMark>>
  BY DEF Choose, files, index, locks
<1>5. Others(c) /\ hdr'[c] = hdr[c] /\ mode'[c] = mode[c]
  BY <1>1, ChooseEffect
<1>6. CASE /\ writer # c /\ nBackfill = hdr[c].mxFrame /\ SharedIsFree(0, c) /\ hdr[c] = live
           /\ readLock'[c] = 0 /\ snap'[c] = latest /\ at'[c] = "idle"
  <2>1. Quiet(c)
    BY <1>1, <1>4, <1>5, <1>6 DEF Quiet
  <2>2. ~IsWriter(c) /\ ~IsWriter(c)'
    BY <1>4, <1>6 DEF IsWriter
  <2>3. SelfOk(c)'
    <3>1. PhaseOk(c)'
      BY <1>3, <1>4, <1>5, <1>6 DEF PhaseOk
    <3>2. CountersOk(c)'
      BY <1>1, <1>3, <1>5, <1>6, ChooseEffect DEF SelfOk, CountersOk
    <3>3. CkptOk(c)' /\ Exclusive(c)'
      BY <1>3, <1>5, <1>6, NoCheckpoint DEF Checkpointing
    <3>4. HdrOk(c)'
      BY <1>1, <1>4, <1>5, <1>6, <2>2 DEF SelfOk, HdrOk, SameLog
    <3>5. snap'[c] = db
      <4>1. \A pg \in Pages : Find(log, pg, 1, live.mxFrame) < nBackfill + 1
        <5>1. live.mxFrame \in Nat /\ 1 \in Nat \ {0}
          BY <1>1, Numbers DEF NumbersOk
        <5>2. \A pg \in Pages : Find(log, pg, 1, live.mxFrame) \in {0} \cup 1..live.mxFrame
          BY <5>1, FindIs DEF IsLastOf
        <5> QED BY <1>2, <1>6, <5>1, <5>2
      <4>2. \A pg \in Pages : db[pg] = latest[pg]
        BY <1>2, <4>1 DEF DbHas
      <4>3. db \in [Pages -> Contents] /\ latest \in [Pages -> Contents]
        BY <1>1 DEF TypeOK
      <4> QED BY <1>6, <4>2, <4>3
    <3>6. LogReaderOk(c)' /\ DbReaderOk(c)' /\ VerifyOk(c)'
      BY <1>4, <1>5, <1>6, <3>5 DEF LogReaderOk, DbReaderOk, VerifyOk
    <3>7. WriterOk(c)'
      BY <1>1, <2>2, NotWriter, ChooseEffect DEF SelfOk
    <3> QED BY <3>1, <3>2, <3>3, <3>4, <3>6, <3>7 DEF SelfOk
  <2>4. \A q \in Conns \ {c} : ~Copying(q)
    BY <1>6 DEF SharedIsFree
  <2>5. \A q \in Conns \ {c} : IsWriter(q) /\ ~SameLog(q) => hdr'[c].salt # hdr[q].salt
    BY <1>5, <1>6 DEF SameLog
  <2>6. ~Holds(c)'
    BY <1>6 DEF Holds, IsAt
  <2> QED BY <1>1, <1>2, <1>6, <2>1, <2>3, <2>4, <2>5, <2>6, QuietStep
<1>7. CASE /\ readLock'[c] = readLock[c] /\ snap'[c] = snap[c]
           /\ at'[c] = "mark" \/ (writer # c /\ at'[c] = "readHdr")
  <2>1. Quiet(c)
    BY <1>1, <1>4, <1>5, <1>7 DEF Quiet
  <2> QED BY <1>1, <1>3, <1>4, <1>5, <1>7, <2>1, ChooseEffect, ReadingStep DEF Reading
<1> QED BY <1>1, <1>6, <1>7, ChooseEffect

(* walTryBeginRead(): a slot is chosen, and its mark raised. *)
LEMMA MarkStep ==
    ASSUME IInv, NEW c \in Conns, Mark(c)
    PROVE  IInv'
<1>1. TypeOK /\ TypeOK' /\ SelfOk(c) /\ at[c] = "mark"
  BY MarkTyped, SelfIs DEF IInv, Mark, IsAt
<1>3. mode[c] = "none" /\ readLock[c] = -1
  BY <1>1 DEF SelfOk, PhaseOk, Reading, Framing, Checkpointing
<1>4. UNCHANGED <<db, log, live, intact, nBackfill, latest, writer, ckpter>>
  BY DEF Mark, files, locks, ghosts
<1>5. Others(c) /\ at'[c] \in {"lockSlot", "choose", "readHdr"}
  BY <1>1, MarkEffect
<1>6. Quiet(c)
  BY <1>1, <1>4, <1>5, MarkEffect DEF Quiet
<1> QED BY <1>1, <1>3, <1>4, <1>5, <1>6, MarkEffect, ReadingStep DEF Reading

(* walTryBeginRead(): the slot is locked. *)
LEMMA LockSlotStep ==
    ASSUME IInv, NEW c \in Conns, LockSlot(c)
    PROVE  IInv'
<1>1. TypeOK /\ TypeOK' /\ SelfOk(c) /\ at[c] = "lockSlot"
  BY LockSlotTyped, SelfIs DEF IInv, LockSlot, IsAt
<1>2. live # NoHdr /\ DbHas(nBackfill + 1) /\ nBackfill \in Nat /\ live.mxFrame \in Nat
      /\ (nBackfill <= live.mxFrame \/ RestartGoesOn)
  BY <1>1, IndexIsThere
<1>3. mode[c] = "none" /\ readLock[c] = -1 /\ slot[c].i \in Slots /\ slot[c].mark <= hdr[c].mxFrame
  BY <1>1 DEF SelfOk, PhaseOk, Reading, Framing, Checkpointing, CountersOk
<1>4. UNCHANGED <<db, log, live, intact, nBackfill, latest, writer, ckpter, aReadMark>>
  BY DEF LockSlot, files, index, locks, ghosts
<1>5. Others(c) /\ at'[c] \in {"verify", "choose", "readHdr"} /\ slot'[c] = slot[c]
  BY <1>1, LockSlotEffect
<1>6. Quiet(c)
  BY <1>1, <1>4, <1>5 DEF Quiet
<1>7. at'[c] = "verify" => /\ minFrame'[c] <= live.mxFrame + 1 /\ DbHas(minFrame'[c])
                           /\ minFrame'[c] <= nBackfill + 1 /\ \A q \in Conns : ~Restarting(q)
  <2>1. SUFFICES ASSUME at'[c] = "verify"
                 PROVE  /\ minFrame'[c] <= live.mxFrame + 1 /\ DbHas(minFrame'[c])
                        /\ minFrame'[c] <= nBackfill + 1 /\ \A q \in Conns : ~Restarting(q)
    OBVIOUS
  <2>2. SharedIsFree(slot[c].i, c) /\ minFrame'[c] = nBackfill + 1
    BY <1>1, <2>1, LockSlotEffect
  <2>3. \A q \in Conns : ~Restarting(q)
    <3>1. slot[c].i # 0
      BY <1>3 DEF Slots
    <3> QED BY <1>1, <2>2, <3>1 DEF SharedIsFree, Restarting
  <2>4. ~RestartGoesOn
    BY <2>3 DEF RestartGoesOn, Restarting
  <2> QED BY <1>2, <2>2, <2>3, <2>4
<1> QED BY <1>1, <1>3, <1>4, <1>5, <1>6, <1>7, LockSlotEffect, ReadingStep DEF Reading

(* walRestartLog(): readers or a checkpointer keep the log as it is. *)
LEMMA KeepLogStep ==
    ASSUME IInv, NEW c \in Conns, KeepLog(c)
    PROVE  IInv'
<1>1. TypeOK /\ TypeOK' /\ SelfOk(c) /\ at[c] = "restart"
  BY KeepLogTyped, SelfIs DEF IInv, KeepLog, IsAt
<1>4. UNCHANGED <<db, log, live, intact, nBackfill, latest, writer, ckpter, aReadMark>>
  BY DEF KeepLog, files, index, locks, ghosts
<1>5. Others(c) /\ at'[c] = "choose"
  BY <1>1, KeepLogEffect
<1>6. Quiet(c)
  BY <1>1, <1>4, <1>5 DEF Quiet
<1> QED BY <1>1, <1>4, <1>5, <1>6, KeepLogEffect, ReadingStep DEF Reading

(* sqlite3WalEndReadTransaction(). *)
LEMMA EndReadStep ==
    ASSUME IInv, NEW c \in Conns, EndRead(c)
    PROVE  IInv'
<1>1. TypeOK /\ TypeOK' /\ SelfOk(c) /\ at[c] = "idle" /\ readLock[c] >= 0 /\ writer # c
  BY EndReadTyped, SelfIs DEF IInv, EndRead, InRead, IsAt
<1>2. live # NoHdr
  BY <1>1, IndexIsThere
<1>4. UNCHANGED <<db, log, live, intact, nBackfill, latest, writer, ckpter, aReadMark, at>>
  BY DEF EndRead, files, index, locks, ghosts
<1>5. Others(c) /\ readLock'[c] = -1 /\ hdr'[c] = hdr[c] /\ snap'[c] = snap[c] /\ mode'[c] = mode[c]
  BY <1>1, EndReadEffect
<1>6. Quiet(c)
  BY <1>1, <1>4, <1>5 DEF Quiet
<1>7. ~IsWriter(c) /\ ~IsWriter(c)'
  BY <1>1, <1>4 DEF IsWriter
<1>8. SelfOk(c)'
  <2>1. PhaseOk(c)' /\ mode'[c] = "none"
    BY <1>1, <1>4, <1>5 DEF SelfOk, PhaseOk, Reading, Framing, Checkpointing
  <2>2. CountersOk(c)'
    BY <1>1, <1>4, EndReadEffect DEF SelfOk, CountersOk
  <2>3. CkptOk(c)' /\ Exclusive(c)'
    BY <1>1, <1>4, <2>1, NoCheckpoint DEF Checkpointing
  <2>4. HdrOk(c)'
    BY <1>1, <1>4, <1>5, <1>7 DEF SelfOk, HdrOk, SameLog, KnowsDb
  <2>5. LogReaderOk(c)' /\ DbReaderOk(c)' /\ VerifyOk(c)'
    BY <1>1, <1>4, <1>5, NoReader
  <2>6. WriterOk(c)'
    BY <1>1, <1>7, NotWriter, EndReadEffect DEF SelfOk
  <2> QED BY <2>1, <2>2, <2>3, <2>4, <2>5, <2>6 DEF SelfOk
<1>9. ~Holds(c)'
  BY <1>1, <1>4, <1>5 DEF Holds, IsAt
<1>10. \A q \in Conns \ {c} : IsWriter(q) /\ ~SameLog(q) => hdr'[c].salt # hdr[q].salt
  BY <1>5 DEF IInv, WriteInv, WriterOk, WriterHdrOk
<1> QED BY <1>1, <1>2, <1>5, <1>6, <1>8, <1>9, <1>10, QuietStep

-----------------------------------------------------------------------------
(* The steps of the writer. *)

(* What the invariant says of the writer. *)
LEMMA WriterIs ==
    ASSUME IInv, NEW c \in Conns, IsWriter(c)
    PROVE  /\ snap[c] = latest /\ WriterHdrOk(c) /\ ListOk(c) /\ PagesOk(c) /\ ChecksumsOk(c)
           /\ \A q \in Conns \ {c} : ~IsWriter(q)
           /\ live # NoHdr /\ live.salt \in Nat /\ live.mxFrame \in Nat
           /\ hdr[c].salt \in Nat /\ hdr[c].mxFrame \in Nat /\ live.mxFrame <= hdr[c].mxFrame
           /\ iFrame[c] \in Nat /\ iFrame[c] <= MaxFrame /\ reCksum[c] \in Nat
<1>1. SelfOk(c) /\ NumbersOk
  BY SelfIs, Numbers DEF IInv
<1>2. snap[c] = latest /\ WriterHdrOk(c) /\ ListOk(c) /\ PagesOk(c) /\ ChecksumsOk(c)
  BY <1>1 DEF SelfOk, WriterOk
<1>3. hdr[c] # NoHdr
  BY <1>2 DEF WriterHdrOk, NoHdr
<1>4. live # NoHdr /\ live.salt \in Nat
  BY <1>3, IndexIsThere
<1>5. \A q \in Conns \ {c} : ~IsWriter(q)
  BY DEF IsWriter
<1> QED BY <1>1, <1>2, <1>4, <1>5 DEF WriterHdrOk, NumbersOk

Writing == {"idle", "restart"} \cup Framing

(* A step of the writer that leaves the frames others count. *)
LEMMA WriterStep ==
    ASSUME IInv, TypeOK', NEW c \in Conns, IsWriter(c), Quiet(c), at[c] \in Writing, at'[c] \in Writing,
           IsWriter(c)', PhaseOk(c)', next'[c] = next[c], mxSafe'[c] = mxSafe[c],
           isChanged'[c] = isChanged[c], mode'[c] = mode[c],
           readLock'[c] = readLock[c], minFrame'[c] = minFrame[c], snap'[c] = snap[c],
           aReadMark' = aReadMark, readLock[c] = 0 => hdr'[c] = hdr[c],
           WriterHdrOk(c)', ListOk(c)', PagesOk(c)', ChecksumsOk(c)'
    PROVE  IInv'
<1>1. SelfOk(c) /\ live' = live /\ latest' = latest
  BY SelfIs DEF Quiet
<1>2. snap[c] = latest /\ live # NoHdr /\ \A q \in Conns \ {c} : ~IsWriter(q)
  BY WriterIs
<1>3. mode[c] = "none" /\ Base(c) = live.mxFrame /\ Base(c)' = live.mxFrame
  BY <1>1 DEF IsWriter, Base
<1>4. CountersOk(c)'
  BY <1>1, <1>3 DEF SelfOk, CountersOk, Writing, Framing
<1>5. CkptOk(c)' /\ Exclusive(c)'
  BY <1>3, NoCheckpoint DEF Writing, Framing, Checkpointing
<1>6. HdrOk(c)'
  BY <1>1, <1>2 DEF HdrOk
<1>7. LogReaderOk(c)' /\ DbReaderOk(c)' /\ VerifyOk(c)'
  BY <1>3, ReaderKeep DEF Writing, Framing
<1>8. SelfOk(c)'
  BY <1>1, <1>2, <1>4, <1>5, <1>6, <1>7 DEF SelfOk, WriterOk
<1>9. Holds(c)' = Holds(c)
  BY DEF Holds, IsAt, Writing, Framing
<1>10. \A q \in Conns \ {c} : /\ Restarting(q) => ~Holds(c)'
                              /\ Copying(q) => readLock'[c] # 0
  BY <1>9 DEF IInv, Phases, Exclusive
<1> QED BY <1>1, <1>2, <1>3, <1>8, <1>9, <1>10, QuietStep

(* A writer that follows the log as it is, with the same header. *)
(* walTryBeginRead(): the mark and the header are read again under the *)
(* lock.                                                               *)
LEMMA VerifyStep ==
    ASSUME IInv, NEW c \in Conns, Verify(c)
    PROVE  IInv'
<1>1. TypeOK /\ TypeOK' /\ SelfOk(c) /\ at[c] = "verify"
  BY VerifyTyped, SelfIs DEF IInv, Verify, IsAt
<1>2. /\ live # NoHdr /\ live.mxFrame \in Nat
      /\ \A pg \in Pages : latest[pg] = Content(db, log, pg, 1, live.mxFrame)
  BY <1>1, IndexIsThere
<1>3. mode[c] = "none" /\ readLock[c] = -1 /\ ckpter # c /\ slot[c].i \in Slots /\ slot[c].mark <= hdr[c].mxFrame
  BY <1>1 DEF SelfOk, PhaseOk, Reading, Framing, Checkpointing, CountersOk
<1>4. UNCHANGED <<db, log, live, intact, nBackfill, latest, writer, ckpter, aReadMark>>
  BY DEF Verify, files, index, locks
<1>5. Others(c) /\ hdr'[c] = hdr[c] /\ mode'[c] = mode[c] /\ minFrame'[c] = minFrame[c]
  BY <1>1, VerifyEffect
<1>6. CASE /\ aReadMark[slot[c].i] = slot[c].mark /\ hdr[c] = live /\ readLock'[c] = slot[c].i
           /\ snap'[c] = IF writer = c THEN snap[c] ELSE latest
           /\ at'[c] = IF writer # c THEN "idle" ELSE IF hdr[c].mxFrame = 0 THEN "walHdr" ELSE "frames"
  <2>1. Quiet(c)
    BY <1>1, <1>4, <1>5, <1>6 DEF Quiet
  <2>2. IsWriter(c)' = IsWriter(c) /\ IsWriter(c) = (writer = c)
    BY <1>1, <1>3, <1>4, <1>5, <1>6 DEF IsWriter
  <2>3. Base(c)' = live.mxFrame /\ snap'[c] = latest
    <3>1. IsWriter(c) => snap[c] = latest
      BY WriterIs
    <3> QED BY <1>4, <1>5, <1>6, <2>2, <3>1 DEF Base
  <2>4. slot[c].i \in Nat /\ slot[c].i >= 1
    BY <1>3, BoundsAssumption DEF Slots
  <2>5. SelfOk(c)'
    <3>1. PhaseOk(c)'
      BY <1>3, <1>4, <1>5, <1>6, <2>4 DEF PhaseOk, Framing
    <3>2. CountersOk(c)'
      BY <1>1, <1>3, <1>5, <1>6, VerifyEffect DEF SelfOk, CountersOk
    <3>3. CkptOk(c)' /\ Exclusive(c)'
      BY <1>3, <1>5, <1>6, NoCheckpoint DEF Checkpointing
    <3>4. HdrOk(c)'
      BY <1>1, <1>4, <1>5, <1>6, <2>2, <2>3 DEF SelfOk, HdrOk, SameLog
    <3>5. LogReaderOk(c)'
      <4>1. minFrame[c] <= live.mxFrame + 1 /\ DbHas(minFrame[c])
        BY <1>1 DEF SelfOk, VerifyOk
      <4>2. \A pg \in Pages : Find(log, pg, 1, live.mxFrame) < minFrame[c] => db[pg] = latest[pg]
        BY <4>1 DEF DbHas
      <4> QED BY <1>2, <1>3, <1>4, <1>5, <1>6, <2>3, <4>1, <4>2 DEF LogReaderOk
    <3>6. DbReaderOk(c)' /\ VerifyOk(c)'
      BY <1>6, <2>4 DEF DbReaderOk, VerifyOk
    <3>7. WriterOk(c)'
      <4>1. CASE ~IsWriter(c)
        BY <1>1, <2>2, <4>1, NotWriter, VerifyEffect DEF SelfOk
      <4>2. CASE IsWriter(c)
        <5>0. at'[c] \in {"walHdr", "frames"} /\ (at'[c] = "walHdr" <=> hdr[c].mxFrame = 0)
          BY <1>6, <2>2, <4>2
        <5>1. /\ snap[c] = latest /\ WriterHdrOk(c) /\ ListOk(c) /\ PagesOk(c) /\ ChecksumsOk(c)
              /\ live.mxFrame \in Nat
          BY <4>2, WriterIs
        <5>2. /\ todo'[c] = todo[c] /\ dirty'[c] = dirty[c] /\ commits'[c] = commits[c] /\ tx'[c] = tx[c]
              /\ iFrame'[c] = iFrame[c] /\ reCksum'[c] = reCksum[c]
          BY <1>1, VerifyEffect
        <5>3. iFrame[c] = hdr[c].mxFrame
          BY <1>1, <5>1 DEF ListOk, Reading
        <5>4. Top(c)' = Top(c) /\ OwnFrames(c)' = OwnFrames(c) /\ ~Commits(c)'
          BY <1>1, <1>4, <1>5, <5>0, <5>2, <5>3 DEF Top, OwnFrames, InFrames, Commits
        <5>5. WriterHdrOk(c)'
          <6>1. \A d \in Conns \ {c} : hdr'[d] = hdr[d]
            BY <1>5 DEF Others, Same
          <6>2. hdr[c].mxFrame \in Nat
            BY <1>6, <5>1
          <6> QED BY <1>4, <1>5, <1>6, <2>4, <5>0, <5>1, <6>1, <6>2 DEF WriterHdrOk, SameLog, Reading,
                                        InFrames, NoHdr
        <5>6. ListOk(c)'
          <6>1. todo[c] # {}
            BY <1>1, <5>1 DEF ListOk
          <6>2. iFrame[c] \in Nat /\ hdr[c].mxFrame \in Nat
            BY <5>3, <5>1, <1>6
          <6>3. IF commits[c] THEN dirty[c] \subseteq todo[c] /\ todo[c] \subseteq dirty[c] \cup {1}
                     ELSE todo[c] \subseteq dirty[c]
            BY <5>1 DEF ListOk
          <6> QED BY <1>5, <5>0, <5>2, <5>3, <6>1, <6>2, <6>3 DEF ListOk, Reading, InFrames
        <5>7. PagesOk(c)'
          BY <1>4, <5>1, <5>2, <5>4 DEF PagesOk
        <5>8. ChecksumsOk(c)'
          BY <1>4, <5>0, <5>1, <5>2, <5>4 DEF ChecksumsOk
        <5> QED BY <1>4, <2>2, <2>3, <4>2, <5>5, <5>6, <5>7, <5>8 DEF WriterOk
      <4> QED BY <4>1, <4>2
    <3> QED BY <3>1, <3>2, <3>3, <3>4, <3>5, <3>6, <3>7 DEF SelfOk
  <2>6. Holds(c)
    BY <1>1 DEF Holds, IsAt
  <2>7. \A q \in Conns \ {c} : Restarting(q) => ~Holds(c)'
    BY <2>6 DEF IInv, Phases, Exclusive
  <2>8. \A q \in Conns \ {c} : IsWriter(q) /\ ~SameLog(q) => hdr'[c].salt # hdr[q].salt
    BY <1>5, <1>6 DEF SameLog
  <2>9. readLock'[c] # 0
    BY <1>6, <2>4
  <2> QED BY <1>1, <1>2, <1>5, <2>1, <2>3, <2>5, <2>6, <2>7, <2>8, <2>9, QuietStep
<1>7. CASE /\ readLock'[c] = readLock[c] /\ snap'[c] = snap[c]
           /\ at'[c] = IF writer = c THEN "choose" ELSE "readHdr"
  <2>1. Quiet(c)
    BY <1>1, <1>4, <1>5, <1>7 DEF Quiet
  <2> QED BY <1>1, <1>3, <1>4, <1>5, <1>7, <2>1, VerifyEffect, ReadingStep DEF Reading
<1> QED BY <1>1, <1>6, <1>7, VerifyEffect

(* Where the writer can be. *)
LEMMA WriterPlace ==
    ASSUME IInv, NEW c \in Conns, writer = c, at[c] \in {"idle", "restart"} \cup Framing
    PROVE  /\ IsWriter(c) /\ mode[c] = "none" /\ ckpter # c
           /\ readLock[c] \in Nat
           /\ at[c] = "restart" => readLock[c] = 0
           /\ at[c] \in Framing => readLock[c] >= 1
<1>1. SelfOk(c) /\ readLock \in [Conns -> -1..ReadMarks]
  BY SelfIs DEF IInv, TypeOK
<1>2. /\ mode[c] = "none" /\ ckpter # c /\ readLock[c] # -1
      /\ at[c] = "restart" => readLock[c] = 0
      /\ at[c] \in Framing => readLock[c] >= 1
  BY <1>1, BoundsAssumption DEF SelfOk, PhaseOk, Reading, Framing, Checkpointing
<1>3. readLock[c] \in Nat
  BY <1>1, <1>2, BoundsAssumption
<1> QED BY <1>2, <1>3 DEF IsWriter, Framing

(* sqlite3WalBeginWriteTransaction(): only with the latest snapshot. *)
LEMMA BeginWriteStep ==
    ASSUME IInv, NEW c \in Conns, BeginWrite(c)
    PROVE  IInv'
<1>1. /\ TypeOK /\ TypeOK' /\ SelfOk(c) /\ at[c] = "idle" /\ readLock[c] >= 0 /\ writer = None /\ writer' = c
      /\ hdr[c] = live
  BY BeginWriteTyped, SelfIs DEF IInv, BeginWrite, InRead, IsAt
<1>2. live # NoHdr /\ live.salt \in Nat /\ live.mxFrame \in Nat
  BY <1>1, IndexIsThere
<1>3. mode[c] = "none" /\ ckpter # c /\ writer # c
  BY <1>1, BoundsAssumption DEF SelfOk, PhaseOk, Reading, Framing, Checkpointing
<1>4. UNCHANGED <<db, log, live, intact, nBackfill, latest, ckpter, aReadMark, at, hdr, readLock, mode>>
  BY DEF BeginWrite, files, index, reading, checkpointing
<1>5. Others(c) /\ snap'[c] = snap[c] /\ tx'[c] = Unchanged
  BY <1>1, BeginWriteEffect
<1>6. Quiet(c)
  BY <1>1, <1>4, <1>5 DEF Quiet
<1>7. ~IsWriter(c) /\ IsWriter(c)' /\ \A q \in Conns : ~IsWriter(q)
  BY <1>1, <1>3, <1>4, BoundsAssumption DEF IsWriter
<1>8. Base(c)' = live.mxFrame /\ Base(c) = live.mxFrame
  BY <1>1, <1>4, <1>7 DEF Base
<1>9. SelfOk(c)'
  <2>1. PhaseOk(c)'
    BY <1>1, <1>3, <1>4 DEF PhaseOk
  <2>2. CountersOk(c)'
    BY <1>1, <1>4, BeginWriteEffect DEF SelfOk, CountersOk
  <2>3. CkptOk(c)' /\ Exclusive(c)'
    BY <1>1, <1>3, <1>4, NoCheckpoint DEF Checkpointing
  <2>4. snap[c] = latest
    BY <1>1, <1>2 DEF SelfOk, HdrOk, KnowsDb, SameLog
  <2>5. HdrOk(c)'
    BY <1>4, <1>5, <1>7, <2>4 DEF HdrOk
  <2>6. LogReaderOk(c)' /\ DbReaderOk(c)' /\ VerifyOk(c)'
    BY <1>1, <1>4, <1>6, <1>8, BeginWriteEffect, ReaderKeep
  <2>7. WriterOk(c)'
    <3>1. /\ dirty'[c] = {} /\ todo'[c] = {} /\ reCksum'[c] = 0 /\ iFrame'[c] = 0 /\ commits'[c] = FALSE
      BY <1>1, <1>7, BeginWriteEffect DEF SelfOk, WriterOk
    <3>2. WriterHdrOk(c)'
      <4>1. live.mxFrame > 0 => log.salt = live.salt /\ log.salt # 0
        <5>1. SUFFICES ASSUME live.mxFrame > 0 PROVE log.salt = live.salt /\ log.salt # 0
          OBVIOUS
        <5>2. live.salt = log.salt /\ Accepted(log, live.mxFrame) /\ live.mxFrame \in 1..live.mxFrame
          BY <1>2, <5>1 DEF IInv, IndexInv
        <5> QED BY <5>2 DEF Accepted
      <4> QED BY <1>1, <1>2, <1>4, <4>1 DEF WriterHdrOk, SameLog, InFrames, Reading, NoHdr
    <3>3. ListOk(c)'
      BY <1>1, <1>4, <3>1 DEF ListOk, Reading, InFrames
    <3>4. Top(c)' = live.mxFrame
      BY <1>1, <1>4 DEF Top, InFrames
    <3>5. PagesOk(c)'
      <4>1. \A pg \in Pages : Find(log, pg, live.mxFrame + 1, live.mxFrame) = 0
        <5>1. live.mxFrame + 1 \in Nat \ {0}
          BY <1>2
        <5>2. \A pg \in Pages : Find(log, pg, live.mxFrame + 1, live.mxFrame) \in {0} \cup live.mxFrame + 1..live.mxFrame
          BY <1>2, <5>1, FindIs DEF IsLastOf
        <5> QED BY <1>2, <5>2
      <4> QED BY <1>4, <1>5, <3>1, <3>4, <4>1 DEF PagesOk, Unchanged
    <3>6. ChecksumsOk(c)'
      BY <1>1, <1>2, <1>4, <3>1, <3>4 DEF ChecksumsOk, OwnFrames, Commits
    <3> QED BY <1>4, <1>5, <1>7, <2>4, <3>2, <3>3, <3>5, <3>6 DEF WriterOk
  <2> QED BY <2>1, <2>2, <2>3, <2>5, <2>6, <2>7 DEF SelfOk
<1>10. Holds(c)' = Holds(c)
  BY <1>4 DEF Holds, IsAt
<1>11. \A q \in Conns \ {c} : /\ Restarting(q) => ~Holds(c)'
                              /\ Copying(q) => readLock'[c] # 0
  BY <1>4, <1>10 DEF IInv, Phases, Exclusive
<1>12. minFrame'[c] = minFrame[c]
  BY <1>1, BeginWriteEffect
<1> QED BY <1>1, <1>2, <1>4, <1>6, <1>7, <1>8, <1>9, <1>10, <1>11, <1>12, QuietStep

(* A page is changed in the cache. *)
LEMMA ChangeStep ==
    ASSUME IInv, NEW c \in Conns, NEW pg \in Pages, Change(c, pg)
    PROVE  IInv'
<1>1. TypeOK /\ TypeOK' /\ SelfOk(c) /\ at[c] = "idle" /\ writer = c
  BY ChangeTyped, SelfIs DEF IInv, Change, InWrite, IsAt
<1>2. /\ IsWriter(c) /\ mode[c] = "none" /\ readLock[c] \in Nat
  BY <1>1, WriterPlace
<1>3. /\ snap[c] = latest /\ WriterHdrOk(c) /\ ListOk(c) /\ PagesOk(c) /\ ChecksumsOk(c)
  BY <1>2, WriterIs
<1>4. UNCHANGED <<db, log, live, intact, nBackfill, latest, writer, ckpter, aReadMark, at, hdr, readLock, mode,
                  reCksum, todo, iFrame, commits>>
  BY DEF Change, files, index, reading, checkpointing, locks
<1>5. Others(c) /\ tx'[c] = [tx[c] EXCEPT ![pg] = nWrites + 1] /\ dirty'[c] = dirty[c] \cup {pg}
  BY <1>1, ChangeEffect
<1>6. Quiet(c) /\ IsWriter(c)'
  BY <1>1, <1>2, <1>4, <1>5 DEF Quiet, IsWriter
<1>7. PhaseOk(c)'
  BY <1>1, <1>4 DEF SelfOk, PhaseOk
<1>8. WriterHdrOk(c)'
  BY <1>3, <1>4 DEF WriterHdrOk, SameLog, NoHdr
<1>9. ListOk(c)'
  BY <1>1, <1>3, <1>4, <1>5 DEF ListOk, InFrames, Reading
<1>10. PagesOk(c)'
  <2>1. Top(c)' = Top(c) /\ nWrites \in Nat /\ tx[c] \in [Pages -> Contents]
    BY <1>1, <1>4 DEF Top, TypeOK
  <2>2. tx'[c][pg] # 0 /\ \A p \in Pages \ {pg} : tx'[c][p] = tx[c][p]
    BY <1>5, <2>1
  <2> QED BY <1>3, <1>4, <1>5, <2>1, <2>2 DEF PagesOk, Overlay
<1>11. ChecksumsOk(c)'
  BY <1>3, <1>4 DEF ChecksumsOk, OwnFrames, Commits, Top
<1> QED BY <1>1, <1>2, <1>4, <1>6, <1>7, <1>8, <1>9, <1>10, <1>11, ChangeEffect, WriterStep DEF Writing

(* The pager calls sqlite3WalFrames(), to commit or to spill. *)
LEMMA CallFramesStep ==
    ASSUME IInv, NEW c \in Conns, NEW list \in SUBSET Pages, NEW isCommit \in BOOLEAN, CallFrames(c, list, isCommit),
           list # {},
           IF isCommit THEN dirty[c] \subseteq list /\ list \subseteq dirty[c] \cup {1} ELSE list \subseteq dirty[c]
    PROVE  IInv'
<1>1. TypeOK /\ TypeOK' /\ SelfOk(c) /\ at[c] = "idle" /\ writer = c
  BY CallFramesTyped, SelfIs DEF IInv, CallFrames, InWrite, IsAt
<1>2. /\ IsWriter(c) /\ mode[c] = "none" /\ readLock[c] \in Nat /\ ckpter # c
  BY <1>1, WriterPlace
<1>3. /\ snap[c] = latest /\ WriterHdrOk(c) /\ ListOk(c) /\ PagesOk(c) /\ ChecksumsOk(c)
      /\ hdr[c].mxFrame \in Nat
  BY <1>2, WriterIs
<1>4. UNCHANGED <<db, log, live, intact, nBackfill, latest, writer, ckpter, aReadMark, hdr, readLock, mode,
                  reCksum, dirty, tx>>
  BY DEF CallFrames, files, index, reading, checkpointing, locks, ghosts
<1>5. /\ Others(c) /\ todo'[c] = list /\ commits'[c] = isCommit /\ iFrame'[c] = hdr[c].mxFrame
      /\ at'[c] = IF readLock[c] = 0 THEN "restart" ELSE IF hdr[c].mxFrame = 0 THEN "walHdr" ELSE "frames"
  BY <1>1, CallFramesEffect
<1>6. Quiet(c) /\ IsWriter(c)'
  BY <1>1, <1>2, <1>4, <1>5 DEF Quiet, IsWriter
<1>7. PhaseOk(c)'
  BY <1>1, <1>2, <1>4, <1>5 DEF PhaseOk, Framing
<1>8. WriterHdrOk(c)'
  BY <1>1, <1>3, <1>4, <1>5 DEF WriterHdrOk, SameLog, InFrames, Reading, NoHdr
<1>9. ListOk(c)'
  BY <1>1, <1>3, <1>4, <1>5 DEF ListOk, InFrames, Reading
<1>10. Top(c)' = Top(c) /\ OwnFrames(c)' = OwnFrames(c) /\ ~Commits(c)'
  BY <1>1, <1>4, <1>5 DEF Top, OwnFrames, InFrames, Commits
<1>11. PagesOk(c)'
  BY <1>3, <1>4, <1>10 DEF PagesOk
<1>12. ChecksumsOk(c)'
  BY <1>3, <1>4, <1>5, <1>10 DEF ChecksumsOk
<1>13. at'[c] \in Writing
  BY <1>5 DEF Writing, Framing
<1> QED BY <1>1, <1>2, <1>4, <1>6, <1>7, <1>8, <1>9, <1>11, <1>12, <1>13, CallFramesEffect, WriterStep DEF Writing

LEMMA CommitStep ==
    ASSUME IInv, NEW c \in Conns, Commit(c)
    PROVE  IInv'
<1>1. dirty[c] \subseteq Pages /\ 1 \in Pages
  BY BoundsAssumption DEF IInv, TypeOK, Pages
<1> DEFINE list == IF dirty[c] = {} THEN {1} ELSE dirty[c]
<1>2. CallFrames(c, list, TRUE)
  BY DEF Commit
<1>3. list \in SUBSET Pages /\ list # {} /\ dirty[c] \subseteq list /\ list \subseteq dirty[c] \cup {1}
  BY <1>1
<1> HIDE DEF list
<1> QED BY <1>2, <1>3, CallFramesStep

LEMMA SpillStep ==
    ASSUME IInv, NEW c \in Conns, NEW pg \in Pages, Spill(c, pg)
    PROVE  IInv'
<1>1. CallFrames(c, {pg}, FALSE) /\ {pg} \in SUBSET Pages /\ {pg} \subseteq dirty[c] /\ {pg} # {}
  BY DEF Spill
<1> QED BY <1>1, CallFramesStep

(* sqlite3WalUndo(): the frames behind the last commit are forgotten. *)
LEMMA RollbackStep ==
    ASSUME IInv, NEW c \in Conns, Rollback(c)
    PROVE  IInv'
<1>1. TypeOK /\ TypeOK' /\ SelfOk(c) /\ at[c] = "idle" /\ writer = c /\ writer' = None
  BY RollbackTyped, SelfIs DEF IInv, Rollback, InWrite, IsAt
<1>2. /\ IsWriter(c) /\ mode[c] = "none" /\ readLock[c] \in Nat /\ ckpter # c
  BY <1>1, WriterPlace
<1>3. /\ snap[c] = latest /\ WriterHdrOk(c) /\ ListOk(c) /\ live # NoHdr /\ \A q \in Conns \ {c} : ~IsWriter(q)
      /\ live.mxFrame \in Nat
  BY <1>2, WriterIs
<1>4. UNCHANGED <<db, log, live, intact, nBackfill, latest, ckpter, aReadMark, at, readLock, mode,
                  todo, iFrame, commits>>
  BY DEF Rollback, files, index, reading, checkpointing
<1>5. /\ Others(c) /\ hdr'[c] = live /\ reCksum'[c] = 0 /\ dirty'[c] = {} /\ tx'[c] = Unchanged
      /\ snap'[c] = snap[c] /\ minFrame'[c] = minFrame[c]
  BY <1>1, RollbackEffect
<1>6. Quiet(c) /\ ~IsWriter(c)'
  BY <1>1, <1>4, <1>5, BoundsAssumption DEF Quiet, IsWriter
<1>7. Base(c)' = live.mxFrame /\ Base(c) = live.mxFrame
  BY <1>2, <1>5, <1>6 DEF Base
<1>8. SelfOk(c)'
  <2>1. PhaseOk(c)'
    BY <1>1, <1>2, <1>4, BoundsAssumption DEF PhaseOk
  <2>2. CountersOk(c)'
    BY <1>1, <1>4, RollbackEffect DEF SelfOk, CountersOk
  <2>3. CkptOk(c)' /\ Exclusive(c)'
    BY <1>1, <1>2, <1>4, NoCheckpoint DEF Checkpointing
  <2>4. HdrOk(c)'
    BY <1>3, <1>4, <1>5 DEF HdrOk, SameLog
  <2>5. readLock[c] = 0 => hdr[c] = live
    BY <1>3 DEF WriterHdrOk
  <2>6. LogReaderOk(c)' /\ DbReaderOk(c)' /\ VerifyOk(c)'
    BY <1>1, <1>4, <1>5, <1>6, <1>7, <2>5, ReaderKeep
  <2>7. WriterOk(c)'
    BY <1>1, <1>3, <1>4, <1>5, <1>6 DEF WriterOk, ListOk, Unchanged
  <2> QED BY <2>1, <2>2, <2>3, <2>4, <2>6, <2>7 DEF SelfOk
<1>10. Holds(c)' = Holds(c)
  BY <1>4 DEF Holds, IsAt
<1>11. \A q \in Conns \ {c} : /\ Restarting(q) => ~Holds(c)'
                              /\ Copying(q) => readLock'[c] # 0
  BY <1>4, <1>10 DEF IInv, Phases, Exclusive
<1> QED BY <1>1, <1>3, <1>4, <1>5, <1>6, <1>7, <1>8, <1>10, <1>11, QuietStep

(* What publishing a header leaves alone. *)
LEMMA PublishEffect ==
    ASSUME TypeOK, NEW c \in Conns, Publish(c), writer = c
    PROVE  /\ Others(c)
           /\ hdr'[c].salt = hdr[c].salt /\ hdr'[c].mxFrame = iFrame[c]
           /\ iFrame'[c] = 0 /\ commits'[c] = FALSE /\ at'[c] = "idle"
           /\ commits[c] => live' = hdr'[c] /\ intact' = TRUE /\ snap'[c] = latest' /\ tx'[c] = Unchanged /\ writer' = None
           /\ ~commits[c] => UNCHANGED <<live, intact, latest, writer>> /\ snap'[c] = snap[c] /\ tx'[c] = tx[c]
           /\ readLock'[c] = readLock[c] /\ slot'[c] = slot[c] /\ minFrame'[c] = minFrame[c]
           /\ reCksum'[c] = reCksum[c] /\ dirty'[c] = dirty[c] /\ todo'[c] = todo[c]
           /\ mode'[c] = mode[c] /\ isChanged'[c] = isChanged[c] /\ mxSafe'[c] = mxSafe[c] /\ next'[c] = next[c]
<1>1. /\ hdr \in [Conns -> Hdr] /\ iFrame \in [Conns -> 0..MaxFrame] /\ commits \in [Conns -> BOOLEAN]
      /\ at \in [Conns -> Steps] /\ snap \in [Conns -> [Pages -> Contents]] /\ tx \in [Conns -> [Pages -> Contents]]
  BY DEF TypeOK
<1>2. /\ hdr'[c].salt = hdr[c].salt /\ hdr'[c].mxFrame = iFrame[c] /\ hdr' = Set(hdr, c, hdr'[c])
      /\ commits[c] => live' = hdr'[c] /\ intact' = TRUE
  BY PublishIs
<1>3. \A q \in Conns \ {c} : hdr'[q] = hdr[q]
  BY <1>1, <1>2 DEF Set
<1>4. /\ iFrame' = Set(iFrame, c, 0) /\ commits' = Set(commits, c, FALSE) /\ Goto(c, "idle")
      /\ commits[c] => snap' = Set(snap, c, latest') /\ tx' = Set(tx, c, Unchanged) /\ writer' = None
      /\ ~commits[c] => UNCHANGED <<live, intact, latest, writer, snap, tx>>
      /\ UNCHANGED <<ckpter, reading, reCksum, dirty, todo, checkpointing>>
  BY DEF Publish
<1>5. /\ iFrame'[c] = 0 /\ commits'[c] = FALSE /\ at'[c] = "idle"
      /\ commits[c] => snap'[c] = latest' /\ tx'[c] = Unchanged
  BY <1>1, <1>4 DEF Set, Goto
<1>6. \A q \in Conns \ {c} : /\ iFrame'[q] = iFrame[q] /\ commits'[q] = commits[q] /\ at'[q] = at[q]
                             /\ snap'[q] = snap[q] /\ tx'[q] = tx[q]
  BY <1>1, <1>4 DEF Set, Goto
<1>7. Others(c)
  <2>1. writer' \in {writer, None} /\ ckpter' = ckpter
    BY <1>4
  <2>2. \A q \in Conns \ {c} : (writer' = q) = (writer = q)
    BY <2>1, BoundsAssumption
  <2>3. UNCHANGED <<readLock, slot, minFrame, reCksum, dirty, todo, mode, isChanged, mxSafe, next>>
    BY <1>4 DEF reading, checkpointing
  <2> QED BY <1>3, <1>6, <2>1, <2>2, <2>3 DEF Others, Same
<1> QED BY <1>2, <1>4, <1>5, <1>7 DEF reading, checkpointing

(* The header after a spill is not published. *)
LEMMA SpilledStep ==
    ASSUME IInv, NEW c \in Conns, Publish(c), ~commits[c]
    PROVE  IInv'
<1>1. TypeOK /\ TypeOK' /\ SelfOk(c) /\ at[c] = "publish"
  BY PublishTyped, SelfIs DEF IInv, Publish, IsAt
<1>0. writer = c
  BY <1>1 DEF SelfOk, PhaseOk, Reading, Framing, Checkpointing
<1>2. /\ IsWriter(c) /\ mode[c] = "none" /\ readLock[c] \in Nat /\ readLock[c] >= 1 /\ ckpter # c
  BY <1>0, <1>1, WriterPlace DEF Framing
<1>3. /\ snap[c] = latest /\ WriterHdrOk(c) /\ ListOk(c) /\ PagesOk(c) /\ ChecksumsOk(c)
      /\ hdr[c].mxFrame \in Nat /\ hdr[c].salt \in Nat /\ iFrame[c] \in Nat /\ live.mxFrame \in Nat
  BY <1>2, WriterIs
<1>4. UNCHANGED <<db, log, nBackfill, ckpter, aReadMark, reCksum, dirty, todo, readLock, mode>>
  BY DEF Publish, files, reading, checkpointing
<1>5. /\ Others(c) /\ hdr'[c].salt = hdr[c].salt /\ hdr'[c].mxFrame = iFrame[c] /\ at'[c] = "idle"
      /\ iFrame'[c] = 0 /\ commits'[c] = FALSE /\ tx'[c] = tx[c]
      /\ UNCHANGED <<live, intact, latest, writer>>
  BY <1>0, <1>1, PublishEffect
<1>6. Quiet(c) /\ IsWriter(c)'
  BY <1>0, <1>1, <1>2, <1>4, <1>5 DEF Quiet, IsWriter
<1>7. PhaseOk(c)'
  BY <1>0, <1>1, <1>2, <1>4, <1>5 DEF PhaseOk
<1>8. WriterHdrOk(c)'
  <2>1. \A d \in Conns \ {c} : hdr'[d] = hdr[d]
    BY <1>5 DEF Others, Same
  <2>2. iFrame[c] >= hdr[c].mxFrame
    BY <1>1, <1>3 DEF ListOk, InFrames
  <2>3. log.salt = hdr[c].salt /\ log.salt # 0 /\ hdr[c].mxFrame >= live.mxFrame /\ live # NoHdr
        /\ (~SameLog(c) => live.mxFrame = 0 /\ \A d \in Conns \ {c} : hdr[d].salt # hdr[c].salt)
    BY <1>1, <1>3 DEF WriterHdrOk, InFrames
  <2>4. iFrame[c] >= live.mxFrame
    BY <1>3, <2>2, <2>3
  <2>5. ~(at'[c] \in Reading \/ readLock'[c] = 0) /\ ~(at'[c] \in {"walHdr", "syncHdr"})
    BY <1>2, <1>4, <1>5 DEF Reading
  <2>6. live' # NoHdr' /\ hdr'[c].salt \in Nat /\ hdr'[c].mxFrame >= live'.mxFrame
    BY <1>3, <1>5, <2>3, <2>4 DEF NoHdr
  <2>7. ~SameLog(c)' => live'.mxFrame = 0 /\ \A d \in Conns \ {c} : hdr'[d].salt # hdr'[c].salt
    BY <1>5, <2>1, <2>3 DEF SameLog
  <2>8. log'.salt = hdr'[c].salt /\ log'.salt # 0
    BY <1>4, <1>5, <2>3
  <2> QED BY <2>5, <2>6, <2>7, <2>8 DEF WriterHdrOk
<1>9. ListOk(c)'
  BY <1>1, <1>3, <1>4, <1>5 DEF ListOk, InFrames, Reading
<1>10. Top(c)' = Top(c) /\ OwnFrames(c)' = OwnFrames(c) /\ ~Commits(c)'
  BY <1>1, <1>5 DEF Top, OwnFrames, InFrames, Commits
<1>11. PagesOk(c)'
  BY <1>3, <1>4, <1>5, <1>10 DEF PagesOk
<1>12. ChecksumsOk(c)'
  BY <1>3, <1>4, <1>5, <1>10 DEF ChecksumsOk
<1>13. snap'[c] = snap[c] /\ minFrame'[c] = minFrame[c] /\ next'[c] = next[c] /\ mxSafe'[c] = mxSafe[c]
       /\ isChanged'[c] = isChanged[c]
  BY <1>0, <1>1, PublishEffect
<1>14. readLock[c] # 0
  BY <1>2
<1> QED BY <1>1, <1>2, <1>4, <1>5, <1>6, <1>7, <1>8, <1>9, <1>11, <1>12, <1>13, <1>14, WriterStep DEF Writing, Framing

(* The header of the log, and the log, are synced. *)
LEMMA SyncHdrStep ==
    ASSUME IInv, NEW c \in Conns, SyncHdr(c)
    PROVE  IInv'
<1>1. TypeOK /\ TypeOK' /\ SelfOk(c) /\ at[c] = "syncHdr"
  BY SyncHdrTyped, SelfIs DEF IInv, SyncHdr, IsAt
<1>0. writer = c
  BY <1>1 DEF SelfOk, PhaseOk, Reading, Framing, Checkpointing
<1>2. /\ IsWriter(c) /\ mode[c] = "none" /\ readLock[c] \in Nat /\ readLock[c] >= 1 /\ ckpter # c
  BY <1>0, <1>1, WriterPlace DEF Framing
<1>3. /\ snap[c] = latest /\ WriterHdrOk(c) /\ ListOk(c) /\ PagesOk(c) /\ ChecksumsOk(c)
      /\ hdr[c].mxFrame \in Nat
  BY <1>2, WriterIs
<1>4. UNCHANGED <<db, log, live, intact, nBackfill, latest, writer, ckpter, aReadMark, hdr, readLock, mode,
                  reCksum, dirty, todo, iFrame, commits, tx>>
  BY DEF SyncHdr, index, locks, reading, writing, checkpointing, ghosts
<1>5. Others(c) /\ at'[c] = "frames"
  BY <1>1, SyncHdrEffect
<1>6. Quiet(c) /\ IsWriter(c)'
  BY <1>0, <1>1, <1>2, <1>4, <1>5 DEF Quiet, IsWriter
<1>7. PhaseOk(c)'
  BY <1>0, <1>1, <1>2, <1>4, <1>5 DEF PhaseOk, Framing
<1>8. WriterHdrOk(c)'
  BY <1>1, <1>3, <1>4, <1>5 DEF WriterHdrOk, SameLog, InFrames, Reading, NoHdr
<1>9. ListOk(c)'
  BY <1>1, <1>3, <1>4, <1>5 DEF ListOk, InFrames, Reading
<1>10. Top(c)' = Top(c) /\ OwnFrames(c)' = OwnFrames(c) /\ ~Commits(c)'
  BY <1>1, <1>3, <1>4, <1>5 DEF Top, OwnFrames, InFrames, Commits, ListOk
<1>11. PagesOk(c)'
  BY <1>3, <1>4, <1>10 DEF PagesOk
<1>12. ChecksumsOk(c)'
  BY <1>3, <1>4, <1>5, <1>10 DEF ChecksumsOk
<1> QED BY <1>1, <1>2, <1>4, <1>5, <1>6, <1>7, <1>8, <1>9, <1>11, <1>12, SyncHdrEffect, WriterStep DEF Writing, Framing

LEMMA SyncLogStep ==
    ASSUME IInv, NEW c \in Conns, SyncLog(c)
    PROVE  IInv'
<1>1. TypeOK /\ TypeOK' /\ SelfOk(c) /\ at[c] = "sync"
  BY SyncLogTyped, SelfIs DEF IInv, SyncLog, IsAt
<1>0. writer = c
  BY <1>1 DEF SelfOk, PhaseOk, Reading, Framing, Checkpointing
<1>2. /\ IsWriter(c) /\ mode[c] = "none" /\ readLock[c] \in Nat /\ readLock[c] >= 1 /\ ckpter # c
  BY <1>0, <1>1, WriterPlace DEF Framing
<1>3. /\ snap[c] = latest /\ WriterHdrOk(c) /\ ListOk(c) /\ PagesOk(c) /\ ChecksumsOk(c)
      /\ hdr[c].mxFrame \in Nat
  BY <1>2, WriterIs
<1>4. UNCHANGED <<db, log, live, intact, nBackfill, latest, writer, ckpter, aReadMark, hdr, readLock, mode,
                  reCksum, dirty, todo, iFrame, commits, tx>>
  BY DEF SyncLog, index, locks, reading, writing, checkpointing, ghosts
<1>5. Others(c) /\ at'[c] = "publish"
  BY <1>1, SyncLogEffect
<1>6. Quiet(c) /\ IsWriter(c)'
  BY <1>0, <1>1, <1>2, <1>4, <1>5 DEF Quiet, IsWriter
<1>7. PhaseOk(c)'
  BY <1>0, <1>1, <1>2, <1>4, <1>5 DEF PhaseOk, Framing
<1>8. WriterHdrOk(c)'
  BY <1>1, <1>2, <1>3, <1>4, <1>5 DEF WriterHdrOk, SameLog, InFrames, Reading, NoHdr
<1>9. ListOk(c)'
  BY <1>1, <1>3, <1>4, <1>5 DEF ListOk, InFrames, Reading
<1>10. Top(c)' = Top(c) /\ OwnFrames(c)' = OwnFrames(c) /\ commits[c] /\ Commits(c)
  BY <1>1, <1>3, <1>4, <1>5 DEF Top, OwnFrames, InFrames, Commits, ListOk
<1>11. PagesOk(c)'
  BY <1>3, <1>4, <1>10 DEF PagesOk
<1>12. ChecksumsOk(c)'
  BY <1>1, <1>3, <1>4, <1>5, <1>10 DEF ChecksumsOk
<1> QED BY <1>1, <1>2, <1>4, <1>5, <1>6, <1>7, <1>8, <1>9, <1>11, <1>12, SyncLogEffect, WriterStep DEF Writing, Framing

(* sqlite3WalFrames(): a new log gets its header, and its frames no longer *)
(* fit the old salt.                                                       *)
LEMMA WalHdrStep ==
    ASSUME IInv, NEW c \in Conns, WalHdr(c)
    PROVE  IInv'
<1>1. TypeOK /\ SelfOk(c) /\ at[c] = "walHdr"
  BY SelfIs DEF IInv, WalHdr, IsAt
<1>0. writer = c
  BY <1>1 DEF SelfOk, PhaseOk, Reading, Framing, Checkpointing
<1>2. /\ IsWriter(c) /\ mode[c] = "none" /\ readLock[c] \in Nat /\ readLock[c] >= 1 /\ ckpter # c
  BY <1>0, <1>1, WriterPlace DEF Framing
<1>3. /\ snap[c] = latest /\ WriterHdrOk(c) /\ ListOk(c) /\ PagesOk(c) /\ ChecksumsOk(c)
      /\ hdr[c].mxFrame \in Nat /\ live.mxFrame \in Nat /\ hdr[c].salt \in Nat
  BY <1>2, WriterIs
<1>4. TypeOK'
  BY <1>1, <1>3, WalHdrTyped
<1>5. PICK salt \in Nat \ {0}, h \in Hdr :
         /\ salt = FreshSalt \/ salt = hdr[c].salt
         /\ salt = FreshSalt => hdr[c].salt \in {0, log.salt}
         /\ h.salt = salt /\ h.mxFrame = hdr[c].mxFrame /\ hdr' = Set(hdr, c, h)
         /\ log' \in Log /\ log'.salt = salt /\ log'.frame = log.frame
  BY <1>1, <1>3, WalHdrIs
<1>6. UNCHANGED <<db, live, intact, nBackfill, latest, writer, ckpter, aReadMark, readLock, minFrame, mode,
                  reCksum, dirty, todo, iFrame, commits, tx, snap, slot, isChanged, mxSafe, next>>
  BY DEF WalHdr, index, locks, reading, writing, checkpointing, ghosts
<1>7. hdr'[c] = h /\ at'[c] = "syncHdr" /\ \A q \in Conns \ {c} : hdr'[q] = hdr[q] /\ at'[q] = at[q]
  <2>1. hdr \in [Conns -> Hdr] /\ at \in [Conns -> Steps]
    BY <1>1 DEF TypeOK
  <2> QED BY <1>5, <2>1 DEF WalHdr, Goto, Set
<1>8. Others(c)
  BY <1>6, <1>7 DEF Others, Same
<1>9. hdr[c].mxFrame = 0 /\ live.mxFrame = 0 /\ iFrame[c] = 0
  BY <1>1, <1>3 DEF WriterHdrOk, ListOk
<1>10. ~(salt = live.salt) => \A q \in Conns \ {c} : hdr[q].salt # salt
  <2>1. CASE salt = FreshSalt
    BY <2>1, FreshSaltIs
  <2>2. CASE salt = hdr[c].salt
    BY <1>3, <2>2 DEF WriterHdrOk, SameLog
  <2> QED BY <1>5, <2>1, <2>2
<1>11. Quiet(c) /\ IsWriter(c)'
  <2>1. SameFrames(log, log', live.mxFrame)
    BY <1>5 DEF SameFrames
  <2> QED BY <1>0, <1>1, <1>2, <1>5, <1>6, <1>7, <1>8, <1>9, <1>10, <2>1 DEF Quiet, IsWriter
<1>12. PhaseOk(c)'
  BY <1>0, <1>2, <1>6, <1>7 DEF PhaseOk, Framing
<1>13. WriterHdrOk(c)'
  BY <1>2, <1>3, <1>5, <1>6, <1>7, <1>9, <1>10 DEF WriterHdrOk, SameLog, Reading, InFrames, NoHdr
<1>14. ListOk(c)'
  BY <1>1, <1>3, <1>5, <1>6, <1>7 DEF ListOk, Reading, InFrames
<1>15. Top(c)' = 0 /\ Top(c) = 0 /\ ~Commits(c)' /\ OwnFrames(c)' = 1..0
  BY <1>1, <1>5, <1>6, <1>7, <1>9 DEF Top, InFrames, Commits, OwnFrames
<1>16. PagesOk(c)'
  <2>1. \A pg \in Pages : Find(log', pg, 1, 0) = Find(log, pg, 1, 0)
    BY <1>5, FindSame
  <2>2. \A pg \in Pages : Find(log, pg, 1, 0) = 0
    <3>1. 0 \in Nat /\ 1 \in Nat \ {0}
      OBVIOUS
    <3>2. \A pg \in Pages : Find(log, pg, 1, 0) \in {0} \cup 1..0
      BY <3>1, FindIs DEF IsLastOf
    <3> QED BY <3>2
  <2> QED BY <1>3, <1>6, <1>9, <1>15, <2>1, <2>2 DEF PagesOk
<1>17. ChecksumsOk(c)'
  BY <1>1, <1>3, <1>6, <1>7, <1>9, <1>15 DEF ChecksumsOk, OwnFrames, Top, InFrames
<1> QED BY <1>1, <1>2, <1>4, <1>6, <1>7, <1>11, <1>12, <1>13, <1>14, <1>16, <1>17, WriterStep DEF Writing,
                                        Framing

-----------------------------------------------------------------------------
(* Frames that the writer changes are beyond those of the last commit. *)

(* The page that the writer takes from its list next, as it reads it. *)
LEMMA WrittenPage ==
    ASSUME IInv, NEW c \in Conns, at[c] = "frames"
    PROVE  /\ IsWriter(c) /\ writer = c /\ Page(c) \in todo[c] /\ Page(c) \in Pages
           /\ View(c, Page(c)) = Overlay(latest, tx[c])[Page(c)]
           /\ live.mxFrame <= hdr[c].mxFrame /\ hdr[c].mxFrame <= iFrame[c] /\ Top(c) = iFrame[c]
           /\ live.mxFrame \in Nat /\ hdr[c].mxFrame \in Nat /\ iFrame[c] \in Nat /\ iFrame[c] <= MaxFrame
           /\ hdr[c].salt \in Nat
           /\ \A k \in hdr[c].mxFrame + 1..iFrame[c] : log.frame[k].pg # Page(c)
<1>1. SelfOk(c) /\ TypeOK
  BY SelfIs DEF IInv
<1>2. writer = c /\ readLock[c] >= 1
  BY <1>1 DEF SelfOk, PhaseOk, Reading, Framing, Checkpointing
<1>3. IsWriter(c)
  BY <1>2, WriterPlace DEF Framing
<1>4. /\ snap[c] = latest /\ ListOk(c) /\ PagesOk(c) /\ WriterHdrOk(c)
      /\ live.mxFrame \in Nat /\ hdr[c].mxFrame \in Nat /\ iFrame[c] \in Nat /\ iFrame[c] <= MaxFrame
      /\ live.mxFrame <= hdr[c].mxFrame /\ hdr[c].salt \in Nat
  BY <1>3, WriterIs
<1>5. todo[c] # {} /\ hdr[c].mxFrame <= iFrame[c] /\ Top(c) = iFrame[c]
      /\ \A k \in hdr[c].mxFrame + 1..iFrame[c] : log.frame[k].pg \notin todo[c]
  BY <1>4 DEF ListOk, InFrames, Top
<1>6. Page(c) \in todo[c] /\ Page(c) \in Pages
  BY <1>1, <1>5, PageIs
<1>7. View(c, Page(c)) = Overlay(latest, tx[c])[Page(c)]
  <2> DEFINE pg == Page(c)
  <2>1. CASE pg \in dirty[c]
    BY <1>4, <1>6, <2>1 DEF View, PagesOk, Overlay
  <2>2. CASE pg \notin dirty[c]
    <3>1. View(c, pg) = Content(db, log, pg, minFrame[c], hdr[c].mxFrame)
      BY <1>2, <2>2 DEF View
    <3>2. /\ minFrame[c] \in Nat \ {0} /\ minFrame[c] <= live.mxFrame + 1
          /\ latest[pg] = Content(db, log, pg, 1, live.mxFrame)
          /\ Find(log, pg, 1, live.mxFrame) < minFrame[c] => db[pg] = latest[pg]
      <4>1. LogReaderOk(c) /\ Base(c) = live.mxFrame
        BY <1>1, <1>3 DEF SelfOk, Base
      <4>2. minFrame[c] \in Nat \ {0}
        BY <1>1, Numbers DEF NumbersOk
      <4> QED BY <1>2, <1>4, <1>6, <4>1, <4>2 DEF LogReaderOk
    <3>3. Find(log, pg, live.mxFrame + 1, hdr[c].mxFrame) = Find(log, pg, live.mxFrame + 1, iFrame[c])
      <4>1. live.mxFrame + 1 \in Nat \ {0}
        BY <1>4
      <4>2. IsLastOf(Find(log, pg, live.mxFrame + 1, hdr[c].mxFrame), log, pg, live.mxFrame + 1, hdr[c].mxFrame)
        BY <1>4, <4>1, FindIs
      <4>3. IsLastOf(Find(log, pg, live.mxFrame + 1, hdr[c].mxFrame), log, pg, live.mxFrame + 1, iFrame[c])
        BY <1>4, <1>5, <1>6, <4>2 DEF IsLastOf
      <4> QED BY <1>4, <4>1, <4>3, FindUnique
    <3> DEFINE i == Find(log, pg, live.mxFrame + 1, hdr[c].mxFrame)
    <3>4. IF i = 0 THEN tx[c][pg] = 0 ELSE log.frame[i].val = Overlay(latest, tx[c])[pg]
      BY <1>4, <1>5, <1>6, <2>2, <3>3 DEF PagesOk
    <3>5. Overlay(latest, tx[c])[pg] = IF tx[c][pg] # 0 THEN tx[c][pg] ELSE latest[pg]
      BY <1>6 DEF Overlay
    <3>6. CASE i # 0
      <4>1. Find(log, pg, minFrame[c], hdr[c].mxFrame) = i
        <5>0. live.mxFrame + 1 \in Nat \ {0}
          BY <1>4
        <5>1. IsLastOf(i, log, pg, live.mxFrame + 1, hdr[c].mxFrame)
          BY <1>4, <5>0, FindIs
        <5>2. IsLastOf(i, log, pg, minFrame[c], hdr[c].mxFrame)
          BY <1>4, <3>2, <3>6, <5>1 DEF IsLastOf
        <5> QED BY <1>4, <3>2, <5>2, FindUnique
      <4> QED BY <3>1, <3>4, <3>6, <4>1 DEF Content
    <3>7. CASE i = 0
      <4>0. live.mxFrame + 1 \in Nat \ {0}
        BY <1>4
      <4> DEFINE j == Find(log, pg, minFrame[c], hdr[c].mxFrame)
                 k == Find(log, pg, 1, live.mxFrame)
      <4>1. IsLastOf(i, log, pg, live.mxFrame + 1, hdr[c].mxFrame)
        BY <1>4, <4>0, FindIs
      <4>2. IsLastOf(k, log, pg, 1, live.mxFrame)
        BY <1>4, FindIs
      <4>3. k >= minFrame[c] => j = k
        <5>1. SUFFICES ASSUME k >= minFrame[c] PROVE j = k
          OBVIOUS
        <5>2. IsLastOf(k, log, pg, minFrame[c], hdr[c].mxFrame)
          BY <1>4, <3>2, <3>7, <4>1, <4>2, <5>1 DEF IsLastOf
        <5> QED BY <1>4, <3>2, <5>2, FindUnique
      <4>4. k < minFrame[c] => j = 0
        <5>1. SUFFICES ASSUME k < minFrame[c] PROVE j = 0
          OBVIOUS
        <5>2. IsLastOf(0, log, pg, minFrame[c], hdr[c].mxFrame)
          BY <1>4, <3>2, <3>7, <4>1, <4>2, <5>1 DEF IsLastOf
        <5> QED BY <1>4, <3>2, <5>2, FindUnique
      <4>5. k \in Nat /\ (k = 0 => k < minFrame[c])
        BY <1>4, <3>2, <4>2 DEF IsLastOf
      <4>6. latest[pg] = IF k = 0 THEN db[pg] ELSE log.frame[k].val
        BY <3>2 DEF Content
      <4>7. View(c, pg) = IF j = 0 THEN db[pg] ELSE log.frame[j].val
        BY <3>1 DEF Content
      <4>8. Overlay(latest, tx[c])[pg] = latest[pg]
        BY <3>4, <3>5, <3>7
      <4> HIDE DEF j, k, i
      <4>9. CASE k >= minFrame[c]
        BY <3>2, <4>3, <4>5, <4>6, <4>7, <4>8, <4>9
      <4>10. CASE k < minFrame[c]
        <5>1. db[pg] = latest[pg]
          BY <3>2, <4>10 DEF k
        <5> QED BY <4>4, <4>7, <4>8, <4>10, <5>1
      <4> QED BY <3>2, <4>5, <4>9, <4>10
    <3> QED BY <3>6, <3>7
  <2> QED BY <2>1, <2>2
<1> QED BY <1>2, <1>3, <1>4, <1>5, <1>6, <1>7

(* A spilled frame is overwritten, and the checksums from it on are to be *)
(* rewritten.                                                             *)
LEMMA OverwriteStep ==
    ASSUME IInv, NEW c \in Conns, Overwrite(c)
    PROVE  IInv'
<1> DEFINE i == Spilled(c)
           p == Page(c)
<1>1. TypeOK /\ SelfOk(c) /\ at[c] = "frames" /\ i > 0
  BY SelfIs DEF IInv, Overwrite, IsAt
<1>2. /\ IsWriter(c) /\ writer = c /\ p \in todo[c] /\ p \in Pages
      /\ View(c, p) = Overlay(latest, tx[c])[p]
      /\ live.mxFrame <= hdr[c].mxFrame /\ hdr[c].mxFrame <= iFrame[c] /\ Top(c) = iFrame[c]
      /\ live.mxFrame \in Nat /\ hdr[c].mxFrame \in Nat /\ iFrame[c] \in Nat /\ iFrame[c] <= MaxFrame
      /\ \A k \in hdr[c].mxFrame + 1..iFrame[c] : log.frame[k].pg # p
  BY <1>1, WrittenPage
<1>3. TypeOK'
  BY <1>1, <1>2, OverwriteTyped
<1>4. /\ mode[c] = "none" /\ readLock[c] >= 1 /\ ckpter # c
      /\ snap[c] = latest /\ WriterHdrOk(c) /\ ListOk(c) /\ PagesOk(c) /\ ChecksumsOk(c)
  BY <1>1, <1>2, WriterPlace, WriterIs DEF Framing
<1>5. /\ i \in Frames /\ live.mxFrame < i /\ i <= hdr[c].mxFrame /\ ~(commits[c] /\ IsLast(c))
      /\ log.frame[i].pg = p /\ \A k \in i + 1..hdr[c].mxFrame : log.frame[k].pg # p
  BY <1>1, SpilledIs
<1>6. /\ log' \in Log /\ log'.salt = log.salt
      /\ log'.frame[i].pg = log.frame[i].pg /\ log'.frame[i].val = View(c, p)
      /\ log'.frame[i].commit = log.frame[i].commit /\ log'.frame[i].salt = log.frame[i].salt
      /\ \A k \in Frames \ {i} : log'.frame[k] = log.frame[k]
  BY <1>1, <1>2, OverwriteIs
<1>7. UNCHANGED <<db, live, intact, nBackfill, latest, writer, ckpter, aReadMark, hdr, readLock, minFrame, mode,
                  iFrame, commits, tx, snap, slot, isChanged, mxSafe, next>>
  BY DEF Overwrite, Written, index, locks, reading, checkpointing, ghosts
<1>8. /\ Others(c) /\ todo'[c] = todo[c] \ {p} /\ dirty'[c] = dirty[c] \ {p}
      /\ at'[c] = (IF ~IsLast(c) THEN at[c] ELSE IF ~commits[c] THEN "publish" ELSE IF TRUE THEN "checksums" ELSE "sync")
      /\ reCksum'[c] = IF reCksum[c] = 0 THEN i ELSE Min({reCksum[c], i})
  BY <1>1, OverwriteEffect
<1>9. at'[c] = IF IsLast(c) THEN "publish" ELSE "frames"
  BY <1>1, <1>5, <1>8
<1>10. i \in Nat /\ \A k \in live.mxFrame + 1..iFrame[c] : k \in Frames
  BY <1>2, <1>5, FrameNumbers
<1>11. \A k \in 1..iFrame[c] : log'.frame[k].pg = log.frame[k].pg /\ log'.frame[k].commit = log.frame[k].commit
                               /\ log'.frame[k].salt = log.frame[k].salt
  BY <1>2, <1>6, FrameNumbers
<1> HIDE DEF i, p
<1>12. Quiet(c) /\ IsWriter(c)'
  <2>1. SameFrames(log, log', live.mxFrame)
    BY <1>2, <1>5, <1>6, FrameNumbers DEF SameFrames
  <2> QED BY <1>1, <1>2, <1>4, <1>6, <1>7, <1>8, <1>9, <2>1 DEF Quiet, IsWriter
<1>13. PhaseOk(c)'
  BY <1>2, <1>4, <1>7, <1>9 DEF PhaseOk, Framing
<1>14. WriterHdrOk(c)'
  BY <1>1, <1>4, <1>6, <1>7, <1>9 DEF WriterHdrOk, SameLog, Reading, InFrames, NoHdr
<1>15. ListOk(c)'
  <2>1. todo'[c] = {} <=> IsLast(c)
    BY <1>2, <1>8 DEF IsLast, p
  <2>2. \A k \in hdr[c].mxFrame + 1..iFrame[c] : log'.frame[k].pg = log.frame[k].pg
    BY <1>2, <1>11
  <2>3. \A k \in hdr[c].mxFrame + 1..iFrame[c] : log.frame[k].pg \notin todo[c]
    BY <1>1, <1>4 DEF ListOk, InFrames
  <2>4. IF commits[c] THEN dirty'[c] \subseteq todo'[c] /\ todo'[c] \subseteq dirty'[c] \cup {1}
                     ELSE todo'[c] \subseteq dirty'[c]
    BY <1>4, <1>8 DEF ListOk
  <2> QED BY <1>2, <1>7, <1>8, <1>9, <2>1, <2>2, <2>3, <2>4 DEF ListOk, Reading, InFrames
<1>16. Top(c)' = iFrame[c] /\ OwnFrames(c)' = live.mxFrame + 1..iFrame[c]
       /\ OwnFrames(c) = live.mxFrame + 1..iFrame[c]
  BY <1>2, <1>7, <1>9 DEF Top, OwnFrames, InFrames
<1>17. PagesOk(c)'
  <2>1. \A q \in Pages : Find(log', q, live.mxFrame + 1, iFrame[c]) = Find(log, q, live.mxFrame + 1, iFrame[c])
    <3>1. \A k \in live.mxFrame + 1..iFrame[c] : log'.frame[k].pg = log.frame[k].pg
      BY <1>2, <1>11
    <3>2. live.mxFrame + 1 \in Nat \ {0}
      BY <1>2
    <3> QED BY <1>2, <3>1, <3>2, FindSame
  <2>2. Find(log, p, live.mxFrame + 1, iFrame[c]) = i
    <3>1. IsLastOf(i, log, p, live.mxFrame + 1, iFrame[c])
      BY <1>2, <1>5, <1>10 DEF IsLastOf
    <3>2. live.mxFrame + 1 \in Nat \ {0}
      BY <1>2
    <3> QED BY <1>2, <3>1, <3>2, FindUnique
  <2>3. ASSUME NEW q \in Pages
        PROVE  IF q \in dirty'[c] THEN tx'[c][q] # 0
               ELSE LET j == Find(log', q, live.mxFrame + 1, iFrame[c])
                    IN  IF j = 0 THEN tx'[c][q] = 0 ELSE log'.frame[j].val = Overlay(latest, tx[c])[q]
    <3>1. CASE q = p
      BY <1>2, <1>6, <1>7, <1>8, <1>10, <1>5, <2>1, <2>2, <3>1
    <3>2. CASE q # p
      <4> DEFINE j == Find(log, q, live.mxFrame + 1, iFrame[c])
      <4>1. j \in {0} \cup live.mxFrame + 1..iFrame[c] /\ (j # 0 => log.frame[j].pg = q)
        <5>1. live.mxFrame + 1 \in Nat \ {0}
          BY <1>2
        <5> QED BY <1>2, <5>1, FindIs DEF IsLastOf
      <4>2. j # 0 => log'.frame[j] = log.frame[j]
        BY <1>5, <1>6, <1>10, <3>2, <4>1
      <4> QED BY <1>2, <1>4, <1>7, <1>8, <2>1, <3>2, <4>2 DEF PagesOk
    <3> QED BY <3>1, <3>2
  <2> QED BY <1>7, <1>16, <2>3 DEF PagesOk
<1>18. ChecksumsOk(c)'
  <2>1. /\ reCksum'[c] \in Nat \ {0} /\ reCksum'[c] <= i /\ (reCksum[c] # 0 => reCksum'[c] <= reCksum[c])
        /\ reCksum'[c] \in OwnFrames(c)
    <3>1. reCksum[c] \in Nat /\ (reCksum[c] # 0 => reCksum[c] \in OwnFrames(c)) /\ i \in OwnFrames(c)
      BY <1>1, <1>2, <1>4, <1>5, <1>10, <1>16, Numbers DEF ChecksumsOk, NumbersOk
    <3>2. CASE reCksum[c] = 0
      BY <1>5, <1>8, <1>10, <3>1, <3>2, <1>2
    <3>3. CASE reCksum[c] # 0
      <4>1. {reCksum[c], i} \in SUBSET Nat /\ {reCksum[c], i} # {}
        BY <1>10, <3>1
      <4>2. Min({reCksum[c], i}) \in {reCksum[c], i} /\ \A y \in {reCksum[c], i} : Min({reCksum[c], i}) <= y
        BY <4>1, MinIs
      <4>3. reCksum'[c] \in {reCksum[c], i} /\ reCksum'[c] <= reCksum[c] /\ reCksum'[c] <= i
        BY <1>8, <3>3, <4>2
      <4> QED BY <1>2, <1>5, <1>10, <3>1, <3>3, <4>3
    <3> QED BY <3>2, <3>3
  <2>2. ASSUME NEW k \in OwnFrames(c), k < reCksum'[c]
        PROVE  log'.frame[k].salt = log'.salt /\ log'.frame[k].sum = Sum(log', k)
    <3>1. k \in Nat /\ k < i /\ (reCksum[c] = 0 \/ k < reCksum[c]) /\ k \in Frames
      <4>1. reCksum[c] \in Nat
        BY <1>1, Numbers DEF NumbersOk
      <4> QED BY <1>2, <1>10, <1>16, <2>1, <2>2, <4>1
    <3>2. SameFrames(log, log', k)
      BY <1>6, <1>10, <3>1, FrameNumbers DEF SameFrames
    <3>3. Sum(log', k) = Sum(log, k)
      BY <3>1, <3>2, SumSame
    <3>4. log.frame[k].salt = log.salt /\ log.frame[k].sum = Sum(log, k)
      BY <1>4, <3>1 DEF ChecksumsOk
    <3> QED BY <1>6, <1>10, <3>1, <3>3, <3>4
  <2>3. ~Commits(c)' /\ at'[c] # "checksums" /\ at'[c] # "sync" /\ ~(at'[c] = "publish" /\ commits'[c])
    BY <1>5, <1>7, <1>9 DEF Commits
  <2> QED BY <1>16, <2>1, <2>2, <2>3 DEF ChecksumsOk
<1>19. readLock[c] # 0 /\ at'[c] \in Writing /\ at[c] \in Writing
  BY <1>1, <1>4, <1>9 DEF Writing, Framing
<1> QED BY <1>2, <1>3, <1>7, <1>12, <1>13, <1>14, <1>15, <1>17, <1>18, <1>19, WriterStep

(* One checksum is rewritten, in order. *)
LEMMA RewriteChecksumStep ==
    ASSUME IInv, NEW c \in Conns, RewriteChecksum(c)
    PROVE  IInv'
<1> DEFINE i == reCksum[c]
<1>1. TypeOK /\ SelfOk(c) /\ at[c] = "checksums"
  BY SelfIs DEF IInv, RewriteChecksum, IsAt
<1>0. writer = c
  BY <1>1 DEF SelfOk, PhaseOk, Reading, Framing, Checkpointing
<1>2. /\ IsWriter(c) /\ mode[c] = "none" /\ readLock[c] \in Nat /\ readLock[c] >= 1 /\ ckpter # c
  BY <1>0, <1>1, WriterPlace DEF Framing
<1>3. /\ snap[c] = latest /\ WriterHdrOk(c) /\ ListOk(c) /\ PagesOk(c) /\ ChecksumsOk(c)
      /\ hdr[c].mxFrame \in Nat /\ live.mxFrame \in Nat /\ iFrame[c] \in Nat /\ iFrame[c] <= MaxFrame
      /\ hdr[c].salt \in Nat
  BY <1>2, WriterIs
<1>4. i # 0 /\ i \in OwnFrames(c) /\ OwnFrames(c) = live.mxFrame + 1..iFrame[c] /\ Top(c) = iFrame[c]
  BY <1>1, <1>3 DEF ChecksumsOk, OwnFrames, Top, InFrames
<1>5. i \in Nat /\ i <= iFrame[c] /\ live.mxFrame < i /\ \A k \in 1..iFrame[c] : k \in Frames
  BY <1>3, <1>4, FrameNumbers
<1>6. TypeOK'
  BY <1>1, <1>3, <1>4, <1>5, RewriteChecksumTyped
<1>7. /\ i \in Frames /\ log' \in Log /\ log'.salt = log.salt
      /\ log'.frame[i].pg = log.frame[i].pg /\ log'.frame[i].val = log.frame[i].val
      /\ log'.frame[i].commit = log.frame[i].commit
      /\ log'.frame[i].salt = hdr[c].salt /\ log'.frame[i].sum = Sum(log, i)
      /\ BodyOf(log'.frame[i]) = BodyOf(log.frame[i])
      /\ \A k \in Frames \ {i} : log'.frame[k] = log.frame[k]
  BY <1>1, <1>3, <1>4, RewriteIs
<1>8. UNCHANGED <<db, live, intact, nBackfill, latest, writer, ckpter, aReadMark, hdr, readLock, minFrame, mode,
                  dirty, todo, iFrame, commits, tx, snap, slot, isChanged, mxSafe, next>>
  BY DEF RewriteChecksum, index, locks, reading, checkpointing, ghosts
<1>9. /\ Others(c) /\ at'[c] = (IF i = iFrame[c] THEN "sync" ELSE "checksums")
      /\ reCksum'[c] = (IF i = iFrame[c] THEN 0 ELSE i + 1)
  BY <1>1, RewriteChecksumEffect
<1> HIDE DEF i
<1>10. Quiet(c) /\ IsWriter(c)'
  <2>1. SameFrames(log, log', live.mxFrame)
    BY <1>3, <1>5, <1>7, FrameNumbers DEF SameFrames
  <2> QED BY <1>0, <1>1, <1>2, <1>7, <1>8, <1>9, <2>1 DEF Quiet, IsWriter
<1>11. PhaseOk(c)'
  BY <1>0, <1>2, <1>8, <1>9 DEF PhaseOk, Framing
<1>12. WriterHdrOk(c)'
  BY <1>1, <1>2, <1>3, <1>7, <1>8, <1>9 DEF WriterHdrOk, SameLog, Reading, InFrames, NoHdr
<1>13. ListOk(c)'
  <2>1. \A k \in hdr[c].mxFrame + 1..iFrame[c] : log'.frame[k].pg = log.frame[k].pg
    BY <1>3, <1>5, <1>7
  <2> QED BY <1>1, <1>3, <1>8, <1>9, <2>1 DEF ListOk, Reading, InFrames
<1>14. Top(c)' = iFrame[c] /\ OwnFrames(c)' = OwnFrames(c)
  BY <1>4, <1>8, <1>9 DEF Top, OwnFrames, InFrames
<1>15. PagesOk(c)'
  <2>1. \A k \in live.mxFrame + 1..iFrame[c] : log'.frame[k].pg = log.frame[k].pg /\ log'.frame[k].val = log.frame[k].val
    BY <1>3, <1>5, <1>7
  <2>2. live.mxFrame + 1 \in Nat \ {0}
    BY <1>3
  <2>3. \A pg \in Pages : Find(log', pg, live.mxFrame + 1, iFrame[c]) = Find(log, pg, live.mxFrame + 1, iFrame[c])
    BY <1>3, <2>1, <2>2, FindSame
  <2>4. \A pg \in Pages : Find(log, pg, live.mxFrame + 1, iFrame[c]) \in {0} \cup live.mxFrame + 1..iFrame[c]
    BY <1>3, <2>2, FindIs DEF IsLastOf
  <2> QED BY <1>3, <1>4, <1>8, <1>14, <2>1, <2>3, <2>4 DEF PagesOk
<1>16. ChecksumsOk(c)'
  <2>1. \A k \in 1..iFrame[c] : Sum(log', k) = Sum(log, k)
    <3>1. \A k \in 1..iFrame[c] : BodyOf(log'.frame[k]) = BodyOf(log.frame[k])
      BY <1>5, <1>7
    <3> QED BY <1>3, <3>1 DEF Sum
  <2>2. ASSUME NEW k \in OwnFrames(c), reCksum'[c] = 0 \/ k < reCksum'[c]
        PROVE  log'.frame[k].salt = log'.salt /\ log'.frame[k].sum = Sum(log', k)
    <3>1. k \in Nat /\ k <= i /\ k \in 1..iFrame[c] /\ k \in Frames
      BY <1>3, <1>4, <1>5, <1>9, <2>2
    <3>2. CASE k = i
      <4>1. log.salt = hdr[c].salt
        BY <1>1, <1>3 DEF WriterHdrOk, InFrames
      <4> QED BY <1>7, <2>1, <3>1, <3>2, <4>1
    <3>3. CASE k # i
      <4>1. k < reCksum[c]
        BY <1>5, <3>1, <3>3 DEF i
      <4>2. log.frame[k].salt = log.salt /\ log.frame[k].sum = Sum(log, k)
        BY <1>3, <4>1 DEF ChecksumsOk
      <4> QED BY <1>7, <2>1, <3>1, <3>3, <4>2
    <3> QED BY <3>2, <3>3
  <2>3. reCksum'[c] # 0 => reCksum'[c] \in OwnFrames(c)
    BY <1>3, <1>4, <1>5, <1>9
  <2>4. iFrame[c] > live.mxFrame /\ log'.frame[iFrame[c]].commit
    <3>1. iFrame[c] > live.mxFrame /\ log.frame[iFrame[c]].commit
      BY <1>1, <1>3 DEF ChecksumsOk, Commits
    <3> QED BY <1>3, <1>5, <1>7, <3>1
  <2>5. at'[c] = "sync" => reCksum'[c] = 0
    BY <1>9
  <2>6. at'[c] = "checksums" => reCksum'[c] # 0
    BY <1>5, <1>9
  <2>7. at'[c] \in {"sync", "checksums"}
    BY <1>9
  <2> QED BY <1>8, <1>14, <2>2, <2>3, <2>4, <2>5, <2>6, <2>7 DEF ChecksumsOk
<1>17. readLock[c] # 0 /\ at'[c] \in Writing /\ at[c] \in Writing
  BY <1>1, <1>2, <1>9 DEF Writing, Framing
<1> QED BY <1>2, <1>6, <1>8, <1>10, <1>11, <1>12, <1>13, <1>15, <1>16, <1>17, WriterStep

(* The checksum of one frame more. *)
LEMMA SumLonger ==
    ASSUME NEW l \in Log, NEW m \in Log, NEW n \in Nat, n + 1 <= MaxFrame, SameFrames(l, m, n)
    PROVE  Sum(m, n + 1) = Append(Sum(l, n), BodyOf(m.frame[n + 1]))
<1>1. n \in 0..MaxFrame /\ n + 1 \in 0..MaxFrame /\ MaxFrame \in Nat
  BY FrameNumbers
<1>2. Sum(l, n) \in Seq(Body) /\ Len(Sum(l, n)) = n /\ \A k \in 1..n : Sum(l, n)[k] = BodyOf(l.frame[k])
  BY <1>1, SumTyped
<1>3. /\ Sum(m, n + 1) \in Seq(Body) /\ Len(Sum(m, n + 1)) = n + 1
      /\ \A k \in 1..n + 1 : Sum(m, n + 1)[k] = BodyOf(m.frame[k])
  BY <1>1, SumTyped
<1>4. BodyOf(m.frame[n + 1]) \in Body
  <2>1. n + 1 \in 1..n + 1 /\ n + 1 \in DOMAIN Sum(m, n + 1)
    BY <1>1, <1>3
  <2> QED BY <1>3, <2>1
<1> DEFINE s == Sum(l, n)
           t == Sum(m, n + 1)
           b == BodyOf(m.frame[n + 1])
<1>5. \A k \in 1..n : t[k] = s[k]
  BY <1>1, <1>2, <1>3 DEF SameFrames
<1>6. t[n + 1] = b
  BY <1>1, <1>3
<1> HIDE DEF s, t, b
<1>7. Append(s, b) \in Seq(Body) /\ Len(Append(s, b)) = n + 1 /\ Append(s, b)[n + 1] = b
      /\ \A k \in 1..n : Append(s, b)[k] = s[k]
  BY <1>2, <1>4 DEF s, b
<1>8. t \in Seq(Body) /\ Len(t) = n + 1
  BY <1>3 DEF t
<1>9. \A k \in 1..n + 1 : t[k] = Append(s, b)[k]
  BY <1>1, <1>5, <1>6, <1>7
<1>10. t = Append(s, b)
  BY <1>7, <1>8, <1>9, SeqEqual
<1> QED BY <1>10 DEF s, t, b

(* A frame more: the last frame of its page is that one, of others the same. *)
LEMMA FindAppended ==
    ASSUME NEW l, NEW m, NEW n \in Nat, SameFrames(l, m, n), NEW pg, NEW min \in Nat \ {0}, min <= n + 1
    PROVE  Find(m, pg, min, n + 1) = IF m.frame[n + 1].pg = pg THEN n + 1 ELSE Find(l, pg, min, n)
<1>1. IsLastOf(Find(l, pg, min, n), l, pg, min, n)
  BY FindIs
<1>2. CASE m.frame[n + 1].pg = pg
  <2>1. IsLastOf(n + 1, m, pg, min, n + 1)
    BY <1>2 DEF IsLastOf
  <2> QED BY <1>2, <2>1, FindUnique
<1>3. CASE m.frame[n + 1].pg # pg
  <2>1. \A k \in min..n : m.frame[k] = l.frame[k]
    BY DEF SameFrames
  <2>2. \A k \in min..n + 1 : k = n + 1 \/ k \in min..n
    OBVIOUS
  <2> DEFINE j == Find(l, pg, min, n)
  <2>3. j = 0 \/ (j \in min..n /\ j # n + 1)
    BY <1>1 DEF IsLastOf
  <2> HIDE DEF j
  <2>4. IsLastOf(j, m, pg, min, n + 1)
    BY <1>1, <1>3, <2>1, <2>2, <2>3 DEF IsLastOf, j
  <2>5. Find(m, pg, min, n + 1) = j
    BY <2>4, FindUnique
  <2> QED BY <1>3, <2>5 DEF j
<1> QED BY <1>2, <1>3

(* A frame is added behind those that are counted. *)
LEMMA AppendFrameStep ==
    ASSUME IInv, NEW c \in Conns, AppendFrame(c)
    PROVE  IInv'
<1> DEFINE n == iFrame[c]
           i == iFrame[c] + 1
           p == Page(c)
<1>1. TypeOK /\ SelfOk(c) /\ at[c] = "frames"
  BY SelfIs DEF IInv, AppendFrame, IsAt
<1>2. /\ IsWriter(c) /\ writer = c /\ p \in todo[c] /\ p \in Pages
      /\ View(c, p) = Overlay(latest, tx[c])[p]
      /\ live.mxFrame <= hdr[c].mxFrame /\ hdr[c].mxFrame <= n /\ Top(c) = n
      /\ live.mxFrame \in Nat /\ hdr[c].mxFrame \in Nat /\ n \in Nat /\ n <= MaxFrame
      /\ hdr[c].salt \in Nat
  BY <1>1, WrittenPage
<1>3. TypeOK'
  BY <1>1, <1>2, AppendFrameTyped
<1>4. /\ mode[c] = "none" /\ readLock[c] >= 1 /\ ckpter # c
      /\ snap[c] = latest /\ WriterHdrOk(c) /\ ListOk(c) /\ PagesOk(c) /\ ChecksumsOk(c)
      /\ reCksum[c] \in Nat
  BY <1>1, <1>2, WriterPlace, WriterIs DEF Framing
<1>5. /\ i \in Frames /\ log' \in Log /\ log'.salt = log.salt
      /\ log'.frame[i].pg = p /\ log'.frame[i].val = View(c, p) /\ log'.frame[i].commit = (commits[c] /\ IsLast(c))
      /\ reCksum[c] = 0 => log'.frame[i].salt = hdr[c].salt /\ log'.frame[i].sum = Append(Sum(log, i - 1), BodyOf(log'.frame[i]))
      /\ \A k \in Frames \ {i} : log'.frame[k] = log.frame[k]
  BY <1>1, <1>2, AppendIs
<1>6. UNCHANGED <<db, live, intact, nBackfill, latest, writer, ckpter, aReadMark, hdr, readLock, minFrame, mode,
                  reCksum, commits, tx, snap, slot, isChanged, mxSafe, next>>
  BY DEF AppendFrame, Written, index, locks, reading, checkpointing, ghosts
<1>7. /\ Others(c) /\ todo'[c] = todo[c] \ {p} /\ dirty'[c] = dirty[c] \ {p} /\ iFrame'[c] = i
      /\ at'[c] = IF ~IsLast(c) THEN at[c] ELSE IF ~commits[c] THEN "publish" ELSE IF reCksum[c] > 0 THEN "checksums" ELSE "sync"
  BY <1>1, AppendFrameEffect
<1>8. i \in Nat /\ i <= MaxFrame /\ n + 1 <= MaxFrame /\ i = n + 1 /\ \A k \in 1..n : k \in Frames \ {i}
  BY <1>2, <1>5, FrameNumbers
<1>9. SameFrames(log, log', n)
  BY <1>5, <1>8 DEF SameFrames
<1> HIDE DEF i, p, n
<1>10. at'[c] \in {"frames", "publish", "checksums", "sync"} /\ (at'[c] = "frames" <=> ~IsLast(c))
  BY <1>1, <1>7
<1>11. Quiet(c) /\ IsWriter(c)'
  <2>1. SameFrames(log, log', live.mxFrame)
    BY <1>2, <1>9 DEF SameFrames
  <2> QED BY <1>1, <1>2, <1>4, <1>5, <1>6, <1>7, <1>10, <2>1 DEF Quiet, IsWriter
<1>12. PhaseOk(c)'
  BY <1>2, <1>4, <1>6, <1>10 DEF PhaseOk, Framing
<1>13. WriterHdrOk(c)'
  BY <1>1, <1>4, <1>5, <1>6, <1>10 DEF WriterHdrOk, SameLog, Reading, InFrames, NoHdr
<1>14. ListOk(c)'
  <2>1. todo'[c] = {} <=> IsLast(c)
    BY <1>2, <1>7 DEF IsLast, p
  <2>2. \A k \in hdr[c].mxFrame + 1..n : log.frame[k].pg \notin todo[c]
    BY <1>1, <1>4 DEF ListOk, InFrames, n
  <2>3. \A k \in hdr[c].mxFrame + 1..i : log'.frame[k].pg \notin todo'[c]
    <3>1. \A k \in hdr[c].mxFrame + 1..i : k = i \/ (k \in hdr[c].mxFrame + 1..n /\ log'.frame[k] = log.frame[k])
      BY <1>2, <1>8, <1>9 DEF SameFrames
    <3> QED BY <1>5, <1>7, <2>2, <3>1
  <2>4. IF commits[c] THEN dirty'[c] \subseteq todo'[c] /\ todo'[c] \subseteq dirty'[c] \cup {1}
                     ELSE todo'[c] \subseteq dirty'[c]
    BY <1>4, <1>7 DEF ListOk
  <2>5. at'[c] \in {"checksums", "sync"} => commits[c]
    BY <1>1, <1>7
  <2>6. i >= hdr[c].mxFrame
    BY <1>2, <1>8
  <2>7. at'[c] # "idle" /\ at'[c] \in InFrames /\ ~(at'[c] \in Reading \cup {"restart", "restartIndex", "walHdr", "syncHdr"})
        /\ (at'[c] \notin {"checksums", "sync", "publish"} <=> todo'[c] # {})
    BY <1>10, <2>1 DEF Reading, InFrames
  <2> QED BY <1>6, <1>7, <2>3, <2>4, <2>5, <2>6, <2>7 DEF ListOk
<1>15. Top(c)' = i /\ OwnFrames(c)' = live.mxFrame + 1..i /\ OwnFrames(c) = live.mxFrame + 1..n
  BY <1>2, <1>6, <1>7, <1>10 DEF Top, OwnFrames, InFrames, n
<1>16. PagesOk(c)'
  <2>1. \A q \in Pages : Find(log', q, live.mxFrame + 1, i) = IF q = p THEN i ELSE Find(log, q, live.mxFrame + 1, n)
    <3>1. live.mxFrame + 1 \in Nat \ {0} /\ live.mxFrame + 1 <= n + 1
      BY <1>2
    <3>2. \A q \in Pages : Find(log', q, live.mxFrame + 1, n + 1)
             = IF log'.frame[n + 1].pg = q THEN n + 1 ELSE Find(log, q, live.mxFrame + 1, n)
      BY <1>2, <1>9, <3>1, FindAppended
    <3> QED BY <1>5, <1>8, <3>2
  <2>2. ASSUME NEW q \in Pages
        PROVE  IF q \in dirty'[c] THEN tx'[c][q] # 0
               ELSE LET j == Find(log', q, live.mxFrame + 1, i)
                    IN  IF j = 0 THEN tx'[c][q] = 0 ELSE log'.frame[j].val = Overlay(latest, tx[c])[q]
    <3>1. CASE q = p
      BY <1>2, <1>5, <1>6, <1>7, <1>8, <2>1, <3>1
    <3>2. CASE q # p
      <4> DEFINE j == Find(log, q, live.mxFrame + 1, n)
      <4>1. j \in {0} \cup live.mxFrame + 1..n
        <5>1. live.mxFrame + 1 \in Nat \ {0}
          BY <1>2
        <5> QED BY <1>2, <5>1, FindIs DEF IsLastOf
      <4>2. j # 0 => log'.frame[j] = log.frame[j]
        BY <1>2, <1>9, <4>1 DEF SameFrames
      <4>3. IF q \in dirty[c] THEN tx[c][q] # 0
            ELSE IF j = 0 THEN tx[c][q] = 0 ELSE log.frame[j].val = Overlay(latest, tx[c])[q]
        BY <1>2, <1>4 DEF PagesOk
      <4>4. Find(log', q, live.mxFrame + 1, i) = j
        BY <2>1, <3>2
      <4>5. q \in dirty'[c] <=> q \in dirty[c]
        BY <1>7, <3>2
      <4> HIDE DEF j
      <4> QED BY <1>6, <4>2, <4>3, <4>4, <4>5
    <3> QED BY <3>1, <3>2
  <2> QED BY <1>6, <1>15, <2>2 DEF PagesOk
<1>17. ChecksumsOk(c)'
  <2>1. reCksum[c] # 0 => reCksum[c] \in live.mxFrame + 1..i
    <3>1. reCksum[c] # 0 => reCksum[c] \in live.mxFrame + 1..n
      BY <1>4, <1>15 DEF ChecksumsOk
    <3> QED BY <1>2, <1>8, <3>1
  <2>2. ASSUME NEW k \in live.mxFrame + 1..i, reCksum[c] = 0 \/ k < reCksum[c]
        PROVE  log'.frame[k].salt = log'.salt /\ log'.frame[k].sum = Sum(log', k)
    <3>1. CASE k = i
      <4>1. reCksum[c] = 0
        <5>1. reCksum[c] # 0 => reCksum[c] \in live.mxFrame + 1..n
          BY <1>4, <1>15 DEF ChecksumsOk
        <5> QED BY <1>2, <1>4, <1>8, <2>2, <3>1, <5>1
      <4>2. Sum(log', n + 1) = Append(Sum(log, n), BodyOf(log'.frame[n + 1]))
        BY <1>1, <1>2, <1>5, <1>8, <1>9, SumLonger DEF TypeOK
      <4>3. i - 1 = n
        BY <1>2, <1>8
      <4>4. log.salt = hdr[c].salt
        BY <1>1, <1>4 DEF WriterHdrOk, InFrames
      <4> QED BY <1>5, <1>8, <3>1, <4>1, <4>2, <4>3, <4>4
    <3>2. CASE k # i
      <4>1. k \in 1..n /\ k \in live.mxFrame + 1..n /\ k \in Nat /\ k \in 0..n
        BY <1>2, <1>8, <2>2, <3>2
      <4>2. log.frame[k].salt = log.salt /\ log.frame[k].sum = Sum(log, k)
        BY <1>4, <1>15, <2>2, <4>1 DEF ChecksumsOk
      <4>3. Sum(log', k) = Sum(log, k)
        BY <1>2, <1>9, <4>1, SumSame
      <4> QED BY <1>5, <1>9, <4>1, <4>2, <4>3 DEF SameFrames
    <3> QED BY <3>1, <3>2
  <2>3. at'[c] = "checksums" => reCksum[c] # 0
    BY <1>1, <1>4, <1>7
  <2>4. at'[c] = "sync" \/ (at'[c] = "publish" /\ commits'[c]) => reCksum[c] = 0
    BY <1>1, <1>4, <1>6, <1>7
  <2>5. Commits(c)' => i > live.mxFrame /\ log'.frame[i].commit
    <3>1. Commits(c)' => commits[c] /\ IsLast(c)
      BY <1>1, <1>6, <1>7, <1>10 DEF Commits
    <3>2. i > live.mxFrame
      BY <1>2, <1>8
    <3>3. commits[c] /\ IsLast(c) => log'.frame[i].commit
      BY <1>5
    <3> QED BY <3>1, <3>2, <3>3
  <2> QED BY <1>6, <1>7, <1>15, <2>1, <2>2, <2>3, <2>4, <2>5 DEF ChecksumsOk
<1>18. readLock[c] # 0 /\ at'[c] \in Writing /\ at[c] \in Writing
  BY <1>1, <1>4, <1>10 DEF Writing, Framing
<1> QED BY <1>2, <1>3, <1>6, <1>11, <1>12, <1>13, <1>14, <1>16, <1>17, <1>18, WriterStep

-----------------------------------------------------------------------------
(* The steps of checkpoints. *)

(* Where a checkpointer can be. *)
LEMMA CkptPlace ==
    ASSUME IInv, NEW c \in Conns, at[c] \in Checkpointing \cup {"truncate"}
    PROVE  /\ mode[c] # "none" /\ readLock[c] = -1 /\ ckpter = c /\ ~IsWriter(c) /\ ~Holds(c)
           /\ mode[c] \in {"PASSIVE", "TRUNCATE"} /\ (mode[c] = "TRUNCATE" <=> writer = c)
           /\ (at[c] = "truncate" => mode[c] = "TRUNCATE")
           /\ live # NoHdr /\ live.salt \in Nat
<1>1. SelfOk(c)
  BY SelfIs
<1>2. /\ mode[c] \in {"PASSIVE", "TRUNCATE"} /\ readLock[c] = -1 /\ ckpter = c
      /\ (mode[c] = "TRUNCATE" <=> writer = c) /\ (at[c] = "truncate" => mode[c] = "TRUNCATE")
  BY <1>1 DEF SelfOk, PhaseOk, Reading, Framing, Checkpointing
<1>3. live # NoHdr /\ live.salt \in Nat
  BY IndexIsThere DEF Checkpointing
<1> QED BY <1>2, <1>3 DEF IsWriter, Holds, IsAt, Checkpointing

(* A step within a checkpoint, that changes nothing of what others rely *)
(* on.                                                                  *)
LEMMA CkptCalmStep ==
    ASSUME IInv, TypeOK', NEW c \in Conns, Calm(c), intact' = intact, log' = log,
           at[c] \in Checkpointing, at'[c] \in Checkpointing,
           hdr'[c] = hdr[c], snap'[c] = snap[c], readLock'[c] = readLock[c],
           mode'[c] = mode[c], isChanged'[c] = isChanged[c], writer' = writer, ckpter' = ckpter,
           reCksum'[c] = reCksum[c], dirty'[c] = dirty[c], todo'[c] = todo[c], iFrame'[c] = iFrame[c],
           commits'[c] = commits[c], tx'[c] = tx[c],
           CountersOk(c)', CkptOk(c)', Copying(c)' => \A d \in Conns \ {c} : readLock[d] # 0
    PROVE  IInv'
<1>1. SelfOk(c) /\ live' = live /\ latest' = latest /\ intact' = intact
  BY SelfIs DEF Calm
<1>2. /\ mode[c] # "none" /\ readLock[c] = -1 /\ ckpter = c /\ ~IsWriter(c) /\ ~Holds(c)
      /\ mode[c] \in {"PASSIVE", "TRUNCATE"} /\ (mode[c] = "TRUNCATE" <=> writer = c)
      /\ live # NoHdr /\ live.salt \in Nat
  BY CkptPlace
<1>3. PhaseOk(c)'
  BY <1>2 DEF PhaseOk
<1>4. Exclusive(c)'
  <2>1. \A d \in Conns \ {c} : readLock'[d] = readLock[d]
    BY DEF Calm, Others, Same
  <2> QED BY <1>2, <2>1 DEF Exclusive, Copying, Restarting, Checkpointing
<1>5. HdrOk(c)'
  BY <1>1, <1>2 DEF SelfOk, HdrOk, KnowsDb, SameLog, IsWriter, Checkpointing
<1>6. LogReaderOk(c)' /\ DbReaderOk(c)' /\ VerifyOk(c)' /\ ~Holds(c)'
  BY <1>2, NoReader DEF Checkpointing
<1>7. ~IsWriter(c)'
  BY <1>2 DEF IsWriter
<1>8. WriterOk(c)'
  BY <1>1, <1>2, <1>7, NotWriter DEF SelfOk
<1>9. SelfOk(c)'
  BY <1>3, <1>4, <1>5, <1>6, <1>8 DEF SelfOk
<1>10. \A q \in Conns \ {c} : IsWriter(q) /\ ~SameLog(q) => hdr'[c].salt # hdr[q].salt
  BY DEF IInv, WriteInv, WriterOk, WriterHdrOk
<1> QED BY <1>2, <1>6, <1>9, <1>10, CalmStep

LEMMA CkptStep ==
    ASSUME IInv, TypeOK', NEW c \in Conns, Quiet(c), log' = log,
           at[c] \in Checkpointing, at'[c] \in Checkpointing,
           hdr'[c] = hdr[c], snap'[c] = snap[c], readLock'[c] = readLock[c],
           mode'[c] = mode[c], isChanged'[c] = isChanged[c], writer' = writer, ckpter' = ckpter,
           reCksum'[c] = reCksum[c], dirty'[c] = dirty[c], todo'[c] = todo[c], iFrame'[c] = iFrame[c],
           commits'[c] = commits[c], tx'[c] = tx[c],
           CountersOk(c)', CkptOk(c)', Copying(c)' => \A d \in Conns \ {c} : readLock[d] # 0
    PROVE  IInv'
BY QuietIsCalm, CkptCalmStep DEF Quiet

(* sqlite3WalCheckpoint() takes its locks. *)
LEMMA CheckpointStep ==
    ASSUME IInv, NEW c \in Conns, NEW eMode \in {"PASSIVE", "TRUNCATE"}, Checkpoint(c, eMode)
    PROVE  IInv'
<1>1. TypeOK /\ TypeOK' /\ SelfOk(c) /\ at[c] = "idle" /\ readLock[c] = -1
  BY CheckpointTyped, SelfIs DEF IInv, Checkpoint, Idle, IsAt
<1>2. mode[c] = "none" /\ writer # c
  BY <1>1 DEF SelfOk, PhaseOk, Reading, Framing, Checkpointing
<1>3. /\ UNCHANGED <<db, log, live, intact, nBackfill, latest, aReadMark, hdr, readLock, snap, isChanged,
                     mxSafe, next, reCksum, dirty, todo, iFrame, commits, tx, minFrame>>
      /\ ckpter' = c
      /\ IF eMode = "TRUNCATE" THEN writer = None /\ writer' = c ELSE writer' = writer
  BY DEF Checkpoint, files, index, reading, writing, ghosts
<1>4. Others(c) /\ mode'[c] = eMode /\ at'[c] = "ckptHdr"
  BY <1>1, CheckpointEffect
<1>5. Quiet(c) /\ ~IsWriter(c) /\ ~IsWriter(c)'
  BY <1>1, <1>2, <1>3, <1>4 DEF Quiet, IsWriter
<1>6. SelfOk(c)'
  <2>1. PhaseOk(c)'
    BY <1>1, <1>2, <1>3, <1>4 DEF PhaseOk
  <2>2. CountersOk(c)'
    BY <1>1, <1>2, <1>3, <1>4 DEF SelfOk, CountersOk
  <2>3. Exclusive(c)'
    BY <1>4 DEF Exclusive, Copying, Restarting
  <2>4. HdrOk(c)'
    BY <1>1, <1>3, <1>4, <1>5 DEF SelfOk, HdrOk, KnowsDb, SameLog, NoHdr
  <2>5. LogReaderOk(c)' /\ DbReaderOk(c)' /\ VerifyOk(c)'
    BY <1>1, <1>3, <1>4, NoReader
  <2>6. CkptOk(c)'
    BY <1>4 DEF CkptOk, Checkpointing, Copying, Restarting
  <2>7. WriterOk(c)'
    BY <1>1, <1>3, <1>5, NotWriter DEF SelfOk
  <2> QED BY <2>1, <2>2, <2>3, <2>4, <2>5, <2>6, <2>7 DEF SelfOk
<1>7. ~Holds(c)'
  BY <1>1, <1>3, <1>4 DEF Holds, IsAt
<1>8. \A q \in Conns \ {c} : IsWriter(q) /\ ~SameLog(q) => hdr'[c].salt # hdr[q].salt
  BY <1>3 DEF IInv, WriteInv, WriterOk, WriterHdrOk
<1>9. live = NoHdr => hdr'[c] = NoHdr
  BY <1>3 DEF IInv, IndexInv, NoIndex
<1> QED BY <1>1, <1>3, <1>4, <1>5, <1>6, <1>7, <1>8, <1>9, QuietStep

(* walCheckpoint(): there is nothing to copy, or a reader of the database *)
(* file is in the way.                                                    *)
LEMMA CkptNothingStep ==
    ASSUME IInv, NEW c \in Conns, CkptNothing(c)
    PROVE  IInv'
<1>1. TypeOK /\ TypeOK' /\ SelfOk(c) /\ at[c] = "ckptSafe" /\ next[c] = 1
  BY CkptNothingTyped, SelfIs DEF IInv, CkptNothing, IsAt
<1>2. UNCHANGED <<db, log, live, intact, nBackfill, latest, writer, ckpter, aReadMark, hdr, readLock, minFrame, mode,
                  mxSafe, next, isChanged>>
  BY DEF CkptNothing, files, index, locks, reading, checkpointing, ghosts
<1>3. Others(c) /\ at'[c] = "ckptEnd"
  BY <1>1, CkptNothingEffect
<1>4. Quiet(c)
  BY <1>1, <1>2, <1>3 DEF Quiet
<1>5. CountersOk(c)'
  BY <1>1, <1>2, <1>3 DEF SelfOk, CountersOk
<1>6. CkptOk(c)' /\ ~Copying(c)'
  <2>1. \A d \in Conns : Holds(d)' => Holds(d)
    BY <1>2, <1>3 DEF Holds, IsAt, Others, Same
  <2> QED BY <1>1, <1>2, <1>3, <1>4, <2>1, QuietRestart DEF SelfOk, CkptOk, SameLog, Copying, Restarting,
                                        Checkpointing
<1> QED BY <1>1, <1>2, <1>3, <1>4, <1>5, <1>6, CkptNothingEffect, CkptStep DEF Checkpointing

LEMMA CkptSkipStep ==
    ASSUME IInv, NEW c \in Conns, CkptSkip(c)
    PROVE  IInv'
<1>1. TypeOK /\ TypeOK' /\ SelfOk(c) /\ at[c] = "ckptLock"
  BY CkptSkipTyped, SelfIs DEF IInv, CkptSkip, IsAt
<1>2. UNCHANGED <<db, log, live, intact, nBackfill, latest, writer, ckpter, aReadMark, hdr, readLock, minFrame, mode,
                  mxSafe, next, isChanged>>
  BY DEF CkptSkip, files, index, locks, reading, checkpointing, ghosts
<1>3. Others(c) /\ at'[c] = "ckptEnd"
  BY <1>1, CkptSkipEffect
<1>4. Quiet(c)
  BY <1>1, <1>2, <1>3 DEF Quiet
<1>5. CountersOk(c)'
  BY <1>1, <1>2, <1>3 DEF SelfOk, CountersOk
<1>6. CkptOk(c)' /\ ~Copying(c)'
  <2>1. \A d \in Conns : Holds(d)' => Holds(d)
    BY <1>2, <1>3 DEF Holds, IsAt, Others, Same
  <2> QED BY <1>1, <1>2, <1>3, <1>4, <2>1, QuietRestart DEF SelfOk, CkptOk, SameLog, Copying, Restarting,
                                        Checkpointing
<1> QED BY <1>1, <1>2, <1>3, <1>4, <1>5, <1>6, CkptSkipEffect, CkptStep DEF Checkpointing

(* walCheckpoint(): the lock of slot 0 keeps the readers of the database *)
(* file out.                                                             *)
LEMMA CkptLockStep ==
    ASSUME IInv, NEW c \in Conns, CkptLock(c)
    PROVE  IInv'
<1>1. /\ TypeOK /\ TypeOK' /\ SelfOk(c) /\ at[c] = "ckptLock"
      /\ nBackfill < mxSafe[c] /\ ExclusiveIsFree(0, c) /\ SameLog(c)
  BY CkptLockTyped, SelfIs DEF IInv, CkptLock, IsAt, SameLog
<1>2. UNCHANGED <<db, log, live, intact, nBackfill, latest, writer, ckpter, aReadMark, hdr, readLock, minFrame, mode,
                  mxSafe, next, isChanged>>
  BY DEF CkptLock, index, locks, reading, checkpointing, ghosts
<1>3. Others(c) /\ at'[c] = "ckptCopy"
  BY <1>1, CkptLockEffect
<1>4. Quiet(c)
  BY <1>1, <1>2, <1>3 DEF Quiet
<1>5. next[c] = 1 /\ 1 \in Pages
  BY <1>1, BoundsAssumption DEF SelfOk, CountersOk, Pages
<1>6. CountersOk(c)'
  BY <1>1, <1>2, <1>3, <1>5 DEF SelfOk, CountersOk
<1>7. \A d \in Conns : Holds(d)' = Holds(d) /\ Base(d)' = Base(d)
  BY <1>1, <1>2, <1>3 DEF Holds, IsAt, Others, Same, Base, IsWriter
<1>8. CkptOk(c)'
  <2>1. /\ nBackfill <= hdr[c].mxFrame \/ RestartGoesOn
        /\ \A d \in Conns : Holds(d) => minFrame[d] <= hdr[c].mxFrame + 1
        /\ mxSafe[c] <= hdr[c].mxFrame
        /\ \A d \in Conns : readLock[d] >= 1 => mxSafe[c] <= Base(d)
    BY <1>1 DEF SelfOk, CkptOk, Checkpointing, Passed
  <2>2. \A pg \in Pages : ~(pg < 1)
    BY BoundsAssumption DEF Pages
  <2>3. mode[c] = "TRUNCATE" => hdr[c] = live
    BY <1>1 DEF SelfOk, CkptOk
  <2>4. RestartGoesOn' = RestartGoesOn
    BY <1>4, QuietRestart
  <2>5. SameLog(c)'
    BY <1>1, <1>2 DEF SameLog
  <2> QED BY <1>1, <1>2, <1>3, <1>5, <1>7, <2>1, <2>2, <2>3, <2>4, <2>5 DEF CkptOk, Checkpointing, Copying,
                                        Restarting
<1>9. \A d \in Conns \ {c} : readLock[d] # 0
  BY <1>1 DEF ExclusiveIsFree
<1> QED BY <1>1, <1>2, <1>3, <1>4, <1>6, <1>8, <1>9, CkptLockEffect, CkptStep DEF Checkpointing

(* walCheckpoint(): no frame that a reader may not yet see is copied. *)
LEMMA CkptSafeStep ==
    ASSUME IInv, NEW c \in Conns, CkptSafe(c)
    PROVE  IInv'
<1> DEFINE i == next[c]
           mx == IF i = 1 THEN hdr[c].mxFrame ELSE mxSafe[c]
<1>1. TypeOK /\ SelfOk(c) /\ at[c] = "ckptSafe" /\ i \in Slots
  BY SelfIs DEF IInv, CkptSafe, IsAt, SelfOk, CountersOk
<1>2. TypeOK'
  BY <1>1, CkptSafeTyped
<1>3. /\ UNCHANGED <<db, log, live, intact, nBackfill, latest, writer, ckpter, hdr, readLock, minFrame, mode, isChanged>>
      /\ \A j \in Slots : aReadMark'[j] = aReadMark[j] \/ ExclusiveIsFree(j, c)
  <2>1. aReadMark' = aReadMark \/ (ExclusiveIsFree(i, c) /\ \E x : aReadMark' = [aReadMark EXCEPT ![i] = x])
    BY DEF CkptSafe
  <2>2. aReadMark \in [Slots -> 0..READMARK_NOT_USED]
    BY <1>1 DEF TypeOK
  <2>3. \A j \in Slots : aReadMark'[j] = aReadMark[j] \/ ExclusiveIsFree(j, c)
    BY <1>1, <2>1, <2>2
  <2> QED BY <2>3 DEF CkptSafe, files, locks, reading, ghosts
<1>4. /\ Others(c)
      /\ mxSafe'[c] = IF mx > aReadMark[i] /\ ~ExclusiveIsFree(i, c) THEN aReadMark[i] ELSE mx
      /\ \/ i = ReadMarks /\ next'[c] = 1 /\ at'[c] = "ckptLock"
         \/ i # ReadMarks /\ next'[c] = i + 1 /\ at'[c] = "ckptSafe"
  BY <1>1, CkptSafeEffect
<1>5. Quiet(c)
  BY <1>1, <1>3, <1>4 DEF Quiet
<1>6. ReadMarks \in Nat /\ i \in Nat /\ i >= 1 /\ i <= ReadMarks
  BY <1>1, BoundsAssumption DEF Slots
<1>7. CountersOk(c)'
  <2>1. mode[c] # "none"
    BY <1>1, CkptPlace DEF Checkpointing
  <2>2. at'[c] = "ckptSafe" => next'[c] \in Slots
    BY <1>4, <1>6 DEF Slots
  <2>3. at'[c] = "ckptLock" => next'[c] = 1
    BY <1>4
  <2>4. at'[c] \in {"ckptSafe", "ckptLock"}
    BY <1>4
  <2> QED BY <1>3, <2>1, <2>2, <2>3, <2>4 DEF CountersOk
<1>8. \A d \in Conns : Holds(d)' = Holds(d) /\ Base(d)' = Base(d)
  BY <1>1, <1>3, <1>4 DEF Holds, IsAt, Others, Same, Base, IsWriter
<1>9. NumbersOk /\ mx \in Nat /\ aReadMark[i] \in Nat
  <2>1. NumbersOk
    BY <1>1, Numbers
  <2> QED BY <1>1, <2>1 DEF NumbersOk
<1>10. CkptOk(c)'
  <2>1. SameLog(c) =>
          /\ nBackfill <= hdr[c].mxFrame \/ RestartGoesOn
          /\ \A d \in Conns : Holds(d) => minFrame[d] <= hdr[c].mxFrame + 1
          /\ mxSafe[c] <= hdr[c].mxFrame
          /\ \A d \in Conns : readLock[d] >= 1 /\ readLock[d] < i => mxSafe[c] <= Base(d)
    BY <1>1 DEF SelfOk, CkptOk, Checkpointing, Passed
  <2>2. mode[c] = "TRUNCATE" => hdr[c] = live
    BY <1>1 DEF SelfOk, CkptOk
  <2>3. mxSafe'[c] <= mx /\ mxSafe'[c] \in Nat
    BY <1>4, <1>9
  <2>4. SameLog(c) => mxSafe'[c] <= hdr[c].mxFrame
    BY <1>1, <1>9, <2>1, <2>3 DEF NumbersOk
  <2>5. ASSUME SameLog(c), NEW d \in Conns, readLock[d] >= 1, Passed(c, readLock[d])'
        PROVE  mxSafe'[c] <= Base(d)
    <3>1. readLock[d] \in Int /\ readLock[d] <= ReadMarks /\ Base(d) \in Nat
      BY <1>9 DEF NumbersOk, Base
    <3>2. readLock'[d] = readLock[d]
      BY <1>3
    <3>3. readLock[d] <= i
      BY <1>4, <1>6, <2>5, <3>1, <3>2 DEF Passed
    <3>4. CASE readLock[d] < i
      <4>1. i # 1 /\ mxSafe[c] <= Base(d)
        BY <1>6, <2>1, <2>5, <3>1, <3>4
      <4> QED BY <1>9, <2>3, <3>1, <4>1
    <3>5. CASE readLock[d] = i
      <4>1. d # c
        <5>1. readLock[c] = -1
          BY <1>1, CkptPlace DEF Checkpointing
        <5> QED BY <2>5, <5>1
      <4>2. ~ExclusiveIsFree(i, c)
        BY <3>5, <4>1 DEF ExclusiveIsFree
      <4>3. aReadMark[i] <= Base(d)
        BY <2>5, <3>5 DEF IInv, Readers, LogReaderOk
      <4>4. mxSafe'[c] <= aReadMark[i]
        BY <1>4, <1>9, <4>2
      <4> QED BY <1>9, <2>3, <3>1, <4>3, <4>4
    <3> QED BY <1>6, <3>1, <3>3, <3>4, <3>5
  <2>6. SameLog(c)' = SameLog(c) /\ RestartGoesOn' = RestartGoesOn
    BY <1>3, <1>5, QuietRestart DEF SameLog
  <2>7. at'[c] \in {"ckptSafe", "ckptLock"}
    BY <1>4
  <2>8. SameLog(c) => \A d \in Conns : readLock'[d] >= 1 /\ Passed(c, readLock[d])' => mxSafe'[c] <= Base(d)'
    BY <1>3, <1>8, <2>5
  <2> HIDE DEF i, mx
  <2> QED BY <1>3, <1>8, <2>1, <2>2, <2>4, <2>6, <2>7, <2>8 DEF CkptOk, Copying, Restarting
<1>11. at'[c] \in {"ckptSafe", "ckptLock"} /\ ~Copying(c)'
  BY <1>4 DEF Copying
<1> HIDE DEF i, mx
<1> QED BY <1>1, <1>2, <1>3, <1>5, <1>7, <1>10, <1>11, CkptSafeEffect, CkptStep DEF Checkpointing

(* A checkpoint returns, and forgets its header when it was not the *)
(* connection's own.                                                *)
LEMMA CkptReturnStep ==
    ASSUME IInv, TypeOK', NEW c \in Conns, Quiet(c), intact \/ log' = log,
           at[c] \in {"ckptEnd", "truncate"}, at'[c] = "idle",
           hdr'[c] = IF isChanged[c] THEN NoHdr ELSE hdr[c], ~isChanged[c] => snap'[c] = snap[c],
           readLock'[c] = readLock[c], mode'[c] = "none", isChanged'[c] = FALSE, mxSafe'[c] = 0,
           next'[c] = next[c], writer' # c, ckpter' # c,
           reCksum'[c] = reCksum[c], dirty'[c] = dirty[c], todo'[c] = todo[c], iFrame'[c] = iFrame[c],
           commits'[c] = commits[c], tx'[c] = tx[c]
    PROVE  IInv'
<1>1. SelfOk(c) /\ live' = live /\ latest' = latest /\ intact' = intact
  BY SelfIs DEF Quiet
<1>2. /\ mode[c] # "none" /\ readLock[c] = -1 /\ ~IsWriter(c) /\ live # NoHdr /\ live.salt \in Nat
      /\ live.mxFrame \in Nat
  BY CkptPlace, IndexIsThere DEF Checkpointing
<1>3. PhaseOk(c)'
  BY <1>2 DEF PhaseOk
<1>4. CountersOk(c)'
  BY <1>1 DEF SelfOk, CountersOk
<1>5. CkptOk(c)' /\ Exclusive(c)'
  BY NoCheckpoint DEF Checkpointing
<1>6. ~IsWriter(c)'
  BY DEF IsWriter
<1>7. HdrOk(c)'
  <2>1. CASE isChanged[c]
    <3>1. log'.salt \in Nat
      BY DEF TypeOK, Log
    <3> QED BY <1>1, <1>2, <2>1, <3>1 DEF HdrOk, SameLog, NoHdr
  <2>2. CASE ~isChanged[c]
    BY <1>1, <1>2, <1>6, <2>2 DEF SelfOk, HdrOk, SameLog, KnowsDb, IsWriter
  <2>3. isChanged[c] \in BOOLEAN
    BY DEF IInv, TypeOK
  <2> QED BY <2>1, <2>2, <2>3
<1>8. LogReaderOk(c)' /\ DbReaderOk(c)' /\ VerifyOk(c)' /\ ~Holds(c)'
  BY <1>2, NoReader
<1>9. WriterOk(c)'
  BY <1>1, <1>2, <1>6, NotWriter DEF SelfOk
<1>10. SelfOk(c)'
  BY <1>3, <1>4, <1>5, <1>7, <1>8, <1>9 DEF SelfOk
<1>11. \A q \in Conns \ {c} : IsWriter(q) /\ ~SameLog(q) => hdr'[c].salt # hdr[q].salt
  <2>1. \A q \in Conns : IsWriter(q) => hdr[q].salt \in Nat
    BY DEF IInv, WriteInv, WriterOk, WriterHdrOk
  <2>2. \A q \in Conns \ {c} : IsWriter(q) /\ ~SameLog(q) => hdr[c].salt # hdr[q].salt
    BY DEF IInv, WriteInv, WriterOk, WriterHdrOk
  <2>3. NoHdr.salt = -1
    BY DEF NoHdr
  <2> QED BY <2>1, <2>2, <2>3
<1> QED BY <1>2, <1>8, <1>10, <1>11, QuietStep

LEMMA CkptEndStep ==
    ASSUME IInv, NEW c \in Conns, CkptEnd(c)
    PROVE  IInv'
<1>1. TypeOK /\ TypeOK' /\ at[c] = "ckptEnd"
  BY CkptEndTyped DEF IInv, CkptEnd, IsAt
<1>2. UNCHANGED <<db, log, live, intact, nBackfill, latest, aReadMark, readLock,
                  reCksum, dirty, todo, iFrame, commits, tx, next>>
  BY DEF CkptEnd, CkptReturn, index, reading, writing
<1>3. /\ Others(c) /\ hdr'[c] = (IF isChanged[c] THEN NoHdr ELSE hdr[c]) /\ (~isChanged[c] => snap'[c] = snap[c])
      /\ mode'[c] = "none" /\ isChanged'[c] = FALSE /\ mxSafe'[c] = 0 /\ at'[c] = "idle"
      /\ writer' # c /\ ckpter' # c
  BY <1>1, CkptEndEffect
<1>4. Quiet(c)
  BY <1>1, <1>2, <1>3 DEF Quiet
<1> QED BY <1>1, <1>2, <1>3, <1>4, CkptReturnStep

LEMMA TruncateStep ==
    ASSUME IInv, NEW c \in Conns, Truncate(c)
    PROVE  IInv'
<1>1. TypeOK /\ TypeOK' /\ SelfOk(c) /\ at[c] = "truncate"
  BY TruncateTyped, SelfIs DEF IInv, Truncate, IsAt
<1>2. UNCHANGED <<db, live, intact, nBackfill, latest, aReadMark, readLock,
                  reCksum, dirty, todo, iFrame, commits, tx, next>>
  BY DEF Truncate, CkptReturn, index, reading, writing
<1>3. /\ Others(c) /\ hdr'[c] = (IF isChanged[c] THEN NoHdr ELSE hdr[c]) /\ (~isChanged[c] => snap'[c] = snap[c])
      /\ mode'[c] = "none" /\ isChanged'[c] = FALSE /\ mxSafe'[c] = 0 /\ at'[c] = "idle"
      /\ writer' # c /\ ckpter' # c
  BY <1>1, TruncateEffect
<1>4. intact /\ live.mxFrame = 0 /\ writer = c
  BY <1>1, CkptPlace DEF SelfOk, Exclusive, CkptOk, Restarting
<1>5. SameFrames(log, log', live.mxFrame)
  BY <1>4 DEF SameFrames
<1>6. Quiet(c)
  BY <1>1, <1>2, <1>3, <1>4, <1>5 DEF Quiet
<1> QED BY <1>1, <1>2, <1>3, <1>4, <1>6, CkptReturnStep

-----------------------------------------------------------------------------
(* A process that dies. *)

LEMMA ForgetEffect ==
    ASSUME TypeOK, NEW c \in Conns, Forget({c}), at' = Set(at, c, "gone")
    PROVE  /\ Others(c)
           /\ at'[c] = "gone" /\ hdr'[c] = NoHdr /\ readLock'[c] = -1 /\ mode'[c] = "none"
           /\ next'[c] = 1 /\ mxSafe'[c] = 0 /\ isChanged'[c] = FALSE
           /\ tx'[c] = Unchanged /\ dirty'[c] = {} /\ todo'[c] = {} /\ reCksum'[c] = 0
           /\ iFrame'[c] = 0 /\ commits'[c] = FALSE /\ writer' # c /\ ckpter' # c
<1>1. at \in [Conns -> Steps]
  BY DEF TypeOK
<1>2. at'[c] = "gone" /\ \A q \in Conns \ {c} : at'[q] = at[q]
  BY <1>1 DEF Set
<1>3. /\ hdr'[c] = NoHdr /\ readLock'[c] = -1 /\ mode'[c] = "none"
      /\ next'[c] = 1 /\ mxSafe'[c] = 0 /\ isChanged'[c] = FALSE
      /\ tx'[c] = Unchanged /\ dirty'[c] = {} /\ todo'[c] = {} /\ reCksum'[c] = 0
      /\ iFrame'[c] = 0 /\ commits'[c] = FALSE /\ writer' # c /\ ckpter' # c
  BY BoundsAssumption DEF Forget
<1>4. \A q \in Conns \ {c} :
         /\ hdr'[q] = hdr[q] /\ readLock'[q] = readLock[q] /\ slot'[q] = slot[q]
         /\ minFrame'[q] = minFrame[q] /\ reCksum'[q] = reCksum[q] /\ dirty'[q] = dirty[q]
         /\ todo'[q] = todo[q] /\ iFrame'[q] = iFrame[q] /\ commits'[q] = commits[q]
         /\ mode'[q] = mode[q] /\ isChanged'[q] = isChanged[q] /\ mxSafe'[q] = mxSafe[q]
         /\ next'[q] = next[q] /\ tx'[q] = tx[q] /\ snap'[q] = snap[q]
  BY DEF Forget
<1>5. \A q \in Conns \ {c} : (writer' = q) = (writer = q) /\ (ckpter' = q) = (ckpter = q)
  BY BoundsAssumption DEF Forget
<1> QED BY <1>2, <1>3, <1>4, <1>5 DEF Others, Same

(* A process that is gone has nothing that can be wrong. *)
LEMMA GoneSelf ==
    ASSUME TypeOK', live' # NoHdr => live'.salt # -1, live'.mxFrame >= 0, NEW c \in Conns,
           at'[c] \in {"gone", "idle"}, hdr'[c] = NoHdr, readLock'[c] = -1, mode'[c] = "none",
           next'[c] = 1, mxSafe'[c] = 0, isChanged'[c] = FALSE,
           tx'[c] = Unchanged, dirty'[c] = {}, todo'[c] = {}, reCksum'[c] = 0,
           iFrame'[c] = 0, commits'[c] = FALSE, writer' # c, ckpter' # c
    PROVE  SelfOk(c)'
<1>1. PhaseOk(c)'
  BY DEF PhaseOk
<1>2. CountersOk(c)'
  BY DEF CountersOk
<1>3. CkptOk(c)' /\ Exclusive(c)'
  BY NoCheckpoint DEF Checkpointing
<1>4. HdrOk(c)'
  <2>1. log'.salt \in Nat
    BY DEF TypeOK, Log
  <2> QED BY <2>1 DEF HdrOk, SameLog, NoHdr
<1>5. LogReaderOk(c)' /\ DbReaderOk(c)' /\ VerifyOk(c)'
  BY NoReader
<1>6. WriterOk(c)'
  BY DEF WriterOk, IsWriter, Unchanged
<1> QED BY <1>1, <1>2, <1>3, <1>4, <1>5, <1>6 DEF SelfOk

(* Nobody else restarts the log, or copies, while one has the lock for it. *)
LEMMA OthersRestart ==
    ASSUME IInv, NEW c \in Conns, writer = c
    PROVE  \A q \in Conns \ {c} : ~Restarting(q)
BY DEF IInv, Phases, PhaseOk, Restarting, Reading, Framing, Checkpointing

LEMMA OthersCopy ==
    ASSUME IInv, NEW c \in Conns, ckpter = c
    PROVE  \A q \in Conns \ {c} : at[q] \notin Checkpointing \cup {"truncate"}
BY DEF IInv, Phases, PhaseOk, Reading, Framing, Checkpointing

(* A process dies: its locks go, and what it left in the files harms *)
(* nobody.                                                           *)
LEMMA DieStep ==
    ASSUME IInv, ~KilledInRestart, NEW c \in Conns, Die(c)
    PROVE  IInv'
<1>0. at[c] # "restartIndex" /\ (Restarts(c) => intact' = intact)
  BY Zenon DEF KilledInRestart
<1>1. TypeOK /\ TypeOK' /\ SelfOk(c) /\ at[c] # "restartIndex" /\ (at[c] \notin {"idle", "gone"} \/ readLock[c] >= 0)
  BY <1>0, DieTyped, SelfIs DEF IInv, Die
<1>2. UNCHANGED <<db, log, live, nBackfill, latest, aReadMark>>
  BY DEF Die, files
<1>3. /\ Others(c) /\ at'[c] = "gone" /\ hdr'[c] = NoHdr /\ readLock'[c] = -1 /\ mode'[c] = "none"
      /\ next'[c] = 1 /\ mxSafe'[c] = 0 /\ isChanged'[c] = FALSE
      /\ tx'[c] = Unchanged /\ dirty'[c] = {} /\ todo'[c] = {} /\ reCksum'[c] = 0
      /\ iFrame'[c] = 0 /\ commits'[c] = FALSE /\ writer' # c /\ ckpter' # c
  BY <1>1, ForgetEffect DEF Die
<1>4. Calm(c)
  <2>1. CASE intact' = intact
    BY <1>1, <1>2, <1>3, <2>1 DEF Calm, SameIndex
  <2>2. CASE intact' # intact
    <3>1. ~intact' /\ at[c] = "publish" /\ commits[c]
      BY <1>0, <1>1, <2>2 DEF Die, WritesHdr, IsAt, TypeOK
    <3>2. IsWriter(c) /\ writer = c
      <4>1. writer = c
        BY <1>1, <3>1 DEF SelfOk, PhaseOk, Reading, Framing, Checkpointing
      <4> QED BY <3>1, <4>1, WriterPlace DEF Framing
    <3>3. live # NoHdr /\ WriterHdrOk(c)
      BY <3>2, WriterIs
    <3>4. \A q \in Conns \ {c} : live.salt # log.salt => hdr[q].salt # log.salt
      BY <3>1, <3>3 DEF WriterHdrOk, InFrames, SameLog
    <3>5. \A q \in Conns \ {c} : ~Restarting(q)
      BY <3>2, OthersRestart
    <3> QED BY <1>1, <1>2, <1>3, <3>1, <3>3, <3>4, <3>5 DEF Calm, SameIndex
  <2> QED BY <2>1, <2>2
<1>5. live' # NoHdr => live'.salt # -1
  BY <1>2 DEF IInv, IndexInv
<1>6. live'.mxFrame >= 0
  BY <1>1, <1>2, Numbers DEF NumbersOk
<1>7. SelfOk(c)'
  BY <1>1, <1>3, <1>5, <1>6, GoneSelf
<1>8. ~Holds(c)'
  BY <1>3 DEF Holds, IsAt
<1>9. \A q \in Conns \ {c} : IsWriter(q) /\ ~SameLog(q) => hdr'[c].salt # hdr[q].salt
  <2>1. \A q \in Conns : IsWriter(q) => hdr[q].salt \in Nat
    BY DEF IInv, WriteInv, WriterOk, WriterHdrOk
  <2> QED BY <1>3, <2>1 DEF NoHdr
<1> QED BY <1>1, <1>3, <1>4, <1>7, <1>8, <1>9, CalmStep

-----------------------------------------------------------------------------
(* The steps that reset what the checkpoints have done. *)

(* Nothing is copied yet. *)
LEMMA DbHasNone ==
    ASSUME IInv, live # NoHdr
    PROVE  DbHas(0) /\ DbHas(1)
<1>1. live.mxFrame \in Nat /\ 1 \in Nat \ {0}
  BY Numbers DEF IInv, NumbersOk
<1>2. ASSUME NEW pg \in Pages
      PROVE  Find(log, pg, 1, live.mxFrame) \in Nat
             /\ (Find(log, pg, 1, live.mxFrame) = 0 => db[pg] = latest[pg])
  <2>1. Find(log, pg, 1, live.mxFrame) \in {0} \cup 1..live.mxFrame
    BY <1>1, FindIs DEF IsLastOf
  <2>2. latest[pg] = Content(db, log, pg, 1, live.mxFrame)
    BY DEF IInv, IndexInv
  <2> QED BY <2>1, <2>2 DEF Content
<1> QED BY <1>2 DEF DbHas

(* walIndexRecover(): nothing counts as copied, and the read marks are *)
(* reset.                                                              *)
LEMMA RecoverResetStep ==
    ASSUME IInv, NEW c \in Conns, RecoverReset(c)
    PROVE  IInv'
<1>1. TypeOK /\ SelfOk(c) /\ at[c] = "recoverReset"
  BY SelfIs DEF IInv, RecoverReset, IsAt
<1>2. TypeOK'
  BY <1>1, RecoverResetTyped
<1>3. /\ readLock[c] = -1 /\ writer = c /\ ckpter = c
      /\ mode[c] \in {"none", "PASSIVE", "TRUNCATE"}
  BY <1>1 DEF SelfOk, PhaseOk, Reading, Framing, Checkpointing
<1>4. UNCHANGED <<db, log, live, intact, latest>> /\ nBackfill' = 0
  BY DEF RecoverReset, files, ghosts
<1>5. /\ Others(c)
      /\ at'[c] = IF mode[c] = "none" THEN "choose" ELSE "ckptSafe"
      /\ hdr'[c] = hdr[c] /\ readLock'[c] = readLock[c]
      /\ mode'[c] = mode[c] /\ isChanged'[c] = isChanged[c] /\ mxSafe'[c] = mxSafe[c]
      /\ next'[c] = next[c] /\ snap'[c] = snap[c]
      /\ reCksum'[c] = reCksum[c] /\ dirty'[c] = dirty[c]
      /\ todo'[c] = todo[c] /\ iFrame'[c] = iFrame[c] /\ commits'[c] = commits[c] /\ tx'[c] = tx[c]
  BY <1>1, <1>3, RecoverResetEffect
<1>6. /\ writer' = IF mode[c] = "TRUNCATE" THEN c ELSE None
      /\ ckpter' = IF mode[c] = "none" THEN None ELSE c
  BY DEF RecoverReset
<1>7. live # NoHdr /\ live.salt \in Nat /\ live.mxFrame \in Nat /\ hdr[c] = live
  BY <1>1, IndexIsThere DEF SelfOk, CkptOk
<1>8. Calm(c)
  <2>1. \A i \in Slots : aReadMark'[i] = aReadMark[i] \/ ExclusiveIsFree(i, c)
    BY DEF RecoverReset
  <2>2. DbHas(nBackfill' + 1)
    BY <1>4, <1>7, DbHasNone
  <2> QED BY <1>3, <1>4, <1>5, <1>7, <2>1, <2>2, OthersCopy DEF Calm
<1>9. ~IsWriter(c) /\ ~IsWriter(c)'
  BY <1>1, <1>5, <1>6, BoundsAssumption DEF IsWriter
<1>10. PhaseOk(c)'
  BY <1>3, <1>5, <1>6, BoundsAssumption DEF PhaseOk, Reading, Checkpointing
<1>11. CountersOk(c)'
  <2>1. next[c] = 1 /\ 1 \in Slots /\ mxSafe[c] = 0
    BY <1>1, BoundsAssumption DEF SelfOk, CountersOk, Slots
  <2> QED BY <1>1, <1>5, <2>1 DEF SelfOk, CountersOk
<1>12. Exclusive(c)'
  BY <1>5 DEF Exclusive, Copying, Restarting
<1>13. HdrOk(c)'
  BY <1>1, <1>4, <1>5, <1>7, <1>9 DEF SelfOk, HdrOk, KnowsDb, SameLog
<1>14. LogReaderOk(c)' /\ DbReaderOk(c)' /\ VerifyOk(c)' /\ ~Holds(c)'
  BY <1>3, <1>5, NoReader
<1>15. CkptOk(c)'
  <2>1. CASE mode[c] = "none"
    BY <1>5, <2>1, NoCheckpoint DEF Checkpointing
  <2>2. CASE mode[c] # "none"
    <3>1. at'[c] = "ckptSafe" /\ mxSafe'[c] = 0
      BY <1>1, <1>5, <2>2 DEF SelfOk, CountersOk
    <3>2. \A d \in Conns : Holds(d)' => minFrame'[d] <= live.mxFrame + 1
      <4>1. \A d \in Conns : Holds(d) => minFrame[d] <= live.mxFrame + 1
        BY DEF IInv, Readers, Holds, LogReaderOk, VerifyOk, IsAt
      <4> QED BY <1>5, <1>14, <4>1 DEF Others, Same, Holds, IsAt
    <3>3. \A d \in Conns : 0 <= Base(d)'
      BY <1>2, NumbersNext DEF NumbersOk, Base
    <3> QED BY <1>4, <1>5, <1>7, <3>1, <3>2, <3>3 DEF CkptOk, Copying, Restarting
  <2> QED BY <2>1, <2>2
<1>16. WriterOk(c)'
  BY <1>1, <1>5, <1>9, NotWriter DEF SelfOk
<1>17. SelfOk(c)'
  BY <1>10, <1>11, <1>12, <1>13, <1>14, <1>15, <1>16 DEF SelfOk
<1>18. \A q \in Conns \ {c} : ~IsWriter(q)
  BY <1>3 DEF IsWriter
<1> QED BY <1>2, <1>3, <1>5, <1>7, <1>8, <1>14, <1>17, <1>18, CalmStep

(* walRestartHdr(): nothing counts as copied from the new log. *)
LEMMA RestartIndexStep ==
    ASSUME IInv, NEW c \in Conns, RestartIndex(c)
    PROVE  IInv'
<1>1. TypeOK /\ SelfOk(c) /\ at[c] = "restartIndex"
  BY SelfIs DEF IInv, RestartIndex, IsAt
<1>2. TypeOK'
  BY <1>1, RestartIndexTyped
<1>3. /\ writer = c
      /\ \/ mode[c] = "none" /\ readLock[c] = 0 /\ ckpter # c
         \/ mode[c] = "TRUNCATE" /\ readLock[c] = -1 /\ ckpter = c
  BY <1>1 DEF SelfOk, PhaseOk, Reading, Framing, Checkpointing
<1>4. UNCHANGED <<db, log, live, intact, latest, writer, ckpter>> /\ nBackfill' = 0
  BY DEF RestartIndex, files, ghosts, locks
<1>5. /\ Others(c)
      /\ at'[c] = IF mode[c] = "TRUNCATE" THEN "truncate" ELSE "choose"
      /\ readLock'[c] = -1
      /\ hdr'[c] = hdr[c]
      /\ mode'[c] = mode[c] /\ isChanged'[c] = isChanged[c] /\ mxSafe'[c] = mxSafe[c]
      /\ next'[c] = next[c] /\ snap'[c] = snap[c]
      /\ reCksum'[c] = reCksum[c] /\ dirty'[c] = dirty[c]
      /\ todo'[c] = todo[c] /\ iFrame'[c] = iFrame[c] /\ commits'[c] = commits[c] /\ tx'[c] = tx[c]
  BY <1>1, <1>3, RestartIndexEffect
<1>6. live # NoHdr /\ live.salt \in Nat /\ live.mxFrame = 0
  BY <1>1, IndexIsThere DEF SelfOk, CkptOk, Restarting
<1>7. intact /\ \A d \in Conns \ {c} : ~Holds(d) /\ ~Restarting(d)
  BY <1>1, <1>3, OthersRestart DEF SelfOk, Exclusive, Restarting
<1>8. \A q \in Conns \ {c} : ~Copying(q)
  <2>1. CASE readLock[c] = 0
    BY <2>1 DEF IInv, Phases, Exclusive
  <2>2. CASE ckpter = c
    BY <2>2, OthersCopy DEF Copying, Checkpointing
  <2> QED BY <1>3, <2>1, <2>2
<1>9. Calm(c)
  <2>1. \A i \in Slots : ExclusiveIsFree(i, c)
    <3>1. \A i \in Slots : i \in Nat /\ i >= 1
      BY BoundsAssumption DEF Slots
    <3>2. \A d \in Conns \ {c} : ~(readLock[d] >= 1) /\ at[d] # "verify"
      BY <1>7 DEF Holds, IsAt
    <3> QED BY <1>7, <3>1, <3>2 DEF ExclusiveIsFree, SharedIsFree
  <2>2. DbHas(nBackfill' + 1)
    BY <1>4, <1>6, DbHasNone
  <2> QED BY <1>4, <1>5, <1>6, <1>8, <2>1, <2>2 DEF Calm
<1>10. CountersOk(c)'
  BY <1>1, <1>5 DEF SelfOk, CountersOk
<1>11. PhaseOk(c)'
  BY <1>3, <1>4, <1>5 DEF PhaseOk, Reading
<1>12. LogReaderOk(c)' /\ DbReaderOk(c)' /\ VerifyOk(c)' /\ ~Holds(c)'
  BY <1>5, NoReader
<1>13. \A q \in Conns \ {c} : ~IsWriter(q)
  BY <1>3 DEF IsWriter
<1>14. CASE mode[c] = "none"
  <2>1. IsWriter(c) /\ IsWriter(c)' /\ at'[c] = "choose"
    BY <1>1, <1>3, <1>4, <1>5, <1>14 DEF IsWriter
  <2>2. CkptOk(c)' /\ Exclusive(c)'
    BY <1>5, <1>14, NoCheckpoint DEF Checkpointing
  <2>3. snap[c] = latest /\ WriterHdrOk(c) /\ ListOk(c) /\ PagesOk(c) /\ ChecksumsOk(c)
    BY <2>1, WriterIs
  <2>4. Top(c)' = Top(c) /\ OwnFrames(c)' = OwnFrames(c) /\ ~Commits(c)'
    BY <1>1, <1>4, <1>5, <2>1 DEF Top, OwnFrames, InFrames, Commits
  <2>5. WriterHdrOk(c)'
    <3>1. hdr[c] = live
      BY <1>3, <1>14, <2>3 DEF WriterHdrOk
    <3>2. \A d \in Conns \ {c} : hdr'[d] = hdr[d]
      BY <1>5 DEF Others, Same
    <3> QED BY <1>1, <1>4, <1>5, <2>1, <2>3, <3>1, <3>2 DEF WriterHdrOk, SameLog, Reading, InFrames, NoHdr
  <2>6. ListOk(c)'
    BY <1>1, <1>5, <2>1, <2>3 DEF ListOk, Reading, InFrames
  <2>7. PagesOk(c)'
    BY <1>4, <1>5, <2>3, <2>4 DEF PagesOk
  <2>8. ChecksumsOk(c)'
    BY <1>4, <1>5, <2>1, <2>3, <2>4 DEF ChecksumsOk
  <2>9. WriterOk(c)'
    BY <1>4, <1>5, <2>1, <2>3, <2>5, <2>6, <2>7, <2>8 DEF WriterOk
  <2>10. HdrOk(c)'
    BY <1>4, <1>5, <2>1, <2>3, <1>6 DEF HdrOk
  <2>11. SelfOk(c)'
    BY <1>10, <1>11, <1>12, <2>2, <2>9, <2>10 DEF SelfOk
  <2> QED BY <1>2, <1>5, <1>6, <1>9, <1>12, <1>13, <2>11, CalmStep
<1>15. CASE mode[c] = "TRUNCATE"
  <2>1. ~IsWriter(c) /\ ~IsWriter(c)' /\ at'[c] = "truncate"
    BY <1>5, <1>15 DEF IsWriter
  <2>2. Exclusive(c)'
    <3>1. \A d \in Conns \ {c} : ~Holds(d)'
      BY <1>5, <1>7 DEF Holds, IsAt, Others, Same
    <3> QED BY <1>4, <1>7, <2>1, <3>1 DEF Exclusive, Copying
  <2>3. hdr[c] = live
    BY <1>1, <1>15 DEF SelfOk, CkptOk
  <2>4. CkptOk(c)'
    BY <1>4, <1>5, <1>6, <2>1, <2>3 DEF CkptOk, Checkpointing, Copying, Restarting
  <2>5. HdrOk(c)'
    BY <1>1, <1>4, <1>5, <2>1, <2>3, <1>6 DEF SelfOk, HdrOk, KnowsDb, SameLog
  <2>6. WriterOk(c)'
    BY <1>1, <1>5, <2>1, NotWriter DEF SelfOk
  <2>7. SelfOk(c)'
    BY <1>10, <1>11, <1>12, <2>2, <2>4, <2>5, <2>6 DEF SelfOk
  <2> QED BY <1>2, <1>5, <1>6, <1>9, <1>12, <1>13, <2>7, CalmStep
<1> QED BY <1>3, <1>14, <1>15

(* walCheckpoint(): nBackfill counts what was copied. *)
LEMMA CkptDoneStep ==
    ASSUME IInv, NEW c \in Conns, CkptDone(c)
    PROVE  IInv'
<1>1. TypeOK /\ SelfOk(c) /\ at[c] = "ckptDone" /\ NumbersOk
  BY SelfIs, Numbers DEF IInv, CkptDone, IsAt
<1>2. TypeOK'
  BY <1>1, CkptDoneTyped
<1>3. /\ UNCHANGED <<db, log, live, intact, latest, writer, ckpter, aReadMark, hdr, readLock, minFrame, mode,
                     mxSafe, next, isChanged>>
      /\ nBackfill' = mxSafe[c]
  BY DEF CkptDone, index, locks, reading, checkpointing, ghosts
<1>4. Others(c) /\ at'[c] = "ckptEnd"
  BY <1>1, CkptDoneEffect
<1>5. /\ mode[c] # "none" /\ ckpter = c /\ ~IsWriter(c) /\ live # NoHdr
  BY <1>1, CkptPlace DEF Checkpointing
<1>6. /\ SameLog(c) /\ nBackfill < mxSafe[c] /\ \A pg \in Pages : Copied(c, pg)
      /\ mxSafe[c] <= hdr[c].mxFrame /\ hdr[c].mxFrame <= live.mxFrame
      /\ \A d \in Conns : Holds(d) => minFrame[d] <= hdr[c].mxFrame + 1
  BY <1>1, <1>5 DEF SelfOk, CkptOk, HdrOk, Copying, Checkpointing
<1>7. live.mxFrame \in Nat /\ hdr[c].mxFrame \in Nat /\ mxSafe[c] \in Nat /\ nBackfill \in Nat /\ 1 \in Nat \ {0}
  BY <1>1 DEF NumbersOk
<1>8. DbHas(mxSafe[c] + 1)
  <2>1. SUFFICES ASSUME NEW pg \in Pages, Find(log, pg, 1, live.mxFrame) < mxSafe[c] + 1
                 PROVE  db[pg] = latest[pg]
    BY DEF DbHas
  <2> DEFINE j == Find(log, pg, 1, live.mxFrame)
  <2>2. IsLastOf(j, log, pg, 1, live.mxFrame)
    BY <1>7, FindIs
  <2>3. j \in {0} \cup 1..live.mxFrame
    BY <2>2 DEF IsLastOf
  <2>4. CASE j < nBackfill + 1
    BY <2>4, <1>5 DEF IInv, IndexInv, DbHas
  <2>5. CASE ~(j < nBackfill + 1)
    <3>1. j # 0 /\ j > nBackfill /\ j <= mxSafe[c] /\ j \in 1..hdr[c].mxFrame
      BY <1>6, <1>7, <2>1, <2>3, <2>5
    <3>2. IsLastOf(j, log, pg, 1, hdr[c].mxFrame)
      BY <1>6, <1>7, <2>2, <3>1 DEF IsLastOf
    <3>3. Find(log, pg, 1, hdr[c].mxFrame) = j
      BY <1>7, <3>2, FindUnique
    <3>4. db[pg] = log.frame[j].val
      BY <1>6, <3>1, <3>3 DEF Copied
    <3>5. latest[pg] = Content(db, log, pg, 1, live.mxFrame)
      BY <1>5 DEF IInv, IndexInv
    <3> QED BY <3>1, <3>4, <3>5 DEF Content
  <2> QED BY <2>4, <2>5
<1>9. Calm(c)
  <2>1. \A q \in Conns : readLock[q] # 0
    BY <1>1 DEF SelfOk, Exclusive, Copying
  <2>2. mxSafe[c] <= live.mxFrame
    BY <1>6, <1>7
  <2> QED BY <1>3, <1>4, <1>5, <1>8, <2>1, <2>2, OthersCopy DEF Calm
<1>10. CountersOk(c)'
  BY <1>1, <1>3, <1>4, <1>5 DEF SelfOk, CountersOk
<1>11. CkptOk(c)' /\ ~Copying(c)'
  <2>1. \A d \in Conns : Holds(d)' => Holds(d)
    BY <1>3, <1>4 DEF Holds, IsAt, Others, Same
  <2>2. mode[c] = "TRUNCATE" => hdr[c] = live
    BY <1>1 DEF SelfOk, CkptOk
  <2> QED BY <1>3, <1>4, <1>6, <2>1, <2>2 DEF CkptOk, SameLog, Copying, Restarting, Checkpointing
<1> QED BY <1>1, <1>2, <1>3, <1>4, <1>9, <1>10, <1>11, CkptDoneEffect, CkptCalmStep DEF Checkpointing

-----------------------------------------------------------------------------
(* A wal-index that comes to count more frames of the log. *)

Grows ==
    /\ UNCHANGED <<db, log, nBackfill, aReadMark>>
    /\ intact'
    /\ live' # NoHdr /\ live'.salt \in Nat /\ live'.mxFrame \in Nat
    /\ live.mxFrame <= live'.mxFrame
    /\ live'.mxFrame > 0 =>
          /\ live'.salt = log.salt
          /\ Accepted(log, live'.mxFrame) /\ log.frame[live'.mxFrame].commit
    /\ \A pg \in Pages : latest'[pg] = Content(db, log, pg, 1, live'.mxFrame)
    /\ ~RestartGoesOn /\ ~RestartGoesOn'

(* Frames without the page do not change its content. *)
LEMMA ContentLonger ==
    ASSUME NEW l, NEW f, NEW pg, NEW m \in Nat, NEW n \in Nat, m <= n, Find(l, pg, 1, n) <= m
    PROVE  /\ Find(l, pg, 1, n) = Find(l, pg, 1, m)
           /\ Content(f, l, pg, 1, n) = Content(f, l, pg, 1, m)
<1>1. Find(l, pg, m + 1, n) = 0
  BY FindLonger
<1>2. Find(l, pg, 1, n) = Find(l, pg, 1, m)
  BY <1>1, FindLonger
<1> QED BY <1>2 DEF Content

(* What is copied stays copied. *)
LEMMA DbHasGrown ==
    ASSUME IInv, Grows, live # NoHdr, NEW k \in Nat, k <= live.mxFrame + 1, DbHas(k),
           NEW pg \in Pages, Find(log, pg, 1, live'.mxFrame) < k
    PROVE  db[pg] = latest'[pg]
<1>1. live.mxFrame \in Nat /\ live'.mxFrame \in Nat /\ live.mxFrame <= live'.mxFrame /\ 1 \in Nat \ {0}
  BY Numbers DEF IInv, NumbersOk, Grows
<1>2. Find(log, pg, 1, live'.mxFrame) \in Nat
  BY <1>1, FindIs DEF IsLastOf
<1>3. Find(log, pg, 1, live'.mxFrame) <= live.mxFrame
  BY <1>1, <1>2
<1>4. /\ Find(log, pg, 1, live'.mxFrame) = Find(log, pg, 1, live.mxFrame)
      /\ Content(db, log, pg, 1, live'.mxFrame) = Content(db, log, pg, 1, live.mxFrame)
  BY <1>1, <1>3, ContentLonger
<1>5. latest'[pg] = latest[pg]
  BY <1>4 DEF IInv, IndexInv, Grows
<1> QED BY <1>4, <1>5 DEF DbHas

(* The wal-index stays right, *)
LEMMA GrowIndex ==
    ASSUME IInv, Grows
    PROVE  IndexInv'
<1>1. /\ live.mxFrame \in Nat /\ live'.mxFrame \in Nat /\ live.mxFrame <= live'.mxFrame /\ 1 \in Nat \ {0}
      /\ nBackfill \in Nat
  BY Numbers DEF IInv, NumbersOk, Grows
<1>2. nBackfill <= live.mxFrame
  BY DEF IInv, IndexInv, Grows
<1>3. ASSUME NEW pg \in Pages, Find(log, pg, 1, live'.mxFrame) < nBackfill + 1
      PROVE  db[pg] = latest'[pg]
  <2>1. CASE live # NoHdr
    <3>1. DbHas(nBackfill + 1)
      BY <2>1 DEF IInv, IndexInv
    <3> QED BY <1>1, <1>2, <1>3, <2>1, <3>1, DbHasGrown
  <2>2. CASE live = NoHdr
    <3>1. nBackfill = 0
      BY <2>2 DEF IInv, IndexInv, NoIndex
    <3>2. Find(log, pg, 1, live'.mxFrame) \in Nat
      BY <1>1, FindIs DEF IsLastOf
    <3>3. Find(log, pg, 1, live'.mxFrame) = 0
      BY <1>3, <3>1, <3>2
    <3> QED BY <3>3 DEF Grows, Content
  <2> QED BY <2>1, <2>2
<1>4. DbHas(nBackfill + 1)'
  BY <1>3 DEF DbHas, Grows
<1>5. nBackfill' <= live'.mxFrame
  BY <1>1, <1>2 DEF Grows
<1>6. live'.salt # -1 /\ live' # NoHdr'
  BY DEF Grows, NoHdr
<1> QED BY <1>4, <1>5, <1>6 DEF IndexInv, Grows

(* and so do headers and readers, who count no more frames than before. *)
LEMMA GrowOther ==
    ASSUME IInv, TypeOK', Grows, NEW q \in Conns, Same(q), ~IsWriter(q), ~IsWriter(q)',
           live'.salt = live.salt \/ (live.mxFrame = 0 /\ ~SameLog(q)')
    PROVE  HdrOk(q)' /\ LogReaderOk(q)' /\ DbReaderOk(q)' /\ VerifyOk(q)'
<1>1. /\ live.mxFrame \in Nat /\ live'.mxFrame \in Nat /\ live.mxFrame <= live'.mxFrame /\ 1 \in Nat \ {0}
      /\ nBackfill \in Nat /\ hdr[q].mxFrame \in Nat /\ minFrame[q] \in Nat
  BY Numbers DEF IInv, NumbersOk, Grows
<1>2. /\ hdr'[q] = hdr[q] /\ readLock'[q] = readLock[q] /\ snap'[q] = snap[q] /\ at'[q] = at[q]
      /\ minFrame'[q] = minFrame[q] /\ KnowsDb(q)' = KnowsDb(q)
      /\ db' = db /\ log' = log /\ nBackfill' = nBackfill /\ aReadMark' = aReadMark
  BY DEF Same, Grows, KnowsDb
<1>3. HdrOk(q) /\ LogReaderOk(q) /\ DbReaderOk(q) /\ VerifyOk(q)
  BY DEF IInv, Headers, Readers
<1>4. live = NoHdr => hdr[q] = NoHdr /\ readLock[q] = -1 /\ at[q] # "verify"
  BY DEF IInv, IndexInv, NoIndex
<1>5. SameLog(q)' => live # NoHdr /\ SameLog(q) /\ live'.salt = live.salt
  BY <1>2, <1>4 DEF SameLog, Grows, NoHdr
<1>6. ASSUME live # NoHdr, live.mxFrame = live'.mxFrame
      PROVE  latest' = latest
  <2>1. \A pg \in Pages : latest'[pg] = latest[pg]
    BY <1>6 DEF IInv, IndexInv, Grows
  <2>2. latest \in [Pages -> Contents] /\ latest' = [pg \in Pages |-> latest'[pg]]
    BY DEF IInv, TypeOK
  <2> QED BY <2>1, <2>2
<1>7. HdrOk(q)'
  <2>1. SameLog(q)' => hdr[q].mxFrame <= live.mxFrame /\ hdr[q].mxFrame <= live'.mxFrame
    BY <1>1, <1>3, <1>5 DEF HdrOk
  <2>2. SameLog(q)' /\ KnowsDb(q) /\ hdr[q].mxFrame = live'.mxFrame => snap[q] = latest'
    <3>1. SameLog(q)' /\ hdr[q].mxFrame = live'.mxFrame => live.mxFrame = live'.mxFrame
      BY <1>1, <2>1
    <3> QED BY <1>3, <1>5, <1>6, <3>1 DEF HdrOk
  <2> QED BY <1>2, <2>1, <2>2 DEF HdrOk, Grows
<1>8. LogReaderOk(q)'
  <2>1. Base(q) = hdr[q].mxFrame /\ Base(q)' = hdr[q].mxFrame
    BY <1>2 DEF Base
  <2> QED BY <1>1, <1>2, <1>3, <2>1 DEF LogReaderOk
<1>9. DbReaderOk(q)'
  <2>1. SameLog(q)' /\ hdr[q].mxFrame = live'.mxFrame => SameLog(q) /\ live.mxFrame = live'.mxFrame
    BY <1>1, <1>3, <1>5 DEF HdrOk
  <2> QED BY <1>2, <1>3, <2>1 DEF DbReaderOk, Grows
<1>10. VerifyOk(q)'
  <2>1. SUFFICES ASSUME at[q] = "verify" PROVE VerifyOk(q)'
    BY <1>2 DEF VerifyOk
  <2>2. live # NoHdr /\ minFrame[q] <= live.mxFrame + 1 /\ DbHas(minFrame[q])
    BY <1>3, <1>4, <2>1 DEF VerifyOk
  <2>3. \A pg \in Pages : Find(log, pg, 1, live'.mxFrame) < minFrame[q] => db[pg] = latest'[pg]
    BY <1>1, <2>2, DbHasGrown
  <2>4. minFrame[q] <= live'.mxFrame + 1
    BY <1>1, <2>2
  <2> QED BY <1>2, <2>3, <2>4 DEF VerifyOk, DbHas
<1> QED BY <1>7, <1>8, <1>9, <1>10

(* walIndexRecover(): the frames up to the last commit are counted. *)
LEMMA RecoverHdrStep ==
    ASSUME IInv, NEW c \in Conns, RecoverHdr(c)
    PROVE  IInv'
<1> DEFINE n == LastCommit(log)
<1>1. TypeOK /\ SelfOk(c) /\ ~intact /\ Free(writer, c) /\ Free(ckpter, c) /\ NumbersOk
  BY SelfIs, Numbers DEF IInv, RecoverHdr
<1>2. TypeOK'
  BY <1>1, RecoverHdrTyped
<1>3. /\ readLock[c] = -1 /\ at[c] \in {"idle", "readHdr", "ckptHdr"}
      /\ (mode[c] = "none" => writer # c /\ at[c] # "ckptHdr")
      /\ (mode[c] # "none" => at[c] = "ckptHdr")
      /\ (mode[c] = "TRUNCATE" => writer = c)
      /\ mode[c] \in {"none", "PASSIVE", "TRUNCATE"}
  BY <1>1 DEF RecoverHdr, ReadsHdr, Idle, IsAt, SelfOk, PhaseOk, Reading, Framing, Checkpointing
<1>4. /\ UNCHANGED <<db, log, nBackfill, aReadMark>> /\ intact' = TRUE
      /\ writer' = c /\ ckpter' = c
      /\ live' = [salt |-> log.salt, mxFrame |-> n, iChange |-> 0]
      /\ latest' = Recovered(db, log)
  BY DEF RecoverHdr, files
<1>5. /\ Others(c) /\ hdr'[c] = live' /\ isChanged'[c] = (mode[c] # "none") /\ at'[c] = "recoverReset"
      /\ readLock'[c] = -1 /\ mode'[c] = mode[c] /\ mxSafe'[c] = mxSafe[c] /\ next'[c] = next[c]
      /\ reCksum'[c] = reCksum[c] /\ dirty'[c] = dirty[c] /\ todo'[c] = todo[c]
      /\ iFrame'[c] = iFrame[c] /\ commits'[c] = commits[c] /\ tx'[c] = tx[c]
  BY <1>1, <1>3, RecoverHdrEffect
<1>6. \A q \in Conns \ {c} : /\ writer # q /\ ckpter # q /\ ~IsWriter(q) /\ mode[q] = "none"
                             /\ at[q] \notin Checkpointing \cup {"recoverReset", "restartIndex", "truncate"}
  <2>1. \A q \in Conns \ {c} : writer # q /\ ckpter # q
    BY <1>1, BoundsAssumption DEF Free
  <2> QED BY <2>1 DEF IInv, Phases, PhaseOk, IsWriter, Reading, Framing, Checkpointing
<1>7. \A q \in Conns \ {c} : Same(q) /\ writer' # q /\ ckpter' # q /\ ~IsWriter(q)'
  BY <1>4, <1>5 DEF Others, IsWriter
<1>8. ~RestartGoesOn /\ ~RestartGoesOn'
  <2>1. \A q \in Conns \ {c} : at'[q] # "restartIndex"
    BY <1>6, <1>7 DEF Same
  <2> QED BY <1>3, <1>5, <1>6, <2>1 DEF RestartGoesOn
<1>9. live.mxFrame > 0 => live.salt = log.salt /\ live.mxFrame <= n
  <2>1. live.mxFrame > 0 => live.mxFrame \in Frames
    BY <1>1, FrameNumbers DEF NumbersOk
  <2> QED BY <2>1, LastCommitIs DEF IInv, IndexInv
<1>10. Grows
  <2>1. n \in 0..MaxFrame /\ (n # 0 => Accepted(log, n) /\ log.frame[n].commit)
    BY LastCommitIs
  <2>2. n \in Nat /\ log.salt \in Nat /\ live.mxFrame \in Nat
    BY <1>1, <2>1, FrameNumbers DEF NumbersOk, TypeOK, Log
  <2> HIDE DEF n
  <2>3. live'.salt = log.salt /\ live'.mxFrame = n
    BY <1>4
  <2>4. live' # NoHdr
    BY <2>2, <2>3 DEF NoHdr
  <2>5. live.mxFrame <= live'.mxFrame
    BY <1>9, <2>2, <2>3
  <2>6. \A pg \in Pages : latest'[pg] = Content(db, log, pg, 1, n)
    BY <1>4 DEF Recovered, n
  <2> QED BY <1>4, <1>8, <2>1, <2>2, <2>3, <2>4, <2>5, <2>6 DEF Grows
<1>11. ASSUME NEW q \in Conns \ {c}
       PROVE  live'.salt = live.salt \/ (live.mxFrame = 0 /\ ~SameLog(q)')
  <2>1. hdr'[q] = hdr[q] /\ live'.salt = log.salt /\ live.mxFrame \in Nat
    BY <1>1, <1>4, <1>7 DEF Same, NumbersOk
  <2>2. CASE live.salt # log.salt
    <3>1. hdr[q].salt # log.salt
      BY <1>1, <1>6, <2>2 DEF IInv, Headers, HdrOk
    <3> QED BY <1>9, <2>1, <2>2, <3>1 DEF SameLog
  <2> QED BY <2>1, <2>2
<1>12. ASSUME NEW q \in Conns \ {c} PROVE SelfOk(q)'
  <2>1. Same(q) /\ SelfOk(q)
    BY <1>7, SelfIs
  <2>2. PhaseOk(q)' /\ CountersOk(q)'
    BY <2>1, PhaseKeep DEF SelfOk
  <2>3. CkptOk(q)' /\ Exclusive(q)'
    BY <1>6, <2>1, NoCheckpoint DEF Same
  <2>4. HdrOk(q)' /\ LogReaderOk(q)' /\ DbReaderOk(q)' /\ VerifyOk(q)'
    BY <1>2, <1>6, <1>7, <1>10, <1>11, GrowOther
  <2>5. WriterOk(q)'
    BY <1>6, <1>7, <2>1, NotWriter DEF SelfOk, Same
  <2> QED BY <2>2, <2>3, <2>4, <2>5 DEF SelfOk
<1>13. SelfOk(c)'
  <2>1. PhaseOk(c)'
    BY <1>3, <1>4, <1>5 DEF PhaseOk
  <2>2. CountersOk(c)'
    <3>1. next[c] = 1 /\ mxSafe[c] = 0
      BY <1>1, <1>3 DEF SelfOk, CountersOk
    <3> QED BY <1>5, <3>1 DEF CountersOk
  <2>3. Exclusive(c)'
    BY <1>5 DEF Exclusive, Copying, Restarting
  <2>4. HdrOk(c)'
    <3>1. live'.mxFrame \in Nat
      BY <1>10 DEF Grows
    <3>2. ~KnowsDb(c)'
      BY <1>5 DEF KnowsDb
    <3> QED BY <1>4, <1>5, <3>1, <3>2 DEF HdrOk
  <2>5. LogReaderOk(c)' /\ DbReaderOk(c)' /\ VerifyOk(c)'
    BY <1>5, NoReader
  <2>6. CkptOk(c)'
    BY <1>5 DEF CkptOk, Checkpointing, Copying, Restarting
  <2>7. ~IsWriter(c) /\ ~IsWriter(c)'
    BY <1>3, <1>5 DEF IsWriter
  <2>8. WriterOk(c)'
    BY <1>1, <1>5, <2>7, NotWriter DEF SelfOk
  <2> QED BY <2>1, <2>2, <2>3, <2>4, <2>5, <2>6, <2>8 DEF SelfOk
<1>14. IndexInv'
  BY <1>10, GrowIndex
<1> QED BY <1>2, <1>12, <1>13, <1>14 DEF IInv, SelfOk, Phases, Headers, Readers, Checkpoints, WriteInv

(* The commit of a writer. *)
LEMMA CommittedStep ==
    ASSUME IInv, NEW c \in Conns, Publish(c), commits[c]
    PROVE  IInv'
<1> DEFINE n == iFrame[c]
           m == live.mxFrame
<1>1. TypeOK /\ SelfOk(c) /\ at[c] = "publish"
  BY SelfIs DEF IInv, Publish, IsAt
<1>2. TypeOK' /\ NumbersOk'
  BY <1>1, PublishTyped, NumbersNext
<1>3. writer = c
  BY <1>1 DEF SelfOk, PhaseOk, Reading, Framing, Checkpointing
<1>4. /\ IsWriter(c) /\ mode[c] = "none" /\ readLock[c] \in Nat /\ readLock[c] >= 1 /\ ckpter # c
  BY <1>1, <1>3, WriterPlace DEF Framing
<1>5. /\ snap[c] = latest /\ WriterHdrOk(c) /\ ListOk(c) /\ PagesOk(c) /\ ChecksumsOk(c)
      /\ hdr[c].salt \in Nat /\ n \in Nat /\ m \in Nat /\ n <= MaxFrame
      /\ \A q \in Conns \ {c} : ~IsWriter(q)
  BY <1>4, WriterIs
<1>6. /\ UNCHANGED <<db, log, nBackfill, ckpter, aReadMark, readLock, mode, minFrame, mxSafe, next, isChanged, reCksum, dirty, todo>>
      /\ latest' = [pg \in Pages |-> Content(db, log, pg, 1, n)]
  BY DEF Publish, files, reading, checkpointing
<1>7. /\ Others(c) /\ hdr'[c].salt = hdr[c].salt /\ hdr'[c].mxFrame = n /\ at'[c] = "idle"
      /\ iFrame'[c] = 0 /\ commits'[c] = FALSE /\ tx'[c] = Unchanged
      /\ live' = hdr'[c] /\ intact' = TRUE /\ snap'[c] = latest' /\ writer' = None
  BY <1>1, <1>3, PublishEffect
<1>8. /\ log.salt = hdr[c].salt /\ log.salt # 0 /\ n > m /\ log.frame[n].commit
      /\ reCksum[c] = 0 /\ dirty[c] = {} /\ todo[c] = {}
      /\ \A k \in m + 1..n : log.frame[k].salt = log.salt /\ log.frame[k].sum = Sum(log, k)
      /\ ~SameLog(c) => m = 0 /\ \A d \in Conns \ {c} : hdr[d].salt # hdr[c].salt
  <2>1. log.salt = hdr[c].salt /\ log.salt # 0
    BY <1>1, <1>5 DEF WriterHdrOk, InFrames
  <2>2. n > m /\ log.frame[n].commit /\ reCksum[c] = 0
    BY <1>1, <1>5 DEF ChecksumsOk, Commits
  <2>3. OwnFrames(c) = m + 1..n
    BY <1>1 DEF OwnFrames, Top, InFrames
  <2>4. \A k \in m + 1..n : log.frame[k].salt = log.salt /\ log.frame[k].sum = Sum(log, k)
    BY <1>5, <2>2, <2>3 DEF ChecksumsOk
  <2>5. dirty[c] = {} /\ todo[c] = {}
    BY <1>1, <1>5 DEF ListOk
  <2>6. ~SameLog(c) => m = 0 /\ \A d \in Conns \ {c} : hdr[d].salt # hdr[c].salt
    BY <1>5 DEF WriterHdrOk
  <2> QED BY <2>1, <2>2, <2>4, <2>5, <2>6
<1>9. Accepted(log, n)
  <2>1. \A k \in 1..n : k \in 1..m \/ k \in m + 1..n
    BY <1>5
  <2>2. \A k \in 1..m : log.frame[k].salt = log.salt /\ log.salt # 0 /\ log.frame[k].sum = Sum(log, k)
    <3>1. m > 0 => Accepted(log, m)
      BY DEF IInv, IndexInv
    <3>2. m > 0 \/ 1..m = {}
      BY <1>5
    <3> QED BY <3>1, <3>2 DEF Accepted
  <2> QED BY <1>8, <2>1, <2>2 DEF Accepted
<1>10. ~RestartGoesOn /\ ~RestartGoesOn'
  <2>1. \A q \in Conns \ {c} : at[q] # "restartIndex" /\ at'[q] = at[q]
    BY <1>3, <1>7, OthersRestart DEF Restarting, Others, Same
  <2> QED BY <1>1, <1>7, <2>1 DEF RestartGoesOn
<1>11. live'.salt = log.salt /\ live'.mxFrame = n /\ live' # NoHdr /\ live'.salt \in Nat
  BY <1>5, <1>7, <1>8 DEF NoHdr
<1>12. Grows
  <2>1. live'.mxFrame \in Nat /\ live.mxFrame <= live'.mxFrame
    BY <1>5, <1>8, <1>11
  <2>2. \A pg \in Pages : latest'[pg] = Content(db, log, pg, 1, live'.mxFrame)
    BY <1>6, <1>11
  <2> QED BY <1>6, <1>7, <1>8, <1>9, <1>10, <1>11, <2>1, <2>2 DEF Grows
<1>13. ASSUME NEW q \in Conns \ {c} PROVE SelfOk(q)'
  <2>1. Same(q) /\ SelfOk(q) /\ ~IsWriter(q)
    BY <1>5, <1>7, SelfIs DEF Others
  <2>2. ~IsWriter(q)'
    BY <1>7, <2>1, BoundsAssumption DEF IsWriter, Same
  <2>3. PhaseOk(q)' /\ CountersOk(q)'
    BY <2>1, PhaseKeep DEF SelfOk
  <2>4. Holds(c)' /\ Holds(c) /\ ~Restarting(q)
    BY <1>3, <1>4, <1>6, OthersRestart DEF Holds
  <2>5. Exclusive(q)'
    <3>1. readLock'[c] # 0
      BY <1>4, <1>6
    <3> QED BY <1>7, <2>1, <2>4, <3>1, ExclusiveKeep DEF SelfOk
  <2>6. live'.salt = live.salt \/ (m = 0 /\ ~SameLog(q)')
    BY <1>7, <1>8, <2>1 DEF SameLog, Same
  <2>7. HdrOk(q)' /\ LogReaderOk(q)' /\ DbReaderOk(q)' /\ VerifyOk(q)'
    BY <1>2, <1>12, <2>1, <2>2, <2>6, GrowOther
  <2>8. WriterOk(q)'
    BY <2>1, <2>2, NotWriter DEF SelfOk, Same
  <2>9. CkptOk(q)'
    <3>1. CkptOk(q) /\ HdrOk(q)
      BY <2>1 DEF SelfOk
    <3>2. /\ writer # q /\ ~Restarting(q) /\ at[q] # "recoverReset" /\ mode[q] # "TRUNCATE"
          /\ at'[q] = at[q] /\ hdr'[q] = hdr[q] /\ mxSafe'[q] = mxSafe[q] /\ next'[q] = next[q] /\ mode'[q] = mode[q]
          /\ Copying(q)' = Copying(q) /\ Restarting(q)' = Restarting(q)
          /\ \A i : Passed(q, i)' = Passed(q, i)
      BY <1>3, <2>1, <2>4 DEF SelfOk, PhaseOk, Reading, Framing, Checkpointing, Same, Copying, Restarting,
                              Passed
    <3>3. \A d \in Conns : /\ Holds(d)' => Holds(d) /\ minFrame'[d] = minFrame[d]
                           /\ readLock'[d] = readLock[d] /\ Base(d)' >= Base(d)
      <4>1. \A d \in Conns \ {c} : Holds(d)' = Holds(d) /\ Base(d)' = Base(d) /\ Base(d) \in Nat
        <5>1. \A d \in Conns \ {c} : Same(d) /\ ~IsWriter(d) /\ hdr[d].mxFrame \in Nat
          BY <1>1, <1>5, <1>7, Numbers DEF Others, NumbersOk
        <5>2. \A d \in Conns \ {c} : ~IsWriter(d)'
          BY <1>7, BoundsAssumption DEF IsWriter
        <5> QED BY <5>1, <5>2 DEF Same, Holds, IsAt, Base
      <4>2. Base(c) = m /\ Base(c)' = n
        BY <1>4, <1>7, BoundsAssumption DEF Base, IsWriter
      <4> QED BY <1>5, <1>6, <1>8, <2>4, <4>1, <4>2
    <3>4. SameLog(q)' => SameLog(q)
      BY <1>7, <1>8, <3>2 DEF SameLog
    <3>5. at[q] \in Checkpointing /\ SameLog(q)' =>
              /\ nBackfill <= hdr[q].mxFrame
              /\ \A d \in Conns : Holds(d) => minFrame[d] <= hdr[q].mxFrame + 1
              /\ at[q] # "ckptEnd" =>
                    /\ mxSafe[q] <= hdr[q].mxFrame
                    /\ \A d \in Conns : readLock[d] >= 1 /\ Passed(q, readLock[d]) => mxSafe[q] <= Base(d)
      BY <1>10, <3>1, <3>4 DEF CkptOk
    <3>6. mxSafe[q] \in Nat /\ \A d \in Conns : Base(d) \in Nat /\ Base(d)' \in Nat
      BY <1>1, <1>2, Numbers DEF NumbersOk, Base
    <3>7. at'[q] \in Checkpointing /\ SameLog(q)' =>
              /\ nBackfill' <= hdr'[q].mxFrame \/ RestartGoesOn'
              /\ \A d \in Conns : Holds(d)' => minFrame'[d] <= hdr'[q].mxFrame + 1
              /\ at'[q] # "ckptEnd" =>
                    /\ mxSafe'[q] <= hdr'[q].mxFrame
                    /\ \A d \in Conns : readLock'[d] >= 1 /\ Passed(q, readLock[d])' => mxSafe'[q] <= Base(d)'
      <4>1. ASSUME at[q] \in Checkpointing, SameLog(q)', at[q] # "ckptEnd",
                   NEW d \in Conns, readLock'[d] >= 1, Passed(q, readLock[d])'
            PROVE  mxSafe[q] <= Base(d)'
        <5>1. readLock[d] >= 1 /\ Passed(q, readLock[d])
          BY <3>2, <3>3, <4>1 DEF Passed
        <5>2. mxSafe[q] <= Base(d)
          BY <3>5, <4>1, <5>1
        <5> QED BY <3>3, <3>6, <5>2
      <4>2. at[q] \in Checkpointing /\ SameLog(q)' => \A d \in Conns : Holds(d)' => minFrame'[d] <= hdr'[q].mxFrame + 1
        BY <3>2, <3>3, <3>5
      <4> QED BY <1>6, <3>2, <3>5, <4>1, <4>2
    <3>8. Copying(q)' => /\ SameLog(q)' /\ nBackfill' < mxSafe'[q]
                         /\ \A pg \in Pages : at'[q] = "ckptDone" \/ pg < next'[q] => Copied(q, pg)'
      <4>1. Copying(q) => SameLog(q) /\ nBackfill < mxSafe[q] /\ mxSafe[q] <= hdr[q].mxFrame /\ hdr[q].mxFrame <= m
        BY <2>1, <3>1 DEF CkptOk, HdrOk, Copying, Checkpointing
      <4>2. Copying(q) => m # 0
        <5>1. nBackfill \in Nat /\ mxSafe[q] \in Nat /\ hdr[q].mxFrame \in Nat
          BY <1>1, Numbers DEF NumbersOk
        <5> QED BY <1>5, <4>1, <5>1
      <4>3. Copying(q) => SameLog(q)'
        BY <1>7, <1>8, <3>2, <4>1, <4>2 DEF SameLog
      <4> QED BY <1>6, <3>1, <3>2, <4>1, <4>3 DEF CkptOk, Copied
    <3> QED BY <3>2, <3>7, <3>8 DEF CkptOk, Restarting
  <2> QED BY <2>3, <2>5, <2>7, <2>8, <2>9 DEF SelfOk
<1>14. SelfOk(c)'
  <2>1. PhaseOk(c)'
    BY <1>4, <1>6, <1>7, BoundsAssumption DEF PhaseOk
  <2>2. CountersOk(c)'
    BY <1>1, <1>4, <1>6, <1>7 DEF SelfOk, CountersOk
  <2>3. CkptOk(c)' /\ Exclusive(c)'
    BY <1>4, <1>6, <1>7, NoCheckpoint DEF Checkpointing
  <2>4. ~IsWriter(c)'
    BY <1>7, BoundsAssumption DEF IsWriter
  <2>5. HdrOk(c)'
    BY <1>5, <1>7, <1>11 DEF HdrOk
  <2>6. LogReaderOk(c)'
    <3>1. Base(c) = m /\ Base(c)' = n
      BY <1>4, <1>7, <2>4 DEF Base
    <3>2. LogReaderOk(c) /\ minFrame[c] \in Nat
      BY <1>1, Numbers DEF SelfOk, NumbersOk
    <3>3. aReadMark[readLock[c]] <= m /\ aReadMark[readLock[c]] \in Nat /\ minFrame[c] <= m + 1
      <4>1. readLock[c] \in Slots
        BY <1>1, <1>4, Numbers DEF NumbersOk
      <4> QED BY <1>1, <1>4, <3>1, <3>2, <4>1, Numbers DEF LogReaderOk, NumbersOk
    <3>4. ASSUME NEW pg \in Pages, Find(log, pg, 1, n) < minFrame[c]
          PROVE  db[pg] = latest'[pg]
      <4>1. Find(log, pg, 1, n) \in Nat
        <5>1. n \in Nat /\ 1 \in Nat \ {0}
          BY <1>5
        <5> HIDE DEF n
        <5>2. Find(log, pg, 1, n) \in {0} \cup 1..n
          BY <5>1, FindIs DEF IsLastOf
        <5> QED BY <5>1, <5>2
      <4>2. Find(log, pg, 1, n) <= m
        BY <1>5, <3>2, <3>3, <3>4, <4>1
      <4>3. /\ Find(log, pg, 1, n) = Find(log, pg, 1, m)
            /\ Content(db, log, pg, 1, n) = Content(db, log, pg, 1, m)
        <5>1. n \in Nat /\ m \in Nat /\ m <= n
          BY <1>5, <1>8
        <5> HIDE DEF n, m
        <5> QED BY <4>2, <5>1, ContentLonger
      <4>4. db[pg] = snap[c][pg] /\ snap[c][pg] = Content(db, log, pg, 1, m)
        BY <1>4, <3>1, <3>2, <3>4, <4>3 DEF LogReaderOk
      <4> QED BY <1>6, <4>3, <4>4
    <3>5. n <= n /\ minFrame[c] <= n + 1 /\ aReadMark[readLock[c]] <= n
      BY <1>5, <1>8, <3>2, <3>3
    <3> HIDE DEF n, m
    <3>6. \A pg \in Pages : /\ snap'[c][pg] = Content(db, log, pg, 1, n)
                            /\ Find(log, pg, 1, n) < minFrame[c] => db[pg] = snap'[c][pg]
      BY <1>6, <1>7, <3>4
    <3> QED BY <1>6, <1>11, <3>1, <3>5, <3>6 DEF LogReaderOk
  <2>7. DbReaderOk(c)' /\ VerifyOk(c)'
    BY <1>4, <1>6, <1>7 DEF DbReaderOk, VerifyOk
  <2>8. WriterOk(c)'
    BY <1>6, <1>7, <1>8, <2>4 DEF WriterOk, Unchanged
  <2> QED BY <2>1, <2>2, <2>3, <2>5, <2>6, <2>7, <2>8 DEF SelfOk
<1>15. IndexInv'
  BY <1>12, GrowIndex
<1> QED BY <1>2, <1>13, <1>14, <1>15 DEF IInv, SelfOk, Phases, Headers, Readers, Checkpoints, WriteInv

-----------------------------------------------------------------------------
(* The log starts anew. *)

(* Everything is copied: the database file is the database. *)
LEMMA DbIsLatest ==
    ASSUME IInv, live # NoHdr, nBackfill = live.mxFrame
    PROVE  db = latest
<1>1. live.mxFrame \in Nat /\ 1 \in Nat \ {0}
  BY Numbers DEF IInv, NumbersOk
<1>2. ASSUME NEW pg \in Pages PROVE db[pg] = latest[pg]
  <2>1. Find(log, pg, 1, live.mxFrame) \in {0} \cup 1..live.mxFrame
    BY <1>1, FindIs DEF IsLastOf
  <2>2. Find(log, pg, 1, live.mxFrame) < nBackfill + 1
    BY <1>1, <2>1
  <2> QED BY <2>2 DEF IInv, IndexInv, DbHas
<1>3. db \in [Pages -> Contents] /\ latest \in [Pages -> Contents]
  BY DEF IInv, TypeOK
<1> QED BY <1>2, <1>3

(* walRestartLog(): no other connection reads the log. *)
LEMMA Unused ==
    ASSUME IInv, NEW c \in Conns, LogIsUnused(c)
    PROVE  \A q \in Conns \ {c} : ~Holds(q) /\ ~Restarting(q)
<1>1. \A i \in Slots : ExclusiveIsFree(i, c) /\ i # 0
  BY BoundsAssumption DEF LogIsUnused, Slots
<1>2. \A q \in Conns : /\ readLock[q] >= 1 => readLock[q] \in Slots
                       /\ at[q] = "verify" => slot[q].i \in Slots
  BY Numbers DEF IInv, NumbersOk, Phases, CountersOk
<1>3. 1 \in Slots
  BY BoundsAssumption DEF Slots
<1> QED BY <1>1, <1>2, <1>3 DEF ExclusiveIsFree, SharedIsFree, Holds, IsAt

(* The header of the new log, in the wal-index and of connection c. *)
RestartedBy(c) ==
    /\ UNCHANGED <<db, log, nBackfill, latest, writer, ckpter>>
    /\ intact' /\ live'.mxFrame = 0 /\ live'.salt = FreshSalt
    /\ Others(c) /\ hdr'[c] = live' /\ at'[c] = "restartIndex"
    /\ readLock'[c] = readLock[c] /\ snap'[c] = snap[c] /\ mode'[c] = mode[c]
    /\ isChanged'[c] = isChanged[c] /\ mxSafe'[c] = mxSafe[c] /\ next'[c] = next[c]
    /\ reCksum'[c] = reCksum[c] /\ dirty'[c] = dirty[c] /\ todo'[c] = todo[c]
    /\ commits'[c] = commits[c] /\ tx'[c] = tx[c]

(* The wal-index of an empty log is right, *)
LEMMA RestartIndexInv ==
    ASSUME IInv, NEW c \in Conns, RestartedBy(c), db = latest
    PROVE  IndexInv' /\ live' # NoHdr /\ live'.salt \in Nat
<1>1. FreshSalt \in Nat
  BY FreshSaltIs DEF IInv
<1>2. live'.salt # -1 /\ live' # NoHdr /\ live' # NoHdr'
  BY <1>1 DEF RestartedBy, NoHdr
<1>3. RestartGoesOn'
  BY DEF RestartedBy, RestartGoesOn
<1>4. \A pg \in Pages : Content(db, log, pg, 1, 0) = db[pg]
  <2>1. 0 \in Nat /\ 1 \in Nat \ {0} /\ 1..0 = {}
    OBVIOUS
  <2>2. \A pg \in Pages : Find(log, pg, 1, 0) = 0
    BY <2>1, FindIs DEF IsLastOf
  <2> QED BY <2>2 DEF Content
<1>5. DbHas(nBackfill + 1)'
  BY DEF RestartedBy, DbHas
<1> QED BY <1>1, <1>2, <1>3, <1>4, <1>5 DEF IndexInv, RestartedBy

(* and the others keep headers of the old salt. *)
LEMMA RestartOther ==
    ASSUME IInv, NEW c \in Conns, NEW q \in Conns \ {c}, RestartedBy(c), writer = c,
           ~Holds(q), ~Holds(c)', ~Restarting(q), ~Copying(q), readLock[c] # 0 \/ ~Copying(q)
    PROVE  SelfOk(q)'
<1>1. Same(q) /\ SelfOk(q) /\ Others(c)
  BY SelfIs DEF RestartedBy, Others
<1>2. PhaseOk(q)' /\ CountersOk(q)'
  BY <1>1, PhaseKeep DEF SelfOk
<1>3. Exclusive(q)' /\ ~Copying(q)' /\ ~Restarting(q)'
  BY <1>1 DEF Same, Exclusive, Copying, Restarting
<1>4. ~SameLog(q)'
  BY <1>1, FreshSaltIs DEF IInv, SameLog, RestartedBy, Same
<1>5. HdrOk(q)'
  BY <1>4 DEF HdrOk, RestartedBy
<1>6. LogReaderOk(q)' /\ VerifyOk(q)'
  BY <1>1 DEF Holds, IsAt, LogReaderOk, VerifyOk, Same
<1>7. DbReaderOk(q)'
  BY <1>1, <1>4 DEF SelfOk, DbReaderOk, Same, RestartedBy
<1>8. /\ mode[q] # "TRUNCATE" /\ at[q] # "recoverReset" /\ at[q] # "truncate" /\ ~IsWriter(q) /\ ~IsWriter(q)'
  BY <1>1 DEF SelfOk, PhaseOk, Reading, Framing, Checkpointing, IsWriter, RestartedBy
<1>9. CkptOk(q)'
  BY <1>1, <1>3, <1>4, <1>8 DEF CkptOk, Same
<1>10. WriterOk(q)'
  BY <1>1, <1>8, NotWriter DEF SelfOk, Same
<1> QED BY <1>2, <1>3, <1>5, <1>6, <1>7, <1>9, <1>10 DEF SelfOk

(* walRestartLog(): a writer starts the log anew. *)
LEMMA RestartStep ==
    ASSUME IInv, NEW c \in Conns, Restart(c)
    PROVE  IInv'
<1>1. TypeOK /\ SelfOk(c) /\ at[c] = "restart" /\ nBackfill > 0 /\ LogIsUnused(c)
  BY SelfIs DEF IInv, Restart, IsAt
<1>2. TypeOK'
  BY <1>1, RestartTyped
<1>3. /\ writer = c /\ mode[c] = "none" /\ readLock[c] = 0 /\ ckpter # c /\ IsWriter(c)
  BY <1>1 DEF SelfOk, PhaseOk, Reading, Framing, Checkpointing, IsWriter
<1>4. /\ snap[c] = latest /\ WriterHdrOk(c) /\ ListOk(c) /\ PagesOk(c) /\ ChecksumsOk(c)
      /\ live # NoHdr /\ live.mxFrame \in Nat
  BY <1>3, WriterIs
<1>5. hdr[c] = live
  BY <1>3, <1>4 DEF WriterHdrOk
<1>6. RestartedBy(c) /\ iFrame'[c] = 0
  <2>1. UNCHANGED <<db, log, nBackfill, latest, writer, ckpter>> /\ RestartHdr(c)
    BY DEF Restart, files, locks, ghosts
  <2>2. intact' /\ live'.mxFrame = 0 /\ live'.salt = FreshSalt
    <3>1. live' = [salt |-> FreshSalt, mxFrame |-> 0, iChange |-> hdr[c].iChange] /\ intact' = TRUE
      BY <1>1, <2>1, RestartHdrIs
    <3>2. live'.mxFrame = 0 /\ live'.salt = FreshSalt
      BY <3>1
    <3>3. intact'
      BY <3>1, Zenon
    <3> QED BY <3>2, <3>3
  <2> QED BY <1>1, <2>1, <2>2, RestartEffect DEF RestartedBy
<1>7. \A q \in Conns \ {c} : ~Holds(q) /\ ~Restarting(q) /\ ~Copying(q)
  BY <1>1, <1>3, Unused DEF IInv, Phases, Exclusive
<1>8. db = latest
  <2>1. ~RestartGoesOn
    BY <1>1, <1>7 DEF RestartGoesOn, Restarting
  <2>2. nBackfill \in {0, live.mxFrame}
    BY <1>1, <1>3, <1>5, <2>1 DEF SelfOk, DbReaderOk, SameLog
  <2> QED BY <1>1, <1>4, <2>2, DbIsLatest
<1>9. IndexInv' /\ live' # NoHdr /\ live'.salt \in Nat
  BY <1>6, <1>8, RestartIndexInv
<1>10. ~Holds(c)'
  BY <1>3, <1>6 DEF RestartedBy, Holds, IsAt
<1>11. \A q \in Conns \ {c} : SelfOk(q)'
  BY <1>3, <1>6, <1>7, <1>10, RestartOther
<1>12. SelfOk(c)'
  <2>1. PhaseOk(c)'
    BY <1>3, <1>6 DEF PhaseOk, RestartedBy
  <2>2. CountersOk(c)'
    BY <1>1, <1>6 DEF SelfOk, CountersOk, RestartedBy
  <2>3. Exclusive(c)'
    <3>1. \A d \in Conns \ {c} : ~Holds(d)'
      BY <1>6, <1>7 DEF RestartedBy, Others, Same, Holds, IsAt
    <3> QED BY <1>6, <3>1 DEF Exclusive, Copying, RestartedBy
  <2>4. HdrOk(c)'
    <3>1. ~KnowsDb(c)' /\ IsWriter(c)' /\ intact'
      BY <1>3, <1>6 DEF KnowsDb, IsWriter, RestartedBy
    <3> QED BY <3>1 DEF HdrOk
  <2>5. LogReaderOk(c)' /\ VerifyOk(c)'
    BY <1>3, <1>6 DEF LogReaderOk, VerifyOk, RestartedBy
  <2>6. DbReaderOk(c)'
    <3>1. RestartGoesOn'
      BY <1>6 DEF RestartGoesOn, RestartedBy
    <3> QED BY <1>1, <1>6, <3>1 DEF SelfOk, DbReaderOk, RestartedBy
  <2>7. CkptOk(c)'
    BY <1>3, <1>6 DEF CkptOk, Checkpointing, Copying, RestartedBy
  <2>8. Top(c)' = 0 /\ OwnFrames(c)' = {} /\ ~Commits(c)' /\ SameLog(c)' /\ IsWriter(c)'
    <3>1. at'[c] = "restartIndex" /\ hdr'[c] = live' /\ live'.mxFrame = 0 /\ mode'[c] = "none" /\ writer' = c
      BY <1>3, <1>6 DEF RestartedBy
    <3> QED BY <3>1 DEF Top, OwnFrames, Commits, InFrames, SameLog, IsWriter
  <2>9. OwnFrames(c) = {} /\ Top(c) = live.mxFrame
    <3>1. Top(c) = live.mxFrame
      BY <1>1, <1>5 DEF Top, InFrames
    <3> QED BY <1>4, <3>1 DEF OwnFrames
  <2>10. WriterHdrOk(c)'
    BY <1>6, <1>9, <2>8 DEF WriterHdrOk, RestartedBy, InFrames, Reading, NoHdr
  <2>11. ListOk(c)'
    BY <1>1, <1>4, <1>6 DEF ListOk, RestartedBy, InFrames, Reading
  <2>12. PagesOk(c)'
    <3>1. \A pg \in Pages : Find(log, pg, live.mxFrame + 1, Top(c)) = 0
      <4>1. live.mxFrame + 1 \in Nat \ {0} /\ live.mxFrame + 1..live.mxFrame = {}
        BY <1>4
      <4> QED BY <1>4, <2>9, <4>1, FindIs DEF IsLastOf
    <3>2. \A pg \in Pages : Find(log, pg, 0 + 1, 0) = 0
      <4>1. 0 + 1 \in Nat \ {0} /\ 0 \in Nat /\ 0 + 1..0 = {}
        OBVIOUS
      <4> QED BY <4>1, FindIs DEF IsLastOf
    <3>3. \A pg \in Pages : IF pg \in dirty[c] THEN tx[c][pg] # 0 ELSE tx[c][pg] = 0
      BY <1>4, <3>1 DEF PagesOk
    <3>4. live'.mxFrame = 0 /\ log' = log /\ dirty'[c] = dirty[c] /\ tx'[c] = tx[c]
      BY <1>6 DEF RestartedBy
    <3> QED BY <2>8, <3>2, <3>3, <3>4 DEF PagesOk
  <2>13. ChecksumsOk(c)'
    <3>1. reCksum[c] = 0
      BY <1>4, <2>9 DEF ChecksumsOk
    <3> QED BY <1>6, <2>8, <3>1 DEF ChecksumsOk, RestartedBy
  <2>14. WriterOk(c)'
    BY <1>4, <1>6, <2>8, <2>10, <2>11, <2>12, <2>13 DEF WriterOk, RestartedBy
  <2> QED BY <2>1, <2>2, <2>3, <2>4, <2>5, <2>6, <2>7, <2>14 DEF SelfOk
<1> QED BY <1>2, <1>9, <1>11, <1>12 DEF IInv, SelfOk, Phases, Headers, Readers, Checkpoints, WriteInv

(* walCheckpoint(): a checkpoint starts it anew, before it truncates the *)
(* log.                                                                  *)
LEMMA CkptRestartStep ==
    ASSUME IInv, NEW c \in Conns, CkptRestart(c)
    PROVE  IInv'
<1>1. TypeOK /\ SelfOk(c) /\ at[c] = "ckptEnd" /\ nBackfill = hdr[c].mxFrame /\ LogIsUnused(c) /\ mode[c] = "TRUNCATE"
  BY SelfIs DEF IInv, CkptRestart, IsAt, RestartsLog
<1>2. TypeOK'
  BY <1>1, CkptRestartTyped
<1>3. /\ writer = c /\ readLock[c] = -1 /\ ckpter = c /\ ~IsWriter(c) /\ live # NoHdr
  BY <1>1, CkptPlace DEF Checkpointing
<1>4. hdr[c] = live
  BY <1>1 DEF SelfOk, CkptOk
<1>5. RestartedBy(c) /\ iFrame'[c] = iFrame[c]
  <2>1. UNCHANGED <<db, log, nBackfill, latest, writer, ckpter, iFrame>> /\ RestartHdr(c)
    BY DEF CkptRestart, files, locks, ghosts, writing
  <2>2. intact' /\ live'.mxFrame = 0 /\ live'.salt = FreshSalt
    <3>1. live' = [salt |-> FreshSalt, mxFrame |-> 0, iChange |-> hdr[c].iChange] /\ intact' = TRUE
      BY <1>1, <2>1, RestartHdrIs
    <3>2. live'.mxFrame = 0 /\ live'.salt = FreshSalt
      BY <3>1
    <3>3. intact'
      BY <3>1, Zenon
    <3> QED BY <3>2, <3>3
  <2> QED BY <1>1, <2>1, <2>2, CkptRestartEffect DEF RestartedBy
<1>6. \A q \in Conns \ {c} : ~Holds(q) /\ ~Restarting(q) /\ ~Copying(q)
  BY <1>1, <1>3, Unused, OthersCopy DEF Copying, Checkpointing
<1>7. db = latest
  BY <1>1, <1>3, <1>4, DbIsLatest
<1>8. IndexInv' /\ live' # NoHdr /\ live'.salt \in Nat
  BY <1>5, <1>7, RestartIndexInv
<1>9. LogReaderOk(c)' /\ DbReaderOk(c)' /\ VerifyOk(c)' /\ ~Holds(c)'
  BY <1>3, <1>5, NoReader DEF RestartedBy
<1>10. \A q \in Conns \ {c} : SelfOk(q)'
  BY <1>3, <1>5, <1>6, <1>9, RestartOther
<1>11. SelfOk(c)'
  <2>1. PhaseOk(c)'
    BY <1>1, <1>3, <1>5 DEF PhaseOk, RestartedBy
  <2>2. CountersOk(c)'
    BY <1>1, <1>5 DEF SelfOk, CountersOk, RestartedBy
  <2>3. Exclusive(c)'
    <3>1. \A d \in Conns \ {c} : ~Holds(d)'
      BY <1>5, <1>6 DEF RestartedBy, Others, Same, Holds, IsAt
    <3> QED BY <1>5, <3>1 DEF Exclusive, Copying, RestartedBy
  <2>4. HdrOk(c)'
    <3>1. KnowsDb(c)' => snap[c] = latest
      BY <1>1, <1>3, <1>4, <1>5 DEF SelfOk, HdrOk, KnowsDb, SameLog, RestartedBy
    <3> QED BY <1>5, <3>1 DEF HdrOk, RestartedBy
  <2>5. CkptOk(c)'
    BY <1>5 DEF CkptOk, Checkpointing, Copying, RestartedBy
  <2>6. ~IsWriter(c)'
    BY <1>1, <1>5 DEF IsWriter, RestartedBy
  <2>7. WriterOk(c)'
    BY <1>1, <1>3, <1>5, <2>6, NotWriter DEF SelfOk, RestartedBy
  <2> QED BY <1>9, <2>1, <2>2, <2>3, <2>4, <2>5, <2>7 DEF SelfOk
<1> QED BY <1>2, <1>8, <1>10, <1>11 DEF IInv, SelfOk, Phases, Headers, Readers, Checkpoints, WriteInv

-----------------------------------------------------------------------------
(* A page is copied. *)

(* The writer does not depend on the database file. *)
LEMMA WriterKeep ==
    ASSUME NEW q \in Conns, Same(q), WriterOk(q), UNCHANGED <<live, latest, log, hdr>>
    PROVE  WriterOk(q)'
<1>1. IsWriter(q)' = IsWriter(q) /\ SameLog(q)' = SameLog(q)
  BY DEF Same, IsWriter, SameLog
<1>2. CASE ~IsWriter(q)
  BY <1>1, <1>2, NotWriter DEF Same
<1>3. CASE IsWriter(q)
  <2>1. Top(q)' = Top(q) /\ OwnFrames(q)' = OwnFrames(q) /\ Commits(q)' = Commits(q)
    BY DEF Same, Top, OwnFrames, Commits
  <2>2. WriterHdrOk(q)'
    BY <1>1, <1>3 DEF WriterOk, WriterHdrOk, Same, NoHdr
  <2>3. ListOk(q)'
    BY <1>3 DEF WriterOk, ListOk, Same
  <2>4. PagesOk(q)'
    BY <1>3, <2>1 DEF WriterOk, PagesOk, Same
  <2>5. ChecksumsOk(q)'
    BY <1>3, <2>1 DEF WriterOk, ChecksumsOk, Same
  <2>6. snap'[q] = latest'
    BY <1>3 DEF WriterOk, Same
  <2> QED BY <1>1, <1>3, <2>2, <2>3, <2>4, <2>5, <2>6 DEF WriterOk
<1> QED BY <1>2, <1>3

(* walCheckpoint(): a page is copied that no reader reads from the *)
(* database file.                                                  *)
LEMMA CkptCopyStep ==
    ASSUME IInv, NEW c \in Conns, CkptCopy(c)
    PROVE  IInv'
<1> DEFINE p == next[c]
           h == hdr[c].mxFrame
           m == live.mxFrame
           i == Find(log, p, 1, h)
           copies == i > nBackfill /\ i <= mxSafe[c]
<1>1. TypeOK /\ SelfOk(c) /\ at[c] = "ckptCopy" /\ NumbersOk
  BY SelfIs, Numbers DEF IInv, CkptCopy, IsAt
<1>2. TypeOK'
  BY <1>1, CkptCopyTyped DEF SelfOk, CountersOk
<1>3. UNCHANGED <<log, live, intact, nBackfill, latest, writer, ckpter, aReadMark, hdr, readLock, minFrame, mode,
                  mxSafe, isChanged, slot, reCksum, dirty, todo, iFrame, commits, tx, snap>>
  BY DEF CkptCopy, index, locks, reading, writing, ghosts
<1>4. /\ Others(c)
      /\ \/ p = MaxPage /\ next'[c] = 1 /\ at'[c] = "ckptDone"
         \/ p # MaxPage /\ next'[c] = p + 1 /\ at'[c] = "ckptCopy"
  BY <1>1, CkptCopyEffect
<1>5. /\ mode[c] # "none" /\ ckpter = c /\ ~IsWriter(c) /\ readLock[c] = -1 /\ live # NoHdr
      /\ mode[c] \in {"PASSIVE", "TRUNCATE"} /\ (mode[c] = "TRUNCATE" <=> writer = c)
  BY <1>1, CkptPlace DEF Checkpointing
<1>6. /\ SameLog(c) /\ nBackfill < mxSafe[c] /\ mxSafe[c] <= h /\ h <= m
      /\ \A pg \in Pages : pg < p => Copied(c, pg)
      /\ \A d \in Conns : Holds(d) => minFrame[d] <= h + 1
      /\ \A d \in Conns : readLock[d] >= 1 => mxSafe[c] <= Base(d)
  BY <1>1, <1>5 DEF SelfOk, CkptOk, HdrOk, Copying, Checkpointing, Passed
<1>7. \A d \in Conns : readLock[d] # 0
  BY <1>1 DEF SelfOk, Exclusive, Copying
<1>8. /\ m \in Nat /\ h \in Nat /\ mxSafe[c] \in Nat /\ nBackfill \in Nat /\ 1 \in Nat \ {0}
      /\ p \in Pages
  BY <1>1 DEF NumbersOk, SelfOk, CountersOk
<1>9. IsLastOf(i, log, p, 1, h) /\ i \in Nat
  <2>1. IsLastOf(i, log, p, 1, h)
    BY <1>8, FindIs
  <2>2. i \in {0} \cup 1..h
    BY <2>1 DEF IsLastOf
  <2> QED BY <1>8, <2>1, <2>2
<1>10. /\ \A pg \in Pages \ {p} : db'[pg] = db[pg]
       /\ copies => db'[p] = log.frame[i].val
       /\ ~copies => db'[p] = db[p]
  <2>1. db \in [Pages -> Contents]
    BY <1>1 DEF TypeOK
  <2>2. db' = IF copies THEN [db EXCEPT ![p] = log.frame[i].val] ELSE db
    BY DEF CkptCopy
  <2> HIDE DEF copies, i
  <2> QED BY <1>8, <2>1, <2>2
(* A reader, or the wal-index, that counts b frames, as many as are copied. *)
<1>11. ASSUME NEW b \in Nat, mxSafe[c] <= b, NEW pg \in Pages
       PROVE  /\ Content(db', log, pg, 1, b) = Content(db, log, pg, 1, b)
              /\ \A k \in Nat : k <= nBackfill + 1 \/ k <= h + 1 =>
                    (Find(log, pg, 1, b) < k /\ db[pg] = Content(db, log, pg, 1, b)
                        => db'[pg] = Content(db, log, pg, 1, b))
  <2> DEFINE j == Find(log, pg, 1, b)
  <2>1. IsLastOf(j, log, pg, 1, b) /\ j \in Nat
    <3>1. IsLastOf(j, log, pg, 1, b)
      BY <1>8, FindIs
    <3>2. j \in {0} \cup 1..b
      BY <3>1 DEF IsLastOf
    <3> QED BY <3>1, <3>2
  <2>2. CASE pg # p \/ ~copies
    <3>1. db'[pg] = db[pg]
      BY <1>10, <2>2
    <3> QED BY <3>1 DEF Content
  <2>3. CASE pg = p /\ copies
    <3>1. i \in 1..b /\ i \in 1..h /\ log.frame[i].pg = pg
      <4>1. i # 0 /\ i <= b
        BY <1>8, <1>9, <1>11, <2>3
      <4> QED BY <1>8, <1>9, <2>3, <4>1 DEF IsLastOf
    <3>2. i <= j /\ j # 0
      BY <2>1, <3>1 DEF IsLastOf
    <3>3. Content(db', log, pg, 1, b) = log.frame[j].val /\ Content(db, log, pg, 1, b) = log.frame[j].val
      BY <3>2 DEF Content
    <3>4. ASSUME NEW k \in Nat, k <= nBackfill + 1 \/ k <= h + 1, j < k
          PROVE  db'[pg] = log.frame[j].val
      <4>1. j <= h
        BY <1>6, <1>8, <2>1, <3>4
      <4>2. j \in 1..h /\ log.frame[j].pg = p
        BY <1>8, <2>1, <2>3, <3>2, <4>1 DEF IsLastOf
      <4>3. j <= i
        BY <1>9, <4>2 DEF IsLastOf
      <4>4. j = i
        BY <1>9, <2>1, <3>2, <4>3
      <4> QED BY <1>10, <2>3, <4>4
    <3> HIDE DEF j, copies, i
    <3> QED BY <3>3, <3>4 DEF j
  <2> QED BY <2>2, <2>3
<1>12. mxSafe[c] <= m
  BY <1>6, <1>8
<1>13. RestartGoesOn' = RestartGoesOn
  <2>1. \A d \in Conns : (at'[d] = "restartIndex") = (at[d] = "restartIndex")
    BY <1>1, <1>4 DEF Others, Same
  <2> QED BY <2>1 DEF RestartGoesOn
<1>14. /\ \A pg \in Pages : latest[pg] = Content(db, log, pg, 1, m)
       /\ DbHas(nBackfill + 1)
  BY <1>5 DEF IInv, IndexInv
<1>15. ASSUME NEW k \in Nat, k <= nBackfill + 1 \/ k <= h + 1, DbHas(k), NEW pg \in Pages, Find(log, pg, 1, m) < k
       PROVE  db'[pg] = latest[pg]
  BY <1>8, <1>11, <1>12, <1>14, <1>15 DEF DbHas
<1>16. IndexInv'
  <2>1. \A pg \in Pages : latest'[pg] = Content(db', log', pg, 1, live'.mxFrame)
    BY <1>3, <1>8, <1>11, <1>12, <1>14
  <2>2. DbHas(nBackfill + 1)'
    <3>1. nBackfill + 1 \in Nat /\ nBackfill + 1 <= nBackfill + 1
      BY <1>8
    <3>2. \A pg \in Pages : Find(log, pg, 1, m) < nBackfill + 1 => db'[pg] = latest[pg]
      BY <1>14, <1>15, <3>1
    <3> QED BY <1>3, <3>2 DEF DbHas
  <2>3. nBackfill' <= live'.mxFrame \/ RestartGoesOn'
    BY <1>3, <1>13 DEF IInv, IndexInv
  <2>4. live' = live /\ live # NoHdr /\ log' = log
    BY <1>3, <1>5
  <2> QED BY <2>1, <2>2, <2>3, <2>4 DEF IInv, IndexInv, NoHdr
<1>17. \A d \in Conns : Holds(d)' = Holds(d) /\ Base(d)' = Base(d) /\ IsWriter(d)' = IsWriter(d)
  BY <1>1, <1>3, <1>4 DEF Holds, IsAt, Others, Same, Base, IsWriter
<1>18. ASSUME NEW q \in Conns PROVE LogReaderOk(q)' /\ DbReaderOk(q)'
  <2>1. DbReaderOk(q)'
    BY <1>3, <1>7 DEF DbReaderOk
  <2>2. LogReaderOk(q)'
    <3>1. SUFFICES ASSUME readLock[q] >= 1 PROVE LogReaderOk(q)'
      BY <1>3 DEF LogReaderOk
    <3>2. LogReaderOk(q) /\ Base(q) \in Nat /\ minFrame[q] \in Nat /\ mxSafe[c] <= Base(q) /\ minFrame[q] <= h + 1
      BY <1>1, <1>6, <3>1 DEF IInv, Readers, NumbersOk, Base, Holds
    <3>3. \A pg \in Pages : /\ snap[q][pg] = Content(db', log, pg, 1, Base(q))
                            /\ Find(log, pg, 1, Base(q)) < minFrame[q] => db'[pg] = snap[q][pg]
      BY <1>11, <3>1, <3>2 DEF LogReaderOk
    <3> QED BY <1>3, <1>17, <3>1, <3>2, <3>3 DEF LogReaderOk
  <2> QED BY <2>1, <2>2
<1>19. ASSUME NEW q \in Conns \ {c} PROVE SelfOk(q)'
  <2>1. Same(q) /\ SelfOk(q)
    BY <1>4, SelfIs DEF Others
  <2>2. PhaseOk(q)' /\ CountersOk(q)'
    BY <2>1, PhaseKeep DEF SelfOk
  <2>3. ~Holds(c)'
    BY <1>3, <1>4, <1>5 DEF Holds, IsAt
  <2>4. Exclusive(q)'
    BY <1>3, <1>4, <1>7, <2>1, <2>3, ExclusiveKeep DEF SelfOk, Exclusive
  <2>5. HdrOk(q)'
    BY <1>3, <1>17, <2>1 DEF SelfOk, HdrOk, KnowsDb, SameLog, Same, NoHdr
  <2>6. VerifyOk(q)'
    <3>1. SUFFICES ASSUME at[q] = "verify" PROVE VerifyOk(q)'
      BY <2>1 DEF VerifyOk, Same
    <3>2. minFrame[q] <= m + 1 /\ DbHas(minFrame[q]) /\ minFrame[q] \in Nat /\ minFrame[q] <= h + 1
      BY <1>1, <1>6, <2>1, <3>1 DEF SelfOk, VerifyOk, NumbersOk, Holds, IsAt
    <3>3. \A pg \in Pages : Find(log, pg, 1, m) < minFrame[q] => db'[pg] = latest[pg]
      BY <1>15, <3>2
    <3> QED BY <1>3, <3>2, <3>3 DEF VerifyOk, DbHas
  <2>7. CkptOk(q)'
    <3>1. at[q] \notin Checkpointing \cup {"truncate", "recoverReset"} /\ mode[q] = "none"
      BY <1>5, <2>1 DEF SelfOk, PhaseOk, Reading, Framing, Checkpointing
    <3> QED BY <1>3, <2>1, <3>1 DEF SelfOk, CkptOk, Same, Copying, Restarting, Checkpointing
  <2>8. WriterOk(q)'
    BY <1>3, <2>1, WriterKeep DEF SelfOk
  <2> QED BY <1>18, <2>2, <2>4, <2>5, <2>6, <2>7, <2>8 DEF SelfOk
<1>20. SelfOk(c)'
  <2>1. at'[c] \in {"ckptCopy", "ckptDone"}
    BY <1>4
  <2>2. PhaseOk(c)'
    BY <1>3, <1>5, <2>1 DEF PhaseOk, Checkpointing
  <2>3. CountersOk(c)'
    <3>1. at'[c] = "ckptCopy" => next'[c] \in Pages
      BY <1>4, <1>8, BoundsAssumption DEF Pages
    <3> QED BY <1>3, <1>4, <1>5, <2>1, <3>1 DEF CountersOk
  <2>4. Exclusive(c)'
    BY <1>3, <1>7, <2>1 DEF Exclusive, Restarting
  <2>5. HdrOk(c)'
    BY <1>1, <1>3, <1>5, <1>17, <2>1 DEF SelfOk, HdrOk, KnowsDb, SameLog, NoHdr
  <2>6. VerifyOk(c)'
    BY <2>1 DEF VerifyOk
  <2>7. \A pg \in Pages : at'[c] = "ckptDone" \/ pg < next'[c] => Copied(c, pg)'
    <3>1. \A pg \in Pages : at'[c] = "ckptDone" \/ pg < next'[c] => pg < p \/ pg = p
      BY <1>4, <1>8, BoundsAssumption DEF Pages
    <3>2. ASSUME NEW pg \in Pages, pg = p PROVE Copied(c, pg)'
      BY <1>3, <1>10, <3>2 DEF Copied
    <3>3. ASSUME NEW pg \in Pages, pg < p PROVE Copied(c, pg)'
      <4>1. pg # p /\ Copied(c, pg)
        BY <1>6, <1>8, <3>3 DEF Pages
      <4>2. db'[pg] = db[pg]
        BY <1>10, <4>1
      <4> QED BY <1>3, <4>1, <4>2 DEF Copied
    <3> QED BY <3>1, <3>2, <3>3
  <2>8. CkptOk(c)'
    <3>1. /\ nBackfill <= hdr[c].mxFrame \/ RestartGoesOn
          /\ mode[c] = "TRUNCATE" => hdr[c] = live
      BY <1>1, <1>6 DEF SelfOk, CkptOk, Checkpointing
    <3> HIDE DEF p, h, m, i, copies
    <3>2. /\ SameLog(c)' /\ nBackfill' < mxSafe'[c] /\ mxSafe'[c] <= hdr'[c].mxFrame
          /\ \A d \in Conns : Holds(d)' => minFrame'[d] <= hdr'[c].mxFrame + 1
          /\ \A d \in Conns : readLock'[d] >= 1 => mxSafe'[c] <= Base(d)'
      BY <1>3, <1>6, <1>17 DEF SameLog, h
    <3>3. nBackfill' <= hdr'[c].mxFrame \/ RestartGoesOn'
      BY <1>6, <1>8, <1>3 DEF h
    <3> QED BY <1>3, <2>1, <2>7, <3>1, <3>2, <3>3 DEF CkptOk, Restarting
  <2>9. WriterOk(c)'
    BY <1>1, <1>3, <1>5, <1>17, NotWriter DEF SelfOk
  <2> QED BY <1>18, <2>2, <2>3, <2>4, <2>5, <2>6, <2>8, <2>9 DEF SelfOk
<1> QED BY <1>2, <1>16, <1>19, <1>20 DEF IInv, SelfOk, Phases, Headers, Readers, Checkpoints, WriteInv

-----------------------------------------------------------------------------
(* A wal-index that nobody has made yet. *)

NobodyKnows ==
    /\ live = NoHdr /\ intact = FALSE /\ nBackfill = 0 /\ writer = None /\ ckpter = None
    /\ \A c \in Conns :
          /\ at[c] \in {"idle", "gone"} /\ hdr[c] = NoHdr /\ readLock[c] = -1 /\ mode[c] = "none"
          /\ isChanged[c] = FALSE /\ mxSafe[c] = 0 /\ next[c] = 1 /\ reCksum[c] = 0 /\ dirty[c] = {}
          /\ todo[c] = {} /\ iFrame[c] = 0 /\ commits[c] = FALSE /\ tx[c] = Unchanged

(* Then everything holds, whatever is in the files. *)
LEMMA FirstIndex == TypeOK /\ NobodyKnows => IInv
<1>1. SUFFICES ASSUME TypeOK, NobodyKnows PROVE IInv
  OBVIOUS
<1>2. IndexInv
  BY <1>1 DEF NobodyKnows, IndexInv, NoIndex, NoHdr
<1>3. ASSUME NEW c \in Conns PROVE SelfOk(c)
  <2>1. /\ at[c] \in {"idle", "gone"} /\ hdr[c] = NoHdr /\ readLock[c] = -1 /\ mode[c] = "none"
        /\ isChanged[c] = FALSE /\ mxSafe[c] = 0 /\ next[c] = 1 /\ reCksum[c] = 0 /\ dirty[c] = {}
        /\ todo[c] = {} /\ iFrame[c] = 0 /\ commits[c] = FALSE /\ tx[c] = Unchanged
        /\ writer # c /\ ckpter # c /\ live = NoHdr /\ intact = FALSE
    BY <1>1, BoundsAssumption DEF NobodyKnows
  <2>2. PhaseOk(c) /\ CountersOk(c)
    BY <2>1 DEF PhaseOk, CountersOk
  <2>3. CkptOk(c) /\ Exclusive(c)
    BY <2>1 DEF CkptOk, Exclusive, Copying, Restarting, Checkpointing
  <2>4. HdrOk(c)
    <3>1. log.salt \in Nat
      BY <1>1 DEF TypeOK, Log
    <3> QED BY <2>1, <3>1 DEF HdrOk, NoHdr
  <2>5. LogReaderOk(c) /\ DbReaderOk(c) /\ VerifyOk(c)
    BY <2>1 DEF LogReaderOk, DbReaderOk, VerifyOk
  <2>6. WriterOk(c)
    BY <2>1 DEF WriterOk, IsWriter
  <2> QED BY <2>2, <2>3, <2>4, <2>5, <2>6 DEF SelfOk
<1> QED BY <1>1, <1>2, <1>3, SelfIs

LEMMA NextIndex == TypeOK' /\ NobodyKnows' => IInv'
BY FirstIndex, PTL

(* The wal-index is gone with the last process that had it, *)
LEMMA IndexIsLostStep ==
    ASSUME TypeOK, IndexIsLost, TypeOK'
    PROVE  IInv'
<1>1. live' = NoHdr /\ intact' = FALSE /\ nBackfill' = 0 /\ \A c \in Conns : at'[c] \in {"idle", "gone"}
  BY DEF IndexIsLost
<1>2. \A c \in Conns :
          /\ hdr'[c] = NoHdr /\ readLock'[c] = -1 /\ mode'[c] = "none"
          /\ isChanged'[c] = FALSE /\ mxSafe'[c] = 0 /\ next'[c] = 1 /\ reCksum'[c] = 0 /\ dirty'[c] = {}
          /\ todo'[c] = {} /\ iFrame'[c] = 0 /\ commits'[c] = FALSE /\ tx'[c] = Unchanged
  BY DEF IndexIsLost, Forget
<1>3. writer' = None /\ ckpter' = None
  <2>1. /\ writer' = IF writer \in Conns THEN None ELSE writer
        /\ ckpter' = IF ckpter \in Conns THEN None ELSE ckpter
    BY DEF IndexIsLost, Forget
  <2>2. writer \in Conns \cup {None} /\ ckpter \in Conns \cup {None}
    BY DEF TypeOK
  <2> QED BY <2>1, <2>2
<1>4. NobodyKnows'
  BY <1>1, <1>2, <1>3 DEF NobodyKnows, NoHdr, Unchanged
<1> QED BY <1>4, NextIndex

(* when all of them die *)
LEMMA AllDieStep ==
    ASSUME IInv, AllDie
    PROVE  IInv'
BY AllDieTyped, IndexIsLostStep DEF IInv, AllDie

(* or when power is lost, whatever the log then holds. *)
LEMMA PowerLossStep ==
    ASSUME IInv, PowerLoss
    PROVE  IInv'
<1>1. TypeOK /\ TypeOK'
  BY PowerLossTyped DEF IInv
<1>2. IndexIsLost
  BY DEF PowerLoss
<1> QED BY <1>1, <1>2, IndexIsLostStep

(* The initial state, with a log that an earlier process left. *)
LEMMA InitTyped ==
    ASSUME Init
    PROVE  TypeOK
<1>1. MaxFrame \in Nat \ {0} /\ MaxPage \in Nat \ {0} /\ MaxWrites \in Nat \ {0} /\ ReadMarks \in Nat \ {0} /\ MaxFaults \in Nat
  BY BoundsAssumption
<1>2. EmptyDb \in [Pages -> Contents] /\ Unchanged \in [Pages -> Contents] /\ NoHdr \in Hdr
      /\ NoSlot \in [i : 0..ReadMarks, mark : 0..MaxFrame]
  BY ConstantsTyped
<1>3. NoLog \in Log
  BY ConstantsTyped
<1>4. LeftLog \in Log /\ LeftLog.salt = 1 /\ NoLog.salt = 0
  <2> DEFINE b == [pg |-> MaxPage, val |-> 1, commit |-> TRUE]
             f == [salt |-> 1, pg |-> MaxPage, val |-> 1, commit |-> TRUE, sum |-> <<b>>]
  <2>1. MaxPage \in 0..MaxPage /\ 1 \in Contents
    BY <1>1 DEF Contents
  <2>2. b \in Body
    BY <2>1 DEF Body
  <2>3. <<b>> \in Seq(Body)
    <3> HIDE DEF b
    <3> QED BY <2>2
  <2> HIDE DEF b
  <2>4. f \in Frame
    BY <2>1, <2>3 DEF Frame
  <2> HIDE DEF f
  <2>5. NoLog.frame \in [Frames -> Frame]
    BY <1>3 DEF Log
  <2>6. [NoLog.frame EXCEPT ![1] = f] \in [Frames -> Frame]
    BY <2>4, <2>5
  <2>7. LeftLog = [salt |-> 1, frame |-> [NoLog.frame EXCEPT ![1] = f]]
    BY DEF LeftLog, f, b
  <2>8. NoLog.salt = 0
    BY DEF NoLog
  <2> QED BY <2>6, <2>7, <2>8 DEF Log
<1>5. log \in Log /\ logDisk \in Log /\ nWrites \in 0..MaxWrites /\ nFaults \in 0..MaxFaults
  BY <1>1, <1>3, <1>4 DEF Init
<1>6. db \in [Pages -> Contents] /\ dbDisk \in [Pages -> Contents]
      /\ latest \in [Pages -> Contents] /\ reported \in [Pages -> Contents] /\ unreported \subseteq [Pages -> Contents]
  <2>1. 0 \in Contents /\ 1 \in Contents
    BY <1>1 DEF Contents
  <2>2. latest \in [Pages -> Contents]
    BY <2>1 DEF Init
  <2> QED BY <1>2, <2>2 DEF Init
<1>7. /\ live \in Hdr /\ hdr \in [Conns -> Hdr] /\ intact \in BOOLEAN /\ nBackfill \in 0..MaxFrame
      /\ aReadMark \in [Slots -> 0..READMARK_NOT_USED]
      /\ writer \in Conns \cup {None} /\ ckpter \in Conns \cup {None}
  <2>1. 0 \in 0..READMARK_NOT_USED /\ READMARK_NOT_USED \in 0..READMARK_NOT_USED
    BY <1>1 DEF READMARK_NOT_USED
  <2>2. aReadMark = [i \in Slots |-> 0]
    BY DEF Init
  <2>3. aReadMark \in [Slots -> 0..READMARK_NOT_USED]
    BY <2>1, <2>2
  <2>4. live = NoHdr /\ hdr = [c \in Conns |-> NoHdr] /\ intact = FALSE /\ nBackfill = 0
        /\ writer = None /\ ckpter = None
    BY DEF Init
  <2>5. nBackfill \in 0..MaxFrame
    BY <1>1, <2>4
  <2> QED BY <1>2, <2>3, <2>4, <2>5
<1>8. /\ at \in [Conns -> Steps] /\ readLock \in [Conns -> -1..ReadMarks]
      /\ slot \in [Conns -> [i : 0..ReadMarks, mark : 0..MaxFrame]]
      /\ minFrame \in [Conns -> 1..MaxFrame + 1]
  <2>1. -1 \in -1..ReadMarks /\ 1 \in 1..MaxFrame + 1 /\ "idle" \in Steps
    BY <1>1 DEF Steps
  <2> QED BY <1>2, <2>1 DEF Init
<1>9. /\ reCksum \in [Conns -> 0..MaxFrame] /\ iFrame \in [Conns -> 0..MaxFrame]
      /\ dirty \in [Conns -> SUBSET Pages] /\ todo \in [Conns -> SUBSET Pages]
      /\ commits \in [Conns -> BOOLEAN]
      /\ mode \in [Conns -> Modes] /\ isChanged \in [Conns -> BOOLEAN]
      /\ mxSafe \in [Conns -> 0..MaxFrame] /\ next \in [Conns -> Nat]
  BY <1>1 DEF Init, Modes
<1>10. tx \in [Conns -> [Pages -> Contents]] /\ snap \in [Conns -> [Pages -> Contents]]
  BY <1>2 DEF Init
<1> QED BY <1>5, <1>6, <1>7, <1>8, <1>9, <1>10 DEF TypeOK

LEMMA InitOk ==
    ASSUME Init
    PROVE  IInv
<1>1. NobodyKnows
  BY DEF Init, NobodyKnows
<1> QED BY <1>1, InitTyped, FirstIndex

-----------------------------------------------------------------------------
(* All steps. *)

(* The steps of readers, of the writer, of checkpoints, and stutters. *)
LEMMA ReadStep ==
    ASSUME IInv, NEW c \in Conns, Read(c)
    PROVE  IInv'
BY ReadHdrStep, RecoverHdrStep, RecoverResetStep, ChooseStep, MarkStep, LockSlotStep, VerifyStep, EndReadStep DEF Read

LEMMA WriteStep ==
    ASSUME IInv, NEW c \in Conns, Write(c)
    PROVE  IInv'
<1>1. CASE Publish(c)
  BY <1>1, SpilledStep, CommittedStep
<1>2. CASE ~Publish(c)
  BY <1>2, BeginWriteStep, CommitStep, RestartStep, RestartIndexStep, KeepLogStep, WalHdrStep, SyncHdrStep,
     OverwriteStep, AppendFrameStep, RewriteChecksumStep, SyncLogStep, RollbackStep, ChangeStep, SpillStep DEF Write
<1> QED BY <1>1, <1>2

LEMMA BackfillStep ==
    ASSUME IInv, NEW c \in Conns, Backfill(c)
    PROVE  IInv'
BY CkptSafeStep, CkptNothingStep, CkptLockStep, CkptSkipStep, CkptCopyStep, CkptDoneStep, CkptRestartStep,
   TruncateStep, CkptEndStep, CheckpointStep DEF Backfill

LEMMA StutterStep ==
    ASSUME IInv, UNCHANGED vars
    PROVE  IInv'
<1>1. UNCHANGED <<db, dbDisk, log, logDisk, live, intact, nBackfill, aReadMark, writer, ckpter, at, hdr>>
  BY DEF vars, files, index, locks
<1>2. UNCHANGED <<readLock, slot, minFrame, reCksum, dirty, todo, iFrame, commits, mode, isChanged, mxSafe, next>>
  BY DEF vars, reading, writing, checkpointing
<1>3. UNCHANGED <<nWrites, nFaults, tx, snap, latest, reported, unreported>>
  BY DEF vars, ghosts
<1>4. TypeOK'
  BY <1>1, <1>2, <1>3 DEF IInv, TypeOK
<1>5. IndexInv'
  BY <1>1, <1>2, <1>3 DEF IInv, IndexInv, NoIndex, RestartGoesOn, DbHas, NoHdr
<1>6. ASSUME NEW c \in Conns PROVE SelfOk(c)'
  <2>1. SelfOk(c) /\ Same(c)
    BY <1>1, <1>2, <1>3, SelfIs DEF Same
  <2>2. PhaseOk(c)' /\ CountersOk(c)'
    BY <2>1, PhaseKeep DEF SelfOk
  <2>3. Exclusive(c)'
    BY <1>1, <1>2, <2>1 DEF SelfOk, Exclusive, Holds, IsAt, Copying, Restarting
  <2>4. HdrOk(c)'
    BY <1>1, <1>2, <1>3, <2>1 DEF SelfOk, HdrOk, IsWriter, KnowsDb, SameLog, NoHdr
  <2>5. LogReaderOk(c)' /\ DbReaderOk(c)' /\ VerifyOk(c)'
    BY <1>1, <1>2, <1>3, <2>1 DEF SelfOk, LogReaderOk, DbReaderOk, VerifyOk, Base, IsWriter, SameLog,
                                  RestartGoesOn, DbHas
  <2>6. CkptOk(c)'
    BY <1>1, <1>2, <1>3, <2>1 DEF SelfOk, CkptOk, SameLog, RestartGoesOn, Holds, IsAt, Passed, Base,
                                  IsWriter, Copying, Copied, Restarting
  <2>7. WriterOk(c)'
    BY <1>1, <1>3, <2>1, WriterKeep DEF SelfOk
  <2> QED BY <2>2, <2>3, <2>4, <2>5, <2>6, <2>7 DEF SelfOk
<1> QED BY <1>4, <1>5, <1>6 DEF IInv, SelfOk, Phases, Headers, Readers, Checkpoints, WriteInv

(* Every step, but the death of a process inside walRestartHdr(). *)
LEMMA NextStepOk ==
    ASSUME IInv, ~KilledInRestart, Next
    PROVE  IInv'
<1>1. CASE \E c \in Conns : Read(c) \/ Write(c) \/ Backfill(c) \/ Die(c)
  BY <1>1, ReadStep, WriteStep, BackfillStep, DieStep
<1> QED BY <1>1, AllDieStep, PowerLossStep DEF Next

(* A reader looks at the frames from minFrame on, as what is before them has *)
(* been copied.                                                              *)
LEMMA FromMinFrame ==
    ASSUME NEW l, NEW f, NEW pg, NEW min \in Nat \ {0}, NEW max \in Nat, NEW v,
           v = Content(f, l, pg, 1, max), Find(l, pg, 1, max) < min => f[pg] = v
    PROVE  Content(f, l, pg, min, max) = v
<1> DEFINE k == Find(l, pg, 1, max)
<1>1. IsLastOf(k, l, pg, 1, max)
  BY FindIs
<1>2. k \in {0} \cup 1..max
  BY <1>1 DEF IsLastOf
<1>3. CASE k < min
  <2>1. IsLastOf(0, l, pg, min, max)
    BY <1>1, <1>2, <1>3 DEF IsLastOf
  <2>2. Find(l, pg, min, max) = 0
    BY <2>1, FindUnique
  <2> QED BY <1>3, <2>2 DEF Content
<1>4. CASE ~(k < min)
  <2>1. IsLastOf(k, l, pg, min, max) /\ k # 0
    BY <1>1, <1>2, <1>4 DEF IsLastOf
  <2>2. Find(l, pg, min, max) = k
    BY <2>1, FindUnique
  <2> QED BY <2>1, <2>2 DEF Content
<1> QED BY <1>3, <1>4

(* What a reader reads is its snapshot. *)
LEMMA ViewIs ==
    ASSUME IInv
    PROVE  SnapshotIsolation
<1>1. SUFFICES ASSUME NEW c \in Conns, InRead(c), NEW pg \in Pages
               PROVE  View(c, pg) = Overlay(snap[c], tx[c])[pg]
  BY DEF SnapshotIsolation
<1>2. SelfOk(c) /\ TypeOK /\ NumbersOk /\ at[c] = "idle" /\ readLock[c] >= 0
  BY <1>1, SelfIs, Numbers DEF IInv, InRead, IsAt
<1>3. Overlay(snap[c], tx[c])[pg] = IF tx[c][pg] # 0 THEN tx[c][pg] ELSE snap[c][pg]
  BY DEF Overlay
<1>4. CASE pg \in dirty[c]
  <2>1. IsWriter(c)
    BY <1>2, <1>4 DEF SelfOk, WriterOk
  <2> QED BY <1>2, <1>3, <1>4, <2>1 DEF SelfOk, WriterOk, PagesOk, View
<1>5. CASE pg \notin dirty[c]
  <2>1. CASE readLock[c] = 0
    <3>1. View(c, pg) = snap[c][pg]
      BY <1>2, <1>5, <2>1 DEF SelfOk, DbReaderOk, View
    <3>2. tx[c][pg] = 0
      <4>1. CASE IsWriter(c)
        <5>1. PagesOk(c) /\ hdr[c] = live /\ live.mxFrame \in Nat
          BY <2>1, <4>1, WriterIs DEF WriterHdrOk
        <5>2. Top(c) = live.mxFrame
          BY <1>2, <5>1 DEF Top, InFrames
        <5>3. Find(log, pg, live.mxFrame + 1, live.mxFrame) = 0
          <6>1. live.mxFrame + 1 \in Nat \ {0} /\ live.mxFrame + 1..live.mxFrame = {}
            BY <5>1
          <6> QED BY <5>1, <6>1, FindIs DEF IsLastOf
        <5> QED BY <1>5, <5>1, <5>2, <5>3 DEF PagesOk
      <4>2. CASE ~IsWriter(c)
        BY <1>2, <4>2 DEF SelfOk, WriterOk, Unchanged
      <4> QED BY <4>1, <4>2
    <3> QED BY <1>3, <3>1, <3>2
  <2>2. CASE readLock[c] # 0
    <3>1. readLock[c] >= 1
      BY <1>2, <2>2 DEF NumbersOk
    <3>2. View(c, pg) = Content(db, log, pg, minFrame[c], hdr[c].mxFrame)
      BY <1>5, <2>2 DEF View
    <3>3. /\ minFrame[c] \in Nat \ {0} /\ hdr[c].mxFrame \in Nat /\ live.mxFrame \in Nat /\ Base(c) \in Nat
          /\ minFrame[c] <= live.mxFrame + 1
          /\ snap[c][pg] = Content(db, log, pg, 1, Base(c))
          /\ Find(log, pg, 1, Base(c)) < minFrame[c] => db[pg] = snap[c][pg]
      BY <1>2, <3>1 DEF SelfOk, LogReaderOk, NumbersOk, Base
    <3>4. CASE ~IsWriter(c)
      <4>1. Base(c) = hdr[c].mxFrame /\ tx[c][pg] = 0
        BY <1>2, <3>4 DEF Base, SelfOk, WriterOk, Unchanged
      <4>2. Content(db, log, pg, minFrame[c], hdr[c].mxFrame) = snap[c][pg]
        BY <3>3, <4>1, FromMinFrame
      <4> QED BY <1>3, <3>2, <4>1, <4>2
    <3>5. CASE IsWriter(c)
      <4>1. /\ PagesOk(c) /\ Base(c) = live.mxFrame /\ live.mxFrame <= hdr[c].mxFrame /\ Top(c) = hdr[c].mxFrame
        BY <1>2, <3>5, WriterIs DEF Base, Top, InFrames
      <4> DEFINE i == Find(log, pg, live.mxFrame + 1, hdr[c].mxFrame)
      <4>2. snap[c] = latest /\ (IF i = 0 THEN tx[c][pg] = 0 ELSE log.frame[i].val = Overlay(latest, tx[c])[pg])
        BY <1>5, <3>5, <4>1, WriterIs DEF PagesOk
      <4>3. live.mxFrame + 1 \in Nat \ {0}
        BY <3>3
      <4>4. IsLastOf(i, log, pg, live.mxFrame + 1, hdr[c].mxFrame)
        BY <3>3, <4>3, FindIs
      <4>5. CASE i # 0
        <5>1. IsLastOf(i, log, pg, minFrame[c], hdr[c].mxFrame)
          BY <3>3, <4>4, <4>5 DEF IsLastOf
        <5>2. Find(log, pg, minFrame[c], hdr[c].mxFrame) = i
          BY <3>3, <5>1, FindUnique
        <5> QED BY <3>2, <4>2, <4>5, <5>2 DEF Content
      <4>6. CASE i = 0
        <5>1. Find(log, pg, 1, hdr[c].mxFrame) = Find(log, pg, 1, live.mxFrame)
          BY <3>3, <4>1, <4>6, FindLonger
        <5>2. /\ snap[c][pg] = Content(db, log, pg, 1, hdr[c].mxFrame)
              /\ Find(log, pg, 1, hdr[c].mxFrame) < minFrame[c] => db[pg] = snap[c][pg]
          BY <3>3, <4>1, <5>1 DEF Content
        <5>3. Content(db, log, pg, minFrame[c], hdr[c].mxFrame) = snap[c][pg]
          BY <3>3, <5>2, FromMinFrame
        <5> QED BY <1>3, <3>2, <4>2, <4>6, <5>3
      <4> QED BY <4>5, <4>6
    <3> QED BY <3>4, <3>5
  <2> QED BY <2>1, <2>2
<1> QED BY <1>4, <1>5

(* A header that is the one of the wal-index names the last commit. *)
LEMMA HdrIs ==
    ASSUME IInv
    PROVE  HdrNamesTheDatabase
<1>1. SUFFICES ASSUME NEW c \in Conns, at[c] = "idle", hdr[c] # NoHdr, hdr[c] = live \/ writer = c,
                      hdr[c].mxFrame = live.mxFrame
               PROVE  snap[c] = latest
  BY DEF HdrNamesTheDatabase, IsAt
<1>2. SelfOk(c)
  BY SelfIs
<1>3. CASE writer = c
  BY <1>1, <1>3, WriterPlace, WriterIs
<1>4. CASE hdr[c] = live
  BY <1>1, <1>2, <1>4 DEF SelfOk, HdrOk, KnowsDb, SameLog
<1> QED BY <1>1, <1>3, <1>4

-----------------------------------------------------------------------------
(* IInv holds in every state of walTryBeginRead(), sqlite3WalFrames(),        *)
(* walCheckpoint(), walRestartLog(), walIndexRecover() and of what deaths of  *)
(* processes, but for those inside walRestartHdr(), and losses of power leave *)
(* between their steps.                                                       *)
THEOREM Inductive == Spec /\ RestartsAreWhole => []IInv
<1>1. Init => IInv
  BY InitOk
<1>2. IInv /\ [Next]_vars /\ [~KilledInRestart]_vars => IInv'
  BY NextStepOk, StutterStep
<1> QED BY <1>1, <1>2, PTL DEF Spec, RestartsAreWhole

(* The runs take RestartsAreWhole from DiesInRestart. *)
LEMMA DiesInRestartSuffices == ASSUME DiesInRestart = FALSE PROVE Spec => RestartsAreWhole
<1>1. ~KilledInRestart
  BY DEF KilledInRestart, Die, WritesHdr, Restarts, IsAt
<1> QED BY <1>1, PTL DEF RestartsAreWhole

(* The variables keep their types: the log of frames, the headers, the        *)
(* read marks, the lists of pages a writer has left, if no process is killed  *)
(* inside walRestartHdr().                                                    *)
THEOREM TypesAreRight == Spec /\ RestartsAreWhole => []TypeOK
<1>1. IInv => TypeOK
  BY DEF IInv
<1> QED BY <1>1, Inductive, PTL

(* Each read transaction sees one committed database from its first page to   *)
(* its last, and a write transaction that one with its own changes: what      *)
(* sqlite3WalFindFrame() finds between minFrame and mxFrame, or what the      *)
(* database file holds, is never of another commit.  Not so after a process   *)
(* was killed inside walRestartHdr().                                         *)
THEOREM ReadersAreIsolated == Spec /\ RestartsAreWhole => []SnapshotIsolation
<1>1. IInv => SnapshotIsolation
  BY ViewIs
<1> QED BY <1>1, Inductive, PTL

(* A connection that finds its own header in the wal-index, when it begins to *)
(* read (walTryBeginRead() keeps its cache) or to write                       *)
(* (sqlite3WalBeginWriteTransaction()), knows the last commit, if no process  *)
(* was killed inside walRestartHdr().                                         *)
THEOREM HeadersName == Spec /\ RestartsAreWhole => []HdrNamesTheDatabase
<1>1. IInv => HdrNamesTheDatabase
  BY HdrIs
<1> QED BY <1>1, Inductive, PTL
=============================================================================
