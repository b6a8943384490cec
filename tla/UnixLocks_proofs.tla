--------------------------- MODULE UnixLocks_proofs ---------------------------
(***************************************************************************)
(* The proofs about UnixLocks, for any processes and connections: the      *)
(* invariant that ties the record of each process to the kernel's locks,   *)
(* the properties that follow from it, and the refinement of FileLocks.    *)
(* They are about the behaviours in which closes are alone (LoneCloses):   *)
(* in the others LocksAreKept and NoConflict do not hold.                  *)
(***************************************************************************)
EXTENDS UnixLocks, FiniteSetTheorems, TLAPS

(* No connection of a process takes the first lock of the process while      *)
(* another is in unixClose(), between its check for other lockers (line      *)
(* 42564) and close().  The code does not see to it: a behaviour of Spec may *)
(* have such a step when CloseAlone is FALSE.                                *)
NoLockWhileClosing == \A f \in Files : SharePending(f) => closing[ProcOf[f]] = NoFile
LoneCloses == [][NoLockWhileClosing]_vars

-----------------------------------------------------------------------------
(* The inductive invariant, one process at a time... *)

Caller(p) == holder[p]
Sharing == {"shareRange", "dropPending", "shareFailed"}

(* ...whose call is where... *)
CallOk(p) ==
    /\ (holder[p] = NoFile) <=> (at[p] = "idle")
    /\ at[p] # "idle" => ProcOf[Caller(p)] = p /\ closing[p] = NoFile
    /\ at[p] \in Sharing => inodeLock[p] = NO_LOCK
    /\ at[p] = "exclusiveRange" => eFileLock[Caller(p)] = PENDING_LOCK /\ nShared[p] = 1
    /\ at[p] \in {"unlockReserved", "unlockAll"} => eFileLock[Caller(p)] > SHARED_LOCK
    /\ at[p] = "unlockAll" => inodeLock[p] = SHARED_LOCK
    /\ closing[p] # NoFile => nLock[p] = 0 /\ closing[p] \in FilesOf(p) \cap open

(* ...which of its files hold what: at most one of them more than SHARED...  *)
LevelsOk(p) ==
    /\ inodeLock[p] = NO_LOCK <=> \A f \in FilesOf(p) : eFileLock[f] = NO_LOCK
    /\ \A f \in FilesOf(p) :
          eFileLock[f] > SHARED_LOCK =>
              /\ inodeLock[p] = eFileLock[f] \/ InCall(f, "unlockAll")
              /\ \A g \in FilesOf(p) \ {f} :
                    /\ eFileLock[g] <= SHARED_LOCK
                    /\ eFileLock[f] = EXCLUSIVE_LOCK => eFileLock[g] = NO_LOCK
    /\ inodeLock[p] > SHARED_LOCK => \E f \in FilesOf(p) : eFileLock[f] = inodeLock[p]

(* ...how many there are... *)
CountOk(p) ==
    /\ nShared[p] = Cardinality(Sharers(p))
    /\ nLock[p] = nShared[p]
    /\ nLock[p] = 0 => nUnused[p] = 0
    /\ nUnused[p] + Cardinality(FilesOf(p) \cap open) <= Cardinality(FilesOf(p))

(* ...and what the kernel holds for it. *)
KernelOk(p) ==
    /\ at[p] \in {"shareRange", "shareFailed"} => sharedBytes[p] = "F_UNLCK"
    /\ at[p] \in {"dropPending", "unlockReserved"} => sharedBytes[p] = "F_RDLCK"
    /\ at[p] = "unlockAll" =>
          sharedBytes[p] = IF eFileLock[Caller(p)] = EXCLUSIVE_LOCK THEN "F_WRLCK" ELSE "F_RDLCK"
    /\ at[p] \in {"idle", "exclusiveRange"} =>
          /\ inodeLock[p] = NO_LOCK => sharedBytes[p] = "F_UNLCK"
          /\ inodeLock[p] \in {SHARED_LOCK, RESERVED_LOCK, PENDING_LOCK} => sharedBytes[p] = "F_RDLCK"
          /\ inodeLock[p] = EXCLUSIVE_LOCK => sharedBytes[p] = "F_WRLCK"
    /\ inodeLock[p] \in {RESERVED_LOCK, PENDING_LOCK} => reservedByte[p] = "F_WRLCK"
    /\ inodeLock[p] <= SHARED_LOCK => reservedByte[p] = "F_UNLCK"
    /\ inodeLock[p] = PENDING_LOCK => pendingByte[p] = "F_WRLCK"
    /\ inodeLock[p] <= RESERVED_LOCK /\ at[p] \notin Sharing => pendingByte[p] = "F_UNLCK"
    /\ at[p] \in Sharing => pendingByte[p] = "F_RDLCK"

LocalInv == \A p \in Procs : CallOk(p) /\ LevelsOk(p) /\ CountOk(p) /\ KernelOk(p)

(* What the kernel grants to two processes does not conflict. *)
Exclusive(range) == \A p, q \in Procs : p # q /\ range[p] = "F_WRLCK" => range[q] = "F_UNLCK"
KernelInv == Exclusive(pendingByte) /\ Exclusive(reservedByte) /\ Exclusive(sharedBytes)

Local(p) == CallOk(p) /\ LevelsOk(p) /\ CountOk(p) /\ KernelOk(p)
Inv == TypeOK /\ LocalInv /\ KernelInv

-----------------------------------------------------------------------------
(* The sharers of a process are counted. *)
LEMMA Finite ==
    ASSUME NEW p \in Procs
    PROVE  /\ IsFiniteSet(FilesOf(p)) /\ Cardinality(FilesOf(p)) \in Nat
           /\ IsFiniteSet(Sharers(p)) /\ Cardinality(Sharers(p)) \in Nat
           /\ IsFiniteSet(FilesOf(p) \cap open) /\ Cardinality(FilesOf(p) \cap open) \in Nat
<1>1. FilesOf(p) \in SUBSET Files /\ Sharers(p) \in SUBSET Files
      /\ FilesOf(p) \cap open \in SUBSET Files
  BY DEF FilesOf, Sharers
<1> QED BY <1>1, FilesAssumption, FS_Subset, FS_CardinalityType

LEMMA Finite2 ==
    ASSUME NEW p \in Procs
    PROVE  /\ IsFiniteSet(Sharers(p)') /\ Cardinality(Sharers(p)') \in Nat
           /\ IsFiniteSet((FilesOf(p) \cap open)') /\ Cardinality((FilesOf(p) \cap open)') \in Nat
<1>1. Sharers(p)' \in SUBSET Files /\ (FilesOf(p) \cap open)' \in SUBSET Files
  BY DEF FilesOf, Sharers
<1> QED BY <1>1, FilesAssumption, FS_Subset, FS_CardinalityType

LEMMA Opens ==
    ASSUME NEW p \in Procs, NEW f \in FilesOf(p) \ open, open' = open \cup {f}
    PROVE  /\ Cardinality((FilesOf(p) \cap open)') = Cardinality(FilesOf(p) \cap open) + 1
           /\ Cardinality((FilesOf(p) \cap open)') <= Cardinality(FilesOf(p))
<1>1. (FilesOf(p) \cap open)' = (FilesOf(p) \cap open) \cup {f} /\ f \notin FilesOf(p) \cap open
  BY DEF FilesOf
<1>2. (FilesOf(p) \cap open)' \in SUBSET FilesOf(p)
  BY <1>1
<1>3. Cardinality((FilesOf(p) \cap open)') <= Cardinality(FilesOf(p))
  BY <1>2, Finite, FS_Subset
<1> QED BY <1>1, <1>3, Finite, FS_AddElement

LEMMA Closes ==
    ASSUME NEW p \in Procs, NEW f \in FilesOf(p) \cap open, open' = open \ {f}
    PROVE  Cardinality((FilesOf(p) \cap open)') = Cardinality(FilesOf(p) \cap open) - 1
<1>1. (FilesOf(p) \cap open)' = (FilesOf(p) \cap open) \ {f}
  BY DEF FilesOf
<1> QED BY <1>1, Finite, FS_RemoveElement

LEMMA SharersAre ==
    ASSUME TypeOK, NEW p \in Procs
    PROVE  Sharers(p) = {f \in FilesOf(p) : eFileLock[f] # NO_LOCK}
BY DEF TypeOK, Sharers, FilesOf, Levels, NO_LOCK, SHARED_LOCK, EXCLUSIVE_LOCK

LEMMA NoSharers ==
    ASSUME TypeOK, NEW p \in Procs
    PROVE  Cardinality(Sharers(p)) = 0 <=> \A f \in FilesOf(p) : eFileLock[f] = NO_LOCK
<1>1. Cardinality(Sharers(p)) = 0 <=> Sharers(p) = {}
  BY Finite, FS_EmptySet
<1> QED BY <1>1, SharersAre

LEMMA OnlySharer ==
    ASSUME TypeOK, NEW p \in Procs, NEW f \in FilesOf(p), eFileLock[f] # NO_LOCK
    PROVE  Cardinality(Sharers(p)) = 1 <=> \A g \in FilesOf(p) \ {f} : eFileLock[g] = NO_LOCK
<1>1. Cardinality(Sharers(p)) = 1 <=> \E x : Sharers(p) = {x}
  BY Finite, FS_Singleton
<1>2. f \in Sharers(p)
  BY SharersAre
<1>3. (\E x : Sharers(p) = {x}) <=> Sharers(p) = {f}
  BY <1>2
<1>4. Sharers(p) = {f} <=> \A g \in FilesOf(p) \ {f} : eFileLock[g] = NO_LOCK
  BY <1>2, SharersAre
<1> QED BY <1>1, <1>3, <1>4

LEMMA Joins ==
    ASSUME TypeOK, NEW f \in Files, NEW l \in Levels, l # NO_LOCK,
           eFileLock[f] = NO_LOCK, eFileLock' = [eFileLock EXCEPT ![f] = l]
    PROVE  Cardinality(Sharers(ProcOf[f])') = Cardinality(Sharers(ProcOf[f])) + 1
<1> DEFINE p == ProcOf[f]
<1>1. p \in Procs
  BY FilesAssumption
<1>2. Sharers(p)' = Sharers(p) \cup {f} /\ f \notin Sharers(p)
  BY DEF TypeOK, Sharers, FilesOf, Levels, NO_LOCK, SHARED_LOCK, EXCLUSIVE_LOCK
<1> QED BY <1>1, <1>2, Finite, FS_AddElement

LEMMA Leaves ==
    ASSUME TypeOK, NEW f \in Files, eFileLock[f] # NO_LOCK,
           eFileLock' = [eFileLock EXCEPT ![f] = NO_LOCK]
    PROVE  /\ Cardinality(Sharers(ProcOf[f])) \in Nat \ {0}
           /\ Cardinality(Sharers(ProcOf[f])') = Cardinality(Sharers(ProcOf[f])) - 1
<1> DEFINE p == ProcOf[f]
<1>1. p \in Procs
  BY FilesAssumption
<1>2. Sharers(p)' = Sharers(p) \ {f} /\ f \in Sharers(p)
  BY DEF TypeOK, Sharers, FilesOf, Levels, NO_LOCK, SHARED_LOCK, EXCLUSIVE_LOCK
<1>3. Sharers(p) # {}
  BY <1>2
<1> QED BY <1>1, <1>2, <1>3, Finite, FS_RemoveElement, FS_EmptySet

LEMMA Stays ==
    ASSUME TypeOK, NEW f \in Files, NEW l \in Levels, l # NO_LOCK,
           eFileLock[f] # NO_LOCK, eFileLock' = [eFileLock EXCEPT ![f] = l]
    PROVE  Sharers(ProcOf[f])' = Sharers(ProcOf[f])
BY DEF TypeOK, Sharers, FilesOf, Levels, NO_LOCK, SHARED_LOCK, EXCLUSIVE_LOCK

(* Opening, closing and unlocking keep the counts right. *)
LEMMA CountsOpened ==
    ASSUME TypeOK, NEW p \in Procs, CountOk(p), NEW f \in FilesOf(p) \ open,
           open' = open \cup {f}, eFileLock' = eFileLock,
           nShared'[p] = nShared[p], nLock'[p] = nLock[p],
           nUnused[p] = 0 => nUnused'[p] = 0,
           nUnused[p] # 0 => nUnused'[p] = nUnused[p] - 1
    PROVE  CountOk(p)'
<1>1. Sharers(p)' = Sharers(p) /\ FilesOf(p)' = FilesOf(p)
  BY DEF Sharers, FilesOf
<1>2. nUnused[p] \in Nat
  BY DEF TypeOK
<1>3. Cardinality(FilesOf(p) \cap open) \in Nat /\ Cardinality(FilesOf(p)) \in Nat
  BY Finite
<1>4. nUnused[p] + Cardinality(FilesOf(p) \cap open) <= Cardinality(FilesOf(p))
  BY DEF CountOk
<1>5. /\ Cardinality((FilesOf(p) \cap open)') = Cardinality(FilesOf(p) \cap open) + 1
      /\ Cardinality((FilesOf(p) \cap open)') <= Cardinality(FilesOf(p))
  BY Opens
<1>6. nUnused'[p] + Cardinality((FilesOf(p) \cap open)') <= Cardinality(FilesOf(p))
  BY <1>2, <1>3, <1>4, <1>5
<1> QED BY <1>1, <1>2, <1>6 DEF CountOk

LEMMA CountsDeferred ==
    ASSUME TypeOK, NEW p \in Procs, CountOk(p), NEW f \in FilesOf(p) \cap open,
           open' = open \ {f}, eFileLock' = eFileLock,
           nShared'[p] = nShared[p], nLock'[p] = nLock[p], nLock[p] # 0,
           nUnused'[p] = nUnused[p] + 1
    PROVE  CountOk(p)'
<1>1. Sharers(p)' = Sharers(p) /\ FilesOf(p)' = FilesOf(p)
  BY DEF Sharers, FilesOf
<1>2. nUnused[p] \in Nat
  BY DEF TypeOK
<1>3. Cardinality(FilesOf(p) \cap open) \in Nat /\ Cardinality(FilesOf(p)) \in Nat
  BY Finite
<1>4. nUnused[p] + Cardinality(FilesOf(p) \cap open) <= Cardinality(FilesOf(p))
  BY DEF CountOk
<1>5. Cardinality((FilesOf(p) \cap open)') = Cardinality(FilesOf(p) \cap open) - 1
  BY Closes
<1>6. nUnused'[p] + Cardinality((FilesOf(p) \cap open)') <= Cardinality(FilesOf(p))
  BY <1>2, <1>3, <1>4, <1>5
<1> QED BY <1>1, <1>2, <1>6 DEF CountOk

LEMMA CountsClosed ==
    ASSUME TypeOK, NEW p \in Procs, CountOk(p), NEW f \in FilesOf(p) \cap open,
           open' = open \ {f}, eFileLock' = eFileLock,
           nShared'[p] = nShared[p], nLock'[p] = nLock[p],
           nUnused[p] = 0, nUnused'[p] = 0
    PROVE  CountOk(p)'
<1>1. Sharers(p)' = Sharers(p) /\ FilesOf(p)' = FilesOf(p)
  BY DEF Sharers, FilesOf
<1>2. nUnused[p] \in Nat
  BY DEF TypeOK
<1>3. Cardinality(FilesOf(p) \cap open) \in Nat /\ Cardinality(FilesOf(p)) \in Nat
  BY Finite
<1>4. nUnused[p] + Cardinality(FilesOf(p) \cap open) <= Cardinality(FilesOf(p))
  BY DEF CountOk
<1>5. Cardinality((FilesOf(p) \cap open)') = Cardinality(FilesOf(p) \cap open) - 1
  BY Closes
<1>6. nUnused'[p] + Cardinality((FilesOf(p) \cap open)') <= Cardinality(FilesOf(p))
  BY <1>2, <1>3, <1>4, <1>5
<1> QED BY <1>1, <1>2, <1>6 DEF CountOk

LEMMA CountsUnlocked ==
    ASSUME TypeOK, NEW p \in Procs, CountOk(p), NEW f \in FilesOf(p),
           eFileLock[f] # NO_LOCK, eFileLock' = [eFileLock EXCEPT ![f] = NO_LOCK], open' = open,
           nShared'[p] = nShared[p] - 1, nLock'[p] = nLock[p] - 1,
           nLock[p] = 1 => nUnused'[p] = 0,
           nLock[p] # 1 => nUnused'[p] = nUnused[p]
    PROVE  CountOk(p)'
<1>1. f \in Files /\ p = ProcOf[f]
  BY DEF FilesOf
<1>2. /\ Cardinality(Sharers(p)) \in Nat \ {0}
      /\ Cardinality(Sharers(p)') = Cardinality(Sharers(p)) - 1
  BY <1>1, Leaves
<1>3. (FilesOf(p) \cap open)' = FilesOf(p) \cap open /\ FilesOf(p)' = FilesOf(p)
  BY DEF FilesOf
<1>4. nShared'[p] = Cardinality(Sharers(p)') /\ nLock'[p] = nShared'[p]
  BY <1>2 DEF CountOk
<1>5. nLock'[p] = 0 => nUnused'[p] = 0
  BY <1>2 DEF CountOk
<1>6. nUnused'[p] + Cardinality((FilesOf(p) \cap open)') <= Cardinality(FilesOf(p))
  <2>1. nUnused[p] \in Nat
    BY DEF TypeOK
  <2>2. Cardinality(FilesOf(p) \cap open) \in Nat /\ Cardinality(FilesOf(p)) \in Nat
    BY Finite
  <2>3. nUnused[p] + Cardinality(FilesOf(p) \cap open) <= Cardinality(FilesOf(p))
    BY DEF CountOk
  <2>4. Cardinality((FilesOf(p) \cap open)') = Cardinality(FilesOf(p) \cap open)
    BY <1>3
  <2>5. nUnused'[p] = 0 \/ nUnused'[p] = nUnused[p]
    OBVIOUS
  <2> QED BY <2>1, <2>2, <2>3, <2>4, <2>5
<1> QED BY <1>3, <1>4, <1>5, <1>6 DEF CountOk


-----------------------------------------------------------------------------
(* A step of one process leaves the others as they are. *)
Same(p) ==
    /\ inodeLock'[p] = inodeLock[p] /\ nShared'[p] = nShared[p] /\ nLock'[p] = nLock[p]
    /\ nUnused'[p] = nUnused[p]
    /\ pendingByte'[p] = pendingByte[p] /\ reservedByte'[p] = reservedByte[p]
    /\ sharedBytes'[p] = sharedBytes[p]
    /\ holder'[p] = holder[p] /\ at'[p] = at[p] /\ closing'[p] = closing[p]
    /\ \A f \in FilesOf(p) : eFileLock'[f] = eFileLock[f]
    /\ (FilesOf(p) \cap open)' = FilesOf(p) \cap open

LEMMA Elsewhere ==
    ASSUME TypeOK, NEW p \in Procs, Local(p), Same(p)
    PROVE  Local(p)'
<1>1. FilesOf(p)' = FilesOf(p)
  BY DEF FilesOf
<1>2. \A f \in FilesOf(p) : ProcOf[f] = p
  BY DEF FilesOf
<1>3. at[p] # "idle" => Caller(p) \in FilesOf(p) /\ Caller(p)' = Caller(p)
  BY DEF Local, CallOk, Same, Caller, TypeOK, FilesOf
<1>4. CallOk(p)'
  BY <1>1, <1>3 DEF Local, CallOk, Same, Caller
<1>5. LevelsOk(p)'
  <2>1. \A f \in FilesOf(p) : InCall(f, "unlockAll")' <=> InCall(f, "unlockAll")
    BY <1>2 DEF InCall, Same
  <2> QED BY <1>1, <2>1 DEF Local, LevelsOk, Same
<1>6. CountOk(p)'
  <2>1. Sharers(p)' = Sharers(p)
    BY <1>1 DEF Sharers, Same
  <2> QED BY <1>1, <2>1 DEF Local, CountOk, Same
<1>7. KernelOk(p)'
  BY <1>3 DEF Local, KernelOk, Same, CallOk
<1> QED BY <1>4, <1>5, <1>6, <1>7 DEF Local

(* A connection that holds a lock is counted, and its process closes none. *)
LEMMA Counted ==
    ASSUME TypeOK, NEW p \in Procs, Local(p)
    PROVE  /\ nLock[p] = 0 <=> inodeLock[p] = NO_LOCK
           /\ nShared[p] = nLock[p] /\ nLock[p] \in Nat
           /\ \A f \in FilesOf(p) : eFileLock[f] # NO_LOCK =>
                  /\ nLock[p] # 0 /\ inodeLock[p] # NO_LOCK /\ closing[p] = NoFile
                  /\ nShared[p] = 1 <=> \A g \in FilesOf(p) \ {f} : eFileLock[g] = NO_LOCK
<1>1. nLock[p] = 0 <=> inodeLock[p] = NO_LOCK
  BY NoSharers DEF Local, CountOk, LevelsOk
<1>2. nShared[p] = nLock[p] /\ nLock[p] \in Nat
  BY DEF Local, CountOk, TypeOK
<1>3. ASSUME NEW f \in FilesOf(p), eFileLock[f] # NO_LOCK
      PROVE  /\ nLock[p] # 0 /\ inodeLock[p] # NO_LOCK /\ closing[p] = NoFile
             /\ nShared[p] = 1 <=> \A g \in FilesOf(p) \ {f} : eFileLock[g] = NO_LOCK
  <2>1. inodeLock[p] # NO_LOCK
    BY <1>3 DEF Local, LevelsOk
  <2>2. closing[p] = NoFile
    BY <1>1, <2>1 DEF Local, CallOk
  <2>3. nShared[p] = 1 <=> \A g \in FilesOf(p) \ {f} : eFileLock[g] = NO_LOCK
    BY <1>3, OnlySharer DEF Local, CountOk
  <2> QED BY <1>1, <2>1, <2>2, <2>3
<1> QED BY <1>1, <1>2, <1>3

LEMMA Together ==
    ASSUME TypeOK, LocalInv, NEW p \in Procs,
           \A q \in Procs \ {p} : Same(q), Local(p)'
    PROVE  LocalInv'
<1>1. \A q \in Procs \ {p} : Local(q)'
  BY Elsewhere DEF LocalInv, Local
<1> QED BY <1>1 DEF LocalInv, Local

LEMMA OpenKeeps == ASSUME Inv, NEW f \in Files, Open(f)
    PROVE  Inv' /\ \A q \in Procs \ {ProcOf[f]} : Same(q)
<1> DEFINE p == ProcOf[f]
<1> USE DEF Open, Continue, Return, FileLock, InodeLock, Fcntl, record, kernel, Free, InCall,
     DropAll, DropReserved, WantsExclusive,
     NO_LOCK, SHARED_LOCK, RESERVED_LOCK, PENDING_LOCK, EXCLUSIVE_LOCK
<1>1. p \in Procs /\ f \in FilesOf(p) /\ TypeOK /\ KernelInv /\ LocalInv /\ Local(p)
  BY FilesAssumption DEF Inv, LocalInv, Local, FilesOf
<1>9. /\ nLock[p] = 0 <=> inodeLock[p] = NO_LOCK
      /\ nShared[p] = nLock[p] /\ nLock[p] \in Nat
      /\ \A h \in FilesOf(p) : eFileLock[h] # NO_LOCK =>
             /\ nLock[p] # 0 /\ inodeLock[p] # NO_LOCK /\ closing[p] = NoFile
             /\ nShared[p] = 1 <=> \A g \in FilesOf(p) \ {h} : eFileLock[g] = NO_LOCK
  BY <1>1, Counted
<1>2. TypeOK'
  BY <1>1, <1>9 DEF TypeOK, Levels, Modes, Steps, Local, CallOk
<1>3. \A q \in Procs \ {p} : Same(q)
  BY <1>1 DEF TypeOK, Same, FilesOf
<1>4. CallOk(p)'
  BY <1>1, <1>9, FilesAssumption DEF TypeOK, Local, CallOk, Caller, Sharing, FilesOf
<1>5. LevelsOk(p)'
  BY <1>1, <1>9, FilesAssumption DEF TypeOK, Local, CallOk, LevelsOk, Caller, Sharing, Levels, FilesOf
<1>6. CountOk(p)'
  <2>1. f \in FilesOf(p) \ open /\ open' = open \cup {f} /\ eFileLock' = eFileLock
    BY <1>1
  <2>2. /\ nShared'[p] = nShared[p] /\ nLock'[p] = nLock[p]
        /\ nUnused[p] = 0 => nUnused'[p] = 0
        /\ nUnused[p] # 0 => nUnused'[p] = nUnused[p] - 1
    BY <1>1 DEF TypeOK
  <2> QED BY <1>1, <2>1, <2>2, CountsOpened DEF Local
<1>7. KernelOk(p)'
  BY <1>1, <1>9, FilesAssumption DEF TypeOK, Local, CallOk, KernelOk, LevelsOk, Caller, Sharing, Levels, FilesOf
<1>8. KernelInv'
  BY <1>1 DEF TypeOK, KernelInv, Exclusive, Modes, Grants
<1> QED BY <1>1, <1>2, <1>3, <1>4, <1>5, <1>6, <1>7, <1>8, Together DEF Inv, Local

LEMMA ShareWithOthersKeeps == ASSUME Inv, NEW f \in Files, ShareWithOthers(f)
    PROVE  Inv' /\ \A q \in Procs \ {ProcOf[f]} : Same(q)
<1> DEFINE p == ProcOf[f]
<1> USE DEF ShareWithOthers, Continue, Return, FileLock, InodeLock, Fcntl, record, kernel, Free, InCall,
     DropAll, DropReserved, WantsExclusive,
     NO_LOCK, SHARED_LOCK, RESERVED_LOCK, PENDING_LOCK, EXCLUSIVE_LOCK
<1>1. p \in Procs /\ f \in FilesOf(p) /\ TypeOK /\ KernelInv /\ LocalInv /\ Local(p)
  BY FilesAssumption DEF Inv, LocalInv, Local, FilesOf
<1>9. /\ nLock[p] = 0 <=> inodeLock[p] = NO_LOCK
      /\ nShared[p] = nLock[p] /\ nLock[p] \in Nat
      /\ \A h \in FilesOf(p) : eFileLock[h] # NO_LOCK =>
             /\ nLock[p] # 0 /\ inodeLock[p] # NO_LOCK /\ closing[p] = NoFile
             /\ nShared[p] = 1 <=> \A g \in FilesOf(p) \ {h} : eFileLock[g] = NO_LOCK
  BY <1>1, Counted
<1>2. TypeOK'
  BY <1>1, <1>9 DEF TypeOK, Levels, Modes, Steps, Local, CallOk
<1>3. \A q \in Procs \ {p} : Same(q)
  BY <1>1 DEF TypeOK, Same, FilesOf
<1>4. CallOk(p)'
  BY <1>1, <1>9, FilesAssumption DEF TypeOK, Local, CallOk, Caller, Sharing, FilesOf
<1>5. LevelsOk(p)'
  BY <1>1, <1>9, FilesAssumption DEF TypeOK, Local, CallOk, LevelsOk, Caller, Sharing, Levels, FilesOf
<1>6. CountOk(p)'
  <2>0. eFileLock[f] = NO_LOCK /\ NO_LOCK \in Levels /\ SHARED_LOCK \in Levels /\ SHARED_LOCK # NO_LOCK
        /\ eFileLock' = [eFileLock EXCEPT ![f] = SHARED_LOCK]
    BY <1>1, <1>9 DEF Levels, Local, CallOk, Caller, Sharing, LevelsOk
  <2>1. Cardinality(Sharers(p)') = Cardinality(Sharers(p)) + 1
    BY <1>1, <1>9, <2>0, Joins
  <2>2. (FilesOf(p) \cap open)' = FilesOf(p) \cap open
    BY DEF FilesOf
  <2>3. nShared[p] = Cardinality(Sharers(p)) /\ nLock[p] = nShared[p]
    BY <1>1, <1>9, <2>0 DEF Local, CountOk, CallOk, Sharing
  <2> QED BY <1>1, <1>9, <2>1, <2>2, <2>3, Finite, Finite2 DEF TypeOK, Local, CountOk
<1>7. KernelOk(p)'
  BY <1>1, <1>9, FilesAssumption DEF TypeOK, Local, CallOk, KernelOk, LevelsOk, Caller, Sharing, Levels, FilesOf
<1>8. KernelInv'
  BY <1>1 DEF TypeOK, KernelInv, Exclusive, Modes, Grants
<1> QED BY <1>1, <1>2, <1>3, <1>4, <1>5, <1>6, <1>7, <1>8, Together DEF Inv, Local

LEMMA SharePendingKeeps == ASSUME Inv, NEW f \in Files, SharePending(f), closing[ProcOf[f]] = NoFile
    PROVE  Inv' /\ \A q \in Procs \ {ProcOf[f]} : Same(q)
<1> DEFINE p == ProcOf[f]
<1> USE DEF SharePending, Continue, Return, FileLock, InodeLock, Fcntl, record, kernel, Free, InCall,
     DropAll, DropReserved, WantsExclusive,
     NO_LOCK, SHARED_LOCK, RESERVED_LOCK, PENDING_LOCK, EXCLUSIVE_LOCK
<1>1. p \in Procs /\ f \in FilesOf(p) /\ TypeOK /\ KernelInv /\ LocalInv /\ Local(p)
  BY FilesAssumption DEF Inv, LocalInv, Local, FilesOf
<1>9. /\ nLock[p] = 0 <=> inodeLock[p] = NO_LOCK
      /\ nShared[p] = nLock[p] /\ nLock[p] \in Nat
      /\ \A h \in FilesOf(p) : eFileLock[h] # NO_LOCK =>
             /\ nLock[p] # 0 /\ inodeLock[p] # NO_LOCK /\ closing[p] = NoFile
             /\ nShared[p] = 1 <=> \A g \in FilesOf(p) \ {h} : eFileLock[g] = NO_LOCK
  BY <1>1, Counted
<1>2. TypeOK'
  BY <1>1, <1>9 DEF TypeOK, Levels, Modes, Steps, Local, CallOk
<1>3. \A q \in Procs \ {p} : Same(q)
  BY <1>1 DEF TypeOK, Same, FilesOf
<1>4. CallOk(p)'
  BY <1>1, <1>9, FilesAssumption DEF TypeOK, Local, CallOk, Caller, Sharing, FilesOf
<1>5. LevelsOk(p)'
  BY <1>1, <1>9, FilesAssumption DEF TypeOK, Local, CallOk, LevelsOk, Caller, Sharing, Levels, FilesOf
<1>6. CountOk(p)'
  <2>1. Sharers(p)' = Sharers(p) /\ (FilesOf(p) \cap open)' = FilesOf(p) \cap open
    BY DEF Sharers, FilesOf
  <2> QED BY <1>1, <2>1 DEF TypeOK, Local, CountOk
<1>7. KernelOk(p)'
  BY <1>1, <1>9, FilesAssumption DEF TypeOK, Local, CallOk, KernelOk, LevelsOk, Caller, Sharing, Levels, FilesOf
<1>8. KernelInv'
  BY <1>1 DEF TypeOK, KernelInv, Exclusive, Modes, Grants
<1> QED BY <1>1, <1>2, <1>3, <1>4, <1>5, <1>6, <1>7, <1>8, Together DEF Inv, Local

LEMMA ShareRangeKeeps == ASSUME Inv, NEW f \in Files, ShareRange(f)
    PROVE  Inv' /\ \A q \in Procs \ {ProcOf[f]} : Same(q)
<1> DEFINE p == ProcOf[f]
<1> USE DEF ShareRange, Continue, Return, FileLock, InodeLock, Fcntl, record, kernel, Free, InCall,
     DropAll, DropReserved, WantsExclusive,
     NO_LOCK, SHARED_LOCK, RESERVED_LOCK, PENDING_LOCK, EXCLUSIVE_LOCK
<1>1. p \in Procs /\ f \in FilesOf(p) /\ TypeOK /\ KernelInv /\ LocalInv /\ Local(p)
  BY FilesAssumption DEF Inv, LocalInv, Local, FilesOf
<1>9. /\ nLock[p] = 0 <=> inodeLock[p] = NO_LOCK
      /\ nShared[p] = nLock[p] /\ nLock[p] \in Nat
      /\ \A h \in FilesOf(p) : eFileLock[h] # NO_LOCK =>
             /\ nLock[p] # 0 /\ inodeLock[p] # NO_LOCK /\ closing[p] = NoFile
             /\ nShared[p] = 1 <=> \A g \in FilesOf(p) \ {h} : eFileLock[g] = NO_LOCK
  BY <1>1, Counted
<1>2. TypeOK'
  BY <1>1, <1>9 DEF TypeOK, Levels, Modes, Steps, Local, CallOk
<1>3. \A q \in Procs \ {p} : Same(q)
  BY <1>1 DEF TypeOK, Same, FilesOf
<1>4. CallOk(p)'
  BY <1>1, <1>9, FilesAssumption DEF TypeOK, Local, CallOk, Caller, Sharing, FilesOf
<1>5. LevelsOk(p)'
  BY <1>1, <1>9, FilesAssumption DEF TypeOK, Local, CallOk, LevelsOk, Caller, Sharing, Levels, FilesOf
<1>6. CountOk(p)'
  <2>1. Sharers(p)' = Sharers(p) /\ (FilesOf(p) \cap open)' = FilesOf(p) \cap open
    BY DEF Sharers, FilesOf
  <2> QED BY <1>1, <2>1 DEF TypeOK, Local, CountOk
<1>7. KernelOk(p)'
  BY <1>1, <1>9, FilesAssumption DEF TypeOK, Local, CallOk, KernelOk, LevelsOk, Caller, Sharing, Levels, FilesOf
<1>8. KernelInv'
  BY <1>1 DEF TypeOK, KernelInv, Exclusive, Modes, Grants
<1> QED BY <1>1, <1>2, <1>3, <1>4, <1>5, <1>6, <1>7, <1>8, Together DEF Inv, Local

LEMMA ShareDoneKeeps == ASSUME Inv, NEW f \in Files, ShareDone(f)
    PROVE  Inv' /\ \A q \in Procs \ {ProcOf[f]} : Same(q)
<1> DEFINE p == ProcOf[f]
<1> USE DEF ShareDone, Continue, Return, FileLock, InodeLock, Fcntl, record, kernel, Free, InCall,
     DropAll, DropReserved, WantsExclusive,
     NO_LOCK, SHARED_LOCK, RESERVED_LOCK, PENDING_LOCK, EXCLUSIVE_LOCK
<1>1. p \in Procs /\ f \in FilesOf(p) /\ TypeOK /\ KernelInv /\ LocalInv /\ Local(p)
  BY FilesAssumption DEF Inv, LocalInv, Local, FilesOf
<1>9. /\ nLock[p] = 0 <=> inodeLock[p] = NO_LOCK
      /\ nShared[p] = nLock[p] /\ nLock[p] \in Nat
      /\ \A h \in FilesOf(p) : eFileLock[h] # NO_LOCK =>
             /\ nLock[p] # 0 /\ inodeLock[p] # NO_LOCK /\ closing[p] = NoFile
             /\ nShared[p] = 1 <=> \A g \in FilesOf(p) \ {h} : eFileLock[g] = NO_LOCK
  BY <1>1, Counted
<1>2. TypeOK'
  BY <1>1, <1>9 DEF TypeOK, Levels, Modes, Steps, Local, CallOk
<1>3. \A q \in Procs \ {p} : Same(q)
  BY <1>1 DEF TypeOK, Same, FilesOf
<1>4. CallOk(p)'
  BY <1>1, <1>9, FilesAssumption DEF TypeOK, Local, CallOk, Caller, Sharing, FilesOf
<1>5. LevelsOk(p)'
  BY <1>1, <1>9, FilesAssumption DEF TypeOK, Local, CallOk, LevelsOk, Caller, Sharing, Levels, FilesOf
<1>6. CountOk(p)'
  <2>0. eFileLock[f] = NO_LOCK /\ NO_LOCK \in Levels /\ SHARED_LOCK \in Levels /\ SHARED_LOCK # NO_LOCK
        /\ eFileLock' = [eFileLock EXCEPT ![f] = SHARED_LOCK]
    BY <1>1, <1>9 DEF Levels, Local, CallOk, Caller, Sharing, LevelsOk
  <2>1. Cardinality(Sharers(p)') = Cardinality(Sharers(p)) + 1
    BY <1>1, <1>9, <2>0, Joins
  <2>2. (FilesOf(p) \cap open)' = FilesOf(p) \cap open
    BY DEF FilesOf
  <2>3. nShared[p] = Cardinality(Sharers(p)) /\ nShared[p] = 0
    BY <1>1, <1>9, <2>0 DEF Local, CountOk, CallOk, Sharing
  <2> QED BY <1>1, <1>9, <2>1, <2>2, <2>3, Finite, Finite2 DEF TypeOK, Local, CountOk
<1>7. KernelOk(p)'
  BY <1>1, <1>9, FilesAssumption DEF TypeOK, Local, CallOk, KernelOk, LevelsOk, Caller, Sharing, Levels, FilesOf
<1>8. KernelInv'
  BY <1>1 DEF TypeOK, KernelInv, Exclusive, Modes, Grants
<1> QED BY <1>1, <1>2, <1>3, <1>4, <1>5, <1>6, <1>7, <1>8, Together DEF Inv, Local

LEMMA ShareFailsKeeps == ASSUME Inv, NEW f \in Files, ShareFails(f)
    PROVE  Inv' /\ \A q \in Procs \ {ProcOf[f]} : Same(q)
<1> DEFINE p == ProcOf[f]
<1> USE DEF ShareFails, Continue, Return, FileLock, InodeLock, Fcntl, record, kernel, Free, InCall,
     DropAll, DropReserved, WantsExclusive,
     NO_LOCK, SHARED_LOCK, RESERVED_LOCK, PENDING_LOCK, EXCLUSIVE_LOCK
<1>1. p \in Procs /\ f \in FilesOf(p) /\ TypeOK /\ KernelInv /\ LocalInv /\ Local(p)
  BY FilesAssumption DEF Inv, LocalInv, Local, FilesOf
<1>9. /\ nLock[p] = 0 <=> inodeLock[p] = NO_LOCK
      /\ nShared[p] = nLock[p] /\ nLock[p] \in Nat
      /\ \A h \in FilesOf(p) : eFileLock[h] # NO_LOCK =>
             /\ nLock[p] # 0 /\ inodeLock[p] # NO_LOCK /\ closing[p] = NoFile
             /\ nShared[p] = 1 <=> \A g \in FilesOf(p) \ {h} : eFileLock[g] = NO_LOCK
  BY <1>1, Counted
<1>2. TypeOK'
  BY <1>1, <1>9 DEF TypeOK, Levels, Modes, Steps, Local, CallOk
<1>3. \A q \in Procs \ {p} : Same(q)
  BY <1>1 DEF TypeOK, Same, FilesOf
<1>4. CallOk(p)'
  BY <1>1, <1>9, FilesAssumption DEF TypeOK, Local, CallOk, Caller, Sharing, FilesOf
<1>5. LevelsOk(p)'
  BY <1>1, <1>9, FilesAssumption DEF TypeOK, Local, CallOk, LevelsOk, Caller, Sharing, Levels, FilesOf
<1>6. CountOk(p)'
  <2>1. Sharers(p)' = Sharers(p) /\ (FilesOf(p) \cap open)' = FilesOf(p) \cap open
    BY DEF Sharers, FilesOf
  <2> QED BY <1>1, <2>1 DEF TypeOK, Local, CountOk
<1>7. KernelOk(p)'
  BY <1>1, <1>9, FilesAssumption DEF TypeOK, Local, CallOk, KernelOk, LevelsOk, Caller, Sharing, Levels, FilesOf
<1>8. KernelInv'
  BY <1>1 DEF TypeOK, KernelInv, Exclusive, Modes, Grants
<1> QED BY <1>1, <1>2, <1>3, <1>4, <1>5, <1>6, <1>7, <1>8, Together DEF Inv, Local

LEMMA ReserveKeeps == ASSUME Inv, NEW f \in Files, Reserve(f)
    PROVE  Inv' /\ \A q \in Procs \ {ProcOf[f]} : Same(q)
<1> DEFINE p == ProcOf[f]
<1> USE DEF Reserve, Continue, Return, FileLock, InodeLock, Fcntl, record, kernel, Free, InCall,
     DropAll, DropReserved, WantsExclusive,
     NO_LOCK, SHARED_LOCK, RESERVED_LOCK, PENDING_LOCK, EXCLUSIVE_LOCK
<1>1. p \in Procs /\ f \in FilesOf(p) /\ TypeOK /\ KernelInv /\ LocalInv /\ Local(p)
  BY FilesAssumption DEF Inv, LocalInv, Local, FilesOf
<1>9. /\ nLock[p] = 0 <=> inodeLock[p] = NO_LOCK
      /\ nShared[p] = nLock[p] /\ nLock[p] \in Nat
      /\ \A h \in FilesOf(p) : eFileLock[h] # NO_LOCK =>
             /\ nLock[p] # 0 /\ inodeLock[p] # NO_LOCK /\ closing[p] = NoFile
             /\ nShared[p] = 1 <=> \A g \in FilesOf(p) \ {h} : eFileLock[g] = NO_LOCK
  BY <1>1, Counted
<1>2. TypeOK'
  BY <1>1, <1>9 DEF TypeOK, Levels, Modes, Steps, Local, CallOk
<1>3. \A q \in Procs \ {p} : Same(q)
  BY <1>1 DEF TypeOK, Same, FilesOf
<1>4. CallOk(p)'
  BY <1>1, <1>9, FilesAssumption DEF TypeOK, Local, CallOk, Caller, Sharing, FilesOf
<1>5. LevelsOk(p)'
  BY <1>1, <1>9, FilesAssumption DEF TypeOK, Local, CallOk, LevelsOk, Caller, Sharing, Levels, FilesOf
<1>6. CountOk(p)'
  <2>0. eFileLock[f] # NO_LOCK /\ NO_LOCK \in Levels /\ RESERVED_LOCK \in Levels /\ RESERVED_LOCK # NO_LOCK
        /\ eFileLock' = [eFileLock EXCEPT ![f] = RESERVED_LOCK]
    BY <1>1, <1>9 DEF Levels, Local, CallOk, Caller, Sharing, LevelsOk
  <2>1. Sharers(p)' = Sharers(p)
    BY <1>1, <1>9, <2>0, Stays
  <2>2. (FilesOf(p) \cap open)' = FilesOf(p) \cap open
    BY DEF FilesOf
  <2>3. nShared[p] = Cardinality(Sharers(p)) /\ nLock[p] = nShared[p]
    BY <1>1, <1>9, <2>0 DEF Local, CountOk, CallOk, Sharing
  <2> QED BY <1>1, <1>9, <2>1, <2>2, <2>3, Finite, Finite2 DEF TypeOK, Local, CountOk
<1>7. KernelOk(p)'
  BY <1>1, <1>9, FilesAssumption DEF TypeOK, Local, CallOk, KernelOk, LevelsOk, Caller, Sharing, Levels, FilesOf
<1>8. KernelInv'
  BY <1>1 DEF TypeOK, KernelInv, Exclusive, Modes, Grants
<1> QED BY <1>1, <1>2, <1>3, <1>4, <1>5, <1>6, <1>7, <1>8, Together DEF Inv, Local

LEMMA ExclusivePendingKeeps == ASSUME Inv, NEW f \in Files, ExclusivePending(f)
    PROVE  Inv' /\ \A q \in Procs \ {ProcOf[f]} : Same(q)
<1> DEFINE p == ProcOf[f]
<1> USE DEF ExclusivePending, Continue, Return, FileLock, InodeLock, Fcntl, record, kernel, Free, InCall,
     DropAll, DropReserved, WantsExclusive,
     NO_LOCK, SHARED_LOCK, RESERVED_LOCK, PENDING_LOCK, EXCLUSIVE_LOCK
<1>1. p \in Procs /\ f \in FilesOf(p) /\ TypeOK /\ KernelInv /\ LocalInv /\ Local(p)
  BY FilesAssumption DEF Inv, LocalInv, Local, FilesOf
<1>9. /\ nLock[p] = 0 <=> inodeLock[p] = NO_LOCK
      /\ nShared[p] = nLock[p] /\ nLock[p] \in Nat
      /\ \A h \in FilesOf(p) : eFileLock[h] # NO_LOCK =>
             /\ nLock[p] # 0 /\ inodeLock[p] # NO_LOCK /\ closing[p] = NoFile
             /\ nShared[p] = 1 <=> \A g \in FilesOf(p) \ {h} : eFileLock[g] = NO_LOCK
  BY <1>1, Counted
<1>2. TypeOK'
  BY <1>1, <1>9 DEF TypeOK, Levels, Modes, Steps, Local, CallOk
<1>3. \A q \in Procs \ {p} : Same(q)
  BY <1>1 DEF TypeOK, Same, FilesOf
<1>4. CallOk(p)'
  <2>1. nShared[p] \in Nat \ {0} /\ closing[p] = NoFile /\ at[p] = "idle"
    BY <1>1, <1>9 DEF Local, CallOk
  <2>2. CASE nShared[p] > 1
    <3>1. /\ holder' = holder /\ at' = at /\ closing' = closing /\ nLock' = nLock
      BY <2>2
    <3> QED BY <2>1, <3>1 DEF CallOk, Sharing
  <2>3. CASE ~(nShared[p] > 1)
    <3>1. nShared[p] = 1
      BY <2>1, <2>3
    <3>2. holder'[p] = f /\ at'[p] = "exclusiveRange" /\ eFileLock'[f] = PENDING_LOCK
          /\ nShared' = nShared /\ closing' = closing /\ ProcOf[f] = p /\ f # NoFile
      BY <1>1, <2>3, FilesAssumption DEF TypeOK
    <3> QED BY <2>1, <3>1, <3>2 DEF CallOk, Caller, Sharing
  <2> QED BY <2>2, <2>3
<1>5. LevelsOk(p)'
  BY <1>1, <1>9, FilesAssumption DEF TypeOK, Local, CallOk, LevelsOk, Caller, Sharing, Levels, FilesOf
<1>6. CountOk(p)'
  <2>0. eFileLock[f] # NO_LOCK /\ NO_LOCK \in Levels /\ PENDING_LOCK \in Levels /\ PENDING_LOCK # NO_LOCK
        /\ eFileLock' = [eFileLock EXCEPT ![f] = PENDING_LOCK]
    BY <1>1, <1>9 DEF Levels, Local, CallOk, Caller, Sharing, LevelsOk
  <2>1. Sharers(p)' = Sharers(p)
    BY <1>1, <1>9, <2>0, Stays
  <2>2. (FilesOf(p) \cap open)' = FilesOf(p) \cap open
    BY DEF FilesOf
  <2>3. nShared[p] = Cardinality(Sharers(p)) /\ nLock[p] = nShared[p]
    BY <1>1, <1>9, <2>0 DEF Local, CountOk, CallOk, Sharing
  <2> QED BY <1>1, <1>9, <2>1, <2>2, <2>3, Finite, Finite2 DEF TypeOK, Local, CountOk
<1>7. KernelOk(p)'
  BY <1>1, <1>9, FilesAssumption DEF TypeOK, Local, CallOk, KernelOk, LevelsOk, Caller, Sharing, Levels, FilesOf
<1>8. KernelInv'
  BY <1>1 DEF TypeOK, KernelInv, Exclusive, Modes, Grants
<1> QED BY <1>1, <1>2, <1>3, <1>4, <1>5, <1>6, <1>7, <1>8, Together DEF Inv, Local

LEMMA ExclusiveGrantedKeeps == ASSUME Inv, NEW f \in Files, ExclusiveGranted(f)
    PROVE  Inv' /\ \A q \in Procs \ {ProcOf[f]} : Same(q)
<1> DEFINE p == ProcOf[f]
<1> USE DEF ExclusiveGranted, Continue, Return, FileLock, InodeLock, Fcntl, record, kernel, Free, InCall,
     DropAll, DropReserved, WantsExclusive,
     NO_LOCK, SHARED_LOCK, RESERVED_LOCK, PENDING_LOCK, EXCLUSIVE_LOCK
<1>1. p \in Procs /\ f \in FilesOf(p) /\ TypeOK /\ KernelInv /\ LocalInv /\ Local(p)
  BY FilesAssumption DEF Inv, LocalInv, Local, FilesOf
<1>9. /\ nLock[p] = 0 <=> inodeLock[p] = NO_LOCK
      /\ nShared[p] = nLock[p] /\ nLock[p] \in Nat
      /\ \A h \in FilesOf(p) : eFileLock[h] # NO_LOCK =>
             /\ nLock[p] # 0 /\ inodeLock[p] # NO_LOCK /\ closing[p] = NoFile
             /\ nShared[p] = 1 <=> \A g \in FilesOf(p) \ {h} : eFileLock[g] = NO_LOCK
  BY <1>1, Counted
<1>2. TypeOK'
  BY <1>1, <1>9 DEF TypeOK, Levels, Modes, Steps, Local, CallOk
<1>3. \A q \in Procs \ {p} : Same(q)
  BY <1>1 DEF TypeOK, Same, FilesOf
<1>4. CallOk(p)'
  BY <1>1, <1>9, FilesAssumption DEF TypeOK, Local, CallOk, Caller, Sharing, FilesOf
<1>5. LevelsOk(p)'
  BY <1>1, <1>9, FilesAssumption DEF TypeOK, Local, CallOk, LevelsOk, Caller, Sharing, Levels, FilesOf
<1>6. CountOk(p)'
  <2>0. eFileLock[f] # NO_LOCK /\ NO_LOCK \in Levels /\ EXCLUSIVE_LOCK \in Levels /\ EXCLUSIVE_LOCK # NO_LOCK
        /\ eFileLock' = [eFileLock EXCEPT ![f] = EXCLUSIVE_LOCK]
    BY <1>1, <1>9 DEF Levels, Local, CallOk, Caller, Sharing, LevelsOk
  <2>1. Sharers(p)' = Sharers(p)
    BY <1>1, <1>9, <2>0, Stays
  <2>2. (FilesOf(p) \cap open)' = FilesOf(p) \cap open
    BY DEF FilesOf
  <2>3. nShared[p] = Cardinality(Sharers(p)) /\ nLock[p] = nShared[p]
    BY <1>1, <1>9, <2>0 DEF Local, CountOk, CallOk, Sharing
  <2> QED BY <1>1, <1>9, <2>1, <2>2, <2>3, Finite, Finite2 DEF TypeOK, Local, CountOk
<1>7. KernelOk(p)'
  BY <1>1, <1>9, FilesAssumption DEF TypeOK, Local, CallOk, KernelOk, LevelsOk, Caller, Sharing, Levels, FilesOf
<1>8. KernelInv'
  BY <1>1 DEF TypeOK, KernelInv, Exclusive, Modes, Grants
<1> QED BY <1>1, <1>2, <1>3, <1>4, <1>5, <1>6, <1>7, <1>8, Together DEF Inv, Local

LEMMA ExclusiveBusyKeeps == ASSUME Inv, NEW f \in Files, ExclusiveBusy(f)
    PROVE  Inv' /\ \A q \in Procs \ {ProcOf[f]} : Same(q)
<1> DEFINE p == ProcOf[f]
<1> USE DEF ExclusiveBusy, Continue, Return, FileLock, InodeLock, Fcntl, record, kernel, Free, InCall,
     DropAll, DropReserved, WantsExclusive,
     NO_LOCK, SHARED_LOCK, RESERVED_LOCK, PENDING_LOCK, EXCLUSIVE_LOCK
<1>1. p \in Procs /\ f \in FilesOf(p) /\ TypeOK /\ KernelInv /\ LocalInv /\ Local(p)
  BY FilesAssumption DEF Inv, LocalInv, Local, FilesOf
<1>9. /\ nLock[p] = 0 <=> inodeLock[p] = NO_LOCK
      /\ nShared[p] = nLock[p] /\ nLock[p] \in Nat
      /\ \A h \in FilesOf(p) : eFileLock[h] # NO_LOCK =>
             /\ nLock[p] # 0 /\ inodeLock[p] # NO_LOCK /\ closing[p] = NoFile
             /\ nShared[p] = 1 <=> \A g \in FilesOf(p) \ {h} : eFileLock[g] = NO_LOCK
  BY <1>1, Counted
<1>2. TypeOK'
  BY <1>1, <1>9 DEF TypeOK, Levels, Modes, Steps, Local, CallOk
<1>3. \A q \in Procs \ {p} : Same(q)
  BY <1>1 DEF TypeOK, Same, FilesOf
<1>4. CallOk(p)'
  BY <1>1, <1>9, FilesAssumption DEF TypeOK, Local, CallOk, Caller, Sharing, FilesOf
<1>5. LevelsOk(p)'
  BY <1>1, <1>9, FilesAssumption DEF TypeOK, Local, CallOk, LevelsOk, Caller, Sharing, Levels, FilesOf
<1>6. CountOk(p)'
  <2>1. Sharers(p)' = Sharers(p) /\ (FilesOf(p) \cap open)' = FilesOf(p) \cap open
    BY DEF Sharers, FilesOf
  <2> QED BY <1>1, <2>1 DEF TypeOK, Local, CountOk
<1>7. KernelOk(p)'
  BY <1>1, <1>9, FilesAssumption DEF TypeOK, Local, CallOk, KernelOk, LevelsOk, Caller, Sharing, Levels, FilesOf
<1>8. KernelInv'
  BY <1>1 DEF TypeOK, KernelInv, Exclusive, Modes, Grants
<1> QED BY <1>1, <1>2, <1>3, <1>4, <1>5, <1>6, <1>7, <1>8, Together DEF Inv, Local

LEMMA DowngradeRangeKeeps == ASSUME Inv, NEW f \in Files, DowngradeRange(f)
    PROVE  Inv' /\ \A q \in Procs \ {ProcOf[f]} : Same(q)
<1> DEFINE p == ProcOf[f]
<1> USE DEF DowngradeRange, Continue, Return, FileLock, InodeLock, Fcntl, record, kernel, Free, InCall,
     DropAll, DropReserved, WantsExclusive,
     NO_LOCK, SHARED_LOCK, RESERVED_LOCK, PENDING_LOCK, EXCLUSIVE_LOCK
<1>1. p \in Procs /\ f \in FilesOf(p) /\ TypeOK /\ KernelInv /\ LocalInv /\ Local(p)
  BY FilesAssumption DEF Inv, LocalInv, Local, FilesOf
<1>9. /\ nLock[p] = 0 <=> inodeLock[p] = NO_LOCK
      /\ nShared[p] = nLock[p] /\ nLock[p] \in Nat
      /\ \A h \in FilesOf(p) : eFileLock[h] # NO_LOCK =>
             /\ nLock[p] # 0 /\ inodeLock[p] # NO_LOCK /\ closing[p] = NoFile
             /\ nShared[p] = 1 <=> \A g \in FilesOf(p) \ {h} : eFileLock[g] = NO_LOCK
  BY <1>1, Counted
<1>2. TypeOK'
  BY <1>1, <1>9 DEF TypeOK, Levels, Modes, Steps, Local, CallOk
<1>3. \A q \in Procs \ {p} : Same(q)
  BY <1>1 DEF TypeOK, Same, FilesOf
<1>4. CallOk(p)'
  BY <1>1, <1>9, FilesAssumption DEF TypeOK, Local, CallOk, Caller, Sharing, FilesOf
<1>5. LevelsOk(p)'
  BY <1>1, <1>9, FilesAssumption DEF TypeOK, Local, CallOk, LevelsOk, Caller, Sharing, Levels, FilesOf
<1>6. CountOk(p)'
  <2>1. Sharers(p)' = Sharers(p) /\ (FilesOf(p) \cap open)' = FilesOf(p) \cap open
    BY DEF Sharers, FilesOf
  <2> QED BY <1>1, <2>1 DEF TypeOK, Local, CountOk
<1>7. KernelOk(p)'
  BY <1>1, <1>9, FilesAssumption DEF TypeOK, Local, CallOk, KernelOk, LevelsOk, Caller, Sharing, Levels, FilesOf
<1>8. KernelInv'
  BY <1>1 DEF TypeOK, KernelInv, Exclusive, Modes, Grants
<1> QED BY <1>1, <1>2, <1>3, <1>4, <1>5, <1>6, <1>7, <1>8, Together DEF Inv, Local

LEMMA DowngradeDoneKeeps == ASSUME Inv, NEW f \in Files, DowngradeDone(f)
    PROVE  Inv' /\ \A q \in Procs \ {ProcOf[f]} : Same(q)
<1> DEFINE p == ProcOf[f]
<1> USE DEF DowngradeDone, Continue, Return, FileLock, InodeLock, Fcntl, record, kernel, Free, InCall,
     DropAll, DropReserved, WantsExclusive,
     NO_LOCK, SHARED_LOCK, RESERVED_LOCK, PENDING_LOCK, EXCLUSIVE_LOCK
<1>1. p \in Procs /\ f \in FilesOf(p) /\ TypeOK /\ KernelInv /\ LocalInv /\ Local(p)
  BY FilesAssumption DEF Inv, LocalInv, Local, FilesOf
<1>9. /\ nLock[p] = 0 <=> inodeLock[p] = NO_LOCK
      /\ nShared[p] = nLock[p] /\ nLock[p] \in Nat
      /\ \A h \in FilesOf(p) : eFileLock[h] # NO_LOCK =>
             /\ nLock[p] # 0 /\ inodeLock[p] # NO_LOCK /\ closing[p] = NoFile
             /\ nShared[p] = 1 <=> \A g \in FilesOf(p) \ {h} : eFileLock[g] = NO_LOCK
  BY <1>1, Counted
<1>2. TypeOK'
  BY <1>1, <1>9 DEF TypeOK, Levels, Modes, Steps, Local, CallOk
<1>3. \A q \in Procs \ {p} : Same(q)
  BY <1>1 DEF TypeOK, Same, FilesOf
<1>4. CallOk(p)'
  BY <1>1, <1>9, FilesAssumption DEF TypeOK, Local, CallOk, Caller, Sharing, FilesOf
<1>5. LevelsOk(p)'
  BY <1>1, <1>9, FilesAssumption DEF TypeOK, Local, CallOk, LevelsOk, Caller, Sharing, Levels, FilesOf
<1>6. CountOk(p)'
  <2>0. eFileLock[f] # NO_LOCK /\ NO_LOCK \in Levels /\ SHARED_LOCK \in Levels /\ SHARED_LOCK # NO_LOCK
        /\ eFileLock' = [eFileLock EXCEPT ![f] = SHARED_LOCK]
    BY <1>1, <1>9 DEF Levels, Local, CallOk, Caller, Sharing, LevelsOk
  <2>1. Sharers(p)' = Sharers(p)
    BY <1>1, <1>9, <2>0, Stays
  <2>2. (FilesOf(p) \cap open)' = FilesOf(p) \cap open
    BY DEF FilesOf
  <2>3. nShared[p] = Cardinality(Sharers(p)) /\ nLock[p] = nShared[p]
    BY <1>1, <1>9, <2>0 DEF Local, CountOk, CallOk, Sharing
  <2> QED BY <1>1, <1>9, <2>1, <2>2, <2>3, Finite, Finite2 DEF TypeOK, Local, CountOk
<1>7. KernelOk(p)'
  BY <1>1, <1>9, FilesAssumption DEF TypeOK, Local, CallOk, KernelOk, LevelsOk, Caller, Sharing, Levels, FilesOf
<1>8. KernelInv'
  BY <1>1 DEF TypeOK, KernelInv, Exclusive, Modes, Grants
<1> QED BY <1>1, <1>2, <1>3, <1>4, <1>5, <1>6, <1>7, <1>8, Together DEF Inv, Local

LEMMA UnlockReservedKeeps == ASSUME Inv, NEW f \in Files, UnlockReserved(f)
    PROVE  Inv' /\ \A q \in Procs \ {ProcOf[f]} : Same(q)
<1> DEFINE p == ProcOf[f]
<1> USE DEF UnlockReserved, Continue, Return, FileLock, InodeLock, Fcntl, record, kernel, Free, InCall,
     DropAll, DropReserved, WantsExclusive,
     NO_LOCK, SHARED_LOCK, RESERVED_LOCK, PENDING_LOCK, EXCLUSIVE_LOCK
<1>1. p \in Procs /\ f \in FilesOf(p) /\ TypeOK /\ KernelInv /\ LocalInv /\ Local(p)
  BY FilesAssumption DEF Inv, LocalInv, Local, FilesOf
<1>9. /\ nLock[p] = 0 <=> inodeLock[p] = NO_LOCK
      /\ nShared[p] = nLock[p] /\ nLock[p] \in Nat
      /\ \A h \in FilesOf(p) : eFileLock[h] # NO_LOCK =>
             /\ nLock[p] # 0 /\ inodeLock[p] # NO_LOCK /\ closing[p] = NoFile
             /\ nShared[p] = 1 <=> \A g \in FilesOf(p) \ {h} : eFileLock[g] = NO_LOCK
  BY <1>1, Counted
<1>2. TypeOK'
  BY <1>1, <1>9 DEF TypeOK, Levels, Modes, Steps, Local, CallOk
<1>3. \A q \in Procs \ {p} : Same(q)
  BY <1>1 DEF TypeOK, Same, FilesOf
<1>4. CallOk(p)'
  BY <1>1, <1>9, FilesAssumption DEF TypeOK, Local, CallOk, Caller, Sharing, FilesOf
<1>5. LevelsOk(p)'
  BY <1>1, <1>9, FilesAssumption DEF TypeOK, Local, CallOk, LevelsOk, Caller, Sharing, Levels, FilesOf
<1>6. CountOk(p)'
  <2>1. Sharers(p)' = Sharers(p) /\ (FilesOf(p) \cap open)' = FilesOf(p) \cap open
    BY DEF Sharers, FilesOf
  <2> QED BY <1>1, <2>1 DEF TypeOK, Local, CountOk
<1>7. KernelOk(p)'
  BY <1>1, <1>9, FilesAssumption DEF TypeOK, Local, CallOk, KernelOk, LevelsOk, Caller, Sharing, Levels, FilesOf
<1>8. KernelInv'
  BY <1>1 DEF TypeOK, KernelInv, Exclusive, Modes, Grants
<1> QED BY <1>1, <1>2, <1>3, <1>4, <1>5, <1>6, <1>7, <1>8, Together DEF Inv, Local

LEMMA UnlockAllKeeps == ASSUME Inv, NEW f \in Files, UnlockAll(f)
    PROVE  Inv' /\ \A q \in Procs \ {ProcOf[f]} : Same(q)
<1> DEFINE p == ProcOf[f]
<1> USE DEF UnlockAll, Continue, Return, FileLock, InodeLock, Fcntl, record, kernel, Free, InCall,
     DropAll, DropReserved, WantsExclusive,
     NO_LOCK, SHARED_LOCK, RESERVED_LOCK, PENDING_LOCK, EXCLUSIVE_LOCK
<1>1. p \in Procs /\ f \in FilesOf(p) /\ TypeOK /\ KernelInv /\ LocalInv /\ Local(p)
  BY FilesAssumption DEF Inv, LocalInv, Local, FilesOf
<1>9. /\ nLock[p] = 0 <=> inodeLock[p] = NO_LOCK
      /\ nShared[p] = nLock[p] /\ nLock[p] \in Nat
      /\ \A h \in FilesOf(p) : eFileLock[h] # NO_LOCK =>
             /\ nLock[p] # 0 /\ inodeLock[p] # NO_LOCK /\ closing[p] = NoFile
             /\ nShared[p] = 1 <=> \A g \in FilesOf(p) \ {h} : eFileLock[g] = NO_LOCK
  BY <1>1, Counted
<1>0. eFileLock[f] # NO_LOCK /\ nShared[p] \in Nat \ {0} /\ nLock[p] = nShared[p]
      /\ nShared[p] - 1 \in Nat
  <2>1. eFileLock[f] # NO_LOCK
    BY <1>1 DEF Local, CallOk, Caller, TypeOK, Levels
  <2> QED BY <1>1, <1>9, <2>1
<1>2. TypeOK'
  BY <1>1, <1>9, <1>0 DEF TypeOK, Levels, Modes, Steps, Local, CallOk
<1>3. \A q \in Procs \ {p} : Same(q)
  BY <1>1 DEF TypeOK, Same, FilesOf
<1>4. CallOk(p)'
  BY <1>1, <1>9, FilesAssumption DEF TypeOK, Local, CallOk, Caller, Sharing, FilesOf
<1>5. LevelsOk(p)'
  BY <1>1, <1>9, FilesAssumption DEF TypeOK, Local, CallOk, LevelsOk, Caller, Sharing, Levels, FilesOf
<1>6. CountOk(p)'
  <2>1. eFileLock' = [eFileLock EXCEPT ![f] = NO_LOCK] /\ open' = open
    BY DEF UnlockAll
  <2>2. /\ nShared'[p] = nShared[p] - 1 /\ nLock'[p] = nLock[p] - 1
        /\ nLock[p] = 1 => nUnused'[p] = 0
        /\ nLock[p] # 1 => nUnused'[p] = nUnused[p]
    BY <1>1 DEF TypeOK
  <2> QED BY <1>0, <1>1, <2>1, <2>2, CountsUnlocked DEF Local
<1>7. KernelOk(p)'
  BY <1>1, <1>9, FilesAssumption DEF TypeOK, Local, CallOk, KernelOk, LevelsOk, Caller, Sharing, Levels, FilesOf
<1>8. KernelInv'
  <2>1. CASE pendingByte' = pendingByte /\ reservedByte' = reservedByte /\ sharedBytes' = sharedBytes
    BY <1>1, <2>1 DEF KernelInv, Exclusive
  <2>2. CASE DropAll(p)
    BY <1>1, <2>2 DEF TypeOK, KernelInv, Exclusive, Modes
  <2> QED BY <2>1, <2>2
<1> QED BY <1>1, <1>2, <1>3, <1>4, <1>5, <1>6, <1>7, <1>8, Together DEF Inv, Local

LEMMA CloseDeferredKeeps == ASSUME Inv, NEW f \in Files, CloseDeferred(f)
    PROVE  Inv' /\ \A q \in Procs \ {ProcOf[f]} : Same(q)
<1> DEFINE p == ProcOf[f]
<1> USE DEF CloseDeferred, Continue, Return, FileLock, InodeLock, Fcntl, record, kernel, Free, InCall,
     DropAll, DropReserved, WantsExclusive,
     NO_LOCK, SHARED_LOCK, RESERVED_LOCK, PENDING_LOCK, EXCLUSIVE_LOCK
<1>1. p \in Procs /\ f \in FilesOf(p) /\ TypeOK /\ KernelInv /\ LocalInv /\ Local(p)
  BY FilesAssumption DEF Inv, LocalInv, Local, FilesOf
<1>9. /\ nLock[p] = 0 <=> inodeLock[p] = NO_LOCK
      /\ nShared[p] = nLock[p] /\ nLock[p] \in Nat
      /\ \A h \in FilesOf(p) : eFileLock[h] # NO_LOCK =>
             /\ nLock[p] # 0 /\ inodeLock[p] # NO_LOCK /\ closing[p] = NoFile
             /\ nShared[p] = 1 <=> \A g \in FilesOf(p) \ {h} : eFileLock[g] = NO_LOCK
  BY <1>1, Counted
<1>2. TypeOK'
  BY <1>1, <1>9 DEF TypeOK, Levels, Modes, Steps, Local, CallOk
<1>3. \A q \in Procs \ {p} : Same(q)
  BY <1>1 DEF TypeOK, Same, FilesOf
<1>4. CallOk(p)'
  BY <1>1, <1>9, FilesAssumption DEF TypeOK, Local, CallOk, Caller, Sharing, FilesOf
<1>5. LevelsOk(p)'
  BY <1>1, <1>9, FilesAssumption DEF TypeOK, Local, CallOk, LevelsOk, Caller, Sharing, Levels, FilesOf
<1>6. CountOk(p)'
  <2>1. f \in FilesOf(p) \cap open /\ open' = open \ {f} /\ eFileLock' = eFileLock
    BY <1>1
  <2>2. /\ nShared'[p] = nShared[p] /\ nLock'[p] = nLock[p] /\ nLock[p] # 0
        /\ nUnused'[p] = nUnused[p] + 1
    BY <1>1, <1>9 DEF TypeOK
  <2> QED BY <1>1, <2>1, <2>2, CountsDeferred DEF Local
<1>7. KernelOk(p)'
  BY <1>1, <1>9, FilesAssumption DEF TypeOK, Local, CallOk, KernelOk, LevelsOk, Caller, Sharing, Levels, FilesOf
<1>8. KernelInv'
  BY <1>1 DEF TypeOK, KernelInv, Exclusive, Modes, Grants
<1> QED BY <1>1, <1>2, <1>3, <1>4, <1>5, <1>6, <1>7, <1>8, Together DEF Inv, Local

LEMMA CloseChecksKeeps == ASSUME Inv, NEW f \in Files, CloseChecks(f)
    PROVE  Inv' /\ \A q \in Procs \ {ProcOf[f]} : Same(q)
<1> DEFINE p == ProcOf[f]
<1> USE DEF CloseChecks, Continue, Return, FileLock, InodeLock, Fcntl, record, kernel, Free, InCall,
     DropAll, DropReserved, WantsExclusive,
     NO_LOCK, SHARED_LOCK, RESERVED_LOCK, PENDING_LOCK, EXCLUSIVE_LOCK
<1>1. p \in Procs /\ f \in FilesOf(p) /\ TypeOK /\ KernelInv /\ LocalInv /\ Local(p)
  BY FilesAssumption DEF Inv, LocalInv, Local, FilesOf
<1>9. /\ nLock[p] = 0 <=> inodeLock[p] = NO_LOCK
      /\ nShared[p] = nLock[p] /\ nLock[p] \in Nat
      /\ \A h \in FilesOf(p) : eFileLock[h] # NO_LOCK =>
             /\ nLock[p] # 0 /\ inodeLock[p] # NO_LOCK /\ closing[p] = NoFile
             /\ nShared[p] = 1 <=> \A g \in FilesOf(p) \ {h} : eFileLock[g] = NO_LOCK
  BY <1>1, Counted
<1>2. TypeOK'
  BY <1>1, <1>9 DEF TypeOK, Levels, Modes, Steps, Local, CallOk
<1>3. \A q \in Procs \ {p} : Same(q)
  BY <1>1 DEF TypeOK, Same, FilesOf
<1>4. CallOk(p)'
  BY <1>1, <1>9, FilesAssumption DEF TypeOK, Local, CallOk, Caller, Sharing, FilesOf
<1>5. LevelsOk(p)'
  BY <1>1, <1>9, FilesAssumption DEF TypeOK, Local, CallOk, LevelsOk, Caller, Sharing, Levels, FilesOf
<1>6. CountOk(p)'
  <2>1. Sharers(p)' = Sharers(p) /\ (FilesOf(p) \cap open)' = FilesOf(p) \cap open
    BY DEF Sharers, FilesOf
  <2> QED BY <1>1, <2>1 DEF TypeOK, Local, CountOk
<1>7. KernelOk(p)'
  BY <1>1, <1>9, FilesAssumption DEF TypeOK, Local, CallOk, KernelOk, LevelsOk, Caller, Sharing, Levels, FilesOf
<1>8. KernelInv'
  BY <1>1 DEF TypeOK, KernelInv, Exclusive, Modes, Grants
<1> QED BY <1>1, <1>2, <1>3, <1>4, <1>5, <1>6, <1>7, <1>8, Together DEF Inv, Local

LEMMA CloseFdKeeps == ASSUME Inv, NEW f \in Files, CloseFd(f)
    PROVE  Inv' /\ \A q \in Procs \ {ProcOf[f]} : Same(q)
<1> DEFINE p == ProcOf[f]
<1> USE DEF CloseFd, Continue, Return, FileLock, InodeLock, Fcntl, record, kernel, Free, InCall,
     DropAll, DropReserved, WantsExclusive,
     NO_LOCK, SHARED_LOCK, RESERVED_LOCK, PENDING_LOCK, EXCLUSIVE_LOCK
<1>1. p \in Procs /\ f \in FilesOf(p) /\ TypeOK /\ KernelInv /\ LocalInv /\ Local(p)
  BY FilesAssumption DEF Inv, LocalInv, Local, FilesOf
<1>9. /\ nLock[p] = 0 <=> inodeLock[p] = NO_LOCK
      /\ nShared[p] = nLock[p] /\ nLock[p] \in Nat
      /\ \A h \in FilesOf(p) : eFileLock[h] # NO_LOCK =>
             /\ nLock[p] # 0 /\ inodeLock[p] # NO_LOCK /\ closing[p] = NoFile
             /\ nShared[p] = 1 <=> \A g \in FilesOf(p) \ {h} : eFileLock[g] = NO_LOCK
  BY <1>1, Counted
<1>2. TypeOK'
  BY <1>1, <1>9 DEF TypeOK, Levels, Modes, Steps, Local, CallOk
<1>3. \A q \in Procs \ {p} : Same(q)
  BY <1>1 DEF TypeOK, Same, FilesOf
<1>4. CallOk(p)'
  BY <1>1, <1>9, FilesAssumption DEF TypeOK, Local, CallOk, Caller, Sharing, FilesOf
<1>5. LevelsOk(p)'
  BY <1>1, <1>9, FilesAssumption DEF TypeOK, Local, CallOk, LevelsOk, Caller, Sharing, Levels, FilesOf
<1>6. CountOk(p)'
  <2>1. f \in FilesOf(p) \cap open /\ open' = open \ {f} /\ eFileLock' = eFileLock
    BY <1>1, FilesAssumption DEF Local, CallOk
  <2>2. /\ nShared'[p] = nShared[p] /\ nLock'[p] = nLock[p] /\ nUnused[p] = 0 /\ nUnused'[p] = 0
    BY <1>1, <1>9, <2>1, FilesAssumption DEF TypeOK, Local, CallOk, CountOk
  <2> QED BY <1>1, <2>1, <2>2, CountsClosed DEF Local
<1>7. KernelOk(p)'
  BY <1>1, <1>9, FilesAssumption DEF TypeOK, Local, CallOk, KernelOk, LevelsOk, Caller, Sharing, Levels, FilesOf
<1>8. KernelInv'
  BY <1>1 DEF TypeOK, KernelInv, Exclusive, Modes, Grants
<1> QED BY <1>1, <1>2, <1>3, <1>4, <1>5, <1>6, <1>7, <1>8, Together DEF Inv, Local

LEMMA ProcessDiesKeeps ==
    ASSUME Inv, NEW p \in Procs, ProcessDies(p)
    PROVE  Inv' /\ \A q \in Procs \ {p} : Same(q)
<1> USE DEF ProcessDies, InodeLock, Fcntl, DropAll,
     NO_LOCK, SHARED_LOCK, RESERVED_LOCK, PENDING_LOCK, EXCLUSIVE_LOCK
<1>1. TypeOK /\ LocalInv /\ KernelInv
  BY DEF Inv
<1>2. TypeOK'
  BY <1>1 DEF TypeOK, Levels, Modes, Steps
<1>3. \A q \in Procs \ {p} : Same(q)
  BY <1>1 DEF TypeOK, Same, FilesOf
<1>4. \A f \in FilesOf(p) : eFileLock'[f] = NO_LOCK
  BY DEF FilesOf
<1>5. /\ inodeLock'[p] = NO_LOCK /\ nShared'[p] = 0 /\ nLock'[p] = 0 /\ nUnused'[p] = 0
      /\ holder'[p] = NoFile /\ at'[p] = "idle" /\ closing'[p] = NoFile
      /\ pendingByte'[p] = "F_UNLCK" /\ reservedByte'[p] = "F_UNLCK" /\ sharedBytes'[p] = "F_UNLCK"
  BY <1>1 DEF TypeOK
<1>6. CallOk(p)' /\ KernelOk(p)'
  BY <1>5 DEF CallOk, KernelOk, Sharing
<1>7. LevelsOk(p)'
  <2>1. FilesOf(p)' = FilesOf(p)
    BY DEF FilesOf
  <2> HIDE DEF ProcessDies
  <2>2. ~(inodeLock'[p] > SHARED_LOCK) /\ \A f \in FilesOf(p)' : ~(eFileLock'[f] > SHARED_LOCK)
    BY <1>4, <1>5, <2>1
  <2>3. \A f \in FilesOf(p)' : eFileLock'[f] = NO_LOCK
    BY <1>4, <2>1
  <2> QED BY <1>5, <2>2, <2>3 DEF LevelsOk
<1>8. CountOk(p)'
  <2>1. Sharers(p)' = {} /\ (FilesOf(p) \cap open)' = {} /\ FilesOf(p)' = FilesOf(p)
    BY <1>4 DEF Sharers, FilesOf
  <2>2. Cardinality(FilesOf(p)) \in Nat
    BY Finite
  <2>3. Cardinality(Sharers(p)') = 0 /\ Cardinality((FilesOf(p) \cap open)') = 0
    BY <2>1, FS_EmptySet
  <2>4. nUnused'[p] + Cardinality((FilesOf(p) \cap open)') <= Cardinality(FilesOf(p)')
    BY <1>5, <2>1, <2>2, <2>3
  <2> HIDE DEF ProcessDies
  <2> QED BY <1>5, <2>3, <2>4 DEF CountOk
<1>9. KernelInv'
  BY <1>1 DEF TypeOK, KernelInv, Exclusive
<1> QED BY <1>1, <1>2, <1>3, <1>6, <1>7, <1>8, <1>9, Together DEF Inv, Local

LEMMA Initially == Init => Inv
<1> SUFFICES ASSUME Init PROVE Inv
  OBVIOUS
<1> USE DEF Init, NO_LOCK, SHARED_LOCK, RESERVED_LOCK, PENDING_LOCK, EXCLUSIVE_LOCK
<1>1. TypeOK /\ KernelInv
  BY DEF TypeOK, Levels, Modes, Steps, KernelInv, Exclusive
<1>2. ASSUME NEW p \in Procs PROVE CallOk(p) /\ LevelsOk(p) /\ CountOk(p) /\ KernelOk(p)
  <2>1. CallOk(p) /\ KernelOk(p)
    BY DEF CallOk, KernelOk, Sharing
  <2>2. LevelsOk(p)
    BY DEF LevelsOk, FilesOf
  <2>3. CountOk(p)
    <3>1. Sharers(p) = {} /\ FilesOf(p) \cap open = {}
      BY DEF Sharers, FilesOf
    <3> QED BY <3>1, Finite, FS_EmptySet DEF CountOk
  <2> QED BY <2>1, <2>2, <2>3
<1> QED BY <1>1, <1>2 DEF Inv, LocalInv

LEMMA Keeps == ASSUME Inv, [Next]_vars, [NoLockWhileClosing]_vars PROVE Inv'
<1>6. ASSUME UNCHANGED vars PROVE Inv'
  <2> USE <1>6 DEF vars, record, kernel
  <2>1. TypeOK' /\ KernelInv'
    BY DEF Inv, TypeOK, KernelInv, Exclusive
  <2>2. \A p \in Procs : Same(p)
    BY DEF Same
  <2> QED BY <2>1, <2>2, Elsewhere DEF Inv, LocalInv, Local
<1>1. ASSUME NEW f \in Files, Open(f) PROVE Inv'
  BY <1>1, OpenKeeps
<1>2. ASSUME NEW f \in Files, Lock(f) PROVE Inv'
  <2>1. ASSUME SharePending(f) PROVE Inv'
    <3>1. CASE UNCHANGED vars
      BY <3>1, <1>6
    <3>2. CASE NoLockWhileClosing
      BY <2>1, <3>2, SharePendingKeeps DEF NoLockWhileClosing
    <3> QED BY <3>1, <3>2
  <2> QED BY <1>2, <2>1, ShareWithOthersKeeps, ShareRangeKeeps, ShareDoneKeeps,
         ShareFailsKeeps, ReserveKeeps, ExclusivePendingKeeps, ExclusiveGrantedKeeps,
         ExclusiveBusyKeeps DEF Lock
<1>3. ASSUME NEW f \in Files, Unlock(f) PROVE Inv'
  BY <1>3, DowngradeRangeKeeps, DowngradeDoneKeeps, UnlockReservedKeeps, UnlockAllKeeps DEF Unlock
<1>4. ASSUME NEW f \in Files, Close(f) PROVE Inv'
  BY <1>4, CloseDeferredKeeps, CloseChecksKeeps, CloseFdKeeps DEF Close
<1>5. ASSUME NEW p \in Procs, ProcessDies(p) PROVE Inv'
  BY <1>5, ProcessDiesKeeps
<1> QED BY <1>1, <1>2, <1>3, <1>4, <1>5, <1>6 DEF Next

-----------------------------------------------------------------------------
(* The runs take LoneCloses from CloseAlone.                                 *)
LEMMA CloseAloneSuffices == ASSUME CloseAlone PROVE Spec => LoneCloses
<1>1. [Next]_vars => [NoLockWhileClosing]_vars
  BY DEF NoLockWhileClosing, SharePending
<1> QED BY <1>1, PTL DEF Spec, LoneCloses

(* What each process knows of its connections and of the kernel's locks is   *)
(* right in every reachable state, call in progress or not, as long as closes *)
(* are alone.                                                                *)
THEOREM RecordsAreRight == Spec /\ LoneCloses => []Inv
<1>1. Init => Inv
  BY Initially
<1>2. Inv /\ [Next]_vars /\ [NoLockWhileClosing]_vars => Inv'
  BY Keeps
<1> QED BY <1>1, <1>2, PTL DEF Spec, LoneCloses

(* Every reachable state is well typed, as long as closes are alone; no      *)
(* count goes below zero.                                                    *)
THEOREM LocksTyped == Spec /\ LoneCloses => []TypeOK
<1>1. Inv => TypeOK
  BY DEF Inv
<1> QED BY <1>1, RecordsAreRight, PTL

(* As long as no connection of a process takes the process's first lock      *)
(* between the check of another's unixClose() and its close(), the locks the *)
(* process believes it has are the kernel's, whatever else is opened, closed *)
(* and reopened: the close of a connection while another holds a lock is     *)
(* deferred.  A behaviour that does take one there, which the code allows,   *)
(* loses it (line 42564; the run doc_unix_close_race).                       *)
THEOREM LocksKept == Spec /\ LoneCloses => []LocksAreKept
<1>1. Inv => LocksAreKept
  BY DEF Inv, LocalInv, CallOk, KernelOk, LocksAreKept, Free, TypeOK, Levels,
     NO_LOCK, SHARED_LOCK, RESERVED_LOCK, PENDING_LOCK, EXCLUSIVE_LOCK
<1> QED BY <1>1, RecordsAreRight, PTL

(* The kernel keeps no lock that no connection of the process accounts for,  *)
(* as long as closes are alone.                                              *)
THEOREM NothingLeft == Spec /\ LoneCloses => []NothingIsLeftLocked
<1>1. ASSUME Inv, NEW p \in Procs, Free(p)
      PROVE  /\ Sharers(p) = {} => sharedBytes[p] = "F_UNLCK"
             /\ (\A f \in Sharers(p) : eFileLock[f] = SHARED_LOCK)
                    => pendingByte[p] = "F_UNLCK" /\ reservedByte[p] = "F_UNLCK"
  <2> USE DEF NO_LOCK, SHARED_LOCK, RESERVED_LOCK, PENDING_LOCK, EXCLUSIVE_LOCK
  <2>1. TypeOK /\ at[p] = "idle" /\ LevelsOk(p) /\ KernelOk(p) /\ inodeLock[p] \in Levels
    BY <1>1 DEF Inv, LocalInv, CallOk, Free, TypeOK
  <2>2. Sharers(p) = {} => inodeLock[p] = NO_LOCK
    BY <2>1, SharersAre DEF LevelsOk
  <2>3. (\A f \in Sharers(p) : eFileLock[f] = SHARED_LOCK) => inodeLock[p] <= SHARED_LOCK
    BY <2>1, SharersAre DEF LevelsOk, Levels
  <2> QED BY <2>1, <2>2, <2>3 DEF KernelOk, Sharing, Levels
<1>2. Inv => NothingIsLeftLocked
  BY <1>1 DEF NothingIsLeftLocked
<1> QED BY <1>2, RecordsAreRight, PTL

(* A process never has more descriptors on the database than connections, as *)
(* long as closes are alone.                                                 *)
THEOREM DescriptorsBounded == Spec /\ LoneCloses => []DescriptorsAreBounded
<1>1. Inv => DescriptorsAreBounded
  BY DEF Inv, LocalInv, CountOk, DescriptorsAreBounded
<1> QED BY <1>1, RecordsAreRight, PTL

-----------------------------------------------------------------------------
(* The refinement: the level of a file, and what it says of the kernel.      *)

LEMMA LevelIs ==
    \A g \in Files :
        /\ InCall(g, "unlockReserved") => level[g] = SHARED_LOCK
        /\ InCall(g, "unlockAll") =>
              level[g] = IF sharedBytes[ProcOf[g]] = "F_WRLCK" THEN EXCLUSIVE_LOCK ELSE SHARED_LOCK
        /\ ~InCall(g, "unlockReserved") /\ ~InCall(g, "unlockAll") => level[g] = eFileLock[g]
BY DEF level, InCall

LEMMA LevelBecomes ==
    \A g \in Files :
        /\ InCall(g, "unlockReserved")' => level'[g] = SHARED_LOCK
        /\ InCall(g, "unlockAll")' =>
              level'[g] = IF sharedBytes'[ProcOf[g]] = "F_WRLCK" THEN EXCLUSIVE_LOCK ELSE SHARED_LOCK
        /\ ~InCall(g, "unlockReserved")' /\ ~InCall(g, "unlockAll")' => level'[g] = eFileLock'[g]
BY DEF level, InCall, SHARED_LOCK, EXCLUSIVE_LOCK

LEMMA LevelSays ==
    ASSUME Inv, NEW p \in Procs, NEW g \in FilesOf(p)
    PROVE  /\ level[g] \in Levels
           /\ level[g] # NO_LOCK => sharedBytes[p] # "F_UNLCK" /\ eFileLock[g] # NO_LOCK
           /\ level[g] = EXCLUSIVE_LOCK => sharedBytes[p] = "F_WRLCK"
           /\ level[g] = PENDING_LOCK => pendingByte[p] = "F_WRLCK"
           /\ level[g] \in {RESERVED_LOCK, PENDING_LOCK} => reservedByte[p] = "F_WRLCK"
           /\ at[p] \notin {"unlockReserved", "unlockAll"} => level[g] = eFileLock[g]
<1> USE DEF NO_LOCK, SHARED_LOCK, RESERVED_LOCK, PENDING_LOCK, EXCLUSIVE_LOCK
<1>1. /\ g \in Files /\ ProcOf[g] = p /\ TypeOK
      /\ CallOk(p) /\ LevelsOk(p) /\ KernelOk(p) /\ inodeLock[p] \in Levels /\ eFileLock[g] \in Levels
      /\ at[p] \in Steps
  BY DEF FilesOf, Inv, LocalInv, TypeOK
<1>2. CASE at[p] \notin {"unlockReserved", "unlockAll"}
  <2>1. level[g] = eFileLock[g]
    BY <1>1, <1>2, LevelIs DEF InCall
  <2>2. eFileLock[g] # NO_LOCK => inodeLock[p] # NO_LOCK
    BY <1>1 DEF LevelsOk
  <2>3. eFileLock[g] > SHARED_LOCK => inodeLock[p] = eFileLock[g]
    BY <1>1, <1>2 DEF LevelsOk, InCall
  <2>4. eFileLock[g] # NO_LOCK => at[p] \in {"idle", "exclusiveRange"}
    BY <1>1, <1>2, <2>2 DEF CallOk, Sharing, Steps
  <2> QED BY <1>1, <1>2, <2>1, <2>2, <2>3, <2>4 DEF KernelOk, Levels
<1>3. CASE at[p] \in {"unlockReserved", "unlockAll"}
  <2>1. Caller(p) \in FilesOf(p) /\ eFileLock[Caller(p)] > SHARED_LOCK
    BY <1>1, <1>3 DEF CallOk, Caller, TypeOK, FilesOf
  <2>2. sharedBytes[p] \in {"F_RDLCK", "F_WRLCK"}
    BY <1>1, <1>3 DEF KernelOk
  <2>3. CASE g = Caller(p)
    BY <1>1, <1>3, <2>1, <2>2, <2>3, LevelIs DEF InCall, Caller, Levels
  <2>4. CASE g # Caller(p)
    <3>1. level[g] = eFileLock[g]
      BY <1>1, <2>4, LevelIs DEF InCall, Caller
    <3>2. eFileLock[g] <= SHARED_LOCK
      BY <1>1, <2>1, <2>4 DEF LevelsOk
    <3> QED BY <1>1, <1>3, <2>2, <3>1, <3>2 DEF Levels
  <2> QED BY <2>3, <2>4
<1> QED BY <1>2, <1>3

LEMMA SameLevel ==
    ASSUME NEW p \in Procs, Same(p)
    PROVE  \A g \in FilesOf(p) : level'[g] = level[g]
BY LevelIs, LevelBecomes DEF Same, InCall, FilesOf

LEMMA Moves ==
    ASSUME NEW f \in Files, NEW l, level'[f] = l, \A g \in Files \ {f} : level'[g] = level[g]
    PROVE  Locks!Move(f, l)
<1>1. level = [g \in Files |-> level[g]] /\ level' = [g \in Files |-> level'[g]]
  BY DEF level
<1>2. level' = [level EXCEPT ![f] = l]
  BY <1>1
<1> QED BY <1>2 DEF Locks!Move

LEMMA StaysLevel == ASSUME \A g \in Files : level'[g] = level[g] PROVE UNCHANGED level
BY DEF level

(* A step of another process leaves the levels of this one as they are. *)
LEMMA OtherLevels ==
    ASSUME NEW p \in Procs, \A q \in Procs \ {p} : Same(q)
    PROVE  \A g \in Files : ProcOf[g] # p => level'[g] = level[g]
BY FilesAssumption, SameLevel DEF FilesOf

LEMMA TypedLevels == ASSUME Inv PROVE \A g \in Files : level[g] \in Levels
BY FilesAssumption, LevelSays DEF FilesOf

(* The level of a file whose process makes no call that lowers one. *)
LEMMA FreeLevel ==
    ASSUME NEW g \in Files
    PROVE  /\ at[ProcOf[g]] \notin {"unlockReserved", "unlockAll"} => level[g] = eFileLock[g]
           /\ at'[ProcOf[g]] \notin {"unlockReserved", "unlockAll"} => level'[g] = eFileLock'[g]
BY LevelIs, LevelBecomes DEF InCall

LEMMA ShareWithOthersMaps ==
    ASSUME Inv, NEW f \in Files, ShareWithOthers(f) PROVE Locks!Share(f)
<1> USE DEF NO_LOCK, SHARED_LOCK, RESERVED_LOCK, PENDING_LOCK, EXCLUSIVE_LOCK
<1> DEFINE p == ProcOf[f]
<1>1. /\ p \in Procs /\ f \in FilesOf(p) /\ TypeOK
      /\ CallOk(p) /\ LevelsOk(p) /\ KernelOk(p) /\ KernelInv
      /\ \A q \in Procs \ {p} : Same(q)
  BY FilesAssumption, ShareWithOthersKeeps DEF Inv, LocalInv, FilesOf
<1>2. /\ at[p] = "idle" /\ at' = at /\ eFileLock[f] = NO_LOCK
      /\ inodeLock[p] \in {SHARED_LOCK, RESERVED_LOCK}
      /\ eFileLock' = [eFileLock EXCEPT ![f] = SHARED_LOCK]
  BY <1>1 DEF ShareWithOthers, CallOk, Free, FileLock
<1>3. level[f] = NO_LOCK /\ Locks!Move(f, SHARED_LOCK)
  BY <1>1, <1>2, OtherLevels, FreeLevel, Moves DEF TypeOK
<1>4. ASSUME NEW g \in Files \ {f} PROVE ~Locks!KeepsOut(g, f)
  <2>1. CASE ProcOf[g] = p
    <3>1. level[g] = eFileLock[g] /\ g \in FilesOf(p)
      BY <1>2, <2>1, FreeLevel DEF FilesOf
    <3>2. eFileLock[g] <= RESERVED_LOCK
      BY <1>1, <1>2, <2>1, <3>1 DEF LevelsOk, InCall, TypeOK, Levels
    <3> QED BY <1>1, <2>1, <3>1, <3>2 DEF Locks!KeepsOut, Locks!PENDING_LOCK, Locks!EXCLUSIVE_LOCK
  <2>2. CASE ProcOf[g] # p
    <3>1. sharedBytes[p] = "F_RDLCK"
      BY <1>1, <1>2 DEF KernelOk
    <3>2. ProcOf[g] \in Procs /\ g \in FilesOf(ProcOf[g])
      BY FilesAssumption DEF FilesOf
    <3>3. level[g] # EXCLUSIVE_LOCK
      BY <1>1, <2>2, <3>1, <3>2, LevelSays DEF KernelInv, Exclusive
    <3>4. PICK h \in FilesOf(p) : eFileLock[h] # NO_LOCK
      BY <1>1, <1>2 DEF LevelsOk
    <3>5. Locks!Reads(p)
      BY <1>2, <3>4, FreeLevel DEF Locks!Reads, Locks!NO_LOCK, FilesOf
    <3> QED BY <2>2, <3>3, <3>5 DEF Locks!KeepsOut, Locks!PENDING_LOCK, Locks!EXCLUSIVE_LOCK
  <2> QED BY <2>1, <2>2
<1> QED BY <1>3, <1>4 DEF Locks!Share, Locks!Others, Locks!NO_LOCK, Locks!SHARED_LOCK

LEMMA ShareDoneMaps ==
    ASSUME Inv, NEW f \in Files, ShareDone(f) PROVE Locks!Share(f)
<1> USE DEF NO_LOCK, SHARED_LOCK, RESERVED_LOCK, PENDING_LOCK, EXCLUSIVE_LOCK
<1> DEFINE p == ProcOf[f]
<1>1. /\ p \in Procs /\ f \in FilesOf(p) /\ TypeOK
      /\ CallOk(p) /\ LevelsOk(p) /\ KernelOk(p) /\ KernelInv
      /\ \A q \in Procs \ {p} : Same(q)
  BY FilesAssumption, ShareDoneKeeps DEF Inv, LocalInv, FilesOf
<1>2. /\ at[p] = "dropPending" /\ at'[p] = "idle" /\ eFileLock[f] = NO_LOCK
      /\ \A g \in FilesOf(p) : eFileLock[g] = NO_LOCK
      /\ sharedBytes[p] = "F_RDLCK" /\ pendingByte[p] = "F_RDLCK"
      /\ eFileLock' = [eFileLock EXCEPT ![f] = SHARED_LOCK]
  BY <1>1 DEF ShareDone, InCall, Return, FileLock, CallOk, LevelsOk, KernelOk, Sharing, TypeOK
<1>3. level[f] = NO_LOCK /\ Locks!Move(f, SHARED_LOCK)
  BY <1>1, <1>2, OtherLevels, FreeLevel, Moves DEF TypeOK
<1>4. ASSUME NEW g \in Files \ {f} PROVE ~Locks!KeepsOut(g, f)
  <2>1. CASE ProcOf[g] = p
    BY <1>2, <2>1, FreeLevel DEF FilesOf, Locks!KeepsOut, Locks!PENDING_LOCK, Locks!EXCLUSIVE_LOCK
  <2>2. CASE ProcOf[g] # p
    <3>1. ProcOf[g] \in Procs /\ g \in FilesOf(ProcOf[g])
      BY FilesAssumption DEF FilesOf
    <3>2. level[g] # EXCLUSIVE_LOCK /\ level[g] # PENDING_LOCK
      BY <1>1, <1>2, <2>2, <3>1, LevelSays DEF KernelInv, Exclusive
    <3> QED BY <3>2 DEF Locks!KeepsOut, Locks!PENDING_LOCK, Locks!EXCLUSIVE_LOCK
  <2> QED BY <2>1, <2>2
<1> QED BY <1>3, <1>4 DEF Locks!Share, Locks!Others, Locks!NO_LOCK, Locks!SHARED_LOCK

LEMMA ReserveMaps ==
    ASSUME Inv, NEW f \in Files, Reserve(f) PROVE Locks!Reserve(f)
<1> USE DEF NO_LOCK, SHARED_LOCK, RESERVED_LOCK, PENDING_LOCK, EXCLUSIVE_LOCK
<1> DEFINE p == ProcOf[f]
<1>1. /\ p \in Procs /\ f \in FilesOf(p) /\ TypeOK
      /\ CallOk(p) /\ LevelsOk(p) /\ KernelOk(p) /\ KernelInv
      /\ \A q \in Procs \ {p} : Same(q)
  BY FilesAssumption, ReserveKeeps DEF Inv, LocalInv, FilesOf
<1>2. /\ at[p] = "idle" /\ at' = at /\ eFileLock[f] = SHARED_LOCK /\ inodeLock[p] = SHARED_LOCK
      /\ \A q \in Procs \ {p} : reservedByte[q] = "F_UNLCK"
      /\ eFileLock' = [eFileLock EXCEPT ![f] = RESERVED_LOCK]
  BY <1>1 DEF Reserve, CallOk, Free, FileLock, Grants
<1>3. level[f] = SHARED_LOCK /\ Locks!Move(f, RESERVED_LOCK)
  BY <1>1, <1>2, OtherLevels, FreeLevel, Moves DEF TypeOK
<1>4. ASSUME NEW g \in Files \ {f} PROVE level[g] <= SHARED_LOCK
  <2>1. CASE ProcOf[g] = p
    <3>1. level[g] = eFileLock[g] /\ g \in FilesOf(p)
      BY <1>2, <2>1, FreeLevel DEF FilesOf
    <3> QED BY <1>1, <1>2, <2>1, <3>1 DEF LevelsOk, InCall, TypeOK, Levels
  <2>2. CASE ProcOf[g] # p
    <3>1. sharedBytes[p] = "F_RDLCK"
      BY <1>1, <1>2 DEF KernelOk
    <3>2. ProcOf[g] \in Procs /\ g \in FilesOf(ProcOf[g])
      BY FilesAssumption DEF FilesOf
    <3>3. level[g] # EXCLUSIVE_LOCK /\ level[g] \notin {RESERVED_LOCK, PENDING_LOCK}
      BY <1>1, <1>2, <2>2, <3>1, <3>2, LevelSays DEF KernelInv, Exclusive
    <3> QED BY <3>3, TypedLevels DEF Levels
  <2> QED BY <2>1, <2>2
<1> QED BY <1>3, <1>4 DEF Locks!Reserve, Locks!OthersOnlyRead, Locks!Others, Locks!RESERVED_LOCK,
        Locks!SHARED_LOCK

LEMMA ExclusivePendingMaps ==
    ASSUME Inv, NEW f \in Files, ExclusivePending(f) PROVE Locks!Pend(f)
<1> USE DEF NO_LOCK, SHARED_LOCK, RESERVED_LOCK, PENDING_LOCK, EXCLUSIVE_LOCK
<1> DEFINE p == ProcOf[f]
<1>1. /\ p \in Procs /\ f \in FilesOf(p) /\ TypeOK /\ CallOk(p)
      /\ \A q \in Procs \ {p} : Same(q)
  BY FilesAssumption, ExclusivePendingKeeps DEF Inv, LocalInv, FilesOf
<1>2. /\ at[p] = "idle" /\ at'[p] \in {"idle", "exclusiveRange"} /\ eFileLock[f] = RESERVED_LOCK
      /\ eFileLock' = [eFileLock EXCEPT ![f] = PENDING_LOCK]
  BY <1>1 DEF ExclusivePending, CallOk, Free, FileLock, Continue, TypeOK
<1>3. level[f] = RESERVED_LOCK /\ Locks!Move(f, PENDING_LOCK)
  BY <1>1, <1>2, OtherLevels, FreeLevel, Moves DEF TypeOK
<1> QED BY <1>3 DEF Locks!Pend, Locks!RESERVED_LOCK, Locks!PENDING_LOCK

LEMMA ExclusiveGrantedMaps ==
    ASSUME Inv, NEW f \in Files, ExclusiveGranted(f) PROVE Locks!Exclude(f)
<1> USE DEF NO_LOCK, SHARED_LOCK, RESERVED_LOCK, PENDING_LOCK, EXCLUSIVE_LOCK
<1> DEFINE p == ProcOf[f]
<1>1. /\ p \in Procs /\ f \in FilesOf(p) /\ TypeOK /\ Local(p) /\ CallOk(p)
      /\ \A q \in Procs \ {p} : Same(q)
  BY FilesAssumption, ExclusiveGrantedKeeps DEF Inv, LocalInv, FilesOf, Local
<1>2. /\ at[p] \in {"idle", "exclusiveRange"} /\ at'[p] = "idle"
      /\ eFileLock[f] \in {SHARED_LOCK, PENDING_LOCK} /\ nShared[p] = 1
      /\ \A q \in Procs \ {p} : sharedBytes[q] = "F_UNLCK"
      /\ eFileLock' = [eFileLock EXCEPT ![f] = EXCLUSIVE_LOCK]
  BY <1>1 DEF ExclusiveGranted, WantsExclusive, CallOk, Free, InCall, FileLock, Return, Grants, TypeOK
<1>3. level[f] \in {SHARED_LOCK, PENDING_LOCK} /\ Locks!Move(f, EXCLUSIVE_LOCK)
  BY <1>1, <1>2, OtherLevels, FreeLevel, Moves DEF TypeOK
<1>4. ASSUME NEW g \in Files \ {f} PROVE level[g] = NO_LOCK
  <2>1. CASE ProcOf[g] = p
    <3>1. level[g] = eFileLock[g] /\ g \in FilesOf(p)
      BY <1>2, <2>1, FreeLevel DEF FilesOf
    <3> QED BY <1>1, <1>2, <3>1, Counted
  <2>2. CASE ProcOf[g] # p
    <3>1. ProcOf[g] \in Procs /\ g \in FilesOf(ProcOf[g])
      BY FilesAssumption DEF FilesOf
    <3> QED BY <1>2, <2>2, <3>1, LevelSays
  <2> QED BY <2>1, <2>2
<1> QED BY <1>3, <1>4 DEF Locks!Exclude, Locks!IsAlone, Locks!Others, Locks!NO_LOCK, Locks!SHARED_LOCK,
        Locks!PENDING_LOCK, Locks!EXCLUSIVE_LOCK

LEMMA DowngradeRangeMaps ==
    ASSUME Inv, NEW f \in Files, DowngradeRange(f) PROVE Locks!Downgrade(f)
<1> USE DEF NO_LOCK, SHARED_LOCK, RESERVED_LOCK, PENDING_LOCK, EXCLUSIVE_LOCK
<1> DEFINE p == ProcOf[f]
<1>1. /\ p \in Procs /\ f \in FilesOf(p) /\ TypeOK /\ CallOk(p)
      /\ \A q \in Procs \ {p} : Same(q)
  BY FilesAssumption, DowngradeRangeKeeps DEF Inv, LocalInv, FilesOf
<1>2. /\ at[p] = "idle" /\ at'[p] = "unlockReserved" /\ holder'[p] = f
      /\ eFileLock[f] > SHARED_LOCK /\ eFileLock' = eFileLock
  BY <1>1 DEF DowngradeRange, CallOk, Free, Continue, TypeOK
<1>3. level[f] > SHARED_LOCK /\ level'[f] = SHARED_LOCK
  BY <1>1, <1>2, FreeLevel, LevelBecomes DEF InCall
<1>4. ASSUME NEW g \in Files \ {f} PROVE level'[g] = level[g]
  <2>1. CASE ProcOf[g] = p
    BY <1>2, <2>1, FreeLevel, LevelBecomes DEF InCall
  <2> QED BY <1>1, <2>1, OtherLevels
<1> QED BY <1>3, <1>4, Moves DEF Locks!Downgrade, Locks!SHARED_LOCK

LEMMA UnlockReservedMaps ==
    ASSUME Inv, NEW f \in Files, UnlockReserved(f)
    PROVE  Locks!Downgrade(f) \/ UNCHANGED level
<1> USE DEF NO_LOCK, SHARED_LOCK, RESERVED_LOCK, PENDING_LOCK, EXCLUSIVE_LOCK
<1> DEFINE p == ProcOf[f]
<1>1. /\ p \in Procs /\ f \in FilesOf(p) /\ TypeOK /\ CallOk(p) /\ LevelsOk(p) /\ KernelOk(p)
      /\ \A q \in Procs \ {p} : Same(q)
  BY FilesAssumption, UnlockReservedKeeps DEF Inv, LocalInv, FilesOf
<1>2. /\ at[p] = "idle" /\ at'[p] = "unlockAll" /\ holder'[p] = f /\ sharedBytes' = sharedBytes
      /\ eFileLock[f] > SHARED_LOCK /\ eFileLock' = eFileLock /\ eFileLock[f] \in Levels
  BY <1>1 DEF UnlockReserved, CallOk, Free, Continue, TypeOK
<1>3. /\ level[f] = eFileLock[f]
      /\ level'[f] = IF sharedBytes[p] = "F_WRLCK" THEN EXCLUSIVE_LOCK ELSE SHARED_LOCK
  BY <1>1, <1>2, FreeLevel, LevelBecomes DEF InCall
<1>4. ASSUME NEW g \in Files \ {f} PROVE level'[g] = level[g]
  <2>1. CASE ProcOf[g] = p
    BY <1>2, <2>1, FreeLevel, LevelBecomes DEF InCall
  <2> QED BY <1>1, <2>1, OtherLevels
<1>5. sharedBytes[p] = "F_WRLCK" <=> eFileLock[f] = EXCLUSIVE_LOCK
  <2>1. inodeLock[p] = eFileLock[f]
    BY <1>1, <1>2 DEF LevelsOk, InCall
  <2> QED BY <1>1, <1>2, <2>1 DEF KernelOk, Levels
<1>6. CASE eFileLock[f] = EXCLUSIVE_LOCK
  BY <1>3, <1>4, <1>5, <1>6, StaysLevel
<1>7. CASE eFileLock[f] # EXCLUSIVE_LOCK
  BY <1>2, <1>3, <1>4, <1>5, <1>7, Moves DEF Locks!Downgrade, Locks!SHARED_LOCK
<1> QED BY <1>6, <1>7

LEMMA Releases ==
    ASSUME NEW S \in SUBSET Files, \A g \in Files : level'[g] = IF g \in S THEN NO_LOCK ELSE level[g]
    PROVE  Locks!Release(S)
<1>1. level' = [g \in Files |-> level'[g]]
  BY DEF level
<1>2. [g \in Files |-> level'[g]] = [g \in Files |-> IF g \in S THEN NO_LOCK ELSE level[g]]
  OBVIOUS
<1> QED BY <1>1, <1>2 DEF Locks!Release, Locks!NO_LOCK, NO_LOCK

LEMMA UnlockAllMaps ==
    ASSUME Inv, NEW f \in Files, UnlockAll(f) PROVE Locks!Release({f})
<1> USE DEF NO_LOCK, SHARED_LOCK, RESERVED_LOCK, PENDING_LOCK, EXCLUSIVE_LOCK
<1> DEFINE p == ProcOf[f]
<1>1. /\ p \in Procs /\ f \in FilesOf(p) /\ TypeOK /\ CallOk(p)
      /\ \A q \in Procs \ {p} : Same(q)
  BY FilesAssumption, UnlockAllKeeps DEF Inv, LocalInv, FilesOf
<1>2. /\ at'[p] = "idle" /\ eFileLock' = [eFileLock EXCEPT ![f] = NO_LOCK]
      /\ at[p] = "idle" \/ (at[p] = "unlockAll" /\ holder[p] = f)
  BY <1>1 DEF UnlockAll, CallOk, Free, InCall, FileLock, Return, TypeOK
<1>3. ASSUME NEW g \in Files PROVE level'[g] = IF g = f THEN NO_LOCK ELSE level[g]
  <2>1. CASE ProcOf[g] = p
    <3>1. level'[g] = eFileLock'[g]
      BY <1>2, <2>1, FreeLevel
    <3>2. g # f => level[g] = eFileLock[g]
      BY <1>2, <2>1, LevelIs DEF InCall
    <3> QED BY <1>1, <1>2, <3>1, <3>2 DEF TypeOK
  <2> QED BY <1>1, <2>1, OtherLevels
<1> QED BY <1>3, Releases

LEMMA ProcessDiesMaps ==
    ASSUME Inv, NEW p \in Procs, ProcessDies(p) PROVE Locks!Release(FilesOf(p))
<1>1. TypeOK /\ \A q \in Procs \ {p} : Same(q)
  BY ProcessDiesKeeps DEF Inv
<1>2. at'[p] = "idle" /\ \A g \in FilesOf(p) : eFileLock'[g] = NO_LOCK
  BY <1>1 DEF ProcessDies, TypeOK, FilesOf
<1>3. ASSUME NEW g \in Files PROVE level'[g] = IF g \in FilesOf(p) THEN NO_LOCK ELSE level[g]
  BY <1>1, <1>2, FreeLevel, OtherLevels DEF FilesOf
<1> QED BY <1>3, Releases DEF FilesOf

(* The other steps do not change what the locks promise. *)
LEMMA Stutters ==
    ASSUME NEW f \in Files, \A q \in Procs \ {ProcOf[f]} : Same(q), eFileLock' = eFileLock,
           at[ProcOf[f]] \notin {"unlockReserved", "unlockAll"},
           at'[ProcOf[f]] \notin {"unlockReserved", "unlockAll"}
    PROVE  UNCHANGED level
<1>1. ASSUME NEW g \in Files PROVE level'[g] = level[g]
  BY FilesAssumption, FreeLevel, OtherLevels
<1> QED BY <1>1, StaysLevel

LEMMA DowngradeDoneMaps ==
    ASSUME Inv, NEW f \in Files, DowngradeDone(f) PROVE UNCHANGED level
<1> DEFINE p == ProcOf[f]
<1>1. p \in Procs /\ TypeOK /\ \A q \in Procs \ {p} : Same(q)
  BY FilesAssumption, DowngradeDoneKeeps DEF Inv
<1>2. /\ at[p] = "unlockReserved" /\ holder[p] = f /\ at'[p] = "idle"
      /\ eFileLock' = [eFileLock EXCEPT ![f] = SHARED_LOCK]
  BY <1>1 DEF DowngradeDone, InCall, FileLock, Return, TypeOK
<1>3. ASSUME NEW g \in Files PROVE level'[g] = level[g]
  <2>1. CASE ProcOf[g] = p
    <3>1. level'[g] = eFileLock'[g]
      BY <1>2, <2>1, FreeLevel
    <3>2. level[f] = SHARED_LOCK /\ (g # f => level[g] = eFileLock[g])
      BY <1>2, <2>1, LevelIs DEF InCall
    <3> QED BY <1>1, <1>2, <3>1, <3>2 DEF TypeOK
  <2> QED BY <1>1, <2>1, OtherLevels
<1> QED BY <1>3, StaysLevel

LEMMA QuietSteps ==
    ASSUME Inv, NEW f \in Files,
           \/ Open(f) \/ SharePending(f) \/ ShareRange(f) \/ ShareFails(f) \/ ExclusiveBusy(f)
           \/ CloseDeferred(f) \/ CloseChecks(f) \/ CloseFd(f)
    PROVE  UNCHANGED level
<1> DEFINE p == ProcOf[f]
<1>1. p \in Procs /\ TypeOK /\ CallOk(p)
  BY FilesAssumption DEF Inv, LocalInv
<1>2. \A q \in Procs \ {p} : Same(q)
  <2>1. CASE SharePending(f)
    BY <1>1, <2>1 DEF SharePending, Continue, Fcntl, record, TypeOK, Same, FilesOf
  <2> QED BY <2>1, OpenKeeps, ShareRangeKeeps, ShareFailsKeeps, ExclusiveBusyKeeps,
         CloseDeferredKeeps, CloseChecksKeeps, CloseFdKeeps
<1>3. /\ eFileLock' = eFileLock
      /\ at[p] \notin {"unlockReserved", "unlockAll"} /\ at'[p] \notin {"unlockReserved", "unlockAll"}
  <2> USE DEF InCall, Continue, Return, Free, CallOk
  <2>1. CASE Open(f) \/ CloseDeferred(f) \/ CloseChecks(f)
    BY <1>1, <2>1 DEF Open, CloseDeferred, CloseChecks
  <2>2. CASE SharePending(f) \/ ShareRange(f) \/ ShareFails(f) \/ ExclusiveBusy(f)
    BY <1>1, <2>2 DEF SharePending, ShareRange, ShareFails, ExclusiveBusy, TypeOK
  <2>3. CASE CloseFd(f)
    BY <1>1, <2>3, FilesAssumption DEF CloseFd
  <2> QED BY <2>1, <2>2, <2>3
<1> QED BY <1>2, <1>3, Stutters

(* Every step of the locks is a step of FileLocks or changes nothing of it.  *)
LEMMA StepMaps == ASSUME Inv, [Next]_vars PROVE [Locks!Next]_level
<1>1. ASSUME NEW f \in Files, Open(f) \/ Close(f) PROVE UNCHANGED level
  BY <1>1, QuietSteps DEF Close
<1>2. ASSUME NEW f \in Files, Lock(f) PROVE [Locks!Next]_level
  BY <1>2, QuietSteps, ShareWithOthersMaps, ShareDoneMaps, ReserveMaps, ExclusivePendingMaps,
     ExclusiveGrantedMaps DEF Lock, Locks!Next
<1>3. ASSUME NEW f \in Files, Unlock(f) PROVE [Locks!Next]_level
  BY <1>3, DowngradeRangeMaps, DowngradeDoneMaps, UnlockReservedMaps, UnlockAllMaps DEF Unlock, Locks!Next
<1>4. ASSUME NEW p \in Procs, ProcessDies(p) PROVE [Locks!Next]_level
  BY <1>4, ProcessDiesMaps DEF FilesOf, Locks!Next
<1>5. ASSUME UNCHANGED vars PROVE UNCHANGED level
  BY <1>5 DEF vars, kernel, level, InCall
<1> QED BY <1>1, <1>2, <1>3, <1>4, <1>5 DEF Next

(* The VFS implements the five locking levels, for any processes and         *)
(* connections, although the kernel knows only processes: unixLock and       *)
(* posixUnlock with the counts of unixInodeInfo.  Provided that closes are   *)
(* alone.                                                                    *)
THEOREM UnixImplementsFileLocks == Spec /\ LoneCloses => ImplementsFileLocks
<1>1. Init => Locks!Init
  BY FilesAssumption DEF Init, Locks!Init, level, InCall, NO_LOCK, Locks!NO_LOCK
<1>2. Inv /\ [Next]_vars => [Locks!Next]_level
  BY StepMaps
<1> QED BY <1>1, <1>2, RecordsAreRight, PTL DEF Spec, Locks!Spec, ImplementsFileLocks

(* No two connections hold locks that exclude each other, as long as closes  *)
(* are alone; without it two do (the run doc_unix_close_race).               *)
THEOREM LocksExclude == Spec /\ LoneCloses => []NoConflict
<1> USE DEF NO_LOCK, SHARED_LOCK, RESERVED_LOCK, PENDING_LOCK, EXCLUSIVE_LOCK
<1>1. ASSUME Inv, NEW f \in Files, NEW g \in Files, f # g
      PROVE  /\ level[f] = EXCLUSIVE_LOCK => level[g] = NO_LOCK
             /\ level[f] >= RESERVED_LOCK => level[g] <= SHARED_LOCK
  <2> DEFINE p == ProcOf[f]
             q == ProcOf[g]
  <2>1. /\ p \in Procs /\ q \in Procs /\ f \in FilesOf(p) /\ g \in FilesOf(q)
        /\ TypeOK /\ KernelInv /\ CallOk(p) /\ CallOk(q) /\ LevelsOk(p) /\ KernelOk(p)
    BY <1>1, FilesAssumption DEF Inv, LocalInv, FilesOf
  <2>2. level[f] \in Levels /\ level[g] \in Levels
    BY <1>1, TypedLevels
  <2>3. CASE p # q
    BY <1>1, <2>1, <2>2, <2>3, LevelSays DEF KernelInv, Exclusive, Levels
  <2>4. CASE p = q
    <3>1. ASSUME level[f] > SHARED_LOCK
          PROVE  /\ eFileLock[f] > SHARED_LOCK /\ level[g] <= SHARED_LOCK
                 /\ level[f] = EXCLUSIVE_LOCK => level[g] = NO_LOCK
      <4>1. eFileLock[f] > SHARED_LOCK
        BY <2>1, <2>2, <3>1, LevelIs DEF InCall, CallOk, Caller
      <4>2. /\ eFileLock[g] <= SHARED_LOCK
            /\ eFileLock[f] = EXCLUSIVE_LOCK => eFileLock[g] = NO_LOCK
        BY <1>1, <2>1, <2>4, <4>1 DEF LevelsOk
      <4>3. ~InCall(g, "unlockReserved") /\ ~InCall(g, "unlockAll")
        BY <2>1, <4>2 DEF InCall, CallOk, Caller, TypeOK, Levels
      <4>4. level[f] = EXCLUSIVE_LOCK => eFileLock[f] = EXCLUSIVE_LOCK
        BY <2>1, <3>1, LevelIs DEF InCall, KernelOk, Caller
      <4> QED BY <4>1, <4>2, <4>3, <4>4, LevelIs
    <3> QED BY <2>2, <3>1 DEF Levels
  <2> QED BY <2>3, <2>4
<1>2. Inv => NoConflict
  BY <1>1 DEF NoConflict, Locks!Excludes, Locks!NO_LOCK, Locks!SHARED_LOCK, Locks!RESERVED_LOCK,
     Locks!EXCLUSIVE_LOCK
<1> QED BY <1>2, RecordsAreRight, PTL
=============================================================================
