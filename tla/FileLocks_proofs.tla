---------------------------- MODULE FileLocks_proofs ----------------------------
(* The proofs about FileLocks, for any files and processes. *)
EXTENDS FileLocks, TLAPS

(* Every reachable state gives each file one of the five levels. *)
THEOREM LevelsTyped == Spec => []TypeOK
<1> USE DEF TypeOK, Levels, NO_LOCK, SHARED_LOCK, RESERVED_LOCK, PENDING_LOCK, EXCLUSIVE_LOCK
<1>1. Init => TypeOK
  BY DEF Init
<1>2. TypeOK /\ [Next]_level => TypeOK'
  BY DEF Next, Share, Reserve, Pend, Exclude, Downgrade, Release, Move
<1> QED BY <1>1, <1>2, PTL DEF Spec

(* Whoever writes to the database writes alone, and one file at a time       *)
(* prepares to: the rules for taking a lock are enough.                      *)
THEOREM LevelsExclude == Spec => []Excludes
<1> USE DEF TypeOK, Excludes, Levels, NO_LOCK, SHARED_LOCK, RESERVED_LOCK, PENDING_LOCK,
     EXCLUSIVE_LOCK
<1>1. Init => Excludes
  BY DEF Init
<1>2. TypeOK /\ Excludes /\ [Next]_level => Excludes'
  <2> SUFFICES ASSUME TypeOK, Excludes, Next PROVE Excludes'
    BY SMT
  <2> USE DEF Move, Others
  <2>1. ASSUME NEW f \in Files, Share(f) PROVE Excludes'
    BY <2>1 DEF Share, KeepsOut, Reads
  <2>2. ASSUME NEW f \in Files, Reserve(f) PROVE Excludes'
    BY <2>2 DEF Reserve, OthersOnlyRead
  <2>3. ASSUME NEW f \in Files, Pend(f) PROVE Excludes'
    BY <2>3 DEF Pend
  <2>4. ASSUME NEW f \in Files, Exclude(f) PROVE Excludes'
    BY <2>4 DEF Exclude, IsAlone
  <2>5. ASSUME NEW f \in Files, Downgrade(f) PROVE Excludes'
    BY <2>5 DEF Downgrade
  <2>6. ASSUME NEW S \in SUBSET Files, Release(S) PROVE Excludes'
    BY <2>6 DEF Release
  <2> QED BY <2>1, <2>2, <2>3, <2>4, <2>5, <2>6 DEF Next
<1> QED BY <1>1, <1>2, LevelsTyped, PTL DEF Spec
=============================================================================
