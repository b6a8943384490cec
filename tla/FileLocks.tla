------------------------------ MODULE FileLocks ------------------------------
(***************************************************************************)
(* What the five locking levels of a database file promise to the pagers   *)
(* that share it, without mutexes and system calls: readers share, one     *)
(* writer at a time is RESERVED or above, PENDING keeps new readers out,   *)
(* EXCLUSIVE excludes everybody.                                           *)
(***************************************************************************)
EXTENDS Naturals

CONSTANTS
    Files,   \* the open database files (one for each connection)
    ProcOf   \* the process of each file

NO_LOCK == 0
SHARED_LOCK == 1
RESERVED_LOCK == 2
PENDING_LOCK == 3
EXCLUSIVE_LOCK == 4
Levels == NO_LOCK..EXCLUSIVE_LOCK

VARIABLE level   \* the lock that each file holds

TypeOK == level \in [Files -> Levels]

Init == level = [f \in Files |-> NO_LOCK]

Others(f) == Files \ {f}
Move(f, l) == level' = [level EXCEPT ![f] = l]

(* PENDING keeps out every process but those that read already: their other  *)
(* connections join without a lock of their own.                             *)
Reads(p) == \E h \in Files : ProcOf[h] = p /\ level[h] # NO_LOCK
KeepsOut(g, f) ==
    \/ level[g] = EXCLUSIVE_LOCK
    \/ level[g] = PENDING_LOCK /\ (ProcOf[g] = ProcOf[f] \/ ~Reads(ProcOf[f]))

Share(f) ==
    /\ level[f] = NO_LOCK
    /\ \A g \in Others(f) : ~KeepsOut(g, f)
    /\ Move(f, SHARED_LOCK)

OthersOnlyRead(f) == \A g \in Others(f) : level[g] <= SHARED_LOCK
IsAlone(f) == \A g \in Others(f) : level[g] = NO_LOCK

Reserve(f) ==
    /\ level[f] = SHARED_LOCK
    /\ OthersOnlyRead(f)
    /\ Move(f, RESERVED_LOCK)

Pend(f) ==
    /\ level[f] = RESERVED_LOCK
    /\ Move(f, PENDING_LOCK)

(* From PENDING to write, from SHARED to roll a hot journal back. *)
Exclude(f) ==
    /\ level[f] \in {SHARED_LOCK, PENDING_LOCK}
    /\ IsAlone(f)
    /\ Move(f, EXCLUSIVE_LOCK)

Downgrade(f) ==
    /\ level[f] > SHARED_LOCK
    /\ Move(f, SHARED_LOCK)

(* Some files at once: the files of a process that dies. *)
Release(S) ==
    level' = [f \in Files |-> IF f \in S THEN NO_LOCK ELSE level[f]]

Next ==
    \/ \E f \in Files : Share(f) \/ Reserve(f) \/ Pend(f) \/ Exclude(f) \/ Downgrade(f)
    \/ \E S \in SUBSET Files : Release(S)

Spec == Init /\ [][Next]_level

(* Two files never hold locks that exclude each other: whoever writes to the *)
(* database writes alone, and one file at a time prepares to.                *)
Excludes ==
    \A f, g \in Files : f # g =>
        /\ level[f] = EXCLUSIVE_LOCK => level[g] = NO_LOCK
        /\ level[f] >= RESERVED_LOCK => level[g] <= SHARED_LOCK
=============================================================================
