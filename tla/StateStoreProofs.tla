-------------------------- MODULE StateStoreProofs --------------------------
(***************************************************************************)
(* Proofs about StateStore, for every set of processes and all bounds: the *)
(* invariants the runs check, and that package state implements the        *)
(* register of LockedRegister.                                             *)
(*                                                                         *)
(* The argument rests on what flock gives: LockInv ties "inside the lock"  *)
(* to the flock of the inode a process opened, in both directions.  While  *)
(* nobody has wiped the directory there is one inode, so there is one      *)
(* process inside, and what it has in memory is what is in the file.       *)
(***************************************************************************)
EXTENDS StateStore, TLAPS

\* An open lock file exists, and a process is inside exactly when the inode it
\* opened carries its flock.
LockInv ==
  /\ \A p \in Procs : pc[p] # "idle" => fd[p] \in 1 .. wipes + 1
  /\ \A p \in Procs : pc[p] \in Inside => locked[fd[p]] = p
  /\ \A i \in Inodes, p \in Procs : locked[i] = p => pc[p] \in Inside /\ fd[p] = i

\* The temporary file is complete, or gone, when it is renamed; the update it
\* holds is within the bound.
TempInv ==
  \A p \in Procs : /\ pc[p] = "renaming" => tmp[p] # "part"
                   /\ pc[p] \in {"writing", "renaming"} => mem[p] =< MaxUpdates

IInv == TypeOK /\ LockInv /\ TempInv /\ NeverPartial /\ NoLostUpdate

USE DEF Inside, Inodes

\* Two processes inside hold the flock of different inodes.
LEMMA LockSeparates == LockInv => OneModifierPerLockFile
BY DEF LockInv, OneModifierPerLockFile

\* Until a wipe there is one lock file, so one process is inside.
LEMMA OneInside ==
  ASSUME IInv, dir = "kept", NEW p \in Procs, NEW q \in Procs,
         pc[p] \in Inside, pc[q] \in Inside
  PROVE  p = q /\ fd[p] = 1 /\ locked[1] = p
BY StateStoreAssumption DEF IInv, TypeOK, LockInv

LEMMA InitIInv == Init => IInv
BY StateStoreAssumption DEF Init, IInv, TypeOK, LockInv, TempInv, NeverPartial, NoLostUpdate

\* Leaving drops the locks of the process that leaves and of no other.
LEMMA LeaveIInv ==
  ASSUME IInv, NEW p \in Procs, Leave(p), UNCHANGED <<file, path, wipes, dir>>,
         tmp' \in [Procs -> {"none", "part", "full"}],
         \A q \in Procs : tmp'[q] = tmp[q] \/ tmp'[q] = "none"
  PROVE  IInv'
<1> USE StateStoreAssumption
<1>1. \A i \in Inodes : locked'[i] = IF locked[i] = p THEN NoProc ELSE locked[i]
  BY DEF Leave, Unlocked
<1>2. TypeOK'
  BY DEF IInv, TypeOK, Leave, Unlocked
<1>3. LockInv'
  <2>1. /\ pc'[p] = "idle"
        /\ \A q \in Procs \ {p} : pc'[q] = pc[q] /\ fd'[q] = fd[q]
    BY DEF IInv, TypeOK, Leave
  <2>2. /\ wipes \in 0 .. MaxWipes
        /\ \A q \in Procs : pc[q] \in Inside => fd[q] \in Inodes
    BY DEF IInv, TypeOK, LockInv
  <2>3. ASSUME NEW q \in Procs, pc'[q] # "idle" PROVE fd'[q] \in 1 .. wipes' + 1
    BY <2>1, <2>3 DEF IInv, LockInv
  <2>4. ASSUME NEW q \in Procs, pc'[q] \in Inside PROVE locked'[fd'[q]] = q
    BY <1>1, <2>1, <2>2, <2>4 DEF IInv, LockInv
  <2>5. ASSUME NEW i \in Inodes, NEW q \in Procs, locked'[i] = q
        PROVE  pc'[q] \in Inside /\ fd'[q] = i
    BY <1>1, <2>1, <2>2, <2>5 DEF IInv, LockInv
  <2>6. QED
    BY <2>3, <2>4, <2>5 DEF LockInv
<1>4. (TempInv /\ NeverPartial /\ NoLostUpdate)'
  BY DEF IInv, TypeOK, TempInv, NeverPartial, NoLostUpdate, Leave
<1>5. QED
  BY <1>2, <1>3, <1>4 DEF IInv

LEMMA StepIInv == IInv /\ [Next]_vars => IInv'
<1> SUFFICES ASSUME IInv, [Next]_vars PROVE IInv'
  OBVIOUS
<1> USE StateStoreAssumption
<1>1. ASSUME NEW p \in Procs, OpenLock(p) PROVE IInv'
  BY <1>1 DEF OpenLock, IInv, TypeOK, LockInv, TempInv, NeverPartial, NoLostUpdate
<1>2. ASSUME NEW p \in Procs, TryLock(p) PROVE IInv'
  BY <1>2 DEF TryLock, IInv, TypeOK, LockInv, TempInv, NeverPartial, NoLostUpdate
<1>3. ASSUME NEW p \in Procs, GiveUp(p) PROVE IInv'
  BY <1>3 DEF GiveUp, IInv, TypeOK, LockInv, TempInv, NeverPartial, NoLostUpdate
<1>4. ASSUME NEW p \in Procs, LoadState(p) PROVE IInv'
  <2>1. CASE Leave(p)
    BY <1>4, <2>1, LeaveIInv DEF LoadState, IInv, TypeOK
  <2>2. CASE /\ file # Partial
             /\ mem' = [mem EXCEPT ![p] = file]
             /\ pc' = [pc EXCEPT ![p] = "held"]
             /\ UNCHANGED <<fd, locked>>
    BY <1>4, <2>2
       DEF LoadState, IInv, TypeOK, LockInv, TempInv, NeverPartial, NoLostUpdate
  <2>3. QED
    BY <1>4, <2>1, <2>2 DEF LoadState
<1>5. ASSUME NEW p \in Procs, WriteTemp(p) PROVE IInv'
  BY <1>5 DEF WriteTemp, IInv, TypeOK, LockInv, TempInv, NeverPartial, NoLostUpdate
<1>6. ASSUME NEW p \in Procs, CloseTemp(p) PROVE IInv'
  BY <1>6 DEF CloseTemp, IInv, TypeOK, LockInv, TempInv, NeverPartial, NoLostUpdate

\* The two steps that write the file: nobody else is inside.
<1>7. ASSUME NEW p \in Procs, Rename(p) PROVE IInv'
  <2>1. dir = "kept" => \A q \in Procs \ {p} : pc[q] \notin Inside
    BY <1>7, OneInside DEF Rename
  <2>2. file' = mem[p] /\ mem[p] \in Nat
    BY <1>7 DEF Rename, IInv, TypeOK, TempInv
  <2>3. (TypeOK /\ LockInv /\ TempInv /\ NeverPartial)'
    BY <1>7, <2>2 DEF Rename, IInv, TypeOK, LockInv, TempInv, NeverPartial
  <2>4. NoLostUpdate'
    BY <1>7, <2>1, <2>2 DEF Rename, IInv, TypeOK, NoLostUpdate
  <2>5. QED
    BY <2>3, <2>4 DEF IInv
<1>8. ASSUME NEW p \in Procs, SaveFails(p) PROVE IInv'
  BY <1>8, LeaveIInv DEF SaveFails, IInv, TypeOK
<1>9. ASSUME NEW p \in Procs, Remove(p) PROVE IInv'
  <2>1. dir = "kept" => \A q \in Procs \ {p} : pc[q] \notin Inside
    BY <1>9, OneInside DEF Remove
  <2>2. (TypeOK /\ LockInv /\ TempInv /\ NeverPartial)'
    BY <1>9 DEF Remove, IInv, TypeOK, LockInv, TempInv, NeverPartial
  <2>3. NoLostUpdate'
    BY <1>9, <2>1 DEF Remove, IInv, TypeOK, NoLostUpdate
  <2>4. QED
    BY <2>2, <2>3 DEF IInv
<1>10. ASSUME NEW p \in Procs, Release(p) PROVE IInv'
  BY <1>10, LeaveIInv DEF Release, IInv, TypeOK
<1>11. ASSUME NEW p \in Procs, Crash(p) PROVE IInv'
  BY <1>11, LeaveIInv DEF Crash, IInv, TypeOK
<1>12. CASE WipeState \/ WipeLock
  BY <1>12
  DEF WipeState, WipeLock, IInv, TypeOK, LockInv, TempInv, NeverPartial, NoLostUpdate
<1>13. CASE UNCHANGED vars
  BY <1>13 DEF vars, IInv, TypeOK, LockInv, TempInv, NeverPartial, NoLostUpdate
<1>14. QED
  BY <1>1, <1>2, <1>3, <1>4, <1>5, <1>6, <1>7, <1>8, <1>9, <1>10, <1>11, <1>12,
     <1>13 DEF Next, Step

LEMMA Invariance == Spec => []IInv
BY InitIInv, StepIInv, PTL DEF Spec

\* The variables keep their types, for any number of processes.
THEOREM TypeCorrect == Spec => []TypeOK
BY Invariance, PTL DEF IInv

\* flock keeps the processes that opened one lock file apart, through crashes
\* and wipes (LoadAndLock, Release).
THEOREM MutualExclusion == Spec => []OneModifierPerLockFile
BY Invariance, LockSeparates, PTL DEF IInv

\* Until the directory is wiped, no Save overwrites an update it has not seen.
THEOREM UpdatesKept == Spec => []NoLostUpdate
BY Invariance, PTL DEF IInv

\* The state file is never partly written, wherever a process is killed.
THEOREM AtomicSave == Spec => []NeverPartial
BY Invariance, PTL DEF IInv

-----------------------------------------------------------------------------
(* The refinement: every step of StateStore is a step of the register or   *)
(* leaves it unchanged.                                                    *)

LEMMA InitRefines == Init => Register!RegInit
BY StateStoreAssumption DEF Init, Register!RegInit

LEMMA LeaveRefines ==
  ASSUME IInv, NEW p \in Procs, Leave(p), UNCHANGED <<file, wipes, dir>>
  PROVE  [Register!RegNext]_(Register!regVars)
<1>1. CASE dir = "kept" /\ locked[1] = p
  <2>1. Register!LetGo(p)
    BY <1>1, StateStoreAssumption DEF IInv, TypeOK, Leave, Unlocked, Register!LetGo
  <2>2. QED
    BY <2>1 DEF Register!RegNext
<1>2. CASE ~(dir = "kept" /\ locked[1] = p)
  BY <1>2, StateStoreAssumption DEF IInv, TypeOK, Leave, Unlocked, Register!regVars
<1>3. QED
  BY <1>1, <1>2

LEMMA StepRefines == IInv /\ [Next]_vars => [Register!RegNext]_(Register!regVars)
<1> SUFFICES ASSUME IInv, [Next]_vars PROVE [Register!RegNext]_(Register!regVars)
  OBVIOUS
<1> USE StateStoreAssumption
<1>1. ASSUME NEW p \in Procs, TryLock(p) PROVE [Register!RegNext]_(Register!regVars)
  <2>1. CASE dir = "kept"
    <3>1. fd[p] = 1
      BY <1>1, <2>1 DEF TryLock, IInv, TypeOK, LockInv
    <3>2. Register!Acquire(p)
      BY <1>1, <2>1, <3>1 DEF TryLock, IInv, TypeOK, NeverPartial, Register!Acquire
    <3>3. QED
      BY <3>2 DEF Register!RegNext
  <2>2. CASE dir # "kept"
    BY <1>1, <2>2 DEF TryLock, Register!regVars
  <2>3. QED
    BY <2>1, <2>2
<1>2. ASSUME NEW p \in Procs, Rename(p) PROVE [Register!RegNext]_(Register!regVars)
  <2>1. CASE dir = "kept"
    <3>1. locked[1] = p
      BY <1>2, <2>1, OneInside DEF Rename
    <3>2. file' = file + 1 /\ file < MaxUpdates
      BY <1>2, <2>1 DEF Rename, IInv, TypeOK, TempInv, NeverPartial, NoLostUpdate
    <3>3. Register!Update(p)
      BY <1>2, <2>1, <3>1, <3>2 DEF Rename, Register!Update
    <3>4. QED
      BY <3>3 DEF Register!RegNext
  <2>2. CASE dir # "kept"
    BY <1>2, <2>2 DEF Rename, Register!regVars
  <2>3. QED
    BY <2>1, <2>2
<1>3. ASSUME NEW p \in Procs, Remove(p) PROVE [Register!RegNext]_(Register!regVars)
  <2>1. CASE dir = "kept"
    <3>1. locked[1] = p
      BY <1>3, <2>1, OneInside DEF Remove
    <3>2. Register!Delete(p)
      BY <1>3, <2>1, <3>1 DEF Remove, Register!Delete
    <3>3. QED
      BY <3>2 DEF Register!RegNext
  <2>2. CASE dir # "kept"
    BY <1>3, <2>2 DEF Remove, Register!regVars
  <2>3. QED
    BY <2>1, <2>2
<1>4. ASSUME NEW p \in Procs, SaveFails(p) \/ Release(p) \/ Crash(p) \/ LoadState(p)
      PROVE [Register!RegNext]_(Register!regVars)
  <2>1. CASE Leave(p)
    BY <1>4, <2>1, LeaveRefines DEF SaveFails, Release, Crash, LoadState
  <2>2. CASE UNCHANGED <<file, dir, locked>>
    BY <2>2 DEF Register!regVars
  <2>3. QED
    BY <1>4, <2>1, <2>2 DEF SaveFails, Release, Crash, LoadState
<1>5. ASSUME NEW p \in Procs, OpenLock(p) \/ GiveUp(p) \/ WriteTemp(p) \/ CloseTemp(p)
      PROVE [Register!RegNext]_(Register!regVars)
  BY <1>5 DEF OpenLock, GiveUp, WriteTemp, CloseTemp, Register!regVars
<1>6. CASE WipeState \/ WipeLock
  <2>1. Register!Destroy
    BY <1>6 DEF WipeState, WipeLock, IInv, TypeOK, Register!Destroy
  <2>2. QED
    BY <2>1 DEF Register!RegNext
<1>7. CASE UNCHANGED vars
  BY <1>7 DEF vars, Register!regVars
<1>8. QED
  BY <1>1, <1>2, <1>3, <1>4, <1>5, <1>6, <1>7 DEF Next, Step

\* Package state implements the locked register until a wipe ends its promise.
THEOREM Refinement == Spec => ImplementsRegister
BY InitRefines, StepRefines, Invariance, PTL DEF Spec, ImplementsRegister, Register!RegSpec
=============================================================================
