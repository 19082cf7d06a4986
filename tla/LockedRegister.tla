--------------------------- MODULE LockedRegister ---------------------------
(***************************************************************************)
(* What package state promises its users: a register that one process at a *)
(* time may lock, and that changes only by whole updates of the process    *)
(* holding the lock, each computed from the register's current value.  The *)
(* promise ends when the data directory is wiped.                          *)
(***************************************************************************)
EXTENDS Naturals

CONSTANTS Procs, NoProc, MaxUpdates, Gone

VARIABLES register, holder

regVars == <<register, holder>>

RegInit == register = 0 /\ holder = NoProc

Acquire(p) == /\ holder = NoProc /\ register # Gone
              /\ holder' = p
              /\ UNCHANGED register

\* An update is counted: the n-th one since the register was created yields n.
Update(p) == /\ holder = p
             /\ register < MaxUpdates
             /\ register' = register + 1
             /\ UNCHANGED holder

\* The holder deletes the register's contents.
Delete(p) == holder = p /\ register' = 0 /\ UNCHANGED holder

\* By Release, by an error while loading, or because the holder died.
LetGo(p) == holder = p /\ holder' = NoProc /\ UNCHANGED register

\* The data directory is wiped, lock or no lock.
Destroy == register' = Gone /\ holder' = NoProc

RegNext == \/ \E p \in Procs : Acquire(p) \/ Update(p) \/ Delete(p) \/ LetGo(p)
           \/ Destroy

RegSpec == RegInit /\ [][RegNext]_regVars
=============================================================================
