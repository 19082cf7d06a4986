----------------------------- MODULE StateStore -----------------------------
(***************************************************************************)
(* Package state: Manager and LockedState.  Processes (or goroutines with  *)
(* a flock of their own) load the state file under an exclusive flock,     *)
(* change it in memory, and save it by writing a temporary file and        *)
(* renaming it.                                                            *)
(*                                                                         *)
(* The lock is modelled on inodes, as flock(2) has it: a process locks the *)
(* inode it opened, which stays locked, and can still be locked, after the *)
(* path was unlinked.  Wipes by Run's cleanDataDir and by VM.Remove delete *)
(* the lock file and the state file without taking the lock.               *)
(*                                                                         *)
(* The contents of the state are the number of updates that led to them;   *)
(* 0 is the default state of a missing file.                               *)
(***************************************************************************)
EXTENDS Naturals, FiniteSets

CONSTANTS
  Procs, NoProc,
  Partial,      \* contents of a file that was not written to its end
  Gone,         \* the register of a data directory that was wiped
  MaxUpdates,   \* bound on the updates of one state file
  MaxWipes      \* bound on the wipes

VARIABLES
  pc,        \* per process
  fd,        \* per process: the lock inode it has open, 0 for none
  mem,       \* per process: LockedState.State
  tmp,       \* per process: its temporary file: none, part or full
  file,      \* the state file
  path,      \* the inode lockPath names, 0 for none
  locked,    \* per inode: the process whose flock it carries
  wipes,     \* inodes unlinked so far
  dir        \* history: "kept" until a wipe of the directory begins

vars == <<pc, fd, mem, tmp, file, path, locked, wipes, dir>>

Inodes == 1 .. MaxWipes + 1

ASSUME StateStoreAssumption ==
  /\ NoProc \notin Procs
  /\ MaxUpdates \in Nat /\ MaxWipes \in Nat
  /\ Partial \notin Nat /\ Gone \notin Nat

Init ==
  /\ pc = [p \in Procs |-> "idle"]
  /\ fd = [p \in Procs |-> 0]
  /\ mem = [p \in Procs |-> 0]
  /\ tmp = [p \in Procs |-> "none"]
  /\ file = 0
  /\ path = 0
  /\ locked = [i \in Inodes |-> NoProc]
  /\ wipes = 0
  /\ dir = "kept"

\* Mutant: every attempt replaces the lock file.
OpenLockFresh(p) ==
  /\ pc[p] = "idle"
  /\ path' = path + 1 /\ fd' = [fd EXCEPT ![p] = path + 1]
  /\ pc' = [pc EXCEPT ![p] = "trying"]
  /\ UNCHANGED <<mem, tmp, file, locked, wipes, dir>>

\* LoadAndLock up to the first TryLock: the lock file is opened, and created
\* if it is missing.  An inode number is never used twice.
OpenLock(p) ==
  /\ pc[p] = "idle"
  /\ LET inode == IF path = 0 THEN wipes + 1 ELSE path
     IN  path' = inode /\ fd' = [fd EXCEPT ![p] = inode]
  /\ pc' = [pc EXCEPT ![p] = "trying"]
  /\ UNCHANGED <<mem, tmp, file, locked, wipes, dir>>

\* Mutant: a shared lock.
TryLockShared(p) ==
  /\ pc[p] = "trying"
  /\ locked' = [locked EXCEPT ![fd[p]] = p]
  /\ pc' = [pc EXCEPT ![p] = "load"]
  /\ UNCHANGED <<fd, mem, tmp, file, path, wipes, dir>>

\* TryLockContext succeeds ...
TryLock(p) ==
  /\ pc[p] = "trying"
  /\ locked[fd[p]] = NoProc
  /\ locked' = [locked EXCEPT ![fd[p]] = p]
  /\ pc' = [pc EXCEPT ![p] = "load"]
  /\ UNCHANGED <<fd, mem, tmp, file, path, wipes, dir>>

\* Mutant: a failed attempt unlocks the file.
GiveUpUnlocking(p) ==
  /\ pc[p] = "trying"
  /\ locked' = [locked EXCEPT ![fd[p]] = NoProc]
  /\ pc' = [pc EXCEPT ![p] = "idle"]
  /\ fd' = [fd EXCEPT ![p] = 0]
  /\ UNCHANGED <<mem, tmp, file, path, wipes, dir>>

\* ... or fails, which closes the lock file: the next attempt opens it again,
\* unless the context is done or the retry timeout has passed.
GiveUp(p) ==
  /\ pc[p] = "trying"
  /\ pc' = [pc EXCEPT ![p] = "idle"]
  /\ fd' = [fd EXCEPT ![p] = 0]
  /\ UNCHANGED <<mem, tmp, file, path, locked, wipes, dir>>

Unlocked(p) == [i \in Inodes |-> IF locked[i] = p THEN NoProc ELSE locked[i]]

\* Back to idle with the lock released.
Leave(p) ==
  /\ locked' = Unlocked(p)
  /\ fd' = [fd EXCEPT ![p] = 0]
  /\ mem' = [mem EXCEPT ![p] = 0]
  /\ pc' = [pc EXCEPT ![p] = "idle"]

\* Mutant: the state is not read again once the lock is held.
LoadStateCached(p) ==
  /\ pc[p] = "load"
  /\ pc' = [pc EXCEPT ![p] = "held"]
  /\ UNCHANGED <<fd, mem, tmp, file, path, locked, wipes, dir>>

\* loadState: a missing file gives the default state; a file that cannot be
\* read or parsed is an error, and the lock is released.
LoadState(p) ==
  /\ pc[p] = "load"
  /\ \/ /\ file # Partial
        /\ mem' = [mem EXCEPT ![p] = file]
        /\ pc' = [pc EXCEPT ![p] = "held"]
        /\ UNCHANGED <<fd, locked>>
     \/ Leave(p)
  /\ UNCHANGED <<tmp, file, path, wipes, dir>>

\* Mutant: the rename does not wait for the last write.
WriteTempShort(p) ==
  /\ pc[p] = "held"
  /\ mem[p] < MaxUpdates
  /\ mem' = [mem EXCEPT ![p] = @ + 1]
  /\ tmp' = [tmp EXCEPT ![p] = "part"]
  /\ pc' = [pc EXCEPT ![p] = "renaming"]
  /\ UNCHANGED <<fd, file, path, locked, wipes, dir>>

\* Save, first part: the changed state goes to a temporary file, in pieces.
WriteTemp(p) ==
  /\ pc[p] = "held"
  /\ mem[p] < MaxUpdates
  /\ mem' = [mem EXCEPT ![p] = @ + 1]
  /\ tmp' = [tmp EXCEPT ![p] = "part"]
  /\ pc' = [pc EXCEPT ![p] = "writing"]
  /\ UNCHANGED <<fd, file, path, locked, wipes, dir>>

CloseTemp(p) ==
  /\ pc[p] = "writing"
  /\ tmp' = [tmp EXCEPT ![p] = IF @ = "part" THEN "full" ELSE @]
  /\ pc' = [pc EXCEPT ![p] = "renaming"]
  /\ UNCHANGED <<fd, mem, file, path, locked, wipes, dir>>

\* Save, second part: the rename replaces the state file.
Rename(p) ==
  /\ pc[p] = "renaming"
  /\ tmp[p] # "none"
  /\ file' = IF tmp[p] = "full" THEN mem[p] ELSE Partial
  /\ tmp' = [tmp EXCEPT ![p] = "none"]
  /\ pc' = [pc EXCEPT ![p] = "held"]
  /\ UNCHANGED <<fd, mem, path, locked, wipes, dir>>

\* Writing, closing or renaming fails (a wipe took the temporary file, say):
\* the file is removed, and both callers (Run, Stop) then release.
SaveFails(p) ==
  /\ pc[p] \in {"writing", "renaming"}
  /\ tmp' = [tmp EXCEPT ![p] = "none"]
  /\ Leave(p)
  /\ UNCHANGED <<file, path, wipes, dir>>

\* LockedState.Remove deletes the state file and keeps the lock file.
Remove(p) ==
  /\ pc[p] = "held"
  /\ file' = 0
  /\ pc' = [pc EXCEPT ![p] = "removed"]
  /\ UNCHANGED <<fd, mem, tmp, path, locked, wipes, dir>>

Release(p) ==
  /\ pc[p] \in {"held", "removed"}
  /\ Leave(p)
  /\ UNCHANGED <<tmp, file, path, wipes, dir>>

\* The process is killed: the kernel drops its flock, the temporary file stays.
Crash(p) ==
  /\ pc[p] # "idle"
  /\ Leave(p)
  /\ UNCHANGED <<tmp, file, path, wipes, dir>>

\* removeAll(dataDir), or of its contents, without the lock: the files go one
\* after the other, in any order, and an error may keep some.
WipeState ==
  /\ file' = 0
  /\ tmp' = [p \in Procs |-> "none"]
  /\ dir' = "wiped"
  /\ UNCHANGED <<pc, fd, mem, path, locked, wipes>>

WipeLock ==
  /\ path # 0 /\ wipes < MaxWipes
  /\ path' = 0
  /\ wipes' = wipes + 1
  /\ dir' = "wiped"
  /\ UNCHANGED <<pc, fd, mem, tmp, file, locked>>

Step(p) == \/ OpenLock(p) \/ TryLock(p) \/ GiveUp(p) \/ LoadState(p)
           \/ WriteTemp(p) \/ CloseTemp(p) \/ Rename(p) \/ SaveFails(p)
           \/ Remove(p) \/ Release(p) \/ Crash(p)

Next == (\E p \in Procs : Step(p)) \/ WipeState \/ WipeLock

Spec == Init /\ [][Next]_vars

-----------------------------------------------------------------------------
(* Properties.                                                             *)

\* Between TryLockContext's success and the release.
Inside == {"load", "held", "writing", "renaming", "removed"}

\* A process has the lock file open from OpenLock on, and inside it holds the
\* flock of the inode it opened.
TypeOK ==
  /\ pc \in [Procs -> {"idle", "trying"} \cup Inside]
  /\ fd \in [Procs -> Inodes \cup {0}]
  /\ mem \in [Procs -> Nat]
  /\ tmp \in [Procs -> {"none", "part", "full"}]
  /\ file \in Nat \cup {Partial}
  /\ path \in {0, wipes + 1}
  /\ wipes \in 0 .. MaxWipes
  /\ dir \in {"kept", "wiped"} /\ (wipes > 0 => dir = "wiped")
  /\ locked \in [Inodes -> Procs \cup {NoProc}]

\* flock keeps two processes that opened the same lock file apart (state.go
\* LoadAndLock, Release; a crash at any step), wipes or not.
OneModifierPerLockFile ==
  \A p, q \in Procs : pc[p] \in Inside /\ pc[q] \in Inside /\ fd[p] = fd[q] => p = q

\* A save never overwrites an update it has not seen: from the load to the
\* rename the state in memory is the one in the file, plus the update being
\* saved, as long as nobody wipes the directory (state.go LoadAndLock, Save).
NoLostUpdate ==
  dir = "kept" =>
    \A p \in Procs : /\ pc[p] = "held" => mem[p] = file
                     /\ pc[p] \in {"writing", "renaming"} => mem[p] = file + 1

\* The state file is never partly written, whenever a process is killed
\* (docs/ARCHITECTURE.md, Atomic Writes; state.go Save).
NeverPartial == file # Partial

\* The package implements the register, which is gone when the data directory
\* is wiped: then the first lock file no longer protects the state file.
Register == INSTANCE LockedRegister
              WITH register <- IF dir = "kept" THEN file ELSE Gone,
                   holder <- IF dir = "kept" THEN locked[1] ELSE NoProc
ImplementsRegister == Register!RegSpec
=============================================================================
