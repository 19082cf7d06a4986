----------------------------- MODULE Lifecycle ------------------------------
(***************************************************************************)
(* The lifecycle of a microVM: microvm.Run, VM.Stop and VM.Remove, the     *)
(* runner process they manage (runner/spawn.go) and the state file that    *)
(* outlives a crash of the caller.                                         *)
(*                                                                         *)
(* Callers are host processes that use the library on one data directory.  *)
(* A caller may be killed at any step: its in-process network provider and *)
(* its file lock go with it, its runner (Setsid) does not.  A process ID   *)
(* may be reused by the operating system once its process has exited.      *)
(*                                                                         *)
(* Abstractions.  The steps of Run before networking that hold nothing     *)
(* (preflight, image, hooks, PrepareRootFS) are one step that succeeds or  *)
(* fails.  Of the state file only PID matters (Active is PID # 0 here).    *)
(* Exited runners are reaped at once.  The lock file's inode, and what     *)
(* happens to a lock when the data directory is wiped under it, is module  *)
(* StateStore's subject; here a wipe frees the lock's path.                *)
(***************************************************************************)
EXTENDS Naturals, FiniteSets

CONSTANTS
  Callers,      \* host processes using the data directory
  Pids,         \* process IDs
  NoPid,        \* PID = 0 in the state file; no handle in a caller
  NoCaller,
  Modes         \* the ways the data directory may be used

\* WithCleanDataDir; a provider, given or wired by wireDefaultProvider; a
\* virtiofs mount whose ownership override Run rejects.
OptionSet == [clean : BOOLEAN, useNet : BOOLEAN, badMount : BOOLEAN]

\* Who uses the data directory, the PIDs the system hands out, the options Run
\* may be called with, whether an exited runner's PID may go to an unrelated
\* process, and whether reading the state file may fail.
ModeSet == [callers : SUBSET Callers, pids : SUBSET Pids,
            options : SUBSET OptionSet, reuse : BOOLEAN, readErrors : BOOLEAN]

ASSUME LifecycleAssumption ==
  /\ NoPid \notin Pids
  /\ NoCaller \notin Callers
  /\ Modes \subseteq ModeSet

VARIABLES
  mode,    \* how the data directory is used; it never changes
  vm,      \* per caller: its program counter, context, handle and provider
  proc,    \* per PID: what runs there
  owner,   \* per PID: the caller that spawned the runner there and still runs
  file,    \* PID in the state file, NoPid if 0 or if there is no file
  lock,    \* the caller holding the flock on the state lock file
  saved    \* history: PIDs of live runners recorded by a successful Save

vars == <<mode, vm, proc, owner, file, lock, saved>>

\* A runner is running, has been sent SIGTERM, or has been sent SIGKILL; a PID
\* without one is free, or taken by an unrelated process, "other".
Runner == {"runner", "term", "killed"}

\* Where a caller is in Stop, with wipe2 for Remove, and between calls: up,
\* stopped and stopErr with a handle, idle without one.  The rest is Run:
\* load, check, sterm, spoll, skill, wipe, prepare, net, validate, spawn, lock,
\* save, release, hooks.
StopPCs == {"alive", "term", "poll", "kill", "netstop", "lock2", "save2",
            "release2", "wipe2"}
Resting == {"idle", "up", "stopped", "stopErr"}

\* op is the call in progress or the last one: hookErr is a Run whose post-boot
\* hook failed, hookRefused one whose vm.Stop was then refused a signal; stale
\* is the PID that terminateStaleRunner works on.
Idle == [pc |-> "idle", op |-> "none", ctx |-> "live", pid |-> NoPid,
         stale |-> NoPid, net |-> "off", useNet |-> FALSE,
         badMount |-> FALSE]

Init ==
  /\ mode \in Modes
  /\ vm = [c \in Callers |-> Idle]
  /\ proc = [p \in Pids |-> "free"]
  /\ owner = [p \in Pids |-> NoCaller]
  /\ file = NoPid
  /\ lock = NoCaller
  /\ saved = {}

At(c, pc) == vm[c].pc = pc
Goto(c, pc) == vm' = [vm EXCEPT ![c].pc = pc]

\* processIsExpected and Process.IsAlive (signal 0 and /proc/<pid>/exe, which
\* is taken to be readable while a runner lives: it runs as the caller's user).
IsAlive(p) == proc[p] \in Runner
\* terminateStaleRunner's poll looks at signal 0 only.
ProcessAlive(p) == proc[p] # "free"

\* kill(-p, sig): ESRCH if nothing runs there or an unrelated process that does
\* not lead a process group; a process of another user answers EPERM.
KillResults(p) ==
  CASE proc[p] = "free"  -> {"ESRCH"}
    [] proc[p] = "other" -> {"ok", "EPERM", "ESRCH"}
    [] OTHER             -> {"ok"}

Deliver(p, sig, result) ==
  proc' = [proc EXCEPT ![p] =
             IF result # "ok" \/ @ \notin Runner \/ @ = "killed" THEN @ ELSE sig]

-----------------------------------------------------------------------------
(* Run: cleanDataDir and terminateStaleRunner.                             *)

\* Mutant: the data directory is removed without a look for a stale runner.
RunBeginNoStale(c) ==
  /\ At(c, "idle") /\ c \in mode.callers
  /\ \E opts \in mode.options :
       vm' = [vm EXCEPT ![c] = [Idle EXCEPT !.pc = IF opts.clean THEN "wipe" ELSE "prepare",
                                            !.op = "run", !.useNet = opts.useNet,
                                            !.badMount = opts.badMount]]
  /\ UNCHANGED <<proc, owner, file, lock, saved>>

RunBegin(c) ==
  /\ At(c, "idle") /\ c \in mode.callers
  /\ \E opts \in mode.options :
       vm' = [vm EXCEPT ![c] = [Idle EXCEPT !.pc = IF opts.clean THEN "load" ELSE "prepare",
                                            !.op = "run", !.useNet = opts.useNet,
                                            !.badMount = opts.badMount]]
  /\ UNCHANGED <<proc, owner, file, lock, saved>>

\* mgr.Load() without the lock; PID <= 1, or an error, means there is nothing
\* to do.
StaleLoad(c) ==
  /\ At(c, "load")
  /\ \/ vm' = [vm EXCEPT ![c].stale = file,
                         ![c].pc = IF file = NoPid THEN "wipe" ELSE "check"]
     \/ mode.readErrors /\ Goto(c, "wipe")
  /\ UNCHANGED <<proc, owner, file, lock, saved>>

\* processAlive and processIsExpected.
StaleCheck(c) ==
  /\ At(c, "check")
  /\ Goto(c, IF IsAlive(vm[c].stale) THEN "sterm" ELSE "wipe")
  /\ UNCHANGED <<proc, owner, file, lock, saved>>

StaleTerm(c) ==
  /\ At(c, "sterm")
  /\ \E r \in KillResults(vm[c].stale) :
       /\ Deliver(vm[c].stale, "term", r)
       /\ Goto(c, IF r = "ok" THEN "spoll" ELSE "wipe")
  /\ UNCHANGED <<owner, file, lock, saved>>

\* The poll: gone, or the 5 s deadline has passed.
StalePoll(c) ==
  /\ At(c, "spoll")
  /\ \/ ~ProcessAlive(vm[c].stale) /\ Goto(c, "wipe")
     \/ ProcessAlive(vm[c].stale) /\ Goto(c, "skill")
  /\ UNCHANGED <<proc, owner, file, lock, saved>>

StaleKill(c) ==
  /\ At(c, "skill")
  /\ \E r \in KillResults(vm[c].stale) : Deliver(vm[c].stale, "killed", r)
  /\ Goto(c, "wipe")
  /\ UNCHANGED <<owner, file, lock, saved>>

\* Run (or Remove) returns without a handle.
Return(c) == [vm[c] EXCEPT !.pc = "idle", !.pid = NoPid, !.stale = NoPid]

\* removeAll(dataDir) takes the state file and the lock file with it; if it
\* fails, either may be gone already.
WipeDataDir(c) ==
  /\ At(c, "wipe")
  /\ \/ file' = NoPid /\ lock' = NoCaller /\ Goto(c, "prepare")
     \/ file' \in {file, NoPid} /\ lock' \in {lock, NoCaller} /\ vm' = [vm EXCEPT ![c] = Return(c)]
  /\ UNCHANGED <<proc, owner, saved>>

-----------------------------------------------------------------------------
(* Run: from MkdirAll to the handle.                                       *)

Prepare(c) ==
  /\ At(c, "prepare")
  /\ \/ Goto(c, "net")
     \/ vm' = [vm EXCEPT ![c] = Return(c)]
  /\ UNCHANGED <<proc, owner, file, lock, saved>>

StartNetwork(c) ==
  /\ At(c, "net")
  /\ \/ ~vm[c].useNet /\ Goto(c, "validate")
     \/ vm[c].useNet /\ vm' = [vm EXCEPT ![c].net = "on", ![c].pc = "validate"]
     \/ vm[c].useNet /\ vm' = [vm EXCEPT ![c] = Return(c)]
  /\ UNCHANGED <<proc, owner, file, lock, saved>>

\* The virtiofs ownership checks return without stopping the provider.
ValidateMounts(c) ==
  /\ At(c, "validate")
  /\ IF vm[c].badMount THEN vm' = [vm EXCEPT ![c] = Return(c)] ELSE Goto(c, "spawn")
  /\ UNCHANGED <<proc, owner, file, lock, saved>>

\* backend.Start: the runner is spawned on a free PID, or Start fails and the
\* provider is stopped.
Spawn(c) ==
  /\ At(c, "spawn")
  /\ \/ \E p \in mode.pids :
          /\ proc[p] = "free"
          /\ proc' = [proc EXCEPT ![p] = "runner"]
          /\ owner' = [owner EXCEPT ![p] = c]
          /\ vm' = [vm EXCEPT ![c].pid = p, ![c].pc = "lock"]
     \/ /\ vm' = [vm EXCEPT ![c] = [Return(c) EXCEPT !.net = "off"]]
        /\ UNCHANGED <<proc, owner>>
  /\ UNCHANGED <<file, lock, saved>>

\* stateMgr.LoadAndLock(ctx) waits for the lock until ctx is done; any error
\* skips the persistence.
RunLock(c) ==
  /\ At(c, "lock")
  /\ \/ lock = NoCaller /\ lock' = c /\ Goto(c, "save")
     \/ UNCHANGED lock /\ Goto(c, "hooks")
  /\ UNCHANGED <<proc, owner, file, saved>>

\* Save replaces the file atomically, or fails and is only logged.
RunSave(c) ==
  /\ At(c, "save")
  /\ \/ /\ file' = vm[c].pid
        /\ saved' = IF owner[vm[c].pid] = c THEN saved \cup {vm[c].pid} ELSE saved
     \/ UNCHANGED <<file, saved>>
  /\ Goto(c, "release")
  /\ UNCHANGED <<proc, owner, lock>>

\* Releasing a lock whose file has been wiped frees nothing.
Released(c) == IF lock = c THEN NoCaller ELSE lock

RunRelease(c) ==
  /\ At(c, "release")
  /\ lock' = Released(c)
  /\ Goto(c, "hooks")
  /\ UNCHANGED <<proc, owner, file, saved>>

\* A failing post-boot hook calls vm.Stop(ctx) with Run's own context.
PostBootHooks(c) ==
  /\ At(c, "hooks")
  /\ \/ Goto(c, "up")
     \/ vm' = [vm EXCEPT ![c].pc = "alive", ![c].op = "hookErr"]
  /\ UNCHANGED <<proc, owner, file, lock, saved>>

-----------------------------------------------------------------------------
(* VM.Stop and VM.Remove.                                                  *)

\* Mutant: Stop stops the provider first and the process second.
StopBeginNetFirst(c) ==
  /\ vm[c].pc \in {"up", "stopped", "stopErr"}
  /\ \E op \in {"stop", "remove"} :
       vm' = [vm EXCEPT ![c].pc = "alive", ![c].op = op, ![c].ctx = "live",
                        ![c].net = "off"]
  /\ UNCHANGED <<proc, owner, file, lock, saved>>

StopBegin(c) ==
  /\ vm[c].pc \in {"up", "stopped", "stopErr"}
  /\ \E op \in {"stop", "remove"} :
       vm' = [vm EXCEPT ![c].pc = "alive", ![c].op = op, ![c].ctx = "live"]
  /\ UNCHANGED <<proc, owner, file, lock, saved>>

\* The caller drops a handle it has stopped.
Forget(c) ==
  /\ At(c, "stopped")
  /\ vm' = [vm EXCEPT ![c] = Idle]
  /\ UNCHANGED <<proc, owner, file, lock, saved>>

\* Process.Stop: a runner that is gone, or a PID that is no longer its own,
\* is not signalled.
StopAlive(c) ==
  /\ At(c, "alive")
  /\ Goto(c, IF IsAlive(vm[c].pid) THEN "term" ELSE "netstop")
  /\ UNCHANGED <<proc, owner, file, lock, saved>>

\* VM.Stop returns an error: Run gives up the handle, Stop and Remove keep it.
StopFailed(c) ==
  IF vm[c].op = "hookErr" THEN Return(c) ELSE [vm[c] EXCEPT !.pc = "stopErr"]

\* The error is the signal's, EPERM.
StopRefused(c) ==
  IF vm[c].op = "hookErr" THEN [Return(c) EXCEPT !.op = "hookRefused"] ELSE StopFailed(c)

StopTerm(c) ==
  /\ At(c, "term")
  /\ \E r \in KillResults(vm[c].pid) :
       /\ Deliver(vm[c].pid, "term", r)
       /\ vm' = [vm EXCEPT ![c] =
                   CASE r = "ok"    -> [@ EXCEPT !.pc = "poll"]
                     [] r = "ESRCH" -> [@ EXCEPT !.pc = "netstop"]
                     [] r = "EPERM" -> StopRefused(c)]
  /\ UNCHANGED <<owner, file, lock, saved>>

\* Mutant: the deadline ends the wait without a SIGKILL.
StopPollNoKill(c) ==
  /\ At(c, "poll")
  /\ Goto(c, "netstop")
  /\ UNCHANGED <<proc, owner, file, lock, saved>>

\* Mutant: the deadline is an error like a refused signal, and Run gives up on
\* the runner.
StopPollGivesUp(c) ==
  /\ At(c, "poll")
  /\ IF IsAlive(vm[c].pid) /\ vm[c].op = "hookErr"
     THEN vm' = [vm EXCEPT ![c] = StopFailed(c)]
     ELSE Goto(c, IF IsAlive(vm[c].pid) THEN "kill" ELSE "netstop")
  /\ UNCHANGED <<proc, owner, file, lock, saved>>

\* The poll: gone; or the 30 s deadline has passed; ...
StopPoll(c) ==
  /\ At(c, "poll")
  /\ Goto(c, IF IsAlive(vm[c].pid) THEN "kill" ELSE "netstop")
  /\ UNCHANGED <<proc, owner, file, lock, saved>>

\* ... or the context is done: SIGKILL, and VM.Stop returns ctx.Err() before it
\* reaches the provider and the state file.
StopCancelled(c) ==
  /\ At(c, "poll") /\ vm[c].ctx = "done"
  /\ \E r \in KillResults(vm[c].pid) : Deliver(vm[c].pid, "killed", r)
  /\ vm' = [vm EXCEPT ![c] = StopFailed(c)]
  /\ UNCHANGED <<owner, file, lock, saved>>

StopKill(c) ==
  /\ At(c, "kill")
  /\ \E r \in KillResults(vm[c].pid) :
       /\ Deliver(vm[c].pid, "killed", r)
       /\ vm' = [vm EXCEPT ![c] =
                   IF r = "EPERM" THEN StopRefused(c) ELSE [@ EXCEPT !.pc = "netstop"]]
  /\ UNCHANGED <<owner, file, lock, saved>>

StopNetwork(c) ==
  /\ At(c, "netstop")
  /\ vm' = [vm EXCEPT ![c].net = "off", ![c].pc = "lock2"]
  /\ UNCHANGED <<proc, owner, file, lock, saved>>

\* What happens once VM.Stop has returned nil.
StopDone(c) ==
  CASE vm[c].op = "hookErr" -> Return(c)
    [] vm[c].op = "remove"  -> [vm[c] EXCEPT !.pc = "wipe2"]
    [] OTHER                -> [vm[c] EXCEPT !.pc = "stopped"]

\* Mutant: LoadAndLock without a timeout.
StopLockForEver(c) ==
  /\ At(c, "lock2")
  /\ lock = NoCaller /\ lock' = c /\ Goto(c, "save2")
  /\ UNCHANGED <<proc, owner, file, saved>>

\* LoadAndLockWithRetry(context.Background(), 10s): the lock, or a timeout.
StopLock(c) ==
  /\ At(c, "lock2")
  /\ \/ lock = NoCaller /\ lock' = c /\ Goto(c, "save2")
     \/ UNCHANGED lock /\ vm' = [vm EXCEPT ![c] = StopDone(c)]
  /\ UNCHANGED <<proc, owner, file, saved>>

StopSave(c) ==
  /\ At(c, "save2")
  /\ file' \in {file, NoPid}
  /\ Goto(c, "release2")
  /\ UNCHANGED <<proc, owner, lock, saved>>

StopRelease(c) ==
  /\ At(c, "release2")
  /\ lock' = Released(c)
  /\ vm' = [vm EXCEPT ![c] = StopDone(c)]
  /\ UNCHANGED <<proc, owner, file, saved>>

\* Remove: the rootfs and the data directory go; an error keeps the handle, and
\* part of the files.
RemoveDataDir(c) ==
  /\ At(c, "wipe2")
  /\ \/ file' = NoPid /\ lock' = NoCaller /\ vm' = [vm EXCEPT ![c] = Return(c)]
     \/ file' \in {file, NoPid} /\ lock' \in {lock, NoCaller} /\ Goto(c, "stopped")
  /\ UNCHANGED <<proc, owner, saved>>

-----------------------------------------------------------------------------
(* The environment: contexts, processes, crashes.                          *)

Cancel(c) ==
  /\ vm[c].pc \notin Resting /\ vm[c].ctx = "live"
  /\ vm' = [vm EXCEPT ![c].ctx = "done"]
  /\ UNCHANGED <<proc, owner, file, lock, saved>>

\* A runner exits by itself, on SIGTERM (or not) and on SIGKILL.
RunnerExit(p) ==
  /\ proc[p] \in Runner
  /\ proc' = [proc EXCEPT ![p] = "free"]
  /\ owner' = [owner EXCEPT ![p] = NoCaller]
  /\ saved' = saved \ {p}
  /\ UNCHANGED <<vm, file, lock>>

ReusePid(p) ==
  /\ mode.reuse /\ p \in mode.pids
  /\ proc[p] \in {"free", "other"}
  /\ proc' = [proc EXCEPT ![p] = IF @ = "free" THEN "other" ELSE "free"]
  /\ UNCHANGED <<vm, owner, file, lock, saved>>

Crash(c) ==
  /\ vm[c].pc # "idle"
  /\ vm' = [vm EXCEPT ![c] = Idle]
  /\ lock' = Released(c)
  /\ owner' = [p \in Pids |-> IF owner[p] = c THEN NoCaller ELSE owner[p]]
  /\ UNCHANGED <<proc, file, saved>>

RunStep(c) == \/ StaleLoad(c) \/ StaleCheck(c) \/ StaleTerm(c) \/ StalePoll(c)
              \/ StaleKill(c) \/ WipeDataDir(c) \/ Prepare(c) \/ StartNetwork(c)
              \/ ValidateMounts(c) \/ Spawn(c) \/ RunLock(c) \/ RunSave(c)
              \/ RunRelease(c) \/ PostBootHooks(c)
StopStep(c) == \/ StopAlive(c) \/ StopTerm(c) \/ StopPoll(c) \/ StopCancelled(c)
               \/ StopKill(c) \/ StopNetwork(c) \/ StopLock(c) \/ StopSave(c)
               \/ StopRelease(c) \/ RemoveDataDir(c)

Next == /\ \/ \E c \in Callers : \/ RunBegin(c) \/ RunStep(c)
                                 \/ StopBegin(c) \/ StopStep(c) \/ Forget(c)
                                 \/ Cancel(c) \/ Crash(c)
           \/ \E p \in Pids : RunnerExit(p) \/ ReusePid(p)
        /\ UNCHANGED mode

Spec == Init /\ [][Next]_vars

\* A caller that is in Stop keeps executing (its polls and timeouts fire).
\* Nothing is assumed of other callers, of runners, or of Run.
FairSpec == Spec /\ \A c \in Callers : WF_vars(StopStep(c) /\ UNCHANGED mode)

-----------------------------------------------------------------------------
(* Properties.                                                             *)

\* The runner caller c spawned and still has the handle of.
Own(c, p) == vm[c].pid = p /\ owner[p] = c

\* When Stop has returned nil, the runner has exited or has been sent SIGKILL
\* and the provider is stopped, whatever exits and PID reuses happened while
\* Stop ran (spawn.go Process.Stop, vm.go Stop).
StoppedMeansReleased ==
  \A c \in Callers : At(c, "stopped") =>
    /\ vm[c].net = "off"
    /\ \A p \in Pids : Own(c, p) => proc[p] = "killed"

\* The provider is never stopped under a running VM: while a caller's runner is
\* alive and not killed, the provider it was started with is on (vm.go Stop
\* stops the process first; vm_test.go TestVM_Stop_ProcessError).
NetworkOutlivesRunner ==
  \A c \in Callers, p \in Pids :
    Own(c, p) /\ proc[p] \in {"runner", "term"} /\ vm[c].useNet => vm[c].net = "on"

\* Crash recovery: if every Run cleans the data directory, one caller at a time
\* uses it and the state file can be read, a recorded runner that nobody has
\* signalled is named by the state file, so the next Run finds it, wherever the
\* caller was killed (microvm.go Run, terminateStaleRunner, vm.go Stop).
NoRunnerLost ==
  /\ \A c, d \in mode.callers : c = d
  /\ \A opts \in mode.options : opts.clean
  /\ ~mode.readErrors
  => \A p \in saved : proc[p] = "runner" => file = p

\* What a Run that failed leaves behind, wherever it failed and however its
\* cleanup was interrupted.  Never a runner: the one it spawned has exited or
\* has been sent SIGKILL, though it may ignore SIGTERM and its PID may pass to
\* other processes.  A provider that is still on only if the virtiofs checks
\* rejected a mount, before any runner, or if a hook failed and the vm.Stop
\* that followed did too, because Run's context was done or a process of
\* another user had the PID (microvm.go Run, vm.go Stop, spawn.go Stop).
FailedRunReleases ==
  \A c \in Callers : At(c, "idle") =>
    /\ \A p \in Pids : owner[p] = c => proc[p] = "killed"
    /\ vm[c].net = "on" => \/ vm[c].op = "run" /\ vm[c].badMount
                           \/ vm[c].op = "hookErr" /\ vm[c].ctx = "done"
                           \/ vm[c].op = "hookRefused"

\* Stop and Remove return even if the runner ignores SIGTERM and another
\* process keeps the state lock for ever (spawn.go's deadline, vm.go's
\* bounded LoadAndLockWithRetry).
StopReturns ==
  \A c \in Callers : vm[c].pc \in StopPCs ~> vm[c].pc \in Resting

\* What microvm_test.go TestRun_PostBootHookError says: process and provider
\* are stopped on a post-boot hook failure.
HookFailureStopsProvider ==
  \A c \in Callers : At(c, "idle") /\ vm[c].op = "hookErr" => vm[c].net = "off"
=============================================================================
