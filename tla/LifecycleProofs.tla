--------------------------- MODULE LifecycleProofs --------------------------
(***************************************************************************)
(* Proofs about Lifecycle for any number of callers and process IDs and    *)
(* any set of modes: what a caller's program counter says about its handle *)
(* and its provider, what ownership says about the runner, and where a     *)
(* recorded runner is when one caller recovers the data directory.         *)
(***************************************************************************)
EXTENDS Lifecycle, TLAPS

-----------------------------------------------------------------------------
(* Types.                                                                  *)

StalePCs == {"check", "sterm", "spoll", "skill"}
RunPCs == {"load", "wipe", "prepare", "net", "validate", "spawn"} \cup StalePCs
SavePCs == {"lock", "save", "release", "hooks"}

\* Where a caller holds a handle: vm.proc is set.
HandlePCs == SavePCs \cup StopPCs \cup {"up", "stopped", "stopErr"}

CallerSet ==
  [pc : RunPCs \cup HandlePCs \cup {"idle"},
   op : {"none", "run", "hookErr", "hookRefused", "stop", "remove"}, ctx : {"live", "done"},
   pid : Pids \cup {NoPid}, stale : Pids \cup {NoPid}, net : {"on", "off"},
   useNet : BOOLEAN, badMount : BOOLEAN]

TypeOK ==
  /\ mode \in ModeSet
  /\ vm \in [Callers -> CallerSet]
  /\ proc \in [Pids -> Runner \cup {"free", "other"}]
  /\ owner \in [Pids -> Callers \cup {NoCaller}]
  /\ file \in Pids \cup {NoPid}
  /\ lock \in Callers \cup {NoCaller}
  /\ saved \in SUBSET Pids

\* The handles that a program counter promises: a caller past Spawn knows its
\* runner, and terminateStaleRunner knows the PID it looks for.
HandleInv ==
  \A c \in Callers :
    /\ vm[c].pid \in Pids <=> vm[c].pc \in HandlePCs
    /\ vm[c].pc \in StalePCs => vm[c].stale \in Pids

-----------------------------------------------------------------------------
(* The provider and the runner.                                            *)

\* Stop is past the process: it has exited or has been sent SIGKILL.
PastProcess == {"netstop", "lock2", "save2", "release2", "wipe2", "stopped"}

\* Why a Run that failed has left its provider on.
LeftOnWhy(c) ==
  At(c, "idle") /\ vm[c].net = "on" =>
    \/ vm[c].op = "run" /\ vm[c].badMount
    \/ vm[c].op = "hookErr" /\ vm[c].ctx = "done"
    \/ vm[c].op = "hookRefused"

\* What a caller knows of its own runner and provider; a runner it has given up
\* the handle of has been sent SIGKILL.
NetInv ==
  /\ \A p \in Pids : owner[p] # NoCaller => proc[p] \in Runner
  /\ \A c \in Callers :
       /\ vm[c].pc \in StalePCs \cup {"load", "wipe", "prepare", "net"} => vm[c].net = "off"
       /\ vm[c].pc \in PastProcess \ {"netstop"} => vm[c].net = "off"
       /\ vm[c].pc \in {"validate", "spawn"} /\ vm[c].useNet => vm[c].net = "on"
       /\ vm[c].pc \in RunPCs => vm[c].op = "run"
       /\ LeftOnWhy(c)
  /\ \A c \in Callers, p \in Pids :
       /\ Own(c, p)
       /\ vm[c].pc \in PastProcess \/ (vm[c].useNet /\ vm[c].net = "off")
       => proc[p] = "killed"
  /\ \A c \in Callers, p \in Pids :
       owner[p] = c /\ vm[c].pid # p => proc[p] = "killed"

-----------------------------------------------------------------------------
(* Crash recovery.                                                         *)

Solo ==
  /\ \A c, d \in mode.callers : c = d
  /\ \A opts \in mode.options : opts.clean
  /\ ~mode.readErrors

\* Where no recorded runner is left that nobody has signalled, and where there
\* may be one, which is then the caller's own.
Cleared == {"spoll", "skill", "wipe", "prepare", "net", "validate", "spawn", "lock", "save"}
             \cup PastProcess
Recorded == {"release", "hooks", "up", "stopErr", "alive", "term", "poll", "kill"}

RecoveryInv ==
  /\ \A p \in saved : proc[p] \in Runner
  /\ \A c \in Callers \ mode.callers : At(c, "idle")
  /\ Solo => \A p \in saved : proc[p] = "runner" =>
       /\ file = p
       /\ \A c \in mode.callers :
            /\ vm[c].pc \notin Cleared
            /\ vm[c].pc \in {"check", "sterm"} => vm[c].stale = p
            /\ vm[c].pc \in Recorded => vm[c].pid = p

LifecycleInv == TypeOK /\ HandleInv /\ NetInv /\ RecoveryInv
-----------------------------------------------------------------------------
(* Type correctness and the handles.                                       *)

LEMMA IdleType == Idle \in CallerSet
BY Zenon DEF Idle, CallerSet

\* What Run's error returns leave of a caller.
LEMMA ReturnFields ==
  ASSUME TypeOK, NEW c \in Callers
  PROVE  /\ Return(c) \in CallerSet
         /\ Return(c).pc = "idle" /\ Return(c).pid = NoPid
         /\ Return(c).net = vm[c].net /\ Return(c).op = vm[c].op
         /\ Return(c).badMount = vm[c].badMount /\ Return(c).ctx = vm[c].ctx
         /\ Return(c).useNet = vm[c].useNet
<1>1. vm[c] \in CallerSet
  BY Zenon DEF TypeOK
<1>2. QED
  BY <1>1, ZenonT(30) DEF CallerSet, Return

\* A step of one caller that keeps the promises of its program counter.
LEMMA CallerStep ==
  ASSUME vm \in [Callers -> CallerSet], HandleInv, NEW c \in Callers, NEW r \in CallerSet,
         r.pid \in Pids <=> r.pc \in HandlePCs,
         r.pc \in StalePCs => r.stale \in Pids,
         vm' = [vm EXCEPT ![c] = r]
  PROVE  vm' \in [Callers -> CallerSet] /\ HandleInv'
BY Zenon DEF HandleInv

LEMMA SpawnType ==
  ASSUME TypeOK, NEW c \in Callers, NEW p \in Pids
  PROVE  /\ [vm[c] EXCEPT !.pid = p, !.pc = "lock"] \in CallerSet
         /\ [vm[c] EXCEPT !.pid = p, !.pc = "lock"].pid = p
         /\ [vm[c] EXCEPT !.pid = p, !.pc = "lock"].pc = "lock"
<1>1. vm[c] \in CallerSet
  BY Zenon DEF TypeOK
<1>2. QED
  BY <1>1, ZenonT(30) DEF CallerSet, HandlePCs, SavePCs

LEMMA StopBeginType ==
  ASSUME TypeOK, NEW c \in Callers, NEW op \in {"stop", "remove"}
  PROVE  /\ [vm[c] EXCEPT !.pc = "alive", !.op = op, !.ctx = "live"] \in CallerSet
         /\ [vm[c] EXCEPT !.pc = "alive", !.op = op, !.ctx = "live"].pc = "alive"
         /\ [vm[c] EXCEPT !.pc = "alive", !.op = op, !.ctx = "live"].pid = vm[c].pid
<1>1. vm[c] \in CallerSet
  BY Zenon DEF TypeOK
<1>2. QED
  BY <1>1, ZenonT(30) DEF CallerSet, HandlePCs, StopPCs

\* What VM.Stop's error and success returns leave of a caller in Stop.
LEMMA StopFailedFields ==
  ASSUME TypeOK, NEW c \in Callers
  PROVE  /\ StopFailed(c) \in CallerSet
         /\ StopFailed(c).net = vm[c].net /\ StopFailed(c).op = vm[c].op
         /\ StopFailed(c).useNet = vm[c].useNet /\ StopFailed(c).ctx = vm[c].ctx
         /\ \/ StopFailed(c).pc = "idle" /\ StopFailed(c).pid = NoPid /\ vm[c].op = "hookErr"
            \/ StopFailed(c).pc = "stopErr" /\ StopFailed(c).pid = vm[c].pid
<1> USE DEF TypeOK, CallerSet
<1>1. CASE vm[c].op = "hookErr"
  BY <1>1, ReturnFields, Zenon DEF StopFailed
<1>2. CASE vm[c].op # "hookErr"
  <2>1. StopFailed(c) = [vm[c] EXCEPT !.pc = "stopErr"] /\ vm[c] \in CallerSet
    BY <1>2, Zenon DEF StopFailed
  <2> QED
    BY <1>2, <2>1, SMTT(30) DEF HandlePCs
<1>3. QED
  BY <1>1, <1>2, Zenon

LEMMA StopRefusedFields ==
  ASSUME TypeOK, NEW c \in Callers
  PROVE  /\ StopRefused(c) \in CallerSet
         /\ StopRefused(c).net = vm[c].net /\ StopRefused(c).useNet = vm[c].useNet
         /\ \/ /\ StopRefused(c).pc = "idle" /\ StopRefused(c).pid = NoPid
               /\ StopRefused(c).op = "hookRefused"
            \/ StopRefused(c).pc = "stopErr" /\ StopRefused(c).pid = vm[c].pid
<1>1. CASE vm[c].op = "hookErr"
  <2>1. Return(c) \in CallerSet /\ Return(c).useNet = vm[c].useNet
    BY ReturnFields, Zenon
  <2>2. QED
    BY <1>1, <2>1, ReturnFields DEF StopRefused, CallerSet
<1>2. CASE vm[c].op # "hookErr"
  <2>1. StopRefused(c) = StopFailed(c)
    BY <1>2, Zenon DEF StopRefused
  <2> QED
    BY <1>2, <2>1, StopFailedFields, Zenon
<1>3. QED
  BY <1>1, <1>2, Zenon

LEMMA StopDoneFields ==
  ASSUME TypeOK, NEW c \in Callers
  PROVE  /\ StopDone(c) \in CallerSet
         /\ StopDone(c).net = vm[c].net /\ StopDone(c).op = vm[c].op
         /\ StopDone(c).useNet = vm[c].useNet
         /\ \/ StopDone(c).pc = "idle" /\ StopDone(c).pid = NoPid /\ vm[c].op = "hookErr"
            \/ StopDone(c).pc \in {"wipe2", "stopped"} /\ StopDone(c).pid = vm[c].pid
<1> USE DEF TypeOK, CallerSet
<1>1. CASE vm[c].op = "hookErr"
  BY <1>1, ZenonT(30) DEF StopDone, Return
<1>2. CASE vm[c].op = "remove"
  BY <1>2 DEF StopDone, HandlePCs, StopPCs
<1>3. CASE vm[c].op \notin {"hookErr", "remove"}
  BY <1>3 DEF StopDone, HandlePCs
<1>4. QED
  BY <1>1, <1>2, <1>3, Zenon

LEMMA InitTypes == Init => TypeOK /\ HandleInv
<1> SUFFICES ASSUME Init PROVE TypeOK /\ HandleInv
  BY Zenon
<1>1. mode \in ModeSet /\ vm \in [Callers -> CallerSet]
  BY LifecycleAssumption, IdleType, Zenon DEF Init
<1>2. QED
  BY <1>1, LifecycleAssumption, ZenonT(30)
  DEF Init, TypeOK, HandleInv, Idle, HandlePCs, StalePCs, SavePCs, StopPCs, Runner

LEMMA StepTypes == TypeOK /\ HandleInv /\ [Next]_vars => TypeOK' /\ HandleInv'
<1> SUFFICES ASSUME TypeOK, HandleInv, [Next]_vars PROVE TypeOK' /\ HandleInv'
  BY Zenon
<1> USE LifecycleAssumption
DEF TypeOK, HandleInv, CallerSet, RunPCs, HandlePCs, StalePCs, SavePCs,
  StopPCs, Runner, At, Goto
<1>1. ASSUME NEW c \in Callers, RunBegin(c), UNCHANGED mode PROVE TypeOK' /\ HandleInv'
  <2>1. PICK opts \in mode.options :
          vm' = [vm EXCEPT ![c] = [Idle EXCEPT !.pc = IF opts.clean THEN "load" ELSE "prepare",
                                               !.op = "run", !.useNet = opts.useNet,
                                               !.badMount = opts.badMount]]
    BY <1>1, ZenonT(30) DEF RunBegin
  <2>2. opts.useNet \in BOOLEAN /\ opts.badMount \in BOOLEAN
    BY Zenon DEF ModeSet, OptionSet
  <2>3. vm'[c] \in CallerSet /\ vm'[c].pid = NoPid /\ vm'[c].pc \in {"load", "prepare"}
    BY <2>1, <2>2, ZenonT(30) DEF Idle
  <2>4. \A d \in Callers \ {c} : vm'[d] = vm[d]
    BY <2>1, Zenon
  <2>5. DOMAIN vm' = Callers /\ vm' = [d \in Callers |-> vm'[d]]
    BY <2>1, ZenonT(30)
  <2>6. QED
    BY <1>1, <2>3, <2>4, <2>5 DEF RunBegin
<1>2. ASSUME NEW c \in Callers, StaleLoad(c), UNCHANGED mode PROVE TypeOK' /\ HandleInv'
  BY <1>2, SMTT(30) DEF StaleLoad
<1>3. ASSUME NEW c \in Callers, StaleCheck(c), UNCHANGED mode PROVE TypeOK' /\ HandleInv'
  BY <1>3 DEF StaleCheck
<1>4. ASSUME NEW c \in Callers, StaleTerm(c), UNCHANGED mode PROVE TypeOK' /\ HandleInv'
  BY <1>4 DEF StaleTerm, Deliver
<1>5. ASSUME NEW c \in Callers, StalePoll(c), UNCHANGED mode PROVE TypeOK' /\ HandleInv'
  BY <1>5, SMTT(30) DEF StalePoll
<1>6. ASSUME NEW c \in Callers, StaleKill(c), UNCHANGED mode PROVE TypeOK' /\ HandleInv'
  BY <1>6 DEF StaleKill, Deliver
<1>7. ASSUME NEW c \in Callers, WipeDataDir(c), UNCHANGED mode PROVE TypeOK' /\ HandleInv'
  BY <1>7, ReturnFields, SMTT(30) DEF WipeDataDir
<1>8. ASSUME NEW c \in Callers, Prepare(c), UNCHANGED mode PROVE TypeOK' /\ HandleInv'
  <2>1. CASE Goto(c, "net")
    BY <1>8, <2>1 DEF Prepare
  <2>2. CASE vm' = [vm EXCEPT ![c] = Return(c)]
    BY <1>8, <2>2, ReturnFields DEF Prepare
  <2>3. QED
    BY <1>8, <2>1, <2>2, Zenon DEF Prepare
<1>9. ASSUME NEW c \in Callers, StartNetwork(c), UNCHANGED mode PROVE TypeOK' /\ HandleInv'
  <2>1. CASE Goto(c, "validate")
    BY <1>9, <2>1, SMTT(30) DEF StartNetwork
  <2>2. CASE vm' = [vm EXCEPT ![c].net = "on", ![c].pc = "validate"]
    BY <1>9, <2>2 DEF StartNetwork
  <2>3. CASE vm' = [vm EXCEPT ![c] = Return(c)]
    BY <1>9, <2>3, ReturnFields DEF StartNetwork
  <2>4. QED
    BY <1>9, <2>1, <2>2, <2>3, Zenon DEF StartNetwork
<1>10. ASSUME NEW c \in Callers, ValidateMounts(c), UNCHANGED mode PROVE TypeOK' /\ HandleInv'
  BY <1>10, ReturnFields, SMTT(30) DEF ValidateMounts
<1>11. ASSUME NEW c \in Callers, Spawn(c), UNCHANGED mode PROVE TypeOK' /\ HandleInv'
  <2>1. ASSUME NEW p \in mode.pids,
               proc' = [proc EXCEPT ![p] = "runner"], owner' = [owner EXCEPT ![p] = c],
               vm' = [vm EXCEPT ![c].pid = p, ![c].pc = "lock"]
        PROVE  TypeOK' /\ HandleInv'
    <3>1. p \in Pids
      BY Zenon DEF ModeSet
    <3>2. vm' = [vm EXCEPT ![c] = [vm[c] EXCEPT !.pid = p, !.pc = "lock"]]
      BY <2>1, ZenonT(30)
    <3>3. /\ [vm[c] EXCEPT !.pid = p, !.pc = "lock"] \in CallerSet
          /\ [vm[c] EXCEPT !.pid = p, !.pc = "lock"].pid = p
          /\ [vm[c] EXCEPT !.pid = p, !.pc = "lock"].pc = "lock"
      BY <3>1, SpawnType, ZenonT(30)
    <3>4. vm' \in [Callers -> CallerSet] /\ HandleInv'
      BY <3>1, <3>2, <3>3, CallerStep
    <3>5. QED
      BY <1>11, <2>1, <3>1, <3>4, ZenonT(30) DEF Spawn
  <2>2. CASE vm' = [vm EXCEPT ![c] = [Return(c) EXCEPT !.net = "off"]] /\ UNCHANGED <<proc, owner>>
    <3>1. /\ [Return(c) EXCEPT !.net = "off"] \in CallerSet
          /\ [Return(c) EXCEPT !.net = "off"].pc = "idle"
          /\ [Return(c) EXCEPT !.net = "off"].pid = NoPid
      BY ReturnFields
    <3>2. QED
      BY <1>11, <2>2, <3>1, CallerStep DEF Spawn
  <2>3. QED
    BY <1>11, <2>1, <2>2, ZenonT(30) DEF Spawn
<1>12. ASSUME NEW c \in Callers, RunLock(c), UNCHANGED mode PROVE TypeOK' /\ HandleInv'
  BY <1>12 DEF RunLock
<1>13. ASSUME NEW c \in Callers, RunSave(c), UNCHANGED mode PROVE TypeOK' /\ HandleInv'
  BY <1>13 DEF RunSave
<1>14. ASSUME NEW c \in Callers, RunRelease(c), UNCHANGED mode PROVE TypeOK' /\ HandleInv'
  BY <1>14 DEF RunRelease, Released
<1>15. ASSUME NEW c \in Callers, PostBootHooks(c), UNCHANGED mode PROVE TypeOK' /\ HandleInv'
  BY <1>15, SMTT(30) DEF PostBootHooks
<1>16. ASSUME NEW c \in Callers, StopBegin(c), UNCHANGED mode PROVE TypeOK' /\ HandleInv'
  <2>1. PICK op \in {"stop", "remove"} :
          vm' = [vm EXCEPT ![c].pc = "alive", ![c].op = op, ![c].ctx = "live"]
    BY <1>16, ZenonT(30) DEF StopBegin
  <2>2. vm[c].pid \in Pids /\ "alive" \in HandlePCs \ StalePCs
    BY <1>16, Zenon DEF StopBegin
  <2>3. vm' = [vm EXCEPT ![c] = [vm[c] EXCEPT !.pc = "alive", !.op = op, !.ctx = "live"]]
    BY <2>1, ZenonT(30)
  <2>4. vm' \in [Callers -> CallerSet] /\ HandleInv'
    <3> HIDE DEF TypeOK, HandleInv, CallerSet, HandlePCs, StalePCs
    <3>1. vm \in [Callers -> CallerSet]
      BY Zenon DEF TypeOK
    <3>2. QED
      BY <2>2, <2>3, <3>1, StopBeginType, CallerStep, ZenonT(30)
  <2>5. QED
    BY <1>16, <2>4, Zenon DEF StopBegin
<1>17. ASSUME NEW c \in Callers, Forget(c), UNCHANGED mode PROVE TypeOK' /\ HandleInv'
  BY <1>17 DEF Forget, Idle
<1>18. ASSUME NEW c \in Callers, StopAlive(c), UNCHANGED mode PROVE TypeOK' /\ HandleInv'
  BY <1>18 DEF StopAlive
<1>19. ASSUME NEW c \in Callers, StopTerm(c), UNCHANGED mode PROVE TypeOK' /\ HandleInv'
  BY <1>19, StopRefusedFields, SMTT(30) DEF StopTerm, Deliver, KillResults
<1>20. ASSUME NEW c \in Callers, StopPoll(c), UNCHANGED mode PROVE TypeOK' /\ HandleInv'
  BY <1>20 DEF StopPoll
<1>21. ASSUME NEW c \in Callers, StopCancelled(c), UNCHANGED mode PROVE TypeOK' /\ HandleInv'
  BY <1>21, StopFailedFields DEF StopCancelled, Deliver
<1>22. ASSUME NEW c \in Callers, StopKill(c), UNCHANGED mode PROVE TypeOK' /\ HandleInv'
  BY <1>22, StopRefusedFields, SMTT(30) DEF StopKill, Deliver
<1>23. ASSUME NEW c \in Callers, StopNetwork(c), UNCHANGED mode PROVE TypeOK' /\ HandleInv'
  BY <1>23 DEF StopNetwork
<1>24. ASSUME NEW c \in Callers, StopLock(c), UNCHANGED mode PROVE TypeOK' /\ HandleInv'
  <2>1. CASE Goto(c, "save2")
    BY <1>24, <2>1, SMTT(30) DEF StopLock
  <2>2. CASE vm' = [vm EXCEPT ![c] = StopDone(c)]
    BY <1>24, <2>2, StopDoneFields DEF StopLock
  <2>3. QED
    BY <1>24, <2>1, <2>2, Zenon DEF StopLock
<1>25. ASSUME NEW c \in Callers, StopSave(c), UNCHANGED mode PROVE TypeOK' /\ HandleInv'
  BY <1>25 DEF StopSave
<1>26. ASSUME NEW c \in Callers, StopRelease(c), UNCHANGED mode PROVE TypeOK' /\ HandleInv'
  BY <1>26, StopDoneFields DEF StopRelease, Released
<1>27. ASSUME NEW c \in Callers, RemoveDataDir(c), UNCHANGED mode PROVE TypeOK' /\ HandleInv'
  <2>1. CASE Goto(c, "stopped")
    BY <1>27, <2>1, SMTT(30) DEF RemoveDataDir
  <2>2. CASE vm' = [vm EXCEPT ![c] = Return(c)]
    BY <1>27, <2>2, ReturnFields DEF RemoveDataDir
  <2>3. QED
    BY <1>27, <2>1, <2>2, Zenon DEF RemoveDataDir
<1>28. ASSUME NEW c \in Callers, Cancel(c), UNCHANGED mode PROVE TypeOK' /\ HandleInv'
  BY <1>28 DEF Cancel, Resting
<1>29. ASSUME NEW c \in Callers, Crash(c), UNCHANGED mode PROVE TypeOK' /\ HandleInv'
  BY <1>29 DEF Crash, Idle, Released
<1>30. ASSUME NEW p \in Pids, RunnerExit(p), UNCHANGED mode PROVE TypeOK' /\ HandleInv'
  BY <1>30, Zenon DEF RunnerExit
<1>31. ASSUME NEW p \in Pids, ReusePid(p), UNCHANGED mode PROVE TypeOK' /\ HandleInv'
  BY <1>31, Zenon DEF ReusePid
<1>32. CASE UNCHANGED vars
  BY <1>32, Zenon DEF vars
<1>33. QED
  BY <1>1, <1>2, <1>3, <1>4, <1>5, <1>6, <1>7, <1>8, <1>9, <1>10, <1>11, <1>12, <1>13,
     <1>14, <1>15, <1>16, <1>17, <1>18, <1>19, <1>20, <1>21, <1>22, <1>23, <1>24, <1>25,
     <1>26, <1>27, <1>28, <1>29, <1>30, <1>31, <1>32, ZenonT(30)
  DEF Next, RunStep, StopStep
-----------------------------------------------------------------------------
(* The provider outlives the runner.                                       *)

LEMMA StepNet == TypeOK /\ HandleInv /\ NetInv /\ [Next]_vars => NetInv'
<1> SUFFICES ASSUME TypeOK, HandleInv, NetInv, [Next]_vars PROVE NetInv'
  BY Zenon
<1>a. /\ vm \in [Callers -> CallerSet] /\ NoPid \notin Pids /\ NoCaller \notin Callers
      /\ proc \in [Pids -> Runner \cup {"free", "other"}] /\ DOMAIN owner = Pids
      /\ \A c \in Callers : vm[c].net \in {"on", "off"}
  BY LifecycleAssumption, Zenon DEF TypeOK, CallerSet
<1>b. /\ \A c \in Callers : vm[c].pc \in RunPCs \cup {"idle"} => vm[c].pid \notin Pids
      /\ \A c \in Callers : vm[c].pc \in HandlePCs => vm[c].pid \in Pids
  BY Zenon DEF HandleInv, RunPCs, StalePCs, HandlePCs, SavePCs, StopPCs
<1> USE DEF NetInv, PastProcess, StalePCs, RunPCs, LeftOnWhy, Own, At, Goto, Runner
<1>1. ASSUME NEW c \in Callers, RunBegin(c) PROVE NetInv'
  BY <1>a, <1>b, <1>1 DEF RunBegin, Idle
<1>2. ASSUME NEW c \in Callers, StaleLoad(c) PROVE NetInv'
  <2>1. CASE vm' = [vm EXCEPT ![c].stale = file, ![c].pc = IF file = NoPid THEN "wipe" ELSE "check"]
    BY <1>a, <1>b, <1>2, <2>1 DEF StaleLoad
  <2>2. CASE Goto(c, "wipe")
    BY <1>a, <1>b, <1>2, <2>2 DEF StaleLoad
  <2>3. QED
    BY <1>2, <2>1, <2>2, Zenon DEF StaleLoad
<1>3. ASSUME NEW c \in Callers, StaleCheck(c) PROVE NetInv'
  BY <1>a, <1>b, <1>3 DEF StaleCheck
<1>4. ASSUME NEW c \in Callers, StaleTerm(c) PROVE NetInv'
  BY <1>a, <1>b, <1>4 DEF StaleTerm, Deliver
<1>5. ASSUME NEW c \in Callers, StalePoll(c) PROVE NetInv'
  <2>1. CASE Goto(c, "wipe")
    BY <1>a, <1>b, <1>5, <2>1 DEF StalePoll
  <2>2. CASE Goto(c, "skill")
    BY <1>a, <1>b, <1>5, <2>2 DEF StalePoll
  <2>3. QED
    BY <1>5, <2>1, <2>2, Zenon DEF StalePoll
<1>6. ASSUME NEW c \in Callers, StaleKill(c) PROVE NetInv'
  BY <1>a, <1>b, <1>6 DEF StaleKill, Deliver
<1>7. ASSUME NEW c \in Callers, WipeDataDir(c) PROVE NetInv'
  <2>1. CASE Goto(c, "prepare")
    BY <1>a, <1>b, <1>7, <2>1 DEF WipeDataDir
  <2>2. CASE vm' = [vm EXCEPT ![c] = Return(c)]
    BY <1>a, <1>b, <1>7, <2>2, ReturnFields DEF WipeDataDir
  <2>3. QED
    BY <1>7, <2>1, <2>2, Zenon DEF WipeDataDir
<1>8. ASSUME NEW c \in Callers, Prepare(c) PROVE NetInv'
  <2>1. CASE Goto(c, "net")
    BY <1>a, <1>b, <1>8, <2>1 DEF Prepare
  <2>2. CASE vm' = [vm EXCEPT ![c] = Return(c)]
    BY <1>a, <1>b, <1>8, <2>2, ReturnFields DEF Prepare
  <2>3. QED
    BY <1>8, <2>1, <2>2, Zenon DEF Prepare
<1>9. ASSUME NEW c \in Callers, StartNetwork(c) PROVE NetInv'
  <2>1. CASE ~vm[c].useNet /\ Goto(c, "validate")
    BY <1>a, <1>b, <1>9, <2>1 DEF StartNetwork
  <2>2. CASE vm' = [vm EXCEPT ![c].net = "on", ![c].pc = "validate"]
    BY <1>a, <1>b, <1>9, <2>2 DEF StartNetwork
  <2>3. CASE vm' = [vm EXCEPT ![c] = Return(c)]
    BY <1>a, <1>b, <1>9, <2>3, ReturnFields DEF StartNetwork
  <2>4. QED
    BY <1>9, <2>1, <2>2, <2>3, Zenon DEF StartNetwork
<1>10. ASSUME NEW c \in Callers, ValidateMounts(c) PROVE NetInv'
  <2>1. CASE vm[c].badMount /\ vm' = [vm EXCEPT ![c] = Return(c)]
    BY <1>a, <1>b, <1>10, <2>1, ReturnFields DEF ValidateMounts
  <2>2. CASE ~vm[c].badMount /\ Goto(c, "spawn")
    BY <1>a, <1>b, <1>10, <2>2 DEF ValidateMounts
  <2>3. QED
    BY <1>10, <2>1, <2>2, Zenon DEF ValidateMounts
<1>11. ASSUME NEW c \in Callers, Spawn(c) PROVE NetInv'
  <2>1. ASSUME NEW p \in mode.pids, proc[p] = "free",
               proc' = [proc EXCEPT ![p] = "runner"], owner' = [owner EXCEPT ![p] = c],
               vm' = [vm EXCEPT ![c].pid = p, ![c].pc = "lock"]
        PROVE  NetInv'
    <3>1. p \in Pids
      BY Zenon DEF TypeOK, ModeSet
    <3>2. owner[p] = NoCaller
      BY <2>1, <3>1, Zenon
    <3>3. /\ vm'[c].pid = p /\ vm'[c].pc = "lock"
          /\ vm'[c].net = vm[c].net /\ vm'[c].useNet = vm[c].useNet
          /\ \A d \in Callers \ {c} : vm'[d] = vm[d]
      BY <1>a, <2>1
    <3>4. /\ vm[c].pc = "spawn"
          /\ \A q \in Pids \ {p} : owner'[q] = owner[q] /\ proc'[q] = proc[q]
          /\ owner'[p] = c /\ proc'[p] = "runner"
      BY <1>a, <1>b, <1>11, <2>1, <3>1, ZenonT(30) DEF Spawn
    <3>5. QED
      BY <1>a, <1>b, <3>1, <3>2, <3>3, <3>4
  <2>2. CASE vm' = [vm EXCEPT ![c] = [Return(c) EXCEPT !.net = "off"]] /\ UNCHANGED <<proc, owner>>
    BY <1>a, <1>b, <1>11, <2>2, ReturnFields DEF Spawn
  <2>3. QED
    BY <1>11, <2>1, <2>2, ZenonT(30) DEF Spawn
<1>12. ASSUME NEW c \in Callers, RunLock(c) PROVE NetInv'
  <2>1. CASE Goto(c, "save")
    BY <1>a, <1>b, <1>12, <2>1 DEF RunLock
  <2>2. CASE Goto(c, "hooks")
    BY <1>a, <1>b, <1>12, <2>2 DEF RunLock
  <2>3. QED
    BY <1>12, <2>1, <2>2, Zenon DEF RunLock
<1>13. ASSUME NEW c \in Callers, RunSave(c) PROVE NetInv'
  BY <1>a, <1>b, <1>13 DEF RunSave
<1>14. ASSUME NEW c \in Callers, RunRelease(c) PROVE NetInv'
  BY <1>a, <1>b, <1>14 DEF RunRelease
<1>15. ASSUME NEW c \in Callers, PostBootHooks(c) PROVE NetInv'
  <2>1. CASE Goto(c, "up")
    BY <1>a, <1>b, <1>15, <2>1 DEF PostBootHooks
  <2>2. CASE vm' = [vm EXCEPT ![c].pc = "alive", ![c].op = "hookErr"]
    BY <1>a, <1>b, <1>15, <2>2 DEF PostBootHooks
  <2>3. QED
    BY <1>15, <2>1, <2>2, Zenon DEF PostBootHooks
<1>16. ASSUME NEW c \in Callers, StopBegin(c) PROVE NetInv'
  BY <1>a, <1>b, <1>16 DEF StopBegin
<1>17. ASSUME NEW c \in Callers, Forget(c) PROVE NetInv'
  BY <1>a, <1>b, <1>17 DEF Forget, Idle
<1>18. ASSUME NEW c \in Callers, StopAlive(c) PROVE NetInv'
  BY <1>a, <1>b, <1>18 DEF StopAlive, IsAlive
<1>19. ASSUME NEW c \in Callers, StopTerm(c) PROVE NetInv'
  BY <1>a, <1>b, <1>19, StopRefusedFields DEF StopTerm, Deliver, KillResults
<1>20. ASSUME NEW c \in Callers, StopPoll(c) PROVE NetInv'
  BY <1>a, <1>b, <1>20 DEF StopPoll, IsAlive
<1>21. ASSUME NEW c \in Callers, StopCancelled(c) PROVE NetInv'
  <2>1. /\ vm[c].pid \in Pids /\ vm[c].pc = "poll" /\ vm[c].ctx = "done"
        /\ vm' = [vm EXCEPT ![c] = StopFailed(c)] /\ UNCHANGED owner
    BY <1>b, <1>21 DEF StopCancelled, HandlePCs, StopPCs
  <2>2. /\ \A q \in Pids \ {vm[c].pid} : proc'[q] = proc[q]
        /\ owner[vm[c].pid] # NoCaller => proc'[vm[c].pid] = "killed"
        /\ \A q \in Pids : proc[q] = "killed" => proc'[q] = "killed"
    BY <1>a, <1>21, <2>1 DEF StopCancelled, Deliver, KillResults
  <2>3. QED
    BY <1>a, <1>b, <2>1, <2>2, StopFailedFields
<1>22. ASSUME NEW c \in Callers, StopKill(c) PROVE NetInv'
  BY <1>a, <1>b, <1>22, StopRefusedFields DEF StopKill, Deliver, KillResults
<1>23. ASSUME NEW c \in Callers, StopNetwork(c) PROVE NetInv'
  BY <1>a, <1>b, <1>23 DEF StopNetwork
<1>24. ASSUME NEW c \in Callers, StopLock(c) PROVE NetInv'
  <2>1. CASE Goto(c, "save2")
    BY <1>a, <1>b, <1>24, <2>1 DEF StopLock
  <2>2. CASE vm' = [vm EXCEPT ![c] = StopDone(c)]
    BY <1>a, <1>b, <1>24, <2>2, StopDoneFields DEF StopLock
  <2>3. QED
    BY <1>24, <2>1, <2>2, Zenon DEF StopLock
<1>25. ASSUME NEW c \in Callers, StopSave(c) PROVE NetInv'
  BY <1>a, <1>b, <1>25 DEF StopSave
<1>26. ASSUME NEW c \in Callers, StopRelease(c) PROVE NetInv'
  BY <1>a, <1>b, <1>26, StopDoneFields DEF StopRelease
<1>27. ASSUME NEW c \in Callers, RemoveDataDir(c) PROVE NetInv'
  <2>1. CASE Goto(c, "stopped")
    BY <1>a, <1>b, <1>27, <2>1 DEF RemoveDataDir
  <2>2. CASE vm' = [vm EXCEPT ![c] = Return(c)]
    BY <1>a, <1>b, <1>27, <2>2, ReturnFields DEF RemoveDataDir
  <2>3. QED
    BY <1>27, <2>1, <2>2, Zenon DEF RemoveDataDir
<1>28. ASSUME NEW c \in Callers, Cancel(c) PROVE NetInv'
  BY <1>a, <1>b, <1>28 DEF Cancel
<1>29. ASSUME NEW c \in Callers, Crash(c) PROVE NetInv'
  BY <1>a, <1>b, <1>29 DEF Crash, Idle
<1>30. ASSUME NEW p \in Pids, RunnerExit(p) PROVE NetInv'
  BY <1>a, <1>b, <1>30 DEF RunnerExit
<1>31. ASSUME NEW p \in Pids, ReusePid(p) PROVE NetInv'
  BY <1>a, <1>b, <1>31 DEF ReusePid
<1>32. CASE UNCHANGED vars
  BY <1>32, Zenon DEF vars
<1>33. QED
  BY <1>1, <1>2, <1>3, <1>4, <1>5, <1>6, <1>7, <1>8, <1>9, <1>10, <1>11, <1>12, <1>13,
     <1>14, <1>15, <1>16, <1>17, <1>18, <1>19, <1>20, <1>21, <1>22, <1>23, <1>24, <1>25,
     <1>26, <1>27, <1>28, <1>29, <1>30, <1>31, <1>32, ZenonT(30)
  DEF Next, RunStep, StopStep

-----------------------------------------------------------------------------
(* Where a recorded runner is.                                             *)

LEMMA StepRecovery == LifecycleInv /\ [Next]_vars => RecoveryInv'
<1> SUFFICES ASSUME TypeOK, HandleInv, NetInv, RecoveryInv, [Next]_vars PROVE RecoveryInv'
  BY Zenon DEF LifecycleInv
<1>a. /\ vm \in [Callers -> CallerSet] /\ NoPid \notin Pids /\ NoCaller \notin Callers
      /\ saved \in SUBSET Pids
      /\ proc \in [Pids -> Runner \cup {"free", "other"}] /\ mode' = mode
      /\ \A c \in Callers : vm[c].pid \in Pids \cup {NoPid} /\ vm[c].stale \in Pids \cup {NoPid}
      /\ mode.callers \subseteq Callers /\ mode.pids \subseteq Pids
  BY LifecycleAssumption, Zenon DEF TypeOK, CallerSet, ModeSet, Next, vars
<1>b. /\ \A c, d \in Callers : Solo /\ ~At(c, "idle") => c \in mode.callers /\ (d \in mode.callers => d = c)
      /\ Solo' = Solo
  BY <1>a, Zenon DEF RecoveryInv, Solo
<1> USE DEF RecoveryInv, PastProcess, Cleared, Recorded, At, Goto, Runner
<1>1. ASSUME NEW c \in Callers, RunBegin(c) PROVE RecoveryInv'
  BY <1>a, <1>b, <1>1 DEF RunBegin, Idle, Solo
<1>2. ASSUME NEW c \in Callers, StaleLoad(c) PROVE RecoveryInv'
  <2>1. CASE vm' = [vm EXCEPT ![c].stale = file, ![c].pc = IF file = NoPid THEN "wipe" ELSE "check"]
    BY <1>a, <1>b, <1>2, <2>1 DEF StaleLoad, Solo
  <2>2. CASE mode.readErrors /\ Goto(c, "wipe")
    BY <1>a, <1>b, <1>2, <2>2, Zenon DEF StaleLoad, Solo
  <2>3. QED
    BY <1>2, <2>1, <2>2, Zenon DEF StaleLoad
<1>3. ASSUME NEW c \in Callers, StaleCheck(c) PROVE RecoveryInv'
  BY <1>a, <1>b, <1>3 DEF StaleCheck, IsAlive
<1>4. ASSUME NEW c \in Callers, StaleTerm(c) PROVE RecoveryInv'
  BY <1>a, <1>b, <1>4 DEF StaleTerm, Deliver, KillResults
<1>5. ASSUME NEW c \in Callers, StalePoll(c) PROVE RecoveryInv'
  BY <1>a, <1>b, <1>5 DEF StalePoll, ProcessAlive
<1>6. ASSUME NEW c \in Callers, StaleKill(c) PROVE RecoveryInv'
  BY <1>a, <1>b, <1>6 DEF StaleKill, Deliver
<1>7. ASSUME NEW c \in Callers, WipeDataDir(c) PROVE RecoveryInv'
  BY <1>a, <1>b, <1>7, ReturnFields DEF WipeDataDir
<1>8. ASSUME NEW c \in Callers, Prepare(c) PROVE RecoveryInv'
  BY <1>a, <1>b, <1>8, ReturnFields DEF Prepare
<1>9. ASSUME NEW c \in Callers, StartNetwork(c) PROVE RecoveryInv'
  BY <1>a, <1>b, <1>9, ReturnFields DEF StartNetwork
<1>10. ASSUME NEW c \in Callers, ValidateMounts(c) PROVE RecoveryInv'
  BY <1>a, <1>b, <1>10, ReturnFields DEF ValidateMounts
<1>11. ASSUME NEW c \in Callers, Spawn(c) PROVE RecoveryInv'
  <2>1. ASSUME NEW p \in mode.pids, proc[p] = "free",
               proc' = [proc EXCEPT ![p] = "runner"],
               vm' = [vm EXCEPT ![c].pid = p, ![c].pc = "lock"]
        PROVE  RecoveryInv'
    <3>1. p \in Pids /\ p \notin saved
      BY <1>a, <2>1, Zenon
    <3>2. \A q \in saved : proc'[q] = proc[q]
      BY <1>a, <2>1, <3>1
    <3>3. vm'[c].pc = "lock" /\ \A d \in Callers \ {c} : vm'[d] = vm[d]
      BY <1>a, <2>1
    <3>4. vm[c].pc = "spawn" /\ UNCHANGED <<file, saved>>
      BY <1>11, Zenon DEF Spawn
    <3>5. QED
      BY <1>a, <1>b, <3>2, <3>3, <3>4
  <2>2. CASE vm' = [vm EXCEPT ![c] = [Return(c) EXCEPT !.net = "off"]] /\ UNCHANGED <<proc, owner>>
    BY <1>a, <1>b, <1>11, <2>2, ReturnFields DEF Spawn
  <2>3. QED
    BY <1>11, <2>1, <2>2, ZenonT(30) DEF Spawn
<1>12. ASSUME NEW c \in Callers, RunLock(c) PROVE RecoveryInv'
  BY <1>a, <1>b, <1>12 DEF RunLock
<1>13. ASSUME NEW c \in Callers, RunSave(c) PROVE RecoveryInv'
  <2>1. CASE /\ file' = vm[c].pid
             /\ saved' = IF owner[vm[c].pid] = c THEN saved \cup {vm[c].pid} ELSE saved
    <3>1. vm[c].pid \in Pids
      BY <1>13, Zenon DEF RunSave, HandleInv, HandlePCs, SavePCs
    <3>2. owner[vm[c].pid] = c => proc[vm[c].pid] \in Runner
      BY <1>a, <3>1 DEF NetInv
    <3>3. /\ vm[c].pc = "save" /\ vm'[c].pc = "release" /\ vm'[c].pid = vm[c].pid
          /\ \A d \in Callers \ {c} : vm'[d] = vm[d]
          /\ UNCHANGED proc
      BY <1>a, <1>13 DEF RunSave
    <3>4. Solo => \A p \in saved : proc[p] # "runner"
      BY <1>a, <1>b, <3>3, Zenon
    <3>5. QED
      BY <1>a, <1>b, <2>1, <3>2, <3>3, <3>4
  <2>2. CASE UNCHANGED <<file, saved>>
    BY <1>a, <1>b, <1>13, <2>2 DEF RunSave
  <2>3. QED
    BY <1>13, <2>1, <2>2, Zenon DEF RunSave
<1>14. ASSUME NEW c \in Callers, RunRelease(c) PROVE RecoveryInv'
  BY <1>a, <1>b, <1>14 DEF RunRelease
<1>15. ASSUME NEW c \in Callers, PostBootHooks(c) PROVE RecoveryInv'
  <2>1. CASE Goto(c, "up")
    BY <1>a, <1>b, <1>15, <2>1 DEF PostBootHooks
  <2>2. CASE vm' = [vm EXCEPT ![c].pc = "alive", ![c].op = "hookErr"]
    BY <1>a, <1>b, <1>15, <2>2, SMTT(30) DEF PostBootHooks
  <2>3. QED
    BY <1>15, <2>1, <2>2, Zenon DEF PostBootHooks
<1>16. ASSUME NEW c \in Callers, StopBegin(c) PROVE RecoveryInv'
  BY <1>a, <1>b, <1>16 DEF StopBegin
<1>17. ASSUME NEW c \in Callers, Forget(c) PROVE RecoveryInv'
  BY <1>a, <1>b, <1>17 DEF Forget, Idle
<1>18. ASSUME NEW c \in Callers, StopAlive(c) PROVE RecoveryInv'
  BY <1>a, <1>b, <1>18, SMTT(30) DEF StopAlive, IsAlive
<1>19. ASSUME NEW c \in Callers, StopTerm(c) PROVE RecoveryInv'
  BY <1>a, <1>b, <1>19, StopRefusedFields DEF StopTerm, Deliver, KillResults
<1>20. ASSUME NEW c \in Callers, StopPoll(c) PROVE RecoveryInv'
  BY <1>a, <1>b, <1>20 DEF StopPoll, IsAlive
<1>21. ASSUME NEW c \in Callers, StopCancelled(c) PROVE RecoveryInv'
  BY <1>a, <1>b, <1>21, StopFailedFields DEF StopCancelled, Deliver
<1>22. ASSUME NEW c \in Callers, StopKill(c) PROVE RecoveryInv'
  BY <1>a, <1>b, <1>22, StopRefusedFields DEF StopKill, Deliver, KillResults
<1>23. ASSUME NEW c \in Callers, StopNetwork(c) PROVE RecoveryInv'
  BY <1>a, <1>b, <1>23 DEF StopNetwork
<1>24. ASSUME NEW c \in Callers, StopLock(c) PROVE RecoveryInv'
  BY <1>a, <1>b, <1>24, StopDoneFields DEF StopLock
<1>25. ASSUME NEW c \in Callers, StopSave(c) PROVE RecoveryInv'
  BY <1>a, <1>b, <1>25 DEF StopSave
<1>26. ASSUME NEW c \in Callers, StopRelease(c) PROVE RecoveryInv'
  BY <1>a, <1>b, <1>26, StopDoneFields DEF StopRelease
<1>27. ASSUME NEW c \in Callers, RemoveDataDir(c) PROVE RecoveryInv'
  BY <1>a, <1>b, <1>27, ReturnFields DEF RemoveDataDir
<1>28. ASSUME NEW c \in Callers, Cancel(c) PROVE RecoveryInv'
  BY <1>a, <1>b, <1>28 DEF Cancel, Resting
<1>29. ASSUME NEW c \in Callers, Crash(c) PROVE RecoveryInv'
  BY <1>a, <1>b, <1>29 DEF Crash, Idle
<1>30. ASSUME NEW p \in Pids, RunnerExit(p) PROVE RecoveryInv'
  BY <1>a, <1>b, <1>30 DEF RunnerExit
<1>31. ASSUME NEW p \in Pids, ReusePid(p) PROVE RecoveryInv'
  BY <1>a, <1>b, <1>31 DEF ReusePid
<1>32. CASE UNCHANGED vars
  BY <1>32, <1>b DEF vars
<1>33. QED
  BY <1>1, <1>2, <1>3, <1>4, <1>5, <1>6, <1>7, <1>8, <1>9, <1>10, <1>11, <1>12, <1>13,
     <1>14, <1>15, <1>16, <1>17, <1>18, <1>19, <1>20, <1>21, <1>22, <1>23, <1>24, <1>25,
     <1>26, <1>27, <1>28, <1>29, <1>30, <1>31, <1>32, ZenonT(30)
  DEF Next, RunStep, StopStep

-----------------------------------------------------------------------------
(* The invariant and what it gives.                                        *)

\* What the program counters promise, about handles, providers and recorded
\* runners, holds in every reachable state (microvm.go Run, vm.go Stop and
\* Remove, runner/spawn.go).
THEOREM Invariance == Spec => []LifecycleInv
<1>1. Init => LifecycleInv
  <2> SUFFICES ASSUME Init PROVE LifecycleInv
    BY Zenon
  <2>1. TypeOK /\ HandleInv
    BY InitTypes, Zenon
  <2>2. NetInv
    BY LifecycleAssumption, Zenon DEF Init, NetInv, Idle, Own, At, PastProcess, StalePCs,
       RunPCs, LeftOnWhy
  <2>3. RecoveryInv
    BY Zenon DEF Init, RecoveryInv, Idle, At
  <2>4. QED
    BY <2>1, <2>2, <2>3, Zenon DEF LifecycleInv
<1>2. LifecycleInv /\ [Next]_vars => LifecycleInv'
  BY StepTypes, StepNet, StepRecovery, Zenon DEF LifecycleInv
<1>3. QED
  BY <1>1, <1>2, PTL DEF Spec

\* When Stop has returned nil, the runner has exited or has been sent SIGKILL
\* and the provider is stopped, for any number of callers that share the data
\* directory and any reuse of PIDs (vm.go Stop, spawn.go Process.Stop).
THEOREM StopReleases == Spec => []StoppedMeansReleased
<1>1. LifecycleInv => StoppedMeansReleased
  BY Zenon DEF LifecycleInv, NetInv, PastProcess, StoppedMeansReleased, At
<1>2. QED
  BY <1>1, Invariance, PTL

\* No exit path and no order of calls stops the provider under a running VM
\* (vm.go Stop, microvm.go Run).
THEOREM ProviderOutlivesRunner == Spec => []NetworkOutlivesRunner
<1>1. LifecycleInv => NetworkOutlivesRunner
  BY Zenon DEF LifecycleInv, TypeOK, CallerSet, NetInv, NetworkOutlivesRunner
<1>2. QED
  BY <1>1, Invariance, PTL

\* A Run that fails leaves no runner that has not been sent SIGKILL, and its
\* provider only for the reasons the property names (microvm.go Run).
THEOREM FailedRunStops == Spec => []FailedRunReleases
<1>1. LifecycleInv => FailedRunReleases
  <2> SUFFICES ASSUME LifecycleInv, NEW c \in Callers, At(c, "idle")
               PROVE  /\ \A p \in Pids : owner[p] = c => proc[p] = "killed"
                      /\ LeftOnWhy(c)
    BY Zenon DEF FailedRunReleases, LeftOnWhy
  <2>1. vm[c].pid \notin Pids
    BY DEF LifecycleInv, HandleInv, HandlePCs, SavePCs, StopPCs, At
  <2>2. QED
    BY <2>1, Zenon DEF LifecycleInv, NetInv
<1>2. QED
  BY <1>1, Invariance, PTL

\* A caller that always cleans the data directory finds its recorded runner
\* again, wherever it was killed and however PIDs are reused (microvm.go
\* terminateStaleRunner).
THEOREM CrashRecovery == Spec => []NoRunnerLost
<1>1. LifecycleInv => NoRunnerLost
  BY Zenon DEF LifecycleInv, RecoveryInv, Solo, NoRunnerLost
<1>2. QED
  BY <1>1, Invariance, PTL
=============================================================================
