-------------------------- MODULE ImageCacheProofs --------------------------
(***************************************************************************)
(* Proofs about ImageCache, for any number of pullers, references, digests *)
(* and layers: what racing and killed pulls leave in the cache, what the   *)
(* fast path finds afterwards, and what a GC removes.                      *)
(***************************************************************************)
EXTENDS ImageCache, TLAPS

DirStates == {"none", "empty", "part", "whole"}
PCs == {"idle", "getRef", "upgrade", "upgradeWrite", "lookup", "getConfig", "fetch", "get",
        "layers", "apply", "copy", "flat", "put", "clear", "retry", "winner", "reget",
        "storeRef", "storeRefWrite", "putConfig", "putConfigWrite", "return"}
Filling == {"layers", "apply", "copy", "put", "clear", "retry", "winner"}
Results == DirStates \cup {"nothing", "failed", "error"}

\* The types; a pull that has looked a digest up has one, and one that is
\* filling its temporary directory has that.
TypeOK ==
  /\ dir \in [Dirs -> DirStates]
  /\ refs \in [Refs -> Digests \cup {NoDigest}]
  /\ pc \in [Pullers -> PCs]
  /\ ref \in [Pullers -> Refs]
  /\ dig \in [Pullers -> Digests \cup {NoDigest}]
  /\ tmp \in [Pullers -> {"none", "part", "whole", "lost"}]
  /\ got \in [Pullers -> Results]
  /\ removed \in BOOLEAN
  /\ faults \in Nat
  /\ \A p \in Pullers :
       /\ pc[p] \notin {"idle", "getRef", "fetch"} => dig[p] \in Digests
       /\ pc[p] \in Filling => tmp[p] \in {"part", "whole"}

-----------------------------------------------------------------------------
(* Until something is removed, directories are installed whole and stay:   *)
(* the entry that made a rename fail, or that a reference names, is there. *)

Settled == {"upgrade", "upgradeWrite", "lookup", "getConfig", "clear", "winner", "reget",
            "storeRef", "storeRefWrite", "putConfig", "putConfigWrite", "return"}

WholeAt(p) ==
  /\ got[p] \in {"nothing", "failed", "whole"}
  /\ pc[p] # "retry"
  /\ tmp[p] # "lost"
  /\ pc[p] \in Filling \ {"winner"} => tmp[p] = "whole"
  /\ pc[p] \in Settled => dir[dig[p]] = "whole"

WholeInv ==
  ~removed => /\ \A x \in Dirs : dir[x] \in {"none", "whole"}
              /\ \A r \in Refs : refs[r] # NoDigest => dir[refs[r]] = "whole"
              /\ \A p \in Pullers : WholeAt(p)

-----------------------------------------------------------------------------
(* Short of errors, a truncated file has a writer on its way to it.        *)

Writing == {"upgradeWrite", "storeRefWrite"}
Owing == {"reget", "storeRef", "storeRefWrite", "putConfig", "putConfigWrite"}
Served == {"upgrade", "upgradeWrite", "lookup", "getConfig", "putConfig", "putConfigWrite",
           "return"}

Indexed(r) ==
  refs[r] # NoDigest \/ \E q \in Pullers : ref[q] = r /\ pc[q] \in Writing

Configured(d) ==
  d \in configs \/ \E q \in Pullers : dig[q] = d /\ pc[q] \in Owing

FastAt(p) ==
  /\ pc[p] \in {"upgrade", "upgradeWrite"} => Configured(dig[p])
  /\ pc[p] \in Served \/ got[p] = "whole" => Indexed(ref[p])

FastInv ==
  ~removed /\ faults = 0 => /\ \A r \in Refs : refs[r] # NoDigest => Configured(refs[r])
                            /\ \A p \in Pullers : FastAt(p)

-----------------------------------------------------------------------------
(* The collector.  A pull changes the ref file of its own reference only,  *)
(* and of the entries only one that the reference may name.  So whatever   *)
(* pulls overlap a GC, it knows the references nobody was pulling and the  *)
(* entries nobody could have to do with, and what it has emptied of these  *)
(* stays empty.                                                            *)

TagInv ==
  /\ \A r \in Refs : refs[r] \in Tags[r] \cup {NoDigest}
  /\ \A p \in Pullers : /\ dig[p] \in Tags[ref[p]] \cup {NoDigest}
                        /\ pc[p] = "idle" => dig[p] = NoDigest

\* An entry that no overlapping pull has to do with.
Apart(d) == d \in Digests /\ \A r \in overlap : d \notin Tags[r]

Named(d) == \E r \in Refs : refs[r] = d

\* What liveDigests has found so far.
Reading ==
  /\ NoDigest \notin live
  /\ \A d : Apart(d) /\ Present(d) => d \in listed
  /\ \A r \in Refs \ (unread \cup overlap \cup skipped) : refs[r] \in live \cup {NoDigest}
  /\ \A d \in live : Apart(d) => Named(d)

Removing ==
  /\ \A d \in emptied : Apart(d) => dir[d] = "empty"
  /\ \A r \in Refs \ (overlap \cup skipped) : refs[r] = NoDigest \/ refs[r] \notin doomed \cup emptied
  /\ \A d : Apart(d) /\ Present(d) => Named(d) \/ d \in doomed \cup emptied \cup kept

GCInv ==
  /\ overlap \subseteq Refs
  /\ cpc \in {"idle", "refs", "scan", "layers", "remove"}
  /\ cpc \in {"idle", "refs"} => doomed = {} /\ emptied = {}
  /\ cpc \in {"refs", "remove"} => \A p \in Pullers : pc[p] # "idle" => ref[p] \in overlap
  /\ cpc = "refs" => Reading
  /\ cpc = "remove" => Removing

-----------------------------------------------------------------------------
(* A step of a pull touches the state of that pull only.                   *)

Same(q) ==
  /\ pc'[q] = pc[q] /\ ref'[q] = ref[q] /\ dig'[q] = dig[q]
  /\ tmp'[q] = tmp[q] /\ got'[q] = got[q]

LEMMA InitTypes == Init => TypeOK
<1> SUFFICES ASSUME Init PROVE TypeOK
  BY Zenon
<1>1. (CHOOSE r \in Refs : TRUE) \in Refs
  BY CacheAssumption, Zenon
<1>2. QED
  BY <1>1, ZenonT(30) DEF Init, TypeOK, DirStates, PCs, Filling, Results

LEMMA ReturnType ==
  ASSUME TypeOK, NEW p \in Pullers, NEW result \in Results, Return(p, result)
  PROVE  /\ pc' \in [Pullers -> PCs] /\ ref' \in [Pullers -> Refs]
         /\ dig' \in [Pullers -> Digests \cup {NoDigest}]
         /\ tmp' \in [Pullers -> {"none", "part", "whole", "lost"}]
         /\ got' \in [Pullers -> Results]
         /\ pc'[p] = "idle" /\ got'[p] = result /\ tmp'[p] = "none" /\ ref'[p] = ref[p]
         /\ \A q \in Pullers \ {p} : Same(q)
BY Zenon DEF Return, TypeOK, Same, PCs

LEMMA ReturnErrorType ==
  ASSUME TypeOK, NEW p \in Pullers, ReturnError(p)
  PROVE  /\ pc' \in [Pullers -> PCs] /\ ref' \in [Pullers -> Refs]
         /\ dig' \in [Pullers -> Digests \cup {NoDigest}]
         /\ tmp' \in [Pullers -> {"none", "part", "whole", "lost"}]
         /\ got' \in [Pullers -> Results]
         /\ pc'[p] = "idle" /\ got'[p] = "failed" /\ tmp'[p] = "none"
         /\ \A q \in Pullers \ {p} : Same(q)
         /\ UNCHANGED <<dir, configs, refs, old>> /\ faults' = faults + 1
BY ReturnType, Zenon DEF ReturnError, Fault, disk, Results

\* Every step of a pull keeps the types.
LEMMA PullTypes ==
  ASSUME TypeOK, NEW p \in Pullers, (\E r \in Refs : Begin(p, r)) \/ Pull(p) \/ Kill(p)
  PROVE  /\ TypeOK'
         /\ \A q \in Pullers \ {p} : Same(q)
         /\ UNCHANGED removed /\ faults' \in {faults, faults + 1}
<1> DEFINE Goal == /\ TypeOK'
                   /\ \A q \in Pullers \ {p} : Same(q)
                   /\ UNCHANGED removed /\ faults' \in {faults, faults + 1}
<1> USE DEF Goto, At, Fault, NoFault, Others, TypeOK, DirStates, PCs, Filling, Same, Dirs
<1>0. CASE ReturnError(p) /\ UNCHANGED removed
  BY <1>0, ReturnErrorType
<1>1. CASE \E r \in Refs : Begin(p, r)
  BY <1>1 DEF Begin, Results, disk
<1>2. CASE GetRef(p)
  BY <1>2 DEF GetRef, disk
<1>3. ASSUME NEW from \in {"upgrade", "storeRef"},
             NEW next \in {"upgradeWrite", "storeRefWrite"},
             NEW after \in {"lookup", "putConfig"}, TruncateRef(p, from, next, after)
      PROVE  Goal
  BY <1>3 DEF TruncateRef
<1>4. ASSUME NEW from \in {"upgradeWrite", "storeRefWrite"},
             NEW next \in {"lookup", "putConfig"}, WriteRef(p, from, next)
      PROVE  Goal
  BY <1>4 DEF WriteRef
<1>5. CASE Lookup(p)
  BY <1>5 DEF Lookup
<1>6. CASE GetConfig(p)
  <2>1. CASE Return(p, dir[dig[p]])
    <3>1. dir[dig[p]] \in Results
      BY <1>6, Zenon DEF GetConfig, Results
    <3>2. QED
      BY <1>6, <2>1, <3>1, ReturnType DEF GetConfig, disk
  <2>2. CASE Goto(p, "fetch") /\ UNCHANGED <<ref, dig, tmp, job, got>>
    BY <1>6, <2>2, Zenon DEF GetConfig, disk
  <2>3. QED
    BY <1>6, <2>1, <2>2, Zenon DEF GetConfig
<1>7. CASE Fetch(p)
  <2>1. CASE ReturnError(p)
    BY <1>0, <1>7, <2>1, Zenon DEF Fetch
  <2>2. ASSUME NEW d \in Tags[ref[p]], dig' = [dig EXCEPT ![p] = d], Goto(p, "get"),
               UNCHANGED <<disk, ref, tmp, job, got, faults, removed>>
        PROVE  Goal
    BY <2>2, CacheAssumption, Zenon DEF disk
  <2>3. QED
    BY <1>7, <2>1, <2>2, Zenon DEF Fetch
<1>8. CASE Get(p)
  <2>1. CASE ReturnError(p)
    BY <1>0, <1>8, <2>1, Zenon DEF Get
  <2>2. CASE ~ReturnError(p)
    BY <1>8, <2>2 DEF Get, disk
  <2>3. QED
    BY <2>1, <2>2, Zenon
<1>9. CASE \E l \in Layers : HasLayer(p, l) \/ ExtractLayer(p, l) \/ StatLayer(p, l)
  BY <1>9 DEF HasLayer, ExtractLayer, StatLayer, disk
<1>10. CASE \E l \in Layers : RenameLayer(p, l)
  BY <1>10 DEF RenameLayer
<1>11. CASE \E l \in Layers : GetLayer(p, l)
  BY <1>11 DEF GetLayer
<1>12. CASE \E l \in Layers : CopyLayer(p, l)
  BY <1>12 DEF CopyLayer, disk
<1>13. CASE WaitLayers(p)
  BY <1>13, Zenon DEF WaitLayers, disk
<1>14. CASE Applied(p)
  BY <1>14, Zenon DEF Applied, disk
<1>15. CASE Flat(p)
  <2>1. CASE ReturnError(p)
    BY <1>0, <1>15, <2>1, Zenon DEF Flat
  <2>2. CASE ~ReturnError(p)
    BY <1>15, <2>2 DEF Flat, disk
  <2>3. QED
    BY <2>1, <2>2, Zenon
<1>16. ASSUME NEW ok \in BOOLEAN, NEW failed \in {"clear", "winner"},
              pc[p] \in {"put", "retry"}, Install(p, ok, failed)
       PROVE  Goal
  BY <1>16, Zenon DEF Install
<1>17. CASE Put(p) \/ Retry(p)
  <2>1. \A x : Renames(x) \subseteq BOOLEAN
    BY ZenonT(30) DEF Renames
  <2>2. QED
    BY <1>16, <1>17, <2>1 DEF Put, Retry
<1>18. CASE Clear(p)
  BY <1>18 DEF Clear
<1>19. CASE Winner(p)
  <2>1. CASE Return(p, "error")
    BY <1>19, <2>1, ReturnType DEF Winner, disk, Results
  <2>2. CASE ~Return(p, "error")
    BY <1>19, <2>2 DEF Winner, disk
  <2>3. QED
    BY <2>1, <2>2, Zenon
<1>20. CASE ReGet(p)
  BY <1>20, Zenon DEF ReGet
<1>21. CASE PutConfig(p)
  BY <1>21 DEF PutConfig
<1>22. CASE PutConfigWrite(p)
  BY <1>22 DEF PutConfigWrite
<1>23. CASE Done(p)
  <2>1. PICK result \in Results : Return(p, result)
    BY <1>23, Zenon DEF Done, Results
  <2>2. QED
    BY <1>23, <2>1, ReturnType DEF Done, disk
<1>24. CASE Kill(p)
  BY <1>0, <1>24, Zenon DEF Kill
<1>25. QED
  BY <1>1, <1>2, <1>3, <1>4, <1>5, <1>6, <1>7, <1>8, <1>9, <1>10, <1>11, <1>12, <1>13,
     <1>14, <1>15, <1>17, <1>18, <1>19, <1>20, <1>21, <1>22, <1>23, <1>24, ZenonT(30)
  DEF Pull, UpgradeRef, UpgradeRefWrite, StoreRef, StoreRefWrite

\* The collector keeps the types too, and away from the disk until it removes.
LEMMA CollectorTypes ==
  ASSUME TypeOK,
         Collect \/ (\E x \in Dirs : RemoveFails(x)) \/ KillCollector \/ Age \/ UNCHANGED vars
  PROVE  /\ TypeOK'
         /\ UNCHANGED <<pc, ref, dig, tmp, got>>
         /\ removed => removed'
         /\ ~removed' => UNCHANGED <<dir, configs, refs>>
         /\ faults' = 0 => faults = 0
<1> DEFINE Goal == /\ TypeOK'
                   /\ UNCHANGED <<pc, ref, dig, tmp, got>>
                   /\ removed => removed'
                   /\ ~removed' => UNCHANGED <<dir, configs, refs>>
                   /\ faults' = 0 => faults = 0
<1>1. CASE UNCHANGED <<dir, configs, refs, mine, removed>> /\ faults' \in {faults, faults + 1}
  BY <1>1 DEF TypeOK, mine
<1>2. CASE GC \/ (\E r \in Refs : LiveDigests(r)) \/ Sweep \/ Evict \/ EvictLayers \/ CollectEnd
  BY <1>1, <1>2, Zenon
  DEF GC, LiveDigests, Sweep, Evict, EvictLayers, CollectEnd, CollectBegin, Fault, disk,
      counts
<1>3. CASE (\E x \in Dirs : RemoveFails(x)) \/ KillCollector \/ Age \/ UNCHANGED vars
  BY <1>1, <1>3, Zenon DEF RemoveFails, KillCollector, Age, Fault, disk, counts, vars
<1>4. ASSUME NEW x, EvictOne(x) PROVE Goal
  <2>1. UNCHANGED <<dir, configs, mine, faults>> /\ removed' = (removed \/ x \in old)
    BY <1>4, Zenon DEF EvictOne
  <2>2. refs' \in [Refs -> Digests \cup {NoDigest}] /\ (x \notin old => refs' = refs)
    BY <1>4, Zenon DEF EvictOne, TypeOK
  <2>3. QED
    BY <2>1, <2>2, ZenonT(30) DEF TypeOK, mine
<1>5. ASSUME NEW x \in Dirs, Unlink(x) \/ Rmdir(x) PROVE Goal
  <2>1. UNCHANGED <<refs, mine, faults>> /\ removed'
    BY <1>5, Zenon DEF Unlink, Rmdir
  <2>2. dir' \in [Dirs -> DirStates]
    BY <1>5, Zenon DEF Unlink, Rmdir, TypeOK, DirStates
  <2>3. removed' \in BOOLEAN
    BY <1>5, ZenonT(30) DEF Unlink, Rmdir
  <2>4. QED
    BY <2>1, <2>2, <2>3, Zenon DEF TypeOK, mine
<1>6. QED
  BY <1>2, <1>3, <1>4, <1>5, Zenon DEF Collect

LEMMA StepTypes == TypeOK /\ [Next]_vars => TypeOK'
BY PullTypes, CollectorTypes, Zenon DEF Next

-----------------------------------------------------------------------------
(* Pulls install whole directories.                                        *)

Grows == \A x \in Dirs : \/ dir'[x] = dir[x]
                         \/ dir[x] = "none" /\ dir'[x] = "whole"

LEMMA WholeElsewhere ==
  ASSUME TypeOK, WholeInv, NEW p \in Pullers, \A q \in Pullers \ {p} : Same(q),
         removed' = removed,
         ~removed => /\ Grows
                     /\ \A r \in Refs : \/ refs'[r] \in {refs[r], NoDigest}
                                        \/ refs'[r] \in Digests /\ dir[refs'[r]] = "whole"
                     /\ WholeAt(p)'
  PROVE  WholeInv'
<1> SUFFICES ASSUME ~removed
             PROVE  /\ \A x \in Dirs : dir'[x] \in {"none", "whole"}
                    /\ \A r \in Refs : refs'[r] # NoDigest => dir'[refs'[r]] = "whole"
                    /\ \A q \in Pullers : WholeAt(q)'
  BY Zenon DEF WholeInv
<1>1. \A x \in Dirs : dir'[x] \in {"none", "whole"}
  BY Zenon DEF Grows, WholeInv
<1>2. ASSUME NEW r \in Refs, refs'[r] # NoDigest PROVE dir'[refs'[r]] = "whole"
  <2>1. refs'[r] \in Digests /\ dir[refs'[r]] = "whole"
    BY <1>2 DEF WholeInv, TypeOK
  <2>2. QED
    BY <2>1, Zenon DEF Grows, Dirs
<1>3. ASSUME NEW q \in Pullers, q # p PROVE WholeAt(q)'
  <2>1. WholeAt(q) /\ Same(q)
    BY <1>3, Zenon DEF WholeInv
  <2>2. pc[q] \in Settled => dig[q] \in Dirs
    BY Zenon DEF TypeOK, Settled, Dirs
  <2>3. QED
    BY <2>1, <2>2 DEF WholeAt, Same, Grows
<1>4. QED
  BY <1>1, <1>2, <1>3, Zenon

LEMMA PullWhole ==
  ASSUME TypeOK, WholeInv, NEW p \in Pullers,
         (\E r \in Refs : Begin(p, r)) \/ Pull(p) \/ Kill(p)
  PROVE  WholeInv'
<1>0. (\A q \in Pullers \ {p} : Same(q)) /\ removed' = removed /\ TypeOK'
  BY PullTypes, Zenon
<1> DEFINE Kept == \A r \in Refs : \/ refs'[r] \in {refs[r], NoDigest}
                                   \/ refs'[r] \in Digests /\ dir[refs'[r]] = "whole"
           Goal == Grows /\ Kept /\ WholeAt(p)'
<1> SUFFICES ASSUME ~removed PROVE Goal
  BY <1>0, WholeElsewhere, Zenon
<1> HIDE DEF Goal
<1>a. /\ WholeAt(p)
      /\ \A x \in Dirs : dir[x] \in {"none", "whole"}
      /\ pc[p] \notin {"idle", "getRef", "fetch"} => dig[p] \in Dirs /\ dig[p] \in Digests
  BY Zenon DEF WholeInv, TypeOK, Dirs
<1>b. CASE UNCHANGED <<dir, refs>> /\ WholeAt(p)'
  BY <1>b, Zenon DEF Goal, Grows
<1> USE DEF At, Goto, TypeOK, WholeAt, Settled, Filling
<1>1. CASE ReturnError(p)
  BY <1>1, <1>a, <1>b, ReturnErrorType, Zenon
<1>2. CASE \E r \in Refs : Begin(p, r)
  BY <1>2, <1>a, <1>b DEF Begin, disk
<1>3. CASE GetRef(p)
  <2>1. refs[ref[p]] # NoDigest => dir[refs[ref[p]]] = "whole"
    BY Zenon DEF WholeInv
  <2>2. QED
    BY <1>3, <1>a, <1>b, <2>1 DEF GetRef, disk
<1>4. ASSUME NEW from \in {"upgrade", "storeRef"},
             NEW next \in {"upgradeWrite", "storeRefWrite"},
             NEW after \in {"lookup", "putConfig"}, TruncateRef(p, from, next, after)
      PROVE  Goal
  BY <1>4, <1>a, Zenon DEF TruncateRef, Goal, Grows
<1>5. ASSUME NEW from \in {"upgradeWrite", "storeRefWrite"},
             NEW next \in {"lookup", "putConfig"}, WriteRef(p, from, next)
      PROVE  Goal
  BY <1>5, <1>a, Zenon DEF WriteRef, Goal, Grows
<1>6. CASE Lookup(p)
  BY <1>6, <1>a, <1>b, Zenon DEF Lookup
<1>7. CASE GetConfig(p)
  BY <1>7, <1>a, <1>b, SMTT(30) DEF GetConfig, Return, disk
<1>8. CASE Fetch(p)
  BY <1>8, <1>1, <1>a, <1>b, Zenon DEF Fetch, disk
<1>9. CASE Get(p)
  BY <1>9, <1>1, <1>a, <1>b DEF Get, disk, Present
<1>10. CASE \E l \in Layers : HasLayer(p, l) \/ ExtractLayer(p, l) \/ StatLayer(p, l)
  BY <1>10, <1>a, <1>b, Zenon DEF HasLayer, ExtractLayer, StatLayer, disk
<1>11. CASE \E l \in Layers : RenameLayer(p, l)
  BY <1>11, <1>a, Zenon DEF RenameLayer, Renames, Goal, Grows, Dirs
<1>12. CASE \E l \in Layers : GetLayer(p, l)
  BY <1>12, <1>a, <1>b DEF GetLayer
<1>13. CASE \E l \in Layers : CopyLayer(p, l)
  BY <1>13, <1>a, <1>b, SMTT(30) DEF CopyLayer, disk, Present, Dirs
<1>14. CASE WaitLayers(p) \/ Applied(p)
  BY <1>14, <1>a, <1>b DEF WaitLayers, Applied, disk
<1>15. CASE Flat(p)
  BY <1>15, <1>1, <1>a, <1>b DEF Flat, disk
<1>16. CASE Put(p)
  <2>1. PICK ok \in Renames(dig[p]) : Install(p, ok, "clear")
    BY <1>16, Zenon DEF Put
  <2>2. pc[p] = "put" /\ dig[p] \in Dirs /\ tmp[p] = "whole"
    BY <1>16, <1>a, Zenon DEF Put
  <2>3. CASE dir[dig[p]] = "none"
    <3>1. ok = TRUE
      BY <2>3, Zenon DEF Renames
    <3>2. QED
      BY <1>a, <2>1, <2>2, <2>3, <3>1, Zenon DEF Install, Goal, Grows
  <2>4. CASE dir[dig[p]] = "whole"
    <3>1. ok = FALSE
      BY <2>4, Zenon DEF Renames
    <3>2. QED
      BY <1>a, <1>b, <2>1, <2>2, <2>4, <3>1, Zenon DEF Install
  <2>5. QED
    BY <1>a, <2>2, <2>3, <2>4, Zenon
<1>17. CASE Clear(p)
  BY <1>17, <1>a, <1>b, Zenon DEF Clear
<1>18. CASE Retry(p)
  BY <1>18, <1>a, Zenon DEF Retry
<1>19. CASE Winner(p)
  BY <1>19, <1>a, <1>b, Zenon DEF Winner, Present, disk
<1>20. CASE ReGet(p)
  BY <1>20, <1>a, <1>b, Zenon DEF ReGet, Present
<1>21. CASE PutConfig(p)
  BY <1>21, <1>a, Zenon DEF PutConfig, Goal, Grows
<1>22. CASE PutConfigWrite(p)
  BY <1>22, <1>a, <1>b, Zenon DEF PutConfigWrite
<1>23. CASE Done(p)
  BY <1>23, <1>a, <1>b, Zenon DEF Done, Return, disk
<1>24. QED
  BY <1>1, <1>2, <1>3, <1>4, <1>5, <1>6, <1>7, <1>8, <1>9, <1>10, <1>11, <1>12, <1>13,
     <1>14, <1>15, <1>16, <1>17, <1>18, <1>19, <1>20, <1>21, <1>22, <1>23, Zenon, ZenonT(30)
  DEF Pull, Kill, UpgradeRef, UpgradeRefWrite, StoreRef, StoreRefWrite

LEMMA StepWhole == TypeOK /\ WholeInv /\ [Next]_vars => WholeInv'
<1> SUFFICES ASSUME TypeOK, WholeInv, [Next]_vars PROVE WholeInv'
  BY Zenon
<1>1. ASSUME NEW p \in Pullers, (\E r \in Refs : Begin(p, r)) \/ Pull(p) \/ Kill(p)
      PROVE  WholeInv'
  BY <1>1, PullWhole, Zenon
<1>2. CASE Collect \/ (\E x \in Dirs : RemoveFails(x)) \/ KillCollector \/ Age \/ UNCHANGED vars
  BY <1>2, CollectorTypes DEF WholeInv, WholeAt
<1>3. QED
  BY <1>1, <1>2, Zenon DEF Next

-----------------------------------------------------------------------------
(* The fast path after the pulls.                                          *)

\* A digest or a config that a step of p takes out of a file is owed by p, and
\* what p owes it has written when it goes on.
KeepsRefs(p) ==
  /\ \A r \in Refs : \/ refs'[r] = refs[r]
                     \/ refs'[r] = NoDigest /\ ref'[p] = r /\ pc'[p] \in Writing
                     \/ refs'[r] = dig[p] /\ dig[p] # NoDigest
  /\ pc[p] \in Writing => refs'[ref[p]] # NoDigest

KeepsConfigs(p) ==
  /\ \A d \in configs : d \in configs' \/ (dig'[p] = d /\ pc'[p] \in Owing)
  /\ pc[p] \in Owing => dig[p] \in configs' \/ (dig'[p] = dig[p] /\ pc'[p] \in Owing)
  /\ \/ \A r \in Refs : refs'[r] \in {refs[r], NoDigest}
     \/ Configured(dig[p])
     \/ dig'[p] = dig[p] /\ pc'[p] \in Owing
  /\ pc'[p] \in {"upgrade", "upgradeWrite"} => Configured(dig'[p])

KeepsServing(p) ==
  pc'[p] \in Served \/ got'[p] = "whole" =>
    /\ ref'[p] = ref[p]
    /\ Indexed(ref[p]) \/ refs'[ref[p]] # NoDigest \/ pc'[p] \in Writing

LEMMA FastElsewhere ==
  ASSUME TypeOK, FastInv, ~removed, faults = 0, NEW p \in Pullers,
         \A q \in Pullers \ {p} : Same(q), KeepsRefs(p), KeepsConfigs(p), KeepsServing(p)
  PROVE  FastInv'
<1> USE DEF KeepsRefs, KeepsConfigs, KeepsServing
<1>1. ASSUME NEW r \in Refs, Indexed(r) PROVE Indexed(r)'
  <2>1. CASE refs[r] # NoDigest
    BY <2>1, Zenon DEF Indexed
  <2>2. ASSUME NEW q \in Pullers, ref[q] = r, pc[q] \in Writing PROVE Indexed(r)'
    BY <2>2, Zenon DEF Indexed, Same
  <2>3. QED
    BY <1>1, <2>1, <2>2, Zenon DEF Indexed
<1>2. ASSUME NEW d, Configured(d) PROVE Configured(d)'
  <2>1. CASE d \in configs
    BY <2>1, Zenon DEF Configured
  <2>2. ASSUME NEW q \in Pullers, dig[q] = d, pc[q] \in Owing PROVE Configured(d)'
    BY <2>2, Zenon DEF Configured, Same
  <2>3. QED
    BY <1>2, <2>1, <2>2, Zenon DEF Configured
<1>3. ASSUME NEW r \in Refs, refs'[r] # NoDigest PROVE Configured(refs[r])'
  <2>1. CASE refs'[r] = refs[r]
    <3>1. Configured(refs[r])
      BY <1>3, <2>1, Zenon DEF FastInv
    <3>2. PICK d : d = refs[r] /\ d = refs'[r]
      BY <2>1, Zenon
    <3>3. Configured(d)'
      BY <1>2, <3>1, <3>2, Zenon
    <3>4. QED
      BY <3>2, <3>3, Zenon DEF Configured
  <2>2. CASE refs'[r] = dig[p] /\ Configured(dig[p])
    <3>1. PICK d : d = dig[p] /\ d = refs'[r]
      BY <2>2, Zenon
    <3>2. Configured(d)'
      BY <1>2, <2>2, <3>1, Zenon
    <3>3. QED
      BY <3>1, <3>2, Zenon DEF Configured
  <2>3. CASE refs'[r] = dig[p] /\ dig'[p] = dig[p] /\ pc'[p] \in Owing
    BY <2>3, Zenon DEF Configured
  <2>4. QED
    BY <1>3, <2>1, <2>2, <2>3, Zenon
<1>4. ASSUME NEW q \in Pullers PROVE FastAt(q)'
  <2>1. ref[q] \in Refs /\ FastAt(q)
    BY Zenon DEF TypeOK, FastInv
  <2>2. pc'[q] \in {"upgrade", "upgradeWrite"} => Configured(dig[q])'
    <3>1. ASSUME pc'[q] \in {"upgrade", "upgradeWrite"} PROVE Configured(dig'[q])
      BY <2>1, <3>1, Zenon DEF FastAt, Same
    <3>2. PICK d : d = dig'[q]
      BY Zenon
    <3>3. pc'[q] \in {"upgrade", "upgradeWrite"} => Configured(d)'
      BY <1>2, <3>1, <3>2, Zenon
    <3>4. QED
      BY <3>2, <3>3, Zenon DEF Configured
  <2>3. pc'[q] \in Served \/ got'[q] = "whole" => Indexed(ref[q])'
    <3>1. PICK r \in Refs : r = ref[q]
      BY <2>1, Zenon
    <3>2. CASE q = p
      BY <1>1, <3>1, <3>2 DEF Indexed
    <3>3. CASE q # p
      <4>1. pc'[q] = pc[q] /\ got'[q] = got[q] /\ ref'[q] = r
        BY <3>1, <3>3, Zenon DEF Same
      <4>2. pc[q] \in Served \/ got[q] = "whole" => Indexed(r)'
        BY <1>1, <2>1, <3>1, Zenon DEF FastAt
      <4>3. QED
        BY <4>1, <4>2, Zenon DEF Indexed
    <3>4. QED
      BY <3>2, <3>3, Zenon
  <2>4. QED
    BY <2>2, <2>3, Zenon DEF FastAt
<1>5. QED
  BY <1>3, <1>4, Zenon DEF FastInv

LEMMA PullFast ==
  ASSUME TypeOK, WholeInv, FastInv, NEW p \in Pullers,
         (\E r \in Refs : Begin(p, r)) \/ Pull(p) \/ Kill(p)
  PROVE  FastInv'
<1>s. \A q \in Pullers \ {p} : Same(q)
  BY PullTypes, Zenon
<1>0. /\ removed' = removed /\ faults \in Nat /\ faults' \in {faults, faults + 1}
      /\ refs \in [Refs -> Digests \cup {NoDigest}] /\ ref[p] \in Refs /\ pc[p] \in PCs
      /\ pc \in [Pullers -> PCs] /\ dig \in [Pullers -> Digests \cup {NoDigest}]
      /\ ref \in [Pullers -> Refs] /\ got \in [Pullers -> Results]
  BY PullTypes, Zenon DEF TypeOK
<1> SUFFICES ASSUME ~removed, faults = 0, faults' = 0 PROVE FastInv'
  BY <1>0 DEF FastInv
<1>1. ~Fault
  BY DEF Fault
<1>2. /\ WholeAt(p) /\ FastAt(p)
      /\ pc[p] \in Settled => dir[dig[p]] = "whole"
      /\ pc[p] \notin {"idle", "getRef", "fetch"} => dig[p] # NoDigest
  BY CacheAssumption, Zenon DEF WholeInv, WholeAt, FastInv, TypeOK
<1>3. ASSUME UNCHANGED <<refs, configs, ref>>, pc[p] \notin Writing,
             pc[p] \in Owing => pc'[p] \in Owing /\ dig'[p] = dig[p],
             pc'[p] \notin {"upgrade", "upgradeWrite"},
             pc'[p] \in Served => pc[p] \in Served,
             got'[p] = "whole" => got[p] = "whole" \/ pc[p] \in Served
      PROVE  FastInv'
  <2>1. KeepsRefs(p)
    BY <1>3, Zenon DEF KeepsRefs
  <2>2. KeepsConfigs(p)
    BY <1>3, Zenon DEF KeepsConfigs
  <2>3. KeepsServing(p)
    BY <1>2, <1>3, Zenon DEF KeepsServing, FastAt
  <2>4. QED
    BY <1>s, <2>1, <2>2, <2>3, FastElsewhere, Zenon
<1> USE DEF At, Goto, Writing, Owing, Served
<1>4. CASE \E r \in Refs : Begin(p, r)
  <2>1. /\ UNCHANGED <<refs, configs>> /\ pc[p] = "idle" /\ pc'[p] = "getRef"
        /\ got'[p] = "nothing"
    BY <1>0, <1>4, Zenon DEF Begin, disk
  <2>2. QED
    <3>1. KeepsRefs(p)
      BY <2>1, Zenon DEF KeepsRefs
    <3>2. KeepsConfigs(p)
      BY <2>1, Zenon DEF KeepsConfigs
    <3>3. KeepsServing(p)
      BY <2>1, Zenon DEF KeepsServing
    <3>4. QED
      BY <1>s, <3>1, <3>2, <3>3, FastElsewhere, Zenon
<1>5. CASE GetRef(p)
  <2>1. CASE refs[ref[p]] = NoDigest
    BY <1>0, <1>3, <1>5, <2>1, Zenon DEF GetRef, disk
  <2>2. CASE refs[ref[p]] # NoDigest
    <3>1. /\ UNCHANGED <<refs, configs, ref>> /\ pc[p] = "getRef" /\ pc'[p] = "upgrade"
          /\ dig'[p] = refs[ref[p]]
      BY <1>0, <1>5, <2>2, Zenon DEF GetRef, disk
    <3>2. Configured(dig'[p]) /\ Indexed(ref[p])
      BY <1>0, <2>2, <3>1, Zenon DEF FastInv, Indexed
    <3>3. QED
      <4>1. KeepsRefs(p)
        BY <3>1, <3>2, ZenonT(30) DEF KeepsRefs
      <4>2. KeepsConfigs(p)
        BY <3>1, <3>2, Zenon DEF KeepsConfigs
      <4>3. KeepsServing(p)
        BY <3>1, <3>2, Zenon DEF KeepsServing
      <4>4. QED
        BY <1>s, <4>1, <4>2, <4>3, FastElsewhere, Zenon
  <2>3. QED
    BY <2>1, <2>2, Zenon
<1>6. ASSUME NEW from \in {"upgrade", "storeRef"},
             NEW next \in {"upgradeWrite", "storeRefWrite"},
             NEW after \in {"lookup", "putConfig"}, TruncateRef(p, from, next, after),
             from = "upgrade" <=> next = "upgradeWrite"
      PROVE  FastInv'
  <2>1. /\ refs' = [refs EXCEPT ![ref[p]] = NoDigest]
        /\ UNCHANGED <<configs, ref, dig>> /\ pc[p] = from /\ pc'[p] = next
    BY <1>0, <1>1, <1>6, Zenon DEF TruncateRef
  <2>2. pc'[p] \in {"upgrade", "upgradeWrite"} => Configured(dig'[p])
    BY <1>2, <1>6, <2>1, ZenonT(30) DEF FastAt
  <2>3. \A r \in Refs : refs'[r] = refs[r] \/ (refs'[r] = NoDigest /\ ref'[p] = r)
    BY <1>0, <2>1, Zenon
  <2>4. QED
    <3>1. KeepsRefs(p)
      BY <1>6, <2>1, <2>2, <2>3, Zenon DEF KeepsRefs
    <3>2. KeepsConfigs(p)
      BY <1>6, <2>1, <2>2, <2>3, Zenon DEF KeepsConfigs
    <3>3. KeepsServing(p)
      BY <1>6, <2>1, <2>2, <2>3, ZenonT(30) DEF KeepsServing
    <3>4. QED
      BY <1>s, <3>1, <3>2, <3>3, FastElsewhere, Zenon
<1>7. ASSUME NEW from \in {"upgradeWrite", "storeRefWrite"},
             NEW next \in {"lookup", "putConfig"}, WriteRef(p, from, next),
             from = "upgradeWrite" <=> next = "lookup"
      PROVE  FastInv'
  <2>1. /\ refs' = [refs EXCEPT ![ref[p]] = dig[p]]
        /\ UNCHANGED <<configs, ref, dig>> /\ pc[p] = from /\ pc'[p] = next
    BY <1>0, <1>1, <1>7, Zenon DEF WriteRef
  <2>2. refs'[ref[p]] = dig[p] /\ dig[p] # NoDigest
    BY <1>0, <1>2, <1>7, <2>1, Zenon
  <2>3. Configured(dig[p]) \/ (dig'[p] = dig[p] /\ pc'[p] \in Owing)
    BY <1>2, <1>7, <2>1, Zenon DEF FastAt
  <2>4. \A r \in Refs : refs'[r] = refs[r] \/ refs'[r] = dig[p]
    BY <1>0, <2>1, Zenon
  <2>5. QED
    <3>1. KeepsRefs(p)
      BY <1>7, <2>1, <2>2, <2>3, <2>4, Zenon DEF KeepsRefs
    <3>2. KeepsConfigs(p)
      BY <1>7, <2>1, <2>2, <2>3, <2>4, Zenon DEF KeepsConfigs
    <3>3. KeepsServing(p)
      BY <1>7, <2>1, <2>2, <2>3, <2>4, ZenonT(30) DEF KeepsServing
    <3>4. QED
      BY <1>s, <3>1, <3>2, <3>3, FastElsewhere, Zenon
<1>8. CASE Lookup(p)
  BY <1>0, <1>3, <1>8, Zenon DEF Lookup
<1>9. CASE GetConfig(p)
  BY <1>0, <1>3, <1>9, Zenon DEF GetConfig, Return, disk
<1>10. CASE Fetch(p) \/ Get(p) \/ Flat(p)
  BY <1>0, <1>1, <1>3, <1>10, ZenonT(30) DEF Fetch, Get, Flat, ReturnError, disk
<1>11. CASE \E l \in Layers : \/ HasLayer(p, l) \/ ExtractLayer(p, l) \/ StatLayer(p, l)
                              \/ RenameLayer(p, l)
  BY <1>0, <1>1, <1>3, <1>11, Zenon
  DEF HasLayer, ExtractLayer, StatLayer, RenameLayer, disk
<1>12. CASE \E l \in Layers : GetLayer(p, l) \/ CopyLayer(p, l)
  BY <1>0, <1>1, <1>3, <1>12, Zenon DEF GetLayer, CopyLayer, disk
<1>13. CASE WaitLayers(p) \/ Applied(p) \/ Clear(p)
  BY <1>0, <1>3, <1>13, ZenonT(30) DEF WaitLayers, Applied, Clear, disk
<1>14. CASE Put(p) \/ Retry(p)
  <2>1. PICK failed \in {"clear", "winner"} : \E ok \in Renames(dig[p]) : Install(p, ok, failed)
    BY <1>14, Zenon DEF Put, Retry
  <2>2. pc[p] \in {"put", "retry"}
    BY <1>14, Zenon DEF Put, Retry
  <2>3. /\ UNCHANGED <<refs, ref, dig, got>> /\ pc'[p] \in {"reget", failed}
        /\ configs' = configs \/ (configs' = configs \ {dig[p]} /\ pc'[p] = "reget")
    BY <1>0, <2>1, Zenon DEF Install
  <2>4. QED
    <3>1. KeepsRefs(p)
      BY <2>2, <2>3, Zenon DEF KeepsRefs
    <3>2. KeepsConfigs(p)
      BY <2>2, <2>3, Zenon DEF KeepsConfigs
    <3>3. KeepsServing(p)
      BY <1>2, <2>2, <2>3, Zenon DEF KeepsServing, FastAt
    <3>4. QED
      BY <1>s, <3>1, <3>2, <3>3, FastElsewhere, Zenon
<1>15. CASE Winner(p)
  BY <1>0, <1>3, <1>15, Zenon DEF Winner, Return, disk
<1>16. CASE ReGet(p)
  BY <1>0, <1>3, <1>16, Zenon DEF ReGet
<1>17. CASE PutConfig(p)
  <2>1. /\ UNCHANGED <<refs, ref, dig, got>> /\ configs' = configs \ {dig[p]}
        /\ pc[p] = "putConfig" /\ pc'[p] = "putConfigWrite"
    BY <1>0, <1>1, <1>2, <1>17, Zenon DEF PutConfig, Present, Settled
  <2>2. QED
    <3>1. KeepsRefs(p)
      BY <2>1, Zenon DEF KeepsRefs
    <3>2. KeepsConfigs(p)
      BY <2>1, Zenon DEF KeepsConfigs
    <3>3. KeepsServing(p)
      BY <1>2, <2>1, Zenon DEF KeepsServing, FastAt
    <3>4. QED
      BY <1>s, <3>1, <3>2, <3>3, FastElsewhere, Zenon
<1>18. CASE PutConfigWrite(p)
  <2>1. /\ UNCHANGED <<refs, ref, dig, got>> /\ configs' = configs \cup {dig[p]}
        /\ pc[p] = "putConfigWrite" /\ pc'[p] = "return"
    BY <1>0, <1>1, <1>2, <1>18, Zenon DEF PutConfigWrite, Settled
  <2>2. QED
    <3>1. KeepsRefs(p)
      BY <2>1, ZenonT(30) DEF KeepsRefs
    <3>2. KeepsConfigs(p)
      BY <2>1, Zenon DEF KeepsConfigs
    <3>3. KeepsServing(p)
      BY <1>2, <2>1, Zenon DEF KeepsServing, FastAt
    <3>4. QED
      BY <1>s, <3>1, <3>2, <3>3, FastElsewhere, Zenon
<1>19. CASE Done(p)
  BY <1>0, <1>3, <1>19, ZenonT(30) DEF Done, Return, disk
<1>20. CASE UpgradeRef(p) \/ StoreRef(p)
  BY <1>6, <1>20, Zenon DEF UpgradeRef, StoreRef
<1>21. CASE UpgradeRefWrite(p) \/ StoreRefWrite(p)
  BY <1>7, <1>21, Zenon DEF UpgradeRefWrite, StoreRefWrite
<1>22. QED
  BY <1>1, <1>4, <1>5, <1>8, <1>9, <1>10, <1>11, <1>12, <1>13, <1>14, <1>15, <1>16, <1>17,
     <1>18, <1>19, <1>20, <1>21, Zenon, ZenonT(30)
  DEF Pull, Kill, ReturnError

LEMMA StepFast == TypeOK /\ WholeInv /\ FastInv /\ [Next]_vars => FastInv'
<1> SUFFICES ASSUME TypeOK, WholeInv, FastInv, [Next]_vars PROVE FastInv'
  BY Zenon
<1>1. ASSUME NEW p \in Pullers, (\E r \in Refs : Begin(p, r)) \/ Pull(p) \/ Kill(p)
      PROVE  FastInv'
  BY <1>1, PullFast, Zenon
<1>2. CASE Collect \/ (\E x \in Dirs : RemoveFails(x)) \/ KillCollector \/ Age \/ UNCHANGED vars
  BY <1>2, CollectorTypes, SMTT(30) DEF FastInv, FastAt, Indexed, Configured
<1>3. QED
  BY <1>1, <1>2, Zenon DEF Next

-----------------------------------------------------------------------------
(* What a GC removes.                                                      *)

\* What a step of pull p may change outside of p.
Touches(p) ==
  /\ ref'[p] = ref[p]
  /\ \A r \in Refs \ {ref[p]} : refs'[r] = refs[r]
  /\ refs'[ref[p]] \in {refs[ref[p]], NoDigest, dig[p]}
  /\ dig'[p] \in {dig[p], NoDigest, refs[ref[p]]} \cup Tags[ref[p]]
  /\ pc'[p] = "idle" => dig'[p] = NoDigest
  /\ \A d \in Digests : d # dig[p] => dir'[d] = dir[d]

LEMMA ReturnTouches ==
  ASSUME TypeOK, NEW p \in Pullers, NEW result, Return(p, result), UNCHANGED <<dir, refs>>
  PROVE  Touches(p)
BY ZenonT(30) DEF Return, TypeOK, Touches

LEMMA GotoTouches ==
  ASSUME TypeOK, NEW p \in Pullers, NEW to \in PCs \ {"idle"}, Goto(p, to),
         UNCHANGED <<dir, refs, ref, dig>>
  PROVE  Touches(p)
BY ZenonT(30) DEF Goto, TypeOK, Touches

LEMMA PullTouches ==
  ASSUME TypeOK, NEW p \in Pullers, Pull(p) \/ Kill(p)
  PROVE  Touches(p) /\ pc[p] # "idle" /\ UNCHANGED collector
<1>a. pc[p] # "idle" /\ UNCHANGED collector
  <2>1. pc[p] # "idle"
    BY ZenonT(30)
    DEF Pull, Kill, At, GetRef, UpgradeRef, UpgradeRefWrite, TruncateRef, WriteRef, Lookup,
        GetConfig, Fetch, Get, HasLayer, ExtractLayer, StatLayer, RenameLayer, GetLayer,
        CopyLayer, WaitLayers, Applied, Flat, Put, Clear, Retry, Winner, ReGet, StoreRef,
        StoreRefWrite, PutConfig, PutConfigWrite, Done
  <2>2. UNCHANGED collector
    BY ZenonT(30)
    DEF Pull, Kill, GetRef, UpgradeRef, UpgradeRefWrite, TruncateRef, WriteRef, Lookup,
        GetConfig, Fetch, Get, HasLayer, ExtractLayer, StatLayer, RenameLayer, GetLayer,
        CopyLayer, WaitLayers, Applied, Flat, Put, Clear, Retry, Winner, ReGet, StoreRef,
        StoreRefWrite, PutConfig, PutConfigWrite, Done, Install, Others
  <2>3. QED
    BY <2>1, <2>2, Zenon
<1> SUFFICES Touches(p)
  BY <1>a, Zenon
<1> USE DEF At, TypeOK, PCs
<1>0. CASE ReturnError(p)
  BY <1>0, ReturnTouches, Zenon DEF ReturnError, disk
<1>2. CASE GetRef(p)
  BY <1>2 DEF GetRef, Goto, disk, Touches
<1>3. ASSUME NEW from \in {"upgrade", "storeRef"},
             NEW next \in {"upgradeWrite", "storeRefWrite"},
             NEW after \in {"lookup", "putConfig"}, TruncateRef(p, from, next, after)
      PROVE  Touches(p)
  BY <1>3 DEF TruncateRef, Goto, Touches
<1>4. ASSUME NEW from \in {"upgradeWrite", "storeRefWrite"},
             NEW next \in {"lookup", "putConfig"}, WriteRef(p, from, next)
      PROVE  Touches(p)
  BY <1>4 DEF WriteRef, Goto, Touches
<1>5. CASE Lookup(p)
  BY <1>5, GotoTouches, Zenon DEF Lookup
<1>6. CASE GetConfig(p)
  BY <1>6, GotoTouches, ReturnTouches, Zenon DEF GetConfig, disk
<1>7. CASE Fetch(p)
  <2>1. CASE ~ReturnError(p)
    <3>1. PICK d \in Tags[ref[p]] : dig' = [dig EXCEPT ![p] = d] /\ Goto(p, "get")
                                   /\ UNCHANGED <<disk, ref>>
      BY <1>7, <2>1, Zenon DEF Fetch
    <3>2. QED
      BY <3>1 DEF Goto, disk, Touches
  <2>2. QED
    BY <1>0, <2>1, Zenon
<1>8. CASE Get(p)
  BY <1>0, <1>8, GotoTouches, Zenon DEF Get, disk
<1>9. CASE \E l \in Layers : \/ HasLayer(p, l) \/ ExtractLayer(p, l) \/ StatLayer(p, l)
                           \/ GetLayer(p, l) \/ CopyLayer(p, l)
  BY <1>9, <1>a DEF HasLayer, ExtractLayer, StatLayer, GetLayer, CopyLayer, Goto, disk, Touches
<1>10. ASSUME NEW l \in Layers, RenameLayer(p, l) PROVE Touches(p)
  <2>1. \A d \in Digests : d # l /\ d \in Dirs
    BY CacheAssumption, Zenon DEF Dirs
  <2>2. \A d \in Digests : dir'[d] = dir[d]
    BY <1>10, <2>1 DEF RenameLayer
  <2>3. QED
    BY <1>10, <1>a, <2>2, Zenon DEF RenameLayer, Touches
<1>13. CASE WaitLayers(p) \/ Applied(p) \/ Winner(p) \/ ReGet(p) \/ PutConfigWrite(p)
  BY <1>13, GotoTouches, ReturnTouches, ZenonT(30)
  DEF WaitLayers, Applied, Winner, ReGet, PutConfigWrite, disk
<1>15. CASE Flat(p)
  BY <1>0, <1>15, GotoTouches, Zenon DEF Flat, disk
<1>16. ASSUME NEW ok, NEW failed \in {"clear", "winner"}, Install(p, ok, failed)
       PROVE  Touches(p)
  BY <1>16 DEF Install, Goto, Touches, Dirs
<1>17. CASE Put(p) \/ Retry(p)
  BY <1>16, <1>17, Zenon DEF Put, Retry
<1>18. CASE Clear(p)
  BY <1>18 DEF Clear, Goto, Touches, Dirs
<1>21. CASE PutConfig(p)
  BY <1>21 DEF PutConfig, Goto, Touches, Dirs
<1>23. CASE Done(p)
  BY <1>23, ReturnTouches, Zenon DEF Done, disk
<1>25. QED
  BY <1>0, <1>2, <1>3, <1>4, <1>5, <1>6, <1>7, <1>8, <1>9, <1>10, <1>13, <1>15, <1>17,
     <1>18, <1>21, <1>23, ZenonT(30)
  DEF Pull, Kill, UpgradeRef, UpgradeRefWrite, StoreRef, StoreRefWrite

LEMMA StepTags == TypeOK /\ TagInv /\ [Next]_vars => TagInv'
<1> SUFFICES ASSUME TypeOK, TagInv, [Next]_vars PROVE TagInv'
  BY Zenon
<1>1. ASSUME NEW p \in Pullers, NEW r \in Refs, Begin(p, r) PROVE TagInv'
  BY <1>1, Zenon DEF Begin, At, Goto, disk, TypeOK, TagInv
<1>2. ASSUME NEW p \in Pullers, Pull(p) \/ Kill(p) PROVE TagInv'
  <2>1. Touches(p) /\ \A q \in Pullers \ {p} : Same(q)
    BY <1>2, PullTouches, PullTypes, Zenon
  <2>2. ref[p] \in Refs
    BY Zenon DEF TypeOK
  <2>3. QED
    BY <2>1, <2>2 DEF TagInv, Touches, Same
<1>3. ASSUME NEW x, EvictOne(x) PROVE TagInv'
  <2>1. UNCHANGED <<pc, ref, dig>> /\ \A r \in Refs : refs'[r] \in {refs[r], NoDigest}
    BY <1>3, ZenonT(30) DEF EvictOne, mine, TypeOK
  <2>2. QED
    BY <2>1, Zenon DEF TagInv
<1>4. CASE UNCHANGED <<refs, pc, ref, dig>>
  BY <1>4, Zenon DEF TagInv
<1>5. QED
  BY <1>1, <1>2, <1>3, <1>4, ZenonT(30)
  DEF Next, Collect, GC, Evict, CollectBegin, LiveDigests, Sweep, EvictLayers, Unlink, Rmdir,
      RemoveFails, CollectEnd, KillCollector, Age, vars, disk, mine

LEMMA StepGC == TypeOK /\ TagInv /\ GCInv /\ [Next]_vars => GCInv'
<1> SUFFICES ASSUME TypeOK, TagInv, GCInv, [Next]_vars PROVE GCInv'
  BY Zenon
<1> USE DEF GCInv, Present
<1>a. dir \in [Dirs -> DirStates] /\ \A d : Apart(d) => d \in Digests /\ d \in Dirs
  BY Zenon DEF TypeOK, Dirs, Apart
<1>1. ASSUME NEW p \in Pullers, NEW r \in Refs, Begin(p, r) PROVE GCInv'
  <2>1. /\ UNCHANGED <<dir, refs, cpc, unread, live, listed, doomed, emptied, skipped, kept>>
        /\ overlap' = IF cpc \in {"refs", "remove"} THEN overlap \cup {r} ELSE overlap
        /\ ref'[p] = r /\ \A q \in Pullers \ {p} : ref'[q] = ref[q] /\ pc'[q] = pc[q]
    BY <1>1, Zenon DEF Begin, Goto, disk, TypeOK
  <2>2. overlap \subseteq overlap' /\ overlap' \subseteq Refs
    BY <2>1, Zenon
  <2>3. \A d : Apart(d)' => Apart(d)
    BY <2>2, Zenon DEF Apart
  <2>4. (cpc = "refs" => Reading') /\ (cpc = "remove" => Removing')
    BY <2>1, <2>2, <2>3, ZenonT(30) DEF Reading, Removing, Named
  <2>5. cpc \in {"refs", "remove"} => \A q \in Pullers : pc'[q] # "idle" => ref'[q] \in overlap'
    BY <2>1, <2>2, Zenon
  <2>6. QED
    BY <2>1, <2>2, <2>4, <2>5, Zenon
<1>2. ASSUME NEW p \in Pullers, Pull(p) \/ Kill(p) PROVE GCInv'
  <2>1. Touches(p) /\ pc[p] # "idle" /\ UNCHANGED collector /\ \A q \in Pullers \ {p} : Same(q)
    BY <1>2, PullTouches, PullTypes, Zenon
  <2>2. UNCHANGED <<cpc, unread, live, listed, doomed, emptied, overlap, skipped, kept>>
    BY <2>1, Zenon DEF collector, during
  <2>3. /\ cpc \in {"refs", "remove"} => ref[p] \in overlap
        /\ cpc \in {"refs", "remove"} => \A q \in Pullers : pc'[q] # "idle" => ref'[q] \in overlap
    BY <2>1, Zenon DEF Touches, Same
  <2>4. ASSUME cpc \in {"refs", "remove"}, NEW d, Apart(d)
        PROVE  dir'[d] = dir[d] /\ (Named(d) => Named(d)')
    <3>1. d \in Digests /\ d # NoDigest /\ d \notin Tags[ref[p]]
      BY <2>3, <2>4, CacheAssumption, Zenon DEF Apart
    <3>2. d # dig[p]
      BY <3>1, Zenon DEF TagInv
    <3>3. ref[p] \in Refs /\ refs[ref[p]] # d
      BY <3>1, Zenon DEF TagInv, TypeOK
    <3>4. QED
      BY <2>1, <3>1, <3>2, <3>3, Zenon DEF Touches, Named
  <2>5. cpc \in {"refs", "remove"} => \A r \in Refs \ overlap : refs'[r] = refs[r]
    BY <2>1, <2>3, Zenon DEF Touches
  <2>6. \A d : Apart(d)' = Apart(d)
    BY <2>2, Zenon DEF Apart
  <2>7. cpc = "refs" => Reading'
    BY <2>2, <2>4, <2>5, <2>6, ZenonT(30) DEF Reading
  <2>8. cpc = "remove" => Removing'
    BY <2>2, <2>4, <2>5, <2>6, ZenonT(30) DEF Removing
  <2>9. QED
    BY <2>2, <2>3, <2>7, <2>8, Zenon
<1>3. CASE GC
  <2>1. /\ cpc' = "refs" /\ unread' = Refs /\ live' = {}
        /\ listed' = PresentIn(Digests)
        /\ doomed' = {} /\ emptied' = {} /\ UNCHANGED <<dir, refs, pc, ref>>
        /\ overlap' = {ref[p] : p \in {q \in Pullers : ~At(q, "idle")}}
    BY <1>3, ZenonT(30) DEF GC, CollectBegin, disk, mine
  <2>2. overlap' \subseteq Refs /\ \A p \in Pullers : pc'[p] # "idle" => ref'[p] \in overlap'
    BY <2>1 DEF At, TypeOK
  <2>3. Reading'
    BY <2>1, Zenon DEF Reading, PresentIn, Apart
  <2>4. QED
    BY <2>1, <2>2, <2>3, Zenon
<1>4. ASSUME NEW r \in Refs, LiveDigests(r) PROVE GCInv'
  <2>1. /\ cpc = "refs" /\ unread' = unread \ {r}
        /\ \/ live' = live \cup ({refs[r]} \ {NoDigest}) /\ UNCHANGED skipped
           \/ skipped' = skipped \cup {r} /\ UNCHANGED live
        /\ UNCHANGED <<dir, refs, pc, ref, cpc, listed, doomed, emptied, overlap>>
    BY <1>4, Zenon DEF LiveDigests, disk, mine
  <2>2. \A d : Apart(d)' = Apart(d) /\ Named(d)' = Named(d)
    BY <2>1, Zenon DEF Apart, Named
  <2>3. Reading'
    BY <2>1, <2>2, ZenonT(30) DEF Reading, Named
  <2>4. QED
    BY <2>1, <2>3, Zenon
<1>5. CASE Sweep
  <2>1. CASE cpc' = "idle" /\ doomed' = {} /\ UNCHANGED emptied
    <3>1. overlap' \subseteq Refs
      BY <1>5, <2>1, Zenon DEF Sweep, Forget, during
    <3>2. QED
      BY <2>1, <3>1, <1>5 DEF Sweep
  <2>2. CASE cpc' # "idle"
    <3>1. /\ cpc = "refs" /\ unread = {} /\ doomed' = listed \ live /\ cpc' = "remove"
          /\ UNCHANGED <<dir, refs, pc, ref, emptied, overlap, skipped, kept>>
      BY <1>5, <2>2, Zenon DEF Sweep, disk, mine, during
    <3>2. \A d : Apart(d)' = Apart(d) /\ Named(d)' = Named(d)
      BY <3>1, Zenon DEF Apart, Named
    <3>3. Removing'
      BY <3>1, <3>2, ZenonT(30) DEF Reading, Removing
    <3>4. QED
      BY <3>1, <3>3, Zenon
  <2>3. QED
    BY <1>5, <2>1, <2>2, Zenon DEF Sweep
<1>6. CASE Evict
  <2>1. cpc' = "scan" /\ UNCHANGED overlap
    BY <1>6, Zenon DEF Evict, CollectBegin, during
  <2>2. QED
    BY <2>1, Zenon
<1>7. CASE EvictLayers \/ \E x : EvictOne(x)
  <2>1. cpc' \in {"scan", "layers"} /\ UNCHANGED overlap
    BY <1>7, Zenon DEF EvictLayers, EvictOne, during
  <2>2. QED
    BY <2>1, Zenon
<1>8. ASSUME NEW x \in Dirs, Unlink(x) \/ Rmdir(x) \/ RemoveFails(x) PROVE GCInv'
  <2>1. x \in doomed \cup emptied /\ UNCHANGED <<refs, pc, ref, cpc, overlap, skipped>>
    BY <1>8, Zenon DEF Unlink, Rmdir, RemoveFails, disk, mine, during
  <2>2. cpc \notin {"idle", "refs"}
    BY <2>1, Zenon
  <2>3. \A d : Apart(d)' = Apart(d) /\ Named(d)' = Named(d)
    BY <2>1, Zenon DEF Apart, Named
  <2>4. doomed' \cup emptied' \subseteq doomed \cup emptied
    BY <1>8, Zenon DEF Unlink, Rmdir, RemoveFails
  <2>5. ASSUME cpc = "remove"
        PROVE  /\ \A d \in emptied' : Apart(d) => dir'[d] = "empty"
               /\ \A d : Apart(d) /\ dir'[d] # "none" =>
                        Named(d) \/ d \in doomed' \cup emptied' \cup kept'
    <3>1. CASE Unlink(x)
      <4>1. CASE dir' = [dir EXCEPT ![x] = "part"] /\ UNCHANGED <<doomed, emptied, kept>>
        BY <1>a, <2>5, <3>1, <4>1 DEF Unlink, Removing, during
      <4>2. CASE /\ dir' = [dir EXCEPT ![x] = "empty"] /\ UNCHANGED kept
                 /\ doomed' = doomed \ {x} /\ emptied' = emptied \cup {x}
        BY <1>a, <2>5, <3>1, <4>2 DEF Unlink, Removing
      <4>3. QED
        BY <3>1, <4>1, <4>2, ZenonT(30) DEF Unlink, during
    <3>2. CASE Rmdir(x)
      BY <1>a, <2>5, <3>2 DEF Rmdir, Removing, during
    <3>3. CASE RemoveFails(x)
      BY <1>a, <2>5, <3>3 DEF RemoveFails, Removing, disk
    <3>4. QED
      BY <1>8, <3>1, <3>2, <3>3, Zenon
  <2>6. cpc = "remove" => Removing'
    BY <2>1, <2>3, <2>4, <2>5, ZenonT(30) DEF Removing
  <2>7. QED
    BY <2>1, <2>2, <2>6, Zenon
<1>11. CASE CollectEnd \/ KillCollector
  BY <1>11, ZenonT(30) DEF CollectEnd, KillCollector, Forget
<1>12. CASE Age \/ UNCHANGED vars
  <2>1. UNCHANGED <<dir, refs, mine, collector>>
    BY <1>12, Zenon DEF Age, vars, disk
  <2>2. QED
    BY <2>1, Zenon DEF mine, collector, during, Reading, Removing, Apart, Named
<1>14. QED
  BY <1>1, <1>2, <1>3, <1>4, <1>5, <1>6, <1>7, <1>8, <1>11, <1>12, ZenonT(30)
  DEF Next, Collect
-----------------------------------------------------------------------------
(* The results.                                                            *)

CacheInv == TypeOK /\ WholeInv /\ FastInv /\ TagInv /\ GCInv

\* The inductive invariant of pulls and collections.
THEOREM Invariance == Spec => []CacheInv
<1>1. Init => CacheInv
  <2> SUFFICES ASSUME Init PROVE WholeInv /\ FastInv /\ TagInv /\ GCInv
    BY InitTypes, Zenon DEF CacheInv
  <2>1. WholeInv
    BY Zenon DEF Init, WholeInv, WholeAt, Filling, Settled
  <2>2. FastInv
    BY Zenon DEF Init, FastInv, FastAt, Served
  <2>3. TagInv /\ GCInv
    BY ZenonT(30) DEF Init, TagInv, GCInv
  <2>4. QED
    BY <2>1, <2>2, <2>3, Zenon
<1>2. CacheInv /\ [Next]_vars => CacheInv'
  BY StepTypes, StepWhole, StepFast, StepTags, StepGC, Zenon DEF CacheInv
<1>3. QED
  BY <1>1, <1>2, PTL DEF Spec

\* Until something is removed the cache holds, and Pull returns, whole
\* directories only, wherever pulls race and are killed.
THEOREM InstalledWhole == Spec => []PullsInstallWhole
<1>1. CacheInv => PullsInstallWhole
  BY Zenon DEF CacheInv, WholeInv, WholeAt, PullsInstallWhole
<1>2. QED
  BY <1>1, Invariance, PTL

\* No pull fails because of another pull.
THEOREM NoCollision == Spec => []PullsDoNotCollide
<1>1. CacheInv => PullsDoNotCollide
  BY Zenon DEF CacheInv, WholeInv, WholeAt, PullsDoNotCollide
<1>2. QED
  BY <1>1, Invariance, PTL

\* Once all pulls are done the fast path serves what was pulled: no truncated
\* file has a writer left, so none is truncated.
THEOREM FastPathServes == Spec => []FastPathAfterPulls
<1>1. CacheInv => FastPathAfterPulls
  <2> SUFFICES ASSUME CacheInv, ~Pulling, faults = 0, ~removed, NEW p \in Pullers,
                      got[p] = "whole"
               PROVE  /\ refs[ref[p]] # NoDigest
                      /\ dir[refs[ref[p]]] = "whole"
                      /\ refs[ref[p]] \in configs
    BY Zenon DEF FastPathAfterPulls
  <2>1. \A q \in Pullers : pc[q] = "idle"
    BY Zenon DEF Pulling, At
  <2>2. ref[p] \in Refs /\ Indexed(ref[p])
    BY Zenon DEF CacheInv, TypeOK, FastInv, FastAt
  <2>3. refs[ref[p]] # NoDigest
    BY <2>1, <2>2, Zenon DEF Indexed, Writing
  <2>4. dir[refs[ref[p]]] = "whole" /\ Configured(refs[ref[p]])
    BY <2>2, <2>3, ZenonT(30) DEF CacheInv, WholeInv, FastInv
  <2>5. QED
    BY <2>1, <2>3, <2>4, Zenon DEF Configured, Owing
<1>2. QED
  BY <1>1, Invariance, PTL

\* A GC removes exactly the entries no reference names, but for those of the
\* references that are being pulled or whose files it cannot read (cache.go GC,
\* liveDigests).
THEOREM CollectsExactly == Spec => []GCExact
<1>1. CacheInv => GCExact
  <2> SUFFICES ASSUME CacheInv, cpc = "remove"
               PROVE  /\ (doomed \cup emptied) \cap NamedBy(Refs \ (overlap \cup skipped)) = {}
                      /\ PresentIn(Digests) \ UNION {Tags[r] : r \in overlap}
                           \subseteq NamedBy(Refs) \cup doomed \cup emptied \cup kept
    BY Zenon DEF GCExact
  <2>1. Removing /\ NoDigest \notin Digests
    BY CacheAssumption, Zenon DEF CacheInv, GCInv
  <2>2. (doomed \cup emptied) \cap NamedBy(Refs \ (overlap \cup skipped)) = {}
    BY <2>1, ZenonT(30) DEF Removing, NamedBy
  <2>3. ASSUME NEW d \in PresentIn(Digests) \ UNION {Tags[r] : r \in overlap}
        PROVE  d \in NamedBy(Refs) \cup doomed \cup emptied \cup kept
    <3>1. Apart(d) /\ Present(d) /\ d # NoDigest
      BY <2>1, <2>3, Zenon DEF PresentIn, Apart
    <3>2. QED
      BY <2>1, <3>1, ZenonT(30) DEF Removing, Named, NamedBy
  <2>4. QED
    BY <2>2, <2>3, Zenon
<1>2. QED
  BY <1>1, Invariance, PTL
=============================================================================
