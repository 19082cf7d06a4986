----------------------------- MODULE ImageCache -----------------------------
(***************************************************************************)
(* Package image: PullWithFetcher, Cache and LayerCache on one directory   *)
(* that several processes share without a lock.  Pulls look up the ref     *)
(* index, extract layers in goroutines, and install directories by rename; *)
(* a collector runs GC and Evict.  Any of them may be killed at any step.  *)
(*                                                                         *)
(* A directory under the cache is absent, empty, partly there or whole.  A *)
(* file that was truncated and not yet written reads like a missing one    *)
(* (parseRefFile, getConfig), so both are "no digest" or "no config".      *)
(***************************************************************************)
EXTENDS Naturals, FiniteSets

CONSTANTS
  Pullers,
  Collections,  \* what the collector runs: gc, evict
  Refs, Digests, Layers,
  Tags,         \* the digests the registry may serve for a reference
  LayersOf,     \* the layers of a digest
  NoDigest,
  RefsDir, LayersDir,   \* the directories refs/ and layers/ of the cache
  MaxFaults,    \* bound on errors and kills
  MaxPulls,     \* bound on the pulls
  MaxCollects   \* bound on the runs of GC and Evict

ASSUME CacheAssumption ==
  /\ Refs # {}
  /\ NoDigest \notin Digests
  /\ Tags \in [Refs -> SUBSET Digests]
  /\ Digests \cap Layers = {}   \* entries and layers have directories of their own

VARIABLES
  dir,       \* per digest and layer: its directory in the cache: none, empty,
             \* part, whole
  configs,   \* the digests whose entry holds a readable .oci-config.json
  refs,      \* the ref index
  old,       \* what Evict would find older than maxAge
  pc, ref, dig, tmp, job,   \* per puller
  got,       \* what its last pull ended with: nothing yet, failed (an error from
             \* outside), error (of the cache itself) or the state of the directory
  cpc,       \* the collector: idle, refs (liveDigests), scan, layers or remove
  unread,    \* ref files it has not read yet
  live,      \* digests it found referenced
  listed,    \* names of its last ReadDir
  doomed,    \* what it is removing
  emptied,   \* what it has emptied and not removed yet
  overlap,   \* history: references some pull was at during this GC
  skipped,   \* history: references whose file it could not read
  kept,      \* history: what it failed to remove
  removed,   \* history: a collector has begun to remove something
  faults, pulls, collects

disk == <<dir, configs, refs, old>>
mine == <<pc, ref, dig, tmp, job, got>>
during == <<overlap, skipped, kept>>
collector == <<cpc, unread, live, listed, doomed, emptied, during>>
counts == <<removed, faults, pulls, collects>>
vars == <<disk, mine, collector, counts>>

Dirs == Digests \cup Layers
Present(x) == dir[x] # "none"

Init ==
  /\ dir = [x \in Dirs |-> "none"]
  /\ configs = {} /\ old = {}
  /\ refs = [r \in Refs |-> NoDigest]
  /\ pc = [p \in Pullers |-> "idle"]
  /\ ref = [p \in Pullers |-> CHOOSE r \in Refs : TRUE]
  /\ dig = [p \in Pullers |-> NoDigest]
  /\ tmp = [p \in Pullers |-> "none"]
  /\ job = [p \in Pullers |-> [l \in Layers |-> "none"]]
  /\ got = [p \in Pullers |-> "nothing"]
  /\ cpc = "idle"
  /\ unread = {} /\ live = {} /\ listed = {} /\ doomed = {} /\ emptied = {}
  /\ overlap = {} /\ skipped = {} /\ kept = {} /\ removed = FALSE
  /\ faults = 0 /\ pulls = 0 /\ collects = 0

-----------------------------------------------------------------------------
(* Steps of a pull.                                                        *)

At(p, label) == pc[p] = label
Goto(p, label) == pc' = [pc EXCEPT ![p] = label]
Fault == faults < MaxFaults /\ faults' = faults + 1
NoFault == UNCHANGED faults
Others == UNCHANGED <<collector, removed, pulls, collects>>

\* Pull returns; its temporary directory, if it still has one, is garbage.
Return(p, result) ==
  /\ got' = [got EXCEPT ![p] = result]
  /\ pc' = [pc EXCEPT ![p] = "idle"]
  /\ dig' = [dig EXCEPT ![p] = NoDigest]
  /\ tmp' = [tmp EXCEPT ![p] = "none"]
  /\ job' = [job EXCEPT ![p] = [l \in Layers |-> "none"]]
  /\ UNCHANGED ref

\* An error of the registry, the disk or the context, or a kill.
ReturnError(p) == Fault /\ Return(p, "failed") /\ UNCHANGED disk

Begin(p, r) ==
  /\ At(p, "idle") /\ pulls < MaxPulls
  /\ pulls' = pulls + 1
  /\ ref' = [ref EXCEPT ![p] = r]
  /\ got' = [got EXCEPT ![p] = "nothing"]
  /\ Goto(p, "getRef")
  /\ overlap' = IF cpc \in {"refs", "remove"} THEN overlap \cup {r} ELSE overlap
  /\ UNCHANGED <<disk, dig, tmp, job, cpc, unread, live, listed, doomed, emptied, skipped, kept>>
  /\ UNCHANGED <<removed, faults, collects>>

\* LookupRef, getRef.
GetRef(p) ==
  /\ At(p, "getRef")
  /\ IF refs[ref[p]] = NoDigest
     THEN Goto(p, "fetch") /\ UNCHANGED dig
     ELSE Goto(p, "upgrade") /\ dig' = [dig EXCEPT ![p] = refs[ref[p]]]
  /\ UNCHANGED <<disk, ref, tmp, job, got>> /\ NoFault /\ Others

\* putRef truncates the file, or creates it, which makes refs/ younger ...
TruncateRef(p, from, next, after) ==
  /\ At(p, from)
  /\ \/ /\ refs' = [refs EXCEPT ![ref[p]] = NoDigest]
        /\ old' \in IF refs[ref[p]] = NoDigest THEN {old, old \ {RefsDir}} ELSE {old}
        /\ Goto(p, next) /\ NoFault
     \/ Fault /\ Goto(p, after) /\ UNCHANGED <<refs, old>>
  /\ UNCHANGED <<dir, configs, ref, dig, tmp, job, got>> /\ Others

\* ... and then writes it.  Its errors are ignored.
WriteRef(p, from, next) ==
  /\ At(p, from)
  /\ \/ refs' = [refs EXCEPT ![ref[p]] = dig[p]] /\ NoFault
     \/ Fault /\ UNCHANGED refs
  /\ Goto(p, next)
  /\ UNCHANGED <<dir, configs, old, ref, dig, tmp, job, got>> /\ Others

\* LookupRef rewrites the file on every hit.
UpgradeRef(p) == TruncateRef(p, "upgrade", "upgradeWrite", "lookup")
UpgradeRefWrite(p) == WriteRef(p, "upgradeWrite", "lookup")

\* LookupRef, Get.
Lookup(p) ==
  /\ At(p, "lookup")
  /\ IF Present(dig[p]) THEN old' = old \ {dig[p]} /\ Goto(p, "getConfig")
                        ELSE UNCHANGED old /\ Goto(p, "fetch")
  /\ UNCHANGED <<dir, configs, refs, ref, dig, tmp, job, got>> /\ NoFault /\ Others

\* LookupRef, getConfig: the fast path returns without any fetch.
GetConfig(p) ==
  /\ At(p, "getConfig")
  /\ IF dig[p] \in configs THEN Return(p, dir[dig[p]])
                           ELSE Goto(p, "fetch") /\ UNCHANGED <<ref, dig, tmp, job, got>>
  /\ UNCHANGED disk /\ NoFault /\ Others

\* fetcher.Pull and img.Digest (external): some image of the reference.
Fetch(p) ==
  /\ At(p, "fetch")
  /\ \/ \E d \in Tags[ref[p]] :
          /\ dig' = [dig EXCEPT ![p] = d]
          /\ Goto(p, "get") /\ NoFault /\ UNCHANGED <<disk, ref, tmp, job, got>>
     \/ ReturnError(p)
  /\ Others

\* The digest may be cached under another reference.  extractOCIConfig and
\* TempDir may fail on either branch.
Get(p) ==
  /\ At(p, "get")
  /\ \/ /\ Present(dig[p])
        /\ old' = old \ {dig[p]}
        /\ Goto(p, "storeRef") /\ UNCHANGED <<tmp, job>>
        /\ NoFault /\ UNCHANGED <<dir, configs, refs, ref, dig, got>>
     \/ /\ ~Present(dig[p])
        /\ tmp' = [tmp EXCEPT ![p] = "whole"]
        /\ job' = [job EXCEPT ![p] = [l \in Layers |->
                     IF l \in LayersOf[dig[p]] THEN "has" ELSE "none"]]
        /\ Goto(p, "layers")
        /\ NoFault /\ UNCHANGED <<disk, ref, dig, got>>
     \/ ReturnError(p)
  /\ Others

\* extractImageLayered: a cached layer is not extracted again (Has) ...
HasLayer(p, l) ==
  /\ At(p, "layers") /\ job[p][l] = "has"
  /\ IF Present(l)
     THEN old' = old \ {l} /\ job' = [job EXCEPT ![p][l] = "ready"]
     ELSE UNCHANGED old /\ job' = [job EXCEPT ![p][l] = "extract"]
  /\ UNCHANGED <<dir, configs, refs, pc, ref, dig, tmp, got>> /\ NoFault /\ Others

\* ... the others are, each by a goroutine, into a directory under layers/.
\* An error cancels the goroutines that are still extracting.
ExtractLayer(p, l) ==
  /\ At(p, "layers") /\ job[p][l] = "extract"
  /\ old' = old \ {LayersDir}
  /\ \/ job' = [job EXCEPT ![p][l] = "stat"] /\ NoFault
     \/ job' = [job EXCEPT ![p][l] = "failed"] /\ Fault
     \/ /\ \E m \in Layers : job[p][m] = "failed"
        /\ job' = [job EXCEPT ![p][l] = "failed"] /\ NoFault
  /\ UNCHANGED <<dir, configs, refs, pc, ref, dig, tmp, got>> /\ Others

\* LayerCache.Put: a layer that is there is kept ...
StatLayer(p, l) ==
  /\ At(p, "layers") /\ job[p][l] = "stat"
  /\ job' = [job EXCEPT ![p][l] = IF Present(l) THEN "ready" ELSE "rename"]
  /\ UNCHANGED <<disk, pc, ref, dig, tmp, got>> /\ NoFault /\ Others

\* rename(2) onto a directory: never if it holds anything; an empty one is
\* replaced on Linux and refused on Darwin.
Renames(x) == CASE dir[x] = "none" -> {TRUE}
                [] dir[x] = "empty" -> BOOLEAN
                [] OTHER -> {FALSE}

\* ... and a rename that lost the race fails the extraction.
RenameLayer(p, l) ==
  /\ At(p, "layers") /\ job[p][l] = "rename"
  /\ \E ok \in Renames(l) :
       /\ dir' = IF ok THEN [dir EXCEPT ![l] = "whole"] ELSE dir
       /\ job' = [job EXCEPT ![p][l] = IF ok THEN "ready" ELSE "failed"]
       /\ old' = IF ok THEN old \ {l, LayersDir} ELSE old
  /\ UNCHANGED <<configs, refs, pc, ref, dig, tmp, got>> /\ NoFault /\ Others

\* Mutant: a failed extraction ends the layering without an error.
WaitLayersAny(p) ==
  /\ At(p, "layers")
  /\ \A l \in Layers : job[p][l] \in {"none", "ready", "failed"}
  /\ LET failed == \E l \in Layers : job[p][l] = "failed"
     IN  /\ Goto(p, IF failed THEN "put" ELSE "apply")
         /\ tmp' = [tmp EXCEPT ![p] = IF failed THEN "part" ELSE @]
  /\ UNCHANGED <<disk, ref, dig, job, got>> /\ NoFault /\ Others

\* g.Wait.
WaitLayers(p) ==
  /\ At(p, "layers")
  /\ \A l \in Layers : job[p][l] \in {"none", "ready", "failed"}
  /\ Goto(p, IF \E l \in Layers : job[p][l] = "failed" THEN "flat" ELSE "apply")
  /\ UNCHANGED <<disk, ref, dig, tmp, job, got>> /\ NoFault /\ Others

\* Get of the next layer to apply.
GetLayer(p, l) ==
  /\ At(p, "apply") /\ job[p][l] = "ready"
  /\ IF Present(l)
     THEN old' = old \ {l} /\ job' = [job EXCEPT ![p][l] = "copy"] /\ Goto(p, "copy")
     ELSE Goto(p, "flat") /\ UNCHANGED <<old, job>>
  /\ UNCHANGED <<dir, configs, refs, ref, dig, tmp, got>> /\ NoFault /\ Others

\* applyLayerToDir walks the layer: a walk that starts after some of it was
\* removed finds no fault with what is left, one that a removal overtakes may
\* fail; without the root of the layer it does fail.
CopyLayer(p, l) ==
  /\ At(p, "copy") /\ job[p][l] = "copy"
  /\ \/ /\ Present(l)
        /\ tmp' = [tmp EXCEPT ![p] = IF dir[l] = "whole" THEN @ ELSE "part"]
        /\ job' = [job EXCEPT ![p][l] = "applied"]
        /\ Goto(p, "apply") /\ NoFault
     \/ /\ dir[l] # "whole"
        /\ Goto(p, "flat") /\ NoFault /\ UNCHANGED <<tmp, job>>
     \/ Fault /\ Goto(p, "flat") /\ UNCHANGED <<tmp, job>>
  /\ UNCHANGED <<disk, ref, dig, got>> /\ Others

Applied(p) ==
  /\ At(p, "apply")
  /\ \A l \in Layers : job[p][l] \in {"none", "applied"}
  /\ Goto(p, "put")
  /\ UNCHANGED <<disk, ref, dig, tmp, job, got>> /\ NoFault /\ Others

\* The fallback: a new temporary directory, and extractImage into it.
Flat(p) ==
  /\ At(p, "flat")
  /\ \/ /\ tmp' = [tmp EXCEPT ![p] = "whole"]
        /\ job' = [job EXCEPT ![p] = [l \in Layers |-> "none"]]
        /\ Goto(p, "put") /\ NoFault /\ UNCHANGED <<disk, ref, dig, got>>
     \/ ReturnError(p)
  /\ Others

Install(p, ok, failed) ==
  /\ dir' = IF ok THEN [dir EXCEPT ![dig[p]] = tmp[p]] ELSE dir
  /\ tmp' = IF ok THEN [tmp EXCEPT ![p] = "none"] ELSE tmp
  /\ old' = IF ok THEN old \ {dig[p]} ELSE old
  /\ configs' = IF ok THEN configs \ {dig[p]} ELSE configs
  /\ Goto(p, IF ok THEN "reget" ELSE failed)
  /\ UNCHANGED <<refs, ref, dig, job, got>> /\ NoFault /\ Others

\* Mutant: an existing entry makes Put fail, as rename does.
PutStrict(p) ==
  /\ At(p, "put")
  /\ \E ok \in Renames(dig[p]) :
       IF ok THEN Install(p, TRUE, "clear")
             ELSE Return(p, "error") /\ UNCHANGED disk /\ NoFault /\ Others

\* Put: the rename comes first ...
Put(p) == At(p, "put") /\ \E ok \in Renames(dig[p]) : Install(p, ok, "clear")

\* ... then removeIfEmptyDir ...
Clear(p) ==
  /\ At(p, "clear")
  /\ IF dir[dig[p]] = "empty"
     THEN dir' = [dir EXCEPT ![dig[p]] = "none"] /\ Goto(p, "retry")
     ELSE UNCHANGED dir /\ Goto(p, "winner")
  /\ UNCHANGED <<configs, refs, old, ref, dig, tmp, job, got>> /\ NoFault /\ Others

\* ... and the rename once more ...
Retry(p) == At(p, "retry") /\ \E ok \in Renames(dig[p]) : Install(p, ok, "winner")

\* ... and then an existing directory is the winner's copy.
Winner(p) ==
  /\ At(p, "winner")
  /\ IF Present(dig[p])
     THEN tmp' = [tmp EXCEPT ![p] = "none"] /\ Goto(p, "reget") /\ UNCHANGED <<ref, dig, job, got>>
     ELSE Return(p, "error")
  /\ UNCHANGED disk /\ NoFault /\ Others

\* Mutant: the reference is recorded for cache hits only.
ReGetUnrecorded(p) ==
  /\ At(p, "reget")
  /\ Return(p, dir[dig[p]])
  /\ UNCHANGED disk /\ NoFault /\ Others

\* Get after Put; on a miss Pull goes on with the path it renamed away.
ReGet(p) ==
  /\ At(p, "reget")
  /\ IF Present(dig[p]) THEN old' = old \ {dig[p]} /\ UNCHANGED tmp
                        ELSE tmp' = [tmp EXCEPT ![p] = "lost"] /\ UNCHANGED old
  /\ Goto(p, "storeRef")
  /\ UNCHANGED <<dir, configs, refs, ref, dig, job, got>> /\ NoFault /\ Others

\* StoreRef: putRef ...
StoreRef(p) == TruncateRef(p, "storeRef", "storeRefWrite", "putConfig")
StoreRefWrite(p) == WriteRef(p, "storeRefWrite", "putConfig")

\* ... and putConfig, if the entry is still there.
PutConfig(p) ==
  /\ At(p, "putConfig")
  /\ \/ /\ Present(dig[p])
        /\ configs' = configs \ {dig[p]}
        /\ dir' = [dir EXCEPT ![dig[p]] = IF @ = "empty" THEN "part" ELSE @]
        /\ old' = old \ {dig[p]}
        /\ Goto(p, "putConfigWrite") /\ NoFault
     \/ ~Present(dig[p]) /\ Goto(p, "return") /\ NoFault /\ UNCHANGED <<dir, configs, old>>
     \/ Fault /\ Goto(p, "return") /\ UNCHANGED <<dir, configs, old>>
  /\ UNCHANGED <<refs, ref, dig, tmp, job, got>> /\ Others

\* What a removal took meanwhile is written to no avail.
PutConfigWrite(p) ==
  /\ At(p, "putConfigWrite")
  /\ \/ dir[dig[p]] \in {"part", "whole"} /\ configs' = configs \cup {dig[p]} /\ NoFault
     \/ dir[dig[p]] # "whole" /\ UNCHANGED configs /\ NoFault
     \/ UNCHANGED configs /\ Fault
  /\ Goto(p, "return")
  /\ UNCHANGED <<dir, refs, old, ref, dig, tmp, job, got>> /\ Others

Done(p) ==
  /\ At(p, "return")
  /\ Return(p, IF tmp[p] = "lost" THEN "none" ELSE dir[dig[p]])
  /\ UNCHANGED disk /\ NoFault /\ Others

\* The process is killed; its temporary directories stay.
Kill(p) ==
  /\ ~At(p, "idle")
  /\ ReturnError(p) /\ Others

Pull(p) ==
  \/ GetRef(p) \/ UpgradeRef(p) \/ UpgradeRefWrite(p) \/ Lookup(p) \/ GetConfig(p)
  \/ Fetch(p) \/ Get(p)
  \/ \E l \in Layers : \/ HasLayer(p, l) \/ ExtractLayer(p, l) \/ StatLayer(p, l)
                       \/ RenameLayer(p, l) \/ GetLayer(p, l) \/ CopyLayer(p, l)
  \/ WaitLayers(p) \/ Applied(p) \/ Flat(p)
  \/ Put(p) \/ Clear(p) \/ Retry(p) \/ Winner(p) \/ ReGet(p)
  \/ StoreRef(p) \/ StoreRefWrite(p) \/ PutConfig(p) \/ PutConfigWrite(p) \/ Done(p)

-----------------------------------------------------------------------------
(* The collector.                                                          *)

Pulling == \E p \in Pullers : ~At(p, "idle")
PresentIn(X) == {x \in X : Present(x)}

CollectBegin ==
  /\ cpc = "idle" /\ collects < MaxCollects
  /\ collects' = collects + 1
  /\ UNCHANGED <<disk, mine, doomed, emptied, removed, faults, pulls>>

\* The history of a GC ends with it.
Forget == overlap' = {} /\ skipped' = {} /\ kept' = {}

\* GC lists the rootfs entries first and reads the ref index after that.
GC ==
  /\ "gc" \in Collections /\ CollectBegin
  /\ cpc' = "refs"
  /\ listed' = PresentIn(Digests)
  /\ unread' = Refs /\ live' = {}
  /\ overlap' = {ref[p] : p \in {q \in Pullers : ~At(q, "idle")}}
  /\ skipped' = {} /\ kept' = {}

\* Mutant: a ref file that cannot be read ends the enumeration.
LiveDigestsShort(r) ==
  /\ cpc = "refs" /\ r \in unread
  /\ \/ /\ live' = live \cup ({refs[r]} \ {NoDigest})
        /\ unread' = unread \ {r} /\ UNCHANGED <<skipped, faults>>
     \/ Fault /\ skipped' = skipped \cup {r} /\ unread' = {} /\ UNCHANGED live
  /\ UNCHANGED <<disk, mine, cpc, listed, doomed, emptied, overlap, kept, removed, pulls, collects>>

\* liveDigests, one file; one that cannot be read is passed over, and what it
\* names does not count as referenced.
LiveDigests(r) ==
  /\ cpc = "refs" /\ r \in unread
  /\ unread' = unread \ {r}
  /\ \/ live' = live \cup ({refs[r]} \ {NoDigest}) /\ UNCHANGED <<skipped, faults>>
     \/ Fault /\ skipped' = skipped \cup {r} /\ UNCHANGED live
  /\ UNCHANGED <<disk, mine, cpc, listed, doomed, emptied, overlap, kept, removed, pulls, collects>>

\* The entries no reference names are removed.  A refs/ directory that
\* cannot be read aborts instead.
Sweep ==
  /\ cpc = "refs"
  /\ \/ /\ unread = {} /\ doomed' = listed \ live /\ cpc' = "remove"
        /\ UNCHANGED <<during, faults>>
     \/ Fault /\ doomed' = {} /\ cpc' = "idle" /\ Forget
  /\ listed' = {} /\ unread' = {} /\ live' = {}
  /\ UNCHANGED <<disk, mine, emptied, removed, pulls, collects>>

\* Evict lists all of the cache directory, refs/ and layers/ included.
Evict ==
  /\ "evict" \in Collections /\ CollectBegin
  /\ cpc' = "scan"
  /\ listed' = PresentIn(Digests) \cup {RefsDir, LayersDir}
  /\ UNCHANGED <<unread, live, during>>

\* What RemoveAll of a name takes away.
Under(x) == CASE x = LayersDir -> Layers [] x = RefsDir -> {} [] OTHER -> {x}

\* One listed name: removed when it is old.  ReadDir sorts: layers/ comes before
\* refs/, and that before the entries.  RemoveAll(refs/) deletes ref files, all of
\* them unless an error keeps some.
EvictOne(x) ==
  /\ cpc \in {"scan", "layers"} /\ x \in listed /\ doomed = {} /\ emptied = {}
  /\ LayersDir \in listed => x = LayersDir
  /\ x # LayersDir /\ RefsDir \in listed => x = RefsDir
  /\ listed' = listed \ {x}
  /\ doomed' = IF x \in old THEN PresentIn(Under(x)) ELSE {}
  /\ removed' = (removed \/ x \in old)
  /\ \/ refs' = IF x = RefsDir /\ x \in old THEN [r \in Refs |-> NoDigest] ELSE refs
     \/ x = RefsDir /\ x \in old /\ \E r \in Refs : refs' = [refs EXCEPT ![r] = NoDigest]
  /\ UNCHANGED <<dir, configs, old, mine, cpc, unread, live, emptied, during, faults, pulls, collects>>

\* LayerCache.Evict follows.
EvictLayers ==
  /\ cpc = "scan" /\ listed = {} /\ doomed = {} /\ emptied = {}
  /\ cpc' = "layers"
  /\ listed' = PresentIn(Layers)
  /\ UNCHANGED <<disk, mine, unread, live, doomed, emptied, during, counts>>

\* os.RemoveAll: it deletes what it finds in the directory ...
Unlink(x) ==
  /\ x \in doomed /\ dir[x] \in {"part", "whole"}
  /\ removed' = TRUE
  /\ \/ /\ dir[x] = "whole"
        /\ dir' = [dir EXCEPT ![x] = "part"]
        /\ configs' \in {configs, configs \ {x}}
        /\ UNCHANGED <<doomed, emptied>>
     \/ /\ dir' = [dir EXCEPT ![x] = "empty"]
        /\ configs' = configs \ {x}
        /\ doomed' = doomed \ {x} /\ emptied' = emptied \cup {x}
  /\ UNCHANGED <<refs, old, mine, cpc, unread, live, listed, during, faults, pulls, collects>>

\* ... and then the directory, unless something new is in it.  Old or not is
\* a matter of the next directory of that name.
Rmdir(x) ==
  /\ x \in emptied \/ (x \in doomed /\ dir[x] \in {"none", "empty"})
  /\ removed' = TRUE
  /\ dir' = [dir EXCEPT ![x] = IF @ = "empty" THEN "none" ELSE @]
  /\ doomed' = doomed \ {x} /\ emptied' = emptied \ {x}
  /\ old' = IF dir'[x] = "none" THEN old \ {x} ELSE old
  /\ UNCHANGED <<configs, refs, mine, cpc, unread, live, listed, during, faults, pulls, collects>>

\* An error keeps the rest of the directory; GC and Evict go on.
RemoveFails(x) ==
  /\ x \in doomed \cup emptied
  /\ Fault /\ kept' = IF cpc = "remove" THEN kept \cup {x} ELSE kept
  /\ doomed' = doomed \ {x} /\ emptied' = emptied \ {x}
  /\ UNCHANGED <<disk, mine, cpc, unread, live, listed, overlap, skipped, removed, pulls, collects>>

CollectEnd ==
  /\ doomed = {} /\ emptied = {}
  /\ cpc = "remove" \/ (cpc = "layers" /\ listed = {})
  /\ cpc' = "idle" /\ Forget
  /\ UNCHANGED <<disk, mine, unread, live, listed, doomed, emptied, counts>>

KillCollector ==
  /\ cpc # "idle" /\ Fault
  /\ cpc' = "idle" /\ Forget
  /\ unread' = {} /\ live' = {} /\ listed' = {} /\ doomed' = {} /\ emptied' = {}
  /\ UNCHANGED <<disk, mine, removed, pulls, collects>>

Collect ==
  \/ GC \/ (\E r \in Refs : LiveDigests(r)) \/ Sweep
  \/ Evict \/ (\E x \in Digests \cup Layers \cup {RefsDir, LayersDir} : EvictOne(x)) \/ EvictLayers
  \/ (\E x \in Dirs : Unlink(x) \/ Rmdir(x)) \/ CollectEnd

\* maxAge passes without a pull; it is days, so nothing ages during one.  Only a
\* later Evict could tell.
Age ==
  /\ "evict" \in Collections /\ collects < MaxCollects /\ ~Pulling /\ cpc = "idle"
  /\ old' = PresentIn(Dirs) \cup {RefsDir, LayersDir}
  /\ UNCHANGED <<dir, configs, refs, mine, collector, counts>>

Next ==
  \/ \E p \in Pullers : (\E r \in Refs : Begin(p, r)) \/ Pull(p) \/ Kill(p)
  \/ Collect \/ (\E x \in Dirs : RemoveFails(x)) \/ KillCollector
  \/ Age

Spec == Init /\ [][Next]_vars

-----------------------------------------------------------------------------
(* Properties.                                                             *)

\* Until something is removed, whatever pulls race and wherever they are
\* killed, what the cache holds and what Pull returns is a whole directory
\* (cache.go Put: "an atomic install"; docs/ARCHITECTURE.md: "no partial writes
\* and no corruption from concurrent access").
PullsInstallWhole ==
  ~removed => /\ \A x \in Dirs : dir[x] \in {"none", "whole"}
              /\ \A p \in Pullers : got[p] \in {"nothing", "failed", "error", "whole"}

\* A pull never fails because of other pulls, on the same digest or layers, or
\* because of one that was killed (cache.go Put: the loser "report[s] success";
\* pull.go: a lost layer race falls back to flat extraction).
PullsDoNotCollide == ~removed => \A p \in Pullers : got[p] # "error"

\* Once all pulls are done, the fast path serves every reference that was
\* pulled: the racing truncations and writes of ref and config files leave
\* complete ones (cache.go LookupRef, StoreRef), short of errors and removals.
FastPathAfterPulls ==
  ~Pulling /\ faults = 0 /\ ~removed =>
    \A p \in Pullers : got[p] = "whole" =>
      LET d == refs[ref[p]] IN d # NoDigest /\ dir[d] = "whole" /\ d \in configs

\* The digests that these references name.
NamedBy(R) == {refs[r] : r \in R} \ {NoDigest}

\* What a GC removes, whatever pulls overlap it and whichever ref files it
\* cannot read: never an entry named by a reference it could read and that
\* nobody was pulling, and of the entries that no overlapping pull can have to
\* do with, all that no reference names.  So a pull during a GC can cost the
\* entries of its own reference and no other, and so can an unreadable ref
\* file, even when the index was torn by a kill before (cache.go GC,
\* liveDigests: "an entry survives if and only if at least one ref points to
\* its digest", and what it is "not safe" for).
GCExact ==
  cpc = "remove" =>
    /\ (doomed \cup emptied) \cap NamedBy(Refs \ (overlap \cup skipped)) = {}
    /\ PresentIn(Digests) \ UNION {Tags[r] : r \in overlap}
         \subseteq NamedBy(Refs) \cup doomed \cup emptied \cup kept

=============================================================================
