# Formal models of go-microvm

TLA+ models of go-microvm, checked with TLC on small instances and proved, where
that is within reach, with TLAPS for all instances. `PROJECT.json` lists the
components, the runs, the correspondence of every definition with the source,
the hazards and the theorems.

## The system

go-microvm runs OCI images as microVMs. A host process calls `microvm.Run`, which

1. cleans the data directory, stopping a runner an earlier process left behind,
2. runs the preflight checks, gets the root file system (image cache), runs hooks,
3. starts the network provider, in the caller's process,
4. spawns the runner, a detached process that becomes the VM (libkrun),
5. records the runner's PID in the state file,
6. runs the post-boot hooks, which usually wait for the guest's SSH server.

The handle it returns can stop and remove the VM. Inside the guest an init
process mounts file systems, brings up the network, hardens itself and serves SSH.

| Part | State | Operations | Interacts with | What is hard |
|---|---|---|---|---|
| Lifecycle (`microvm.go`, `vm.go`, `runner/spawn.go`) | handle, runner process, provider | Run, Stop, Remove, stale-runner termination | state file, provider, operating system | crashes of the caller, failures half way, timeouts, PID reuse |
| State file (`state`) | state file, lock file | LoadAndLock, Save, Release, Remove | every process on the data directory | crashes in Save, lost updates, wipes under the lock |
| Firewall (`net/firewall`) | flow table, dynamic rules, clock | Verdict, Track, Add, Match, sweeps | forwarders, expiry goroutine | clock readings outside locks, boundaries of TTLs, capacity |
| Egress policy (`net/egress`) | host list | HandleEgress, HandleIngress | firewall's dynamic rules | learning before delivery, established DNS flows |
| Relay (`net/firewall/relay.go`) | two connections, write lock | forward, writeVM, shutdown | firewall, runner, virtual network | two writers, one direction ending |
| Hosted provider (`net/hosted`) | listener, forwards, services | Start, Stop, accept loop | relay, lifecycle | partial failure of Start, Stop racing connections |
| Image cache (`image`) | rootfs entries, refs, layers | Pull, Put, Get, Evict, GC | every process on the cache | concurrent pulls and collections, crashes |
| Layers (`image/pull.go`, `image/whiteout.go`) | trees, size budget | extraction, whiteouts, composition | image cache, disk images | order of the walk, links in the way, the shared budget |
| Disk images (`image/disk`), bundles (`extract`) | files under their final names | Fetch, Ensure | concurrent processes | visibility before verification |
| Guest (`guest/*`) | SSH server, sessions, init | Serve, Close, sessions, boot, reaper | host SSH client | shutdown races, wait status stolen by the reaper |
| SSH client, time sync (`ssh`, `timesync`) | connection, loop | WaitForReady, SyncOnce, Run | guest | retries and deadlines |

## Modules

| Module | Models |
|---|---|
| `Firewall` | `net/firewall` and `net/egress`: two forwarders and the expiry goroutine |
| `FirewallProofs` | types, what a forwarder has established at each step, what tracking and rules let through; the dynamic rules in time, DNS answers learned before delivery, established conversations |
| `MCFirewall` | an egress-policy instance, a static-rules instance and their frames |
| `Lifecycle` | Run, Stop, Remove, the runner process and the recorded PID |
| `LifecycleProofs` | theorems about Run, Stop and Remove for any number of callers and PIDs |
| `MCLifecycle` | one or two callers, one or two PIDs, with and without reuse |
| `StateStore` | package `state` on lock-file inodes |
| `LockedRegister` | what package `state` promises: the abstract specification |
| `StateStoreProofs` | theorems about `StateStore`, the refinement included |
| `MCStateStore` | two or three processes |
| `ImageCache` | package `image`: pulls, the two caches, GC and Evict on one directory |
| `ImageCacheProofs` | theorems about racing pulls and GC for any number of pulls and entries |
| `MCImageCache` | two pullers, two references, two images that share a layer |
| `Relay` | `net/firewall/relay.go`: two goroutines, the write mutex, shutdown |
| `HostedProvider` | `net/hosted`: Start, Stop, accept loop, services; composes `Relay` |
| `HostedProviderProofs` | theorems about `Relay` and `HostedProvider` |
| `MCHostedProvider` | no relay, a filter, or an egress policy |
| `Layers` | what an extraction leaves: layered, flat and disk images; whiteouts, links, budget |
| `LayersProofs` | the rootfs is what the archives describe, and the budget holds, for any archives |
| `MCLayers` | two layers over five paths and four kinds of marker; single archives |
| `SSHServer` | `guest/sshd` and `guest/reaper` |
| `SSHServerProofs` | true statuses after the output, and that Close has waited |
| `MCSSHServer` | two connections, two channels, every type of channel and request |
| `Bundle` | `extract`: `Bundle.Ensure` |
| `DiskFetch` | `image/disk`: `Fetch` |
| `TimeSync` | `timesync`, with the guest's `handleSettime` |
| `HostHelpers` | the three side by side, each with its own variables |
| `HostHelpersProofs` | theorems about each of the three |
| `MCHostHelpers` | instances of the three, one at a time |

### Firewall

`flows` is `ConnTracker.flows`, `entries` is `DynamicRules.entries`, `fwd[d]` the local
state of the forwarder of direction `d` (`relay.go`, `forward`), `sweeper` that of the
expiry goroutine, `now` the wall clock. Every critical section of the two mutexes is
one step, and so is every reading of the clock outside of one: `Add` computes an
expiry and then locks (`ReadAddClock`, `Add`), `IsEstablished` looks a flow up and
compares its age after the unlock (`LookupFlow`, `CompareAge`), `Match` and the sweeps
read the clock before they lock. `opened` and `resolved` are history variables.

A CIDR is the set of addresses in it, `{}` for the zero value that matches all. A host
entry is the set of names it matches. The dynamic entries are a set: all of them
allow, so their order decides nothing. `config` is how the relay was built; it is a
variable chosen by `Init`, so one run covers several configurations.

### Lifecycle

`vm[c]` is a caller's program counter, context, handle and provider; `proc` is what runs
at each PID: a runner (running, sent SIGTERM, sent SIGKILL), an unrelated process, or
nothing; `file` is the PID in the state file and `lock` the flock on it. A caller can be
killed at every step: its provider and its flock go, its runner stays. `kill` on a PID
an unrelated process has taken may succeed, or fail with EPERM or ESRCH. Run's steps
that hold nothing (preflight, image, hooks, rootfs) are one step that succeeds or fails.
That `/proc/<pid>/exe` of a runner of one's own cannot be read
(`process_linux.go:31-33`) is left out.

### StateStore and LockedRegister

A process locks the inode it opened, which stays locked after its path was unlinked.
Wipes (`cleanDataDir`, `VM.Remove`) unlink the files one by one without the lock. The
contents of the state are the number of updates that led to them. The register of
`LockedRegister` is `file`, its holder the process with the flock of the first inode;
both are gone once a wipe has begun, because then the package protects nothing: the
next process locks a new inode.

### ImageCache

The cache directory is shared by processes without any lock, so every system call that
another process can see the effect of is a step: the truncation and the writing of ref and
config files, each rename and stat of `Put`, the files and the directories `RemoveAll`
takes away. A directory is absent, empty, partly there or whole; `tmp[p]` is the directory
a pull is filling and `job[p][l]` the goroutine of a layer. `old` is what Evict would find
older than `maxAge`. A rename onto an empty directory may succeed (Linux) or not (Darwin).
`liveDigests` skips a ref file it cannot read. `removed`, `overlap`, `skipped` and `kept` are
history variables: most promises hold until a collector removes something; what GC promises
depends on the references pulled while it runs (`overlap`), those it could not read
(`skipped`) and the entries it could not remove (`kept`).

### Relay and HostedProvider

`HostedProvider` extends `Relay`, whose steps are steps of the composition. Start is the
sequence of its acquisitions, each of which may fail, under `p.mu`; Stop takes over the
lists under `p.mu` and goes on without it. `bound`, `serving` and `sock` are what the host
really holds, `locals`, `running` and `sockPath` what the provider remembers. A frame is
written in two pieces, and `half` tells whose length prefix the VM has seen last. Writes
block until the other end reads, and a connection is closed for both ends at once.
gvisor-tap-vsock is external: `AcceptQemu` returns when its connection is closed, or at
any time on an error, and looks at its context only between frames.

### Layers

`tree[i]` is what was extracted of archive `i`, `dst` the rootfs, `remaining` the budget.
One loop models `extractTar`, `extractTarSharedLimit` and `disk.Decompress`: its steps are
the check of the context, the two halves of a `Read` (the look at the budget and the
subtraction), and the rest of the body; where the three differ `job` decides. `Apply` is
one call of the function `applyLayerToDir` gives to `WalkDir`, in byte order. Every check
is an operator of its own (`CanMkdir`, `validateNoSymlinkLeaf`, `CanSymlink`,
`CanHardlink`, `SafeWalk`), and `Found` is what the kernel does with a path that has a
link in it, so that an operation that follows one really lands elsewhere. The checks resolve
an absolute link target below the rootfs, but the link is written as it is, and during
extraction it names a path of the host: `Found` stops there, and `HostFile` says that the path
is one of the regular files the host has (`HostFiles`). `Described` and
`Composed` are the reference, by what the archives say and not by the order of the steps: in
an archive the last entry that names a path decides what it is, and of the layers the highest
that has the path, unless one above it hides it. `Units` are what the archives take of the
budget. A layer that is in the cache already is one whose extraction was successful;
`ImageCache` has the cache.

### SSHServer

Every `wg.Add` and `wg.Done` of the code is one of `wg`, every token of `sem` one of `sem`.
`pc[k]` is the goroutine of a channel, `proc[k]` its command and `link[k]` what its client
left open. `cmd.Wait` has two halves, the process and the copies of its output; between
exit and Wait the reaper may collect the status (`Reap`), which is then lost to Wait. A
signal for the command, a client that leaves and a client that closes its input may come
at any time. `straggler` is a history variable: the connection `Serve` had accepted and was
holding when Close returned.

### Bundle, DiskFetch and TimeSync

`Bundle`: a directory maps its parts to good, bad or absent, the manifest also to edited: the
right bundle hash with any list of files. `isValid` is one step for the manifest and one for
each file it lists, each of which may also fail to be read (`Misread`); `RemoveAll` is one step
for each entry, and threads of one process share `b.mu` while all share the file lock. `clean`
and `condemned` are history variables: the directory was neither damaged nor given up since the
call; a sound directory was given up by a check under the lock and is yet to be replaced.
`DiskFetch`: the file at the final name, a temporary file for each
fetcher, and `alone`, a history variable, since nothing locks the directory. `TimeSync`:
the guest's lag and the host's phase within a second, in ticks; times on their way are
relative to the host's time now, which makes the model finite without a bound on time.

## Runs

| Run | Checks | Result |
|---|---|---|
| `firewall_path` | what passes, is learned and is tracked | pass, 2.5 million states |
| `firewall_rules` | capacity, lifetime, nothing live removed, expired state reclaimed | pass, 0.36 million states |
| `lifecycle_safety` | release on stop, provider outlives runner, failed Run, crash recovery | pass, 1.0 million states |
| `lifecycle_live` | Stop and Remove return | pass, 0.18 million states |
| `state_store` | exclusion, lost and torn updates, refinement | pass, 0.7 million states |
| `image_cache` | whole entries, pulls do not fail each other, complete ref index, exact GC | pass, 1.5 million states |
| `hosted_provider` | nothing leaked by a failed Start or by Stop, frames not torn, Stop returns, relays end | pass, 0.06 million states |
| `lifecycle_hook` | test comment: a hook failure stops the provider | violated: not when the context is done |
| `layers` | the rootfs is what the archives describe; the shared budget holds | pass, 2.7 million states |
| `layers_top` | test comment: what a layer adds beside its opaque marker is kept | violated: not if it sorts before the marker |
| `sshd` | Close waits and returns, true statuses, after the output, without end of input | pass, 0.14 million states |
| `host_helpers` | returned bundles whole, downloads verified, clock bounded and set right | pass, 0.42 million states |

Smaller disagreements met on the way, without a run of their own:

- docs/NETWORKING.md:277 says that non-IPv4 frames always pass; the relay drops all but
  ARP under a deny default. docs/NETWORKING.md:498 gives a learned rule the TTL of the DNS
  record; the interceptor also caps it. docs/NETWORKING.md:249 has all goroutines tracked
  by a wait group; the relay's is not.
- `shutdownServices` must not be called with `p.mu` held; Start's error paths do.
- docs/SECURITY.md:426-431 rules out signals to a reused PID; Stop's SIGKILL on a done
  context (`runner/spawn.go:209`) and `terminateStaleRunner`'s polling do not check again.
- `state/state.go:7-8` promises one modifier at a time; a wipe unlinks the lock file under
  its holder. `LockedState.Remove` promises to delete the lock file, which stays.
- `image/cache.go:246-249` says a GC during a pull costs only a miss; the pull can also
  return a directory GC is removing. `image/layer_cache.go:37-38` protects a layer that
  was hit from Evict; Evict takes `layers/` as a whole, by its own time.
- `Server.Close` before `Serve` has stored the listener leaves it open, and a connection
  `Serve` is holding for a free slot is served after Close has returned: `CloseWaits`
  names both. With a terminal the session closes it right after Wait, with whatever output
  is still in it: `OutputBeforeStatus` is about commands without one.
- `isValid` means "a complete, unaltered extraction" (`extract/bundle.go:180`). It does not
  look at the links, and checks only the files the manifest lists. A read error counts as a
  mismatch, so that a check under the lock may replace a directory other callers are using
  (`extract/bundle.go:186`, `:198`), and a removal that is cut short after it may leave a
  directory without its links that is then accepted. `ReturnedWhole` names these cases.
- docs/SECURITY.md:410 and docs/ARCHITECTURE.md:247 have the source of a hard link stay within
  the rootfs. `extractHardlink` checks its name, and `os.Lstat` and `os.Link` then follow the
  links on the way (`image/pull.go:847-876`), an absolute one out of the rootfs.
  `RootfsAsDescribed` excludes archives with both an absolute link and a hard link whose source
  is behind a link (`SourcesInside`).
- In a flat extraction a skipped entry also skips the check of the size limit, and a limit
  that is reached between two entries then reads as the end of the archive:
  `RootfsAsDescribed` excludes such archives.

Bounds. Firewall: a clock of three ticks with TTLs of zero or one tick, which reaches an
age below, at and above every TTL; one dynamic rule allowed and two wanted, or two and
three, which reaches the capacity; one conversation per rule list entry that can decide.
Lifecycle: two callers, since every interaction is between two; a PID that is reused, or
two PIDs and one caller that comes back after a crash. StateStore: three processes, so
that one can hold, one wait and one wipe; two updates; two wipes, so that an inode can
be two generations old. ImageCache: two pulls, since races are between two; a reference
that moves between two images with a common layer, so that digests and layers collide
separately; one error (an unreadable ref file included) or kill and one collection, at every
step, with entries of any age for Evict (`AgedForEvict`: GC does not look at ages). HostedProvider: two
forwards and two services, so that a failure finds some acquired and some not, and two
calls of Stop, without a relay; with one, a frame in each direction, which is enough for
both goroutines to write to the VM at once, and one call.
Layers: a name that sorts before all markers and three that sort after, in a directory and
above it, up to two entries in the lower layer and three in the upper, so that each marker
meets a file, a directory and a link below it; paths that are named twice, and entries for
the destination itself; nine units of budget, which two layers reach within, between and
after entries; four entries in a single archive, one more than allowed; a chain of two links,
an absolute link to the root and one behind which a hard link finds the one file of the host.
SSHServer: one slot for two connections, one channel allowed and two asked for, one
connection to the agent; the reaper with one command. Bundle: two threads of one process and
one of another, one file, damage to any parts at once, one read error, each at any moment. DiskFetch: two fetchers, two tries each.
TimeSync: a request longer than a second, skews on both sides of the threshold, two naps at any moment.

Fairness. `firewall_rules` assumes only that the expiry goroutine keeps running (its
ticker fires); forwarders may be silent for ever. `lifecycle_live` assumes only that a
caller inside Stop or Remove keeps executing: its deadlines are timers and always fire.
`hosted_provider` assumes that goroutines that can run do run, and that the virtual network
reads what the relay writes to it (`AcceptQemu` reads in a loop). None of these assumes
anything of runners, peers or other callers: a runner may never read again.
`sshd` assumes that the server's goroutines run; that the processes a command left behind
let go of its output and of the agent socket, which Wait and `agentCleanup` wait for; and,
once Close was called, that clients leave and their commands end, since Close waits for
them without a deadline (the guest is going down). A command that runs for ever, and a
client that never sends or closes anything, are allowed before that. `host_helpers`
assumes that the ticker fires and that requests get through again and again (strong
fairness: each may fail any number of times).

## Proofs

Every safety property of the passing runs is a theorem for every value of the constants
that satisfies the named assumptions:

| Assumption | Says |
|---|---|
| `FirewallAssumption` | special values are distinct, TTLs are natural numbers, a DNS hook comes with a deny default (`buildEgressRelay`) |
| `LifecycleAssumption` | `NoPid` and `NoCaller` are neither PIDs nor callers; modes are well-formed |
| `StateStoreAssumption` | special values are distinct, bounds are natural numbers |
| `CacheAssumption` | there is a reference, `NoDigest` is no digest, a reference resolves to digests, digests and layers are apart |
| `LayersAssumption` | finitely many layers, numbered from 1; `Sorted` orders distinct names; the budget is positive, the links followed are bounded; archives are sequences of entries, and a single one has number 1 |
| `ServerAssumption` | finitely many connections and channels; the reaper is there or not |
| `BundleAssumption` | a thread has a process; manifest and links are not payload files |
| `HelpersAssumption` | a second has a tick, delays and naps are natural numbers, `"part"` is not the absence of a file |

Hardly any of these invariants is inductive as it stands. What was added in each case:

`FirewallProofs` builds the inductive invariant in layers.
`PathInv` says what a forwarder has established at each program counter, which gives
`BlockedNames`. `OriginInv` says that every flow, and every frame about to be tracked,
belongs to a conversation a rule has opened, and that dynamic rules name resolved addresses:
`TrackedFlows`, `OnlyResolved`. `TimeInv` relates the clock values held by the goroutines to
the clock: `LifetimeBounded`, and with it the action property `LiveKept`, because a sweep
with an old clock value removes nothing that is alive now. `LearnInv` follows one DNS answer
through `Add`: a rule is still to be added, or was refused, or an entry for it has an expiry
no earlier than reception plus TTL; this survives the sweep and is `Learned`. `LiveInv`
follows a frame whose flow was alive when the frame was received: until time passes the flow
stays in the table, renewed or not, and the value looked up is young enough when its age is
compared after the unlock (`EstablishedPasses`).

`LifecycleProofs`: `HandleInv` says at which program counters a caller has a handle or a stale
PID. `NetInv` says where the provider is on or off, and that the runner of a caller whose Stop
is past the process, or whose provider is off, has been sent SIGKILL if it has not exited:
`StopReleases`, `ProviderOutlivesRunner`, `FailedRunStops`. `RecoveryInv` says that
with one caller that always cleans, a recorded runner nobody has signalled is the one in the
state file, and tells for each program counter that the caller knows it or cannot be there
with such a runner left: `CrashRecovery`.

`StateStoreProofs` ties being inside the lock to holding the flock of the opened inode, in
both directions (`LockInv`). Until a wipe there is one inode, hence one process inside, and
what it has in memory is what is in the file. The refinement maps each step to a step of
the register or to a stuttering step.

`ImageCacheProofs`: until something is removed, `WholeInv` has every directory absent or
whole and the entry of a pull whole from the step at which the pull relies on it; hence a
rename that fails has met a whole entry and never needs its second try (`InstalledWhole`,
`NoCollision`). `FastInv`: short of errors, a reference that was served is readable or has a
writer between truncation and write, and so has the config of an entry the index names; when
no pull is left there are no writers (`FastPathServes`). For `CollectsExactly`, `TagInv` ties what
a pull knows and what a ref file holds to the digests of its reference, so that a step of a pull
touches only those (`Touches`). Then `GCInv`: for a digest that no overlapping pull can have to do
with, GC's list of entries agrees with the directory, and so do, for a reference that nobody
pulls and GC could read, the digests it has read and the ref file.

`LayersProofs`: `LoopsOK` says where each extraction is in its archive and how much of the
entry there it has yet to read.

- `BudgetSafe`. `Taken` is the set of units of the budget that were taken so far, and
  `BudgetOK` says that with what remains they are no more than the budget. That is not enough:
  a layer looks at the budget before it takes a unit off it, so the budget can become negative.
  Hence the last conjunct: if everything was taken, there is a layer that still has to read or
  to look, and will fail (`Doomed`). `StepTakes` says what a step can take, whatever the
  archives: nothing, one unit, or a file of a disk image that fits; the rest counts.
- `RootfsSafe`, extraction. `TreesOK`: the tree of a loop is `Tree` of the entries it is past,
  and every path in it has directories on the way (`WellFormed`). With that no link is on the
  way to an entry that passes the checks, so that `Found` is the path itself (`FoundThere`).
  The links of a tree are links of its archive (`TreeLinks`), so that a hard link takes no file
  of the host where `SourcesInside` holds (`HardlinkInside`) and an entry changes just what it
  names (`ExtractIsWith`).
  `FlatOK`: if no entry is skipped, a flat archive is not cut off between two entries.
- `RootfsSafe`, layers. `RootfsOK` has the rootfs in the middle of a layer: `Applied`, the
  layers below without what the visited paths hide, and the visited paths. A path that is
  visited next extends it (`ApplyMarker`, `ApplyNode`): a directory comes before what is in it
  (`DirectoryFirst`), and a marker that covers a path of its own layer comes before that path
  unless the path is ahead of it (`KeepsVisited`), which is the case `layers_top` shows.
  At the end of a layer `Applied` is `Composed` of one layer more (`ComposedNext`).

`HostedProviderProofs`: `RelayInv` says who may write to the VM (the holder of the mutex, or
the ingress direction where the egress direction never answers) and that a length prefix waits
for the payload of that direction (`FramesWhole`). `StartInv` says what Start holds at each
step (`StartUnwinds`). `StopInv` says that every forward and service is in the fields of the
provider or of exactly one call of Stop that has yet to release it, and how far a call on a
started provider has come (`StopLeavesNothing`).

`SSHServerProofs` has two invariants. `StatusInv` follows a command: its process is there
only while the session runs it, and what Wait made of its end stays the result until the
client is told (`ClientsToldTrue`, `OutputFirst`). `CloseInv` says that `wg` is the number of
connections served plus the number of channels busy, an equation over cardinalities that each
step changes on both sides; with a listener that is closed nothing new can be counted but what
`Serve` still holds (`CloseHasWaited`).

`HostHelpersProofs`: for `Bundle`, the extraction is inside the file lock, what it replaces was
found invalid under that lock or given up, hence no caller whose call is still clean was given
it (`CleanMeans`, `OldInvalid`), and unless it was given up whatever has a good manifest has good
links (`LinksToo`): `EnsureReturnsWhole`. For `DiskFetch`, a temporary
file is whole by the time it is renamed (`FetchVerified`). For `TimeSync`, a time on its way,
taken since the host last slept, is wrong by the ticks it has been under way and the part of a
second that was cut off (`InFlight`), which bounds what the comparison and the setting of the
clock leave (`ClockStaysBounded`).

Only model-checked are the liveness properties (`ExpiredReclaimed`, `StopReturns` of
`Lifecycle` and of `HostedProvider`, `RelayEnds`, `ExitReported`, `CloseReturns`,
`ClockSettles`): liveness under fairness is out of the prover's reach.

## Not modelled

- Guest boot (`guest/boot`, `mount`, `netcfg`, `harden`, `env`, `vmconfig`): one goroutine
  that makes system calls in a fixed order; the state is the kernel's.
- The runner (`runner/cmd`, `krun`): a sequence of libkrun calls, the last of which does
  not return.
- The host's SSH client (`WaitForReady`, `Run`, key files) beyond a request that takes time
  and may fail; authentication in the SSH server.
- `Purge`, `List` and `Size` of the image cache, and a Pull without a cache.
- Modes and ownership in extracted trees. `copyFileToDir` sets the mode only of a file it
  creates, so that a layer that changes just the mode of a file has no effect on it; the
  models do not see this.
- Wire formats and checksums (`dns.go`, `frame.go`), preflight probes, extended attributes,
  logging and tracing: data or I/O without a protocol.
