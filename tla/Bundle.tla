------------------------------- MODULE Bundle -------------------------------
(***************************************************************************)
(* Bundle.Ensure: the runner binary and its libraries are extracted once   *)
(* into a directory of the cache that is shared by the threads and the     *)
(* processes of a user, and checked on every call.                         *)
(*                                                                         *)
(* A directory maps each of its parts (the files, the manifest, and the    *)
(* links as one) to "good", "bad" or "absent"; a directory that does not   *)
(* exist has no parts.  A manifest may also be "edited": it has the hash   *)
(* of the bundle, all that isValid compares, and lists other files or      *)
(* hashes.  Other bundles have other directories.                          *)
(*                                                                         *)
(* Processes may die at any step, which frees their locks and leaves their *)
(* temporary directories; what is in the cache may be damaged: a file or   *)
(* the manifest changed or removed; and a manifest or a file that is as it *)
(* should be may fail to be read.  Damage to a link is left out: isValid   *)
(* does not look at links.                                                 *)
(***************************************************************************)
EXTENDS Integers

CONSTANTS
  Thread,       \* callers of Ensure
  Process,      \* the processes they are in
  ProcessOf,    \* per thread: its process
  Files,        \* the files of the bundle
  Manifest,     \* .manifest.json
  Links,        \* the symbolic links
  None,
  MaxDamage,    \* how often something in the cache is damaged
  MaxMisreads   \* how often something in the cache cannot be read

VARIABLES
  target,       \* extract-<hash>
  tmp,          \* per thread: extract-tmp-*
  pc,           \* per thread: where it is in Ensure
  want,         \* per thread: what isValid has yet to find in each file
  mu,           \* per process: the thread that holds b.mu
  lock,         \* the thread that holds .extract.lock
  clean,        \* per thread: its directory was not damaged or given up (history)
  condemned,    \* a sound directory was given up and not replaced yet (history)
  damage,       \* how often something was damaged
  misreads      \* how often something could not be read

vars == <<target, tmp, pc, want, mu, lock, clean, condemned, damage, misreads>>
history == <<clean, condemned, damage, misreads>>

ASSUME BundleAssumption ==
  /\ ProcessOf \in [Thread -> Process]
  /\ Manifest \notin Files /\ Links \notin Files /\ Manifest # Links
  /\ None \notin Thread
  /\ MaxDamage \in Nat /\ MaxMisreads \in Nat

Part == Files \cup {Manifest, Links}
Nothing == [x \in Part |-> "absent"]
Checked == [f \in Files |-> "any"]
Sound(d) == \A x \in Part : d[x] = "good"

Init ==
  /\ target = Nothing
  /\ tmp = [t \in Thread |-> Nothing]
  /\ pc = [t \in Thread |-> "idle"]
  /\ want = [t \in Thread |-> Checked]
  /\ mu = [p \in Process |-> None] /\ lock = None
  /\ clean = [t \in Thread |-> FALSE]
  /\ condemned = FALSE
  /\ damage = 0 /\ misreads = 0

\* A call, of a thread that has made none or whose last one has returned.
Begin(t) ==
  /\ pc[t] \in {"idle", "done", "failed"}
  /\ pc' = [pc EXCEPT ![t] = "fast"]
  /\ clean' = [clean EXCEPT ![t] = target[Manifest] # "edited" /\ ~condemned]
  /\ UNCHANGED <<target, tmp, want, mu, lock, condemned, damage, misreads>>

\* isValid returns false: to take the lock or, under it, to make a new directory.
Invalid(t) ==
  /\ pc' = [pc EXCEPT ![t] = IF @ \in {"fast", "fastfiles"} THEN "mutex" ELSE "temp"]
  /\ want' = [want EXCEPT ![t] = Checked]

\* isValid cannot read the manifest or a file, whatever is in it.  Under the lock
\* it thereby gives up a directory that may be sound and in use.
Misread(t) ==
  /\ misreads < MaxMisreads /\ misreads' = misreads + 1
  /\ Invalid(t)
  /\ LET givesUp == pc[t] \in {"again", "againfiles"} /\ Sound(target) IN
     /\ condemned' = (condemned \/ givesUp)
     /\ clean' = [u \in Thread |-> clean[u] /\ (u = t \/ ~givesUp)]
  /\ UNCHANGED damage

\* What a manifest may list for each file: the hash of its content, that of
\* another, or nothing.
Listings(manifest) ==
  IF manifest = "good" THEN {[f \in Files |-> "good"]} ELSE [Files -> {"good", "bad", "any"}]

\* isValid reads the manifest, before the lock is taken and again after it.
ReadManifest(t) ==
  /\ pc[t] \in {"fast", "again"}
  /\ \/ /\ target[Manifest] \in {"good", "edited"}
        /\ pc' = [pc EXCEPT ![t] = IF @ = "fast" THEN "fastfiles" ELSE "againfiles"]
        /\ \E listing \in Listings(target[Manifest]) : want' = [want EXCEPT ![t] = listing]
        /\ UNCHANGED history
     \/ target[Manifest] \notin {"good", "edited"} /\ Invalid(t) /\ UNCHANGED history
     \/ Misread(t)
  /\ UNCHANGED <<target, tmp, mu, lock>>

\* isValid reads one of the files the manifest lists: in any order, as they
\* are listed in a map.
CheckFile(t) ==
  /\ pc[t] \in {"fastfiles", "againfiles"}
  /\ \E f \in Files :
       /\ want[t][f] # "any"
       /\ \/ /\ target[f] = want[t][f]
             /\ want' = [want EXCEPT ![t][f] = "any"] /\ UNCHANGED <<pc, history>>
          \/ target[f] # want[t][f] /\ Invalid(t) /\ UNCHANGED history
          \/ Misread(t)
  /\ UNCHANGED <<target, tmp, mu, lock>>

\* Every file was as listed: the directory is returned.
Valid(t) ==
  /\ pc[t] \in {"fastfiles", "againfiles"} /\ want[t] = Checked
  /\ pc' = [pc EXCEPT ![t] = IF @ = "fastfiles" THEN "done" ELSE "unlock"]
  /\ UNCHANGED <<target, tmp, want, mu, lock, history>>

MutexLock(t) ==
  /\ pc[t] = "mutex" /\ mu[ProcessOf[t]] = None
  /\ mu' = [mu EXCEPT ![ProcessOf[t]] = t]
  /\ pc' = [pc EXCEPT ![t] = "flock"]
  /\ UNCHANGED <<target, tmp, want, lock, history>>

\* Mutant: no second check under the lock.
FileLockOnly(t) ==
  /\ pc[t] = "flock" /\ lock = None
  /\ lock' = t
  /\ pc' = [pc EXCEPT ![t] = "temp"]
  /\ UNCHANGED <<target, tmp, want, mu, history>>

FileLock(t) ==
  /\ pc[t] = "flock" /\ lock = None
  /\ lock' = t
  /\ pc' = [pc EXCEPT ![t] = "again"]
  /\ UNCHANGED <<target, tmp, want, mu, history>>

\* MkdirTemp.
MakeTemp(t) ==
  /\ pc[t] = "temp"
  /\ tmp' = [tmp EXCEPT ![t] = Nothing]
  /\ pc' = [pc EXCEPT ![t] = "files"]
  /\ UNCHANGED <<target, want, mu, lock, history>>

\* Each file is written under another name and renamed.
ExtractFile(t) ==
  /\ pc[t] = "files"
  /\ \E f \in Files : tmp[t][f] = "absent" /\ tmp' = [tmp EXCEPT ![t][f] = "good"]
  /\ UNCHANGED pc

\* The links, after the files.
CreateSymlinks(t) ==
  /\ pc[t] = "files" /\ \A f \in Files : tmp[t][f] = "good"
  /\ tmp' = [tmp EXCEPT ![t][Links] = "good"]
  /\ pc' = [pc EXCEPT ![t] = "manifest"]

\* The manifest, "last so a partial extraction never looks valid to isValid".
WriteManifest(t) ==
  /\ pc[t] = "manifest"
  /\ tmp' = [tmp EXCEPT ![t][Manifest] = "good"]
  /\ pc' = [pc EXCEPT ![t] = "stale"]

WritePart(t) ==
  /\ ExtractFile(t) \/ CreateSymlinks(t) \/ WriteManifest(t)
  /\ UNCHANGED <<target, want, mu, lock, history>>

\* RemoveAll of what is at the target, entry by entry.
RemoveStale(t) ==
  /\ pc[t] = "stale"
  /\ \E x \in Part : target[x] # "absent" /\ target' = [target EXCEPT ![x] = "absent"]
  /\ UNCHANGED <<tmp, pc, want, mu, lock, history>>

RenameToTarget(t) ==
  /\ pc[t] = "stale" /\ target = Nothing
  /\ target' = tmp[t] /\ tmp' = [tmp EXCEPT ![t] = Nothing]
  /\ pc' = [pc EXCEPT ![t] = "unlock"]
  /\ condemned' = FALSE
  /\ UNCHANGED <<want, mu, lock, clean, damage, misreads>>

\* One of those steps fails: the temporary directory is removed.
StepFails(t) ==
  /\ pc[t] \in {"temp", "files", "manifest", "stale"}
  /\ tmp' = [tmp EXCEPT ![t] = Nothing]
  /\ pc' = [pc EXCEPT ![t] = "unlockfail"]
  /\ UNCHANGED <<target, want, mu, lock, history>>

\* The cache directory or the lock file cannot be made.
LockFails(t) ==
  /\ pc[t] = "flock"
  /\ mu' = [mu EXCEPT ![ProcessOf[t]] = None]
  /\ pc' = [pc EXCEPT ![t] = "failed"]
  /\ UNCHANGED <<target, tmp, want, lock, history>>

Unlock(t) ==
  /\ pc[t] \in {"unlock", "unlockfail"}
  /\ lock' = None /\ mu' = [mu EXCEPT ![ProcessOf[t]] = None]
  /\ pc' = [pc EXCEPT ![t] = IF @ = "unlock" THEN "done" ELSE "failed"]
  /\ condemned' = (condemned /\ ~Sound(target))
  /\ UNCHANGED <<target, tmp, want, clean, damage, misreads>>

\* A process dies.  Its temporary directory stays, under a name that is not
\* used again.
Die(p) ==
  /\ \E t \in Thread : ProcessOf[t] = p /\ pc[t] # "idle"
  /\ pc' = [t \in Thread |-> IF ProcessOf[t] = p THEN "idle" ELSE pc[t]]
  /\ want' = [t \in Thread |-> IF ProcessOf[t] = p THEN Checked ELSE want[t]]
  /\ clean' = [t \in Thread |-> IF ProcessOf[t] = p THEN FALSE ELSE clean[t]]
  /\ tmp' = [t \in Thread |-> IF ProcessOf[t] = p THEN Nothing ELSE tmp[t]]
  /\ mu' = [mu EXCEPT ![p] = None]
  /\ IF lock \in Thread /\ ProcessOf[lock] = p
       THEN lock' = None /\ condemned' = (condemned /\ ~Sound(target))
       ELSE UNCHANGED <<lock, condemned>>
  /\ UNCHANGED <<target, damage, misreads>>

\* Something changes or removes parts of the extracted directory.
Damage ==
  /\ damage < MaxDamage
  /\ \E how \in [Part -> {"good", "bad", "absent", "edited"}] :
       /\ how[Links] = "good" /\ \A f \in Files : how[f] # "edited"
       /\ target' = [x \in Part |-> IF target[x] = "good" THEN how[x] ELSE target[x]]
  /\ target' # target
  /\ clean' = [t \in Thread |-> FALSE]
  /\ damage' = damage + 1
  /\ UNCHANGED <<tmp, pc, want, mu, lock, condemned, misreads>>

Next ==
  \/ \E t \in Thread :
       \/ Begin(t) \/ ReadManifest(t) \/ CheckFile(t) \/ Valid(t)
       \/ MutexLock(t) \/ FileLock(t) \/ MakeTemp(t) \/ WritePart(t)
       \/ RemoveStale(t) \/ RenameToTarget(t) \/ StepFails(t) \/ LockFails(t)
       \/ Unlock(t)
  \/ \E p \in Process : Die(p)
  \/ Damage

Spec == Init /\ [][Next]_vars

-----------------------------------------------------------------------------
\* A directory that Ensure returned is complete, and stays so: every file, the
\* links and the manifest are in it, whatever other callers find, misread on
\* their way to the lock, replace, fail at or leave behind when they die (Ensure:
\* "Concurrent and cross-process safety").  Three things end that: damage after
\* the call began, a manifest that was edited before it, and a check under the
\* lock that could not read a sound directory (from then until a directory is
\* put in its place, or the lock is released with nothing removed).
ReturnedWhole == \A t \in Thread : pc[t] = "done" /\ clean[t] => Sound(target)
=============================================================================
