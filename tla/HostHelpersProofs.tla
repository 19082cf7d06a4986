------------------------- MODULE HostHelpersProofs --------------------------
(***************************************************************************)
(* Proofs about the three helpers of the host, for any number of threads,  *)
(* processes, files and fetchers and any amount of damage, and for every   *)
(* resolution, threshold and delay of the clock.                           *)
(*                                                                         *)
(* Bundle.  ReturnedWhole says nothing of the callers that are still on    *)
(* their way.  The invariant adds what they rely on: only one of them is   *)
(* past the lock; whoever makes a new directory does so because the old    *)
(* one is not valid, and it will not become valid but by its own rename,   *)
(* or has given up a sound one, and then nobody else counts as clean; and  *)
(* a clean caller in the middle of isValid has either seen only what is    *)
(* still there or has a bad file ahead of it.                              *)
(*                                                                         *)
(* DiskFetch.  The invariant adds that a temporary file is whole by the    *)
(* time it is renamed.                                                     *)
(*                                                                         *)
(* TimeSync.  The invariant follows a time on its way between guest and    *)
(* host: how old it is, to the part of a second that was cut off.          *)
(***************************************************************************)
EXTENDS HostHelpers, TLAPS

-----------------------------------------------------------------------------
(* Bundle.                                                                 *)

State == {"good", "bad", "absent", "edited"}

Steps ==
  {"idle", "fast", "fastfiles", "mutex", "flock", "again", "againfiles", "temp", "files",
   "manifest", "stale", "unlock", "unlockfail", "done", "failed"}

Types ==
  /\ target \in [Part -> State]
  /\ tmp \in [Thread -> [Part -> {"good", "absent"}]]
  /\ pc \in [Thread -> Steps]
  /\ want \in [Thread -> [Files -> {"good", "bad", "any"}]]
  /\ mu \in [Process -> Thread \cup {None}]
  /\ lock \in Thread \cup {None}
  /\ clean \in [Thread -> BOOLEAN]
  /\ condemned \in BOOLEAN

\* isValid would return true.
Intact == target[Manifest] = "good" /\ \A f \in Files : target[f] = "good"

Inside(t) ==
  pc[t] \in {"again", "againfiles", "temp", "files", "manifest", "stale", "unlock",
            "unlockfail"}

Making(t) == pc[t] \in {"temp", "files", "manifest", "stale"}

\* Ensure's steps past the lock are those of the thread that holds it.
LockHeld == \A t \in Thread : Inside(t) => lock = t

\* What is replaced is not valid, or given up.
OldInvalid == \A t \in Thread : Making(t) => ~Intact \/ condemned

\* A clean caller has not met an edited manifest nor a directory given up, unless
\* it gave it up itself and has not returned it.
CleanMeans ==
  \A t \in Thread : clean[t] =>
    /\ target[Manifest] # "edited"
    /\ condemned => Making(t) \/ pc[t] \in {"unlockfail", "failed"}

\* The manifest is written last.
TmpMade ==
  \A t \in Thread :
    /\ pc[t] \in {"manifest", "stale"} => \A x \in Part \ {Manifest} : tmp[t][x] = "good"
    /\ pc[t] = "stale" => tmp[t][Manifest] = "good"

\* isValid does not look at the links and need not.
LinksToo == Intact /\ ~condemned => target[Links] = "good"

\* A thread in isValid, with the files of want[t] still to read.
SeenOrAhead(t) ==
  /\ \A f \in Files : want[t][f] \in {"good", "any"}
  /\ \/ target[Manifest] = "good" /\ \A f \in Files : want[t][f] = "any" => target[f] = "good"
     \/ \E f \in Files : want[t][f] = "good" /\ target[f] # "good"

Checks ==
  \A t \in Thread : pc[t] \in {"fastfiles", "againfiles"} /\ clean[t] => SeenOrAhead(t)

\* The manifest does not change under the lock but by damage.
Rereads ==
  \A t \in Thread : pc[t] = "againfiles" /\ target[Manifest] = "good" =>
    \A f \in Files : want[t][f] # "bad"

Returns == \A t \in Thread : pc[t] \in {"done", "unlock"} /\ clean[t] => Intact

Inv ==
  /\ Types /\ LockHeld /\ OldInvalid /\ CleanMeans /\ TmpMade
  /\ LinksToo /\ Checks /\ Rereads /\ Returns

-----------------------------------------------------------------------------
\* The initial states: there is nothing, and nobody has called Ensure.
LEMMA InitInv == Init => Inv
<1> SUFFICES ASSUME Init PROVE Inv
  BY Zenon
<1>1. Types
  BY BundleAssumption, Zenon DEF Init, Types, Steps, State, Part, Nothing, Checked
<1>2. LockHeld /\ OldInvalid /\ CleanMeans /\ TmpMade /\ LinksToo /\ Checks /\ Rereads /\ Returns
  BY BundleAssumption
  DEF Init, Part, Nothing, LockHeld, Inside, OldInvalid, CleanMeans, Making, TmpMade, LinksToo,
      Intact, Checks, Rereads, Returns
<1>3. QED
  BY <1>1, <1>2, Zenon DEF Inv

\* One step per action, and under it one per conjunct.
LEMMA StepInv == Inv /\ [Next]_vars => Inv'
<1> SUFFICES ASSUME Inv, [Next]_vars PROVE Inv'
  BY Zenon
<1> USE BundleAssumption DEF Inv, Types, Steps, State, Part, Nothing, Checked
<1>1. ASSUME NEW t \in Thread, Begin(t) PROVE Inv'
  <2>1. Types'
    BY <1>1 DEF Begin, history
  <2>2. LockHeld'
    BY <1>1 DEF LockHeld, Inside, Begin, history
  <2>3. OldInvalid'
    BY <1>1 DEF LockHeld, Inside, OldInvalid, Making, Intact, Begin, history
  <2>4. CleanMeans'
    BY <1>1, ZenonT(30) DEF LockHeld, Inside, CleanMeans, Making, TmpMade, Begin, history
  <2>5. TmpMade'
    BY <1>1 DEF TmpMade, Begin, history
  <2>6. LinksToo'
    BY <1>1 DEF OldInvalid, Making, TmpMade, LinksToo, Intact, Begin, history
  <2>7. Checks'
    BY <1>1 DEF OldInvalid, CleanMeans, Making, TmpMade, Intact, Checks, SeenOrAhead, Begin, history
  <2>8. Returns'
    BY <1>1 DEF OldInvalid, CleanMeans, Making, TmpMade, Intact, Checks, SeenOrAhead, Returns, Begin, history
  <2>9. Rereads'
    BY <1>1 DEF Rereads, LockHeld, Inside, Begin, history
  <2>10. QED
    BY <2>1, <2>2, <2>3, <2>4, <2>5, <2>6, <2>7, <2>8, <2>9, Zenon
<1>a. ASSUME NEW t \in Thread, pc[t] \in {"fast", "again", "fastfiles", "againfiles"},
             Invalid(t), UNCHANGED <<target, tmp, mu, lock>>, clean' \in [Thread -> BOOLEAN],
             \A u \in Thread : clean'[u] => clean[u], condemned => condemned', condemned' \in BOOLEAN,
             pc[t] \in {"again", "againfiles"} => ~Intact \/ condemned',
             condemned' => condemned \/ \A u \in Thread \ {t} : ~clean'[u],
             condemned' # condemned => pc[t] \in {"again", "againfiles"}
      PROVE  Inv'
  <2>0. /\ want' \in [Thread -> [Files -> {"good", "bad", "any"}]] /\ pc' \in [Thread -> Steps]
        /\ pc'[t] = IF pc[t] \in {"fast", "fastfiles"} THEN "mutex" ELSE "temp"
        /\ \A u \in Thread \ {t} : pc'[u] = pc[u] /\ want'[u] = want[u]
    <3>1. Checked \in [Files -> {"good", "bad", "any"}]
      BY Zenon
    <3>2. QED
      BY <1>a, <3>1, Zenon DEF Invalid
  <2>1. Types'
    BY <1>a, <2>0, Zenon
  <2>2. LockHeld'
    BY <1>a, <2>0 DEF LockHeld, Inside
  <2>3. OldInvalid'
    BY <1>a, <2>0 DEF LockHeld, Inside, OldInvalid, Making, Intact
  <2>4. CleanMeans'
    BY <1>a, <2>0 DEF CleanMeans, Making
  <2>5. TmpMade'
    BY <1>a, <2>0 DEF TmpMade
  <2>6. LinksToo'
    BY <1>a, Zenon DEF LinksToo, Intact
  <2>7. Checks'
    BY <1>a, <2>0 DEF Checks, SeenOrAhead
  <2>8. Rereads' /\ Returns'
    <3>1. ASSUME NEW u \in Thread, pc'[u] = "againfiles", target'[Manifest] = "good",
                 NEW f \in Files
          PROVE  want'[u][f] # "bad"
      <4>1. u # t
        BY <2>0, <3>1
      <4>2. pc[u] = "againfiles" /\ target[Manifest] = "good" /\ want'[u] = want[u]
        BY <1>a, <2>0, <3>1, <4>1, Zenon
      <4>3. QED
        BY <4>2 DEF Rereads
    <3>2. Returns'
      BY <1>a, <2>0, ZenonT(30) DEF Returns, Intact
    <3>3. QED
      BY <3>1, <3>2, Zenon DEF Rereads
  <2>9. QED
    BY <2>1, <2>2, <2>3, <2>4, <2>5, <2>6, <2>7, <2>8, Zenon
<1>b. ASSUME NEW t \in Thread, pc[t] \in {"fast", "again", "fastfiles", "againfiles"},
             Misread(t), UNCHANGED <<target, tmp, mu, lock>>
      PROVE  Inv'
  <2>1. Intact /\ ~condemned => Sound(target)
    BY DEF LinksToo, Intact, Sound
  <2>2. /\ clean' \in [Thread -> BOOLEAN] /\ condemned' \in BOOLEAN
        /\ \A u \in Thread : clean'[u] => clean[u]
        /\ condemned => condemned'
        /\ condemned' # condemned => /\ pc[t] \in {"again", "againfiles"}
                                    /\ \A u \in Thread \ {t} : ~clean'[u]
        /\ pc[t] \in {"again", "againfiles"} /\ Sound(target) => condemned'
    BY <1>b, ZenonT(30) DEF Misread
  <2>3. QED
    BY <1>a, <1>b, <2>1, <2>2, Zenon DEF Misread
<1>2. ASSUME NEW t \in Thread, ReadManifest(t) PROVE Inv'
  <2>1. CASE Misread(t)
    BY <1>2, <1>b, <2>1, Zenon DEF ReadManifest
  <2>2. CASE target[Manifest] \notin {"good", "edited"} /\ Invalid(t) /\ UNCHANGED history
    BY <1>2, <1>a, <2>2, Zenon DEF ReadManifest, Intact, history
  <2>3. ASSUME NEW listing \in Listings(target[Manifest]),
               target[Manifest] \in {"good", "edited"},
               pc' = [pc EXCEPT ![t] = IF @ = "fast" THEN "fastfiles" ELSE "againfiles"],
               want' = [want EXCEPT ![t] = listing], UNCHANGED history
        PROVE  Inv'
    <3>1. /\ listing \in [Files -> {"good", "bad", "any"}]
          /\ target[Manifest] = "good" => \A f \in Files : listing[f] = "good"
      BY <2>3 DEF Listings
    <3>2. Types'
      BY <1>2, <2>3, <3>1, Zenon DEF ReadManifest, history
    <3>3. /\ pc'[t] = IF pc[t] = "fast" THEN "fastfiles" ELSE "againfiles"
          /\ want'[t] = listing /\ \A u \in Thread \ {t} : pc'[u] = pc[u] /\ want'[u] = want[u]
          /\ pc[t] \in {"fast", "again"}
          /\ UNCHANGED <<target, tmp, mu, lock, clean, condemned>>
      BY <1>2, <2>3, Zenon DEF ReadManifest, history
    <3>4. LockHeld' /\ OldInvalid' /\ CleanMeans' /\ TmpMade' /\ LinksToo'
      <4>1. LockHeld' /\ OldInvalid'
        BY <3>3 DEF LockHeld, Inside, OldInvalid, Making, Intact
      <4>2. CleanMeans'
        BY <3>3, ZenonT(30) DEF CleanMeans, Making
      <4>3. TmpMade' /\ LinksToo'
        BY <3>3 DEF TmpMade, LinksToo, Intact
      <4>4. QED
        BY <4>1, <4>2, <4>3, Zenon
    <3>5. Checks' /\ Rereads' /\ Returns'
      <4>1. ASSUME NEW u \in Thread, pc'[u] \in {"fastfiles", "againfiles"}, clean[u]
            PROVE  SeenOrAhead(u)'
        <5>1. CASE u = t
          BY <2>3, <3>1, <3>3, <4>1, <5>1 DEF CleanMeans, SeenOrAhead
        <5>2. CASE u # t
          <6>1. pc[u] \in {"fastfiles", "againfiles"} /\ want'[u] = want[u] /\ UNCHANGED target
            BY <3>3, <4>1, <5>2, Zenon
          <6>2. SeenOrAhead(u)
            BY <4>1, <6>1, Zenon DEF Checks
          <6>3. QED
            BY <6>1, <6>2, Zenon DEF SeenOrAhead
        <5>3. QED
          BY <5>1, <5>2, Zenon
      <4>2. ASSUME NEW u \in Thread, pc'[u] = "againfiles", target'[Manifest] = "good",
                   NEW f \in Files
            PROVE  want'[u][f] # "bad"
        <5>1. CASE u = t
          BY <3>1, <3>3, <4>2, <5>1
        <5>2. CASE u # t
          <6>1. pc[u] = "againfiles" /\ target[Manifest] = "good" /\ want'[u] = want[u]
            BY <3>3, <4>2, <5>2, Zenon
          <6>2. QED
            BY <6>1 DEF Rereads
        <5>3. QED
          BY <5>1, <5>2, Zenon
      <4>3. Returns'
        BY <3>3 DEF Intact, Returns
      <4>4. QED
        BY <3>3, <4>1, <4>2, <4>3, Zenon DEF Checks, Rereads
    <3>6. QED
      BY <3>2, <3>4, <3>5, Zenon
  <2>4. QED
    BY <1>2, <2>1, <2>2, <2>3, Zenon DEF ReadManifest
<1>3. ASSUME NEW t \in Thread, CheckFile(t) PROVE Inv'
  <2>0. PICK f \in Files :
          /\ want[t][f] # "any"
          /\ \/ /\ target[f] = want[t][f]
                /\ want' = [want EXCEPT ![t][f] = "any"] /\ UNCHANGED <<pc, history>>
             \/ target[f] # want[t][f] /\ Invalid(t) /\ UNCHANGED history
             \/ Misread(t)
    BY <1>3, Zenon DEF CheckFile
  <2>1. CASE Misread(t)
    BY <1>3, <1>b, <2>1, Zenon DEF CheckFile
  <2>2. CASE target[f] # want[t][f] /\ Invalid(t) /\ UNCHANGED history
    <3>1. pc[t] = "againfiles" => ~Intact
      BY <2>0, <2>2 DEF Rereads, Intact
    <3>2. QED
      BY <1>3, <1>a, <2>2, <3>1, Zenon DEF CheckFile, history
  <2>3. CASE /\ target[f] = want[t][f]
             /\ want' = [want EXCEPT ![t][f] = "any"] /\ UNCHANGED <<pc, history>>
    <3>1. /\ want' \in [Thread -> [Files -> {"good", "bad", "any"}]]
          /\ want'[t][f] = "any" /\ \A g \in Files \ {f} : want'[t][g] = want[t][g]
          /\ \A u \in Thread \ {t} : want'[u] = want[u]
      BY <2>3
    <3>2. UNCHANGED <<target, tmp, pc, mu, lock, clean, condemned>>
      BY <1>3, <2>3, Zenon DEF CheckFile, history
    <3>3. Types'
      BY <3>1, <3>2, Zenon
    <3>4. /\ LockHeld' /\ OldInvalid' /\ CleanMeans' /\ TmpMade' /\ LinksToo'
          /\ Returns'
      BY <3>2 DEF LockHeld, Inside, OldInvalid, Making, CleanMeans, TmpMade, LinksToo, Intact, Returns
    <3>5. ASSUME NEW u \in Thread, pc[u] = "againfiles", target[Manifest] = "good",
                 NEW g \in Files
          PROVE  want'[u][g] # "bad"
      <4>1. want[u][g] # "bad"
        BY <3>5 DEF Rereads
      <4>2. want'[u][g] \in {want[u][g], "any"}
        BY <3>1, ZenonT(30)
      <4>3. QED
        BY <4>1, <4>2
    <3>6. ASSUME NEW u \in Thread, pc[u] \in {"fastfiles", "againfiles"}, clean[u]
          PROVE  SeenOrAhead(u)'
      <4>1. SeenOrAhead(u)
        BY <3>6, Zenon DEF Checks
      <4>2. CASE u = t
        BY <2>0, <2>3, <3>1, <3>2, <4>1, <4>2 DEF SeenOrAhead
      <4>3. CASE u # t
        BY <3>1, <3>2, <4>1, <4>3, Zenon DEF SeenOrAhead
      <4>4. QED
        BY <4>2, <4>3, Zenon
    <3>7. QED
      BY <3>2, <3>3, <3>4, <3>5, <3>6, Zenon DEF Checks, Rereads
  <2>4. QED
    BY <2>0, <2>1, <2>2, <2>3, Zenon
<1>4. ASSUME NEW t \in Thread, Valid(t) PROVE Inv'
  <2>1. Types'
    BY <1>4 DEF Valid, history
  <2>2. LockHeld'
    BY <1>4 DEF LockHeld, Inside, Valid, history
  <2>3. OldInvalid'
    BY <1>4 DEF LockHeld, Inside, OldInvalid, Making, Intact, Valid, history
  <2>4. CleanMeans'
    BY <1>4 DEF LockHeld, Inside, CleanMeans, Making, TmpMade, Valid, history
  <2>5. TmpMade'
    BY <1>4 DEF TmpMade, Valid, history
  <2>6. LinksToo'
    BY <1>4 DEF OldInvalid, Making, TmpMade, LinksToo, Intact, Valid, history
  <2>7. Checks'
    BY <1>4 DEF OldInvalid, CleanMeans, Making, TmpMade, Intact, Checks, SeenOrAhead, Valid, history
  <2>8. Returns'
    BY <1>4 DEF OldInvalid, CleanMeans, Making, TmpMade, Intact, Checks, SeenOrAhead, Returns, Valid, history
  <2>9. Rereads'
    BY <1>4 DEF Rereads, LockHeld, Inside, Valid, history
  <2>10. QED
    BY <2>1, <2>2, <2>3, <2>4, <2>5, <2>6, <2>7, <2>8, <2>9, Zenon
<1>5. ASSUME NEW t \in Thread, MutexLock(t) PROVE Inv'
  <2>1. Types'
    BY <1>5 DEF MutexLock, history
  <2>2. LockHeld'
    BY <1>5 DEF LockHeld, Inside, MutexLock, history
  <2>3. OldInvalid'
    BY <1>5 DEF LockHeld, Inside, OldInvalid, Making, Intact, MutexLock, history
  <2>4. CleanMeans'
    BY <1>5 DEF LockHeld, Inside, CleanMeans, Making, TmpMade, MutexLock, history
  <2>5. TmpMade'
    BY <1>5 DEF TmpMade, MutexLock, history
  <2>6. LinksToo'
    BY <1>5 DEF OldInvalid, Making, TmpMade, LinksToo, Intact, MutexLock, history
  <2>7. Checks'
    BY <1>5 DEF OldInvalid, CleanMeans, Making, TmpMade, Intact, Checks, SeenOrAhead, MutexLock, history
  <2>8. Returns'
    BY <1>5 DEF OldInvalid, CleanMeans, Making, TmpMade, Intact, Checks, SeenOrAhead, Returns, MutexLock, history
  <2>9. Rereads'
    BY <1>5 DEF Rereads, LockHeld, Inside, MutexLock, history
  <2>10. QED
    BY <2>1, <2>2, <2>3, <2>4, <2>5, <2>6, <2>7, <2>8, <2>9, Zenon
<1>6. ASSUME NEW t \in Thread, FileLock(t) PROVE Inv'
  <2>1. Types'
    BY <1>6 DEF FileLock, history
  <2>2. LockHeld'
    BY <1>6 DEF LockHeld, Inside, FileLock, history
  <2>3. OldInvalid'
    BY <1>6 DEF LockHeld, Inside, OldInvalid, Making, Intact, FileLock, history
  <2>4. CleanMeans'
    BY <1>6 DEF LockHeld, Inside, CleanMeans, Making, TmpMade, FileLock, history
  <2>5. TmpMade'
    BY <1>6 DEF TmpMade, FileLock, history
  <2>6. LinksToo'
    BY <1>6 DEF OldInvalid, Making, TmpMade, LinksToo, Intact, FileLock, history
  <2>7. Checks'
    BY <1>6 DEF OldInvalid, CleanMeans, Making, TmpMade, Intact, Checks, SeenOrAhead, FileLock, history
  <2>8. Returns'
    BY <1>6 DEF OldInvalid, CleanMeans, Making, TmpMade, Intact, Checks, SeenOrAhead, Returns, FileLock, history
  <2>9. Rereads'
    BY <1>6 DEF Rereads, LockHeld, Inside, FileLock, history
  <2>10. QED
    BY <2>1, <2>2, <2>3, <2>4, <2>5, <2>6, <2>7, <2>8, <2>9, Zenon
<1>7. ASSUME NEW t \in Thread, MakeTemp(t) PROVE Inv'
  <2>1. Types'
    BY <1>7 DEF MakeTemp, history
  <2>2. LockHeld'
    BY <1>7 DEF LockHeld, Inside, MakeTemp, history
  <2>3. OldInvalid'
    BY <1>7 DEF LockHeld, Inside, OldInvalid, Making, Intact, MakeTemp, history
  <2>4. CleanMeans'
    BY <1>7 DEF LockHeld, Inside, CleanMeans, Making, TmpMade, MakeTemp, history
  <2>5. TmpMade'
    BY <1>7 DEF TmpMade, MakeTemp, history
  <2>6. LinksToo'
    BY <1>7 DEF OldInvalid, Making, TmpMade, LinksToo, Intact, MakeTemp, history
  <2>7. Checks'
    BY <1>7 DEF OldInvalid, CleanMeans, Making, TmpMade, Intact, Checks, SeenOrAhead, MakeTemp, history
  <2>8. Returns'
    BY <1>7 DEF OldInvalid, CleanMeans, Making, TmpMade, Intact, Checks, SeenOrAhead, Returns, MakeTemp, history
  <2>9. Rereads'
    BY <1>7 DEF Rereads, LockHeld, Inside, MakeTemp, history
  <2>10. QED
    BY <2>1, <2>2, <2>3, <2>4, <2>5, <2>6, <2>7, <2>8, <2>9, Zenon
<1>8. ASSUME NEW t \in Thread, WritePart(t) PROVE Inv'
  <2>1. Types'
    <3>1. \E x \in Part : tmp' = [tmp EXCEPT ![t][x] = "good"]
      BY <1>8, Zenon DEF WritePart, ExtractFile, CreateSymlinks, WriteManifest
    <3>2. tmp' \in [Thread -> [Part -> {"good", "absent"}]]
      BY <3>1
    <3>3. pc' \in [Thread -> Steps]
      BY <1>8, ZenonT(30) DEF WritePart, ExtractFile, CreateSymlinks, WriteManifest
    <3>4. QED
      BY <1>8, <3>2, <3>3, Zenon DEF WritePart, history
  <2>2. LockHeld'
    BY <1>8 DEF LockHeld, Inside, WritePart, ExtractFile, CreateSymlinks, WriteManifest, history
  <2>3. OldInvalid'
    BY <1>8 DEF LockHeld, Inside, OldInvalid, Making, Intact, WritePart, ExtractFile, CreateSymlinks, WriteManifest, history
  <2>4. CleanMeans'
    BY <1>8 DEF LockHeld, Inside, CleanMeans, Making, TmpMade, WritePart, ExtractFile, CreateSymlinks, WriteManifest, history
  <2>5. TmpMade'
    BY <1>8 DEF TmpMade, WritePart, ExtractFile, CreateSymlinks, WriteManifest, history
  <2>6. LinksToo'
    BY <1>8 DEF OldInvalid, Making, TmpMade, LinksToo, Intact, WritePart, ExtractFile, CreateSymlinks, WriteManifest, history
  <2>7. Checks'
    BY <1>8 DEF OldInvalid, CleanMeans, Making, TmpMade, Intact, Checks, SeenOrAhead, WritePart, ExtractFile, CreateSymlinks, WriteManifest, history
  <2>8. Returns'
    BY <1>8 DEF OldInvalid, CleanMeans, Making, TmpMade, Intact, Checks, SeenOrAhead, Returns, WritePart, ExtractFile, CreateSymlinks, WriteManifest, history
  <2>9. Rereads'
    BY <1>8 DEF Rereads, LockHeld, Inside, WritePart, ExtractFile, CreateSymlinks, WriteManifest, history
  <2>10. QED
    BY <2>1, <2>2, <2>3, <2>4, <2>5, <2>6, <2>7, <2>8, <2>9, Zenon
<1>9. ASSUME NEW t \in Thread, RemoveStale(t) PROVE Inv'
  <2>1. Types'
    BY <1>9 DEF RemoveStale, history
  <2>2. LockHeld'
    BY <1>9 DEF LockHeld, Inside, RemoveStale, history
  <2>3. OldInvalid'
    BY <1>9 DEF LockHeld, Inside, OldInvalid, Making, Intact, RemoveStale, history
  <2>4. CleanMeans'
    BY <1>9 DEF LockHeld, Inside, CleanMeans, Making, TmpMade, RemoveStale, history
  <2>5. TmpMade'
    BY <1>9 DEF TmpMade, RemoveStale, history
  <2>6. LinksToo'
    BY <1>9 DEF OldInvalid, Making, TmpMade, LinksToo, Intact, RemoveStale, history
  <2>7. Checks'
    <3>1. PICK x \in Part : target' = [target EXCEPT ![x] = "absent"]
      BY <1>9, Zenon DEF RemoveStale
    <3>2. ASSUME NEW u \in Thread, pc[u] \in {"fastfiles", "againfiles"}, clean[u]
          PROVE  SeenOrAhead(u)'
      <4>1. SeenOrAhead(u) /\ ~condemned
        BY <3>2, Zenon DEF Checks, CleanMeans, Making
      <4>2. ~Intact
        BY <1>9, <4>1, Zenon DEF RemoveStale, OldInvalid, Making
      <4>3. PICK f \in Files : want[u][f] = "good" /\ target[f] # "good"
        BY <4>1, <4>2, Zenon DEF SeenOrAhead, Intact
      <4>4. target'[f] # "good"
        BY <3>1, <4>3
      <4>5. QED
        BY <1>9, <4>1, <4>3, <4>4, Zenon DEF SeenOrAhead, RemoveStale
    <3>3. QED
      BY <1>9, <3>2, Zenon DEF Checks, RemoveStale, history
  <2>8. Returns'
    BY <1>9, ZenonT(30) DEF OldInvalid, CleanMeans, Making, TmpMade, Intact, Checks, SeenOrAhead, Returns, RemoveStale, history
  <2>9. Rereads'
    BY <1>9 DEF Rereads, LockHeld, Inside, RemoveStale, history
  <2>10. QED
    BY <2>1, <2>2, <2>3, <2>4, <2>5, <2>6, <2>7, <2>8, <2>9, Zenon
<1>10. ASSUME NEW t \in Thread, RenameToTarget(t) PROVE Inv'
  <2>1. Types'
    <3>1. \A x \in Part : tmp[t][x] \in State
      BY <1>10
    <3>2. target' \in [Part -> State]
      BY <1>10, <3>1 DEF RenameToTarget
    <3>3. QED
      BY <1>10, <3>2, ZenonT(30) DEF RenameToTarget
  <2>2. LockHeld'
    BY <1>10 DEF LockHeld, Inside, RenameToTarget, history
  <2>3. OldInvalid'
    BY <1>10 DEF LockHeld, Inside, OldInvalid, Making, Intact, RenameToTarget, history
  <2>4. CleanMeans'
    BY <1>10 DEF LockHeld, Inside, CleanMeans, Making, TmpMade, RenameToTarget, history
  <2>5. TmpMade'
    BY <1>10 DEF TmpMade, RenameToTarget, history
  <2>6. LinksToo'
    BY <1>10 DEF OldInvalid, Making, TmpMade, LinksToo, Intact, RenameToTarget, history
  <2>7. Checks'
    BY <1>10 DEF OldInvalid, CleanMeans, Making, TmpMade, Intact, Checks, SeenOrAhead, RenameToTarget, history
  <2>8. Returns'
    BY <1>10 DEF OldInvalid, CleanMeans, Making, TmpMade, Intact, Checks, SeenOrAhead, Returns, RenameToTarget, history
  <2>9. Rereads'
    BY <1>10 DEF Rereads, LockHeld, Inside, RenameToTarget, history
  <2>10. QED
    BY <2>1, <2>2, <2>3, <2>4, <2>5, <2>6, <2>7, <2>8, <2>9, Zenon
<1>11. ASSUME NEW t \in Thread, StepFails(t) PROVE Inv'
  <2>1. Types'
    BY <1>11 DEF StepFails, history
  <2>2. LockHeld'
    BY <1>11 DEF LockHeld, Inside, StepFails, history
  <2>3. OldInvalid'
    BY <1>11 DEF LockHeld, Inside, OldInvalid, Making, Intact, StepFails, history
  <2>4. CleanMeans'
    BY <1>11 DEF LockHeld, Inside, CleanMeans, Making, TmpMade, StepFails, history
  <2>5. TmpMade'
    BY <1>11 DEF TmpMade, StepFails, history
  <2>6. LinksToo'
    BY <1>11 DEF OldInvalid, Making, TmpMade, LinksToo, Intact, StepFails, history
  <2>7. Checks'
    BY <1>11 DEF OldInvalid, CleanMeans, Making, TmpMade, Intact, Checks, SeenOrAhead, StepFails, history
  <2>8. Returns'
    BY <1>11 DEF OldInvalid, CleanMeans, Making, TmpMade, Intact, Checks, SeenOrAhead, Returns, StepFails, history
  <2>9. Rereads'
    BY <1>11 DEF Rereads, LockHeld, Inside, StepFails, history
  <2>10. QED
    BY <2>1, <2>2, <2>3, <2>4, <2>5, <2>6, <2>7, <2>8, <2>9, Zenon
<1>12. ASSUME NEW t \in Thread, LockFails(t) PROVE Inv'
  <2>1. Types'
    BY <1>12, SMTT(30) DEF LockFails, history
  <2>2. LockHeld'
    BY <1>12 DEF LockHeld, Inside, LockFails, history
  <2>3. OldInvalid'
    BY <1>12 DEF LockHeld, Inside, OldInvalid, Making, Intact, LockFails, history
  <2>4. CleanMeans'
    BY <1>12 DEF LockHeld, Inside, CleanMeans, Making, TmpMade, LockFails, history
  <2>5. TmpMade'
    BY <1>12 DEF TmpMade, LockFails, history
  <2>6. LinksToo'
    BY <1>12 DEF OldInvalid, Making, TmpMade, LinksToo, Intact, LockFails, history
  <2>7. Checks'
    BY <1>12 DEF OldInvalid, CleanMeans, Making, TmpMade, Intact, Checks, SeenOrAhead, LockFails, history
  <2>8. Returns'
    BY <1>12 DEF OldInvalid, CleanMeans, Making, TmpMade, Intact, Checks, SeenOrAhead, Returns, LockFails, history
  <2>9. Rereads'
    BY <1>12 DEF Rereads, LockHeld, Inside, LockFails, history
  <2>10. QED
    BY <2>1, <2>2, <2>3, <2>4, <2>5, <2>6, <2>7, <2>8, <2>9, Zenon
<1>13. ASSUME NEW t \in Thread, Unlock(t) PROVE Inv'
  <2>1. Types'
    BY <1>13 DEF Unlock, Sound
  <2>2. LockHeld'
    BY <1>13 DEF LockHeld, Inside, Unlock, Sound
  <2>3. OldInvalid'
    BY <1>13 DEF LockHeld, Inside, OldInvalid, Making, Intact, Unlock, Sound
  <2>4. CleanMeans'
    BY <1>13 DEF LockHeld, Inside, CleanMeans, Making, TmpMade, Unlock, Sound
  <2>5. TmpMade'
    BY <1>13 DEF TmpMade, Unlock, Sound
  <2>6. LinksToo'
    BY <1>13 DEF OldInvalid, Making, TmpMade, LinksToo, Intact, Unlock, Sound
  <2>7. Checks'
    BY <1>13 DEF OldInvalid, CleanMeans, Making, TmpMade, Intact, Checks, SeenOrAhead, Unlock, Sound
  <2>8. Returns'
    BY <1>13 DEF OldInvalid, CleanMeans, Making, TmpMade, Intact, Checks, SeenOrAhead, Returns, Unlock, Sound
  <2>9. Rereads'
    BY <1>13 DEF Rereads, LockHeld, Inside, Unlock, Sound
  <2>10. QED
    BY <2>1, <2>2, <2>3, <2>4, <2>5, <2>6, <2>7, <2>8, <2>9, Zenon
<1>14. ASSUME NEW p \in Process, Die(p) PROVE Inv'
  <2>1. Types'
    BY <1>14, ZenonT(30) DEF Die, Sound
  <2>2. LockHeld'
    BY <1>14 DEF LockHeld, Inside, Die, Sound
  <2>3. OldInvalid'
    BY <1>14 DEF LockHeld, Inside, OldInvalid, Making, Intact, Die, Sound
  <2>4. CleanMeans'
    BY <1>14 DEF LockHeld, Inside, CleanMeans, Making, TmpMade, Die, Sound
  <2>5. TmpMade'
    BY <1>14 DEF TmpMade, Die, Sound
  <2>6. LinksToo'
    BY <1>14 DEF OldInvalid, Making, TmpMade, LinksToo, Intact, Die, Sound
  <2>7. Checks'
    BY <1>14 DEF OldInvalid, CleanMeans, Making, TmpMade, Intact, Checks, SeenOrAhead, Die, Sound
  <2>8. Returns'
    BY <1>14 DEF OldInvalid, CleanMeans, Making, TmpMade, Intact, Checks, SeenOrAhead, Returns, Die, Sound
  <2>9. Rereads'
    BY <1>14 DEF Rereads, LockHeld, Inside, Die, Sound
  <2>10. QED
    BY <2>1, <2>2, <2>3, <2>4, <2>5, <2>6, <2>7, <2>8, <2>9, Zenon
<1>15. ASSUME Damage PROVE Inv'
  <2>1. Types'
    BY <1>15 DEF Damage, history
  <2>2. LockHeld'
    BY <1>15 DEF LockHeld, Inside, Damage, history
  <2>3. OldInvalid'
    BY <1>15 DEF LockHeld, Inside, OldInvalid, Making, Intact, Damage, history
  <2>4. CleanMeans'
    BY <1>15 DEF LockHeld, Inside, CleanMeans, Making, TmpMade, Damage, history
  <2>5. TmpMade'
    BY <1>15 DEF TmpMade, Damage, history
  <2>6. LinksToo'
    BY <1>15 DEF OldInvalid, Making, TmpMade, LinksToo, Intact, Damage, history
  <2>7. Checks'
    BY <1>15 DEF OldInvalid, CleanMeans, Making, TmpMade, Intact, Checks, SeenOrAhead, Damage, history
  <2>8. Returns'
    BY <1>15 DEF OldInvalid, CleanMeans, Making, TmpMade, Intact, Checks, SeenOrAhead, Returns, Damage, history
  <2>9. Rereads'
    BY <1>15, SMTT(30) DEF Rereads, LockHeld, Inside, Damage, history
  <2>10. QED
    BY <2>1, <2>2, <2>3, <2>4, <2>5, <2>6, <2>7, <2>8, <2>9, Zenon
<1>16. ASSUME UNCHANGED vars PROVE Inv'
  BY <1>16 DEF Inv, Types, LockHeld, Inside, OldInvalid, CleanMeans, Making, TmpMade, LinksToo,
               Intact, Checks, SeenOrAhead, Rereads, Returns, vars
<1>17. QED
  BY <1>1, <1>2, <1>3, <1>4, <1>5, <1>6, <1>7, <1>8, <1>9, <1>10, <1>11, <1>12, <1>13,
     <1>14, <1>15, <1>16, ZenonT(30) DEF Next

\* The invariant holds in every reachable state.
THEOREM EnsureInv == Spec => []Inv
  BY InitInv, StepInv, PTL DEF Spec

\* A directory that Ensure returned has every part in it for as long as nothing
\* damages the cache and no check under the lock fails to read it.
THEOREM EnsureReturnsWhole == Spec => []ReturnedWhole
<1>1. Inv => ReturnedWhole
  BY Zenon DEF Inv, Returns, CleanMeans, Making, LinksToo, Intact, ReturnedWhole, Sound, Part
<1>2. QED
  BY <1>1, EnsureInv, PTL

-----------------------------------------------------------------------------
(* DiskFetch.                                                              *)

FetchSteps ==
  {"stat", "cached", "drop", "get", "body", "rename", "verify", "discard", "done", "failed"}

FetchTypes ==
  /\ sum \in [Fetcher -> BOOLEAN]
  /\ fpc \in [Fetcher -> FetchSteps]
  /\ ftmp \in [Fetcher -> {None, "right", "wrong", "part"}]
  /\ alone \in [Fetcher -> BOOLEAN]

RenamesWhole == \A f \in Fetcher : fpc[f] = "rename" => ftmp[f] \in {"right", "wrong"}

FetchInv == FetchTypes /\ RenamesWhole /\ FetchedVerified

\* Every step of Fetch keeps the invariant.  Only a rename or a removal changes
\* what is at the destination, and then nobody else counts as alone.
LEMMA FetchStep ==
  ASSUME FetchInv, [F!Next]_(F!vars)
  PROVE  FetchInv'
<1> USE HelpersAssumption
DEF FetchInv, FetchTypes, FetchSteps, RenamesWhole, FetchedVerified, F!FetchedVerified,
  F!Goto, F!Touch
<1>1. ASSUME NEW f \in Fetcher, F!Stat(f) PROVE FetchInv'
  BY <1>1, Zenon DEF F!Stat
<1>2. ASSUME NEW f \in Fetcher, F!CheckCached(f) PROVE FetchInv'
  BY <1>2, Zenon DEF F!CheckCached, F!verifyChecksum
<1>3. ASSUME NEW f \in Fetcher, F!RemoveCached(f) PROVE FetchInv'
  BY <1>3, ZenonT(30) DEF F!RemoveCached, F!Remove
<1>4. ASSUME NEW f \in Fetcher, F!Get(f) PROVE FetchInv'
  BY <1>4, Zenon DEF F!Get
<1>5. ASSUME NEW f \in Fetcher, F!GiveUp(f) PROVE FetchInv'
  BY <1>5, Zenon DEF F!GiveUp
<1>6. ASSUME NEW f \in Fetcher, F!Body(f) PROVE FetchInv'
  BY <1>6, Zenon DEF F!Body
<1>7. ASSUME NEW f \in Fetcher, F!Rename(f) PROVE FetchInv'
  BY <1>7, ZenonT(30) DEF F!Rename
<1>8. ASSUME NEW f \in Fetcher, F!Verify(f) PROVE FetchInv'
  BY <1>8, Zenon DEF F!Verify, F!verifyChecksum
<1>9. ASSUME NEW f \in Fetcher, F!RemoveWrong(f) PROVE FetchInv'
  BY <1>9, ZenonT(30) DEF F!RemoveWrong, F!Remove
<1>10. ASSUME NEW f \in Fetcher, F!Die(f) PROVE FetchInv'
  BY <1>10, Zenon DEF F!Die
<1>11. ASSUME UNCHANGED F!vars PROVE FetchInv'
  BY <1>11, Zenon DEF F!vars
<1>12. QED
  BY <1>1, <1>2, <1>3, <1>4, <1>5, <1>6, <1>7, <1>8, <1>9, <1>10, <1>11, Zenon DEF F!Next

\* The destination never holds a part of a body, and a checked fetch leaves the
\* right one there until another fetch touches it.
THEOREM FetchVerified == F!Spec => []FetchedVerified
<1>1. F!Init => FetchInv
  BY HelpersAssumption, Zenon
  DEF F!Init, FetchInv, FetchTypes, FetchSteps, RenamesWhole, FetchedVerified,
      F!FetchedVerified
<1>2. FetchInv /\ [F!Next]_(F!vars) => FetchInv'
  BY FetchStep, Zenon
<1>3. FetchInv => FetchedVerified
  BY Zenon DEF FetchInv
<1>4. QED
  BY <1>1, <1>2, <1>3, PTL DEF F!Spec

-----------------------------------------------------------------------------
(* TimeSync.                                                               *)

ClockTypes ==
  /\ phase \in 0 .. Second - 1 /\ lag \in Int
  /\ cpc \in {"wait", "ask", "answered", "set"}
  /\ epoch \in Int /\ sent \in Int /\ age \in 0 .. MaxFlight
  /\ synced \in BOOLEAN /\ fresh \in BOOLEAN /\ naps \in Nat

\* A time on its way, taken since the host last slept, is as old as the ticks
\* it has been under way, but for the part of a second that was cut off.
InFlight ==
  /\ cpc = "answered" /\ fresh => (phase - epoch * Second) - (age + lag) \in 0 .. Second - 1
  /\ cpc = "set" /\ fresh => (phase - sent * Second) - age \in 0 .. Second - 1

ClockInv == ClockTypes /\ InFlight /\ (synced => fresh) /\ ClockBounded

LEMMA Multiples ==
  ASSUME NEW a \in Int, NEW b \in Int, a =< b
  PROVE  /\ a * Second \in Int /\ b * Second \in Int
         /\ a * Second =< b * Second
         /\ (a - 1) * Second = a * Second - Second
BY HelpersAssumption

LEMMA Division ==
  ASSUME NEW a \in Int
  PROVE  a \div Second \in Int /\ a - (a \div Second) * Second \in 0 .. Second - 1
BY HelpersAssumption

\* The bounds as integers.
LEMMA Bounds ==
  /\ Threshold * Second \in Int /\ 0 =< Threshold * Second
  /\ C!Ahead = Threshold * Second + MaxFlight
  /\ C!Behind \in Int /\ C!Behind >= Second + Threshold * Second /\ C!Behind >= Second + MaxFlight
<1>1. Threshold * Second \in Int /\ 0 =< Threshold * Second
  BY HelpersAssumption, Multiples
<1>2. QED
  BY <1>1, HelpersAssumption DEF C!Ahead, C!Behind

LEMMA InitClock == C!Init => ClockInv
<1> SUFFICES ASSUME C!Init PROVE ClockInv
  BY Zenon
<1>1. synced \in BOOLEAN /\ fresh \in BOOLEAN
  BY Zenon DEF C!Init
<1>2. ClockTypes
  BY <1>1, HelpersAssumption DEF C!Init, ClockTypes
<1>3. QED
  BY <1>2, Zenon DEF C!Init, ClockInv, InFlight, ClockBounded, C!ClockBounded

LEMMA StepClock == ClockInv /\ [C!Next]_(C!vars) => ClockInv'
<1> SUFFICES ASSUME ClockInv, [C!Next]_(C!vars) PROVE ClockInv'
  BY Zenon
<1>t. ClockTypes /\ InFlight /\ (synced => fresh) /\ ClockBounded
  BY Zenon DEF ClockInv
<1>s. Second \in Nat /\ Second > 0 /\ Threshold \in Nat /\ MaxFlight \in Nat
  BY HelpersAssumption
<1>a. /\ C!Ahead \in Int /\ C!Behind \in Int
      /\ C!Ahead' = C!Ahead /\ C!Behind' = C!Behind
  BY <1>s, Bounds DEF C!Ahead, C!Behind
<1>1. CASE C!Tick
  <2>1. \/ phase' = phase + 1 /\ phase' # 0 /\ phase + 1 =< Second - 1
        \/ phase' = 0 /\ phase = Second - 1
    BY <1>1, <1>t, <1>s DEF C!Tick, ClockTypes
  <2>2. ClockTypes'
    BY <1>1, <1>t, <1>s, <2>1 DEF C!Tick, C!Pass, ClockTypes
  <2>3. InFlight'
    <3>1. CASE phase' = phase + 1 /\ phase' # 0
      BY <1>1, <1>t, <1>s, <3>1, Multiples DEF C!Tick, C!Pass, ClockTypes, InFlight
    <3>2. CASE phase' = 0 /\ phase = Second - 1
      BY <1>1, <1>t, <1>s, <3>2, Multiples DEF C!Tick, C!Pass, ClockTypes, InFlight
    <3>3. QED
      BY <2>1, <3>1, <3>2, Zenon
  <2>4. QED
    BY <1>1, <1>t, <1>a, <2>2, <2>3, Zenon DEF C!Tick, ClockInv, ClockBounded, C!ClockBounded
<1>2. CASE C!Nap
  <2>1. PICK n \in Naps : C!Pass(n) /\ lag' = lag + n * Second
    BY <1>2, Zenon DEF C!Nap
  <2>2. n \in Int /\ lag' \in Int
    BY <1>t, <1>s, <2>1, HelpersAssumption DEF ClockTypes
  <2>3. ClockTypes'
    <3>1. epoch' \in Int /\ sent' \in Int
      BY <1>t, <2>1, <2>2 DEF C!Pass, ClockTypes
    <3>2. synced' \in BOOLEAN /\ fresh' \in BOOLEAN
      BY <1>2, Zenon DEF C!Nap
    <3>3. QED
      BY <1>2, <1>t, <2>2, <3>1, <3>2 DEF C!Nap, ClockTypes
  <2>4. QED
    BY <1>2, <2>3, Zenon DEF C!Nap, ClockInv, InFlight, ClockBounded, C!ClockBounded
<1>3. CASE C!Wake
  BY <1>3, <1>t, <1>a, Zenon
  DEF C!Wake, ClockInv, ClockTypes, InFlight, ClockBounded, C!ClockBounded
<1>4. CASE C!ReadGuest
  <2>1. epoch' \in Int /\ (phase - lag) - epoch' * Second \in 0 .. Second - 1
    BY <1>4, <1>t, <1>s, Division DEF C!ReadGuest, ClockTypes
  <2>2. epoch' * Second \in Int
    BY <1>s, <2>1
  <2>3. ClockTypes' /\ InFlight'
    BY <1>4, <1>t, <1>s, <2>1, <2>2 DEF C!ReadGuest, ClockTypes, InFlight
  <2>4. QED
    BY <1>4, <1>t, <1>a, <2>3, Zenon DEF C!ReadGuest, ClockInv, ClockBounded, C!ClockBounded
<1>5. CASE C!RoundFails
  BY <1>5, <1>t, <1>s, <1>a DEF C!RoundFails, ClockInv, ClockTypes, InFlight, ClockBounded,
     C!ClockBounded
<1>6. CASE C!Compare
  <2>1. ClockTypes' /\ InFlight'
    BY <1>6, <1>t, <1>s DEF C!Compare, ClockTypes, InFlight
  <2>2. CASE synced' = synced
    BY <1>6, <1>t, <1>a, <2>1, <2>2, Zenon DEF C!Compare, ClockInv, ClockBounded, C!ClockBounded
  <2>3. CASE synced' = fresh /\ fresh /\ -Threshold < epoch /\ epoch < Threshold
    <3>1. /\ epoch * Second =< Threshold * Second - Second
          /\ -Threshold * Second =< epoch * Second - Second
          /\ -Threshold * Second = -(Threshold * Second)
          /\ epoch * Second \in Int
      BY <1>t, <1>s, <2>3, Multiples DEF ClockTypes
    <3>2. (phase - epoch * Second) - (age + lag) \in 0 .. Second - 1
      BY <1>6, <1>t, <2>3, Zenon DEF C!Compare, InFlight
    <3>3. -C!Ahead =< lag /\ lag =< C!Behind
      BY <1>t, <1>s, <3>1, <3>2, Bounds DEF ClockTypes
    <3>4. QED
      BY <1>6, <1>a, <2>1, <2>3, <3>3, Zenon DEF C!Compare, ClockInv, ClockBounded, C!ClockBounded
  <2>4. CASE synced' = fresh /\ ~fresh
    BY <1>6, <1>t, <2>1, <2>4, Zenon DEF C!Compare, ClockInv, ClockBounded, C!ClockBounded
  <2>5. QED
    BY <1>6, <1>t, <1>s, <2>2, <2>3, <2>4 DEF C!Compare, ClockTypes
<1>7. CASE C!SetGuest
  <2>1. sent * Second \in Int /\ lag' = phase - sent * Second
    BY <1>7, <1>t, <1>s DEF C!SetGuest, ClockTypes
  <2>2. ClockTypes' /\ InFlight'
    BY <1>7, <1>t, <1>s, <2>1 DEF C!SetGuest, ClockTypes, InFlight
  <2>3. fresh => 0 =< lag' /\ lag' =< Second + MaxFlight
    BY <1>7, <1>t, <1>s, <2>1 DEF C!SetGuest, ClockTypes, InFlight
  <2>4. fresh => -C!Ahead =< lag' /\ lag' =< C!Behind
    BY <1>s, <2>1, <2>2, <2>3, Bounds DEF ClockTypes
  <2>5. synced' => fresh' /\ fresh
    BY <1>7, <1>t, ZenonT(30) DEF C!SetGuest
  <2>6. QED
    BY <1>a, <2>2, <2>4, <2>5, Zenon DEF ClockInv, ClockBounded, C!ClockBounded
<1>8. CASE UNCHANGED C!vars
  BY <1>8, <1>t, <1>a, Zenon
  DEF C!vars, ClockInv, ClockTypes, InFlight, ClockBounded, C!ClockBounded
<1>9. QED
  BY <1>1, <1>2, <1>3, <1>4, <1>5, <1>6, <1>7, <1>8, Zenon DEF C!Next

\* After a round that began since the host last slept, the guest's clock is
\* within the threshold and the time a request takes of the host's, for every
\* threshold, resolution and delay (timesync SyncOnce, sshd handleSettime).
THEOREM ClockStaysBounded == C!Spec => []ClockBounded
<1>1. ClockInv => ClockBounded
  BY Zenon DEF ClockInv
<1>2. QED
  BY <1>1, InitClock, StepClock, PTL DEF C!Spec
=============================================================================
