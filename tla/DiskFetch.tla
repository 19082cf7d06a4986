------------------------------ MODULE DiskFetch -----------------------------
(***************************************************************************)
(* disk.Fetch: a disk image is downloaded into a cache directory, under    *)
(* the last component of its URL, unless it is there already.  Nothing     *)
(* locks the directory.                                                    *)
(*                                                                         *)
(* Contents are "right" (what the checksum is of), "wrong" (a whole body   *)
(* of something else) or "part" (what was written of a body that broke     *)
(* off).  A fetch runs with a checksum or without one.                     *)
(***************************************************************************)
EXTENDS Integers

CONSTANTS
  Fetcher,      \* callers of Fetch for the same URL and directory
  None,
  MaxTries      \* how often a download is tried within three minutes

VARIABLES
  sum,          \* per fetcher: it has a checksum
  pc,           \* per fetcher: where it is in Fetch
  tmp,          \* per fetcher: what is in its .download-* file
  tries,        \* per fetcher: downloads tried
  dest,         \* what is at destPath
  alone         \* per fetcher: nobody else touched destPath since it looked
                \* at the contents of what it returns

vars == <<sum, pc, tmp, tries, dest, alone>>

Init ==
  /\ sum \in [Fetcher -> BOOLEAN]
  /\ pc = [f \in Fetcher |-> "stat"]
  /\ tmp = [f \in Fetcher |-> None]
  /\ tries = [f \in Fetcher |-> 0]
  /\ dest \in {None, "right", "wrong"}
  /\ alone = [f \in Fetcher |-> TRUE]

Goto(f, to) == pc' = [pc EXCEPT ![f] = to]

\* f changes destPath under everyone else.
Touch(f) == alone' = [g \in Fetcher |-> alone[g] /\ g = f]

Stat(f) ==
  /\ pc[f] = "stat"
  /\ Goto(f, IF dest = None THEN "get" ELSE IF sum[f] THEN "cached" ELSE "done")
  /\ UNCHANGED <<sum, tmp, tries, dest, alone>>

\* verifyChecksum of what is at destPath by now: it fails unless that is the right
\* file, and may fail then too, when the file cannot be opened or read.
verifyChecksum(f, right, wrong) ==
  \/ dest = "right" /\ Goto(f, right)
  \/ Goto(f, wrong)

\* The file that was there, which is removed if its checksum is not verified.
CheckCached(f) ==
  /\ pc[f] = "cached"
  /\ alone' = [alone EXCEPT ![f] = TRUE]
  /\ verifyChecksum(f, "done", "drop")
  /\ UNCHANGED <<sum, tmp, tries, dest>>

\* os.Remove, whose error nobody looks at.
Remove == dest' \in {None, dest}

RemoveCached(f) ==
  /\ pc[f] = "drop"
  /\ Remove /\ Touch(f)
  /\ Goto(f, "get")
  /\ UNCHANGED <<sum, tmp, tries>>

\* downloadFile, up to its temporary file: the request fails or is answered
\* with an error, which is final for a 4xx; or a body begins.
Get(f) ==
  /\ pc[f] = "get" /\ tries[f] < MaxTries
  /\ tries' = [tries EXCEPT ![f] = @ + 1]
  /\ \/ Goto(f, "get") /\ UNCHANGED tmp
     \/ Goto(f, "failed") /\ UNCHANGED tmp
     \/ Goto(f, "body") /\ tmp' = [tmp EXCEPT ![f] = "part"]
  /\ UNCHANGED <<sum, dest, alone>>

\* backoff.Retry: the time is up, or the context is done.
GiveUp(f) ==
  /\ pc[f] = "get"
  /\ Goto(f, "failed")
  /\ UNCHANGED <<sum, tmp, tries, dest, alone>>

\* The body is copied to its end, or breaks off and the file is removed: to be
\* tried again, or not if the file cannot be closed.
Body(f) ==
  /\ pc[f] = "body"
  /\ \/ /\ \E c \in {"right", "wrong"} : tmp' = [tmp EXCEPT ![f] = c]
        /\ Goto(f, "rename")
     \/ /\ tmp' = [tmp EXCEPT ![f] = None]
        /\ \E to \in {"get", "failed"} : Goto(f, to)
  /\ UNCHANGED <<sum, tries, dest, alone>>

Rename(f) ==
  /\ pc[f] = "rename"
  /\ tmp' = [tmp EXCEPT ![f] = None]
  /\ \/ /\ dest' = tmp[f] /\ Touch(f)
        /\ Goto(f, IF sum[f] THEN "verify" ELSE "done")
     \/ Goto(f, "failed") /\ UNCHANGED <<dest, alone>>
  /\ UNCHANGED <<sum, tries>>

\* Mutant: a mismatch is logged only.
VerifyLenient(f) ==
  /\ pc[f] = "verify"
  /\ alone' = [alone EXCEPT ![f] = TRUE]
  /\ Goto(f, "done")
  /\ UNCHANGED <<sum, tmp, tries, dest>>

\* The file that was downloaded, or what has taken its place since.
Verify(f) ==
  /\ pc[f] = "verify"
  /\ alone' = [alone EXCEPT ![f] = TRUE]
  /\ verifyChecksum(f, "done", "discard")
  /\ UNCHANGED <<sum, tmp, tries, dest>>

RemoveWrong(f) ==
  /\ pc[f] = "discard"
  /\ Remove /\ Touch(f)
  /\ Goto(f, "failed")
  /\ UNCHANGED <<sum, tmp, tries>>

\* The process dies, before or between any of these, and may be run again: its
\* temporary file stays under a name nobody uses again.
Die(f) ==
  /\ pc[f] \notin {"stat", "done", "failed"}
  /\ tmp' = [tmp EXCEPT ![f] = None]
  /\ Goto(f, "stat")
  /\ UNCHANGED <<sum, tries, dest, alone>>

Next ==
  \E f \in Fetcher :
    \/ Stat(f) \/ CheckCached(f) \/ RemoveCached(f) \/ Get(f) \/ GiveUp(f) \/ Body(f)
    \/ Rename(f) \/ Verify(f) \/ RemoveWrong(f) \/ Die(f)

Spec == Init /\ [][Next]_vars

-----------------------------------------------------------------------------
\* What is found at destPath is never a part of a body, whoever downloads it at
\* the same time and wherever one of them dies (downloadFile: "to avoid partial
\* files").  A fetch with a checksum that succeeds leaves there what has that
\* checksum, until another fetch of the same name touches it: nothing keeps
\* two fetches apart.
FetchedVerified ==
  /\ dest # "part"
  /\ \A f \in Fetcher : pc[f] = "done" /\ sum[f] /\ alone[f] => dest = "right"
=============================================================================
