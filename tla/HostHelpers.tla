----------------------------- MODULE HostHelpers ----------------------------
(***************************************************************************)
(* Three parts of the host side that share no state, side by side: Bundle, *)
(* DiskFetch (F) and TimeSync (C), each with its own variables.            *)
(***************************************************************************)
EXTENDS Bundle

CONSTANTS
  Fetcher, MaxTries,                                     \* DiskFetch
  Second, Threshold, MaxFlight, Naps, MaxNaps, Skews     \* TimeSync

\* A second has a tick, the host sleeps whole seconds, and "part" is not the
\* absence of a file.
ASSUME HelpersAssumption ==
  /\ None # "part"
  /\ Second \in Nat \ {0} /\ Threshold \in Nat /\ MaxFlight \in Nat
  /\ Naps \subseteq Nat /\ Skews \subseteq Int

VARIABLES sum, fpc, ftmp, tries, dest, alone
VARIABLES phase, lag, cpc, epoch, sent, age, synced, fresh, naps

F == INSTANCE DiskFetch WITH pc <- fpc, tmp <- ftmp
C == INSTANCE TimeSync WITH pc <- cpc

fetchVars == <<sum, fpc, ftmp, tries, dest, alone>>
clockVars == <<phase, lag, cpc, epoch, sent, age, synced, fresh, naps>>

\* DiskFetch: what is at the destination is whole, and right once a fetch with
\* a checksum has returned (disk.Fetch).
FetchedVerified == F!FetchedVerified

\* TimeSync: after a round that began since the host last slept, the guest's
\* clock stays near the host's (SyncOnce).
ClockBounded == C!ClockBounded

\* TimeSync: a guest's clock that is off is set right in the end (Run).
ClockSettles == C!ClockSettles
=============================================================================
