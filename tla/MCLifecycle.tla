---------------------------- MODULE MCLifecycle -----------------------------
(***************************************************************************)
(* Instances of Lifecycle: one or two callers, one or two process IDs.     *)
(***************************************************************************)
EXTENDS Lifecycle, TLC

CONSTANTS c1, c2, p1, p2

MCCallers == {c1, c2}
MCPids == {p1, p2}
Symmetry == Permutations(MCCallers) \cup Permutations(MCPids)

Opts(clean, useNet, badMount) ==
  [clean |-> clean, useNet |-> useNet, badMount |-> badMount]

\* Two callers at once; one caller after its own crashes, always cleaning.
Shared ==
  [callers |-> MCCallers, pids |-> {p1}, reuse |-> TRUE, readErrors |-> TRUE,
   options |-> {Opts(TRUE, TRUE, FALSE), Opts(FALSE, FALSE, FALSE), Opts(FALSE, TRUE, TRUE)}]
Recovering ==
  [callers |-> {c1}, pids |-> MCPids, reuse |-> TRUE, readErrors |-> FALSE,
   options |-> {Opts(TRUE, FALSE, FALSE)}]
Contending ==
  [callers |-> MCCallers, pids |-> {p1}, reuse |-> FALSE, readErrors |-> FALSE,
   options |-> {Opts(FALSE, TRUE, FALSE)}]
Alone ==
  [callers |-> {c1}, pids |-> MCPids, reuse |-> FALSE, readErrors |-> FALSE,
   options |-> {Opts(FALSE, TRUE, FALSE)}]

SafetyModes == {Shared, Recovering}
LiveModes == {Contending}
AloneModes == {Alone}
=============================================================================
