---------------------------- MODULE MCHostHelpers ---------------------------
(* In each behaviour one of the three parts runs and the other two stand    *)
(* still.  Bundle: two threads of a process and one of another, one file.   *)
(* DiskFetch: two fetchers, two tries.  TimeSync: two ticks to a second, a  *)
(* threshold of two seconds, up to three ticks for a request, two naps.     *)
EXTENDS HostHelpers, TLC

CONSTANTS t1, t2, t3

MCProcessOf == t1 :> "p1" @@ t2 :> "p1" @@ t3 :> "p2"

MCSkews == {-9, 0, 9}

VARIABLE part

allVars == <<part, vars, fetchVars, clockVars>>

\* A part that does not run stays in one of its initial states.
MCInit ==
  /\ part \in {"bundle", "fetch", "clock"}
  /\ Init
  /\ F!Init /\ (part # "fetch" => dest = None /\ \A f \in Fetcher : sum[f])
  /\ C!Init /\ (part # "clock" => phase = 0 /\ lag = 0)

MCNext ==
  /\ UNCHANGED part
  /\ \/ part = "bundle" /\ Next /\ UNCHANGED <<fetchVars, clockVars>>
     \/ part = "fetch" /\ F!Next /\ UNCHANGED <<vars, clockVars>>
     \/ part = "clock" /\ C!Next /\ UNCHANGED <<vars, fetchVars>>

Clock(A) == part = "clock" /\ A /\ UNCHANGED <<part, vars, fetchVars>>

\* The fairness of TimeSync, for the behaviours it runs in.
MCFairness ==
  /\ WF_allVars(Clock(C!Wake))
  /\ SF_allVars(Clock(C!ReadGuest)) /\ SF_allVars(Clock(C!Compare))
  /\ SF_allVars(Clock(C!SetGuest))

MCSpec == MCInit /\ [][MCNext]_allVars /\ MCFairness
=============================================================================
