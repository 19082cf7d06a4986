------------------------------- MODULE TimeSync -----------------------------
(***************************************************************************)
(* The host keeps the guest's clock: a Syncer asks the guest for its time  *)
(* over SSH, compares it with the host's and, if they are too far apart,   *)
(* sends the host's time for the guest's SSH server to set.                *)
(*                                                                         *)
(* Both clocks count whole seconds in what they report; time passes in     *)
(* ticks, Second of them to a second.  The guest is Lag ticks behind the   *)
(* host (ahead if negative), and Phase ticks of the host's second are      *)
(* over.  A time on its way is kept as its distance, in seconds, from the  *)
(* host's time now.  Requests may fail, before or after they take effect.  *)
(* While the host sleeps its clock goes on and the guest's stands still.   *)
(***************************************************************************)
EXTENDS Integers

CONSTANTS
  Second,       \* ticks
  Threshold,    \* the threshold, in seconds
  MaxFlight,    \* how long an answer or a request is on its way, in ticks
  Naps,         \* how many seconds the host may sleep at a time
  MaxNaps,      \* how often
  Skews         \* how far apart the clocks may be at first, in ticks

VARIABLES
  phase, lag,
  pc,           \* the Syncer: wait, ask, answered, set, then wait
  epoch,        \* the guest's time as it was read, less the host's time now
  sent,         \* the time to set, less the host's time now
  age,          \* ticks since that time was taken
  synced,       \* a round that began after the last nap has succeeded
  fresh,        \* this round began after the last nap
  naps

vars == <<phase, lag, pc, epoch, sent, age, synced, fresh, naps>>

Init ==
  /\ phase \in 0 .. Second - 1 /\ lag \in Skews
  /\ pc = "ask"
  /\ epoch = 0 /\ sent = 0 /\ age = 0
  /\ synced = FALSE /\ fresh = TRUE /\ naps = 0

\* The host's clock gets ahead by n seconds of what is on its way.
Pass(n) ==
  /\ epoch' = IF pc = "answered" THEN epoch - n ELSE 0
  /\ sent' = IF pc = "set" THEN sent - n ELSE 0

Tick ==
  /\ pc \in {"answered", "set"} => age < MaxFlight
  /\ phase' = (phase + 1) % Second
  /\ age' = IF pc \in {"answered", "set"} THEN age + 1 ELSE 0
  /\ Pass(IF phase' = 0 THEN 1 ELSE 0)
  /\ UNCHANGED <<lag, pc, synced, fresh, naps>>

\* The host sleeps, at any moment of a round.
Nap ==
  /\ naps < MaxNaps
  /\ \E n \in Naps : Pass(n) /\ lag' = lag + n * Second
  /\ synced' = FALSE /\ fresh' = FALSE /\ naps' = naps + 1
  /\ UNCHANGED <<phase, pc, age>>

\* The next tick of the ticker starts a round.
Wake ==
  /\ pc = "wait"
  /\ pc' = "ask" /\ fresh' = TRUE
  /\ UNCHANGED <<phase, lag, epoch, sent, age, synced, naps>>

\* "date -u +%s" runs in the guest; the answer is on its way.
ReadGuest ==
  /\ pc = "ask"
  /\ pc' = "answered" /\ age' = 0
  /\ epoch' = (phase - lag) \div Second
  /\ UNCHANGED <<phase, lag, sent, synced, fresh, naps>>

\* A request fails, or its answer is lost: the round ends.
RoundFails ==
  /\ pc \in {"ask", "answered", "set"}
  /\ pc' = "wait" /\ epoch' = 0 /\ sent' = 0 /\ age' = 0
  /\ UNCHANGED <<phase, lag, synced, fresh, naps>>

\* Mutant: a guest that is behind has a negative skew, which is below the threshold.
CompareSigned ==
  /\ pc = "answered"
  /\ \/ /\ epoch < Threshold
        /\ pc' = "wait" /\ synced' = fresh
     \/ /\ epoch >= Threshold
        /\ pc' = "set" /\ UNCHANGED synced
  /\ epoch' = 0 /\ sent' = 0 /\ age' = 0
  /\ UNCHANGED <<phase, lag, fresh, naps>>

\* The skew is below the threshold, or the host's time is sent.
Compare ==
  /\ pc = "answered"
  /\ LET skew == IF epoch < 0 THEN -epoch ELSE epoch IN
     \/ /\ skew < Threshold
        /\ pc' = "wait" /\ synced' = fresh
     \/ /\ skew >= Threshold
        /\ pc' = "set" /\ UNCHANGED synced
  /\ epoch' = 0 /\ sent' = 0 /\ age' = 0
  /\ UNCHANGED <<phase, lag, fresh, naps>>

\* handleSettime: the guest's clock is set to the second it was sent.  The
\* Syncer learns of it, or the round fails after all.
SetGuest ==
  /\ pc = "set"
  /\ lag' = phase - sent * Second
  /\ pc' = "wait" /\ epoch' = 0 /\ sent' = 0 /\ age' = 0
  /\ synced' \in {fresh, synced}
  /\ UNCHANGED <<phase, fresh, naps>>

Next == Tick \/ Nap \/ Wake \/ ReadGuest \/ RoundFails \/ Compare \/ SetGuest

\* Rounds are started by a ticker, whatever the last one ended with, and the
\* guest can be reached again and again.
Fairness ==
  /\ WF_vars(Wake) /\ SF_vars(ReadGuest) /\ SF_vars(Compare) /\ SF_vars(SetGuest)

Spec == Init /\ [][Next]_vars /\ Fairness

-----------------------------------------------------------------------------
\* How far behind or ahead the guest may be after a round: what the threshold
\* lets pass or the time on its way loses, and the seconds both sides round to.
Behind ==
  LET a == Threshold * Second  b == MaxFlight
  IN  Second + (IF a > b THEN a ELSE b)
Ahead == Threshold * Second + MaxFlight

\* After a round that began since the host last slept, the guest's clock stays
\* within the threshold and the time a request takes of the host's, however
\* the round was timed and whatever failed after it (SyncOnce).
ClockBounded == synced => -Ahead <= lag /\ lag <= Behind

\* A guest whose clock is further off is set right, though rounds fail and the
\* host sleeps in between (Run: "a transient SSH failure must not end clock
\* keeping").
ClockSettles == <>[](-Ahead <= lag /\ lag <= Behind)
=============================================================================
