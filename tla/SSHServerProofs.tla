--------------------------- MODULE SSHServerProofs --------------------------
(***************************************************************************)
(* For any number of connections and channels and any limits:              *)
(*   - a client is told a status only when it is true and the output is    *)
(*     all sent (StatusTrue, OutputBeforeStatus);                          *)
(*   - when Close has returned nothing it should have waited for goes on   *)
(*     (CloseWaits).                                                       *)
(***************************************************************************)
EXTENDS SSHServer, FiniteSetTheorems, TLAPS

-----------------------------------------------------------------------------
(* The status a client is told.  The invariant follows a command from its  *)
(* start: its process is there only while the session is in "run", and     *)
(* from then on neither how it ended nor its result changes.               *)

Before == {"none", "asked", "rejected", "serve", "dial", "pipe"}
Steps == Before \cup {"run", "drain", "status", "cleanup", "done"}

StatusTypes ==
  /\ reaper \in BOOLEAN
  /\ pc \in [Channel -> Steps]
  /\ pty \in [Channel -> BOOLEAN]
  /\ proc \in [Channel -> {"none", "running", "exited", "stolen", "waited"}]
  /\ status \in [Channel -> {NotRun, Exit0, Exit2, Killed}]
  /\ out \in [Channel -> BOOLEAN]
  /\ res \in [Channel -> Nat]
  /\ told \in [Channel -> Nat \cup {None}]

\* The result is that of the command.
ResultTrue(k) ==
  /\ res[k] = 0 => status[k] = Exit0
  /\ ~reaper /\ proc[k] = "waited" =>
       res[k] = IF status[k] = Killed THEN 137 ELSE status[k].n

CommandAt(k) ==
  /\ proc[k] \in {"running", "exited", "stolen"} => pc[k] = "run"
  /\ pc[k] = "run" => proc[k] # "waited"
  /\ proc[k] \in {"exited", "stolen"} => status[k] # NotRun
  /\ proc[k] = "stolen" => reaper
  /\ pc[k] \in Before => ~out[k]
  /\ pc[k] \in Before => proc[k] = "none"

ResultAt(k) ==
  /\ pc[k] \in {"drain", "status"} => ResultTrue(k)
  /\ pc[k] = "status" /\ ~pty[k] => ~out[k]
  /\ told[k] # None =>
       /\ pc[k] \in {"cleanup", "done"}
       /\ told[k] = res[k] /\ ResultTrue(k)
       /\ ~pty[k] => ~out[k]

StatusInv == StatusTypes /\ \A k \in Channel : CommandAt(k) /\ ResultAt(k)

statusVars == <<reaper, pc, pty, cmdVars>>

\* The steps of the accept loop, of Close, of connections, clients and agent
\* sockets are not about commands.
LEMMA StatusElsewhere == StatusInv /\ UNCHANGED statusVars => StatusInv'
  BY SMTT(30) DEF StatusInv, StatusTypes, CommandAt, ResultAt, ResultTrue, statusVars, cmdVars

\* Every step keeps it: one step per action of a session.
LEMMA StatusStep == StatusInv /\ [Next]_vars => StatusInv'
<1> SUFFICES ASSUME StatusInv, [Next]_vars PROVE StatusInv'
  BY Zenon
<1> USE DEF StatusInv, StatusTypes, Steps, Before, CommandAt, ResultAt, ResultTrue,
            NotRun, Exit0, Exit2, Killed
<1>1. ASSUME NEW k \in Channel, NewChannel(k) PROVE StatusInv'
  BY <1>1 DEF NewChannel, cmdVars
<1>2. ASSUME NEW k \in Channel, Forward(k) PROVE StatusInv'
  BY <1>2, SMTT(30) DEF Forward, cmdVars
<1>3. ASSUME NEW k \in Channel, Request(k) PROVE StatusInv'
  <2>1. pc[k] = "serve" /\ UNCHANGED <<reaper, out, told>>
    BY <1>3, Zenon DEF Request
  <2>2. CASE UNCHANGED <<pc, proc, status, res>> /\ pty' \in {pty, [pty EXCEPT ![k] = TRUE]}
    BY <2>1, <2>2, ZenonT(30)
  <2>3. CASE /\ pc' = [pc EXCEPT ![k] = "status"] /\ UNCHANGED <<pty, proc>>
             /\ res' = [res EXCEPT ![k] = 0] /\ status' = [status EXCEPT ![k] = Exit0]
    BY <2>1, <2>3
  <2>4. CASE /\ pc' = [pc EXCEPT ![k] = "status"] /\ UNCHANGED <<pty, proc, status>>
             /\ res' = [res EXCEPT ![k] = 1]
    BY <2>1, <2>4
  <2>5. CASE /\ pc' = [pc EXCEPT ![k] = "run"] /\ UNCHANGED <<pty, status, res>>
             /\ proc' = [proc EXCEPT ![k] = "running"]
    BY <2>1, <2>5
  <2>6. QED
    BY <1>3, <2>2, <2>3, <2>4, <2>5, Zenon DEF Request
<1>4. ASSUME NEW k \in Channel, RequestsEnd(k) PROVE StatusInv'
  BY <1>4 DEF RequestsEnd, cmdVars
<1>5. ASSUME NEW k \in Channel, Exit(k) PROVE StatusInv'
  BY <1>5 DEF Exit, chanVars
<1>6. ASSUME NEW k \in Channel, CopyOutput(k) PROVE StatusInv'
  BY <1>6 DEF CopyOutput, chanVars
<1>7. ASSUME NEW k \in Channel, Reap(k) PROVE StatusInv'
  BY <1>7 DEF Reap, chanVars
<1>8. ASSUME NEW k \in Channel, Wait(k) PROVE StatusInv'
  BY <1>8 DEF Wait, exitCode
<1>9. ASSUME NEW k \in Channel, Drained(k) PROVE StatusInv'
  BY <1>9 DEF Drained, cmdVars
<1>10. ASSUME NEW k \in Channel, SendExitStatus(k) PROVE StatusInv'
  BY <1>10 DEF SendExitStatus
<1>11. ASSUME NEW k \in Channel, SessionEnds(k) PROVE StatusInv'
  BY <1>11 DEF SessionEnds, cmdVars
<1>12. ASSUME NEW c \in Conn, NEW k \in Channel, OpenChannel(c, k) PROVE StatusInv'
  BY <1>12 DEF OpenChannel, cmdVars
<1>13. CASE UNCHANGED statusVars
  BY <1>13, StatusElsewhere, Zenon
<1>14. QED
  BY <1>1, <1>2, <1>3, <1>4, <1>5, <1>6, <1>7, <1>8, <1>9, <1>10, <1>11, <1>12, <1>13, ZenonT(30)
  DEF Next, vars, statusVars, netVars, connVars, chanVars, agentVars, cmdVars,
      Publish, Accept, Dispatch, CloseQuit, CloseListener, CloseReturn, Dial, Leave,
      Handshake, ConnEnds, Shut, AgentProxy

\* Whatever a client is told of its command is true, and it has the output.
THEOREM ClientsToldTrue == Spec => [](StatusTrue /\ OutputBeforeStatus)
<1>1. Init => StatusInv
  BY ServerAssumption
  DEF Init, StatusInv, StatusTypes, Steps, Before, CommandAt, ResultAt, NotRun
<1>2. StatusInv => StatusTrue /\ OutputBeforeStatus
  BY Zenon DEF StatusInv, ResultAt, ResultTrue, StatusTrue, OutputBeforeStatus
<1>3. QED
  BY <1>1, <1>2, StatusStep, PTL DEF Spec

\* A client that has an exit status has all of its command's output.
THEOREM OutputFirst == Spec => []OutputBeforeStatus
BY ClientsToldTrue, PTL

-----------------------------------------------------------------------------
(* Close.  wg counts the connections and the channels that have a          *)
(* goroutine; an accepted connection is not counted before it has one.     *)

Live == {c \in Conn : conn[c] \in {"served", "open"}}
BusyChannels == {k \in Channel : Busy(k)}

CloseTypes ==
  /\ conn \in [Conn -> {"none", "backlog", "served", "open", "gone"}]
  /\ pc \in [Channel -> Steps]
  /\ on \in [Channel -> Conn \cup {None}]
  /\ wg \in Int

Counted == wg = Cardinality(Live) + Cardinality(BusyChannels)

\* Serve holds a connection of the backlog; a new channel is of an open one.
InOrder ==
  /\ serve = "held" => held \in Conn /\ conn[held] = "backlog"
  /\ serve # "held" => held = None
  /\ \A k \in Channel : pc[k] = "asked" => on[k] \in Conn /\ conn[on[k]] = "open"

\* Behind a closed listener only what Serve held can still be dispatched.
OnlyHeld == closer = "returned" /\ ln = "closed" /\ serve = "held" => held \in straggler

CloseInv == CloseTypes /\ Counted /\ InOrder /\ OnlyHeld /\ CloseWaits

\* Both sets are finite.
LEMMA Counts ==
  /\ IsFiniteSet(Live) /\ Cardinality(Live) \in Nat
  /\ IsFiniteSet(BusyChannels) /\ Cardinality(BusyChannels) \in Nat
<1>1. Live \in SUBSET Conn /\ BusyChannels \in SUBSET Channel
  BY Zenon DEF Live, BusyChannels
<1>2. QED
  BY <1>1, ServerAssumption, FS_Subset, FS_CardinalityType, Zenon

\* wg follows them when one of them gains or loses one element.
LEMMA CountsNext ==
  ASSUME CloseTypes, Counted, NEW c, NEW k,
         \/ /\ Live' = Live /\ BusyChannels' = BusyChannels /\ wg' = wg
         \/ /\ c \notin Live /\ Live' = Live \cup {c}
            /\ BusyChannels' = BusyChannels /\ wg' = wg + 1
         \/ /\ c \in Live /\ Live' = Live \ {c}
            /\ BusyChannels' = BusyChannels /\ wg' = wg - 1
         \/ /\ k \notin BusyChannels /\ BusyChannels' = BusyChannels \cup {k}
            /\ Live' = Live /\ wg' = wg + 1
         \/ /\ k \in BusyChannels /\ BusyChannels' = BusyChannels \ {k}
            /\ Live' = Live /\ wg' = wg - 1
  PROVE  Counted'
<1>1. /\ Cardinality(Live \cup {c}) = IF c \in Live THEN Cardinality(Live) ELSE Cardinality(Live) + 1
      /\ Cardinality(Live \ {c}) = IF c \in Live THEN Cardinality(Live) - 1 ELSE Cardinality(Live)
  BY Counts, FS_AddElement, FS_RemoveElement, ZenonT(30)
<1>2. /\ Cardinality(BusyChannels \cup {k}) =
           IF k \in BusyChannels THEN Cardinality(BusyChannels) ELSE Cardinality(BusyChannels) + 1
      /\ Cardinality(BusyChannels \ {k}) =
           IF k \in BusyChannels THEN Cardinality(BusyChannels) - 1 ELSE Cardinality(BusyChannels)
  BY Counts, FS_AddElement, FS_RemoveElement, ZenonT(30)
<1>3. /\ Cardinality(Live) \in Nat /\ Cardinality(BusyChannels) \in Nat
      /\ wg = Cardinality(Live) + Cardinality(BusyChannels)
  BY Counts, Zenon DEF Counted
<1> DEFINE n == Cardinality(Live)
           m == Cardinality(BusyChannels)
<1>4. \/ Cardinality(Live') = n /\ Cardinality(BusyChannels') = m /\ wg' = wg
      \/ Cardinality(Live') = n + 1 /\ Cardinality(BusyChannels') = m /\ wg' = wg + 1
      \/ Cardinality(Live') = n - 1 /\ Cardinality(BusyChannels') = m /\ wg' = wg - 1
      \/ Cardinality(Live') = n /\ Cardinality(BusyChannels') = m + 1 /\ wg' = wg + 1
      \/ Cardinality(Live') = n /\ Cardinality(BusyChannels') = m - 1 /\ wg' = wg - 1
  BY <1>1, <1>2, Zenon
<1>5. wg' = Cardinality(Live') + Cardinality(BusyChannels')
  <2> HIDE DEF n, m
  <2>1. n \in Nat /\ m \in Nat /\ wg = n + m
    BY <1>3, Zenon DEF n, m
  <2>2. QED
    BY <1>4, <2>1
<1>6. QED
  BY <1>5, Zenon DEF Counted

closeVars == <<netVars, wg, conn, pc, on>>

\* Steps that touch neither connections nor channels' progress.
LEMMA CloseElsewhere == CloseInv /\ UNCHANGED closeVars => CloseInv'
  BY Zenon DEF CloseInv, CloseTypes, Counted, Live, BusyChannels, Busy, InOrder, OnlyHeld,
         CloseWaits, closeVars, netVars

\* A step of a session that goes on.
LEMMA SessionGoesOn ==
  ASSUME CloseInv, NEW k \in Channel, NEW to \in {"run", "drain", "status", "cleanup"},
         pc[k] \in {"serve", "run", "drain", "status"}, pc' = [pc EXCEPT ![k] = to],
         UNCHANGED <<netVars, wg, conn, on>>
  PROVE  CloseInv'
<1>1. BusyChannels' = BusyChannels /\ Live' = Live
  BY Zenon DEF CloseInv, CloseTypes, BusyChannels, Busy, Live
<1>2. Counted'
  BY <1>1, Zenon DEF CloseInv, Counted
<1>3. QED
  BY <1>2, Zenon
  DEF CloseInv, CloseTypes, Steps, Before, InOrder, OnlyHeld, CloseWaits, Busy, netVars

\* A session or a forward that ends.
LEMMA ChannelEnds ==
  ASSUME CloseInv, NEW k \in Channel, pc[k] \in {"serve", "cleanup", "dial", "pipe"},
         pc' = [pc EXCEPT ![k] = "done"], wg' = wg - 1, UNCHANGED <<netVars, conn, on>>
  PROVE  CloseInv'
<1>1. k \in BusyChannels /\ BusyChannels' = BusyChannels \ {k} /\ Live' = Live
  BY Zenon DEF CloseInv, CloseTypes, BusyChannels, Busy, Live
<1>2. Counted'
  BY <1>1, CountsNext, Zenon DEF CloseInv
<1>3. QED
  BY <1>2
  DEF CloseInv, CloseTypes, Steps, Before, InOrder, OnlyHeld, CloseWaits, Busy, netVars

\* Every step keeps the count and the order: one step per action.
LEMMA CloseStep == CloseInv /\ [Next]_vars => CloseInv'
<1> SUFFICES ASSUME CloseInv, [Next]_vars PROVE CloseInv'
  BY Zenon
<1> USE ServerAssumption
<1>1. CASE Publish
  BY <1>1, Zenon DEF Publish, CloseInv, CloseTypes, Counted, Live, BusyChannels, Busy, InOrder,
              OnlyHeld, CloseWaits, connVars, chanVars
<1>2. CASE Accept
  BY <1>2, Zenon DEF Accept, CloseInv, CloseTypes, Counted, Live, BusyChannels, Busy, InOrder,
              OnlyHeld, CloseWaits, connVars, chanVars
<1>3. CASE Dispatch
  <2>1. held \in Conn /\ held \notin Live /\ Live' = Live \cup {held}
    BY <1>3, Zenon DEF Dispatch, CloseInv, CloseTypes, InOrder, Live
  <2>2. BusyChannels' = BusyChannels
    BY <1>3, Zenon DEF Dispatch, chanVars, BusyChannels, Busy
  <2>3. Counted'
    BY <1>3, <2>1, <2>2, CountsNext, Zenon DEF Dispatch, CloseInv
  <2>4. QED
    BY <1>3, <2>1, <2>3 DEF Dispatch, CloseInv, CloseTypes, InOrder, OnlyHeld, CloseWaits,
                            Busy, chanVars
<1>4. CASE CloseQuit \/ CloseListener
  BY <1>4, ZenonT(30) DEF CloseQuit, CloseListener, CloseInv, CloseTypes, Counted, Live, BusyChannels,
              Busy, InOrder, OnlyHeld, CloseWaits, connVars, chanVars
<1>5. CASE CloseReturn
  <2>1. Live = {} /\ BusyChannels = {}
    <3>1. Cardinality(Live) = 0 /\ Cardinality(BusyChannels) = 0
      BY <1>5, Counts DEF CloseReturn, CloseInv, Counted
    <3>2. QED
      BY <3>1, Counts, FS_EmptySet, Zenon
  <2>2. Counted' /\ CloseTypes' /\ InOrder'
    BY <1>5, Zenon
    DEF CloseReturn, CloseInv, CloseTypes, Counted, Live, BusyChannels, Busy, InOrder,
                connVars, chanVars
  <2>3. OnlyHeld'
    BY <1>5, Zenon DEF CloseReturn, CloseInv, InOrder, OnlyHeld
  <2>4. CloseWaits'
    BY <1>5, <2>1, Zenon DEF CloseReturn, CloseWaits, Live, BusyChannels, Busy, connVars, chanVars
  <2>5. QED
    BY <2>2, <2>3, <2>4, Zenon DEF CloseInv
<1>6. ASSUME NEW c \in Conn, Dial(c) PROVE CloseInv'
  <2>1. Live' = Live /\ BusyChannels' = BusyChannels
    BY <1>6, Zenon DEF Dial, CloseInv, CloseTypes, Live, BusyChannels, Busy, chanVars
  <2>2. QED
    BY <1>6, <2>1, Zenon
    DEF Dial, CloseInv, CloseTypes, Counted, InOrder, OnlyHeld, CloseWaits, Busy,
                      netVars, chanVars
<1>7. ASSUME NEW c \in Conn, Handshake(c) \/ ConnEnds(c) PROVE CloseInv'
  <2>1. CASE conn' = [conn EXCEPT ![c] = "open"] /\ conn[c] = "served" /\ wg' = wg
    <3>1. Live' = Live /\ BusyChannels' = BusyChannels
      BY <1>7, <2>1, Zenon DEF Handshake, ConnEnds, CloseInv, CloseTypes, Live, BusyChannels, Busy,
                        chanVars
    <3>2. QED
      BY <1>7, <2>1, <3>1, Zenon DEF Handshake, ConnEnds, CloseInv, CloseTypes, Counted, InOrder,
                              OnlyHeld, CloseWaits, Busy, netVars, chanVars
  <2>2. CASE /\ ConnDone(c) /\ conn[c] \in {"served", "open"}
             /\ \A k \in Channel : on[k] = c => pc[k] # "asked"
    <3>1. c \in Live /\ Live' = Live \ {c} /\ BusyChannels' = BusyChannels
      BY <1>7, <2>2, Zenon DEF Handshake, ConnEnds, ConnDone, CloseInv, CloseTypes, Live,
                        BusyChannels, Busy, chanVars
    <3>2. Counted'
      BY <2>2, <3>1, CountsNext, Zenon DEF ConnDone, CloseInv
    <3>3. QED
      BY <1>7, <2>2, <3>2 DEF Handshake, ConnEnds, ConnDone, CloseInv, CloseTypes, InOrder,
                              OnlyHeld, CloseWaits, Busy, netVars, chanVars
  <2>3. QED
    BY <1>7, <2>1, <2>2, Zenon DEF Handshake, ConnEnds, CloseInv, InOrder
<1>8. ASSUME NEW k \in Channel, NewChannel(k) PROVE CloseInv'
  <2>1. k \notin BusyChannels /\ Live' = Live
    BY <1>8, Zenon DEF NewChannel, CloseInv, CloseTypes, Live, BusyChannels, Busy
  <2>2. CASE pc' = [pc EXCEPT ![k] = "rejected"] /\ wg' = wg
    <3>1. BusyChannels' = BusyChannels
      BY <1>8, <2>2, Zenon DEF NewChannel, CloseInv, CloseTypes, BusyChannels, Busy
    <3>2. QED
      BY <1>8, <2>1, <2>2, <3>1
      DEF NewChannel, CloseInv, CloseTypes, Steps, Before, Counted,
                                    InOrder, OnlyHeld, CloseWaits, Busy, netVars
  <2>3. CASE /\ \E to \in {"dial", "serve"} : pc' = [pc EXCEPT ![k] = to]
             /\ wg' = wg + 1
    <3>1. BusyChannels' = BusyChannels \cup {k}
      BY <1>8, <2>3, Zenon DEF NewChannel, CloseInv, CloseTypes, BusyChannels, Busy
    <3>2. Counted'
      BY <2>1, <2>3, <3>1, CountsNext, Zenon DEF CloseInv
    <3>3. QED
      BY <1>8, <2>3, <3>2 DEF NewChannel, CloseInv, CloseTypes, Steps, Before, InOrder,
                              OnlyHeld, CloseWaits, Busy, netVars
  <2>4. QED
    BY <1>8, <2>2, <2>3, ZenonT(30) DEF NewChannel
<1>9. ASSUME NEW c \in Conn, NEW k \in Channel, OpenChannel(c, k) PROVE CloseInv'
  <2>1. Live' = Live /\ BusyChannels' = BusyChannels
    BY <1>9, Zenon DEF OpenChannel, CloseInv, CloseTypes, Live, BusyChannels, Busy, connVars
  <2>2. QED
    BY <1>9, <2>1, Zenon DEF OpenChannel, CloseInv, CloseTypes, Steps, Before, Counted, InOrder,
                      OnlyHeld, CloseWaits, Busy, netVars, connVars
<1>10. ASSUME NEW k \in Channel, Forward(k) PROVE CloseInv'
  <2>1. CASE pc[k] = "dial" /\ pc' = [pc EXCEPT ![k] = "pipe"] /\ wg' = wg
    <3>1. Live' = Live /\ BusyChannels' = BusyChannels
      BY <1>10, <2>1, Zenon DEF Forward, CloseInv, CloseTypes, Live, BusyChannels, Busy, connVars
    <3>2. QED
      BY <1>10, <2>1, <3>1, Zenon
      DEF Forward, CloseInv, CloseTypes, Steps, Before, Counted, InOrder,
                               OnlyHeld, CloseWaits, Busy, netVars, connVars
  <2>2. CASE pc[k] \in {"dial", "pipe"} /\ pc' = [pc EXCEPT ![k] = "done"] /\ wg' = wg - 1
    BY <1>10, <2>2, ChannelEnds, ZenonT(30) DEF Forward, connVars
  <2>3. QED
    BY <1>10, <2>1, <2>2, Zenon DEF Forward
<1>11. ASSUME NEW k \in Channel, Request(k) PROVE CloseInv'
  <2>1. UNCHANGED closeVars \/ \E to \in {"run", "status"} : pc' = [pc EXCEPT ![k] = to]
    BY <1>11, Zenon DEF Request, closeVars, netVars, connVars
  <2>2. QED
    BY <1>11, <2>1, CloseElsewhere, SessionGoesOn, Zenon DEF Request, connVars
<1>12. ASSUME NEW k \in Channel, Wait(k) \/ Drained(k) \/ SendExitStatus(k) PROVE CloseInv'
  BY <1>12, SessionGoesOn, Zenon DEF Wait, Drained, SendExitStatus, connVars
<1>13. ASSUME NEW k \in Channel, RequestsEnd(k) \/ SessionEnds(k) PROVE CloseInv'
  BY <1>13, ChannelEnds, Zenon DEF RequestsEnd, SessionEnds, connVars
<1>14. CASE UNCHANGED closeVars
  BY <1>14, CloseElsewhere, Zenon
<1>15. QED
  BY <1>1, <1>2, <1>3, <1>4, <1>5, <1>6, <1>7, <1>8, <1>9, <1>10, <1>11, <1>12, <1>13, <1>14, ZenonT(30)
  DEF Next, vars, closeVars, netVars, connVars, chanVars, Leave, Shut, Exit, CopyOutput,
      Reap, AgentProxy

\* When Server.Close has returned behind a closed listener, no goroutine of a
\* connection or a channel runs but those of a connection Serve was holding.
THEOREM CloseHasWaited == Spec => []CloseWaits
<1>1. Init => CloseInv
  <2>1. Init => Live = {} /\ BusyChannels = {}
    BY DEF Init, Live, BusyChannels, Busy
  <2>2. Cardinality({}) = 0
    BY FS_EmptySet, Zenon
  <2>3. Init => Counted
    <3>1. Init => Cardinality(Live) = 0 /\ Cardinality(BusyChannels) = 0
      BY <2>1, <2>2, Zenon
    <3>2. QED
      BY <3>1 DEF Init, Counted
  <2>4. QED
    BY <2>3 DEF Init, CloseInv, CloseTypes, Steps, Before, InOrder, OnlyHeld, CloseWaits
<1>2. CloseInv => CloseWaits
  BY Zenon DEF CloseInv
<1>3. QED
  BY <1>1, <1>2, CloseStep, PTL DEF Spec
=============================================================================
