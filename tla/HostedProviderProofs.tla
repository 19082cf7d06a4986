------------------------ MODULE HostedProviderProofs ------------------------
(***************************************************************************)
(* Proofs about HostedProvider and Relay for any forwards, services, calls *)
(* of Start and Stop and frames: the frames of the two goroutines of a     *)
(* relay are not torn, a failed Start keeps nothing, and overlapping calls *)
(* of Stop leave nothing of a started provider.                            *)
(***************************************************************************)
EXTENDS HostedProvider, TLAPS

-----------------------------------------------------------------------------
(* The relay.                                                              *)

Sides == {"vm", "net"}
RelayPCs == {"off", "length", "decide", "lock", "prefix", "payload", "ended"}

RelayTypes ==
  /\ mode \in Modes
  /\ conn \in [Sides -> {"off", "open", "closed"}]
  /\ fwd \in [Directions -> [pc : RelayPCs, to : Sides]]
  /\ vmWriteMu \in Directions \cup {"free"}
  /\ half \in Directions \cup {"none", "torn"}

\* Between the two writes of a frame for the VM, or about to start them.
WritesVM(d) == fwd[d].pc \in {"prefix", "payload"} /\ fwd[d].to = "vm"

\* Who may write to the VM: the holder of the mutex if the hook is there to
\* answer queries, and only the ingress direction otherwise.
Turns ==
  \A d \in Directions :
    /\ WritesVM(d) => \/ mode = "egress" /\ vmWriteMu = d
                      \/ mode = "rules" /\ d = "ingress"
    /\ fwd[d].pc = "lock" => mode = "egress" /\ fwd[d].to = "vm"
    /\ d = "egress" /\ fwd[d].to = "vm" => mode = "egress"
    /\ d = "ingress" => fwd[d].to = "vm"

\* A prefix that waits for its payload is that of the direction about to write
\* it, unless the connection is gone.
Pieces ==
  /\ FramesNotTorn
  /\ half \in Directions /\ conn["vm"] = "open" => WritesVM(half) /\ fwd[half].pc = "payload"
  /\ \A d \in Directions :
       WritesVM(d) /\ fwd[d].pc = "payload" /\ conn["vm"] = "open" => half = d

\* Before the handler runs the relay, and without a relay, nothing is written.
Quiescent ==
  /\ handler \in {"none", "begin"} \/ mode = "none" => \A d \in Directions : fwd[d].pc = "off"
  /\ (\E d \in Directions : fwd[d].pc = "off") =>
       half = "none" /\ vmWriteMu = "free" /\ \A d \in Directions : fwd[d].pc = "off"
  /\ dialled \in {"no", "queued"} => handler = "none"
  /\ dialled = "no" => conn["vm"] = "off"

RelayInv == RelayTypes /\ Turns /\ Pieces /\ Quiescent

-----------------------------------------------------------------------------
(* Start and Stop.                                                         *)

StopPCs == {"idle", "unexpose", "services", "cancel", "close", "wait", "remove", "returned"}

ProviderTypes ==
  /\ bound \subseteq Locals /\ locals \subseteq Locals
  /\ serving \subseteq Services /\ draining \subseteq Services /\ running \subseteq Services
  /\ stop \in [Stoppers -> [pc : StopPCs, locals : SUBSET Locals, services : SUBSET Services,
                            started : BOOLEAN, path : BOOLEAN]]
  /\ sock \in BOOLEAN /\ sockPath \in BOOLEAN
  /\ spc \in {"idle", "forwards", "services", "listen", "accept"}
  /\ result \in {"none", "failed", "ok"}
  /\ listener \in {"none", "open", "closed"}
  /\ accept \in {"off", "running", "ended"}
  /\ handler \in {"none", "begin", "relayed", "direct", "ended"}

\* What Start holds at each of its steps, and before it has succeeded.
StartInv ==
  /\ spc # "idle" => /\ result = "none"
                     /\ \A c \in Stoppers : ~Stopping(c)
  /\ result # "ok" => accept = "off" /\ (spc # "accept" => listener = "none")
  /\ result # "ok" /\ spc \in {"idle", "forwards"} =>
       locals = {} /\ serving = {} /\ running = {} /\ vn = "none"
  /\ result # "ok" /\ spc = "idle" => bound = {}
  /\ spc \in {"services", "listen", "accept"} => serving = running /\ bound = locals /\ vn = "set"
  /\ spc = "accept" => listener = "open"
  /\ result = "ok" => /\ vn = "set" /\ accept # "off" /\ listener # "none"
                      /\ accept = "ended" => listener = "closed"
  /\ listener = "closed" => ~sock

\* What the calls of Stop have taken over: every forward and service is still
\* in the provider's fields or in those of the one call that will release it.
TakenOver ==
  /\ running \subseteq serving
  /\ \A x \in bound : \/ spc = "forwards" \/ x \in locals
                      \/ \E c \in Stoppers : stop[c].pc = "unexpose" /\ x \in stop[c].locals
  /\ \A x \in serving : \/ x \in running
                        \/ \E c \in Stoppers : /\ stop[c].pc \in {"unexpose", "services"}
                                               /\ x \in stop[c].services
  /\ \A c \in Stoppers :
       /\ Stopping(c) \/ stop[c].started => running = {} /\ locals = {}
       /\ stop[c].pc \in {"unexpose", "services"} => stop[c].services \subseteq serving
  /\ \A c, d \in Stoppers : c # d /\ Stopping(c) /\ Stopping(d) =>
       stop[c].services = {} \/ stop[d].services = {}

\* How far a call of Stop on a started provider has come.
Progress ==
  \A c \in Stoppers : stop[c].started =>
    /\ result = "ok"
    /\ stop[c].pc \in {"wait", "remove", "returned"} => listener = "closed"
    /\ stop[c].pc \in {"remove", "returned"} =>
         accept = "ended" /\ handler \in {"none", "ended"} /\ serving = {} /\ draining = {}

StopInv == TakenOver /\ Progress

ProviderInv == ProviderTypes /\ StartInv /\ StopInv

HostedInv == RelayInv /\ ProviderInv

-----------------------------------------------------------------------------
(* The relay keeps its frames whole.                                       *)

hostVars == <<relayVars, mode, handler, dialled>>

LEMMA InitRelay == Init => RelayInv
<1> USE DEF Directions, Modes, Sides, RelayPCs, Dst
<1>1. Init => RelayTypes
  BY DEF Init, RelayInit, RelayTypes
<1>2. Init => Turns /\ Pieces /\ Quiescent
  BY DEF Init, RelayInit, Turns, WritesVM, Pieces, FramesNotTorn, Quiescent
<1>3. QED
  BY <1>1, <1>2, Zenon DEF RelayInv

LEMMA RelayElsewhere == RelayInv /\ UNCHANGED hostVars => RelayInv'
BY
DEF RelayInv, RelayTypes, Turns, WritesVM, Pieces, FramesNotTorn, Quiescent, hostVars,
    relayVars

\* A step of one direction: what it leaves alone.
LEMMA OneDirection ==
  ASSUME RelayInv, NEW d \in Directions, NEW pc \in RelayPCs, NEW to \in Sides, GotoAs(d, pc, to)
  PROVE  /\ fwd' \in [Directions -> [pc : RelayPCs, to : Sides]]
         /\ fwd'[d].pc = pc /\ fwd'[d].to = to
         /\ \A e \in Directions \ {d} : fwd'[e] = fwd[e]
BY Zenon DEF RelayInv, RelayTypes, GotoAs

LEMMA StepRelay == RelayInv /\ [Next]_vars => RelayInv'
<1> SUFFICES ASSUME RelayInv, [Next]_vars PROVE RelayInv'
  BY Zenon
<1>t. RelayTypes /\ Turns /\ Pieces /\ Quiescent
  BY Zenon DEF RelayInv
<1>d. /\ Directions = {"egress", "ingress"} /\ Sides = {"vm", "net"}
      /\ \A d \in Directions : fwd[d] \in [pc : RelayPCs, to : Sides] /\ Dst(d) \in Sides
  BY <1>t, Zenon DEF Directions, Sides, RelayTypes, Dst
<1>1. ASSUME NEW d \in Directions, Send(d), RelayOnly PROVE RelayInv'
  BY <1>1, Zenon DEF Send, RelayOnly, bridge, RelayInv, RelayTypes, Turns, WritesVM, Pieces,
     FramesNotTorn, Quiescent
<1>2. ASSUME NEW d \in Directions, ReadFrame(d), RelayOnly PROVE RelayInv'
  <2>1. PICK pc \in {"decide", "length"} : GotoAs(d, pc, fwd[d].to)
    BY <1>2, Zenon DEF ReadFrame, GotoPC
  <2>2. /\ fwd' \in [Directions -> [pc : RelayPCs, to : Sides]]
        /\ fwd'[d].pc = pc /\ fwd'[d].to = fwd[d].to
        /\ \A e \in Directions \ {d} : fwd'[e] = fwd[e]
    BY <1>d, <2>1, OneDirection DEF RelayPCs
  <2>3. QED
    BY <1>2, <1>t, <1>d, <2>2 DEF ReadFrame, RelayOnly, bridge, RelayInv, RelayTypes, Turns,
       WritesVM, Pieces, FramesNotTorn, Quiescent
<1>3. ASSUME NEW d \in Directions, ReadFails(d), RelayOnly PROVE RelayInv'
  <2>1. /\ fwd' \in [Directions -> [pc : RelayPCs, to : Sides]]
        /\ fwd'[d].pc = "ended" /\ fwd'[d].to = fwd[d].to
        /\ \A e \in Directions \ {d} : fwd'[e] = fwd[e]
    BY <1>3, <1>d, OneDirection, Zenon DEF RelayPCs, ReadFails, GotoPC
  <2>2. QED
    BY <1>3, <1>t, <1>d, <2>1 DEF ReadFails, RelayOnly, bridge, RelayInv, RelayTypes, Turns,
       WritesVM, Pieces, FramesNotTorn, Quiescent
<1>4. ASSUME NEW d \in Directions, Decide(d), RelayOnly PROVE RelayInv'
  <2>1. PICK pc \in {"length", "lock", "prefix"}, to \in Sides :
          /\ GotoAs(d, pc, to)
          /\ pc = "lock" => mode = "egress" /\ to = "vm"
          /\ pc = "prefix" => to = Dst(d) /\ ~(mode = "egress" /\ d = "ingress")
          /\ d = "egress" /\ to = "vm" => mode = "egress"
          /\ d = "ingress" => to = "vm"
    BY <1>4, <1>d, Zenon DEF Decide, Dst
  <2>2. /\ fwd' \in [Directions -> [pc : RelayPCs, to : Sides]]
        /\ fwd'[d].pc = pc /\ fwd'[d].to = to
        /\ \A e \in Directions \ {d} : fwd'[e] = fwd[e]
    BY <1>d, <2>1, OneDirection DEF RelayPCs
  <2>3. mode \in {"none", "rules", "egress"} /\ (mode = "none" => fwd[d].pc = "off")
    BY <1>t, Zenon DEF RelayTypes, Modes, Quiescent
  <2>4. QED
    BY <1>4, <1>t, <1>d, <2>1, <2>2, <2>3
    DEF Decide, RelayOnly, bridge, RelayInv, RelayTypes,
       Turns, WritesVM, Pieces, FramesNotTorn, Quiescent, Dst
<1>5. ASSUME NEW d \in Directions, LockVM(d), RelayOnly PROVE RelayInv'
  <2>1. /\ fwd' \in [Directions -> [pc : RelayPCs, to : Sides]]
        /\ fwd'[d].pc = "prefix" /\ fwd'[d].to = fwd[d].to
        /\ \A e \in Directions \ {d} : fwd'[e] = fwd[e]
    BY <1>5, <1>d, OneDirection, Zenon DEF RelayPCs, LockVM, GotoPC
  <2>2. QED
    BY <1>5, <1>t, <1>d, <2>1 DEF LockVM, RelayOnly, bridge, RelayInv, RelayTypes, Turns,
       WritesVM, Pieces, FramesNotTorn, Quiescent
<1>6. ASSUME NEW d \in Directions, WritePrefix(d), RelayOnly PROVE RelayInv'
  <2>1. /\ fwd' \in [Directions -> [pc : RelayPCs, to : Sides]]
        /\ fwd'[d].pc = "payload" /\ fwd'[d].to = fwd[d].to
        /\ \A e \in Directions \ {d} : fwd'[e] = fwd[e]
    BY <1>6, <1>d, OneDirection, Zenon DEF RelayPCs, WritePrefix, GotoPC
  <2>2. fwd[d].to = "vm" => half = "none"
    BY <1>6, <1>t, <1>d DEF WritePrefix, RelayTypes, Turns, WritesVM, Pieces, FramesNotTorn
  <2>3. QED
    BY <1>6, <1>t, <1>d, <2>1, <2>2
    DEF WritePrefix, RelayOnly, bridge, RelayInv, RelayTypes,
       Turns, WritesVM, Pieces, FramesNotTorn, Quiescent
<1>7. ASSUME NEW d \in Directions, WritePayload(d), RelayOnly PROVE RelayInv'
  <2>1. /\ fwd' \in [Directions -> [pc : RelayPCs, to : Sides]]
        /\ fwd'[d].pc = "length" /\ fwd'[d].to = Dst(d)
        /\ \A e \in Directions \ {d} : fwd'[e] = fwd[e]
    BY <1>7, <1>d, OneDirection, Zenon DEF RelayPCs, WritePayload
  <2>2. fwd[d].to = "vm" => half = d
    BY <1>7, <1>t, <1>d, Zenon DEF WritePayload, WritesVM, Pieces
  <2>3. QED
    BY <1>7, <1>t, <1>d, <2>1, <2>2
    DEF WritePayload, Unlocked, Dst, RelayOnly, bridge, RelayInv,
       RelayTypes, Turns, WritesVM, Pieces, FramesNotTorn, Quiescent
<1>8. ASSUME NEW d \in Directions, WriteFails(d), RelayOnly PROVE RelayInv'
  <2>1. /\ fwd' \in [Directions -> [pc : RelayPCs, to : Sides]]
        /\ fwd'[d].pc = "ended" /\ fwd'[d].to = fwd[d].to
        /\ \A e \in Directions \ {d} : fwd'[e] = fwd[e]
    BY <1>8, <1>d, OneDirection, Zenon DEF RelayPCs, WriteFails, GotoPC
  <2>2. QED
    BY <1>8, <1>t, <1>d, <2>1 DEF WriteFails, Unlocked, RelayOnly, bridge, RelayInv,
       RelayTypes, Turns, WritesVM, Pieces, FramesNotTorn, Quiescent
<1>9. ASSUME CloseConns, RelayOnly PROVE RelayInv'
  BY <1>9, <1>t, <1>d
  DEF CloseConns, RelayOnly, bridge, RelayInv, RelayTypes, Turns, WritesVM,
     Pieces, FramesNotTorn, Quiescent
<1>10. ASSUME Dial PROVE RelayInv'
  BY <1>10, <1>t, <1>d, Zenon DEF Dial, RelayQuiet, Quiet, RelayInv, RelayTypes, Turns, WritesVM,
     Pieces, FramesNotTorn, Quiescent
<1>11. ASSUME RunnerCloses PROVE RelayInv'
  BY <1>11, <1>t, <1>d
  DEF RunnerCloses, RelayQuiet, Quiet, bridge, RelayInv, RelayTypes, Turns,
     WritesVM, Pieces, FramesNotTorn, Quiescent
<1>12. ASSUME AcceptConn PROVE RelayInv'
  BY <1>12, <1>t, <1>d, Zenon
  DEF AcceptConn, relayVars, Quiet, RelayInv, RelayTypes, Turns, WritesVM,
     Pieces, FramesNotTorn, Quiescent
<1>13. ASSUME AcceptEnds PROVE RelayInv'
  BY <1>13, <1>t, <1>d
  DEF AcceptEnds, RelayQuiet, Quiet, RelayInv, RelayTypes, Turns, WritesVM,
     Pieces, FramesNotTorn, Quiescent
<1>14. ASSUME HandleConn PROVE RelayInv'
  <2>1. CASE mode = "none" /\ UNCHANGED relayVars
    BY <1>14, <1>t, <1>d, <2>1, Zenon
    DEF HandleConn, relayVars, Quiet, RelayInv, RelayTypes, Turns,
       WritesVM, Pieces, FramesNotTorn, Quiescent
  <2>2. CASE mode # "none" /\ RunRelay /\ conn' = [conn EXCEPT !["net"] = "open"]
    BY <1>14, <1>t, <1>d, <2>2, Zenon DEF HandleConn, RunRelay, Quiet, RelayInv, RelayTypes, Turns,
       WritesVM, Pieces, FramesNotTorn, Quiescent, Dst, RelayPCs
  <2>3. QED
    BY <1>14, <2>1, <2>2, Zenon DEF HandleConn
<1>15. ASSUME BridgeClosed \/ BridgeFails PROVE RelayInv'
  BY <1>15, <1>t, <1>d
  DEF BridgeClosed, BridgeFails, BridgeReturns, Bridged, RelayQuiet, Quiet,
     RelayInv, RelayTypes, Turns, WritesVM, Pieces, FramesNotTorn, Quiescent
<1>16. CASE UNCHANGED hostVars
  BY <1>16, RelayElsewhere, Zenon
<1>17. Start \/ ContextEnds \/ (\E s \in Services : Drain(s)) => UNCHANGED hostVars
  BY Zenon DEF Start, StartCall, Expose, ExposeFails, Exposed, StartService, StartServiceFails,
     RemoveSocket, Listen, StartAccept, Frame, ContextEnds, Drain, hostVars, bridge
<1>18. (\E c \in Stoppers : StopCall(c) \/ StopStep(c)) => UNCHANGED hostVars
  BY Zenon
  DEF StopCall, StopStep, Unexpose, StopServices, Cancel, CloseListener, WaitGroup,
      RemoveFile,
     StopQuiet, hostVars, bridge
<1>19. UNCHANGED vars => UNCHANGED hostVars
  BY Zenon DEF vars, hostVars, bridge
<1>20. QED
  BY <1>1, <1>2, <1>3, <1>4, <1>5, <1>6, <1>7, <1>8, <1>9, <1>10, <1>11, <1>12, <1>13,
     <1>14,
     <1>15, <1>16, <1>17, <1>18, <1>19, Zenon, ZenonT(30) DEF Next, RelayStep, Forward, Write
-----------------------------------------------------------------------------
(* Start and Stop release what they took.                                  *)

providerVars == <<provider, calls, accept, handler, mode>>

LEMMA InitProvider == Init => ProviderInv
<1>1. NotStopping \in [pc : StopPCs, locals : SUBSET Locals, services : SUBSET Services,
                       started : BOOLEAN, path : BOOLEAN]
  BY Zenon DEF NotStopping, StopPCs
<1>2. Init => ProviderTypes
  BY <1>1, ZenonT(30) DEF Init, ProviderTypes
<1>3. Init => StartInv /\ StopInv
  BY DEF Init, StartInv, StopInv, TakenOver, Progress, NotStopping, Stopping
<1>4. QED
  BY <1>2, <1>3, Zenon DEF ProviderInv

LEMMA ProviderElsewhere == ProviderInv /\ UNCHANGED providerVars => ProviderInv'
BY DEF ProviderInv, ProviderTypes, StartInv, StopInv, TakenOver, Progress, Stopping,
   providerVars, provider, calls, Locals, Services

\* Start's steps.
LEMMA StepStart == ProviderInv /\ Start => ProviderInv'
<1> SUFFICES ASSUME ProviderInv, Start PROVE ProviderInv'
  BY Zenon
<1>t. ProviderTypes /\ StartInv /\ TakenOver /\ Progress
  BY Zenon DEF ProviderInv, StopInv
<1>m. Locals' = Locals /\ Services' = Services
  BY Zenon DEF Start, StartCall, Expose, ExposeFails, Exposed, StartService, StartServiceFails,
     RemoveSocket, Listen, StartAccept, Frame, Locals, Services
<1> USE DEF ProviderInv, StopInv
<1> USE DEF ProviderTypes, StartInv, TakenOver, Progress, Stopping, Frame
<1>1. CASE StartCall
  BY <1>1, <1>t, <1>m, Zenon DEF StartCall, bridge
<1>2. ASSUME NEW l \in Locals, Expose(l) PROVE ProviderInv'
  BY <1>2, <1>t, <1>m, Zenon DEF Expose
<1>3. CASE ExposeFails
  BY <1>3, <1>t, <1>m, Zenon DEF ExposeFails, Fail, ShutDown
<1>4. CASE Exposed
  BY <1>4, <1>t, <1>m, Zenon DEF Exposed
<1>5. ASSUME NEW s \in Services, StartService(s) PROVE ProviderInv'
  BY <1>5, <1>t, <1>m, Zenon DEF StartService
<1>6. CASE StartServiceFails
  BY <1>6, <1>t, <1>m, Zenon DEF StartServiceFails, Fail, ShutDown
<1>7. CASE RemoveSocket
  BY <1>7, <1>t, <1>m, ZenonT(30) DEF RemoveSocket, Fail, ShutDown
<1>8. CASE Listen
  BY <1>8, <1>t, <1>m, ZenonT(30) DEF Listen, Fail, ShutDown
<1>9. CASE StartAccept
  BY <1>9, <1>t, <1>m, Zenon DEF StartAccept
<1>10. QED
  BY <1>1, <1>2, <1>3, <1>4, <1>5, <1>6, <1>7, <1>8, <1>9, ZenonT(30) DEF Start

\* The steps of the connection and of the services' goroutines.
LEMMA StepConnection ==
  /\ ProviderInv
  /\ Dial \/ RunnerCloses \/ AcceptConn \/ AcceptEnds \/ HandleConn \/ BridgeClosed
       \/ BridgeFails \/ ContextEnds \/ \E s \in Services : Drain(s)
  => ProviderInv'
<1> SUFFICES ASSUME ProviderInv
             PROVE  /\ Dial \/ RunnerCloses \/ AcceptConn \/ AcceptEnds \/ HandleConn => ProviderInv'
                    /\ BridgeClosed \/ BridgeFails \/ ContextEnds => ProviderInv'
                    /\ (\E s \in Services : Drain(s)) => ProviderInv'
  BY Zenon
<1>1. Dial \/ RunnerCloses \/ ContextEnds => UNCHANGED providerVars
  BY Zenon DEF Dial, RunnerCloses, ContextEnds, Quiet, bridge, providerVars
<1> USE DEF ProviderInv, StopInv, ProviderTypes, StartInv, TakenOver, Progress, Stopping,
  Quiet, provider, calls, Locals, Services
<1>2. CASE AcceptConn
  BY <1>2, ZenonT(30) DEF AcceptConn
<1>3. CASE AcceptEnds
  BY <1>3, ZenonT(30) DEF AcceptEnds
<1>4. CASE HandleConn
  BY <1>4, ZenonT(30) DEF HandleConn
<1>5. CASE BridgeClosed \/ BridgeFails
  <2>1. BridgeReturns
    BY <1>5, Zenon DEF BridgeClosed, BridgeFails
  <2>2. handler \in {"relayed", "direct"}
    BY <1>5, Zenon DEF BridgeClosed, BridgeFails
  <2>3. QED
    BY <2>1, <2>2, ZenonT(60) DEF BridgeReturns
<1>6. ASSUME NEW s \in Services, Drain(s) PROVE ProviderInv'
  BY <1>6, ZenonT(30) DEF Drain, bridge
<1>7. QED
  BY <1>1, <1>2, <1>3, <1>4, <1>5, <1>6, ProviderElsewhere, ZenonT(30)

\* One call of Stop goes on: what it leaves of the others.
LEMMA OneStopper ==
  ASSUME ProviderTypes, NEW c \in Stoppers, NEW pc \in StopPCs, StopGoto(c, pc), UNCHANGED mode
  PROVE  /\ stop' \in [Stoppers -> [pc : StopPCs, locals : SUBSET Locals', services : SUBSET Services',
                                    started : BOOLEAN, path : BOOLEAN]]
         /\ stop'[c].pc = pc /\ stop'[c].locals = stop[c].locals
         /\ stop'[c].services = stop[c].services /\ stop'[c].started = stop[c].started
         /\ \A d \in Stoppers \ {c} : stop'[d] = stop[d]
BY DEF ProviderTypes, StopGoto, Locals, Services

LEMMA StepStop ==
  ASSUME ProviderInv, NEW c \in Stoppers, StopCall(c) \/ StopStep(c)
  PROVE  ProviderInv'
<1>t. ProviderTypes /\ StartInv /\ TakenOver /\ Progress
  BY Zenon DEF ProviderInv, StopInv
<1>m. mode' = mode /\ Locals' = Locals /\ Services' = Services
  BY Zenon
  DEF StopCall, StopStep, Unexpose, StopServices, Cancel, CloseListener, WaitGroup,
      RemoveFile, StopQuiet, Locals, Services
<1>g. ASSUME NEW pc \in StopPCs, StopGoto(c, pc)
      PROVE  /\ stop' \in [Stoppers -> [pc : StopPCs, locals : SUBSET Locals, services : SUBSET Services,
                                        started : BOOLEAN, path : BOOLEAN]]
             /\ stop'[c].pc = pc /\ stop'[c].locals = stop[c].locals
             /\ stop'[c].services = stop[c].services /\ stop'[c].started = stop[c].started
             /\ \A d \in Stoppers \ {c} : stop'[d] = stop[d]
  BY <1>t, <1>m, <1>g, OneStopper, Zenon
<1>p. {"services", "cancel", "close", "wait", "remove", "returned"} \subseteq StopPCs
  BY Zenon DEF StopPCs
<1> USE DEF ProviderInv, StopInv, ProviderTypes, StartInv, TakenOver, Progress, Stopping,
  StopQuiet, bridge
<1>1. CASE StopCall(c)
  <2>1. /\ stop' \in [Stoppers -> [pc : StopPCs, locals : SUBSET Locals, services : SUBSET Services,
                                   started : BOOLEAN, path : BOOLEAN]]
        /\ stop'[c].pc = "unexpose" /\ stop'[c].locals = locals
        /\ stop'[c].services = running /\ stop'[c].started = (listener # "none")
        /\ \A d \in Stoppers \ {c} : stop'[d] = stop[d]
    BY <1>1, <1>t, Zenon DEF StopCall, StopPCs
  <2>2. stop[c].pc = "idle" /\ spc = "idle" /\ running' = {} /\ locals' = {}
    BY <1>1, Zenon DEF StopCall
  <2>3. ProviderTypes' /\ StartInv'
    BY <1>1, <1>t, <1>m, <2>1, ZenonT(30) DEF StopCall
  <2>4. TakenOver'
    BY <1>1, <1>t, <2>1, <2>2, ZenonT(90) DEF StopCall
  <2>5. Progress'
    BY <1>1, <1>t, <2>1, <2>2, ZenonT(30) DEF StopCall
  <2>6. QED
    BY <2>3, <2>4, <2>5, Zenon
<1>2. CASE Unexpose(c)
  BY <1>2, <1>t, <1>m, <1>g, <1>p, SMTT(30) DEF Unexpose
<1>3. CASE StopServices(c)
  BY <1>3, <1>t, <1>m, <1>g, <1>p, SMTT(30) DEF StopServices, ShutDown
<1>4. CASE Cancel(c)
  BY <1>4, <1>t, <1>m, <1>g, <1>p, SMTT(30) DEF Cancel, provider
<1>5. CASE CloseListener(c)
  <2>1. CASE stop[c].started /\ listener = "open"
    <3>1. StopGoto(c, "wait") /\ listener' = "closed" /\ sock' = FALSE
      BY <1>5, <2>1, Zenon DEF CloseListener
    <3>2. ProviderTypes' /\ StartInv'
      BY <1>5, <1>t, <1>m, <1>g, <1>p, <2>1, <3>1, ZenonT(30) DEF CloseListener
    <3>3. TakenOver'
      BY <1>5, <1>t, <1>m, <1>g, <1>p, <3>1, SMTT(30) DEF CloseListener
    <3>4. Progress'
      BY <1>5, <1>t, <1>g, <1>p, <3>1, SMTT(30) DEF CloseListener
    <3>5. QED
      BY <3>2, <3>3, <3>4, Zenon
  <2>2. CASE ~(stop[c].started /\ listener = "open")
    BY <1>5, <1>t, <1>m, <1>g, <1>p, <2>2, SMTT(30) DEF CloseListener
  <2>3. QED
    BY <2>1, <2>2, Zenon
<1>6. CASE WaitGroup(c)
  BY <1>6, <1>t, <1>m, <1>g, <1>p, SMTT(30) DEF WaitGroup, provider
<1>7. CASE RemoveFile(c)
  BY <1>7, <1>t, <1>m, <1>g, <1>p, SMTT(30) DEF RemoveFile
<1>8. QED
  BY <1>1, <1>2, <1>3, <1>4, <1>5, <1>6, <1>7, ZenonT(30) DEF StopStep

-----------------------------------------------------------------------------
(* The invariant and what it gives.                                        *)

\* The relay's and the provider's invariants hold in every reachable state
\* (net/firewall/relay.go, net/hosted/provider.go).
THEOREM Invariance == Spec => []HostedInv
<1>1. Init => HostedInv
  BY InitRelay, InitProvider, Zenon DEF HostedInv
<1>2. HostedInv /\ [Next]_vars => HostedInv'
  <2> SUFFICES ASSUME RelayInv, ProviderInv, [Next]_vars PROVE RelayInv' /\ ProviderInv'
    BY Zenon DEF HostedInv
  <2>1. RelayInv'
    BY StepRelay, Zenon
  <2>2. CASE UNCHANGED vars \/ RelayOnly
    <3>1. UNCHANGED providerVars
      BY <2>2, Zenon DEF vars, RelayOnly, bridge, providerVars
    <3>2. QED
      BY <2>1, <3>1, ProviderElsewhere, Zenon
  <2>3. QED
    BY <2>1, <2>2, StepStart, StepConnection, StepStop, Zenon DEF Next
<1>3. QED
  BY <1>1, <1>2, PTL DEF Spec

\* Every length prefix on the VM's stream is followed by its own payload, for
\* any number of frames in both directions and any failure of either
\* connection (relay.go writeVM and forward).
THEOREM FramesWhole == Spec => []FramesNotTorn
<1>1. HostedInv => FramesNotTorn
  BY Zenon DEF HostedInv, RelayInv, Pieces
<1>2. QED
  BY <1>1, Invariance, PTL

\* A failed Start keeps no forward, no service and no listener, whichever step
\* failed, on any retry (provider.go Start, fail).
THEOREM StartUnwinds == Spec => []FailedStartReleases
<1>1. HostedInv => FailedStartReleases
  BY Zenon DEF HostedInv, ProviderInv, StartInv, FailedStartReleases
<1>2. QED
  BY <1>1, Invariance, PTL

\* Once all calls of Stop are over, nothing of a started provider is left,
\* however many of them overlapped (provider.go Stop).
THEOREM StopLeavesNothing == Spec => []StopReleases
<1>1. HostedInv => StopReleases
  BY Zenon
  DEF HostedInv, ProviderInv, StartInv, StopInv, TakenOver, Progress, StopReleases,
      Stopping
<1>2. QED
  BY <1>1, Invariance, PTL
=============================================================================
