--------------------------- MODULE HostedProvider ---------------------------
(***************************************************************************)
(* Package net/hosted, Provider: Start with its unwinding, the accept loop *)
(* and the handler of the runner's connection, the HTTP services, and      *)
(* concurrent calls of Stop.  The relay of the connection is module Relay. *)
(*                                                                         *)
(* gvisor-tap-vsock is external: it binds and releases forwards, listens   *)
(* for services, and bridges a connection until it is closed.              *)
(***************************************************************************)
EXTENDS Relay, FiniteSets

CONSTANTS
  Stoppers,     \* calls of Stop
  Forwards,     \* per mode: the host addresses to forward (Config.Forwards)
  Hosted,       \* per mode: pendingServices
  Callers,      \* per mode: the calls of Stop that are made
  MaxStarts     \* bound on the calls of Start

VARIABLES
  mu,          \* p.mu: free or start; others hold it within one step
  vn,          \* p.vn: none or set
  bound,       \* forwards the virtual network has bound on the host
  locals,      \* p.forwardLocals
  serving,     \* services whose server was started and not shut down
  draining,    \* services whose goroutine has yet to return from Serve
  running,     \* p.runningServices
  listener,    \* p.listener: none, open, closed
  sock,        \* the socket file exists
  sockPath,    \* p.sockPath is set
  spc, result, \* Start: its step, and how the last call ended
  stop,        \* per stopper: its step and what it took over
  accept,      \* the accept loop: off, running, ended
  handler,     \* handleConn: none, begin, relayed, direct, ended
  dialled,     \* the runner's connection: no, queued or accepted
  starts

provider == <<mu, vn, bound, locals, serving, draining, running, listener, sock, sockPath>>
calls == <<spc, result, stop, starts>>
bridge == <<accept, handler, dialled>>
vars == <<provider, calls, bridge, relayVars, mode, ctx>>

Locals == Forwards[mode]
Services == Hosted[mode]

NotStopping == [pc |-> "idle", locals |-> {}, services |-> {}, started |-> FALSE, path |-> FALSE]

Init ==
  /\ mode \in Modes /\ ctx = "live"
  /\ mu = "free" /\ vn = "none" /\ bound = {} /\ locals = {}
  /\ serving = {} /\ draining = {} /\ running = {}
  /\ listener = "none" /\ sock \in BOOLEAN /\ sockPath = FALSE
  /\ spc = "idle" /\ result = "none" /\ starts = 0
  /\ stop = [c \in Stoppers |-> NotStopping]
  /\ accept = "off" /\ handler = "none" /\ dialled = "no"
  /\ RelayInit

-----------------------------------------------------------------------------
(* Start, under p.mu from its first step to its last.                      *)

Frame == UNCHANGED <<stop, starts, handler, dialled, relayVars, mode, ctx>>

\* A caller that overlaps Start and Stop is not modelled; Run and VM.Stop do
\* not.  A second Start is refused, after Stop too.
Stopping(c) == stop[c].pc \notin {"idle", "returned"}

StartCall ==
  /\ spc = "idle" /\ mu = "free" /\ starts < MaxStarts
  /\ \A c \in Stoppers : ~Stopping(c)
  /\ starts' = starts + 1
  /\ IF vn = "set" THEN UNCHANGED <<spc, mu, result>>
                   ELSE spc' = "forwards" /\ mu' = "start" /\ result' = "none"
  /\ UNCHANGED <<vn, bound, locals, serving, draining, running, listener, sock, sockPath>>
  /\ UNCHANGED <<stop, bridge, relayVars, mode, ctx>>

\* One forward is bound (in the order of a Go map).
Expose(l) ==
  /\ spc = "forwards" /\ l \in Locals \ bound
  /\ bound' = bound \cup {l}
  /\ UNCHANGED <<mu, vn, locals, serving, draining, running, listener, sock, sockPath, spc, result, accept>>
  /\ Frame

\* shutdownServices: the goroutines of the servers will end.
ShutDown(S) == serving' = serving \ S /\ draining' = draining \cup S

\* Mutant: fail leaves the forwards to Stop.
FailKeeping(S) ==
  /\ ShutDown(S) /\ running' = {}
  /\ locals' = {} /\ vn' = "none"
  /\ spc' = "idle" /\ mu' = "free" /\ result' = "failed"
  /\ UNCHANGED bound

\* The services that were started are shut down, and fail releases the rest.
Fail(S) ==
  /\ ShutDown(S) /\ running' = {}
  /\ bound' = {} /\ locals' = {} /\ vn' = "none"
  /\ spc' = "idle" /\ mu' = "free" /\ result' = "failed"

\* virtualnetwork.New fails, or a host port is taken.
ExposeFails ==
  /\ spc = "forwards" /\ Fail({})
  /\ UNCHANGED <<listener, sock, sockPath, accept>> /\ Frame

Exposed ==
  /\ spc = "forwards" /\ bound = Locals
  /\ locals' = bound /\ vn' = "set" /\ spc' = "services"
  /\ UNCHANGED <<mu, bound, serving, draining, running, listener, sock, sockPath, result, accept>> /\ Frame

\* startServices, one service; its goroutine is spawned.
StartService(s) ==
  /\ spc = "services" /\ s \notin running
  /\ running' = running \cup {s} /\ serving' = serving \cup {s}
  /\ UNCHANGED <<mu, vn, bound, locals, draining, listener, sock, sockPath, spc, result, accept>> /\ Frame

StartServiceFails ==
  /\ spc = "services" /\ running # Services
  /\ Fail(running)
  /\ UNCHANGED <<listener, sock, sockPath, accept>> /\ Frame

\* The stale socket file goes, and sockPath is set before it can fail.
RemoveSocket ==
  /\ spc = "services" /\ running = Services
  /\ sockPath' = TRUE
  /\ \/ /\ sock' = FALSE /\ spc' = "listen"
        /\ UNCHANGED <<mu, vn, bound, locals, serving, draining, running, result>>
     \/ sock /\ UNCHANGED sock /\ Fail(running)
  /\ UNCHANGED <<listener, accept>> /\ Frame

Listen ==
  /\ spc = "listen"
  /\ \/ /\ listener' = "open" /\ sock' = TRUE /\ spc' = "accept"
        /\ UNCHANGED <<mu, vn, bound, locals, serving, draining, running, result>>
     \/ UNCHANGED <<listener, sock>> /\ Fail(running)
  /\ UNCHANGED <<sockPath, accept>> /\ Frame

\* The context and the relay are set, and then the accept loop starts.
StartAccept ==
  /\ spc = "accept"
  /\ accept' = "running" /\ result' = "ok"
  /\ spc' = "idle" /\ mu' = "free"
  /\ UNCHANGED <<vn, bound, locals, serving, draining, running, listener, sock, sockPath>> /\ Frame

Start == \/ StartCall \/ ExposeFails \/ Exposed \/ (\E l \in Locals : Expose(l))
         \/ (\E s \in Services : StartService(s)) \/ StartServiceFails
         \/ RemoveSocket \/ Listen \/ StartAccept

-----------------------------------------------------------------------------
(* The connection of the runner, and the goroutines of the services.       *)

Quiet == UNCHANGED <<provider, calls, mode, ctx>>
RelayQuiet == UNCHANGED <<fwd, sent, vmWriteMu, half>>

Dial ==
  /\ listener = "open" /\ dialled = "no"
  /\ dialled' = "queued"
  /\ conn' = [conn EXCEPT !["vm"] = "open"]
  /\ UNCHANGED <<accept, handler>> /\ RelayQuiet /\ Quiet

RunnerCloses ==
  /\ conn["vm"] = "open"
  /\ conn' = [conn EXCEPT !["vm"] = "closed"]
  /\ UNCHANGED bridge /\ RelayQuiet /\ Quiet

AcceptConn ==
  /\ accept = "running" /\ listener = "open" /\ dialled = "queued"
  /\ dialled' = "accepted" /\ handler' = "begin"
  /\ UNCHANGED <<accept, relayVars>> /\ Quiet

\* Accept fails once the listener is closed; a queued connection is reset.
AcceptEnds ==
  /\ accept = "running" /\ listener = "closed"
  /\ accept' = "ended"
  /\ conn' = [conn EXCEPT !["vm"] = IF dialled = "queued" THEN "closed" ELSE @]
  /\ UNCHANGED <<handler, dialled>> /\ RelayQuiet /\ Quiet

\* handleConn, under p.mu for a moment, with or without the relay.
HandleConn ==
  /\ handler = "begin" /\ mu = "free"
  /\ \/ /\ mode = "none" /\ handler' = "direct"
        /\ UNCHANGED relayVars
     \/ /\ mode # "none" /\ handler' = "relayed"
        /\ conn' = [conn EXCEPT !["net"] = "open"]
        /\ RunRelay
  /\ UNCHANGED <<accept, dialled>> /\ Quiet

\* AcceptQemu (external) returns when its connection is closed, ...
Bridged == IF handler = "relayed" THEN "net" ELSE "vm"
BridgeReturns ==
  /\ handler' = "ended"
  /\ conn' = [conn EXCEPT ![Bridged] = "closed"]
  /\ UNCHANGED <<accept, dialled>> /\ RelayQuiet /\ Quiet
BridgeClosed == handler \in {"relayed", "direct"} /\ conn[Bridged] = "closed" /\ BridgeReturns

\* ... on a protocol error, and when a frame makes it look at the context.
BridgeFails == handler \in {"relayed", "direct"} /\ conn[Bridged] = "open" /\ BridgeReturns

Drain(s) ==
  /\ s \in draining /\ draining' = draining \ {s}
  /\ UNCHANGED <<mu, vn, bound, locals, serving, running, listener, sock, sockPath>>
  /\ UNCHANGED <<calls, bridge, relayVars, mode, ctx>>

\* The context of Start, which the relay's is derived from, ends.
ContextEnds ==
  /\ listener # "none" /\ ctx = "live" /\ ctx' = "done"
  /\ UNCHANGED <<provider, calls, bridge, relayVars, mode>>

-----------------------------------------------------------------------------
(* Stop.                                                                   *)

StopGoto(c, pc) == stop' = [stop EXCEPT ![c].pc = pc]
StopQuiet == UNCHANGED <<spc, result, starts, bridge, relayVars, mode>>

\* Under p.mu: the services and the forwards are taken over, the rest is read.
StopCall(c) ==
  /\ c \in Callers[mode] /\ stop[c].pc = "idle" /\ spc = "idle" /\ mu = "free"
  /\ stop' = [stop EXCEPT ![c] =
       [pc |-> "unexpose", locals |-> locals, services |-> running,
        started |-> listener # "none", path |-> sockPath]]
  /\ running' = {} /\ locals' = {}
  /\ UNCHANGED <<mu, vn, bound, serving, draining, listener, sock, sockPath, ctx>> /\ StopQuiet

Unexpose(c) ==
  /\ stop[c].pc = "unexpose"
  /\ bound' = bound \ stop[c].locals
  /\ StopGoto(c, "services")
  /\ UNCHANGED <<mu, vn, locals, serving, draining, running, listener, sock, sockPath, ctx>> /\ StopQuiet

StopServices(c) ==
  /\ stop[c].pc = "services"
  /\ ShutDown(stop[c].services)
  /\ StopGoto(c, "cancel")
  /\ UNCHANGED <<mu, vn, bound, locals, running, listener, sock, sockPath, ctx>> /\ StopQuiet

\* Mutant: the context is left to the caller of Start.
CancelNot(c) ==
  /\ stop[c].pc = "cancel" /\ StopGoto(c, "close")
  /\ UNCHANGED <<provider, ctx>> /\ StopQuiet

Cancel(c) ==
  /\ stop[c].pc = "cancel"
  /\ ctx' = IF stop[c].started THEN "done" ELSE ctx
  /\ StopGoto(c, "close")
  /\ UNCHANGED provider /\ StopQuiet

\* Closing a Unix listener unlinks its file.
CloseListener(c) ==
  /\ stop[c].pc = "close"
  /\ IF stop[c].started /\ listener = "open" THEN listener' = "closed" /\ sock' = FALSE
                                             ELSE UNCHANGED <<listener, sock>>
  /\ StopGoto(c, "wait")
  /\ UNCHANGED <<mu, vn, bound, locals, serving, draining, running, sockPath, ctx>> /\ StopQuiet

\* Mutant: only the accept loop is waited for.
WaitAccept(c) ==
  /\ stop[c].pc = "wait" /\ accept # "running"
  /\ StopGoto(c, "remove")
  /\ UNCHANGED <<provider, ctx>> /\ StopQuiet

\* p.wg.Wait: the accept loop, the handler and the goroutines of the services.
WaitGroup(c) ==
  /\ stop[c].pc = "wait"
  /\ accept # "running" /\ handler \in {"none", "ended"} /\ serving = {} /\ draining = {}
  /\ StopGoto(c, "remove")
  /\ UNCHANGED <<provider, ctx>> /\ StopQuiet

RemoveFile(c) ==
  /\ stop[c].pc = "remove"
  /\ sock' = (sock /\ ~stop[c].path)
  /\ StopGoto(c, "returned")
  /\ UNCHANGED <<mu, vn, bound, locals, serving, draining, running, listener, sockPath, ctx>> /\ StopQuiet

StopStep(c) == \/ Unexpose(c) \/ StopServices(c) \/ Cancel(c) \/ CloseListener(c)
               \/ WaitGroup(c) \/ RemoveFile(c)

RelayOnly == UNCHANGED <<provider, calls, bridge, mode, ctx>>

Next ==
  \/ Start \/ Dial \/ RunnerCloses \/ AcceptConn \/ AcceptEnds \/ HandleConn
  \/ BridgeClosed \/ BridgeFails \/ ContextEnds
  \/ \E s \in Services : Drain(s)
  \/ \E c \in Stoppers : StopCall(c) \/ StopStep(c)
  \/ RelayStep /\ RelayOnly

\* Goroutines that can run do run, and the virtual network reads what the
\* relay writes to it (external); nothing is assumed of callers and of the
\* runner, which may never read again.
Fairness ==
  /\ \A c \in Stoppers : WF_vars(StopStep(c))
  /\ \A s \in UNION {Hosted[m] : m \in Modes} : WF_vars(Drain(s))
  /\ WF_vars(AcceptEnds) /\ WF_vars(AcceptConn) /\ WF_vars(HandleConn) /\ WF_vars(BridgeClosed)
  /\ WF_vars(CloseConns /\ RelayOnly)
  /\ \A d \in Directions : /\ WF_vars(Forward(d) /\ RelayOnly)
                            /\ WF_vars(Write(d) /\ fwd[d].to = "net" /\ RelayOnly)

Spec == Init /\ [][Next]_vars /\ Fairness

-----------------------------------------------------------------------------
(* Properties.                                                             *)

\* A failed Start keeps nothing, whichever step failed: the caller can retry,
\* and the ports are free for other sessions (provider.go Start, fail).
FailedStartReleases ==
  result = "failed" =>
    bound = {} /\ serving = {} /\ running = {} /\ vn = "none" /\ listener = "none" /\ accept = "off"

\* Once the calls of Stop are over, nothing of a started provider is left: no
\* forward, service, listener, socket file, accept loop or handler, however
\* the calls overlapped each other and the runner's connection (Stop).
StopReleases ==
  /\ \E c \in Stoppers : stop[c].pc = "returned" /\ stop[c].started
  /\ \A c \in Stoppers : ~Stopping(c)
  => /\ bound = {} /\ serving = {} /\ draining = {} /\ ~sock
     /\ listener = "closed" /\ accept = "ended" /\ handler \in {"none", "ended"}

\* Stop returns, even while the relay is blocked in a write to a VM that no
\* longer reads.  Without a relay it may wait for the runner to close its
\* connection (Stop, Relay.Run).
StopReturns ==
  \A c \in Stoppers :
    Stopping(c) ~> (stop[c].pc = "returned" \/ (mode = "none" /\ conn["vm"] = "open"))

\* The two goroutines of a relay end together: after the context, after an
\* error of either, and after the runner has closed its end (Relay.Run).
RelayEnds == (fwd["egress"].pc # "off" /\ (GroupDone \/ conn["vm"] = "closed")) ~> RelayEnded
=============================================================================
