----------------------------- MODULE SSHServer ------------------------------
(***************************************************************************)
(* The SSH server in the guest: the accept loop, the connections and their *)
(* channels, the commands that run in sessions, agent forwarding, and the  *)
(* Close that the guest's shutdown calls; with, optionally, the reaper of  *)
(* zombies that a guest init runs in the same process.                     *)
(*                                                                         *)
(* Every goroutine that Close waits for is counted in wg, as the code      *)
(* counts it.  A channel's requests are what its client sends, in order.   *)
(* Left out: authentication (a handshake succeeds or not), the contents of *)
(* the environment and of the streams, window sizes, keepalives.           *)
(***************************************************************************)
EXTENDS Integers, Sequences, FiniteSets

CONSTANTS
  Conn,         \* connections
  Channel,      \* channels, on whichever connection opens them
  Setups,       \* whether there is a reaper, and what the clients do: records
                \* [reaper, chan], with per channel a record [type, reqs]
  MaxConns,     \* maxConcurrentConns
  MaxChannels,  \* maxChannelsPerConn
  MaxAgent,     \* maxAgentConns
  None

VARIABLES
  reaper,       \* whether reaper.Start was called
  ln,           \* the listener: open or closed
  published,    \* s.listener is set
  serve,        \* Serve: start, accept, held, returned
  held,         \* the connection it has accepted and not yet handed over
  closer,       \* Close: idle, quit, wait, returned
  straggler,    \* the connections Serve held when Close returned
  wg, sem,      \* s.wg and the number of tokens in sem
  conn,         \* per connection: none, backlog, served, open, gone
  here,         \* per connection: its client is still there
  count,        \* per connection: channelCount
  fwd,          \* agentFwd
  pc,           \* per channel: none, asked, rejected, then a session's serve,
                \* run, drain, status, cleanup or a forward's dial, pipe, then done
  on,           \* per channel: its connection
  type,         \* per channel: session, tcpip, other, or never: not opened
  reqs,         \* per channel: the requests not handled yet
  link,         \* per channel: what its client left open: all, output, nothing
  pty,          \* per channel: it asked for a terminal
  proc,         \* per channel: its command: none, running, exited, stolen, waited
  status,       \* per channel: how that ended
  out,          \* per channel: the copy of its output has not come to the end
  res,          \* per channel: the status to send
  told,         \* per channel: the status the client was sent
  agent,        \* per channel: its agent socket: none, open, closed
  prox          \* per channel: connections to that socket

netVars == <<ln, published, serve, held, closer, straggler>>
connVars == <<conn, here, count>>
chanVars == <<pc, on, type, reqs, link, pty>>
cmdVars == <<proc, status, out, res, told>>
agentVars == <<agent, prox>>
vars == <<reaper, netVars, wg, sem, connVars, fwd, chanVars, cmdVars, agentVars>>

ASSUME ServerAssumption ==
  /\ IsFiniteSet(Conn) /\ IsFiniteSet(Channel) /\ None \notin Conn
  /\ \A s \in Setups : s.reaper \in BOOLEAN

\* How a command ends: with an exit code or by a signal; "none" if it never ran.
Exit0 == [kind |-> "exit", n |-> 0]
Exit2 == [kind |-> "exit", n |-> 2]
Killed == [kind |-> "signal", n |-> 9]
NotRun == [kind |-> "none", n |-> 0]

Init ==
  /\ ln = "open" /\ published = FALSE /\ serve = "start" /\ held = None
  /\ closer = "idle" /\ straggler = {}
  /\ wg = 0 /\ sem = 0
  /\ conn = [c \in Conn |-> "none"] /\ here = [c \in Conn |-> FALSE]
  /\ count = [c \in Conn |-> 0] /\ fwd = {}
  /\ pc = [k \in Channel |-> "none"] /\ on = [k \in Channel |-> None]
  /\ \E s \in Setups : /\ reaper = s.reaper
                       /\ type = [k \in Channel |-> s.chan[k].type]
                       /\ reqs = [k \in Channel |-> s.chan[k].reqs]
  /\ link = [k \in Channel |-> "nothing"] /\ pty = [k \in Channel |-> FALSE]
  /\ proc = [k \in Channel |-> "none"] /\ status = [k \in Channel |-> NotRun]
  /\ out = [k \in Channel |-> FALSE]
  /\ res = [k \in Channel |-> 0] /\ told = [k \in Channel |-> None]
  /\ agent = [k \in Channel |-> "none"] /\ prox = [k \in Channel |-> 0]

-----------------------------------------------------------------------------
(* Clients.                                                                *)

Dial(c) ==
  /\ conn[c] = "none" /\ ln = "open"
  /\ conn' = [conn EXCEPT ![c] = "backlog"]
  /\ here' = [here EXCEPT ![c] = TRUE]
  /\ UNCHANGED <<reaper, netVars, wg, sem, count, fwd, chanVars, cmdVars, agentVars>>

Leave(c) ==
  /\ here[c]
  /\ here' = [here EXCEPT ![c] = FALSE]
  /\ link' = [k \in Channel |-> IF on[k] = c THEN "nothing" ELSE link[k]]
  /\ UNCHANGED <<reaper, netVars, wg, sem, conn, count, fwd, pc, on, type, reqs, pty,
                 cmdVars, agentVars>>

OpenChannel(c, k) ==
  /\ conn[c] = "open" /\ here[c] /\ pc[k] = "none" /\ type[k] # "never"
  /\ pc' = [pc EXCEPT ![k] = "asked"]
  /\ on' = [on EXCEPT ![k] = c]
  /\ link' = [link EXCEPT ![k] = "all"]
  /\ UNCHANGED <<reaper, netVars, wg, sem, connVars, fwd, type, reqs, pty, cmdVars,
                 agentVars>>

\* The client ends its input, or closes the channel.
Shut(k) ==
  /\ link[k] # "nothing"
  /\ \E l \in {"output", "nothing"} \ {link[k]} : link' = [link EXCEPT ![k] = l]
  /\ UNCHANGED <<reaper, netVars, wg, sem, connVars, fwd, pc, on, type, reqs, pty,
                 cmdVars, agentVars>>

-----------------------------------------------------------------------------
(* Serve.                                                                  *)

Publish ==
  /\ serve = "start"
  /\ serve' = "accept" /\ published' = TRUE
  /\ UNCHANGED <<reaper, ln, held, closer, straggler, wg, sem, connVars, fwd, chanVars,
                 cmdVars, agentVars>>

\* Accept returns a connection, or fails once the listener is closed, which
\* Close does after it has closed quit.
Accept ==
  /\ serve = "accept"
  /\ \/ /\ ln = "open"
        /\ \E c \in Conn : conn[c] = "backlog" /\ held' = c
        /\ serve' = "held"
     \/ ln = "closed" /\ serve' = "returned" /\ UNCHANGED held
  /\ UNCHANGED <<reaper, ln, published, closer, straggler, wg, sem, connVars, fwd,
                 chanVars, cmdVars, agentVars>>

\* Mutant: wg.Add is forgotten.
DispatchUncounted ==
  /\ serve = "held" /\ sem < MaxConns
  /\ sem' = sem + 1
  /\ conn' = [conn EXCEPT ![held] = "served"]
  /\ serve' = "accept" /\ held' = None
  /\ UNCHANGED <<reaper, ln, published, closer, straggler, wg, here, count, fwd, chanVars,
                 cmdVars, agentVars>>

\* With a token of sem taken, the connection gets its goroutine.
Dispatch ==
  /\ serve = "held" /\ sem < MaxConns
  /\ sem' = sem + 1 /\ wg' = wg + 1
  /\ conn' = [conn EXCEPT ![held] = "served"]
  /\ serve' = "accept" /\ held' = None
  /\ UNCHANGED <<reaper, ln, published, closer, straggler, here, count, fwd, chanVars,
                 cmdVars, agentVars>>

-----------------------------------------------------------------------------
(* Close.                                                                  *)

CloseQuit ==
  /\ closer = "idle"
  /\ closer' = "quit"
  /\ UNCHANGED <<reaper, ln, published, serve, held, straggler, wg, sem, connVars, fwd,
                 chanVars, cmdVars, agentVars>>

\* A listener that Serve has not published yet stays open.
CloseListener ==
  /\ closer = "quit"
  /\ closer' = "wait"
  /\ ln' = IF published THEN "closed" ELSE ln
  /\ UNCHANGED <<reaper, published, serve, held, straggler, wg, sem, connVars, fwd,
                 chanVars, cmdVars, agentVars>>

CloseReturn ==
  /\ closer = "wait" /\ wg = 0
  /\ closer' = "returned"
  /\ straggler' = {c \in Conn : c = held}
  /\ UNCHANGED <<reaper, ln, published, serve, held, wg, sem, connVars, fwd, chanVars,
                 cmdVars, agentVars>>

-----------------------------------------------------------------------------
(* handleConnection.                                                       *)

ConnDone(c) ==
  /\ conn' = [conn EXCEPT ![c] = "gone"]
  /\ wg' = wg - 1 /\ sem' = sem - 1
  /\ fwd' = fwd \ {c}

\* Mutant: a failed handshake returns past wg.Done.
HandshakeLeaks(c) ==
  /\ conn[c] = "served"
  /\ conn' = [conn EXCEPT ![c] = IF here[c] THEN "open" ELSE "gone"]
  /\ sem' = IF here[c] THEN sem ELSE sem - 1
  /\ UNCHANGED <<reaper, netVars, wg, here, count, fwd, chanVars, cmdVars, agentVars>>

\* The handshake succeeds, or fails: the client has left or is refused, or the
\* deadline passes.
Handshake(c) ==
  /\ conn[c] = "served"
  /\ \/ /\ here[c]
        /\ conn' = [conn EXCEPT ![c] = "open"]
        /\ UNCHANGED <<wg, sem, fwd, here>>
     \/ /\ ConnDone(c)
        /\ here' = [here EXCEPT ![c] = FALSE]
  /\ UNCHANGED <<reaper, netVars, count, chanVars, cmdVars, agentVars>>

\* A new channel: forwards and sessions count towards the limit, whether or not
\* they can be accepted; other types are refused.
NewChannel(k) ==
  /\ pc[k] = "asked"
  /\ LET c == on[k]
         known == type[k] \in {"session", "tcpip"}
         takes == known /\ count[c] < MaxChannels /\ (type[k] = "tcpip" \/ here[c])
     IN  /\ count' = IF known THEN [count EXCEPT ![c] = @ + 1] ELSE count
         /\ wg' = IF takes THEN wg + 1 ELSE wg
         /\ pc' = [pc EXCEPT ![k] = IF ~takes THEN "rejected"
                                    ELSE IF type[k] = "tcpip" THEN "dial" ELSE "serve"]
         /\ link' = [link EXCEPT ![k] = IF takes THEN @ ELSE "nothing"]
  /\ UNCHANGED <<reaper, netVars, sem, conn, here, fwd, on, type, reqs, pty, cmdVars,
                 agentVars>>

\* The client has left and its last new channel was handled.  The channels'
\* own goroutines go on.
ConnEnds(c) ==
  /\ conn[c] = "open" /\ ~here[c]
  /\ \A k \in Channel : on[k] = c => pc[k] # "asked"
  /\ ConnDone(c)
  /\ UNCHANGED <<reaper, netVars, here, count, chanVars, cmdVars, agentVars>>

\* handleDirectTCPIP: the dial and the accept of the channel succeed or not;
\* the forward ends with either of its ends.
Forward(k) ==
  /\ \/ /\ pc[k] = "dial"
        /\ \/ here[on[k]] /\ pc' = [pc EXCEPT ![k] = "pipe"] /\ UNCHANGED <<wg, link>>
           \/ /\ pc' = [pc EXCEPT ![k] = "done"] /\ wg' = wg - 1
              /\ link' = [link EXCEPT ![k] = "nothing"]
     \/ /\ pc[k] = "pipe"
        /\ pc' = [pc EXCEPT ![k] = "done"] /\ wg' = wg - 1
        /\ link' = [link EXCEPT ![k] = "nothing"]
  /\ UNCHANGED <<reaper, netVars, sem, connVars, fwd, on, type, reqs, pty, cmdVars,
                 agentVars>>

-----------------------------------------------------------------------------
(* handleSession and executeCommand.                                       *)

isAgentForwarding(c) == c \in fwd

\* A request before the command.  A terminal or the agent are noted; a settime
\* is done in the server; exec and shell start the command, with an agent
\* socket if that can be made, or fail to; others are refused.
Request(k) ==
  /\ pc[k] = "serve" /\ reqs[k] # <<>>
  /\ reqs' = [reqs EXCEPT ![k] = Tail(@)]
  /\ LET r == Head(reqs[k]) IN
     \/ /\ r = "pty" /\ pty' = [pty EXCEPT ![k] = TRUE]
        /\ UNCHANGED <<pc, fwd, proc, status, res, agent>>
     \/ /\ r = "agent" /\ fwd' = fwd \cup {on[k]}
        /\ UNCHANGED <<pc, pty, proc, status, res, agent>>
     \/ /\ r = "other" /\ UNCHANGED <<pc, pty, fwd, proc, status, res, agent>>
     \/ /\ r = "settime" /\ pc' = [pc EXCEPT ![k] = "status"]
        /\ \/ res' = [res EXCEPT ![k] = 0] /\ status' = [status EXCEPT ![k] = Exit0]
           \/ res' = [res EXCEPT ![k] = 1] /\ UNCHANGED status
        /\ UNCHANGED <<pty, fwd, proc, agent>>
     \/ /\ r = "exec"
        /\ \E a \in {"none"} \cup (IF isAgentForwarding(on[k]) THEN {"open"} ELSE {}) :
             agent' = [agent EXCEPT ![k] = a]
        /\ \/ /\ pc' = [pc EXCEPT ![k] = "run"]
              /\ proc' = [proc EXCEPT ![k] = "running"]
              /\ UNCHANGED res
           \/ /\ pc' = [pc EXCEPT ![k] = "status"] /\ res' = [res EXCEPT ![k] = 1]
              /\ UNCHANGED proc
        /\ UNCHANGED <<pty, fwd, status>>
  /\ UNCHANGED <<reaper, netVars, wg, sem, connVars, on, type, link, out, told, prox>>

\* The client closed the channel without asking for a command.
RequestsEnd(k) ==
  /\ pc[k] = "serve" /\ reqs[k] = <<>> /\ link[k] = "nothing"
  /\ pc' = [pc EXCEPT ![k] = "done"] /\ wg' = wg - 1
  /\ UNCHANGED <<reaper, netVars, sem, connVars, fwd, on, type, reqs, link, pty, cmdVars,
                 agentVars>>

\* The command ends, by itself or by a signal the client sends, with all its
\* output copied or not.
Exit(k) ==
  /\ proc[k] = "running"
  /\ \E s \in {Exit0, Exit2} \cup (IF link[k] = "nothing" THEN {} ELSE {Killed}) :
       status' = [status EXCEPT ![k] = s]
  /\ \E o \in BOOLEAN : out' = [out EXCEPT ![k] = o]
  /\ proc' = [proc EXCEPT ![k] = "exited"]
  /\ UNCHANGED <<reaper, netVars, wg, sem, connVars, fwd, chanVars, res, told, agentVars>>

\* The copy to the channel gets to the end of the output, when no process that
\* the command left holds the pipe either, or fails because the client closed
\* the channel.
CopyOutput(k) ==
  /\ out[k] /\ pc[k] \in {"run", "drain"}
  /\ out' = [out EXCEPT ![k] = FALSE]
  /\ UNCHANGED <<reaper, netVars, wg, sem, connVars, fwd, chanVars, proc, status,
                 res, told, agentVars>>

\* Wait4(-1): the reaper may be first to ask for the status of the command.
Reap(k) ==
  /\ reaper /\ proc[k] = "exited"
  /\ proc' = [proc EXCEPT ![k] = "stolen"]
  /\ UNCHANGED <<reaper, netVars, wg, sem, connVars, fwd, chanVars, status, out,
                 res, told, agentVars>>

\* Mutant: an error that is not an exit counts as success.
ExitCodeLenient(p, s) ==
  IF p = "stolen" THEN 0 ELSE IF s.kind = "signal" THEN 128 + s.n ELSE s.n

\* exitCode: of a signal 128 and its number, of any other error 1.
exitCode(p, s) ==
  IF p = "stolen" THEN 1 ELSE IF s.kind = "signal" THEN 128 + s.n ELSE s.n

\* Mutant: cmd.Stdin = ch, whose copy Wait waits for.
WaitForStdin(k) ==
  /\ pc[k] = "run" /\ proc[k] \in {"exited", "stolen"}
  /\ ~pty[k] => link[k] # "all"
  /\ res' = [res EXCEPT ![k] = exitCode(proc[k], status[k])]
  /\ proc' = [proc EXCEPT ![k] = "waited"]
  /\ pc' = [pc EXCEPT ![k] = "drain"]
  /\ UNCHANGED <<reaper, netVars, wg, sem, connVars, fwd, on, type, reqs, link, pty,
                 status, out, told, agentVars>>

\* cmd.Wait, first half: the process.
Wait(k) ==
  /\ pc[k] = "run" /\ proc[k] \in {"exited", "stolen"}
  /\ res' = [res EXCEPT ![k] = exitCode(proc[k], status[k])]
  /\ proc' = [proc EXCEPT ![k] = "waited"]
  /\ pc' = [pc EXCEPT ![k] = "drain"]
  /\ UNCHANGED <<reaper, netVars, wg, sem, connVars, fwd, on, type, reqs, link, pty,
                 status, out, told, agentVars>>

\* Mutant: nobody waits for the copies.
DrainedAtOnce(k) ==
  /\ pc[k] = "drain"
  /\ pc' = [pc EXCEPT ![k] = "status"]
  /\ UNCHANGED <<reaper, netVars, wg, sem, connVars, fwd, on, type, reqs, link, pty,
                 cmdVars, agentVars>>

\* cmd.Wait, second half: without a terminal Wait also waits for the copies of
\* the output, which end when nothing holds the pipes.  With one the session
\* closes the terminal, which ends the copy wherever it is.
Drained(k) ==
  /\ pc[k] = "drain"
  /\ ~pty[k] => ~out[k]
  /\ pc' = [pc EXCEPT ![k] = "status"]
  /\ UNCHANGED <<reaper, netVars, wg, sem, connVars, fwd, on, type, reqs, link, pty,
                 cmdVars, agentVars>>

\* sendExitStatus, which closes the channel; the agent socket is closed next.
SendExitStatus(k) ==
  /\ pc[k] = "status"
  /\ told' = [told EXCEPT ![k] = IF link[k] = "nothing" THEN None ELSE res[k]]
  /\ link' = [link EXCEPT ![k] = "nothing"]
  /\ agent' = [agent EXCEPT ![k] = IF @ = "open" THEN "closed" ELSE @]
  /\ pc' = [pc EXCEPT ![k] = "cleanup"]
  /\ UNCHANGED <<reaper, netVars, wg, sem, connVars, fwd, on, type, reqs, pty, proc,
                 status, out, res, prox>>

\* agentCleanup waits for the connections to the socket; then the session ends.
SessionEnds(k) ==
  /\ pc[k] = "cleanup" /\ prox[k] = 0
  /\ pc' = [pc EXCEPT ![k] = "done"] /\ wg' = wg - 1
  /\ UNCHANGED <<reaper, netVars, sem, connVars, fwd, on, type, reqs, link, pty, cmdVars,
                 agentVars>>

\* A process in the guest connects to the agent socket, within the limit and
\* while the client can be asked for a channel, or ends its connection.
AgentProxy(k) ==
  /\ \/ /\ agent[k] = "open" /\ prox[k] < MaxAgent /\ conn[on[k]] = "open" /\ here[on[k]]
        /\ prox' = [prox EXCEPT ![k] = @ + 1]
     \/ prox[k] > 0 /\ prox' = [prox EXCEPT ![k] = @ - 1]
  /\ UNCHANGED <<reaper, netVars, wg, sem, connVars, fwd, chanVars, cmdVars, agent>>

AgentDisconnects(k) == AgentProxy(k) /\ prox'[k] < prox[k]

-----------------------------------------------------------------------------
Next ==
  \/ Publish \/ Accept \/ Dispatch
  \/ CloseQuit \/ CloseListener \/ CloseReturn
  \/ \E c \in Conn : \/ Dial(c) \/ Leave(c) \/ Handshake(c) \/ ConnEnds(c)
                     \/ \E k \in Channel : OpenChannel(c, k)
  \/ \E k \in Channel :
       \/ Shut(k) \/ NewChannel(k) \/ Forward(k) \/ Request(k) \/ RequestsEnd(k)
       \/ Exit(k) \/ CopyOutput(k) \/ Reap(k)
       \/ Wait(k) \/ Drained(k) \/ SendExitStatus(k) \/ SessionEnds(k) \/ AgentProxy(k)

\* The server's goroutines run; processes that hold a command's output, and
\* connections to an agent socket, end; clients leave a server that is closing, and the
\* commands then end too.
Fairness ==
  /\ WF_vars(Publish) /\ WF_vars(Accept) /\ WF_vars(Dispatch)
  /\ WF_vars(CloseListener) /\ WF_vars(CloseReturn)
  /\ \A c \in Conn : /\ WF_vars(Handshake(c)) /\ WF_vars(ConnEnds(c))
                     /\ WF_vars(closer # "idle" /\ Leave(c))
  /\ \A k \in Channel :
       /\ WF_vars(NewChannel(k)) /\ WF_vars(Request(k)) /\ WF_vars(RequestsEnd(k))
       /\ WF_vars(CopyOutput(k)) /\ WF_vars(AgentDisconnects(k))
       /\ WF_vars(Wait(k)) /\ WF_vars(Drained(k)) /\ WF_vars(SendExitStatus(k))
       /\ WF_vars(SessionEnds(k))
       /\ WF_vars(closer # "idle" /\ (Exit(k) \/ Forward(k)))

Spec == Init /\ [][Next]_vars /\ Fairness

-----------------------------------------------------------------------------
Busy(k) == pc[k] \in {"serve", "run", "drain", "status", "cleanup", "dial", "pipe"}

\* When Close has returned, no goroutine of the server serves a connection or
\* one of its channels any more (Close "waiting for active connections to
\* finish").  The exceptions are those of the code: a connection that Serve had
\* accepted and was holding for a free slot, and any number of them if Close
\* came before Serve published its listener.
CloseWaits ==
  closer = "returned" /\ ln = "closed" =>
    /\ \A c \in Conn : conn[c] \in {"served", "open"} => c \in straggler
    /\ \A k \in Channel : Busy(k) => on[k] \in straggler

\* A client is told 0 only if what it asked for ended well, whoever collected
\* the command's status; without a reaper it is told the command's own exit
\* code, or 128 and the signal that ended it (runWithPTY, runWithoutPTY,
\* exitCode, handleSettime).
StatusTrue ==
  \A k \in Channel : told[k] # None =>
    /\ told[k] = 0 => status[k] = Exit0
    /\ ~reaper /\ proc[k] = "waited" =>
         told[k] = IF status[k] = Killed THEN 137 ELSE status[k].n

\* A command without a terminal has its output forwarded before the client is
\* told how it ended, which closes the channel (runWithoutPTY, sendExitStatus).
OutputBeforeStatus ==
  \A k \in Channel : told[k] # None /\ ~pty[k] => ~out[k]

\* A client that stays is told the status of a command that has ended, even
\* if it keeps its input open (runWithoutPTY: "A command that exits without
\* draining stdin then never gets its exit-status sent").
ExitReported ==
  \A k \in Channel : proc[k] = "exited" ~> told[k] # None \/ link[k] = "nothing"

\* Close returns once clients leave and commands end: no goroutine waits for
\* another that waits for it, whatever had been accepted, forwarded or started
\* (Serve, handleConnection, agentCleanup).
CloseReturns == closer = "quit" ~> closer = "returned"
=============================================================================
