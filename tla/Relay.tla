------------------------------- MODULE Relay --------------------------------
(***************************************************************************)
(* Package firewall, Relay: the two goroutines of Run on one connection,   *)
(* the mutex that serializes their writes to the VM, and the goroutine     *)
(* that closes both connections.  What forward decides about a frame is    *)
(* module Firewall's subject; here it is any of its outcomes.              *)
(*                                                                         *)
(* A connection is closed when either end has closed it.  A write may      *)
(* block for as long as the other end does not read.                       *)
(***************************************************************************)
EXTENDS Naturals

CONSTANTS MaxFrames   \* bound on the frames either side has sent

VARIABLES
  mode,      \* none, rules (a filter), egress (a filter and a DNS hook)
  ctx,       \* the context given to Run: live or done
  conn,      \* per side (vm, net): off, open or closed
  fwd,       \* per direction: pc, and the side it writes to
  sent,      \* per direction: frames sent and not read yet
  vmWriteMu, \* the direction that holds it, or "free"
  half       \* the direction whose length prefix is the last thing written
             \* to the VM, "none" after a payload, "torn" after a mix-up

relayVars == <<conn, fwd, sent, vmWriteMu, half>>

Directions == {"egress", "ingress"}
Modes == {"none", "rules", "egress"}
Src(d) == IF d = "egress" THEN "vm" ELSE "net"
Dst(d) == IF d = "egress" THEN "net" ELSE "vm"

RelayInit ==
  /\ conn = [s \in {"vm", "net"} |-> "off"]
  /\ fwd = [d \in Directions |-> [pc |-> "off", to |-> Dst(d)]]
  /\ sent = [d \in Directions |-> 0]
  /\ vmWriteMu = "free"
  /\ half = "none"

\* errgroup's context ends with the given one, or with the first error; every
\* return of forward is an error.
GroupDone == ctx = "done" \/ \E d \in Directions : fwd[d].pc = "ended"

GotoAs(d, pc, to) == fwd' = [fwd EXCEPT ![d] = [pc |-> pc, to |-> to]]
GotoPC(d, pc) == GotoAs(d, pc, fwd[d].to)

\* Run: the goroutines start.
RunRelay ==
  /\ fwd' = [d \in Directions |-> [pc |-> "length", to |-> Dst(d)]]
  /\ UNCHANGED <<sent, vmWriteMu, half>>

\* The other end of a connection sends a frame.
Send(d) ==
  /\ fwd[d].pc # "off" /\ conn[Src(d)] = "open" /\ sent[d] < MaxFrames
  /\ sent' = [sent EXCEPT ![d] = @ + 1]
  /\ UNCHANGED <<conn, fwd, vmWriteMu, half>>

\* The length prefix and the payload of a frame, from the 64 KiB buffer of
\* the reader even after a close; an empty frame is skipped.
ReadFrame(d) ==
  /\ fwd[d].pc = "length" /\ sent[d] > 0
  /\ sent' = [sent EXCEPT ![d] = @ - 1]
  /\ GotoPC(d, "decide") \/ GotoPC(d, "length")
  /\ UNCHANGED <<conn, vmWriteMu, half>>

\* The connection ends before a frame is complete, or the length exceeds
\* maxFrameSize.
ReadFails(d) ==
  /\ fwd[d].pc = "length" /\ (conn[Src(d)] = "closed" \/ sent[d] > 0)
  /\ GotoPC(d, "ended")
  /\ UNCHANGED <<conn, sent, vmWriteMu, half>>

\* Hook and filter: drop the frame, answer it (a DNS query, in egress mode
\* only), or write it on.
Decide(d) ==
  /\ fwd[d].pc = "decide"
  /\ \/ GotoAs(d, "length", Dst(d))
     \/ mode = "egress" /\ d = "egress" /\ GotoAs(d, "lock", "vm")
     \/ GotoAs(d, IF mode = "egress" /\ d = "ingress" THEN "lock" ELSE "prefix", Dst(d))
  /\ UNCHANGED <<conn, sent, vmWriteMu, half>>

\* Mutant: answers are written without the mutex.
LockVMNot(d) ==
  /\ fwd[d].pc = "lock"
  /\ GotoPC(d, "prefix")
  /\ UNCHANGED <<conn, sent, vmWriteMu, half>>

\* writeVM takes the mutex ...
LockVM(d) ==
  /\ fwd[d].pc = "lock" /\ vmWriteMu = "free"
  /\ vmWriteMu' = d
  /\ GotoPC(d, "prefix")
  /\ UNCHANGED <<conn, sent, half>>

\* ... and a frame is written in two pieces.
WritePrefix(d) ==
  /\ fwd[d].pc = "prefix" /\ conn[fwd[d].to] = "open"
  /\ half' = IF fwd[d].to = "net" THEN half ELSE IF half = "none" THEN d ELSE "torn"
  /\ GotoPC(d, "payload")
  /\ UNCHANGED <<conn, sent, vmWriteMu>>

Unlocked(d) == IF vmWriteMu = d THEN "free" ELSE vmWriteMu

WritePayload(d) ==
  /\ fwd[d].pc = "payload" /\ conn[fwd[d].to] = "open"
  /\ half' = IF fwd[d].to = "net" THEN half ELSE IF half = d THEN "none" ELSE "torn"
  /\ vmWriteMu' = Unlocked(d)
  /\ GotoAs(d, "length", Dst(d))
  /\ UNCHANGED <<conn, sent>>

WriteFails(d) ==
  /\ fwd[d].pc \in {"prefix", "payload"} /\ conn[fwd[d].to] = "closed"
  /\ vmWriteMu' = Unlocked(d)
  /\ GotoPC(d, "ended")
  /\ UNCHANGED <<conn, sent, half>>

\* Mutant: the connections are closed only when the given context ends.
CloseConnsLate ==
  /\ ctx = "done" /\ fwd["egress"].pc # "off" /\ conn["vm"] = "open"
  /\ conn' = [conn EXCEPT !["vm"] = "closed", !["net"] = "closed"]
  /\ UNCHANGED <<fwd, sent, vmWriteMu, half>>

\* Run's third goroutine closes the VM's connection first.
CloseConns ==
  /\ GroupDone /\ fwd["egress"].pc # "off"
  /\ \/ conn["vm"] = "open" /\ conn' = [conn EXCEPT !["vm"] = "closed"]
     \/ conn["vm"] = "closed" /\ conn["net"] = "open" /\ conn' = [conn EXCEPT !["net"] = "closed"]
  /\ UNCHANGED <<fwd, sent, vmWriteMu, half>>

\* The steps that wait for nobody else, and those that wait for a reader.
Forward(d) == ReadFrame(d) \/ ReadFails(d) \/ Decide(d) \/ LockVM(d) \/ WriteFails(d)
Write(d) == WritePrefix(d) \/ WritePayload(d)

RelayStep == CloseConns \/ \E d \in Directions : Send(d) \/ Forward(d) \/ Write(d)

\* Every length prefix on the VM's stream is followed by its own payload,
\* although both goroutines write to it (relay.go writeVM: "to prevent
\* interleaving").
FramesNotTorn == half # "torn"

RelayEnded == \A d \in Directions : fwd[d].pc = "ended"
=============================================================================
