------------------------------ MODULE Firewall ------------------------------
(***************************************************************************)
(* The frame filter of net/firewall together with the DNS interceptor of   *)
(* net/egress that feeds it.  Three goroutines share its state:            *)
(*                                                                         *)
(*   - one forwarder per direction (relay.go, forward), which takes a      *)
(*     frame through the DNS hook, connection tracking, the static rules,  *)
(*     the dynamic rules and the default action;                           *)
(*   - the expiry goroutine (filter.go, StartExpiry), which sweeps flows   *)
(*     and dynamic rules.                                                  *)
(*                                                                         *)
(* Every critical section of the two mutexes, and every reading of the     *)
(* wall clock outside of one, is a step of its own.                        *)
(*                                                                         *)
(* Data abstractions.  A CIDR is the set of addresses it contains, the     *)
(* zero-value IPNet (a wildcard) is {}.  A host entry of the policy is the *)
(* set of names it matches.  The list of dynamic entries is a set: every   *)
(* dynamic rule has action Allow, so their order decides nothing.  Time    *)
(* advances in ticks.  Reading and writing the connections is module       *)
(* Relay's subject; here a write is one step.                              *)
(***************************************************************************)
EXTENDS Naturals, FiniteSets, Sequences

CONSTANTS
  IPs,             \* IPv4 addresses
  Gateway,         \* topology.GatewayIP
  Names,           \* host names a DNS message may carry
  Unparseable,     \* stands for a DNS payload that does not parse
  NoDNS,           \* the payload of a frame that is not DNS
  NoFrame,         \* the frame of a forwarder that is waiting for one
  Configs,         \* the configurations the relay may be built with
  TcpFlowTTL, DefaultFlowTTL, MinTTL, MaxTTL,  \* in ticks
  MaxRules,        \* DynamicRules.maxRules
  MaxClock         \* bound on the clock, for model checking

VARIABLES
  config,    \* how the relay was built; it never changes
  now,       \* the wall clock
  flows,     \* ConnTracker.flows: flow key -> time it was last tracked
  entries,   \* DynamicRules.entries
  fwd,       \* the two forwarders' local state
  sweeper,   \* the expiry goroutine's local state
  opened,    \* history: the headers a rule, static or dynamic, has allowed
  resolved   \* history: the addresses allowed names have resolved to

vars == <<config, now, flows, entries, fwd, sweeper, opened, resolved>>

Ingress == "ingress"
Egress == "egress"
Directions == {Ingress, Egress}
Actions == {"allow", "deny"}
TCP == 6
UDP == 17
Ports == 0 .. 65535      \* 0 is the wildcard in a rule
Protos == 0 .. 255       \* 0 is the wildcard in a rule

Headers == [proto : Protos, src : IPs, dst : IPs, sport : Ports, dport : Ports]
RuleSet == [dir : Directions, action : Actions, proto : Protos,
            src : SUBSET IPs, dst : SUBSET IPs, sport : Ports, dport : Ports]
Messages == [qname : Names \cup {Unparseable}, ips : SUBSET IPs, ttl : Nat]
\* kind: "ipv4" has a parsed header; "arp"; "other" is any other EtherType or
\* a malformed IPv4 packet; "runt" is shorter than an Ethernet header.
FrameSet == [kind : {"ipv4", "arp", "other", "runt"}, hdr : Headers,
             dns : Messages \cup {NoDNS}]
HostEntries == [names : SUBSET Names, ports : SUBSET Ports, proto : Protos]
ConfigSet == [rules : Seq(RuleSet), default : Actions, hook : BOOLEAN,
              policy : Seq(HostEntries), frames : [Directions -> SUBSET FrameSet]]

Rules == config.rules              \* Filter.rules, in order
DefaultAction == config.default    \* Filter.defaultAction
Hook == config.hook                \* Relay.dnsHook # nil: dynamic rules too
Policy == config.policy            \* Policy.hosts
Frames == config.frames            \* the frames that may arrive

ASSUME FirewallAssumption ==
  /\ Gateway \in IPs
  /\ NoDNS \notin Messages
  /\ NoFrame \notin FrameSet
  /\ Unparseable \notin Names
  /\ Configs \subseteq ConfigSet
  /\ \A c \in Configs : c.hook => c.default = "deny"    \* buildEgressRelay
  /\ TcpFlowTTL \in Nat /\ DefaultFlowTTL \in Nat
  /\ MinTTL \in Nat /\ MaxTTL \in Nat
  /\ MaxRules \in Nat /\ MaxClock \in Nat

-----------------------------------------------------------------------------
(* Rules, policy and keys: the pure part.                                  *)

cidrMatchesIP(cidr, ip) == cidr = {} \/ ip \in cidr

Matches(r, dir, h) ==
  /\ r.dir = dir
  /\ r.proto = 0 \/ r.proto = h.proto
  /\ cidrMatchesIP(r.src, h.src)
  /\ cidrMatchesIP(r.dst, h.dst)
  /\ r.sport = 0 \/ r.sport = h.sport
  /\ r.dport = 0 \/ r.dport = h.dport

\* The index a loop that returns on the first hit returns with, if any.
First(hits) == {i \in hits : \A j \in hits : i =< j}

StaticMatches(dir, h) == {i \in DOMAIN Rules : Matches(Rules[i], dir, h)}

\* A flow key is a header; the return traffic has the reverse key.
Reverse(h) == [proto |-> h.proto, src |-> h.dst, dst |-> h.src,
               sport |-> h.dport, dport |-> h.sport]

flowTTL(proto) == IF proto = TCP THEN TcpFlowTTL ELSE DefaultFlowTTL

HostMatches(name) == {i \in DOMAIN Policy : name \in Policy[i].names}
IsAllowed(name) == HostMatches(name) # {}

\* Mutant: the maximum is forgotten.
ClampTTLNoMax(ttl) == IF ttl < MinTTL THEN MinTTL ELSE ttl

\* The TTL of a DNS answer after the interceptor's clamps.
ClampTTL(ttl) ==
  LET atLeast == IF ttl < MinTTL THEN MinTTL ELSE ttl
  IN  IF MaxTTL > 0 /\ atLeast > MaxTTL THEN MaxTTL ELSE atLeast

\* HandleIngress acts on a parseable answer, from the gateway, for an
\* allowed name; an answer without A records adds nothing.
Snooped(f) ==
  /\ f.dns # NoDNS
  /\ f.hdr.src = Gateway
  /\ f.dns.qname # Unparseable
  /\ IsAllowed(f.dns.qname)

\* The rules an answer with addresses ips adds for the host entry it matched:
\* one per address, protocol and port.
RuleProtos(host) == IF host.proto = 0 THEN {TCP, UDP} ELSE {host.proto}
RulePorts(host) == IF host.ports = {} THEN {0} ELSE host.ports
HostRules(host, ips) ==
  {[dir |-> Egress, action |-> "allow", proto |-> p, src |-> {},
    dst |-> {ip}, sport |-> 0, dport |-> port] :
     ip \in ips, p \in RuleProtos(host), port \in RulePorts(host)}

\* The rules HandleIngress adds (HostPorts looks the entry up).
RulesFor(f) ==
  IF ~Snooped(f) THEN {}
  ELSE UNION {HostRules(Policy[i], f.dns.ips) : i \in First(HostMatches(f.dns.qname))}

-----------------------------------------------------------------------------
(* Forwarder state.  pc is where the forwarder is in the frame it handles: *)
(*   read       waiting for a frame                                        *)
(*   learn/add  HandleIngress: about to read the clock / to lock and Add   *)
(*   conntrack  about to look up the reverse flow                          *)
(*   compare    flow found; about to compare its age with the TTL          *)
(*   rules      walking the static rules                                   *)
(*   match      clock read; about to look into the dynamic rules           *)
(*   track      verdict Allow by conntrack or a rule; about to Track       *)
(*   write      about to write the frame                                   *)
(*   respond    about to write an NXDOMAIN answer to the VM                *)
(*   drop       frame dropped                                              *)
(* t is the clock value or the flow timestamp the forwarder last read.     *)
(* since, live and lost are history: when the frame was received, whether  *)
(* its conversation was established then, and the rules Add turned away.   *)

PCs == {"read", "learn", "add", "conntrack", "compare", "rules", "match",
        "track", "write", "respond", "drop"}

Idle == [pc |-> "read", frame |-> NoFrame, t |-> 0, adds |-> {},
         since |-> 0, live |-> FALSE, lost |-> {}]

hdr(d) == fwd[d].frame.hdr

GotoAt(d, pc, t) == fwd' = [fwd EXCEPT ![d] = [@ EXCEPT !.pc = pc, !.t = t]]
Goto(d, pc) == GotoAt(d, pc, 0)

Established(h) ==
  Reverse(h) \in DOMAIN flows /\ now =< flows[Reverse(h)] + flowTTL(h.proto)

Init ==
  /\ config \in Configs
  /\ now = 0
  /\ flows = [k \in {} |-> 0]
  /\ entries = {}
  /\ fwd = [d \in Directions |-> Idle]
  /\ sweeper = [pc |-> "wait", t |-> 0]
  /\ opened = {}
  /\ resolved = {}

\* Mutant: the policy is not asked.
HandleEgressUnasked(f) ==
  IF f.dns = NoDNS \/ f.dns.qname = Unparseable THEN "drop" ELSE "conntrack"

\* DNSInterceptor.HandleEgress: what becomes of an outbound DNS query.  The
\* frame is also dropped when the NXDOMAIN answer cannot be built, which does not
\* happen to a query that was parsed: BuildResponseFrame repeats the checks of
\* ExtractUDPPayload, and BuildNXDOMAIN packs a name that was just unpacked.
HandleEgress(f) ==
  IF f.dns = NoDNS \/ f.dns.qname = Unparseable THEN "drop"
  ELSE IF IsAllowed(f.dns.qname) THEN "conntrack"
  ELSE "respond"

\* Where forward sends a frame it has just read.
Classify(d, f) ==
  IF f.kind # "ipv4"
  THEN IF (Hook \/ DefaultAction = "deny") /\ f.kind \notin {"arp", "runt"}
       THEN "drop" ELSE "write"
  ELSE IF Hook /\ f.hdr.proto = UDP /\ d = Egress /\ f.hdr.dport = 53
  THEN HandleEgress(f)
  ELSE IF Hook /\ f.hdr.proto = UDP /\ d = Ingress /\ f.hdr.sport = 53
            /\ RulesFor(f) # {}
  THEN "learn"
  ELSE "conntrack"

Receive(d) ==
  /\ fwd[d].pc = "read"
  /\ \E f \in Frames[d] :
       LET pc == Classify(d, f)
       IN  /\ fwd' = [fwd EXCEPT ![d] =
                        [pc |-> pc, frame |-> f, t |-> 0,
                         adds |-> IF pc = "learn" THEN RulesFor(f) ELSE {},
                         since |-> now,
                         live |-> f.kind = "ipv4" /\ Established(f.hdr),
                         lost |-> {}]]
           /\ resolved' = IF pc = "learn" THEN resolved \cup f.dns.ips ELSE resolved
  /\ UNCHANGED <<now, flows, entries, sweeper, opened>>

\* DynamicRules.Add, outside the lock: expiresAt := dr.now().Add(ttl).
ReadAddClock(d) ==
  /\ fwd[d].pc = "learn"
  /\ GotoAt(d, "add", now + ClampTTL(fwd[d].frame.dns.ttl))
  /\ UNCHANGED <<now, flows, entries, sweeper, opened, resolved>>

\* Two rules are the same to Add when these five fields agree.
SameRule(r, s) == /\ r.dir = s.dir
                  /\ r.proto = s.proto
                  /\ r.dst = s.dst
                  /\ r.dport = s.dport
                  /\ r.action = s.action

\* Mutants: an existing entry is not extended; its expiry is overwritten;
\* existing entries are not looked for.
AddedNotExtended(r, expiresAt) ==
  IF \E e \in entries : SameRule(e.rule, r) THEN entries
  ELSE IF Cardinality(entries) >= MaxRules THEN entries
  ELSE entries \cup {[rule |-> r, expiresAt |-> expiresAt]}
AddedOverwriting(r, expiresAt) ==
  LET others == {e \in entries : ~SameRule(e.rule, r)}
  IN  IF Cardinality(others) >= MaxRules THEN entries
      ELSE others \cup {[rule |-> r, expiresAt |-> expiresAt]}
AddedTwice(r, expiresAt) ==
  IF Cardinality(entries) >= MaxRules THEN entries
  ELSE entries \cup {[rule |-> r, expiresAt |-> expiresAt]}

\* DynamicRules.Add under the lock: the entries that result.
Extended(e, expiresAt) == [e EXCEPT !.expiresAt = IF expiresAt > @ THEN expiresAt ELSE @]
Known(r) == {e \in entries : SameRule(e.rule, r)}
AtCapacity == Cardinality(entries) >= MaxRules
Added(r, expiresAt) ==
  IF Known(r) # {}
  THEN LET e == CHOOSE e \in Known(r) : TRUE
       IN  (entries \ {e}) \cup {Extended(e, expiresAt)}
  ELSE IF AtCapacity THEN entries
  ELSE entries \cup {[rule |-> r, expiresAt |-> expiresAt]}

\* The forwarder after Add(r): on to the next rule, or to the filter.
AfterAdd(d, r) ==
  LET rest == fwd[d].adds \ {r}
      refused == IF Known(r) = {} /\ AtCapacity THEN {r} ELSE {}
  IN  [fwd[d] EXCEPT !.pc = IF rest = {} THEN "conntrack" ELSE "learn",
                     !.t = 0, !.adds = rest, !.lost = @ \cup refused]

Add(d) ==
  /\ fwd[d].pc = "add"
  /\ \E r \in fwd[d].adds : /\ entries' = Added(r, fwd[d].t)
                            /\ fwd' = [fwd EXCEPT ![d] = AfterAdd(d, r)]
  /\ UNCHANGED <<now, flows, sweeper, opened, resolved>>

\* ConnTracker.IsEstablished: the lookup under the read lock ...
LookupFlow(d) ==
  /\ fwd[d].pc = "conntrack"
  /\ IF Reverse(hdr(d)) \in DOMAIN flows
     THEN GotoAt(d, "compare", flows[Reverse(hdr(d))])
     ELSE Goto(d, "rules")
  /\ UNCHANGED <<now, flows, entries, sweeper, opened, resolved>>

\* Mutant: off by one at the boundary of the TTL.
CompareAgeStrict(d) ==
  /\ fwd[d].pc = "compare"
  /\ Goto(d, IF now < fwd[d].t + flowTTL(hdr(d).proto) THEN "track" ELSE "rules")
  /\ UNCHANGED <<now, flows, entries, sweeper, opened, resolved>>

\* ... and the comparison with the clock after the unlock.
CompareAge(d) ==
  /\ fwd[d].pc = "compare"
  /\ Goto(d, IF now =< fwd[d].t + flowTTL(hdr(d).proto) THEN "track" ELSE "rules")
  /\ UNCHANGED <<now, flows, entries, sweeper, opened, resolved>>

\* A rule (static or dynamic) decides: Allow is tracked before it is returned.
ByRule(d, action) ==
  IF action = "allow"
  THEN Goto(d, "track") /\ opened' = opened \cup {hdr(d)}
  ELSE Goto(d, "drop") /\ UNCHANGED opened

\* Mutants: the default action is taken for Allow; a default Allow is tracked.
ByDefaultAllow(d) == Goto(d, "write") /\ UNCHANGED opened
ByDefaultTracked(d) ==
  /\ Goto(d, IF DefaultAction = "allow" THEN "track" ELSE "drop")
  /\ UNCHANGED opened

\* The default action is returned without tracking the flow.
ByDefault(d) ==
  /\ Goto(d, IF DefaultAction = "allow" THEN "write" ELSE "drop")
  /\ UNCHANGED opened

\* Filter.Verdict: the static rules; then the clock is read for Match.
WalkRules(d) ==
  /\ fwd[d].pc = "rules"
  /\ IF StaticMatches(d, hdr(d)) # {}
     THEN \E i \in First(StaticMatches(d, hdr(d))) : ByRule(d, Rules[i].action)
     ELSE IF Hook THEN GotoAt(d, "match", now) /\ UNCHANGED opened
     ELSE ByDefault(d)
  /\ UNCHANGED <<now, flows, entries, sweeper, resolved>>

\* DynamicRules.Match under the read lock, with the clock read before it.
LiveMatches(d) ==
  {e \in entries : fwd[d].t =< e.expiresAt /\ Matches(e.rule, d, hdr(d))}

MatchDynamic(d) ==
  /\ fwd[d].pc = "match"
  /\ IF LiveMatches(d) # {}
     THEN \E e \in LiveMatches(d) : ByRule(d, e.rule.action)
     ELSE ByDefault(d)
  /\ UNCHANGED <<now, flows, entries, sweeper, resolved>>

\* ConnTracker.Track.
Track(d) ==
  /\ fwd[d].pc = "track"
  /\ flows' = [k \in DOMAIN flows \cup {hdr(d)} |-> IF k = hdr(d) THEN now ELSE flows[k]]
  /\ Goto(d, "write")
  /\ UNCHANGED <<now, entries, sweeper, opened, resolved>>

\* Mutant: the frame's buffer is released while the frame is still in use.
FinishEarly(d) ==
  /\ fwd[d].pc \in {"write", "respond", "drop"}
  /\ fwd' = [fwd EXCEPT ![d].frame = NoFrame]
  /\ UNCHANGED <<now, flows, entries, sweeper, opened, resolved>>

\* The frame (or the NXDOMAIN answer) is written, or counted as dropped.
Finish(d) ==
  /\ fwd[d].pc \in {"write", "respond", "drop"}
  /\ fwd' = [fwd EXCEPT ![d] = Idle]
  /\ UNCHANGED <<now, flows, entries, sweeper, opened, resolved>>

-----------------------------------------------------------------------------
(* The expiry goroutine: ConnTracker.sweep, then DynamicRules.Sweep; each  *)
(* reads the clock before it takes its lock.                               *)

ReadSweepClock ==
  /\ sweeper.pc \in {"wait", "swept"}
  /\ sweeper' = [pc |-> IF sweeper.pc = "wait" THEN "flows" ELSE "rules", t |-> now]
  /\ UNCHANGED <<now, flows, entries, fwd, opened, resolved>>

\* t can be older than a timestamp written meanwhile: then t - ts < 0 =< ttl.
ExpiredFlow(k, t) == t > flows[k] + flowTTL(k.proto)

sweep ==
  /\ sweeper.pc = "flows"
  /\ flows' = [k \in {l \in DOMAIN flows : ~ExpiredFlow(l, sweeper.t)} |-> flows[k]]
  /\ sweeper' = [pc |-> IF Hook THEN "swept" ELSE "wait", t |-> 0]
  /\ UNCHANGED <<now, entries, fwd, opened, resolved>>

\* Mutant: entries are kept a tick too long.
SweepLate ==
  /\ sweeper.pc = "rules"
  /\ entries' = {e \in entries : ~(sweeper.t > e.expiresAt + 1)}
  /\ sweeper' = [pc |-> "wait", t |-> 0]
  /\ UNCHANGED <<now, flows, fwd, opened, resolved>>

Sweep ==
  /\ sweeper.pc = "rules"
  /\ entries' = {e \in entries : ~(sweeper.t > e.expiresAt)}
  /\ sweeper' = [pc |-> "wait", t |-> 0]
  /\ UNCHANGED <<now, flows, fwd, opened, resolved>>

Tick ==
  /\ now < MaxClock
  /\ now' = now + 1
  /\ UNCHANGED <<flows, entries, fwd, sweeper, opened, resolved>>

Forward(d) == \/ Receive(d) \/ ReadAddClock(d) \/ Add(d) \/ LookupFlow(d)
              \/ CompareAge(d) \/ WalkRules(d) \/ MatchDynamic(d) \/ Track(d)
              \/ Finish(d)

Expiry == ReadSweepClock \/ sweep \/ Sweep

Next == /\ (\E d \in Directions : Forward(d)) \/ Expiry \/ Tick
        /\ UNCHANGED config

Spec == Init /\ [][Next]_vars

\* The expiry goroutine's ticker keeps firing; nothing is assumed of the
\* forwarders (a peer may be silent for ever) nor of time itself.
FairSpec == Spec /\ WF_vars(Expiry /\ UNCHANGED config)

-----------------------------------------------------------------------------
(* Properties.                                                             *)

EntrySet == [rule : RuleSet, expiresAt : Nat]
ForwarderSet == [pc : PCs, frame : FrameSet \cup {NoFrame}, t : Nat,
                 adds : SUBSET RuleSet, since : Nat, live : BOOLEAN,
                 lost : SUBSET RuleSet]

\* The type invariant: flow keys are headers with a timestamp, entries are
\* rules with an expiry, and a forwarder that is not reading has a frame.
TypeOK ==
  /\ config \in Configs
  /\ now \in Nat
  /\ DOMAIN flows \subseteq Headers /\ flows \in [DOMAIN flows -> Nat]
  /\ entries \subseteq EntrySet /\ IsFiniteSet(entries)
  /\ fwd \in [Directions -> ForwarderSet]
  /\ \A d \in Directions : fwd[d].pc # "read" => fwd[d].frame \in FrameSet
  /\ sweeper \in [pc : {"wait", "flows", "swept", "rules"}, t : Nat]
  /\ opened \subseteq Headers
  /\ resolved \subseteq IPs

\* Connection tracking grants nothing by itself (filter.go Verdict, conntrack.go
\* Track): every flow in the table, and every frame about to enter it, belongs
\* to a conversation one direction of which a rule has allowed.
TrackedFlowsWereOpened ==
  /\ \A k \in DOMAIN flows : {k, Reverse(k)} \cap opened # {}
  /\ \A d \in Directions :
       fwd[d].pc = "track" => {hdr(d), Reverse(hdr(d))} \cap opened # {}

StaticallyAllowed(h) ==
  \E d \in Directions : \E i \in First(StaticMatches(d, h)) : Rules[i].action = "allow"

\* Under a deny default an IPv4 frame leaves the VM only when its destination
\* was resolved from an allowed name, or a static rule allows its conversation
\* (docs/NETWORKING.md step 6 of the egress policy; relay.go forward, filter.go
\* Verdict, interceptor.go HandleIngress).  Connection tracking ignores the
\* direction, so a frame sent from a resolved address counts as return traffic.
OnlyResolvedReachable ==
  DefaultAction = "deny" /\ fwd[Egress].pc = "write" /\ fwd[Egress].frame.kind = "ipv4" =>
    LET h == hdr(Egress)
    IN  \/ {h.dst, h.src} \cap resolved # {}
        \/ StaticallyAllowed(h)
        \/ StaticallyAllowed(Reverse(h))

\* A query for a name the policy does not allow never reaches the network,
\* established DNS conversation or not (interceptor.go HandleEgress).
BlockedNamesStayInside ==
  Hook /\ fwd[Egress].pc = "write" /\ fwd[Egress].frame.kind = "ipv4"
       /\ hdr(Egress).proto = UDP /\ hdr(Egress).dport = 53 =>
    fwd[Egress].frame.dns # NoDNS /\ IsAllowed(fwd[Egress].frame.dns.qname)

\* The guest never sees the answer before the firewall has learned from it:
\* when a snooped answer is about to be written, every rule it calls for is
\* live (unless the answer has outlived its TTL) or was refused at capacity
\* (relay.go calls HandleIngress before filtering; DynamicRules.Add, Sweep).
LearnedBeforeDelivered ==
  LET f == fwd[Ingress].frame
  IN  Hook /\ fwd[Ingress].pc = "write" /\ Classify(Ingress, f) = "learn"
        /\ now =< fwd[Ingress].since + ClampTTL(f.dns.ttl) =>
        \A r \in RulesFor(f) \ fwd[Ingress].lost :
          \E e \in entries : SameRule(e.rule, r) /\ now =< e.expiresAt

\* A frame of a conversation that was established when it was received is not
\* dropped by the filter while no time passes, whatever the other forwarder
\* and the expiry goroutine do (the boundaries of IsEstablished and sweep).
EstablishedNotDropped ==
  \A d \in Directions :
    fwd[d].pc = "drop" /\ fwd[d].live /\ fwd[d].since = now =>
      Classify(d, fwd[d].frame) = "drop"

\* DynamicRules holds one entry per rule and at most maxRules entries
\* (dynamic.go Add: deduplication and capacity).
NoDuplicateRules ==
  /\ Cardinality(entries) =< MaxRules
  /\ \A e, f \in entries : SameRule(e.rule, f.rule) => e = f

\* A resolved address stays allowed for at most the maximum TTL after the last
\* answer that named it (interceptor.go defaultMaxTTL and the clamps).
RuleLifetimeBounded ==
  MaxTTL > 0 => \A e \in entries : e.expiresAt =< now + MaxTTL

\* No step takes away a rule or a flow that is still valid, and a valid rule's
\* expiry never moves back (dynamic.go Add and Sweep, conntrack.go sweep).
NothingLiveRemoved ==
  [][ /\ \A e \in entries : now =< e.expiresAt =>
           \E f \in entries' : SameRule(e.rule, f.rule) /\ f.expiresAt >= e.expiresAt
      /\ \A k \in DOMAIN flows : now =< flows[k] + flowTTL(k.proto) => k \in DOMAIN flows'
    ]_vars

\* Expired state is reclaimed: an expired rule or flow is swept or renewed
\* (filter.go StartExpiry).
ExpiredReclaimed ==
  /\ (\E e \in entries : now > e.expiresAt)
       ~> (\A e \in entries : now =< e.expiresAt)
  /\ (\E k \in DOMAIN flows : ExpiredFlow(k, now))
       ~> (\A k \in DOMAIN flows : ~ExpiredFlow(k, now))
=============================================================================
