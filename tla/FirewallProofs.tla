--------------------------- MODULE FirewallProofs ---------------------------
(***************************************************************************)
(* Proofs about Firewall, for every configuration, all addresses, names,   *)
(* frames and TTLs: the operators, type correctness, the path of a frame,  *)
(* who may talk to whom and the life of dynamic rules.                     *)
(***************************************************************************)
EXTENDS Firewall, FiniteSetTheorems, TLAPS

-----------------------------------------------------------------------------
(* The pure operators.                                                     *)

LEMMA ReverseType == \A h \in Headers : Reverse(h) \in Headers /\ Reverse(Reverse(h)) = h
BY DEF Headers, Reverse

LEMMA flowTTLType == \A p : flowTTL(p) \in Nat
BY FirewallAssumption, Zenon DEF flowTTL

LEMMA ClampTTLType ==
  ASSUME NEW ttl \in Nat
  PROVE  ClampTTL(ttl) \in Nat /\ (MaxTTL > 0 => ClampTTL(ttl) =< MaxTTL)
BY FirewallAssumption DEF ClampTTL

LEMMA ConfigType ==
  ASSUME config \in Configs
  PROVE  /\ Rules \in Seq(RuleSet)
         /\ DefaultAction \in Actions
         /\ Hook \in BOOLEAN
         /\ Policy \in Seq(HostEntries)
         /\ Frames \in [Directions -> SUBSET FrameSet]
BY FirewallAssumption, Zenon DEF ConfigSet, Rules, DefaultAction, Hook, Policy, Frames

LEMMA ConfigFixed ==
  ASSUME config' = config
  PROVE  /\ Hook' = Hook /\ DefaultAction' = DefaultAction /\ Rules' = Rules
         /\ \A d, h : StaticMatches(d, h)' = StaticMatches(d, h)
         /\ \A f : RulesFor(f)' = RulesFor(f)
         /\ \A d, f : Classify(d, f)' = Classify(d, f)
BY DEF Hook, DefaultAction, Rules, Policy, StaticMatches, RulesFor, Snooped, IsAllowed,
       HostMatches, Classify, HandleEgress

LEMMA HostRulesType ==
  ASSUME NEW host \in HostEntries, NEW ips \in SUBSET IPs, NEW r \in HostRules(host, ips)
  PROVE  /\ r \in RuleSet
         /\ r.dir = Egress /\ r.action = "allow"
         /\ \E ip \in ips : r.dst = {ip}
<1>1. 0 \in Ports /\ TCP \in Protos /\ UDP \in Protos
  BY DEF Ports, Protos, TCP, UDP
<1>2. host.proto \in Protos /\ host.ports \in SUBSET Ports
  BY Zenon DEF HostEntries
<1>3. PICK ip \in ips, p \in RuleProtos(host), port \in RulePorts(host) :
        r = [dir |-> Egress, action |-> "allow", proto |-> p, src |-> {},
             dst |-> {ip}, sport |-> 0, dport |-> port]
  BY DEF HostRules
<1>4. p \in Protos /\ port \in Ports /\ ip \in IPs
  BY <1>1, <1>2, Zenon DEF RuleProtos, RulePorts
<1>5. QED
  BY <1>1, <1>3, <1>4 DEF RuleSet, Directions, Actions, Ingress, Egress

LEMMA SnoopedType ==
  ASSUME NEW f \in FrameSet, Snooped(f)
  PROVE  f.dns \in Messages /\ f.dns.ips \in SUBSET IPs /\ f.dns.ttl \in Nat
BY Zenon DEF Snooped, FrameSet, Messages

LEMMA RulesForType ==
  ASSUME config \in Configs, NEW f \in FrameSet, NEW r \in RulesFor(f)
  PROVE  /\ Snooped(f)
         /\ r \in RuleSet
         /\ r.dir = Egress /\ r.action = "allow"
         /\ \E ip \in f.dns.ips : r.dst = {ip}
<1>1. Snooped(f)
  BY Zenon DEF RulesFor
<1>2. PICK i \in First(HostMatches(f.dns.qname)) : r \in HostRules(Policy[i], f.dns.ips)
  BY <1>1, Zenon DEF RulesFor
<1>3. Policy[i] \in HostEntries
  BY ConfigType DEF First, HostMatches
<1>4. QED
  BY <1>1, <1>2, <1>3, SnoopedType, HostRulesType

LEMMA ClassifyType ==
  ASSUME NEW d \in Directions, NEW f \in FrameSet
  PROVE  /\ Classify(d, f) \in {"learn", "conntrack", "write", "respond", "drop"}
         /\ Classify(d, f) \in {"conntrack", "learn"} => f.kind = "ipv4"
         /\ Classify(d, f) = "write" => f.kind # "ipv4"
         /\ Classify(d, f) = "learn" => Hook /\ d = Ingress /\ RulesFor(f) # {}
BY Zenon DEF Classify, HandleEgress, Directions, Ingress, Egress

-----------------------------------------------------------------------------
(* Type correctness, which rests on where a frame can be after forward has *)
(* classified it: only a snooped answer is learned from, only IPv4 frames  *)
(* reach the filter.                                                       *)

PathInv ==
  \A d \in Directions, f \in FrameSet : fwd[d].frame = f =>
    /\ fwd[d].pc \in {"learn", "add"} => Classify(d, f) = "learn"
    /\ fwd[d].pc \in {"conntrack", "compare", "rules", "match", "track"} =>
         Classify(d, f) \in {"conntrack", "learn"}
    /\ fwd[d].pc = "write" => Classify(d, f) \in {"conntrack", "learn", "write"}

LEMMA LearnType ==
  ASSUME TypeOK, PathInv, NEW d \in Directions, fwd[d].pc \in {"learn", "add"}
  PROVE  LET f == fwd[d].frame
         IN  Snooped(f) /\ f.dns.ttl \in Nat /\ ClampTTL(f.dns.ttl) \in Nat
<1>1. fwd[d].frame \in FrameSet /\ Classify(d, fwd[d].frame) = "learn"
  BY Zenon DEF TypeOK, PathInv
<1>2. QED
  BY <1>1, ClassifyType, RulesForType, SnoopedType, ClampTTLType, Zenon DEF TypeOK

LEMMA InitType == Init => TypeOK
<1> SUFFICES ASSUME Init PROVE TypeOK
  BY Zenon
<1>1. Idle \in ForwarderSet
  BY Zenon DEF Idle, ForwarderSet, PCs
<1>2. IsFiniteSet(entries)
  BY FS_EmptySet, Zenon DEF Init
<1>3. QED
  BY <1>1, <1>2, Zenon DEF Init, TypeOK, Idle

\* A forwarder that moves on keeps its frame and its history.
LEMMA GotoType ==
  ASSUME TypeOK, NEW d \in Directions, NEW pc \in PCs \ {"read"}, NEW t \in Nat,
         fwd[d].pc # "read", GotoAt(d, pc, t)
  PROVE  /\ fwd' \in [Directions -> ForwarderSet]
         /\ \A c \in Directions : fwd'[c].pc # "read" => fwd'[c].frame \in FrameSet
         /\ fwd'[d] = [fwd[d] EXCEPT !.pc = pc, !.t = t]
         /\ \A c \in Directions \ {d} : fwd'[c] = fwd[c]
BY ZenonT(30) DEF TypeOK, GotoAt, ForwarderSet

LEMMA HeaderType ==
  ASSUME TypeOK, NEW d \in Directions, fwd[d].pc # "read"
  PROVE  hdr(d) \in Headers /\ Reverse(hdr(d)) \in Headers
BY ReverseType, Zenon DEF TypeOK, hdr, FrameSet

LEMMA AddedType ==
  ASSUME TypeOK, NEW r \in RuleSet, NEW x \in Nat
  PROVE  Added(r, x) \subseteq EntrySet /\ IsFiniteSet(Added(r, x))
<1>1. CASE Known(r) # {}
  <2>1. PICK e \in Known(r) : Added(r, x) = (entries \ {e}) \cup {Extended(e, x)}
    BY <1>1, Zenon DEF Added
  <2>2. Extended(e, x) \in EntrySet
    BY Zenon DEF Known, Extended, EntrySet, TypeOK
  <2>3. entries \subseteq EntrySet /\ IsFiniteSet(entries)
    BY Zenon DEF TypeOK
  <2>4. IsFiniteSet(entries \ {e})
    BY <2>3, FS_RemoveElement, Zenon
  <2>5. IsFiniteSet((entries \ {e}) \cup {Extended(e, x)})
    BY <2>4, FS_AddElement, Zenon
  <2>6. QED
    BY <2>1, <2>2, <2>3, <2>5, Zenon
<1>2. CASE Known(r) = {}
  <2>1. entries \subseteq EntrySet /\ IsFiniteSet(entries)
    BY Zenon DEF TypeOK
  <2>2. IsFiniteSet(entries \cup {[rule |-> r, expiresAt |-> x]})
    BY <2>1, FS_AddElement, Zenon
  <2>3. [rule |-> r, expiresAt |-> x] \in EntrySet
    BY Zenon DEF EntrySet
  <2>4. QED
    BY <1>2, <2>1, <2>2, <2>3, Zenon DEF Added
<1>3. QED
  BY <1>1, <1>2, Zenon

LEMMA AfterAddType ==
  ASSUME TypeOK, NEW d \in Directions, fwd[d].pc = "add", NEW r \in fwd[d].adds
  PROVE  /\ AfterAdd(d, r) \in ForwarderSet
         /\ \/ AfterAdd(d, r).pc = "learn"
            \/ AfterAdd(d, r).pc = "conntrack" /\ AfterAdd(d, r).adds = {}
         /\ AfterAdd(d, r).frame = fwd[d].frame
         /\ AfterAdd(d, r).frame \in FrameSet
         /\ AfterAdd(d, r).since = fwd[d].since
         /\ AfterAdd(d, r).live = fwd[d].live
         /\ AfterAdd(d, r).adds = fwd[d].adds \ {r}
         /\ fwd[d].lost \subseteq AfterAdd(d, r).lost
         /\ Known(r) = {} /\ AtCapacity => r \in AfterAdd(d, r).lost
<1> DEFINE rest == fwd[d].adds \ {r}
           pc == IF rest = {} THEN "conntrack" ELSE "learn"
           lost == fwd[d].lost \cup (IF Known(r) = {} /\ AtCapacity THEN {r} ELSE {})
<1>1. /\ fwd[d] \in ForwarderSet
      /\ fwd[d].frame \in FrameSet
      /\ rest \in SUBSET RuleSet
      /\ lost \in SUBSET RuleSet
      /\ pc \in PCs /\ pc \in {"conntrack", "learn"}
  BY Zenon DEF TypeOK, ForwarderSet, PCs
<1>2. AfterAdd(d, r) = [fwd[d] EXCEPT !.pc = pc, !.t = 0, !.adds = rest, !.lost = lost]
  BY Zenon DEF AfterAdd
<1>3. r \in lost <=> r \in fwd[d].lost \/ (Known(r) = {} /\ AtCapacity)
  BY Zenon
<1>4. pc = "learn" \/ (pc = "conntrack" /\ rest = {})
  <2>1. CASE rest = {}
    BY <2>1, Zenon
  <2>2. CASE rest # {}
    BY <2>2, Zenon
  <2>3. QED
    BY <2>1, <2>2, Zenon
<1> HIDE DEF rest, pc, lost
<1>5. AfterAdd(d, r) = [pc |-> pc, frame |-> fwd[d].frame, t |-> 0, adds |-> rest,
                        since |-> fwd[d].since, live |-> fwd[d].live, lost |-> lost]
  BY <1>1, <1>2, Zenon DEF ForwarderSet
<1>6. fwd[d].since \in Nat /\ fwd[d].live \in BOOLEAN
  BY <1>1, Zenon DEF ForwarderSet
<1>7. AfterAdd(d, r) \in ForwarderSet
  BY <1>1, <1>5, <1>6 DEF ForwarderSet
<1>8. QED
  BY <1>1, <1>3, <1>5, <1>7, <1>4 DEF rest, lost

\* Steps of a forwarder that only move it on.
LEMMA MoveType ==
  ASSUME TypeOK, NEW d \in Directions, NEW pc \in PCs \ {"read"}, NEW t \in Nat,
         fwd[d].pc # "read", GotoAt(d, pc, t), opened' \subseteq Headers,
         UNCHANGED <<config, now, flows, entries, sweeper, resolved>>
  PROVE  TypeOK'
BY GotoType, Zenon DEF TypeOK

LEMMA StepType == TypeOK /\ PathInv /\ [Next]_vars => TypeOK'
<1> SUFFICES ASSUME TypeOK, PathInv, [Next]_vars PROVE TypeOK'
  BY Zenon
<1>1. ASSUME NEW d \in Directions, Receive(d), UNCHANGED config PROVE TypeOK'
  <2>1. PICK f \in Frames[d] :
          /\ fwd' = [fwd EXCEPT ![d] =
                       [pc |-> Classify(d, f), frame |-> f, t |-> 0,
                        adds |-> IF Classify(d, f) = "learn" THEN RulesFor(f) ELSE {},
                        since |-> now,
                        live |-> f.kind = "ipv4" /\ Established(f.hdr),
                        lost |-> {}]]
          /\ resolved' = IF Classify(d, f) = "learn" THEN resolved \cup f.dns.ips
                         ELSE resolved
    BY <1>1, Zenon DEF Receive
  <2>2. f \in FrameSet
    BY ConfigType, Zenon DEF TypeOK
  <2>3. RulesFor(f) \subseteq RuleSet
    BY <2>2, RulesForType, Zenon DEF TypeOK
  <2>4. resolved' \subseteq IPs
    BY <2>1, <2>2, ClassifyType, RulesForType, SnoopedType, Zenon DEF TypeOK
  <2>5. fwd'[d] \in ForwarderSet
    BY <2>1, <2>2, <2>3, ClassifyType, Zenon DEF TypeOK, ForwarderSet, Established, PCs
  <2>6. QED
    BY <1>1, <2>1, <2>2, <2>4, <2>5, Zenon DEF Receive, TypeOK
<1>2. ASSUME NEW d \in Directions, ReadAddClock(d), UNCHANGED config PROVE TypeOK'
  <2>1. now + ClampTTL(fwd[d].frame.dns.ttl) \in Nat
    BY <1>2, LearnType DEF ReadAddClock, TypeOK
  <2>2. QED
    BY <1>2, <2>1, MoveType, Zenon DEF ReadAddClock, PCs, TypeOK
<1>3. ASSUME NEW d \in Directions, Add(d), UNCHANGED config PROVE TypeOK'
  <2>1. PICK r \in fwd[d].adds : /\ entries' = Added(r, fwd[d].t)
                                  /\ fwd' = [fwd EXCEPT ![d] = AfterAdd(d, r)]
    BY <1>3, Zenon DEF Add
  <2>2. r \in RuleSet /\ fwd[d].t \in Nat
    BY Zenon DEF TypeOK, ForwarderSet
  <2>3. entries' \subseteq EntrySet /\ IsFiniteSet(entries')
    BY <2>1, <2>2, AddedType, Zenon
  <2>4. AfterAdd(d, r) \in ForwarderSet /\ AfterAdd(d, r).frame \in FrameSet
    BY <1>3, AfterAddType, Zenon DEF Add
  <2>5. QED
    BY <1>3, <2>1, <2>3, <2>4, Zenon DEF Add, TypeOK
<1>4. ASSUME NEW d \in Directions, LookupFlow(d), UNCHANGED config PROVE TypeOK'
  <2>1. Reverse(hdr(d)) \in DOMAIN flows => flows[Reverse(hdr(d))] \in Nat
    BY Zenon DEF TypeOK
  <2>2. QED
    BY <1>4, <2>1, MoveType, Zenon DEF LookupFlow, Goto, PCs, TypeOK
<1>5. ASSUME NEW d \in Directions, CompareAge(d), UNCHANGED config PROVE TypeOK'
  BY <1>5, MoveType, Zenon DEF CompareAge, Goto, PCs, TypeOK
<1>6. ASSUME NEW d \in Directions, WalkRules(d), UNCHANGED config PROVE TypeOK'
  <2>1. fwd[d].pc # "read" /\ hdr(d) \in Headers
    BY <1>6, HeaderType, Zenon DEF WalkRules
  <2>2. CASE \E a : ByRule(d, a)
    BY <1>6, <2>1, <2>2, MoveType, Zenon DEF WalkRules, ByRule, Goto, PCs, TypeOK
  <2>3. CASE GotoAt(d, "match", now) /\ UNCHANGED opened
    BY <1>6, <2>1, <2>3, MoveType, Zenon DEF WalkRules, PCs, TypeOK
  <2>4. CASE ByDefault(d)
    BY <1>6, <2>1, <2>4, MoveType, Zenon DEF WalkRules, ByDefault, Goto, PCs, TypeOK
  <2>5. QED
    BY <1>6, <2>2, <2>3, <2>4, Zenon DEF WalkRules
<1>7. ASSUME NEW d \in Directions, MatchDynamic(d), UNCHANGED config PROVE TypeOK'
  <2>1. fwd[d].pc # "read" /\ hdr(d) \in Headers
    BY <1>7, HeaderType, Zenon DEF MatchDynamic
  <2>2. CASE \E a : ByRule(d, a)
    BY <1>7, <2>1, <2>2, MoveType, Zenon DEF MatchDynamic, ByRule, Goto, PCs, TypeOK
  <2>3. CASE ByDefault(d)
    BY <1>7, <2>1, <2>3, MoveType, Zenon DEF MatchDynamic, ByDefault, Goto, PCs, TypeOK
  <2>4. QED
    BY <1>7, <2>2, <2>3, Zenon DEF MatchDynamic
<1>8. ASSUME NEW d \in Directions, Track(d), UNCHANGED config PROVE TypeOK'
  <2>1. hdr(d) \in Headers
    BY <1>8, HeaderType, Zenon DEF Track
  <2>2. DOMAIN flows' \subseteq Headers /\ flows' \in [DOMAIN flows' -> Nat]
    BY <1>8, <2>1, Zenon DEF Track, TypeOK
  <2>3. QED
    BY <1>8, <2>2, GotoType, Zenon DEF Track, Goto, PCs, TypeOK
<1>9. ASSUME NEW d \in Directions, Finish(d), UNCHANGED config PROVE TypeOK'
  BY <1>9, Zenon DEF Finish, Idle, TypeOK, ForwarderSet, PCs
<1>10. CASE Expiry /\ UNCHANGED config
  <2>1. CASE ReadSweepClock
    BY <1>10, <2>1, Zenon DEF ReadSweepClock, TypeOK
  <2>2. CASE sweep
    BY <1>10, <2>2, Zenon DEF sweep, TypeOK
  <2>3. CASE Sweep
    BY <1>10, <2>3, FS_Subset, Zenon DEF Sweep, TypeOK
  <2>4. QED
    BY <1>10, <2>1, <2>2, <2>3, Zenon DEF Expiry
<1>11. CASE Tick /\ UNCHANGED config
  BY <1>11 DEF Tick, TypeOK
<1>12. CASE UNCHANGED vars
  BY <1>12, Zenon DEF vars, TypeOK
<1>13. QED
  BY <1>1, <1>2, <1>3, <1>4, <1>5, <1>6, <1>7, <1>8, <1>9, <1>10, <1>11, <1>12, Zenon
     DEF Next, Forward

LEMMA InitPath == Init => PathInv
BY DEF Init, PathInv, Idle

LEMMA GotoFields ==
  ASSUME TypeOK, NEW d \in Directions, NEW pc \in PCs \ {"read"}, NEW t \in Nat,
         fwd[d].pc # "read", GotoAt(d, pc, t)
  PROVE  /\ fwd'[d].pc = pc /\ fwd'[d].t = t
         /\ fwd'[d].frame = fwd[d].frame /\ fwd'[d].adds = fwd[d].adds
         /\ fwd'[d].since = fwd[d].since /\ fwd'[d].lost = fwd[d].lost
         /\ fwd'[d].live = fwd[d].live
         /\ \A c \in Directions \ {d} : fwd'[c] = fwd[c]
<1>1. fwd[d] \in ForwarderSet
  BY Zenon DEF TypeOK
<1>2. /\ fwd'[d] = [fwd[d] EXCEPT !.pc = pc, !.t = t]
      /\ \A c \in Directions \ {d} : fwd'[c] = fwd[c]
  BY Zenon DEF TypeOK, GotoAt
<1>3. fwd'[d] = [pc |-> pc, frame |-> fwd[d].frame, t |-> t, adds |-> fwd[d].adds,
                 since |-> fwd[d].since, live |-> fwd[d].live, lost |-> fwd[d].lost]
  BY <1>1, <1>2, Zenon DEF ForwarderSet
<1>4. QED
  BY <1>2, <1>3, Zenon

\* A frame goes on along its path.
LEMMA MovePath ==
  ASSUME TypeOK, PathInv, NEW d \in Directions, NEW pc \in PCs \ {"read"}, NEW t \in Nat,
         fwd[d].pc # "read", GotoAt(d, pc, t), UNCHANGED config,
         \/ fwd[d].pc = "learn" /\ pc = "add"
         \/ /\ fwd[d].pc \in {"conntrack", "compare", "rules", "match", "track"}
            /\ pc \in {"compare", "rules", "match", "track", "write", "drop"}
  PROVE  PathInv'
<1> SUFFICES ASSUME NEW c \in Directions, NEW f \in FrameSet, fwd'[c].frame = f
             PROVE  /\ fwd'[c].pc \in {"learn", "add"} => Classify(c, f) = "learn"
                    /\ fwd'[c].pc \in {"conntrack", "compare", "rules", "match", "track"} =>
                         Classify(c, f) \in {"conntrack", "learn"}
                    /\ fwd'[c].pc = "write" =>
                         Classify(c, f) \in {"conntrack", "learn", "write"}
  BY ConfigFixed, SMTT(60) DEF PathInv
<1> QED
  BY GotoFields, SMTT(60) DEF PathInv

LEMMA StepPath == TypeOK /\ PathInv /\ [Next]_vars => PathInv'
<1> SUFFICES ASSUME TypeOK, PathInv, [Next]_vars PROVE PathInv'
  BY Zenon
<1>1. ASSUME NEW d \in Directions, Receive(d), UNCHANGED config PROVE PathInv'
  <2>1. PICK f \in Frames[d] : fwd'[d].pc = Classify(d, f) /\ fwd'[d].frame = f
    BY <1>1 DEF Receive, TypeOK
  <2>2. \A c \in Directions \ {d} : fwd'[c] = fwd[c]
    BY <1>1, Zenon DEF Receive, TypeOK
  <2>3. f \in FrameSet
    BY ConfigType, Zenon DEF TypeOK
  <2>4. QED
    <3> SUFFICES ASSUME NEW c \in Directions, NEW g \in FrameSet, fwd'[c].frame = g
                 PROVE  /\ fwd'[c].pc \in {"learn", "add"} => Classify(c, g) = "learn"
                        /\ fwd'[c].pc \in {"conntrack", "compare", "rules", "match",
                                           "track"} =>
                             Classify(c, g) \in {"conntrack", "learn"}
                        /\ fwd'[c].pc = "write" =>
                             Classify(c, g) \in {"conntrack", "learn", "write"}
      BY <1>1, ConfigFixed DEF PathInv
    <3>1. CASE c = d
      BY <2>1, <2>3, <3>1, ClassifyType, Zenon
    <3>2. CASE c # d
      BY <2>2, <3>2, Zenon DEF PathInv
    <3>3. QED
      BY <3>1, <3>2, Zenon
<1>2. ASSUME NEW d \in Directions, ReadAddClock(d), UNCHANGED config PROVE PathInv'
  <2>1. now + ClampTTL(fwd[d].frame.dns.ttl) \in Nat
    BY <1>2, LearnType DEF ReadAddClock, TypeOK
  <2>2. QED
    BY <1>2, <2>1, MovePath, Zenon DEF ReadAddClock, PCs
<1>3. ASSUME NEW d \in Directions, Add(d), UNCHANGED config PROVE PathInv'
  <2>1. PICK r \in fwd[d].adds : fwd' = [fwd EXCEPT ![d] = AfterAdd(d, r)]
    BY <1>3, Zenon DEF Add
  <2>2. /\ fwd'[d].pc \in {"conntrack", "learn"} /\ fwd'[d].frame = fwd[d].frame
        /\ \A c \in Directions \ {d} : fwd'[c] = fwd[c]
    BY <1>3, <2>1, AfterAddType, SMTT(60) DEF Add, TypeOK
  <2>3. QED
    BY <1>3, <2>2, ConfigFixed, SMTT(60) DEF PathInv, Add
<1>4. ASSUME NEW d \in Directions, LookupFlow(d), UNCHANGED config PROVE PathInv'
  <2>1. Reverse(hdr(d)) \in DOMAIN flows => flows[Reverse(hdr(d))] \in Nat
    BY Zenon DEF TypeOK
  <2>2. QED
    BY <1>4, <2>1, MovePath, Zenon DEF LookupFlow, Goto, PCs
<1>5. ASSUME NEW d \in Directions, CompareAge(d), UNCHANGED config PROVE PathInv'
  BY <1>5, MovePath, Zenon DEF CompareAge, Goto, PCs
<1>6. ASSUME NEW d \in Directions, WalkRules(d), UNCHANGED config PROVE PathInv'
  <2>1. \E pc \in {"track", "drop", "match", "write"}, t \in Nat : GotoAt(d, pc, t)
    BY <1>6, Zenon DEF WalkRules, ByRule, ByDefault, Goto, TypeOK
  <2>2. QED
    BY <1>6, <2>1, MovePath, Zenon DEF WalkRules, PCs
<1>7. ASSUME NEW d \in Directions, MatchDynamic(d), UNCHANGED config PROVE PathInv'
  <2>1. \E pc \in {"track", "drop", "write"} : GotoAt(d, pc, 0)
    BY <1>7, Zenon DEF MatchDynamic, ByRule, ByDefault, Goto
  <2>2. QED
    BY <1>7, <2>1, MovePath, Zenon DEF MatchDynamic, PCs
<1>8. ASSUME NEW d \in Directions, Track(d), UNCHANGED config PROVE PathInv'
  BY <1>8, MovePath, Zenon DEF Track, Goto, PCs
<1>9. ASSUME NEW d \in Directions, Finish(d), UNCHANGED config PROVE PathInv'
  BY <1>9, ConfigFixed, SMTT(60) DEF Finish, Idle, TypeOK, PathInv
<1>10. CASE UNCHANGED <<config, fwd>>
  BY <1>10, ConfigFixed, Zenon DEF PathInv
<1>11. QED
  BY <1>1, <1>2, <1>3, <1>4, <1>5, <1>6, <1>7, <1>8, <1>9, <1>10, Zenon
     DEF Next, Forward, Expiry, ReadSweepClock, sweep, Sweep, Tick, vars

LEMMA BaseInvariance == Spec => [](TypeOK /\ PathInv)
<1>1. Init => TypeOK /\ PathInv
  BY InitType, InitPath, Zenon
<1>2. TypeOK /\ PathInv /\ [Next]_vars => (TypeOK /\ PathInv)'
  BY StepType, StepPath, Zenon
<1>3. QED
  BY <1>1, <1>2, PTL DEF Spec

\* The variables keep their types: flow keys are headers, entries are rules, and
\* a forwarder that is not reading has a frame.
THEOREM TypeCorrect == Spec => []TypeOK
BY BaseInvariance, PTL

\* A query for a name the policy does not allow never reaches the network.
THEOREM BlockedNames == Spec => []BlockedNamesStayInside
<1>1. TypeOK /\ PathInv => BlockedNamesStayInside
  <2> SUFFICES ASSUME TypeOK, PathInv, Hook, fwd[Egress].pc = "write",
                      fwd[Egress].frame.kind = "ipv4", hdr(Egress).proto = UDP,
                      hdr(Egress).dport = 53
               PROVE  /\ fwd[Egress].frame.dns # NoDNS
                      /\ IsAllowed(fwd[Egress].frame.dns.qname)
    BY Zenon DEF BlockedNamesStayInside
  <2>1. Egress \in Directions /\ fwd[Egress].frame \in FrameSet
    BY Zenon DEF TypeOK, Directions
  <2>2. Classify(Egress, fwd[Egress].frame) \in {"conntrack", "learn", "write"}
    BY <2>1, Zenon DEF PathInv
  <2>3. Classify(Egress, fwd[Egress].frame) = HandleEgress(fwd[Egress].frame)
    BY Zenon DEF Classify, hdr
  <2>4. QED
    BY <2>2, <2>3, Zenon DEF HandleEgress
<1>2. QED
  BY <1>1, BaseInvariance, PTL

LEMMA AddedKeeps ==
  ASSUME TypeOK, NEW r \in RuleSet, NEW x \in Nat
  PROVE  /\ \A e \in entries :
              \E f \in Added(r, x) : f.rule = e.rule /\ f.expiresAt >= e.expiresAt
         /\ \/ Known(r) = {} /\ AtCapacity
            \/ \E f \in Added(r, x) : SameRule(f.rule, r) /\ f.expiresAt >= x
         /\ \A f \in Added(r, x) :
              /\ f.rule = r \/ \E e \in entries : f.rule = e.rule
              /\ f.expiresAt = x \/ \E e \in entries : f.expiresAt = e.expiresAt
<1>1. CASE Known(r) # {}
  <2>1. PICK e \in Known(r) : Added(r, x) = (entries \ {e}) \cup {Extended(e, x)}
    BY <1>1, Zenon DEF Added
  <2>2. e \in entries /\ SameRule(e.rule, r) /\ e \in EntrySet
    BY Zenon DEF Known, TypeOK
  <2>3. /\ Extended(e, x).rule = e.rule
        /\ Extended(e, x).expiresAt \in {x, e.expiresAt}
        /\ Extended(e, x).expiresAt >= e.expiresAt /\ Extended(e, x).expiresAt >= x
    BY <2>2 DEF Extended, EntrySet
  <2>4. \A f \in entries : f.expiresAt \in Nat
    BY Zenon DEF TypeOK, EntrySet
  <2>5. QED
    BY <2>1, <2>2, <2>3, <2>4
<1>2. CASE Known(r) = {}
  <2>1. \A f \in entries : f.expiresAt \in Nat
    BY Zenon DEF TypeOK, EntrySet
  <2>2. CASE AtCapacity
    BY <1>2, <2>1, <2>2 DEF Added
  <2>3. CASE ~AtCapacity
    <3> DEFINE new == [rule |-> r, expiresAt |-> x]
    <3>1. Added(r, x) = entries \cup {new}
      BY <1>2, <2>3, Zenon DEF Added
    <3>2. new.rule = r /\ new.expiresAt = x /\ new.expiresAt >= x /\ SameRule(new.rule, r)
      BY DEF SameRule
    <3> HIDE DEF new
    <3>3. QED
      BY <2>1, <3>1, <3>2
  <2>4. QED
    BY <2>2, <2>3, Zenon
<1>3. QED
  BY <1>1, <1>2, Zenon

-----------------------------------------------------------------------------
(* Who may talk to whom.  A conversation is open when a rule has allowed   *)
(* one direction of it; the tracked flows, the frames on their way to      *)
(* Track and (under a deny default) the frames about to be written all     *)
(* belong to open conversations.  Dynamic rules name resolved addresses,   *)
(* so an open conversation has a resolved address or a static rule.        *)

IsOpen(h) == h \in opened \/ Reverse(h) \in opened

OpenInv ==
  /\ \A k \in DOMAIN flows : IsOpen(k)
  /\ \A d \in Directions :
       /\ fwd[d].pc \in {"compare", "track"} => IsOpen(fwd[d].frame.hdr)
       /\ fwd[d].pc = "write" /\ fwd[d].frame.kind = "ipv4" /\ DefaultAction = "deny" =>
            IsOpen(fwd[d].frame.hdr)

OriginInv ==
  /\ \A e \in entries : \E ip \in resolved : e.rule.dst = {ip}
  /\ \A d \in Directions : \A r \in fwd[d].adds : \E ip \in resolved : r.dst = {ip}
  /\ \A h \in opened : h.dst \in resolved \/ StaticallyAllowed(h)

LEMMA InitOpen == Init => OpenInv /\ OriginInv
BY DEF Init, OpenInv, OriginInv, Idle

\* A move that stays clear of the three places OpenInv watches, or opens the
\* conversation first.
LEMMA MoveOpen ==
  ASSUME TypeOK, OpenInv, NEW d \in Directions, NEW pc \in PCs \ {"read"}, NEW t \in Nat,
         NEW h, fwd[d].pc # "read", fwd[d].frame.hdr = h, GotoAt(d, pc, t),
         UNCHANGED <<config, flows>>, opened \subseteq opened',
         \/ pc \notin {"compare", "track", "write"}
         \/ pc = "write" /\ DefaultAction # "deny"
         \/ h \in opened' \/ Reverse(h) \in opened'
  PROVE  OpenInv'
<1>1. DefaultAction' = DefaultAction
  BY ConfigFixed, Zenon
<1>2. QED
  BY <1>1, GotoFields DEF OpenInv, IsOpen

LEMMA StepOpen == TypeOK /\ PathInv /\ OpenInv /\ [Next]_vars => OpenInv'
<1> SUFFICES ASSUME TypeOK, PathInv, OpenInv, [Next]_vars PROVE OpenInv'
  BY Zenon
<1>1. ASSUME NEW d \in Directions, Receive(d), UNCHANGED config PROVE OpenInv'
  <2>1. PICK f \in Frames[d] : fwd'[d].pc = Classify(d, f) /\ fwd'[d].frame = f
    BY <1>1 DEF Receive, TypeOK
  <2>2. \A c \in Directions \ {d} : fwd'[c] = fwd[c]
    BY <1>1, Zenon DEF Receive, TypeOK
  <2>3. f \in FrameSet
    BY ConfigType, Zenon DEF TypeOK
  <2>4. fwd'[d].pc \notin {"compare", "track"} /\ ~(fwd'[d].pc = "write" /\ f.kind = "ipv4")
    BY <2>1, <2>3, ClassifyType, Zenon
  <2>5. QED
    BY <1>1, <2>1, <2>2, <2>4, ConfigFixed, Zenon DEF OpenInv, IsOpen, Receive
<1>2. ASSUME NEW d \in Directions, ReadAddClock(d), UNCHANGED config PROVE OpenInv'
  <2>1. now + ClampTTL(fwd[d].frame.dns.ttl) \in Nat
    BY <1>2, LearnType DEF ReadAddClock, TypeOK
  <2>2. QED
    BY <1>2, <2>1, MoveOpen, Zenon DEF ReadAddClock, PCs
<1>3. ASSUME NEW d \in Directions, Add(d), UNCHANGED config PROVE OpenInv'
  <2>1. PICK r \in fwd[d].adds : fwd' = [fwd EXCEPT ![d] = AfterAdd(d, r)]
    BY <1>3, Zenon DEF Add
  <2>2. /\ fwd'[d].pc \in {"conntrack", "learn"}
        /\ \A c \in Directions \ {d} : fwd'[c] = fwd[c]
    BY <1>3, <2>1, AfterAddType DEF Add, TypeOK
  <2>3. QED
    BY <1>3, <2>2, ConfigFixed, Zenon DEF OpenInv, IsOpen, Add
<1>4. ASSUME NEW d \in Directions, LookupFlow(d), UNCHANGED config PROVE OpenInv'
  <2>1. hdr(d) \in Headers /\ hdr(d) = fwd[d].frame.hdr
    BY <1>4, HeaderType, Zenon DEF LookupFlow, hdr
  <2>2. CASE Reverse(hdr(d)) \in DOMAIN flows
    <3>1. IsOpen(hdr(d)) /\ flows[Reverse(hdr(d))] \in Nat
      BY <2>1, <2>2, ReverseType, Zenon DEF OpenInv, IsOpen, TypeOK
    <3>2. QED
      BY <1>4, <2>1, <2>2, <3>1, MoveOpen, Zenon DEF LookupFlow, IsOpen, PCs
  <2>3. CASE Reverse(hdr(d)) \notin DOMAIN flows
    BY <1>4, <2>3, MoveOpen, Zenon DEF LookupFlow, Goto, PCs
  <2>4. QED
    BY <2>2, <2>3, Zenon
<1>5. ASSUME NEW d \in Directions, CompareAge(d), UNCHANGED config PROVE OpenInv'
  <2>1. IsOpen(fwd[d].frame.hdr)
    BY <1>5, Zenon DEF CompareAge, OpenInv
  <2>2. QED
    BY <1>5, <2>1, MoveOpen, Zenon DEF CompareAge, Goto, IsOpen, PCs
<1>6. ASSUME NEW d \in Directions, NEW a, ByRule(d, a), fwd[d].pc # "read",
             UNCHANGED <<config, flows>> PROVE OpenInv'
  BY <1>6, MoveOpen, Zenon DEF ByRule, Goto, hdr, PCs
<1>7. ASSUME NEW d \in Directions, ByDefault(d), fwd[d].pc # "read",
             UNCHANGED <<config, flows>> PROVE OpenInv'
  BY <1>7, MoveOpen, Zenon DEF ByDefault, Goto, PCs
<1>8. ASSUME NEW d \in Directions, WalkRules(d), UNCHANGED config PROVE OpenInv'
  <2>1. CASE GotoAt(d, "match", now) /\ UNCHANGED opened
    BY <1>8, <2>1, MoveOpen, Zenon DEF WalkRules, PCs, TypeOK
  <2>2. QED
    BY <1>6, <1>7, <1>8, <2>1, Zenon DEF WalkRules
<1>9. ASSUME NEW d \in Directions, MatchDynamic(d), UNCHANGED config PROVE OpenInv'
  BY <1>6, <1>7, <1>9, Zenon DEF MatchDynamic
<1>10. ASSUME NEW d \in Directions, Track(d), UNCHANGED config PROVE OpenInv'
  <2>1. IsOpen(hdr(d))
    BY <1>10, Zenon DEF Track, OpenInv, hdr
  <2>2. /\ fwd'[d].pc = "write" /\ fwd'[d].frame = fwd[d].frame
        /\ \A c \in Directions \ {d} : fwd'[c] = fwd[c]
    BY <1>10, GotoFields, Zenon DEF Track, Goto, PCs
  <2>3. DOMAIN flows' = DOMAIN flows \cup {hdr(d)}
    BY <1>10, Zenon DEF Track
  <2>4. QED
    BY <1>10, <2>1, <2>2, <2>3, ConfigFixed, Zenon DEF Track, OpenInv, IsOpen, hdr
<1>11. ASSUME NEW d \in Directions, Finish(d), UNCHANGED config PROVE OpenInv'
  BY <1>11, ConfigFixed, Zenon DEF Finish, Idle, TypeOK, OpenInv, IsOpen
<1>12. CASE sweep /\ UNCHANGED config
  <2>1. DOMAIN flows' \subseteq DOMAIN flows
    BY <1>12, Zenon DEF sweep
  <2>2. QED
    BY <1>12, <2>1, ConfigFixed, Zenon DEF sweep, OpenInv, IsOpen
<1>13. CASE UNCHANGED <<config, flows, fwd, opened>>
  BY <1>13, ConfigFixed, Zenon DEF OpenInv, IsOpen
<1>14. QED
  BY <1>1, <1>2, <1>3, <1>4, <1>5, <1>8, <1>9, <1>10, <1>11, <1>12, <1>13, Zenon
     DEF Next, Forward, Expiry, ReadSweepClock, Sweep, Tick, vars

\* What Add does to the entries: every old rule stays with an expiry no earlier,
\* the new one is there unless it was refused, and nothing else appears.
LEMMA OpenOrigin ==
  ASSUME OriginInv, NEW d \in Directions, NEW a, ByRule(d, a),
         a = "allow" => hdr(d).dst \in resolved \/ StaticallyAllowed(hdr(d))
  PROVE  \A h \in opened' : h.dst \in resolved \/ StaticallyAllowed(h)
BY Zenon DEF OriginInv, ByRule

LEMMA StepOrigin == TypeOK /\ PathInv /\ OriginInv /\ [Next]_vars => OriginInv'
<1> SUFFICES ASSUME TypeOK, PathInv, OriginInv, [Next]_vars PROVE OriginInv'
  BY Zenon
<1>0. config' = config => \A h : StaticallyAllowed(h)' = StaticallyAllowed(h)
  BY ConfigFixed, Zenon DEF StaticallyAllowed
<1>1. ASSUME NEW d \in Directions, Receive(d), UNCHANGED config PROVE OriginInv'
  <2>1. PICK f \in Frames[d] :
          /\ fwd' = [fwd EXCEPT ![d] =
                       [pc |-> Classify(d, f), frame |-> f, t |-> 0,
                        adds |-> IF Classify(d, f) = "learn" THEN RulesFor(f) ELSE {},
                        since |-> now,
                        live |-> f.kind = "ipv4" /\ Established(f.hdr),
                        lost |-> {}]]
          /\ resolved' = IF Classify(d, f) = "learn" THEN resolved \cup f.dns.ips
                         ELSE resolved
    BY <1>1, ZenonT(30) DEF Receive
  <2>2. \A c \in Directions \ {d} : fwd'[c] = fwd[c]
    BY <1>1, Zenon DEF Receive, TypeOK
  <2>3. f \in FrameSet
    BY ConfigType, Zenon DEF TypeOK
  <2>4. fwd'[d].adds = IF Classify(d, f) = "learn" THEN RulesFor(f) ELSE {}
    BY <2>1, Zenon DEF TypeOK
  <2>5. \A r \in fwd'[d].adds : \E ip \in resolved' : r.dst = {ip}
    BY <2>1, <2>3, <2>4, RulesForType DEF TypeOK
  <2>6. resolved \subseteq resolved' /\ UNCHANGED <<entries, opened>>
    BY <1>1, <2>1, Zenon DEF Receive
  <2>7. QED
    BY <1>0, <1>1, <2>2, <2>5, <2>6, Zenon DEF OriginInv
<1>2. ASSUME NEW d \in Directions, Add(d), UNCHANGED config PROVE OriginInv'
  <2>1. PICK r \in fwd[d].adds : /\ entries' = Added(r, fwd[d].t)
                                  /\ fwd' = [fwd EXCEPT ![d] = AfterAdd(d, r)]
    BY <1>2, Zenon DEF Add
  <2>2. /\ fwd'[d].adds \subseteq fwd[d].adds
        /\ \A c \in Directions \ {d} : fwd'[c] = fwd[c]
    BY <1>2, <2>1, AfterAddType DEF Add, TypeOK
  <2>3. r \in RuleSet /\ fwd[d].t \in Nat
    BY Zenon DEF TypeOK, ForwarderSet
  <2>4. \A f \in entries' : f.rule = r \/ \E e \in entries : f.rule = e.rule
    BY <2>1, <2>3, AddedKeeps
  <2>5. QED
    BY <1>0, <1>2, <2>2, <2>4 DEF OriginInv, Add

\* Moves change neither rules nor resolved addresses.
<1>3. ASSUME UNCHANGED <<config, entries, resolved>>,
             \A d \in Directions : fwd'[d].adds = fwd[d].adds \/ fwd'[d].adds = {},
             \A h \in opened' : h.dst \in resolved \/ StaticallyAllowed(h)
      PROVE  OriginInv'
  BY <1>0, <1>3, Zenon DEF OriginInv
<1>4. ASSUME NEW d \in Directions, NEW pc \in PCs \ {"read"}, NEW t \in Nat,
             fwd[d].pc # "read", GotoAt(d, pc, t)
      PROVE  \A c \in Directions : fwd'[c].adds = fwd[c].adds
  BY <1>4, GotoFields, Zenon
<1>5. ASSUME NEW d \in Directions, UNCHANGED config,
             ReadAddClock(d) \/ LookupFlow(d) \/ CompareAge(d) \/ Track(d)
      PROVE  OriginInv'
  <2>1. \E pc \in PCs \ {"read"}, t \in Nat : fwd[d].pc # "read" /\ GotoAt(d, pc, t)
    <3>1. fwd[d].pc = "learn" => now + ClampTTL(fwd[d].frame.dns.ttl) \in Nat
      BY LearnType DEF TypeOK
    <3>2. Reverse(hdr(d)) \in DOMAIN flows => flows[Reverse(hdr(d))] \in Nat
      BY Zenon DEF TypeOK
    <3>3. QED
      BY <1>5, <3>1, <3>2, Zenon
         DEF ReadAddClock, LookupFlow, CompareAge, Track, Goto, PCs
  <2>2. \A c \in Directions : fwd'[c].adds = fwd[c].adds
    BY <2>1, <1>4, Zenon
  <2>3. UNCHANGED <<entries, resolved, opened>>
    BY <1>5, Zenon DEF ReadAddClock, LookupFlow, CompareAge, Track
  <2>4. QED
    BY <1>3, <1>5, <2>2, <2>3, Zenon DEF OriginInv
<1>6. ASSUME NEW d \in Directions, WalkRules(d), UNCHANGED config PROVE OriginInv'
  <2>1. \E pc \in PCs \ {"read"}, t \in Nat : GotoAt(d, pc, t)
    BY <1>6, Zenon DEF WalkRules, ByRule, ByDefault, Goto, PCs, TypeOK
  <2>2. \A h \in opened' : h.dst \in resolved \/ StaticallyAllowed(h)
    <3>1. CASE UNCHANGED opened
      BY <3>1, Zenon DEF OriginInv
    <3>2. CASE \E i \in First(StaticMatches(d, hdr(d))) : ByRule(d, Rules[i].action)
      BY <3>2, OpenOrigin, Zenon DEF StaticallyAllowed
    <3>3. QED
      BY <1>6, <3>1, <3>2, Zenon DEF WalkRules, ByDefault
  <2>3. QED
    BY <1>3, <1>4, <1>6, <2>1, <2>2, Zenon DEF WalkRules
<1>7. ASSUME NEW d \in Directions, MatchDynamic(d), UNCHANGED config PROVE OriginInv'
  <2>1. \E pc \in PCs \ {"read"}, t \in Nat : GotoAt(d, pc, t)
    BY <1>7, Zenon DEF MatchDynamic, ByRule, ByDefault, Goto, PCs
  <2>2. \A h \in opened' : h.dst \in resolved \/ StaticallyAllowed(h)
    <3>1. CASE UNCHANGED opened
      BY <3>1, Zenon DEF OriginInv
    <3>2. ASSUME NEW e \in LiveMatches(d) PROVE hdr(d).dst \in resolved
      BY <3>2, Zenon DEF LiveMatches, Matches, cidrMatchesIP, OriginInv
    <3>3. CASE \E e \in LiveMatches(d) : ByRule(d, e.rule.action)
      BY <3>2, <3>3, OpenOrigin, Zenon
    <3>4. QED
      BY <1>7, <3>1, <3>3, Zenon DEF MatchDynamic, ByDefault
  <2>3. QED
    BY <1>3, <1>4, <1>7, <2>1, <2>2, Zenon DEF MatchDynamic
<1>8. ASSUME NEW d \in Directions, Finish(d), UNCHANGED config PROVE OriginInv'
  <2>1. \A c \in Directions : fwd'[c].adds = fwd[c].adds \/ fwd'[c].adds = {}
    BY <1>8, Zenon DEF Finish, Idle, TypeOK
  <2>2. QED
    BY <1>3, <1>8, <2>1, Zenon DEF Finish, OriginInv
<1>9. CASE UNCHANGED <<config, resolved, fwd, opened>> /\ entries' \subseteq entries
  BY <1>0, <1>9, Zenon DEF OriginInv
<1>10. QED
  BY <1>1, <1>2, <1>5, <1>6, <1>7, <1>8, <1>9, Zenon
     DEF Next, Forward, Expiry, ReadSweepClock, sweep, Sweep, Tick, vars

LEMMA ReachInvariance == Spec => [](TypeOK /\ PathInv /\ OpenInv /\ OriginInv)
<1>1. Init => OpenInv /\ OriginInv
  BY InitOpen, Zenon
<1>2. TypeOK /\ PathInv /\ OpenInv /\ OriginInv /\ [Next]_vars => (OpenInv /\ OriginInv)'
  BY StepOpen, StepOrigin, Zenon
<1>3. QED
  BY <1>1, <1>2, BaseInvariance, PTL DEF Spec

\* Connection tracking grants nothing by itself: every tracked flow belongs to
\* a conversation that a rule has allowed.
THEOREM TrackedFlows == Spec => []TrackedFlowsWereOpened
<1>1. OpenInv => TrackedFlowsWereOpened
  BY Zenon DEF OpenInv, IsOpen, TrackedFlowsWereOpened, hdr
<1>2. QED
  BY <1>1, ReachInvariance, PTL

\* Under a deny default, IPv4 traffic leaves the VM only to (or in answer to)
\* addresses resolved from allowed names, or where a static rule allows it.
THEOREM OnlyResolved == Spec => []OnlyResolvedReachable
<1>1. TypeOK /\ OpenInv /\ OriginInv => OnlyResolvedReachable
  <2> SUFFICES ASSUME TypeOK, OpenInv, OriginInv, DefaultAction = "deny",
                      fwd[Egress].pc = "write", fwd[Egress].frame.kind = "ipv4"
               PROVE  \/ {hdr(Egress).dst, hdr(Egress).src} \cap resolved # {}
                      \/ StaticallyAllowed(hdr(Egress))
                      \/ StaticallyAllowed(Reverse(hdr(Egress)))
    BY Zenon DEF OnlyResolvedReachable
  <2>1. IsOpen(hdr(Egress))
    BY Zenon DEF OpenInv, Directions, hdr
  <2>2. hdr(Egress) \in opened \/ Reverse(hdr(Egress)) \in opened
    BY <2>1, Zenon DEF IsOpen
  <2>3. Reverse(hdr(Egress)).dst = hdr(Egress).src
    BY Zenon DEF Reverse
  <2>4. QED
    BY <2>2, <2>3, Zenon DEF OriginInv
<1>2. QED
  BY <1>1, ReachInvariance, PTL

-----------------------------------------------------------------------------
(* The life of dynamic rules.  The clock values that the goroutines hold   *)
(* are never ahead of the clock, and the expiry that Add carries lies      *)
(* between the reception of the answer and now, plus the clamped TTL.      *)

TimeInv ==
  /\ sweeper.t =< now
  /\ \A d \in Directions :
       /\ fwd[d].since =< now
       /\ fwd[d].pc = "add" =>
            /\ fwd[d].since + ClampTTL(fwd[d].frame.dns.ttl) =< fwd[d].t
            /\ fwd[d].t =< now + ClampTTL(fwd[d].frame.dns.ttl)

LEMMA InitTime == Init => TimeInv
BY DEF Init, TimeInv, Idle

LEMMA StepTime == TypeOK /\ PathInv /\ TimeInv /\ [Next]_vars => TimeInv'
<1> SUFFICES ASSUME TypeOK, PathInv, TimeInv, [Next]_vars PROVE TimeInv'
  BY Zenon
<1>0. /\ now \in Nat /\ sweeper.t \in Nat
      /\ \A d \in Directions : fwd[d].since \in Nat /\ fwd[d].t \in Nat
      /\ \A d \in Directions :
           fwd[d].pc \in {"learn", "add"} => ClampTTL(fwd[d].frame.dns.ttl) \in Nat
  BY LearnType, Zenon DEF TypeOK, ForwarderSet
<1>1. ASSUME NEW d \in Directions, Receive(d) PROVE TimeInv'
  <2>1. fwd'[d].since = now /\ fwd'[d].pc # "add"
    <3>1. PICK f \in Frames[d] : fwd'[d].since = now /\ fwd'[d].pc = Classify(d, f)
      BY <1>1 DEF Receive, TypeOK
    <3>2. f \in FrameSet
      BY ConfigType, Zenon DEF TypeOK
    <3>3. QED
      BY <3>1, <3>2, ClassifyType, Zenon
  <2>2. \A c \in Directions \ {d} : fwd'[c] = fwd[c]
    BY <1>1, Zenon DEF Receive, TypeOK
  <2>3. QED
    BY <1>0, <1>1, <2>1, <2>2 DEF Receive, TimeInv
<1>2. ASSUME NEW d \in Directions, ReadAddClock(d) PROVE TimeInv'
  <2>1. now + ClampTTL(fwd[d].frame.dns.ttl) \in Nat
    BY <1>0, <1>2 DEF ReadAddClock
  <2>2. /\ fwd'[d].since = fwd[d].since /\ fwd'[d].frame = fwd[d].frame
        /\ fwd'[d].t = now + ClampTTL(fwd[d].frame.dns.ttl)
        /\ \A c \in Directions \ {d} : fwd'[c] = fwd[c]
    BY <1>2, <2>1, GotoFields, Zenon DEF ReadAddClock, PCs
  <2>3. QED
    BY <1>0, <1>2, <2>2 DEF ReadAddClock, TimeInv
<1>3. ASSUME NEW d \in Directions, Add(d) PROVE TimeInv'
  <2>1. PICK r \in fwd[d].adds : fwd' = [fwd EXCEPT ![d] = AfterAdd(d, r)]
    BY <1>3, Zenon DEF Add
  <2>2. /\ fwd'[d].pc # "add" /\ fwd'[d].since = fwd[d].since
        /\ \A c \in Directions \ {d} : fwd'[c] = fwd[c]
    BY <1>3, <2>1, AfterAddType DEF Add, TypeOK
  <2>3. QED
    BY <1>0, <1>3, <2>2, Zenon DEF Add, TimeInv
<1>4. ASSUME NEW d \in Directions, NEW pc \in PCs \ {"read", "add"}, NEW t \in Nat,
             fwd[d].pc # "read", GotoAt(d, pc, t), UNCHANGED <<now, sweeper>>
      PROVE  TimeInv'
  <2>1. /\ fwd'[d].pc # "add" /\ fwd'[d].since = fwd[d].since
        /\ \A c \in Directions \ {d} : fwd'[c] = fwd[c]
    BY <1>4, GotoFields, Zenon
  <2>2. QED
    BY <1>0, <1>4, <2>1, Zenon DEF TimeInv
<1>5. ASSUME NEW d \in Directions, LookupFlow(d) PROVE TimeInv'
  <2>1. Reverse(hdr(d)) \in DOMAIN flows => flows[Reverse(hdr(d))] \in Nat
    BY Zenon DEF TypeOK
  <2>2. QED
    BY <1>4, <1>5, <2>1, Zenon DEF LookupFlow, Goto, PCs
<1>6. ASSUME NEW d \in Directions, CompareAge(d) \/ Track(d) \/ MatchDynamic(d)
      PROVE  TimeInv'
  BY <1>4, <1>6, Zenon DEF CompareAge, Track, MatchDynamic, ByRule, ByDefault, Goto, PCs
<1>7. ASSUME NEW d \in Directions, WalkRules(d) PROVE TimeInv'
  BY <1>0, <1>4, <1>7, Zenon DEF WalkRules, ByRule, ByDefault, Goto, PCs
<1>8. ASSUME NEW d \in Directions, Finish(d) PROVE TimeInv'
  BY <1>0, <1>8 DEF Finish, Idle, TypeOK, TimeInv
<1>9. CASE Expiry
  BY <1>0, <1>9 DEF Expiry, ReadSweepClock, sweep, Sweep, TimeInv
<1>10. CASE Tick
  BY <1>0, <1>10 DEF Tick, TimeInv
<1>11. CASE UNCHANGED vars
  BY <1>11, Zenon DEF vars, TimeInv
<1>12. QED
  BY <1>1, <1>2, <1>3, <1>5, <1>6, <1>7, <1>8, <1>9, <1>10, <1>11, Zenon DEF Next, Forward

\* The entries change only in Add and Sweep.
LEMMA EntriesChange ==
  ASSUME TypeOK, [Next]_vars
  PROVE  \/ entries' = entries
         \/ /\ now' = now /\ UNCHANGED flows
            /\ \E d \in Directions : \E r \in fwd[d].adds :
                 /\ fwd[d].pc = "add" /\ r \in RuleSet /\ fwd[d].t \in Nat
                 /\ entries' = Added(r, fwd[d].t)
         \/ Sweep
<1>1. ASSUME NEW d \in Directions, Add(d) PROVE
        /\ now' = now /\ UNCHANGED flows
        /\ \E r \in fwd[d].adds :
             /\ fwd[d].pc = "add" /\ r \in RuleSet /\ fwd[d].t \in Nat
             /\ entries' = Added(r, fwd[d].t)
  BY <1>1, Zenon DEF Add, TypeOK, ForwarderSet
<1>2. QED
  BY <1>1, Zenon DEF Next, Forward, Expiry, Receive, ReadAddClock, LookupFlow, CompareAge,
              WalkRules, MatchDynamic, Track, Finish, ReadSweepClock, sweep, Tick, vars

\* The clock does not run backwards.
LEMMA ClockForward == TypeOK /\ [Next]_vars => now' \in Nat /\ now =< now'
<1>1. [Next]_vars => now' = now \/ now' = now + 1
  BY Zenon DEF Next, Forward, Expiry, Receive, ReadAddClock, Add, LookupFlow, CompareAge,
         WalkRules, MatchDynamic, Track, Finish, ReadSweepClock, sweep, Sweep, Tick, vars
<1>2. QED
  BY <1>1 DEF TypeOK

LEMMA StepLifetime ==
  TypeOK /\ PathInv /\ TimeInv /\ RuleLifetimeBounded /\ [Next]_vars => RuleLifetimeBounded'
<1> SUFFICES ASSUME TypeOK, PathInv, TimeInv, RuleLifetimeBounded, [Next]_vars, MaxTTL > 0,
                    NEW f \in entries'
             PROVE  f.expiresAt =< now' + MaxTTL
  BY Zenon DEF RuleLifetimeBounded
<1>1. /\ now \in Nat /\ now' \in Nat /\ now =< now' /\ MaxTTL \in Nat
      /\ \A e \in entries : e.expiresAt \in Nat /\ e.expiresAt =< now + MaxTTL
  BY ClockForward, FirewallAssumption, Zenon DEF TypeOK, EntrySet, RuleLifetimeBounded
<1>2. CASE entries' \subseteq entries
  BY <1>1, <1>2
<1>3. ASSUME NEW d \in Directions, fwd[d].pc = "add", NEW r \in RuleSet, fwd[d].t \in Nat,
             entries' = Added(r, fwd[d].t)
      PROVE  f.expiresAt =< now' + MaxTTL
  <2>1. f.expiresAt = fwd[d].t \/ \E e \in entries : f.expiresAt = e.expiresAt
    BY <1>3, AddedKeeps, Zenon
  <2>2. /\ ClampTTL(fwd[d].frame.dns.ttl) \in Nat
        /\ ClampTTL(fwd[d].frame.dns.ttl) =< MaxTTL
    BY <1>3, LearnType, ClampTTLType, Zenon
  <2>3. fwd[d].t =< now + ClampTTL(fwd[d].frame.dns.ttl)
    BY <1>3, Zenon DEF TimeInv
  <2>4. QED
    BY <1>1, <1>3, <2>1, <2>2, <2>3
<1>4. QED
  BY <1>2, <1>3, EntriesChange, Zenon DEF Sweep

LEMMA TimeInvariance == Spec => [](TypeOK /\ PathInv /\ TimeInv)
<1>1. TypeOK /\ PathInv /\ TimeInv /\ [Next]_vars => TimeInv'
  BY StepTime, Zenon
<1>2. QED
  BY <1>1, InitTime, BaseInvariance, PTL DEF Spec

\* A resolved address stays allowed for at most the maximum TTL after the last
\* answer that named it.
THEOREM LifetimeBounded == Spec => []RuleLifetimeBounded
<1>1. Init => RuleLifetimeBounded
  BY Zenon DEF Init, RuleLifetimeBounded
<1>2. QED
  BY <1>1, StepLifetime, TimeInvariance, PTL DEF Spec

LEMMA OneMore ==
  ASSUME NEW S, IsFiniteSet(S), NEW x
  PROVE  /\ Cardinality(S) \in Nat /\ Cardinality(S \cup {x}) \in Nat
         /\ Cardinality(S \cup {x}) =< Cardinality(S) + 1
<1>1. Cardinality(S) \in Nat
  BY FS_CardinalityType, Zenon
<1>2. \/ Cardinality(S \cup {x}) = Cardinality(S)
      \/ Cardinality(S \cup {x}) = Cardinality(S) + 1
  BY FS_AddElement, Zenon
<1>3. QED
  BY <1>1, <1>2

LEMMA AddedDistinct ==
  ASSUME TypeOK, NoDuplicateRules, NEW r \in RuleSet, NEW x \in Nat
  PROVE  /\ Cardinality(Added(r, x)) =< MaxRules
         /\ \A e, f \in Added(r, x) : SameRule(e.rule, f.rule) => e = f
<1>0. /\ IsFiniteSet(entries) /\ Cardinality(entries) \in Nat /\ MaxRules \in Nat
      /\ Cardinality(entries) =< MaxRules
      /\ \A e, f \in entries : SameRule(e.rule, f.rule) => e = f
  BY FS_CardinalityType, FirewallAssumption, Zenon DEF TypeOK, NoDuplicateRules
<1>1. CASE Known(r) # {}
  <2>1. PICK e \in Known(r) : Added(r, x) = (entries \ {e}) \cup {Extended(e, x)}
    BY <1>1, Zenon DEF Added
  <2>2. e \in entries /\ Extended(e, x).rule = e.rule
    BY Zenon DEF Known, TypeOK, Extended, EntrySet
  <2>3. /\ IsFiniteSet(entries \ {e})
        /\ Cardinality(entries \ {e}) = Cardinality(entries) - 1
    BY <1>0, <2>2, FS_RemoveElement, Zenon
  <2>4. Cardinality((entries \ {e}) \cup {Extended(e, x)}) =< Cardinality(entries)
    <3> DEFINE others == entries \ {e}
               new == Extended(e, x)
    <3>1. /\ Cardinality(others) \in Nat /\ Cardinality(others \cup {new}) \in Nat
          /\ Cardinality(others \cup {new}) =< Cardinality(others) + 1
      BY <2>3, OneMore, Zenon
    <3>2. Cardinality(others) = Cardinality(entries) - 1
      BY <2>3, Zenon
    <3> HIDE DEF others, new
    <3>3. Cardinality(others \cup {new}) =< Cardinality(entries)
      BY <1>0, <3>1, <3>2
    <3>4. QED
      BY <3>3, Zenon DEF others, new
  <2>5. \A a, b : SameRule(a, b) <=> SameRule(b, a)
    BY Zenon DEF SameRule
  <2>6. ASSUME NEW f \in Added(r, x), NEW g \in Added(r, x), SameRule(f.rule, g.rule)
        PROVE  f = g
    BY <1>0, <2>1, <2>2, <2>5, <2>6, Zenon
  <2>7. Cardinality(Added(r, x)) =< MaxRules
    <3>1. Cardinality(Added(r, x)) =< Cardinality(entries)
      BY <2>1, <2>4, Zenon
    <3>2. Cardinality(Added(r, x)) \in Nat
      BY AddedType, FS_CardinalityType, Zenon
    <3>3. QED
      BY <1>0, <3>1, <3>2
  <2>8. QED
    BY <2>6, <2>7, Zenon
<1>2. CASE Known(r) = {} /\ ~AtCapacity
  <2> DEFINE new == [rule |-> r, expiresAt |-> x]
  <2>1. Added(r, x) = entries \cup {new}
    BY <1>2, Zenon DEF Added
  <2>2. Cardinality(entries \cup {new}) =< Cardinality(entries) + 1
    BY <1>0, OneMore, Zenon
  <2>3. new.rule = r
    BY Zenon
  <2>4. \A a, b : SameRule(a, b) <=> SameRule(b, a)
    BY Zenon DEF SameRule
  <2>5. \A e \in entries : ~SameRule(e.rule, r)
    BY <1>2, Zenon DEF Known
  <2>6. Cardinality(entries) < MaxRules
    BY <1>0, <1>2 DEF AtCapacity
  <2>7. Cardinality(entries \cup {new}) \in Nat
    BY <1>0, OneMore, Zenon
  <2> HIDE DEF new
  <2>8. QED
    BY <1>0, <2>1, <2>2, <2>3, <2>4, <2>5, <2>6, <2>7
<1>3. CASE Known(r) = {} /\ AtCapacity
  BY <1>0, <1>3, Zenon DEF Added
<1>4. QED
  BY <1>1, <1>2, <1>3, Zenon

LEMMA StepDistinct == TypeOK /\ NoDuplicateRules /\ [Next]_vars => NoDuplicateRules'
<1> SUFFICES ASSUME TypeOK, NoDuplicateRules, [Next]_vars PROVE NoDuplicateRules'
  BY Zenon
<1>1. CASE entries' \subseteq entries
  <2>1. Cardinality(entries') =< Cardinality(entries) /\ IsFiniteSet(entries')
    BY <1>1, FS_Subset, Zenon DEF TypeOK
  <2>2. Cardinality(entries') \in Nat /\ Cardinality(entries) \in Nat /\ MaxRules \in Nat
    BY <2>1, FS_CardinalityType, FirewallAssumption, Zenon DEF TypeOK
  <2>3. QED
    BY <1>1, <2>1, <2>2 DEF NoDuplicateRules, SameRule
<1>2. ASSUME NEW d \in Directions, NEW r \in RuleSet, fwd[d].t \in Nat,
             entries' = Added(r, fwd[d].t)
      PROVE  NoDuplicateRules'
  BY <1>2, AddedDistinct, Zenon DEF NoDuplicateRules, SameRule
<1>3. QED
  BY <1>1, <1>2, EntriesChange, Zenon DEF Sweep

\* DynamicRules holds one entry per rule, and never more than its capacity.
THEOREM RulesDistinct == Spec => []NoDuplicateRules
<1>1. Init => NoDuplicateRules
  BY FS_EmptySet, FirewallAssumption DEF Init, NoDuplicateRules
<1>2. QED
  BY <1>1, StepDistinct, BaseInvariance, PTL DEF Spec

\* A rule that is still valid is kept: the clock value a sweep holds is not
\* ahead of now.
LEMMA LiveRuleKept ==
  ASSUME TypeOK, TimeInv, [Next]_vars, NEW e \in entries, now =< e.expiresAt
  PROVE  \E f \in entries' : SameRule(e.rule, f.rule) /\ f.expiresAt >= e.expiresAt
<1>0. SameRule(e.rule, e.rule)
  BY Zenon DEF SameRule
<1>1. /\ e.expiresAt \in Nat /\ now \in Nat /\ sweeper.t \in Nat /\ sweeper.t =< now
  BY Zenon DEF TypeOK, EntrySet, TimeInv
<1>2. CASE Sweep
  <2>1. ~(sweeper.t > e.expiresAt)
    BY <1>1
  <2>2. e \in entries'
    BY <1>2, <2>1, Zenon DEF Sweep
  <2>3. QED
    BY <1>0, <1>1, <2>2
<1>3. ASSUME NEW d \in Directions, NEW r \in RuleSet, fwd[d].t \in Nat,
             entries' = Added(r, fwd[d].t)
      PROVE  \E f \in entries' : SameRule(e.rule, f.rule) /\ f.expiresAt >= e.expiresAt
  <2>1. PICK f \in Added(r, fwd[d].t) : f.rule = e.rule /\ f.expiresAt >= e.expiresAt
    BY <1>3, AddedKeeps, Zenon
  <2>2. QED
    BY <1>0, <1>3, <2>1, Zenon
<1>4. QED
  BY <1>0, <1>1, <1>2, <1>3, EntriesChange

\* No step takes away a rule or a flow that is still valid, and a valid rule's
\* expiry never moves back.
THEOREM LiveKept == Spec => NothingLiveRemoved
<1>1. ASSUME TypeOK, TimeInv, [Next]_vars, NEW e \in entries, now =< e.expiresAt
      PROVE  \E f \in entries' : SameRule(e.rule, f.rule) /\ f.expiresAt >= e.expiresAt
  BY <1>1, LiveRuleKept, Zenon
<1>2. ASSUME TypeOK, TimeInv, [Next]_vars, NEW k \in DOMAIN flows,
             now =< flows[k] + flowTTL(k.proto)
      PROVE  k \in DOMAIN flows'
  <2>1. CASE sweep
    <3>1. /\ now \in Nat /\ sweeper.t \in Nat /\ sweeper.t =< now
          /\ flows[k] \in Nat /\ flowTTL(k.proto) \in Nat
      BY <1>2, flowTTLType, Zenon DEF TypeOK, TimeInv
    <3>2. ~ExpiredFlow(k, sweeper.t)
      BY <1>2, <3>1 DEF ExpiredFlow
    <3>3. QED
      BY <2>1, <3>2, Zenon DEF sweep
  <2>2. ASSUME NEW d \in Directions, Track(d) PROVE k \in DOMAIN flows'
    BY <2>2, Zenon DEF Track
  <2>3. CASE UNCHANGED flows
    BY <2>3, Zenon
  <2>4. QED
    BY <1>2, <2>1, <2>2, <2>3, Zenon DEF Next, Forward, Expiry, Receive, ReadAddClock, Add,
       LookupFlow, CompareAge, WalkRules, MatchDynamic, Finish, ReadSweepClock, Sweep, Tick, vars
<1> DEFINE Kept ==
      /\ \A e \in entries : now =< e.expiresAt =>
           \E f \in entries' : SameRule(e.rule, f.rule) /\ f.expiresAt >= e.expiresAt
      /\ \A k \in DOMAIN flows : now =< flows[k] + flowTTL(k.proto) => k \in DOMAIN flows'
<1>3. TypeOK /\ PathInv /\ TimeInv /\ [Next]_vars => [Kept]_vars
  BY <1>1, <1>2, Zenon
<1>4. QED
  BY <1>3, TimeInvariance, PTL DEF Spec, NothingLiveRemoved

-----------------------------------------------------------------------------
(* Answers are learned before they are delivered.  A rule an answer calls  *)
(* for is still to be added, was refused, or has an entry that lasts as    *)
(* long as the answer does.                                                *)

Remembered(r, x) == \E e \in entries : SameRule(e.rule, r) /\ e.expiresAt >= x

LearnedAt(d) ==
  \A f \in FrameSet :
    /\ fwd[d].frame = f /\ fwd[d].pc \notin {"read", "drop", "respond"}
    /\ Classify(d, f) = "learn"
    /\ now =< fwd[d].since + ClampTTL(f.dns.ttl)
    => \A r \in RulesFor(f) : \/ r \in fwd[d].lost
                              \/ r \in fwd[d].adds
                              \/ Remembered(r, fwd[d].since + ClampTTL(f.dns.ttl))

Pending(d) == fwd[d].adds # {} => fwd[d].pc \in {"learn", "add"}

LearnInv == \A d \in Directions : LearnedAt(d) /\ Pending(d)

LEMMA LearnableType ==
  ASSUME TypeOK, NEW d \in Directions, NEW f \in FrameSet, Classify(d, f) = "learn"
  PROVE  ClampTTL(f.dns.ttl) \in Nat
BY ClassifyType, RulesForType, SnoopedType, ClampTTLType, Zenon DEF TypeOK

LEMMA RememberedKept ==
  ASSUME TypeOK, TimeInv, [Next]_vars, NEW r, NEW x \in Nat, now =< x, Remembered(r, x)
  PROVE  Remembered(r, x)'
<1>1. PICK e \in entries : SameRule(e.rule, r) /\ e.expiresAt >= x
  BY Zenon DEF Remembered
<1>2. e.expiresAt \in Nat /\ now \in Nat
  BY Zenon DEF TypeOK, EntrySet
<1>3. PICK f \in entries' : SameRule(e.rule, f.rule) /\ f.expiresAt >= e.expiresAt
  BY <1>1, <1>2, LiveRuleKept
<1>4. SameRule(f.rule, r)
  BY <1>1, <1>3, Zenon DEF SameRule
<1>5. f.expiresAt \in Nat
  <2>1. CASE entries' \subseteq entries
    BY <2>1, Zenon DEF TypeOK, EntrySet
  <2>2. ASSUME NEW d \in Directions, NEW s \in RuleSet, fwd[d].t \in Nat,
               entries' = Added(s, fwd[d].t)
        PROVE  f.expiresAt \in Nat
    BY <2>2, AddedType, Zenon DEF EntrySet
  <2>3. QED
    BY <2>1, <2>2, EntriesChange, Zenon DEF Sweep
<1>6. f.expiresAt >= x
  BY <1>1, <1>2, <1>3, <1>5
<1>7. QED
  BY <1>4, <1>6, Zenon DEF Remembered, SameRule

\* A step that leaves a forwarder with its frame and its additions.
LEMMA LearnedKept ==
  ASSUME TypeOK, TimeInv, [Next]_vars, NEW c \in Directions, LearnedAt(c),
         fwd'[c].frame = fwd[c].frame, fwd'[c].since = fwd[c].since,
         fwd'[c].adds = fwd[c].adds, fwd'[c].lost = fwd[c].lost,
         fwd'[c].pc \in {"read", "drop", "respond"} \/
           fwd[c].pc \notin {"read", "drop", "respond"}
  PROVE  LearnedAt(c)'
<1>1. config' = config
  BY Zenon DEF Next, vars
<1>2. SUFFICES ASSUME NEW f \in FrameSet, fwd'[c].frame = f,
                      fwd'[c].pc \notin {"read", "drop", "respond"},
                      Classify(c, f) = "learn",
                      now' =< fwd[c].since + ClampTTL(f.dns.ttl),
                      NEW r \in RulesFor(f)
               PROVE  \/ r \in fwd[c].lost
                      \/ r \in fwd[c].adds
                      \/ Remembered(r, fwd[c].since + ClampTTL(f.dns.ttl))'
  BY <1>1, ConfigFixed DEF LearnedAt, Remembered, ClampTTL, SameRule
<1>3. /\ fwd[c].since \in Nat /\ now \in Nat /\ now' \in Nat /\ now =< now'
      /\ ClampTTL(f.dns.ttl) \in Nat
  BY <1>2, ClockForward, LearnableType, Zenon DEF TypeOK, ForwarderSet
<1>4. now =< fwd[c].since + ClampTTL(f.dns.ttl)
  BY <1>2, <1>3
<1>5. \/ r \in fwd[c].lost \/ r \in fwd[c].adds
      \/ Remembered(r, fwd[c].since + ClampTTL(f.dns.ttl))
  BY <1>2, <1>4, Zenon DEF LearnedAt
<1>6. CASE Remembered(r, fwd[c].since + ClampTTL(f.dns.ttl))
  <2>1. PICK x \in Nat : x = fwd[c].since + ClampTTL(f.dns.ttl)
    BY <1>3
  <2>2. Remembered(r, x)'
    BY <1>4, <1>6, <2>1, RememberedKept, Zenon
  <2>3. QED
    BY <2>1, <2>2, Zenon DEF Remembered
<1>7. QED
  BY <1>5, <1>6, Zenon

LEMMA InitLearn == Init => LearnInv
BY DEF Init, LearnInv, LearnedAt, Pending, Idle

LEMMA MoveLearn ==
  ASSUME TypeOK, TimeInv, LearnInv, [Next]_vars, NEW d \in Directions,
         NEW pc \in PCs \ {"read"}, NEW t \in Nat, GotoAt(d, pc, t),
         fwd[d].pc \notin {"read", "drop", "respond"},
         fwd[d].adds # {} => pc \in {"learn", "add"}
  PROVE  LearnInv'
<1>1. /\ fwd'[d].pc = pc
      /\ fwd'[d].frame = fwd[d].frame /\ fwd'[d].adds = fwd[d].adds
      /\ fwd'[d].since = fwd[d].since /\ fwd'[d].lost = fwd[d].lost
      /\ \A c \in Directions \ {d} : fwd'[c] = fwd[c]
  BY GotoFields, Zenon
<1>2. ASSUME NEW c \in Directions PROVE LearnedAt(c)'
  BY <1>1, LearnedKept, Zenon DEF LearnInv
<1>3. ASSUME NEW c \in Directions PROVE Pending(c)'
  BY <1>1, Zenon DEF LearnInv, Pending
<1>4. QED
  BY <1>2, <1>3, Zenon DEF LearnInv

LEMMA ReceiveLearn ==
  ASSUME TypeOK, TimeInv, LearnInv, Next, NEW d \in Directions, Receive(d)
  PROVE  LearnInv'
<1>1. PICK f \in Frames[d] :
        /\ fwd'[d].pc = Classify(d, f) /\ fwd'[d].frame = f
        /\ fwd'[d].adds = IF Classify(d, f) = "learn" THEN RulesFor(f) ELSE {}
  BY DEF Receive, TypeOK
<1>2. \A c \in Directions \ {d} : fwd'[c] = fwd[c]
  BY Zenon DEF Receive, TypeOK
<1>3. config' = config
  BY Zenon DEF Next
<1>4. LearnedAt(d)'
  BY <1>1, <1>3, ConfigFixed, Zenon DEF LearnedAt
<1>5. Pending(d)'
  BY <1>1, Zenon DEF Pending
<1>6. ASSUME NEW c \in Directions, c # d PROVE LearnedAt(c)' /\ Pending(c)'
  <2>1. fwd'[c] = fwd[c] /\ LearnedAt(c) /\ Pending(c)
    BY <1>2, <1>6, Zenon DEF LearnInv
  <2>2. LearnedAt(c)'
    BY <2>1, LearnedKept, Zenon
  <2>3. QED
    BY <2>1, <2>2, Zenon DEF Pending
<1>7. QED
  BY <1>4, <1>5, <1>6, Zenon DEF LearnInv

LEMMA AddLearn ==
  ASSUME TypeOK, PathInv, TimeInv, LearnInv, Next, NEW d \in Directions, Add(d)
  PROVE  LearnInv'
<1>1. PICK r \in fwd[d].adds : /\ entries' = Added(r, fwd[d].t)
                                /\ fwd' = [fwd EXCEPT ![d] = AfterAdd(d, r)]
  BY Zenon DEF Add
<1>2. fwd[d].pc = "add" /\ now' = now /\ config' = config
  BY Zenon DEF Add, Next
<1>3. /\ fwd'[d] = AfterAdd(d, r)
      /\ \A c \in Directions \ {d} : fwd'[c] = fwd[c]
  BY <1>1, Zenon DEF TypeOK
<1>4. /\ fwd'[d].frame = fwd[d].frame /\ fwd'[d].since = fwd[d].since
      /\ fwd'[d].adds = fwd[d].adds \ {r} /\ fwd[d].lost \subseteq fwd'[d].lost
      /\ Known(r) = {} /\ AtCapacity => r \in fwd'[d].lost
  BY <1>2, <1>3, AfterAddType
<1>5. r \in RuleSet /\ fwd[d].t \in Nat /\ fwd[d].since \in Nat
  BY Zenon DEF TypeOK, ForwarderSet
<1>6. LearnedAt(d)'
  <2>1. SUFFICES ASSUME NEW f \in FrameSet, fwd[d].frame = f, Classify(d, f) = "learn",
                        now =< fwd[d].since + ClampTTL(f.dns.ttl),
                        NEW s \in RulesFor(f), s \notin fwd'[d].lost, s \notin fwd'[d].adds
                 PROVE  \E e \in entries' : /\ SameRule(e.rule, s)
                                            /\ e.expiresAt >= fwd[d].since + ClampTTL(f.dns.ttl)
    BY <1>2, <1>4, ConfigFixed DEF LearnedAt, Remembered, ClampTTL, SameRule
  <2>2. PICK x \in Nat : x = fwd[d].since + ClampTTL(f.dns.ttl)
    BY <1>5, <2>1, LearnableType, SMTT(30)
  <2>3. CASE s = r
    <3>1. x =< fwd[d].t
      BY <1>2, <2>1, <2>2, Zenon DEF TimeInv
    <3>2. PICK e \in Added(r, fwd[d].t) : SameRule(e.rule, r) /\ e.expiresAt >= fwd[d].t
      BY <1>4, <1>5, <2>1, <2>3, AddedKeeps, Zenon
    <3>3. e.expiresAt \in Nat
      BY <1>5, AddedType, Zenon DEF EntrySet
    <3>4. QED
      BY <1>1, <1>5, <2>2, <2>3, <3>1, <3>2, <3>3, SMTT(30)
  <2>4. CASE s # r
    <3>1. Remembered(s, x)
      BY <1>2, <1>4, <2>1, <2>2, <2>4, Zenon DEF LearnInv, LearnedAt
    <3>2. Remembered(s, x)'
      BY <2>1, <2>2, <3>1, RememberedKept, Zenon
    <3>3. QED
      BY <2>2, <3>2, Zenon DEF Remembered, SameRule
  <2>5. QED
    BY <2>3, <2>4, Zenon
<1>7. Pending(d)'
  <2>1. \/ AfterAdd(d, r).pc = "learn"
        \/ AfterAdd(d, r).pc = "conntrack" /\ AfterAdd(d, r).adds = {}
    BY <1>2, AfterAddType, Zenon
  <2>2. QED
    BY <1>3, <2>1, Zenon DEF Pending
<1>8. ASSUME NEW c \in Directions, c # d PROVE LearnedAt(c)' /\ Pending(c)'
  <2>1. fwd'[c] = fwd[c] /\ LearnedAt(c) /\ Pending(c)
    BY <1>3, <1>8, Zenon DEF LearnInv
  <2>2. LearnedAt(c)'
    BY <2>1, LearnedKept, Zenon
  <2>3. QED
    BY <2>1, <2>2, Zenon DEF Pending
<1>9. QED
  BY <1>6, <1>7, <1>8, Zenon DEF LearnInv

LEMMA StepLearn == TypeOK /\ PathInv /\ TimeInv /\ LearnInv /\ [Next]_vars => LearnInv'
<1> SUFFICES ASSUME TypeOK, PathInv, TimeInv, LearnInv, [Next]_vars PROVE LearnInv'
  BY Zenon
<1>0. now \in Nat /\ \A d \in Directions : Pending(d)
  BY Zenon DEF TypeOK, LearnInv
<1>1. ASSUME NEW d \in Directions, Receive(d), Next PROVE LearnInv'
  BY <1>1, ReceiveLearn, Zenon
<1>2. ASSUME NEW d \in Directions, ReadAddClock(d) PROVE LearnInv'
  <2>1. now + ClampTTL(fwd[d].frame.dns.ttl) \in Nat
    BY <1>0, <1>2, LearnType DEF ReadAddClock
  <2>2. QED
    BY <1>2, <2>1, MoveLearn, Zenon DEF ReadAddClock, PCs
<1>3. ASSUME NEW d \in Directions, Add(d), Next PROVE LearnInv'
  BY <1>3, AddLearn, Zenon
<1>4. ASSUME NEW d \in Directions, LookupFlow(d) PROVE LearnInv'
  <2>1. Reverse(hdr(d)) \in DOMAIN flows => flows[Reverse(hdr(d))] \in Nat
    BY Zenon DEF TypeOK
  <2>2. QED
    BY <1>0, <1>4, <2>1, MoveLearn, Zenon DEF LookupFlow, Goto, PCs, Pending
<1>5. ASSUME NEW d \in Directions, CompareAge(d) \/ Track(d) \/ MatchDynamic(d)
      PROVE  LearnInv'
  BY <1>0, <1>5, MoveLearn, Zenon
     DEF CompareAge, Track, MatchDynamic, ByRule, ByDefault, Goto, PCs, Pending
<1>6. ASSUME NEW d \in Directions, WalkRules(d) PROVE LearnInv'
  BY <1>0, <1>6, MoveLearn, Zenon DEF WalkRules, ByRule, ByDefault, Goto, PCs, Pending
<1>7. ASSUME NEW d \in Directions, Finish(d) PROVE LearnInv'
  <2>1. fwd'[d] = Idle /\ \A c \in Directions \ {d} : fwd'[c] = fwd[c]
    BY <1>7, Zenon DEF Finish, TypeOK
  <2>2. LearnedAt(d)' /\ Pending(d)'
    BY <2>1 DEF LearnedAt, Pending, Idle
  <2>3. ASSUME NEW c \in Directions, c # d PROVE LearnedAt(c)' /\ Pending(c)'
    <3>1. fwd'[c] = fwd[c] /\ LearnedAt(c) /\ Pending(c)
      BY <2>1, <2>3, Zenon DEF LearnInv
    <3>2. LearnedAt(c)'
      BY <3>1, LearnedKept, Zenon
    <3>3. QED
      BY <3>1, <3>2, Zenon DEF Pending
  <2>4. QED
    BY <2>2, <2>3, Zenon DEF LearnInv
<1>8. CASE UNCHANGED fwd
  <2>1. ASSUME NEW c \in Directions PROVE LearnedAt(c)' /\ Pending(c)'
    <3>1. fwd'[c] = fwd[c] /\ LearnedAt(c) /\ Pending(c)
      BY <1>8, <2>1, Zenon DEF LearnInv
    <3>2. LearnedAt(c)'
      BY <3>1, LearnedKept, Zenon
    <3>3. QED
      BY <3>1, <3>2, Zenon DEF Pending
  <2>2. QED
    BY <2>1, Zenon DEF LearnInv
<1>9. Expiry \/ Tick \/ UNCHANGED vars => UNCHANGED fwd
  BY Zenon DEF Expiry, ReadSweepClock, sweep, Sweep, Tick, vars
<1>10. QED
  BY <1>1, <1>2, <1>3, <1>4, <1>5, <1>6, <1>7, <1>8, <1>9, Zenon DEF Next, Forward

\* The guest never sees an answer before the firewall has learned from it.
THEOREM Learned == Spec => []LearnedBeforeDelivered
<1>1. ASSUME TypeOK, LearnInv PROVE LearnedBeforeDelivered
  <2>1. SUFFICES ASSUME fwd[Ingress].pc = "write",
                        Classify(Ingress, fwd[Ingress].frame) = "learn",
                        now =< fwd[Ingress].since + ClampTTL(fwd[Ingress].frame.dns.ttl),
                        NEW r \in RulesFor(fwd[Ingress].frame) \ fwd[Ingress].lost
                 PROVE  \E e \in entries : SameRule(e.rule, r) /\ now =< e.expiresAt
    BY Zenon DEF LearnedBeforeDelivered
  <2>2. /\ fwd[Ingress].frame \in FrameSet /\ fwd[Ingress].since \in Nat /\ now \in Nat
        /\ fwd[Ingress].adds = {}
    BY <1>1, <2>1, Zenon DEF TypeOK, ForwarderSet, Directions, LearnInv, Pending
  <2>3. PICK x \in Nat : x = fwd[Ingress].since + ClampTTL(fwd[Ingress].frame.dns.ttl)
    BY <1>1, <2>1, <2>2, LearnableType DEF Directions
  <2>4. Remembered(r, x)
    BY <1>1, <2>1, <2>2, <2>3, Zenon DEF LearnInv, LearnedAt, Directions
  <2>5. \A e \in entries : e.expiresAt \in Nat
    BY <1>1, Zenon DEF TypeOK, EntrySet
  <2>6. QED
    BY <2>1, <2>2, <2>3, <2>4, <2>5 DEF Remembered
<1>2. QED
  BY <1>1, InitLearn, StepLearn, TimeInvariance, PTL DEF Spec

-----------------------------------------------------------------------------
(* Established conversations.  While no time passes since its frame was    *)
(* received, a live conversation stays established and its frame is on the *)
(* way to Track: it never comes to the rules.                              *)

OnCourse(d) ==
  /\ fwd[d].pc \notin {"read", "rules", "match"}
  /\ fwd[d].pc = "compare" => now =< fwd[d].t + flowTTL(hdr(d).proto)
  /\ fwd[d].pc = "drop" => Classify(d, fwd[d].frame) = "drop"

LiveAt(d) ==
  fwd[d].live /\ fwd[d].since = now => Established(hdr(d)) /\ OnCourse(d)

LiveInv == \A d \in Directions : LiveAt(d)

\* Neither Track nor sweep ends a conversation that is established.
LEMMA EstablishedKept ==
  ASSUME TypeOK, TimeInv, [Next]_vars, now' = now, NEW h \in Headers, Established(h)
  PROVE  Established(h)'
<1> DEFINE k == Reverse(h)
<1>1. /\ k \in DOMAIN flows /\ flows[k] \in Nat /\ now \in Nat /\ sweeper.t \in Nat
      /\ flowTTL(h.proto) \in Nat /\ k.proto = h.proto
      /\ now =< flows[k] + flowTTL(h.proto) /\ sweeper.t =< now
  BY flowTTLType, Zenon DEF Established, TypeOK, TimeInv, Reverse
<1> HIDE DEF k
<1>2. SUFFICES k \in DOMAIN flows' /\ now =< flows'[k] + flowTTL(h.proto)
  BY Zenon DEF Established, k, Reverse, flowTTL
<1>3. CASE UNCHANGED flows
  BY <1>1, <1>3, Zenon
<1>4. ASSUME NEW d \in Directions, Track(d)
      PROVE  k \in DOMAIN flows' /\ now =< flows'[k] + flowTTL(h.proto)
  <2>1. k \in DOMAIN flows' /\ flows'[k] \in {now, flows[k]}
    BY <1>1, <1>4, Zenon DEF Track
  <2>2. QED
    BY <1>1, <2>1
<1>5. CASE sweep
  <2>1. ~ExpiredFlow(k, sweeper.t)
    BY <1>1 DEF ExpiredFlow
  <2>2. k \in DOMAIN flows' /\ flows'[k] = flows[k]
    BY <1>1, <1>5, <2>1, Zenon DEF sweep
  <2>3. QED
    BY <1>1, <2>2, Zenon
<1>6. QED
  BY <1>3, <1>4, <1>5, Zenon
  DEF Next, vars, Forward, Receive, ReadAddClock, Add, LookupFlow, CompareAge, WalkRules,
      MatchDynamic, Finish, Expiry, ReadSweepClock, Sweep, Tick

\* A forwarder that keeps its frame has only to stay on course.
LEMMA CourseKept ==
  ASSUME TypeOK, TimeInv, LiveInv, [Next]_vars, NEW c \in Directions,
         fwd'[c].frame = fwd[c].frame, fwd'[c].since = fwd[c].since,
         fwd'[c].live = fwd[c].live,
         now' = now /\ Established(hdr(c)) /\ OnCourse(c) => OnCourse(c)'
  PROVE  LiveAt(c)'
<1> SUFFICES ASSUME fwd[c].live, fwd[c].since = now'
             PROVE  Established(hdr(c))' /\ OnCourse(c)'
  BY Zenon DEF LiveAt
<1>1. now' = now
  BY ClockForward DEF TypeOK, TimeInv, ForwarderSet
<1>2. Established(hdr(c)) /\ OnCourse(c)
  BY <1>1, Zenon DEF LiveInv, LiveAt
<1>3. hdr(c) \in Headers
  BY <1>2, HeaderType, Zenon DEF OnCourse
<1>4. PICK h \in Headers : h = hdr(c) /\ h = hdr(c)'
  BY <1>3, Zenon DEF hdr
<1>5. Established(h)'
  BY <1>1, <1>2, <1>4, EstablishedKept, Zenon
<1>6. QED
  BY <1>1, <1>2, <1>4, <1>5, Zenon DEF Established

LEMMA InitLive == Init => LiveInv
BY DEF Init, LiveInv, LiveAt, Idle

LEMMA StepLive == TypeOK /\ PathInv /\ TimeInv /\ LiveInv /\ [Next]_vars => LiveInv'
<1> SUFFICES ASSUME TypeOK, PathInv, TimeInv, LiveInv, [Next]_vars PROVE LiveInv'
  BY Zenon
<1>0. config' = config
  BY Zenon DEF Next, vars
<1>1. ASSUME NEW c \in Directions, fwd'[c] = fwd[c] PROVE LiveAt(c)'
  BY <1>0, <1>1, ConfigFixed, CourseKept, Zenon DEF OnCourse, hdr, flowTTL
<1>2. ASSUME NEW d \in Directions, NEW pc \in PCs \ {"read"}, NEW t \in Nat,
             fwd[d].pc # "read", GotoAt(d, pc, t),
             Established(hdr(d)) /\ OnCourse(d) =>
               /\ pc \notin {"rules", "match", "drop"}
               /\ pc = "compare" => now =< t + flowTTL(hdr(d).proto)
      PROVE  LiveInv'
  <2>1. /\ fwd'[d].pc = pc /\ fwd'[d].t = t /\ fwd'[d].frame = fwd[d].frame
        /\ fwd'[d].since = fwd[d].since /\ fwd'[d].live = fwd[d].live
        /\ \A c \in Directions \ {d} : fwd'[c] = fwd[c]
    BY <1>2, GotoFields, Zenon
  <2>2. now' = now /\ Established(hdr(d)) /\ OnCourse(d) => OnCourse(d)'
    BY <1>2, <2>1, Zenon DEF OnCourse, hdr, flowTTL
  <2>3. LiveAt(d)'
    BY <2>1, <2>2, CourseKept, Zenon
  <2>4. QED
    BY <1>1, <2>1, <2>3, Zenon DEF LiveInv
<1>3. ASSUME NEW d \in Directions, Receive(d) PROVE LiveInv'
  <2>1. PICK f \in Frames[d] :
          /\ fwd'[d].pc = Classify(d, f) /\ fwd'[d].frame = f
          /\ fwd'[d].live = (f.kind = "ipv4" /\ Established(f.hdr))
    BY <1>3 DEF Receive, TypeOK
  <2>2. \A c \in Directions \ {d} : fwd'[c] = fwd[c]
    BY <1>3, Zenon DEF Receive, TypeOK
  <2>3. f \in FrameSet
    BY ConfigType, Zenon DEF TypeOK
  <2>4. OnCourse(d)'
    BY <1>0, <2>1, <2>3, ClassifyType, ConfigFixed DEF OnCourse
  <2>5. fwd'[d].live => Established(hdr(d))'
    BY <1>3, <2>1, Zenon DEF Receive, Established, hdr, Reverse, flowTTL
  <2>6. LiveAt(d)'
    BY <2>4, <2>5, Zenon DEF LiveAt
  <2>7. QED
    BY <1>1, <2>2, <2>6, Zenon DEF LiveInv
<1>4. ASSUME NEW d \in Directions, ReadAddClock(d) PROVE LiveInv'
  <2>1. now + ClampTTL(fwd[d].frame.dns.ttl) \in Nat
    BY <1>4, LearnType DEF ReadAddClock, TypeOK
  <2>2. QED
    BY <1>2, <1>4, <2>1, Zenon DEF ReadAddClock, PCs
<1>5. ASSUME NEW d \in Directions, Add(d) PROVE LiveInv'
  <2>1. PICK r \in fwd[d].adds : fwd' = [fwd EXCEPT ![d] = AfterAdd(d, r)]
    BY <1>5, Zenon DEF Add
  <2>2. /\ fwd'[d].pc \in {"conntrack", "learn"} /\ fwd'[d].frame = fwd[d].frame
        /\ fwd'[d].since = fwd[d].since /\ fwd'[d].live = fwd[d].live
        /\ \A c \in Directions \ {d} : fwd'[c] = fwd[c]
    BY <1>5, <2>1, AfterAddType DEF Add, TypeOK
  <2>3. OnCourse(d)'
    BY <2>2, Zenon DEF OnCourse
  <2>4. LiveAt(d)'
    BY <2>2, <2>3, CourseKept, Zenon
  <2>5. QED
    BY <1>1, <2>2, <2>4, Zenon DEF LiveInv
<1>6. ASSUME NEW d \in Directions, LookupFlow(d) PROVE LiveInv'
  <2>1. CASE Reverse(hdr(d)) \in DOMAIN flows
    <3>1. flows[Reverse(hdr(d))] \in Nat
      BY <2>1, Zenon DEF TypeOK
    <3>2. QED
      BY <1>2, <1>6, <2>1, <3>1, Zenon DEF LookupFlow, Established, PCs
  <2>2. CASE Reverse(hdr(d)) \notin DOMAIN flows
    BY <1>2, <1>6, <2>2, Zenon DEF LookupFlow, Goto, Established, PCs
  <2>3. QED
    BY <2>1, <2>2, Zenon
<1>7. ASSUME NEW d \in Directions, CompareAge(d) PROVE LiveInv'
  BY <1>2, <1>7, Zenon DEF CompareAge, Goto, OnCourse, PCs
<1>8. ASSUME NEW d \in Directions, WalkRules(d) PROVE LiveInv'
  <2>1. PICK pc \in {"track", "drop", "match", "write"}, t \in Nat : GotoAt(d, pc, t)
    BY <1>8, Zenon DEF WalkRules, ByRule, ByDefault, Goto, TypeOK
  <2>2. QED
    BY <1>2, <1>8, <2>1, Zenon DEF WalkRules, OnCourse, PCs
<1>9. ASSUME NEW d \in Directions, MatchDynamic(d) PROVE LiveInv'
  <2>1. PICK pc \in {"track", "drop", "write"} : GotoAt(d, pc, 0)
    BY <1>9, Zenon DEF MatchDynamic, ByRule, ByDefault, Goto
  <2>2. QED
    BY <1>2, <1>9, <2>1, Zenon DEF MatchDynamic, OnCourse, PCs
<1>10. ASSUME NEW d \in Directions, Track(d) PROVE LiveInv'
  BY <1>2, <1>10, Zenon DEF Track, Goto, PCs
<1>11. ASSUME NEW d \in Directions, Finish(d) PROVE LiveInv'
  <2>1. fwd'[d] = Idle /\ \A c \in Directions \ {d} : fwd'[c] = fwd[c]
    BY <1>11, Zenon DEF Finish, TypeOK
  <2>2. LiveAt(d)'
    BY <2>1 DEF LiveAt, Idle
  <2>3. QED
    BY <1>1, <2>1, <2>2, Zenon DEF LiveInv
<1>12. CASE UNCHANGED fwd
  BY <1>1, <1>12, Zenon DEF LiveInv
<1>13. Expiry \/ Tick \/ UNCHANGED vars => UNCHANGED fwd
  BY Zenon DEF Expiry, ReadSweepClock, sweep, Sweep, Tick, vars
<1>14. QED
  BY <1>3, <1>4, <1>5, <1>6, <1>7, <1>8, <1>9, <1>10, <1>11, <1>12, <1>13, Zenon
  DEF Next, Forward

\* A frame of a conversation that was established when it was received is not
\* dropped by the filter while no time passes.
THEOREM EstablishedPasses == Spec => []EstablishedNotDropped
<1>1. LiveInv => EstablishedNotDropped
  BY Zenon DEF LiveInv, LiveAt, OnCourse, EstablishedNotDropped
<1>2. QED
  BY <1>1, InitLive, StepLive, TimeInvariance, PTL DEF Spec
=============================================================================
