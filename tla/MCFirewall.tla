----------------------------- MODULE MCFirewall -----------------------------
(***************************************************************************)
(* Instances of Firewall: the egress-policy configuration (the implicit    *)
(* rules of buildEgressRelay for one forwarded port, and one allowed host) *)
(* with several sets of frames, and a filter with static rules only.       *)
(***************************************************************************)
EXTENDS Firewall, TLC

guest == "guest"
gw == "gw"
web == "web"
cdn == "cdn"
MCIPs == {guest, gw, web, cdn}
good == "good"
bad == "bad"

Rule(dir, action, proto, src, dst, sport, dport) ==
  [dir |-> dir, action |-> action, proto |-> proto, src |-> src, dst |-> dst,
   sport |-> sport, dport |-> dport]

ImplicitRules == << Rule(Egress, "allow", UDP, {}, {gw}, 0, 53),
                    Rule(Egress, "allow", UDP, {}, {gw}, 0, 67),
                    Rule(Ingress, "allow", UDP, {gw}, {}, 67, 0),
                    Rule(Ingress, "allow", TCP, {}, {}, 0, 22) >>

\* The first rule shadows part of the second; the third lets a port forward in.
StaticRules == << Rule(Egress, "deny", TCP, {}, {cdn}, 0, 443),
                  Rule(Egress, "allow", TCP, {}, {}, 0, 443),
                  Rule(Ingress, "allow", TCP, {}, {}, 0, 22),
                  Rule(Ingress, "deny", 0, {}, {}, 0, 0) >>

OneHost == << [names |-> {good}, ports |-> {443}, proto |-> TCP] >>

Packet(proto, src, sport, dst, dport, dns) ==
  [kind |-> "ipv4", dns |-> dns,
   hdr |-> [proto |-> proto, src |-> src, dst |-> dst, sport |-> sport, dport |-> dport]]
NotIP(kind) ==
  [kind |-> kind, dns |-> NoDNS,
   hdr |-> [proto |-> 0, src |-> guest, dst |-> guest, sport |-> 0, dport |-> 0]]
Query(name) == [qname |-> name, ips |-> {}, ttl |-> 0]
Answer(name, ips, ttl) ==
  Packet(UDP, gw, 53, guest, 40, [qname |-> name, ips |-> ips, ttl |-> ttl])

ToWeb == Packet(TCP, guest, 41, web, 443, NoDNS)
FromWeb == Packet(TCP, web, 443, guest, 41, NoDNS)
ToCdn == Packet(TCP, guest, 41, cdn, 443, NoDNS)
SshIn == Packet(TCP, gw, 42, guest, 22, NoDNS)
SshOut == Packet(TCP, guest, 22, gw, 42, NoDNS)
Ask(name) == Packet(UDP, guest, 40, gw, 53, Query(name))

\* The policy run: a name is asked for, resolved, and its address contacted.
Egressing ==
  [rules |-> ImplicitRules, default |-> "deny", hook |-> TRUE, policy |-> OneHost,
   frames |-> (Egress :> {Ask(good), Ask(bad), ToWeb}) @@
              (Ingress :> {Answer(good, {web, cdn}, 3)})]
\* Answers with different TTLs and addresses compete for the dynamic rules.
Learning ==
  [Egressing EXCEPT !.frames = (Egress :> {ToWeb}) @@
              (Ingress :> {Answer(good, {web}, 0), Answer(good, {web, cdn}, 3),
                           Answer(bad, {cdn}, 3)})]
\* A filter with static rules only and default Allow.
Static ==
  [rules |-> StaticRules, default |-> "allow", hook |-> FALSE, policy |-> <<>>,
   frames |-> (Egress :> {ToWeb, ToCdn, SshOut, NotIP("runt")}) @@
              (Ingress :> {FromWeb, SshIn, NotIP("arp"), NotIP("other")})]

MCConfigs == {Egressing, Static}
LearningConfigs == {Learning}
=============================================================================
