------------------------------ MODULE Outbound ------------------------------
(***************************************************************************)
(* What the server does with one request (a TCP stream or a UDP session)   *)
(* between the request hook and the first byte it sends: the Sniffer may   *)
(* rewrite the host, the ACL selects an outbound by the host and by what   *)
(* it resolves to, and the outbound resolves again and dials.              *)
(*                                                                         *)
(* A matcher is the set of hosts and the set of IP addresses it matches:   *)
(* Exact, Suffix, Wildcard and GeoSite have only hosts, Ip, Cidr and GeoIp *)
(* only addresses.  `zone' is what the DNS answers now: per name and       *)
(* family at most one address, or an alias.  Any lookup may time out.      *)
(***************************************************************************)
EXTENDS Integers, Sequences, FiniteSetsExt

CONSTANTS
  Addr4, Addr6,  \* IP addresses
  Destinations,  \* the destinations a client may ask for, [host, port]
  Policies,      \* [rules, default, hook, direct, proxy]: the configuration
  Zones,         \* the contents the DNS may have
  MaxHops,       \* CNAMEs followed at most; 16 in the code
  MaxSent        \* bound on the datagrams of the session

VARIABLES
  policy, zone,
  up,            \* the addresses that accept connections
  traffic,       \* "tcp" or "udp"
  stage,         \* where the request is
  dest,          \* the destination being handled
  choice,        \* what the ACL decided for it: outbound, target and the addresses it saw
  dialing,       \* TCP: the addresses being dialled, and those resolved
  socket,        \* UDP: the outbound and the families of the session's socket
  packets,       \* datagrams sent so far, for the bound
  reached        \* what the server connected or sent to

outVars == <<policy, zone, up, traffic, stage, dest, choice, dialing, socket, packets, reached>>

Addr == Addr4 \union Addr6
Family(a) == IF a \in Addr4 THEN 4 ELSE 6
DnsNames == UNION {DOMAIN z : z \in Zones}
Outbounds == {"direct", "http", "socks5", "reject"}

ASSUME OutAssumption ==
  /\ Addr4 \intersect Addr6 = {} /\ MaxHops \in Nat
  /\ \A d \in Destinations : d \in [host : Addr \union DnsNames, port : Int]
  /\ \A p \in Policies :
       /\ p.default \in Outbounds /\ DOMAIN p.rules \subseteq Nat
       /\ \A i \in DOMAIN p.rules : p.rules[i].outbound \in Outbounds /\ p.rules[i].hijack \subseteq Addr
  /\ \A z \in Zones : DOMAIN z = DnsNames
  /\ \A z \in Zones, n \in DnsNames :
       /\ z[n].ips \subseteq Addr /\ z[n].alias \subseteq DnsNames
       /\ \A a, b \in z[n].ips : Family(a) = Family(b) => a = b

(* exchange: the queries for the two families go out side by side, over    *)
(* UDP, TCP, TLS or HTTPS; each is answered, or refused, cut off or late.  *)
(* A member is the set of families without an answer.                      *)
Unanswered == SUBSET {4, 6}

(* lookup: the aliases of a name are followed MaxHops times. *)
Lookup(name, family) ==
  LET answer == [n \in DOMAIN zone |-> {a \in zone[n].ips : Family(a) = family}]
      chase[k \in 0 .. MaxHops] ==
        IF k = 0 THEN [n \in DOMAIN zone |-> {}]
        ELSE [n \in DOMAIN zone |->
               IF answer[n] # {} \/ zone[n].alias = {} THEN answer[n]
               ELSE chase[k - 1][CHOOSE m \in zone[n].alias : TRUE]]
  IN chase[MaxHops][name]

(* Resolver::resolve: a literal address is itself, and a family whose      *)
(* lookup fails has no address.                                            *)
Resolve(host, lost) ==
  IF host \in Addr THEN {host}
  ELSE UNION {Lookup(host, family) : family \in {4, 6} \ lost}

(* AclOutbound::select: the first rule that fits decides.  A rule whose    *)
(* range starts at port 0 fits every port.                                 *)
Fits(rule, d, protocol, ips) ==
  /\ rule.protocol \in {"both", protocol}
  /\ rule.start = 0 \/ d.port \in rule.start .. rule.end
  /\ d.host \in rule.hosts \/ ips \intersect rule.ips # {}

Decide(d, protocol, ips) ==
  LET fit == {i \in DOMAIN policy.rules : Fits(policy.rules[i], d, protocol, ips)} IN
  IF fit = {} THEN [outbound |-> policy.default, target |-> d, seen |-> ips]
  ELSE LET rule == policy.rules[Min(fit)] IN
       [outbound |-> rule.outbound, seen |-> ips,
        target |-> IF rule.hijack = {} THEN d
                   ELSE [d EXCEPT !.host = CHOOSE a \in rule.hijack : TRUE]]

(* Resolved: an Option for each family. *)
Slot(ips) == IF ips = {} THEN <<>> ELSE <<CHOOSE a \in ips : TRUE>>

(* The addresses a direct outbound would use, best first. *)
Preferred(ips) ==
  LET four == Slot(ips \intersect Addr4)
      six == Slot(ips \intersect Addr6) IN
  CASE policy.direct.mode \in {"auto", "46"} -> four \o six
    [] policy.direct.mode = "64" -> six \o four
    [] policy.direct.mode = "4" -> four
    [] policy.direct.mode = "6" -> six

OutInit ==
  /\ policy \in Policies /\ zone \in Zones /\ up \in SUBSET Addr
  /\ traffic \in {"tcp", "udp"} /\ dest \in Destinations
  /\ stage = "hook" /\ choice = [outbound |-> "none", target |-> dest, seen |-> {}]
  /\ dialing = [now |-> {}, all |-> {}]
  /\ socket = [outbound |-> "none", families |-> {}]
  /\ packets = 1 /\ reached = {}

Become(where) ==
  /\ stage' = where
  /\ UNCHANGED <<policy, zone, up, traffic, dest, choice, dialing, socket, packets, reached>>

(* A connection or datagram leaves for ip (an address, or "proxy"). *)
Reach(ip, ips) ==
  reached' = reached \union
    {[dest |-> dest, choice |-> choice, ip |-> ip, used |-> ips, packet |-> packets]}

(* The DNS changes between two lookups. *)
DnsChanges ==
  /\ stage \notin {"hook", "failed", "connected"}
  /\ zone' \in Zones \ {zone}
  /\ UNCHANGED <<policy, up, traffic, stage, dest, choice, dialing, socket, packets, reached>>

-----------------------------------------------------------------------------
(* The Sniffer: check, then the host found in the first bytes, if any.  A  *)
(* UDP session is only sniffed for its first datagram.                     *)
SniffChecks ==
  /\ policy.hook.enable
  /\ policy.hook.rewrite \/ dest.host \in Addr
  /\ dest.port \in policy.hook.ports

(* rewrite_host keeps the port. *)
Rewritten(found) == IF found = {} THEN dest ELSE [dest EXCEPT !.host = CHOOSE n \in found : TRUE]

(* What a parser makes of the first bytes: a host name or nothing. *)
Findings == {found \in SUBSET DOMAIN zone : Cardinality(found) <= 1}

(* sniff_tcp: the Host of an HTTP request or the SNI of a TLS ClientHello. *)
SniffTcp ==
  /\ stage = "hook" /\ traffic = "tcp" /\ stage' = "select"
  /\ \E found \in Findings : (found # {} => SniffChecks) /\ dest' = Rewritten(found)
  /\ UNCHANGED <<policy, zone, up, traffic, choice, dialing, socket, packets, reached>>

(* quic_sni: the SNI of a QUIC Initial packet. *)
SniffUdp ==
  /\ stage = "hook" /\ traffic = "udp" /\ stage' = "select"
  /\ \E found \in Findings : (found # {} => SniffChecks) /\ dest' = Rewritten(found)
  /\ UNCHANGED <<policy, zone, up, traffic, choice, dialing, socket, packets, reached>>

(* AclOutbound::tcp and ::udp, up to the outbound it selects: Reject and   *)
(* UDP over HTTP fail here.                                                *)
Select ==
  /\ stage = "select"
  /\ \E lost \in Unanswered :
       LET made == Decide(dest, traffic, Resolve(dest.host, lost)) IN
       /\ choice' = made
       /\ stage' = CASE made.outbound = "reject" -> "failed"
                  [] made.outbound = "http" /\ traffic = "udp" -> "failed"
                  [] made.outbound = "http" /\ traffic = "tcp" -> "httpConnect"
                  [] made.outbound = "socks5" -> "proxyDial"
                  [] made.outbound = "direct" -> traffic
  /\ UNCHANGED <<policy, zone, up, traffic, dest, dialing, socket, packets, reached>>

-----------------------------------------------------------------------------
(* ConfigurableDirect::tcp.  Auto dials both families at once. *)
DirectTcp ==
  /\ stage = "tcp"
  /\ \E lost \in Unanswered :
       LET ips == Resolve(choice.target.host, lost)
           wanted == Preferred(ips)
           race == policy.direct.mode = "auto" /\ Len(wanted) = 2 IN
       /\ stage' = IF wanted = <<>> THEN "failed" ELSE "dialing"
       /\ dialing' = [all |-> ips,
                      now |-> {wanted[i] : i \in {j \in DOMAIN wanted : race \/ j = 1}}]
  /\ UNCHANGED <<policy, zone, up, traffic, dest, choice, socket, packets, reached>>

(* Mutant: the first dial of the race to end decides. *)
DialEndsRace(a) ==
  /\ stage = "dialing" /\ a \in dialing.now
  /\ \/ /\ a \in up \/ policy.direct.fastOpen
        /\ stage' = "connected" /\ Reach(a, dialing.all)
        /\ dialing' = [dialing EXCEPT !.now = {}]
     \/ /\ a \notin up
        /\ dialing' = [dialing EXCEPT !.now = {}]
        /\ stage' = "failed"
        /\ UNCHANGED reached
  /\ UNCHANGED <<policy, zone, up, traffic, dest, choice, socket, packets>>

(* One dial of the race ends: a stream ends the race and drops the other   *)
(* dial, an error leaves it.  TCP Fast Open returns a stream before the    *)
(* peer has answered.                                                      *)
DialEnds(a) ==
  /\ stage = "dialing" /\ a \in dialing.now
  /\ \/ /\ a \in up \/ policy.direct.fastOpen
        /\ stage' = "connected" /\ Reach(a, dialing.all)
        /\ dialing' = [dialing EXCEPT !.now = {}]
     \/ /\ a \notin up
        /\ dialing' = [dialing EXCEPT !.now = @ \ {a}]
        /\ stage' = IF dialing.now = {a} THEN "failed" ELSE stage
        /\ UNCHANGED reached
  /\ UNCHANGED <<policy, zone, up, traffic, dest, choice, socket, packets>>

(* ConfigurableDirect::udp: with a source address configured the family of *)
(* the first target is the only one, and a socket that fails to bind is    *)
(* forgiven unless its address was configured.                             *)
DirectUdp ==
  /\ stage = "udp"
  /\ \E lost \in Unanswered, broken \in SUBSET {4, 6} :
       LET ips == Resolve(choice.target.host, lost)
           wanted == Preferred(ips)
           bound == policy.direct.bind # {}
           mode == policy.direct.mode
           want == (CASE mode = "4" -> {4} [] mode = "6" -> {6} [] OTHER -> {4, 6})
                     \intersect IF bound /\ wanted # <<>> THEN {Family(wanted[1])} ELSE {4, 6}
           open == want \ broken
           fine == /\ ips # {} /\ (bound => wanted # <<>>) /\ open # {}
                   /\ want \intersect broken \intersect policy.direct.bind = {} IN
       /\ stage' = IF fine THEN "first" ELSE "failed"
       /\ socket' = IF fine THEN [outbound |-> "direct", families |-> open] ELSE socket
  /\ UNCHANGED <<policy, zone, up, traffic, dest, choice, dialing, packets, reached>>

(* HttpConnectOutbound::connect: the dial, the TLS handshake of an HTTPS   *)
(* proxy and the CONNECT request; each fails, times out after ten seconds, *)
(* or goes on.                                                             *)
HttpConnect ==
  /\ stage = "httpConnect"
  /\ \/ Become("failed")
     \/ /\ stage' = "connected" /\ Reach("proxy", {})
        /\ UNCHANGED <<policy, zone, up, traffic, dest, choice, dialing, socket, packets>>

(* Socks5Outbound::connected, in the same way. *)
ProxyDial ==
  /\ stage = "proxyDial"
  /\ Become("negotiate") \/ Become("failed")

(* The proxy selects no authentication, or a password if one is            *)
(* configured, or refuses.                                                 *)
ProxyNegotiate ==
  /\ stage = "negotiate"
  /\ \/ Become("command") \/ Become("failed")
     \/ policy.proxy.login /\ Become("login")

ProxyLogin ==
  /\ stage = "login"
  /\ Become("command") \/ Become("failed")

(* CONNECT or UDP ASSOCIATE is sent. *)
ProxyCommand ==
  /\ stage = "command"
  /\ Become("reply") \/ Become("failed")

(* read_socks_reply, and for UDP the socket to the relay it names. *)
ProxyReply ==
  /\ stage = "reply"
  /\ \/ Become("failed")
     \/ /\ traffic = "tcp" /\ stage' = "connected" /\ Reach("proxy", {})
        /\ UNCHANGED <<policy, zone, up, traffic, dest, choice, dialing, socket, packets>>
     \/ /\ traffic = "udp" /\ stage' = "first"
        /\ socket' = [outbound |-> "socks5", families |-> {}]
        /\ UNCHANGED <<policy, zone, up, traffic, dest, choice, dialing, packets, reached>>

-----------------------------------------------------------------------------
(* send_to of the session's socket, for the address of the datagram as the *)
(* client wrote it or the Sniffer rewrote it: what `choice' made of the    *)
(* target only matters for the family of the socket.                       *)
SendTo(next, failed) ==
  \E lost \in Unanswered :
    LET ips == Resolve(dest.host, lost)
        usable == {a \in ips : Family(a) \in socket.families}
        wanted == SelectSeq(Preferred(ips), LAMBDA a : a \in usable) IN
    \/ socket.outbound = "direct" /\ wanted # <<>> /\ Reach(wanted[1], ips) /\ stage' = next
    \/ socket.outbound = "direct" /\ wanted = <<>> /\ UNCHANGED reached /\ stage' = failed
    \/ socket.outbound = "socks5" /\ Reach("proxy", {}) /\ stage' = next

SendFirst ==
  /\ stage = "first" /\ SendTo("session", "failed")
  /\ UNCHANGED <<policy, zone, up, traffic, dest, choice, dialing, socket, packets>>

(* Mutant: only the first datagram of a session is checked. *)
CheckFirstOnly ==
  /\ stage = "session" /\ packets < MaxSent
  /\ packets' = packets + 1
  /\ dest' \in Destinations
  /\ choice' = Decide(dest', "udp", Resolve(dest'.host, {}))
  /\ stage' = "send"
  /\ UNCHANGED <<policy, zone, up, traffic, dialing, socket, reached>>

(* A later datagram: check_udp selects again, and drops it if the outbound *)
(* it would go to is Reject or HTTP.                                       *)
CheckNext ==
  /\ stage = "session" /\ packets < MaxSent
  /\ packets' = packets + 1
  /\ dest' \in Destinations
  /\ \E lost \in Unanswered :
       /\ choice' = Decide(dest', "udp", Resolve(dest'.host, lost))
       /\ stage' = IF choice'.outbound \in {"reject", "http"} THEN "session" ELSE "send"
  /\ UNCHANGED <<policy, zone, up, traffic, dialing, socket, reached>>

SendNext ==
  /\ stage = "send" /\ SendTo("session", "session")
  /\ UNCHANGED <<policy, zone, up, traffic, dest, choice, dialing, socket, packets>>

OutNext ==
  \/ DnsChanges \/ SniffTcp \/ SniffUdp \/ Select
  \/ DirectTcp \/ (\E a \in Addr : DialEnds(a)) \/ DirectUdp
  \/ HttpConnect \/ ProxyDial \/ ProxyNegotiate \/ ProxyLogin \/ ProxyCommand \/ ProxyReply
  \/ SendFirst \/ CheckNext \/ SendNext

(* Nothing is connected or sent for a destination that the ACL, given the  *)
(* addresses the connection was made with, rejects.  A request whose       *)
(* lookups differ (the ACL and the outbound resolve independently) is not  *)
(* covered: there the rules on addresses decide by what the ACL saw.       *)
RejectedNeverReached ==
  \A r \in reached :
    LET seen == IF r.ip = "proxy" THEN r.choice.seen ELSE r.used IN
    Decide(r.dest, traffic, seen).outbound = "reject" =>
      /\ r.ip # "proxy" /\ r.used # r.choice.seen

(* Auto mode connects whenever one of the addresses it dials accepts: the  *)
(* race only fails when both dials have.                                   *)
ConnectsIfReachable ==
  traffic = "tcp" /\ stage = "failed" /\ policy.direct.mode = "auto" => dialing.all \intersect up = {}

(* A datagram that a hijack rule matches goes to the rule's address        *)
(* ("ordered ACL dispatch with ... protocol/port, reject, and hijack       *)
(* rules", PORT_STATUS.md:45).                                             *)
HijackApplies ==
  \A r \in reached : r.choice.target # r.dest /\ r.ip # "proxy" => r.ip = r.choice.target.host
=============================================================================
