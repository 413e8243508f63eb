--------------------------- MODULE Configuration ---------------------------
(***************************************************************************)
(* What config.rs and the validators it calls accept.  A configuration is  *)
(* a record with one field per section.  Texts are abstracted to what the  *)
(* validators tell apart: a duration is Unset, Bad (it does not parse) or  *)
(* a number of seconds, a size is a number with Unset for an absent or     *)
(* zero one, and a choice is its normalised keyword or "other".            *)
(***************************************************************************)
EXTENDS Integers, Functions

Unset == 0
Bad == -1
MinWindow == 16        \* 16384 bytes, in KiB
VarintEnd == 1000      \* stands for 2^62, the first value a QUIC varint cannot hold

Zero == -2             \* a duration written as zero

Duration(d) == d # Bad

(* parse_bandwidth: [count, unit], an option.  Overflow is a Bad count. *)
BandwidthValid(b) == \A rate \in b.up \union b.down : rate.count # Bad /\ rate.unit # "other"

CongestionValid(c) ==
  \/ c.kind = "bbr" /\ c.profile \in {"standard", "conservative", "aggressive"}
  \/ c.kind = "reno"

(* transport_config and validate_obfuscation: a zero Gecko size takes its  *)
(* default before the two are compared.                                    *)
ObfsValid(o) ==
  LET least == IF o.min = Unset THEN 512 ELSE o.min
      most == IF o.max = Unset THEN 1200 ELSE o.max IN
  \/ o.kind = "plain"
  \/ o.kind = "salamander" /\ o.password >= 4
  \/ o.kind = "gecko" /\ o.password >= 4 /\ least <= most /\ most <= 2048

(* validate_realm_config: an unset duration takes its default later, one   *)
(* that is written must be positive.                                       *)
RealmValid(r) ==
  /\ r.ipMode \in {"dual", "v4", "v6"}
  /\ \A d \in r.durations : d \notin {Bad, Zero}

(* server: what the client connects to or the server listens on, an        *)
(* "address", a "realm" or "other", which is neither.  Only a realm is     *)
(* parsed here, an address when it is used.  The same holds for the other  *)
(* addresses of a configuration: malformed names those no lookup accepts.  *)
RealmAddressValid(c) == c.server = "realm" => c.realmId /\ RealmValid(c.realm)

-----------------------------------------------------------------------------
(* The server's sections. *)

Providers ==
  {"namecheap", "njalla", "porkbun", "cloudflare", "duckdns", "gandi", "godaddy",
   "namedotcom", "vultr"}

(* ServerAcmeDns::validate. keys: every key the provider requires is set;  *)
(* endpoint: the Namecheap endpoint and address, or the name.com server,   *)
(* are acceptable.                                                         *)
AcmeDnsValid(d) ==
  /\ d.name \in Providers /\ d.keys
  /\ d.name \in {"namecheap", "namedotcom"} => d.endpoint

AcmeValid(a) ==
  /\ a.domains
  /\ a.ca \in {"letsencrypt", "zerossl"}
  /\ a.ca = "zerossl" => a.email
  /\ \/ a.kind \in {"http", "tls"}
     \/ a.kind = "" /\ ~(a.noTls /\ a.noHttp)
     \/ a.kind = "dns" /\ AcmeDnsValid(a.dns)

(* acme.rs challenge: the legacy kind "" listens for both unless one is    *)
(* disabled.                                                               *)
Challenge(a) ==
  IF a.kind # "" THEN {a.kind}
  ELSE IF a.noTls THEN {"http"}
  ELSE IF a.noHttp THEN {"tls"} ELSE {"http", "tls"}

QuicValid(q) ==
  /\ \A w \in {q.stream, q.connection} : w = Unset \/ w >= MinWindow
  /\ q.idle = Unset \/ q.idle \in 4 .. 120
  /\ q.streams = Unset \/ q.streams >= 8

(* apply_server_quic_config converts the same numbers to varints. *)
QuicApplies(q) == \A n \in {q.stream, q.connection, q.streams} : n < VarintEnd

AuthValid(a) == a.kind \in {"password", "userpass", "http", "command"} /\ a.given

(* MasqueradeConfig::validate. url: proxy_target accepts it. *)
MasqueradeValid(m) ==
  /\ "http" \in m.listen => "https" \in m.listen
  /\ \/ m.kind = "404"
     \/ m.kind = "file" /\ m.given
     \/ m.kind = "proxy" /\ m.given /\ m.url
     \/ /\ m.kind = "string" /\ m.given /\ m.headers
        /\ m.status \in ({Unset} \union 200 .. 599) \ {233}

(* Masquerade::build makes no check of its own that validate left out: the *)
(* status and the headers are parsed again, and so is the proxy URL.       *)
MasqueradeBuilds(m) ==
  /\ m.kind \in {"404", "file", "proxy", "string"}
  /\ m.kind = "string" => m.headers /\ (m.status = Unset \/ m.status \in 100 .. 999)
  /\ m.kind = "proxy" => m.url

ResolverValid(r) ==
  \/ r.kind = "system"
  \/ r.kind \in {"udp", "tcp", "tls", "https"} /\ r.address /\ Duration(r.timeout)

(* parse_optional_ports swaps the ends of a range that is written upside   *)
(* down, so only a port that does not parse is refused.                    *)
SniffValid(s) == s.timeout \notin {Bad, Zero} /\ s.ports

(* validate_direct, validate_socks5, validate_http: valid stands for the   *)
(* checks on the section of the outbound's own kind.                       *)
OutboundValid(o) ==
  /\ o.name # ""
  /\ \/ o.kind = "direct" /\ o.mode \in {"auto", "64", "46", "6", "4"} /\ o.valid
     \/ o.kind \in {"socks5", "http"} /\ o.valid

Names(outbounds) == {outbounds[i].name : i \in DOMAIN outbounds}
BuiltIn == {"direct", "reject", "default"}

(* Mutant: a rule's outbound is not looked up. *)
LineValidAnyName(line, names) ==
  /\ line.syntax
  /\ line.matcher \in {"all", "address", "domain", "geoip", "geosite"}
  /\ line.ports /\ line.hijack

(* acl_lines and validate_acl.  A line has the syntax of a rule or not.    *)
(* GeoIP and GeoSite matchers are compiled only when the rules are built,  *)
(* so the code they name is not looked up here.                            *)
LineValid(line, names) ==
  /\ line.syntax /\ line.outbound \in names
  /\ line.matcher \in {"all", "address", "domain", "geoip", "geosite"}
  /\ line.ports /\ line.hijack

AclValid(lines, names) == \A i \in DOMAIN lines : LineValid(lines[i], names)

Geo(line) == line.matcher \in {"geoip", "geosite"}
UsesGeo(lines) == \E i \in DOMAIN lines : Geo(lines[i])

(* GeoDatabase: the code of a GeoIP or GeoSite matcher is one of the       *)
(* database.                                                               *)
CodeKnown(line) == Geo(line) => line.code

(* validate_routes. text is what acl_text returns: the lines of the file   *)
(* as it is now, or the inline ones.                                       *)
RoutesValid(c, text) ==
  /\ c.acl.source # "both"
  /\ ResolverValid(c.resolver)
  /\ c.acl.source # "none" => AclValid(text, Names(c.outbounds) \union BuiltIn)

(* outbound::validate. *)
OutboundsValid(c, text) ==
  /\ IsInjective([i \in DOMAIN c.outbounds |-> c.outbounds[i].name])
  /\ \A i \in DOMAIN c.outbounds : OutboundValid(c.outbounds[i])
  /\ RoutesValid(c, text)

(* Mutant: the obfuscation is left to the transport. *)
ServerValidNoObfs(c, text) ==
  /\ (c.tls = {}) # (c.acme = {})
  /\ c.tls \in {{}, {"cert", "key"}}
  /\ \A a \in c.acme : AcmeValid(a)
  /\ c.ech # "empty"
  /\ RealmAddressValid(c)
  /\ c.sniGuard # "other"
  /\ AuthValid(c.auth)
  /\ Duration(c.udpIdle)
  /\ QuicValid(c.quic)
  /\ BandwidthValid(c.bandwidth) /\ CongestionValid(c.congestion)
  /\ MasqueradeValid(c.masquerade)
  /\ OutboundsValid(c, text)
  /\ c.sniff.enable => SniffValid(c.sniff)

(* ServerConfig::validate. tls: which of cert and key are set. *)
ServerValid(c, text) ==
  /\ (c.tls = {}) # (c.acme = {})
  /\ c.tls \in {{}, {"cert", "key"}}
  /\ \A a \in c.acme : AcmeValid(a)
  /\ c.ech # "empty"
  /\ RealmAddressValid(c)
  /\ c.sniGuard # "other"
  /\ AuthValid(c.auth)
  /\ Duration(c.udpIdle)
  /\ QuicValid(c.quic)
  /\ BandwidthValid(c.bandwidth) /\ CongestionValid(c.congestion) /\ ObfsValid(c.obfs)
  /\ MasqueradeValid(c.masquerade)
  /\ OutboundsValid(c, text)
  /\ c.sniff.enable => SniffValid(c.sniff)

-----------------------------------------------------------------------------
(* The client's sections. *)

(* hop_intervals. *)
HopValid(h) ==
  LET least == IF h.fixed # Unset THEN h.fixed ELSE IF h.min = Unset THEN 30 ELSE h.min
      most == IF h.fixed # Unset THEN h.fixed ELSE IF h.max = Unset THEN 30 ELSE h.max IN
  /\ h.kind = "udp"
  /\ h.fixed # Unset => h.min = Unset /\ h.max = Unset
  /\ (h.min = Unset) = (h.max = Unset)
  /\ Duration(least) /\ Duration(most)
  /\ 5 <= least /\ least <= most

(* parse_ip_prefix, over [family, bits] with bits an option. *)
PrefixValid(p, family) ==
  /\ p.family = family
  /\ \A b \in p.bits : b # Bad /\ b <= (IF family = 4 THEN 32 ELSE 128)

(* TunConfig::validate: an interface address needs its prefix length, a    *)
(* route may leave it out.                                                 *)
TunValid(t) ==
  /\ t.name /\ Duration(t.timeout)
  /\ \A f \in {4, 6} : \A p \in t.address[f] : p.bits # {} /\ PrefixValid(p, f)
  /\ \A f \in {4, 6} : \A p \in t.routes[f] : PrefixValid(p, f)

(* validate_connection.  Of the QUIC section only what another platform    *)
(* lacks is checked here; the section is read when the client connects.    *)
ConnectionValid(c) ==
  /\ c.server # "" /\ c.auth
  /\ c.identity \in {{}, {"cert", "key"}}
  /\ c.pin # Bad /\ c.ech # Bad
  /\ RealmAddressValid(c)
  /\ BandwidthValid(c.bandwidth) /\ CongestionValid(c.congestion) /\ ObfsValid(c.obfs)
  /\ HopValid(c.hop)

Inbounds == {"tcp", "udp", "socks5", "http", "redirect", "tproxy", "udptproxy", "tun"}

(* ClientConfig::validate. logins: the inbounds with half a login. *)
ClientValid(c) ==
  /\ ConnectionValid(c)
  /\ c.inbounds # {}
  /\ c.logins \intersect c.inbounds = {}
  /\ c.inbounds \intersect {"udp", "udptproxy"} # {} => Duration(c.inboundTimeout)
  /\ "tun" \in c.inbounds => TunValid(c.tun)

(* apply_client_quic_config. *)
ClientQuicApplies(q) ==
  /\ \A w \in {q.stream, q.connection} : w < VarintEnd
  /\ q.idle # Bad /\ q.keepAlive # Bad

=============================================================================
