------------------------------ MODULE MCParts ------------------------------
(***************************************************************************)
(* Small instances for TLC of the parts that share no state: the client's  *)
(* local inbounds, the server's routing, the start of both programs and    *)
(* what they leave on disk, in the DNS and at the gateway.  In a behaviour *)
(* one of them moves and the others stay in one of their initial states.   *)
(***************************************************************************)
EXTENDS UdpFlows, TunRoutes, LocalProxies, Outbound, Startup, Wildcard, Brutal, AcmeDns, Files,
        PortMapping

CONSTANTS k1, f1, f2, f3, a1, a2, v4, w4, v6, site, www, p1, p2

VARIABLE moving

partVars == <<flowVars, tunVars, proxVars, outVars, startVars, wildVars, brutalVars, dnsVars,
              fileVars, mapVars, moving>>

-----------------------------------------------------------------------------
(* TunRoutes *)

Wide == "0/0"
Net == "10/8"
Host == "10.1/16"
CoverOf == [d \in Dests |-> CASE d = Wide -> <<Wide>>
                              [] d = Net -> <<Net, Wide>>
                              [] OTHER -> <<Host, Net, Wide>>]

EmptySystem == [routes |-> {}, rules |-> {}]
Default == Route(Wide, "eth", Main)
LeftBehind == Route(Host, "eth", Main)
SystemSet ==
  {EmptySystem,
   [routes |-> {Default}, rules |-> {Rule(1, 0)}],
   [routes |-> {Default, LeftBehind}, rules |-> {}],
   [routes |-> {Default, Route(Net, "tun", 202)}, rules |-> {Rule(1, 0), Rule(2, 0)}]}
ConfigSet ==
  [exclude : {<<>>, <<Host>>, <<Host, Host>>, <<Net, Host>>}, include : {<<Wide>>, <<Net, Wide>>}, strict : BOOLEAN]

-----------------------------------------------------------------------------
(* Outbound *)

RuleFor(protocol, start, end, hosts, ips, outbound, hijack) ==
  [protocol |-> protocol, start |-> start, end |-> end, hosts |-> hosts, ips |-> ips,
   outbound |-> outbound, hijack |-> hijack]
NoRules == <<>>
ByAddress == <<RuleFor("both", 0, 0, {}, {w4, v6}, "reject", {})>>
ByPort == <<RuleFor("udp", 53, 53, {site}, {}, "direct", {w4}),
            RuleFor("both", 0, 0, {site}, {}, "reject", {})>>
ByName == <<RuleFor("tcp", 0, 0, {site}, {}, "direct", {w4}),
            RuleFor("both", 53, 80, {www}, {}, "http", {})>>

Direct(mode, bind, fast) == [mode |-> mode, bind |-> bind, fastOpen |-> fast]
Hook(on) == [enable |-> on, rewrite |-> FALSE, ports |-> {53}]
Acting(list, default, on, direct) ==
  [rules |-> list, default |-> default, hook |-> Hook(on), direct |-> direct,
   proxy |-> [login |-> TRUE]]
Auto == Direct("auto", {}, FALSE)
PolicySet ==
  {Acting(NoRules, "direct", FALSE, Auto), Acting(NoRules, "socks5", FALSE, Auto),
   Acting(ByAddress, "direct", TRUE, Auto), Acting(ByAddress, "direct", FALSE, Direct("64", {4}, FALSE)),
   Acting(ByPort, "direct", TRUE, Direct("6", {}, TRUE)), Acting(ByName, "direct", FALSE, Auto),
   Acting(ByName, "socks5", TRUE, Direct("46", {6}, FALSE))}

Zone(s, w) == [n \in {site, www} |-> IF n = site THEN [ips |-> s, alias |-> {}] ELSE w]
Plainly == Zone({v4, v6}, [ips |-> {}, alias |-> {site}])
ZoneSet == {Plainly, Zone({w4}, [ips |-> {v6}, alias |-> {www}])}
DestSet == [host : {site, www, w4}, port : {53}]

-----------------------------------------------------------------------------
(* Startup: sound configurations, and each of them with one fault. *)

Line(outbound, matcher, ports) ==
  [syntax |-> TRUE, outbound |-> outbound, matcher |-> matcher, code |-> TRUE, ports |-> ports,
   hijack |-> TRUE]
Sound == <<Line("direct", "all", TRUE), Line("o", "geoip", TRUE)>>
Unknown == <<Line("direct", "all", TRUE), Line("gone", "domain", TRUE)>>
Misread == <<Line("gone", "all", FALSE), Line("gone", "domain", TRUE)>>
NoSuchCode == <<[Line("o", "geosite", TRUE) EXCEPT !.code = FALSE]>>
Unparsed == <<[Line("o", "all", TRUE) EXCEPT !.syntax = FALSE]>>
AclTextSet == {Sound, Unknown, Misread, NoSuchCode, Unparsed}

NoRate == [up |-> {}, down |-> {}]
Plain4 == [kind |-> "plain", password |-> 0, min |-> Unset, max |-> Unset]
RealmBase == [ipMode |-> "dual", durations |-> {Unset}]
Bbr == [kind |-> "bbr", profile |-> "standard"]

ServerBase ==
  [tls |-> {"cert", "key"}, acme |-> {}, ech |-> "none", server |-> "address", realmId |-> TRUE,
   realm |-> RealmBase, sniGuard |-> "strict", auth |-> [kind |-> "password", given |-> TRUE],
   udpIdle |-> 60, quic |-> [stream |-> Unset, connection |-> 16, idle |-> 30, streams |-> 8],
   bandwidth |-> NoRate, congestion |-> Bbr, obfs |-> Plain4,
   masquerade |-> [listen |-> {"https"}, kind |-> "404", given |-> FALSE, url |-> FALSE,
                   headers |-> TRUE, status |-> Unset],
   outbounds |-> <<[name |-> "o", kind |-> "direct", mode |-> "64", valid |-> TRUE]>>,
   acl |-> [source |-> "file", inline |-> <<>>, geoUpdate |-> Unset],
   resolver |-> [kind |-> "system", address |-> FALSE, timeout |-> Unset],
   sniff |-> [enable |-> TRUE, timeout |-> 4, ports |-> TRUE], stats |-> TRUE,
   malformed |-> {}]

Acme(kind, noTls, noHttp) ==
  [domains |-> TRUE, ca |-> "letsencrypt", email |-> FALSE, kind |-> kind, noTls |-> noTls,
   noHttp |-> noHttp, dns |-> [name |-> "gandi", keys |-> TRUE, endpoint |-> TRUE]]
ByAcme(a) == [ServerBase EXCEPT !.tls = {}, !.acme = {a}, !.stats = FALSE, !.ech = "path"]

ServerFaults(c) ==
  {[c EXCEPT !.tls = {"cert"}], [c EXCEPT !.ech = "empty"], [c EXCEPT !.sniGuard = "other"],
   [c EXCEPT !.server = "realm", !.realm.ipMode = "other"],
   [c EXCEPT !.server = "realm", !.realm.durations = {Zero}],
   [c EXCEPT !.auth.kind = "other"], [c EXCEPT !.udpIdle = Bad], [c EXCEPT !.quic.stream = 15],
   [c EXCEPT !.quic.idle = 121], [c EXCEPT !.quic.stream = VarintEnd],
   [c EXCEPT !.bandwidth.up = {[count |-> 1, unit |-> "other"]}], [c EXCEPT !.congestion.profile = "other"],
   [c EXCEPT !.obfs = [Plain4 EXCEPT !.kind = "gecko", !.password = 4, !.max = 511]],
   [c EXCEPT !.obfs.kind = "other"], [c EXCEPT !.masquerade.listen = {"http"}],
   [c EXCEPT !.masquerade.kind = "proxy"],
   [c EXCEPT !.masquerade = [@ EXCEPT !.kind = "string", !.given = TRUE, !.status = 233]],
   [c EXCEPT !.outbounds[1].mode = "other"], [c EXCEPT !.outbounds = @ \o @],
   [c EXCEPT !.acl.source = "both"], [c EXCEPT !.acl.geoUpdate = Bad],
   [c EXCEPT !.resolver.kind = "tls"], [c EXCEPT !.sniff.timeout = Zero],
   [c EXCEPT !.server = "other"], [c EXCEPT !.server = "realm", !.malformed = {"stun"}],
   [c EXCEPT !.malformed = {"stats"}], [c EXCEPT !.malformed = {"https"}]}

ServerSet ==
  ServerFaults(ServerBase) \union ServerFaults(ByAcme(Acme("", FALSE, FALSE))) \union
  {ServerBase, [ServerBase EXCEPT !.server = "realm", !.stats = FALSE],
   [ServerBase EXCEPT !.acl.source = "none", !.outbounds = <<>>, !.sniff.enable = FALSE],
   [ServerBase EXCEPT !.acl.source = "inline", !.acl.inline = Sound]} \union
  {ByAcme(a) : a \in {Acme("", TRUE, FALSE), Acme("", FALSE, TRUE), Acme("", TRUE, TRUE), Acme("dns", FALSE, FALSE),
                      Acme("http", TRUE, TRUE), Acme("tls", FALSE, FALSE), Acme("other", FALSE, FALSE),
                      [Acme("dns", FALSE, FALSE) EXCEPT !.dns.keys = FALSE],
                      [Acme("tls", FALSE, FALSE) EXCEPT !.ca = "zerossl"]}}

ClientBase ==
  [server |-> "address", auth |-> TRUE, identity |-> {}, pin |-> Unset, ech |-> Unset, realmId |-> TRUE,
   realm |-> RealmBase, bandwidth |-> NoRate, congestion |-> Bbr, obfs |-> Plain4,
   hop |-> [kind |-> "udp", fixed |-> Unset, min |-> 5, max |-> 6],
   inbounds |-> {"socks5", "udp", "tun"}, logins |-> {}, inboundTimeout |-> 60,
   tun |-> [name |-> TRUE, timeout |-> Unset,
            address |-> [f \in {4, 6} |-> {[family |-> f, bits |-> {30}]}],
            routes |-> [f \in {4, 6} |-> {[family |-> f, bits |-> {}]}]],
   quic |-> [stream |-> Unset, connection |-> 16, idle |-> Unset, keepAlive |-> Unset], lazy |-> FALSE,
   malformed |-> {}]

ClientFaults(c) ==
  {[c EXCEPT !.auth = FALSE], [c EXCEPT !.identity = {"key"}], [c EXCEPT !.pin = Bad],
   [c EXCEPT !.bandwidth.down = {[count |-> Bad, unit |-> "mbps"]}], [c EXCEPT !.obfs.kind = "salamander"],
   [c EXCEPT !.hop.fixed = 10], [c EXCEPT !.hop.max = Unset], [c EXCEPT !.hop.min = 7],
   [c EXCEPT !.inbounds = {}], [c EXCEPT !.logins = {"socks5"}], [c EXCEPT !.inboundTimeout = Bad],
   [c EXCEPT !.tun.address[4] = {[family |-> 6, bits |-> {64}]}],
   [c EXCEPT !.tun.routes[6] = {[family |-> 6, bits |-> {129}]}],
   [c EXCEPT !.quic.keepAlive = Bad], [c EXCEPT !.quic.stream = VarintEnd],
   [c EXCEPT !.malformed = {"sni"}], [c EXCEPT !.malformed = {"stun"}],
   [c EXCEPT !.malformed = {"socks5"}, !.lazy = TRUE]}

ClientSet ==
  {ClientBase, [ClientBase EXCEPT !.lazy = TRUE], [ClientBase EXCEPT !.server = "other"],
   [ClientBase EXCEPT !.server = "realm"]} \union
  ClientFaults(ClientBase) \union ClientFaults([ClientBase EXCEPT !.server = "realm"])

-----------------------------------------------------------------------------

(* A part that stands still is in one of its initial states. *)
MCInit ==
  /\ moving \in {"flows", "tun", "proxies", "routing", "start", "wildcard", "brutal", "dns", "files",
                "mapping"}
  /\ IF moving = "tun" THEN TRUE
     ELSE tunCfg = [exclude |-> <<>>, include |-> <<Wide>>, strict |-> FALSE] /\ original = EmptySystem
  /\ IF moving = "proxies" THEN TRUE ELSE inbound = [kind |-> "http", auth |-> FALSE, udp |-> FALSE]
  /\ IF moving = "routing" THEN up \in {{}, {v4}, {w4, v6}, Addr}
     ELSE /\ policy = Acting(NoRules, "direct", FALSE, Auto) /\ zone = Plainly /\ up = {}
          /\ traffic = "tcp" /\ dest = [host |-> site, port |-> 53]
  /\ IF moving = "start" THEN TRUE ELSE role = "client" /\ config = ClientBase /\ aclFile = Sound
  /\ IF moving = "wildcard" THEN TRUE ELSE subject = <<>> /\ pattern = <<>>
  /\ IF moving = "brutal" THEN TRUE ELSE compensate = TRUE
  /\ IF moving = "dns" THEN TRUE ELSE provider = "id" /\ expected = {} /\ value = "x"
  /\ IF moving = "files" THEN TRUE ELSE disk = [p \in Paths |-> "none"]
  /\ FlowInit /\ TunInit /\ ProxyInit /\ OutInit /\ StartInit /\ WildInit /\ BrutalInit
  /\ DnsInit /\ FilesInit /\ MappingInit

MCNext ==
  /\ UNCHANGED moving
  /\ \/ /\ moving = "flows" /\ FlowNext
        /\ UNCHANGED <<tunVars, proxVars, outVars, startVars, wildVars, brutalVars, dnsVars, fileVars, mapVars>>
     \/ /\ moving = "tun" /\ TunNext
        /\ UNCHANGED <<flowVars, proxVars, outVars, startVars, wildVars, brutalVars, dnsVars, fileVars, mapVars>>
     \/ /\ moving = "proxies" /\ LocalNext
        /\ UNCHANGED <<flowVars, tunVars, outVars, startVars, wildVars, brutalVars, dnsVars, fileVars, mapVars>>
     \/ /\ moving = "routing" /\ OutNext
        /\ UNCHANGED <<flowVars, tunVars, proxVars, startVars, wildVars, brutalVars, dnsVars, fileVars, mapVars>>
     \/ /\ moving = "start" /\ StartNext
        /\ UNCHANGED <<flowVars, tunVars, proxVars, outVars, wildVars, brutalVars, dnsVars, fileVars, mapVars>>
     \/ /\ moving = "wildcard" /\ WildNext
        /\ UNCHANGED <<flowVars, tunVars, proxVars, outVars, startVars, brutalVars, dnsVars, fileVars, mapVars>>
     \/ /\ moving = "brutal" /\ BrutalNext
        /\ UNCHANGED <<flowVars, tunVars, proxVars, outVars, startVars, wildVars, dnsVars, fileVars, mapVars>>
     \/ /\ moving = "dns" /\ DnsNext
        /\ UNCHANGED <<flowVars, tunVars, proxVars, outVars, startVars, wildVars, brutalVars, fileVars, mapVars>>
     \/ /\ moving = "files" /\ FilesNext
        /\ UNCHANGED <<flowVars, tunVars, proxVars, outVars, startVars, wildVars, brutalVars, dnsVars,
                       mapVars>>
     \/ /\ moving = "mapping" /\ MappingNext
        /\ UNCHANGED <<flowVars, tunVars, proxVars, outVars, startVars, wildVars, brutalVars, dnsVars,
                       fileVars>>

(* A part that stands still has no task: its fairness asks for nothing. *)
MCSpec == MCInit /\ [][MCNext]_partVars /\ FlowFairness /\ MappingFairness
=============================================================================
