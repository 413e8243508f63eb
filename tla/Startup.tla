------------------------------ MODULE Startup ------------------------------
(***************************************************************************)
(* How a server (serve_server) and a client (serve_client) come up from a  *)
(* configuration, and how they end.                                        *)
(*                                                                         *)
(* Every step of the two functions that can fail is an action.  A step     *)
(* fails because the configuration is refused ("config"), because the      *)
(* world is ("world": a file, a port, a network peer), or panics where the *)
(* code says unreachable! or indexes a map.                                *)
(***************************************************************************)
EXTENDS Configuration

CONSTANTS
  Servers,     \* configurations of a server
  Clients,     \* configurations of a client
  AclTexts     \* the contents the ACL file may have

VARIABLES
  role,        \* "server" or "client"
  config,      \* the configuration
  aclFile,     \* the ACL file on disk
  edited,      \* it has been edited since the program read it first
  progress,    \* the step the program is at, or "running", "ended"
  outcome,     \* {} until it ends, then {"config"}, {"world"}, {"panic"}, {"stopped"}
  acts         \* what it has done that others can see

startVars == <<role, config, aclFile, edited, progress, outcome, acts>>

StartInit ==
  /\ \/ role = "server" /\ config \in Servers
     \/ role = "client" /\ config \in Clients
  /\ aclFile \in AclTexts
  /\ edited = FALSE /\ progress = "validate" /\ outcome = {} /\ acts = {}

End(why) ==
  /\ progress' = "ended" /\ outcome' = {why}
  /\ UNCHANGED <<role, config, aclFile, edited, acts>>

Go(next) ==
  /\ progress' = next /\ UNCHANGED <<role, config, aclFile, edited, outcome, acts>>

(* The step starts things others can see: a listener, a request, a task    *)
(* that serves.                                                            *)
GoVisibly(next, things) ==
  /\ progress' = next /\ acts' = acts \union things
  /\ UNCHANGED <<role, config, aclFile, edited, outcome>>

At(who, where) == role = who /\ progress = where

(* acl_text: the file is read anew at every call, and may be unreadable. *)
AclText == IF config.acl.source = "file" THEN aclFile ELSE config.acl.inline
AclUnreadable == config.acl.source = "file" /\ End("world")

(* Somebody edits the ACL file while the program starts. *)
EditAcl ==
  /\ role = "server" /\ progress \notin {"validate", "running", "ended"}
  /\ config.acl.source = "file"
  /\ aclFile' \in AclTexts \ {aclFile}
  /\ edited' = TRUE
  /\ UNCHANGED <<role, config, progress, outcome, acts>>

-----------------------------------------------------------------------------
(* serve_server. *)

ValidateServer ==
  /\ At("server", "validate")
  /\ \/ ServerValid(config, AclText)
        /\ Go(IF config.acme = {} THEN "tls" ELSE "challenges")
     \/ ~ServerValid(config, AclText) /\ End("config")
     \/ AclUnreadable

(* prepare_challenges: in legacy mode one of the two listeners is enough. *)
Challenges ==
  /\ At("server", "challenges")
  /\ \E a \in config.acme : \E bound \in SUBSET (Challenge(a) \ {"dns"}) :
       \/ /\ bound # {} \/ Challenge(a) = {"dns"}
          /\ GoVisibly("acquire", bound)
       \/ bound = {} /\ Challenge(a) # {"dns"} /\ End("world")

(* acquire: the account, the DNS solver and the first certificate.  Any    *)
(* error the ACME state reports before it ends the start.                  *)
Acquire ==
  /\ At("server", "acquire")
  /\ \/ GoVisibly("ech", {"certificate", "renewal"})
     \/ End("world")

(* tls::server_config reads the files of the tls section. *)
ReadTls ==
  /\ At("server", "tls")
  /\ Go("ech") \/ End("world")

(* server_ech::load. *)
ReadEch ==
  /\ At("server", "ech")
  /\ \/ Go("quic")
     \/ config.ech = "path" /\ End("world")

(* The congestion settings, apply_server_quic_config and the bandwidth. *)
ServerQuic ==
  /\ At("server", "quic")
  /\ LET fine == /\ CongestionValid(config.congestion) /\ QuicApplies(config.quic)
                 /\ BandwidthValid(config.bandwidth) IN
     IF fine THEN Go("auth") ELSE End("config")

(* auth::build. *)
BuildAuth ==
  /\ At("server", "auth")
  /\ IF config.auth.kind \in {"password", "userpass", "http", "command"}
     THEN Go("outbounds") ELSE End("config")

(* outbound::build: validate again, then build the first outbound, or all  *)
(* of them for an ACL.  For a kind or mode that validation does not know   *)
(* build_backend says unreachable!.                                        *)
BuildOutbounds ==
  /\ At("server", "outbounds")
  /\ LET used == IF config.acl.source = "none"
                 THEN {i \in DOMAIN config.outbounds : i = 1} ELSE DOMAIN config.outbounds
         known(o) == /\ o.kind \in {"direct", "socks5", "http"}
                     /\ o.kind = "direct" => o.mode \in {"auto", "64", "46", "6", "4"} IN
     \/ /\ ~OutboundsValid(config, AclText)
        /\ End("config")
     \/ /\ OutboundsValid(config, AclText)
        /\ IF \A i \in used : known(config.outbounds[i])
           THEN Go(IF config.acl.source = "none" THEN "hook" ELSE "acl") ELSE End("panic")
     \/ AclUnreadable

(* parse_acl builds the rules in order.  A rule's ports are parsed before  *)
(* the map of outbounds is indexed by its name, its matcher, with the code *)
(* of a geo one, and its hijack address after.                             *)
ParseAcl(lines) ==
  LET names == Names(config.outbounds) \union BuiltIn
      faulty == {i \in DOMAIN lines : \/ lines[i].outbound \notin names
                                      \/ ~LineValid(lines[i], {lines[i].outbound})
                                      \/ ~CodeKnown(lines[i])}
  IN  IF \E i \in DOMAIN lines : ~lines[i].syntax THEN "config"
      ELSE IF faulty = {} THEN "built"
      ELSE IF \E i \in faulty : /\ \A j \in faulty : i <= j
                                /\ lines[i].ports /\ lines[i].outbound \notin names
      THEN "panic" ELSE "config"

(* build_acl reads the text once more, parses the interval of the geo      *)
(* databases and loads the ones the text needs.                            *)
BuildAcl ==
  /\ At("server", "acl")
  /\ \/ ~Duration(config.acl.geoUpdate) /\ End("config")
     \/ /\ Duration(config.acl.geoUpdate)
        /\ \/ UsesGeo(AclText) /\ End("world")
           \/ LET built == ParseAcl(AclText) IN
              IF built = "built" THEN Go("hook") ELSE End(built)
     \/ AclUnreadable

BuildHook ==
  /\ At("server", "hook")
  /\ IF config.sniff.enable /\ ~SniffValid(config.sniff) THEN End("config") ELSE Go("masquerade")

BuildMasquerade ==
  /\ At("server", "masquerade")
  /\ IF MasqueradeBuilds(config.masquerade) THEN Go("stats") ELSE End("config")

StartStats ==
  /\ At("server", "stats")
  /\ \/ ~config.stats /\ Go("transport")
     \/ config.stats /\ IF "stats" \in config.malformed THEN End("config")
                        ELSE GoVisibly("transport", {"stats"}) \/ End("world")

(* build_server_transport: a Realm endpoint asks the STUN servers and      *)
(* registers, another one resolves its address and binds.                  *)
StartTransport ==
  /\ At("server", "transport")
  /\ IF \/ ~ObfsValid(config.obfs) \/ config.server = "other"
        \/ config.server = "realm" /\ "stun" \in config.malformed
     THEN End("config")
     ELSE \/ GoVisibly("frontends", {IF config.server = "realm" THEN "realm" ELSE "socket"})
          \/ End("world")

(* start_tcp binds both frontends before it serves either; then the update *)
(* checks start.                                                           *)
StartFrontends ==
  /\ At("server", "frontends")
  /\ \/ config.masquerade.listen # {} /\ End("world")
     \/ IF config.masquerade.listen \intersect config.malformed # {} THEN End("config")
        ELSE GoVisibly("running", config.masquerade.listen \union {"updates"})

-----------------------------------------------------------------------------
(* serve_client, with the first connection ClientHandle::new makes unless  *)
(* the client is lazy.                                                     *)

ValidateClient ==
  /\ At("client", "validate")
  /\ \/ ~ClientValid(config) /\ End("config")
     \/ ClientValid(config) /\ ~config.lazy /\ Go("resolve")
     \/ ClientValid(config) /\ config.lazy /\ GoVisibly("running", config.inbounds)

(* split_server_address and resolve_server_addresses: an address and its   *)
(* union of ports are parsed and looked up.                                *)
ResolveAddress ==
  \/ config.server = "other" /\ End("config")
  \/ config.server = "address" /\ (Go("clientTls") \/ End("world"))

(* resolve_realm_target: bind the socket, with a port mapping if one is    *)
(* wanted, then discover, connect to the rendezvous and punch.             *)
ResolveRealm ==
  /\ config.server = "realm"
  /\ GoVisibly("rendezvous", {"socket"}) \/ End("world")

Rendezvous ==
  /\ At("client", "rendezvous")
  /\ \/ End("world")
     \/ IF "stun" \in config.malformed THEN End("config") ELSE GoVisibly("clientTls", {"realm"})

ResolveTarget ==
  /\ At("client", "resolve")
  /\ ResolveRealm \/ ResolveAddress

(* tls::client_config. *)
ClientTls ==
  /\ At("client", "clientTls")
  /\ Go("clientQuic") \/ End("world")

ClientQuic ==
  /\ At("client", "clientQuic")
  /\ IF ClientQuicApplies(config.quic) THEN Go("socket") ELSE End("config")

(* client_udp_socket, and the endpoint for obfuscation and port hopping. *)
ClientSocket ==
  /\ At("client", "socket")
  /\ IF ~ObfsValid(config.obfs) \/ ~HopValid(config.hop) THEN End("config")
     ELSE GoVisibly("connect", {"socket"}) \/ End("world")

(* connect: TLS reads the server's name when the connection is made. *)
ClientConnect ==
  /\ At("client", "connect")
  /\ IF "sni" \in config.malformed THEN End("config")
     ELSE GoVisibly("running", {"connection"} \union config.inbounds) \/ End("world")

(* The first inbound task that returns, with an error or not, ends the     *)
(* client: an inbound binds its address when its task runs.  The server    *)
(* ends when its endpoint accepts no more.                                 *)
ServiceEnds ==
  /\ progress = "running"
  /\ \/ End("world")
     \/ role = "client" /\ config.inbounds \intersect config.malformed # {} /\ End("config")

-----------------------------------------------------------------------------
Shutdown == progress = "running" /\ End("stopped")

StartNext ==
  \/ EditAcl
  \/ ValidateServer \/ Challenges \/ Acquire \/ ReadTls \/ ReadEch \/ ServerQuic
  \/ BuildAuth \/ BuildOutbounds \/ BuildAcl \/ BuildHook \/ BuildMasquerade
  \/ StartStats \/ StartTransport \/ StartFrontends
  \/ ValidateClient \/ ResolveTarget \/ Rendezvous \/ ClientTls \/ ClientQuic \/ ClientSocket
  \/ ClientConnect \/ ServiceEnds
  \/ Shutdown

(* A configuration that validation accepted never reaches an unreachable!  *)
(* or a missing outbound, unless the ACL file is edited between the two    *)
(* times it is read.                                                       *)
ValidatedNeverPanics == outcome = {"panic"} => edited

(* What validate() does not read, and a later step refuses: numbers no     *)
(* varint holds, the interval of the geo databases, the codes the ACL      *)
(* names in them, and the addresses and names that are only resolved when  *)
(* they are used.                                                          *)
ServerUnread ==
  \/ ~QuicApplies(config.quic) \/ ~Duration(config.acl.geoUpdate)
  \/ \E i \in DOMAIN AclText : ~CodeKnown(AclText[i])
  \/ config.server = "other" \/ config.malformed # {}
ClientUnread == ~ClientQuicApplies(config.quic) \/ config.malformed # {}

(* A fault of the configuration that validate() reads ("Returns an error   *)
(* for missing, invalid, or unsupported values", config.rs:715) is found   *)
(* before the program has bound, contacted or registered anything: after   *)
(* that it is refused only for what validation leaves unread, or because   *)
(* the ACL file has been edited since.                                     *)
FaultsFoundEarly ==
  outcome = {"config"} /\ acts # {} =>
    IF role = "server" THEN edited \/ ServerUnread ELSE ClientUnread
=============================================================================
