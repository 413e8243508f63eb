---------------------------- MODULE LocalProxies ----------------------------
(***************************************************************************)
(* One connection to the client's SOCKS5 inbound (socks5.rs) or HTTP proxy *)
(* inbound (http_proxy.rs): negotiation, authentication, the request, the  *)
(* tunnel or UDP association behind it, and the relay.                     *)
(*                                                                         *)
(* What the local peer writes after its request is the sequence of chunks  *)
(* 1, 2, ...; an HTTP head may bring the first of them with it.            *)
(***************************************************************************)
EXTENDS Integers, Sequences, FiniteSets

CONSTANTS
  Sources,       \* UDP addresses that reach an association's socket
  MaxDatagrams,  \* bound: datagrams of an association
  MaxChunks      \* bound: chunks of a tunnel

VARIABLES
  inbound,   \* [kind : {"socks5", "http"}, auth : BOOLEAN, udp : BOOLEAN]
  at,        \* "greeting", "userpass", "request", "opening", "associating",
             \* "flush", "relay", "udp", "closed"
  proven,    \* the right credentials were presented
  answer,    \* the reply the peer got: an option
  body,      \* chunks that came with the request head
  written,   \* what was written into the tunnel
  control,   \* the TCP connection: "open" or "shut"
  peer,      \* client_address, an option
  datagrams, \* datagrams so far
  served     \* the addresses datagrams were taken from or sent to

proxVars == <<inbound, at, proven, answer, body, written, control, peer, datagrams, served>>

ProxyInit ==
  /\ inbound \in [kind : {"socks5", "http"}, auth : BOOLEAN, udp : BOOLEAN]
  /\ at = IF inbound.kind = "socks5" THEN "greeting" ELSE "request"
  /\ proven = FALSE /\ answer = {} /\ body = 0 /\ written = <<>>
  /\ control = "open" /\ peer = {} /\ datagrams = 0 /\ served = {}

(* The peer closes its connection, at any point. *)
Shut ==
  /\ control = "open" /\ at # "closed" /\ control' = "shut"
  /\ UNCHANGED <<inbound, at, proven, answer, body, written, peer, datagrams, served>>

(* Every read of a message fails once the peer has gone, and on a message  *)
(* that does not parse.                                                    *)
Abort ==
  /\ at \in {"greeting", "userpass", "request"} /\ at' = "closed"
  /\ UNCHANGED <<inbound, proven, answer, body, written, control, peer, datagrams, served>>

-----------------------------------------------------------------------------
(* Mutant: a peer that offers no authentication is taken at its word. *)
NegotiateWeakly ==
  /\ at = "greeting" /\ control = "open"
  /\ \E methods \in SUBSET {"none", "userpass"} :
       at' = CASE "none" \in methods -> "request"
               [] "none" \notin methods /\ inbound.auth /\ methods # {} -> "userpass"
               [] OTHER -> "closed"
  /\ UNCHANGED <<inbound, proven, answer, body, written, control, peer, datagrams, served>>

(* negotiate: the configuration, not the peer, selects the method. *)
Negotiate ==
  /\ at = "greeting" /\ control = "open"
  /\ LET required == IF inbound.auth THEN "userpass" ELSE "none" IN
     \E methods \in SUBSET {"none", "userpass"} :
       at' = IF required \notin methods THEN "closed"
             ELSE IF inbound.auth THEN "userpass" ELSE "request"
  /\ UNCHANGED <<inbound, proven, answer, body, written, control, peer, datagrams, served>>

(* authenticate_userpass answers either way. *)
UserPass ==
  /\ at = "userpass" /\ control = "open"
  /\ \E right \in BOOLEAN :
       /\ proven' = right /\ at' = IF right THEN "request" ELSE "closed"
       /\ answer' = {IF right THEN "accepted" ELSE "refused"}
  /\ UNCHANGED <<inbound, body, written, control, peer, datagrams, served>>

(* The SOCKS5 command.  UDP ASSOCIATE may be disabled; BIND is not known. *)
Command ==
  /\ inbound.kind = "socks5" /\ at = "request" /\ control = "open"
  /\ \/ at' = "opening" /\ UNCHANGED answer
     \/ inbound.udp /\ at' = "associating" /\ UNCHANGED answer
     \/ at' = "closed" /\ answer' = {"unsupported"}
  /\ UNCHANGED <<inbound, proven, body, written, control, peer, datagrams, served>>

(* An HTTP request head, with what the peer has sent behind it.  A head    *)
(* without valid Proxy-Authorization is answered with 407.                 *)
ReadRequestHead ==
  /\ inbound.kind = "http" /\ at = "request" /\ control = "open"
  /\ \E right \in BOOLEAN, n \in 0..MaxChunks :
       /\ proven' = right /\ body' = n
       /\ IF inbound.auth /\ ~right
          THEN at' = "closed" /\ answer' = {"407"}
          ELSE at' = "opening" /\ UNCHANGED answer
  /\ UNCHANGED <<inbound, written, control, peer, datagrams, served>>

(* client.tcp: a failure is told to the peer. *)
OpenTunnel ==
  /\ at = "opening"
  /\ \/ at' = "flush" /\ answer' = {"connected"}
     \/ at' = "closed" /\ answer' = {"unreachable"}
  /\ UNCHANGED <<inbound, proven, body, written, control, peer, datagrams, served>>

(* The rest of the head's buffer goes into the tunnel before the copy. *)
Flush ==
  /\ at = "flush" /\ at' = "relay"
  /\ written' = [i \in 1..body |-> i]
  /\ UNCHANGED <<inbound, proven, answer, body, control, peer, datagrams, served>>

(* copy_bidirectional: the next chunk, or the end of either side. *)
Relayed ==
  /\ at = "relay"
  /\ \/ /\ control = "open" /\ Len(written) < MaxChunks
        /\ written' = Append(written, Len(written) + 1) /\ UNCHANGED at
     \/ at' = "closed" /\ UNCHANGED written
  /\ UNCHANGED <<inbound, proven, answer, body, control, peer, datagrams, served>>

-----------------------------------------------------------------------------
(* handle_udp_associate. *)
Associate ==
  /\ at = "associating"
  /\ \/ at' = "udp" /\ answer' = {"associated"}
     \/ at' = "closed" /\ answer' = {"failed"}
  /\ UNCHANGED <<inbound, proven, body, written, control, peer, datagrams, served>>

(* Mutant: every datagram moves the association to its source. *)
DatagramMoves(s) ==
  /\ at = "udp" /\ datagrams < MaxDatagrams /\ datagrams' = datagrams + 1
  /\ \E valid \in BOOLEAN, sent \in BOOLEAN :
       /\ peer' = IF valid THEN {s} ELSE peer
       /\ served' = IF valid /\ sent THEN served \cup {s} ELSE served
       /\ at' = IF valid /\ ~sent THEN "closed" ELSE at
  /\ UNCHANGED <<inbound, proven, answer, body, written, control>>

(* A datagram from s: the first one that decodes fixes the source, others  *)
(* are passed over.  The source is not compared with the address of the    *)
(* TCP connection.  A failed send ends the association.                    *)
Datagram(s) ==
  /\ at = "udp" /\ datagrams < MaxDatagrams /\ datagrams' = datagrams + 1
  /\ \E valid \in BOOLEAN, sent \in BOOLEAN :
       LET taken == valid /\ peer \in {{}, {s}} IN
       /\ peer' = IF taken THEN {s} ELSE peer
       /\ served' = IF taken /\ sent THEN served \cup {s} ELSE served
       /\ at' = IF taken /\ ~sent THEN "closed" ELSE at
  /\ UNCHANGED <<inbound, proven, answer, body, written, control>>

(* Receiving from the session is polled only once the source is known. *)
FromSession ==
  /\ at = "udp" /\ peer # {}
  /\ \/ served' = served \cup peer /\ UNCHANGED at
     \/ at' = "closed" /\ UNCHANGED served
  /\ UNCHANGED <<inbound, proven, answer, body, written, control, peer, datagrams>>

(* The TCP connection's end ends the association. *)
ControlClosed ==
  /\ at = "udp" /\ control = "shut" /\ at' = "closed"
  /\ UNCHANGED <<inbound, proven, answer, body, written, control, peer, datagrams, served>>

Handler ==
  \/ Negotiate \/ UserPass \/ Command \/ ReadRequestHead \/ OpenTunnel \/ Flush \/ Associate

LocalNext ==
  \/ Handler \/ Shut \/ Abort \/ Relayed \/ FromSession \/ ControlClosed
  \/ \E s \in Sources : Datagram(s)

-----------------------------------------------------------------------------
(* Where credentials are configured, no tunnel and no UDP session is       *)
(* opened on a connection on which they were not presented, whatever the   *)
(* peer offers and in whatever order its messages come.                    *)
OpenedOnlyWhenProven ==
  inbound.auth /\ ~proven => at \in {"greeting", "userpass", "request", "closed"} /\ written = <<>>

(* An association takes datagrams from, and answers, one address only.     *)
OneAddressPerAssociation == \A a, b \in served \cup peer : a = b

(* A local proxy opens nothing before the credentials were presented, and  *)
(* what it opens for UDP serves a single address to its end: the first to  *)
(* send a datagram that decodes.  relay_udp does not ask whose it is, so   *)
(* nothing is said of that address being the one that authenticated.       *)
ProxiesGuarded == OpenedOnlyWhenProven /\ OneAddressPerAssociation
=============================================================================
