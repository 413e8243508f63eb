------------------------------ MODULE MCServer ------------------------------
(* Small instances of Handshake and TcpProxy for TLC. *)
EXTENDS TcpProxy

CONSTANTS c1, c2, s1, u1

RateSet == {0, 1, 2}
Offers == [client : [tx : RateSet, rx : RateSet], server : [tx : RateSet, rx : RateSet, auto : BOOLEAN]]
AnOffer == [client |-> [tx |-> 2, rx |-> 1], server |-> [tx |-> 2, rx |-> 1, auto |-> FALSE]]

NoStream == [streams |-> {}, fast |-> FALSE, hooks |-> {}, up |-> 0, down |-> 0, kicks |-> 0]
Kinds(k1, k2) == [c \in Conns |-> IF c = c1 THEN k1 ELSE k2]

(* Every offer on one connection; *)
Negotiations ==
  [offer : Offers, kinds : {Kinds({"auth"}, {})}, settled : {{}}, relay : {NoStream}]

(* two connections, one of them with every kind of request; *)
Handshakes ==
  [offer : {AnOffer}, kinds : {Kinds({"auth", "refused", "web"}, {"auth"})}, settled : {{}},
   relay : {NoStream}]

(* one stream with several chunks; *)
LongStreams ==
  [offer : {AnOffer}, kinds : {Kinds({}, {})}, settled : {{c1}},
   relay : [streams : {{s1}}, fast : BOOLEAN, hooks : {BOOLEAN}, up : {2}, down : {1}, kicks : {0}]]

(* and two connections of one user, one of them with a stream. *)
TwoConnections ==
  [offer : {AnOffer}, kinds : {Kinds({}, {})}, settled : {{c1, c2}},
   relay : [streams : {{s1}}, fast : {TRUE}, hooks : {BOOLEAN}, up : {1}, down : {0}, kicks : {1}]]

AllScenarios == Negotiations \cup Handshakes \cup LongStreams \cup TwoConnections
StreamConn == [s \in Streams |-> c1]
ConnUser == [c \in Conns |-> u1]
=============================================================================
