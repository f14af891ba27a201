---------------------------- MODULE MCServerList ----------------------------
EXTENDS ServerList, Bitwise

(* Two hosts, one of them with two servers: the second server of a host    *)
(* gets the next port.  <<2, 4>> and <<3, 5>> have the same key.           *)
ThreeServers == {<<2, 4>>, <<2, 5>>, <<3, 5>>}
TwoServers   == {<<2, 4>>, <<2, 5>>}
PortXorAddress == [s \in Servers |-> s[1] ^^ s[2]]
=============================================================================
