---------------------------- MODULE MCPacketSize ----------------------------
EXTENDS PacketSize

(* Lengths on both sides of the points where a varint grows: a channel     *)
(* with a name of 110 and a range takes 126 bytes, one of 111 takes 127.   *)
SomeNames   == {0, 110, 112, 128}
SomeNumbers == {-1, 0, 2147483647}
SomeHandles == {0, 128, 65534}
SomeSliders == {<<0, 100, 1, 50>>, <<2147483646, 2147483647, 300, 2147483646>>, <<-10, -1, 1, -5>>}
SomeTimes   == {2097151, 2097152, 2147483647}
=============================================================================
