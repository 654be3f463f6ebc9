---------------------------- MODULE MCPacketPath ----------------------------
(* An instance of PacketPath: two servers, one of them with an IPv6 address *)
(* whose words use both bytes.                                              *)
EXTENDS PacketPath, TLC

FourBytes == [type |-> IPV4, data |-> <<1, 0>>, port |-> 2]
EightWords == [type |-> IPV6, data |-> <<1, 2>>, port |-> 1]
TwoServers == <<FourBytes, EightWords>>
OneToken == <<1>>
Eight == 1 .. 8
=============================================================================
