----------------------------- MODULE MCGoClient -----------------------------
(* A client whose token names two servers.                                 *)
EXTENDS GoClient

CONSTANTS s1, s2

MCServers == {s1, s2}
MCTokenServers == <<s1, s2>>
=============================================================================
