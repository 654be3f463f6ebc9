-------------------------- MODULE MCNetcodeClient --------------------------
(* A client with two servers in its first token and one in its second; the *)
(* third token cannot be read.                                             *)
EXTENDS NetcodeClient, TLC

CONSTANTS s1, s2, t1, t2, t3

MCServers == {s1, s2}
MCTokens == {t1, t2, t3}
MCInvalid == {t3}
MCTokenServers == (t1 :> <<s1, s2>>) @@ (t2 :> <<s2>>) @@ (t3 :> <<s1>>)
OneSecond == [t \in Tokens |-> 1]
Mixed == (t1 :> 20) @@ (t2 :> 2) @@ (t3 :> 20)
=============================================================================
