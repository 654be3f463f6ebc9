----------------------------- MODULE MCGoServer -----------------------------
(* Two clients with a token each and three addresses for a table of two    *)
(* entries: the first client's token is used from two of them.             *)
EXTENDS GoServer, TLC

CONSTANTS a1, a2, a3, t1, t2, c1, c2

MCAddresses == {a1, a2, a3}
MCTokens == {t1, t2}
MCTokenId == (t1 :> c1) @@ (t2 :> c2)
MCUses == {<<t1, a1>>, <<t1, a2>>, <<t2, a3>>}

\* The token history decides nothing in the Go server, its answer is only
\* logged: states that differ in it alone are explored once.
WithoutTokenHistory ==
    <<running, panicked, time, phase, instance, table, backlog, receiver, burst,
      sources, accepted, disturbed>>
=============================================================================
