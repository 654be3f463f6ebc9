---------------------------- MODULE MCEndpoints ----------------------------
(* Two objects compete for one port and for the descriptors 1 and 2; 0 is  *)
(* standard input, which the program may close.                            *)
EXTENDS Endpoints, TLC

CONSTANTS e1, e2

TwoEnds == {e1, e2}
OnePort == {1}
=============================================================================
