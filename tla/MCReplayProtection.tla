------------------------- MODULE MCReplayProtection -------------------------
(* ReplayProtection with a ring of 3 slots and 4-bit sequence numbers: the *)
(* window slides over the ring more than twice.                            *)
EXTENDS ReplayProtection

MCBufferSize == 3
MCHighBit == 8
=============================================================================
