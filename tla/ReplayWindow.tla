---------------------------- MODULE ReplayWindow ----------------------------
(***************************************************************************)
(* What netcode.io's replay protection promises (STANDARD.md, section      *)
(* "Replay Protection"), without the ring buffer that implements it: the   *)
(* receiver remembers the highest sequence number seen and the exact set   *)
(* of sequence numbers seen within BufferSize of it.  It refuses exactly   *)
(* the packets that are too old or were seen, and handles the others if    *)
(* they decrypt.  The answer to every packet is visible in answer.         *)
(* ReplayProtection, the ring of netcode.c, is shown to implement this.    *)
(***************************************************************************)
EXTENDS Integers

CONSTANTS
    BufferSize,     \* the replay buffer size
    HighBit         \* the first sequence number exempt from the protection

LowSequences == 0 .. HighBit - 1

VARIABLES
    top,        \* the most recent sequence number
    seen,       \* the sequence numbers seen that are still in the window
    handled,    \* how often the packet of each low sequence was handled
    answer      \* the last packet tested, and whether it was refused

windowVars == <<top, seen, handled, answer>>

InWindow(s, t) == s + BufferSize > t

WindowInit ==
    /\ top = 0
    /\ seen = {}
    /\ handled = [s \in LowSequences |-> 0]
    /\ answer = [sequence |-> 0, refused |-> FALSE]

WindowReset ==
    /\ top' = 0 /\ seen' = {} /\ handled' = [s \in LowSequences |-> 0]
    /\ UNCHANGED answer

Larger(a, b) == IF a > b THEN a ELSE b

\* A new packet in the window; it is handled if it also decrypts.
WindowFresh(s, authentic) ==
    /\ s \in LowSequences
    /\ InWindow(s, top)
    /\ s \notin seen
    /\ top' = Larger(s, top)
    /\ seen' = {x \in seen \cup {s} : InWindow(x, top')}
    /\ handled' = IF authentic THEN [handled EXCEPT ![s] = @ + 1] ELSE handled
    /\ answer' = [sequence |-> s, refused |-> FALSE]

\* A packet that is too old or was seen.
WindowRefuse(s) ==
    /\ s \in LowSequences
    /\ ~InWindow(s, top) \/ s \in seen
    /\ answer' = [sequence |-> s, refused |-> TRUE]
    /\ UNCHANGED <<top, seen, handled>>

\* A packet with a global sequence number is exempt.
WindowExempt(s) ==
    /\ s >= HighBit
    /\ answer' = [sequence |-> s, refused |-> FALSE]
    /\ UNCHANGED <<top, seen, handled>>

WindowNext ==
    \/ WindowReset
    \/ \E s \in LowSequences, authentic \in BOOLEAN : WindowFresh(s, authentic)
    \/ \E s \in 0 .. 2 * HighBit - 1 : WindowRefuse(s) \/ WindowExempt(s)

WindowSpec == WindowInit /\ [][WindowNext]_windowVars
=============================================================================
