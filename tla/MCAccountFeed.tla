--------------------------- MODULE MCAccountFeed ---------------------------
(* AccountFeed for TLC: one order through its whole life, and a fault.     *)
EXTENDS AccountFeed
CONSTANTS o1, o2

\* Bound: two sockets of one generation, each at its own pace, are followed through
\* an order and its fill.  With one fault the race lasts to the end of the instance,
\* so nothing that is not a race is lost with a third reply to it.
ShortRace == Raced => Len(log) < MaxReplies
=============================================================================
