------------------------------- MODULE Meter -------------------------------
(* What a quota promises: a counter grants at most its limit.              *)
EXTENDS Naturals

CONSTANTS Counters, Limit

VARIABLE granted    \* granted[c]: uses granted so far

Init == granted = [c \in Counters |-> 0]

Grant(c) ==
    /\ granted[c] < Limit[c]
    /\ granted' = [granted EXCEPT ![c] = @ + 1]

Next == \E c \in Counters : Grant(c)

Spec == Init /\ [][Next]_granted
=============================================================================
