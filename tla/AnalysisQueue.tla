---------------------------- MODULE AnalysisQueue ---------------------------
(***************************************************************************)
(* What the queue and its worker promise: an accepted request for an       *)
(* analysis yields at most one saved result, a result answers a request,   *)
(* and a request may be dropped without one.                               *)
(***************************************************************************)
EXTENDS Naturals

VARIABLES
    asked,      \* requests accepted so far; they are numbered
    open,       \* requests that may still yield a result
    results     \* results[n]: saved results of request n

aqVars == <<asked, open, results>>

Init == asked = 0 /\ open = {} /\ results = [n \in 1..asked |-> 0]

Ask ==
    /\ asked' = asked + 1
    /\ open' = open \cup {asked + 1}
    /\ results' = [n \in 1..(asked + 1) |-> IF n <= asked THEN results[n] ELSE 0]

Serve(n) ==
    /\ n \in open /\ results[n] = 0
    /\ results' = [results EXCEPT ![n] = 1]
    /\ open' = open \ {n}
    /\ UNCHANGED asked

Drop(lost) ==
    /\ lost # {}
    /\ open' = open \ lost
    /\ UNCHANGED <<asked, results>>

Next == Ask \/ (\E n \in open : Serve(n)) \/ (\E lost \in SUBSET open : Drop(lost))

Spec == Init /\ [][Next]_aqVars
=============================================================================
