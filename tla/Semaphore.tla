------------------------------ MODULE Semaphore ------------------------------
(***************************************************************************)
(* What a counting semaphore promises: at most Slots processes hold it, a    *)
(* process enters only while there is room, and only a holder leaves.        *)
(***************************************************************************)
EXTENDS Naturals, FiniteSets

CONSTANTS Procs, Slots

VARIABLE holders

Init == holders = {}

Acquire(p) == /\ p \notin holders
              /\ Cardinality(holders) < Slots
              /\ holders' = holders \cup {p}

Release(p) == /\ p \in holders
              /\ holders' = holders \ {p}

Next == \E p \in Procs : Acquire(p) \/ Release(p)

Spec == Init /\ [][Next]_holders
=============================================================================
