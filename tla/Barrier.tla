------------------------------- MODULE Barrier -------------------------------
(***************************************************************************)
(* What a one-shot barrier promises: nobody leaves before everybody has      *)
(* arrived, and nobody arrives twice.  The two counting barriers of the      *)
(* bring-up code (kernel_main_smp and shv_main) implement it.                *)
(***************************************************************************)
VARIABLES
  members,   \* who takes part; fixed
  arrived,   \* who has announced itself
  left       \* who has gone on

vars == <<members, arrived, left>>

Init == arrived = {} /\ left = {}

Arrive(p) ==
  /\ p \in members \ arrived
  /\ arrived' = arrived \cup {p}
  /\ UNCHANGED <<members, left>>

Leave(p) ==
  /\ arrived = members
  /\ p \in members \ left
  /\ left' = left \cup {p}
  /\ UNCHANGED <<members, arrived>>

Next == \E p \in members : Arrive(p) \/ Leave(p)

Spec == Init /\ [][Next]_vars
=============================================================================
