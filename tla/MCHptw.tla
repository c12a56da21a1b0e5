------------------------------- MODULE MCHptw -------------------------------
(***************************************************************************)
(* Small page maps for TLC, with enough levels and few enough pages to put  *)
(* pages over page maps and to run out of them half way down.               *)
(***************************************************************************)
EXTENDS Hptw

\* Clients that ask for no access and for all.
MCProts == {{}, {"R", "W", "X"}}
=============================================================================
