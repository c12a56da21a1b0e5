----------------------------- MODULE MCMemType -----------------------------
(* Fixed MTRRs that differ in one byte, and no variable ones.                *)
EXTENDS MemType

\* One byte says UC, all others WB.
MCFixed ==
  {[c \in (1..11) \X (0..7) |-> IF c = d THEN "UC" ELSE "WB"] :
     d \in (1..11) \X (0..7)}
NoVarMtrrs == {<< >>}
=============================================================================
