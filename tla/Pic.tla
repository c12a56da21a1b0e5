-------------------------------- MODULE Pic --------------------------------
(***************************************************************************)
(* The pair of 8259 interrupt controllers as pic_init (shv-pic.c) sets them  *)
(* up: edge triggered, fully nested, no automatic EOI, the slave on line 2   *)
(* of the master, nothing masked. A controller is a record of its requests  *)
(* (irr) and of the lines in service (isr); lines of the slave are 8 to 15.  *)
(***************************************************************************)
EXTENDS Integers

MasterLines == 0..7
SlaveLines == 8..15
Cascade == 2

Idle == [irr |-> {}, isr |-> {}]

Lowest(S) == CHOOSE i \in S : \A j \in S : i <= j

\* The requests that no line in service holds back.
Serviceable(p) == {i \in p.irr : \A j \in p.isr : i < j}

\* An edge on a line.
Raise(p, i) == [p EXCEPT !.irr = @ \cup {i}]

\* The processor acknowledges line i.
Ack(p, i) == [irr |-> p.irr \ {i}, isr |-> p.isr \cup {i}]

\* A non-specific EOI ends the service of the line of the highest priority.
Eoi(p) == [p EXCEPT !.isr = IF @ = {} THEN {} ELSE @ \ {Lowest(@)}]

\* The master with the request of the slave.
Pending(m, s) == IF Serviceable(s) = {} THEN m ELSE Raise(m, Cascade)
=============================================================================
