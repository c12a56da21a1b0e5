------------------------------- MODULE MCBoot -------------------------------
(* Bring-up on a machine with four CPUs: a BSP, two APs, and one CPU that     *)
(* answers the SIPI broadcast although not every MADT lists it.               *)
EXTENDS Boot

CONSTANTS b, a1, a2, u

MCCpus == {b, a1, a2, u}

Cpu(id, on) == [type |-> 0, enabled |-> on, lapicid |-> id]
IoApic(id)  == [type |-> 1, enabled |-> TRUE, lapicid |-> id]

MCMadts ==
  { << Cpu(b, TRUE), Cpu(u, FALSE), Cpu(a1, TRUE), IoApic(b), Cpu(a2, TRUE) >>,
    << IoApic(a1), Cpu(b, TRUE), Cpu(a2, TRUE) >>,
    << Cpu(b, TRUE) >>,
    << Cpu(b, TRUE), Cpu(a1, TRUE), Cpu(a2, TRUE), Cpu(u, TRUE) >>,
    << IoApic(b) >> }
=============================================================================
