----------------------------- MODULE MCUserMode -----------------------------
(* Three CPUs compete for two slots.                                         *)
EXTENDS UserMode, TLC

Symmetry == Permutations(Cpus)

\* Configurations with a user mode test, without the ones of MCNestedMsr.
MCOptions == {o \in AllOptions :
                (o.user \/ o.nested) /\ ((o.xmhf /\ o.msr) => o.user)}

\* In XMHF, the MSR test and the user mode test of the guest only.
MCNestedMsr == {o \in AllOptions : o.xmhf /\ o.msr /\ o.nested /\ ~ o.user}

\* In XMHF, both user mode tests, without and with the MSR test.
MCLive == {o \in AllOptions : o.xmhf /\ o.user /\ o.nested}
=============================================================================
