----------------------------- MODULE BootProofs -----------------------------
(***************************************************************************)
(* Proofs about Boot, for any number of CPUs, any firmware tables and any    *)
(* options: type correctness; no CPU accepts an interrupt before the         *)
(* interrupt descriptor tables, the IDTR and the 8259s are set up; every CPU  *)
(* gets a VCPU of its own; only CPUs that the MADT does not list park; no     *)
(* ASSERT fails that is not about the machine; and both barriers implement   *)
(* the abstract one.                                                         *)
(***************************************************************************)
EXTENDS Boot, FiniteSetTheorems, SequenceTheorems, TLAPS

\* The CPUs smp_getinfo has put into g_cpumap so far.
Members == {cpumap[i] : i \in DOMAIN cpumap}

\* Program counters of a CPU that has adopted a VCPU (a CPU in Halted may or
\* may not have one).
Active == Location \ (Unstarted \cup {"getvcpu"} \cup Halted)

\* g_cpumap has a slot for every member, and a CPU runs beyond the search of
\* init_core_lowlevel_setup only as a member; the first entry is VCPU 0.
TablesInv ==
  /\ IsFiniteSet(Members)
  /\ Cardinality(Members) <= Len(cpumap)
  /\ \A c \in Cpus :
       /\ pc[c] \in Active => idx[c] # -1
       /\ pc[c] \in Unstarted \cup {"getvcpu"} => idx[c] = -1
       /\ idx[c] # -1 => c \in Members /\ midtable = cpumap
       /\ (idx[c] # -1 /\ c = cpumap[1]) => idx[c] = 0

\* Until wakeupAPs sends the startup IPIs the BSP is alone.
BspInv ==
  /\ \A c \in Cpus : pc[c] \in AtBsp => c = Bsp
  /\ pc[Bsp] \in {"smp_getinfo", "smp_init", "send_init", "send_sipi"}
       => \A c \in Cpus \ {Bsp} : pc[c] \in {"reset", "wait_sipi"}
  /\ \A c \in Cpus : pc[c] = "getvcpu" => midtable = cpumap
  /\ pc[Bsp] \in {"send_init", "send_sipi", "send_sipi_2"} => midtable = cpumap

\* The counter of the second barrier counts the CPUs that arrived there, and
\* a CPU beyond it saw the counter at g_midtable_numentries.
Arrived2 == {c \in Cpus : idx[c] # -1 /\ pc[c] \in {"barrier2_spin"} \cup Past2}
CountInv ==
  /\ count2 = Cardinality(Arrived2)
  /\ \A c \in Cpus : idx[c] # -1 /\ pc[c] \in Past2 => count2 >= Len(cpumap)

\* Who has done what to the interrupt tables when.
PastCheck == {"idt_host", "idt_guest", "lidt", "barrier2_spin"}
               \cup BeforeArrive2 \cup Past2
IdtInv ==
  /\ initialized => \/ idt = {"host", "guest"}
                    \/ \E d \in Cpus : pc[d] \in {"idt_host", "idt_guest"}
  /\ \A c \in Cpus :
       /\ idx[c] # -1 /\ pc[c] \in PastCheck => initialized
       /\ pc[c] = "idt_guest" => "host" \in idt
       /\ idx[c] # -1 /\ pc[c] \in {"barrier2_spin"} \cup BeforeArrive2 \cup Past2
            => c \in idtr
       /\ idx[c] = 0 /\ pc[c] \in {"barrier2", "barrier2_spin"} \cup Past2 => pic

\* Interrupts are enabled beyond the second barrier only.
FlagInv ==
  \A c \in Cpus : eflagsIF[c] => idx[c] # -1 /\ pc[c] \in Past2

IInv == TypeOK /\ TablesInv /\ BspInv /\ CountInv /\ IdtInv /\ FlagInv

(* Type correctness. *)

\* The machine as smp_init finds it is well typed.
LEMMA TypeInit == Init => TypeOK
<1> SUFFICES ASSUME Init PROVE TypeOK
  OBVIOUS
<1> USE BootAssumption DEF Init
<1>1. pc \in [Cpus -> Location]
  BY DEF Location, Unstarted, AtBsp
<1>2. cpumap \in Seq(Cpus) /\ midtable \in Seq(Cpus)
  OBVIOUS
<1>3. pit_time \in 0..MaxTime /\ lapic_time \in [Cpus -> 0..MaxTime]
  OBVIOUS
<1>4. eflagsIF \in [Cpus -> BOOLEAN]
  BY Zenon
<1>5. idx \in [Cpus -> Int]
  OBVIOUS
<1>6. idt \subseteq {"host", "guest"} /\ idtr \subseteq Cpus
        /\ lapicTimer \subseteq Cpus
  OBVIOUS
<1>7. rec \in Nat \ {0} /\ count1 \in Nat /\ count2 \in Nat /\ lock \in {0, 1}
        /\ pit \in {"bios", "square", "oneshot", "idle"}
  OBVIOUS
<1>8. /\ initialized \in BOOLEAN /\ pic \in BOOLEAN /\ irr0 \in BOOLEAN
      /\ isr0 \in BOOLEAN /\ shot_arrived \in BOOLEAN
      /\ opt \in Options /\ madt \in Madts
  BY Zenon
<1> QED
  BY <1>1, <1>2, <1>3, <1>4, <1>5, <1>6, <1>7, <1>8, Zenon DEF TypeOK

\* Every step of the bring-up code keeps the types.
LEMMA TypeNext == TypeOK /\ [Next]_vars => TypeOK'
<1> SUFFICES ASSUME TypeOK, [Next]_vars PROVE TypeOK'
  OBVIOUS
<1> USE BootAssumption DEF TypeOK, Goto, tables, idtVars, devices
<1>1. CASE SmpGetinfo
  <2> DEFINE Record == [type : Nat, enabled : BOOLEAN, lapicid : Cpus]
  <2>0. madt \in Seq(Record)
    BY Zenon DEF FirmwareMadt
  <2>1. rec \in 1..Len(madt)
    BY <1>1, <2>0 DEF SmpGetinfo
  <2>2. madt[rec] \in Record
    <3> HIDE DEF Record
    <3> QED BY <2>0, <2>1, ElementOfSeq
  <2>5. madt[rec].lapicid \in Cpus
    BY <2>2
  <2>6. Append(cpumap, madt[rec].lapicid) \in Seq(Cpus)
    BY <2>5, AppendProperties
  <2>3. cpumap' \in Seq(Cpus)
    BY <1>1, <2>6, Zenon DEF SmpGetinfo
  <2>7. rec' \in Nat \ {0}
    BY <1>1 DEF SmpGetinfo
  <2>4. pc' \in [Cpus -> Location]
    BY <1>1 DEF SmpGetinfo, Location, Past2, Halted
  <2> QED
    BY <1>1, <2>3, <2>4, <2>7, Zenon DEF SmpGetinfo
<1>2. CASE SmpGetinfoReturn
  BY <1>2 DEF SmpGetinfoReturn, numentries, Location, Unstarted, AtBsp, BeforeArrive1, Past2, Halted
<1>3. CASE SmpInit
  BY <1>3 DEF SmpInit, Filled, Location, Unstarted, AtBsp, BeforeArrive1, Past2, Halted
<1>4. CASE SendInit
  BY <1>4 DEF SendInit, Location, Unstarted, AtBsp, BeforeArrive1, Past2, Halted
<1>5. CASE SendFirstSipi
  BY <1>5 DEF SendFirstSipi, Location, Unstarted, AtBsp, BeforeArrive1, Past2, Halted
<1>6. CASE SendSecondSipi
  BY <1>6 DEF SendSecondSipi, Location, Unstarted, AtBsp, BeforeArrive1, Past2, Halted
<1>7. CASE PitTick
  BY <1>7 DEF PitTick, Location, Unstarted, AtBsp, BeforeArrive1, Past2, Halted
<1>8. CASE PitInterrupt
  <2>1. isr0' \in BOOLEAN
    BY <1>8 DEF PitInterrupt, NoEoi, Options
  <2>2. shot_arrived' \in BOOLEAN
    BY <1>8, Zenon DEF PitInterrupt
  <2>3. pit_time' \in 0..MaxTime
    BY <1>8 DEF PitInterrupt
  <2>4. pc' \in [Cpus -> Location]
    BY <1>8, ZenonT(60) DEF PitInterrupt, Wake, Location, Past2, Halted
  <2> QED
    BY <1>8, <2>1, <2>2, <2>3, <2>4 DEF PitInterrupt
<1>9. ASSUME NEW c \in Cpus, CpuStep(c) \/ LapicInterrupt(c) PROVE TypeOK'
  <2>1. CASE GetVcpu(c)
    <3>1. idx' \in [Cpus -> Int]
      BY <2>1 DEF GetVcpu, Slots
    <3>2. pc' \in [Cpus -> Location]
      BY <2>1 DEF GetVcpu, Location, BeforeArrive1, Past2, Halted
    <3> QED
      BY <2>1, <3>1, <3>2 DEF GetVcpu
  <2>2. CASE Barrier1Arrive(c)
    BY <2>2 DEF Barrier1Arrive, Location, Unstarted, BeforeArrive1, InIdt, BeforeArrive2, Past2, Halted
  <2>3. CASE Barrier1Leave(c)
    BY <2>3 DEF Barrier1Leave, Location, Unstarted, BeforeArrive1, InIdt, BeforeArrive2, Past2, Halted
  <2>4. CASE IdtLock(c)
    BY <2>4 DEF IdtLock, Location, Unstarted, BeforeArrive1, InIdt, BeforeArrive2, Past2, Halted
  <2>5. CASE IdtCheck(c)
    BY <2>5 DEF IdtCheck, Unlocked, Location, Unstarted, BeforeArrive1, InIdt, BeforeArrive2, Past2, Halted
  <2>6. CASE IdtBuildHost(c)
    BY <2>6 DEF IdtBuildHost, Location, Unstarted, BeforeArrive1, InIdt, BeforeArrive2, Past2, Halted
  <2>7. CASE IdtBuildGuest(c)
    BY <2>7 DEF IdtBuildGuest, Location, Unstarted, BeforeArrive1, InIdt, BeforeArrive2, Past2, Halted
  <2>8. CASE Lidt(c)
    BY <2>8 DEF Lidt, Location, Unstarted, BeforeArrive1, InIdt, BeforeArrive2, Past2, Halted
  <2>9. CASE ShvMain(c)
    BY <2>9 DEF ShvMain, isbsp, Location, Unstarted, BeforeArrive1, InIdt, BeforeArrive2, Past2, Halted
  <2>10. CASE Barrier2Arrive(c)
    BY <2>10 DEF Barrier2Arrive, Location, Unstarted, BeforeArrive1, InIdt, BeforeArrive2, Past2, Halted
  <2>11. CASE Barrier2Leave(c)
    BY <2>11 DEF Barrier2Leave, Location, Unstarted, BeforeArrive1, InIdt, BeforeArrive2, Past2, Halted
  <2>12. CASE NmiCheck(c)
    BY <2>12 DEF NmiCheck, numentries, Location, Unstarted, BeforeArrive1, InIdt, BeforeArrive2, Past2, Halted
  <2>13. CASE TimerInit(c)
    BY <2>13 DEF TimerInit, isbsp, Location, Unstarted, BeforeArrive1, InIdt, BeforeArrive2, Past2, Halted
  <2>14. CASE OneShotCli(c)
    BY <2>14 DEF OneShotCli, Location, Unstarted, BeforeArrive1, InIdt, BeforeArrive2, Past2, Halted
  <2>15. CASE VgaArt(c)
    BY <2>15 DEF VgaArt, Location, Unstarted, BeforeArrive1, InIdt, BeforeArrive2, Past2, Halted
  <2>16. CASE PagingDemo(c)
    BY <2>16 DEF PagingDemo, Location, Unstarted, BeforeArrive1, InIdt, BeforeArrive2, Past2, Halted
  <2>17. CASE Sti(c)
    BY <2>17 DEF Sti, isbsp, Location, Unstarted, BeforeArrive1, InIdt, BeforeArrive2, Past2, Halted
  <2>18. CASE LapicInterrupt(c)
    BY <2>18 DEF LapicInterrupt, Location, Unstarted, BeforeArrive1, InIdt, BeforeArrive2, Past2, Halted
  <2> QED
    BY <1>9, <2>1, <2>2, <2>3, <2>4, <2>5, <2>6, <2>7, <2>8, <2>9, <2>10, <2>11, <2>12, <2>13, <2>14, <2>15, <2>16, <2>17, <2>18 DEF CpuStep
<1>10. CASE UNCHANGED vars
  BY <1>10 DEF vars
<1> QED
  BY <1>1, <1>2, <1>3, <1>4, <1>5, <1>6, <1>7, <1>8, <1>9, <1>10 DEF Next, BspStep, Interrupt

(* The tables and the BSP's start-up sequence. *)

\* The APs stay out until wakeupAPs sends the startup IPIs.
LEMMA BspNext ==
  ASSUME TypeOK, TypeOK', BspInv, FlagInv, [Next]_vars
  PROVE  BspInv'
<1> USE BootAssumption DEF TypeOK, Goto, tables, idtVars, devices, Location, Unstarted, AtBsp, BeforeArrive1, InIdt, BeforeArrive2, Past2,
           Halted, BspInv, FlagInv
<1>1. CASE SmpGetinfo
  <2>1. pc[Bsp] = "smp_getinfo" /\ (UNCHANGED pc \/ pc' = [pc EXCEPT ![Bsp] = "failed"])
    BY <1>1 DEF SmpGetinfo
  <2>2. \A c \in Cpus \ {Bsp} : pc'[c] = pc[c] /\ pc[c] \in {"reset", "wait_sipi"}
    BY <2>1, SMTT(60)
  <2>3. pc'[Bsp] \in {"smp_getinfo", "failed"}
    BY <2>1
  <2>4. /\ \A c \in Cpus : pc'[c] \in AtBsp => c = Bsp
        /\ \A c \in Cpus \ {Bsp} : pc'[c] \in {"reset", "wait_sipi"}
        /\ pc'[Bsp] \notin {"send_init", "send_sipi", "send_sipi_2"}
    BY <2>2, <2>3
  <2>5. \A c \in Cpus : pc'[c] # "getvcpu"
    BY <2>2, <2>3
  <2> HIDE DEF TypeOK
  <2> QED
    BY <2>4, <2>5
<1>2. CASE SmpGetinfoReturn
  BY <1>2 DEF SmpGetinfoReturn, numentries
<1>3. CASE SmpInit
  BY <1>3 DEF SmpInit, Filled
<1>4. CASE SendInit
  BY <1>4 DEF SendInit
<1>5. CASE SendFirstSipi
  BY <1>5 DEF SendFirstSipi
<1>6. CASE SendSecondSipi
  BY <1>6 DEF SendSecondSipi
<1>7. CASE PitTick
  BY <1>7 DEF PitTick
<1>8. CASE PitInterrupt
  BY <1>8 DEF PitInterrupt, Wake
<1>9. ASSUME NEW c \in Cpus, CpuStep(c) \/ LapicInterrupt(c) PROVE BspInv'
  <2>1. CASE GetVcpu(c)
    <3>1. pc[c] = "getvcpu" /\ UNCHANGED <<tables, eflagsIF, count2, idtVars, pic>>
      BY <2>1 DEF GetVcpu
    <3>2. \A d \in Cpus : pc'[d] = pc[d] \/ (d = c /\ pc'[c] \in {"barrier1", "halt"})
      BY <2>1 DEF GetVcpu
    <3>3. \A d \in Cpus \ {c} : idx'[d] = idx[d]
      BY <2>1 DEF GetVcpu
    <3> QED
      BY <3>1, <3>2, <3>3
  <2>2. CASE Barrier1Arrive(c)
    BY <2>2 DEF Barrier1Arrive
  <2>3. CASE Barrier1Leave(c)
    BY <2>3 DEF Barrier1Leave, Barrier1Open, numentries
  <2>4. CASE IdtLock(c)
    BY <2>4 DEF IdtLock
  <2>5. CASE IdtCheck(c)
    BY <2>5 DEF IdtCheck, Unlocked
  <2>6. CASE IdtBuildHost(c)
    BY <2>6 DEF IdtBuildHost
  <2>7. CASE IdtBuildGuest(c)
    BY <2>7 DEF IdtBuildGuest
  <2>8. CASE Lidt(c)
    BY <2>8 DEF Lidt
  <2>9. CASE ShvMain(c)
    BY <2>9 DEF ShvMain, isbsp
  <2>10. CASE Barrier2Arrive(c)
    BY <2>10 DEF Barrier2Arrive
  <2>11. CASE Barrier2Leave(c)
    BY <2>11 DEF Barrier2Leave, Barrier2Open, numentries
  <2>12. CASE NmiCheck(c)
    BY <2>12, SMTT(60) DEF NmiCheck, numentries
  <2>13. CASE TimerInit(c)
    <3>1. \A d \in Cpus : pc'[d] = pc[d] \/ (d = c /\ pc'[c] \in Past2)
      BY <2>13 DEF TimerInit
    <3>2. pc[c] = "timer_init" /\ UNCHANGED <<tables, idx, count2, idtVars, pic>>
      BY <2>13 DEF TimerInit
    <3> QED
      BY <3>1, <3>2, ZenonT(60)
  <2>14. CASE OneShotCli(c)
    BY <2>14 DEF OneShotCli
  <2>15. CASE VgaArt(c)
    BY <2>15 DEF VgaArt
  <2>16. CASE PagingDemo(c)
    BY <2>16 DEF PagingDemo
  <2>17. CASE Sti(c)
    BY <2>17 DEF Sti, isbsp
  <2>18. CASE LapicInterrupt(c)
    BY <2>18 DEF LapicInterrupt
  <2> QED
    BY <1>9, <2>1, <2>2, <2>3, <2>4, <2>5, <2>6, <2>7, <2>8, <2>9, <2>10, <2>11, <2>12, <2>13, <2>14, <2>15, <2>16, <2>17, <2>18 DEF CpuStep
<1>10. CASE UNCHANGED vars
  BY <1>10 DEF vars
<1> QED
  BY <1>1, <1>2, <1>3, <1>4, <1>5, <1>6, <1>7, <1>8, <1>9, <1>10 DEF Next, BspStep, Interrupt

\* IF is set beyond the second barrier only, and nothing moves a CPU back.
LEMMA FlagNext ==
  ASSUME TypeOK, TypeOK', TablesInv, BspInv, FlagInv, [Next]_vars
  PROVE  FlagInv'
<1> USE BootAssumption DEF TypeOK, Goto, tables, idtVars, devices, Location, Unstarted, AtBsp, BeforeArrive1, InIdt, BeforeArrive2, Past2,
           Halted, FlagInv
<1>1. CASE SmpGetinfo
  BY <1>1 DEF SmpGetinfo, numentries
<1>2. CASE SmpGetinfoReturn
  BY <1>2 DEF SmpGetinfoReturn, numentries
<1>3. CASE SmpInit
  BY <1>3 DEF SmpInit, Filled
<1>4. CASE SendInit
  <2>1. \A d \in Cpus : ~ eflagsIF[d]
    BY <1>4 DEF SendInit, BspInv, TablesInv
  <2> QED
    BY <1>4, <2>1 DEF SendInit
<1>5. CASE SendFirstSipi
  <2>1. \A d \in Cpus : ~ eflagsIF[d]
    BY <1>5 DEF SendFirstSipi, BspInv, TablesInv
  <2> QED
    BY <1>5, <2>1 DEF SendFirstSipi
<1>6. CASE SendSecondSipi
  BY <1>6 DEF SendSecondSipi
<1>7. CASE PitTick
  BY <1>7 DEF PitTick
<1>8. CASE PitInterrupt
  <2>1. UNCHANGED <<idx, eflagsIF>> /\ eflagsIF[Bsp]
    BY <1>8 DEF PitInterrupt
  <2>2. \A d \in Cpus : pc'[d] = pc[d] \/ (d = Bsp /\ pc'[Bsp] \in Past2)
    BY <1>8 DEF PitInterrupt, Wake
  <2> QED
    BY <2>1, <2>2
<1>9. ASSUME NEW c \in Cpus, CpuStep(c) \/ LapicInterrupt(c) PROVE FlagInv'
  <2>1. CASE GetVcpu(c)
    <3>1. pc[c] = "getvcpu" /\ UNCHANGED <<tables, eflagsIF, count2, idtVars, pic>>
      BY <2>1 DEF GetVcpu
    <3>2. \A d \in Cpus : pc'[d] = pc[d] \/ (d = c /\ pc'[c] \in {"barrier1", "halt"})
      BY <2>1 DEF GetVcpu
    <3>3. \A d \in Cpus \ {c} : idx'[d] = idx[d]
      BY <2>1 DEF GetVcpu
    <3> QED
      BY <3>1, <3>2, <3>3
  <2>2. CASE Barrier1Arrive(c)
    BY <2>2 DEF Barrier1Arrive
  <2>3. CASE Barrier1Leave(c)
    BY <2>3 DEF Barrier1Leave, Barrier1Open, numentries
  <2>4. CASE IdtLock(c)
    BY <2>4 DEF IdtLock
  <2>5. CASE IdtCheck(c)
    BY <2>5 DEF IdtCheck, Unlocked
  <2>6. CASE IdtBuildHost(c)
    BY <2>6 DEF IdtBuildHost
  <2>7. CASE IdtBuildGuest(c)
    BY <2>7 DEF IdtBuildGuest
  <2>8. CASE Lidt(c)
    BY <2>8 DEF Lidt
  <2>9. CASE ShvMain(c)
    BY <2>9 DEF ShvMain, isbsp
  <2>10. CASE Barrier2Arrive(c)
    BY <2>10 DEF Barrier2Arrive
  <2>11. CASE Barrier2Leave(c)
    BY <2>11 DEF Barrier2Leave, Barrier2Open, numentries
  <2>12. CASE NmiCheck(c)
    BY <2>12 DEF NmiCheck, numentries
  <2>13. CASE TimerInit(c)
    <3>1. \A d \in Cpus : eflagsIF'[d] => d = c \/ eflagsIF[d]
      BY <2>13 DEF TimerInit, isbsp
    <3>2. pc[c] = "timer_init" /\ UNCHANGED idx
      BY <2>13 DEF TimerInit, isbsp
    <3>3. \A d \in Cpus : pc'[d] = pc[d] \/ (d = c /\ pc'[c] \in Past2)
      BY <2>13 DEF TimerInit, isbsp
    <3>4. idx[c] # -1
      BY <3>2 DEF TablesInv, Active
    <3> QED
      BY <3>1, <3>2, <3>3, <3>4
  <2>14. CASE OneShotCli(c)
    BY <2>14 DEF OneShotCli
  <2>15. CASE VgaArt(c)
    BY <2>15 DEF VgaArt
  <2>16. CASE PagingDemo(c)
    <3>1. \A d \in Cpus : eflagsIF'[d] => d = c \/ eflagsIF[d]
      BY <2>16 DEF PagingDemo
    <3>2. pc[c] = "paging_demo" /\ UNCHANGED idx
      BY <2>16 DEF PagingDemo
    <3>3. \A d \in Cpus : pc'[d] = pc[d] \/ (d = c /\ pc'[c] \in Past2)
      BY <2>16 DEF PagingDemo
    <3>4. idx[c] # -1
      BY <3>2 DEF TablesInv, Active
    <3> QED
      BY <3>1, <3>2, <3>3, <3>4
  <2>17. CASE Sti(c)
    <3>1. \A d \in Cpus : eflagsIF'[d] => d = c \/ eflagsIF[d]
      BY <2>17 DEF Sti, isbsp
    <3>2. pc[c] = "sti" /\ UNCHANGED idx
      BY <2>17 DEF Sti, isbsp
    <3>3. \A d \in Cpus : pc'[d] = pc[d] \/ (d = c /\ pc'[c] \in Past2)
      BY <2>17 DEF Sti, isbsp
    <3>4. idx[c] # -1
      BY <3>2 DEF TablesInv, Active
    <3> QED
      BY <3>1, <3>2, <3>3, <3>4
  <2>18. CASE LapicInterrupt(c)
    BY <2>18 DEF LapicInterrupt
  <2> QED
    BY <1>9, <2>1, <2>2, <2>3, <2>4, <2>5, <2>6, <2>7, <2>8, <2>9, <2>10, <2>11, <2>12, <2>13, <2>14, <2>15, <2>16, <2>17, <2>18 DEF CpuStep
<1>10. CASE UNCHANGED vars
  BY <1>10 DEF vars
<1> QED
  BY <1>1, <1>2, <1>3, <1>4, <1>5, <1>6, <1>7, <1>8, <1>9, <1>10 DEF Next, BspStep, Interrupt

\* Adding an element to a finite set.
LEMMA AddOne ==
  ASSUME NEW S, NEW x, IsFiniteSet(S)
  PROVE  /\ IsFiniteSet(S \cup {x})
         /\ Cardinality(S) \in Nat
         /\ Cardinality(S \cup {x}) <= Cardinality(S) + 1
         /\ x \notin S => Cardinality(S \cup {x}) = Cardinality(S) + 1
<1>1. IsFiniteSet(S \cup {x})
  BY FS_AddElement, Zenon
<1>2. Cardinality(S \cup {x}) = IF x \in S THEN Cardinality(S) ELSE Cardinality(S) + 1
  BY FS_AddElement, Zenon
<1>3. Cardinality(S) \in Nat
  BY FS_CardinalityType
<1> QED
  BY <1>1, <1>2, <1>3

\* Appending to a sequence adds at most one element to its range.
LEMMA MembersAppend ==
  ASSUME NEW S, NEW s \in Seq(S), NEW x \in S, NEW t, t = Append(s, x),
         NEW old, old = {s[i] : i \in DOMAIN s}, IsFiniteSet(old),
         NEW new, new = {t[i] : i \in DOMAIN t}
  PROVE  IsFiniteSet(new) /\ Cardinality(new) <= Cardinality(old) + 1
<1>1. /\ DOMAIN s = 1..Len(s) /\ DOMAIN t = 1..(Len(s) + 1) /\ Len(s) \in Nat
      /\ \A i \in 1..Len(s) : t[i] = s[i]
      /\ t[Len(s) + 1] = x
  BY AppendProperties
<1>2. \A y \in old : y \in new
  BY <1>1
<1>3. x \in new
  <2>1. Len(s) + 1 \in DOMAIN t
    BY <1>1
  <2> QED BY <1>1, <2>1
<1>4. \A y \in new : y \in old \/ y = x
  <2> SUFFICES ASSUME NEW i \in DOMAIN t PROVE t[i] \in old \/ t[i] = x
    OBVIOUS
  <2>1. i \in 1..Len(s) \/ i = Len(s) + 1
    BY <1>1
  <2> QED BY <1>1, <2>1
<1>5. new = old \cup {x}
  BY <1>2, <1>3, <1>4
<1> QED
  <2>1. /\ IsFiniteSet(old \cup {x})
        /\ Cardinality(old \cup {x}) <= Cardinality(old) + 1
    BY AddOne
  <2> QED
    BY <1>5, <2>1, Zenon

\* g_cpumap grows before any CPU searches its copy g_midtable.
LEMMA TablesNext ==
  ASSUME TypeOK, TypeOK', TablesInv, BspInv, FlagInv, [Next]_vars
  PROVE  TablesInv'
<1> USE BootAssumption DEF TypeOK, Goto, tables, idtVars, devices, Location, Unstarted, AtBsp, BeforeArrive1, InIdt, BeforeArrive2, Past2,
           Halted, TablesInv, Active
<1>0. UNCHANGED cpumap => UNCHANGED Members
  BY DEF Members
<1>1. CASE SmpGetinfo
  <2>1. \A d \in Cpus : idx[d] = -1
    BY <1>1 DEF SmpGetinfo, BspInv
  <2>2. \A d \in Cpus : pc'[d] = pc[d] \/ pc'[d] = "failed"
    BY <1>1 DEF SmpGetinfo
  <2>3. UNCHANGED idx
    BY <1>1 DEF SmpGetinfo
  <2>4. CASE UNCHANGED cpumap
    BY <1>0, <2>1, <2>2, <2>3, <2>4
  <2>5. CASE cpumap' = Append(cpumap, madt[rec].lapicid)
    <3>0. madt[rec].lapicid \in Cpus
      BY <2>5, AppendProperties
    <3>1. Len(cpumap') = Len(cpumap) + 1
      BY <2>5, <3>0, AppendProperties
    <3>2. cpumap \in Seq(Cpus) /\ IsFiniteSet(Members)
      OBVIOUS
    <3>3. IsFiniteSet(Members') /\ Cardinality(Members') <= Cardinality(Members) + 1
      <4> HIDE DEF TypeOK, TablesInv
      <4>1. /\ Members = {cpumap[i] : i \in DOMAIN cpumap}
            /\ Members' = {cpumap'[i] : i \in DOMAIN cpumap'}
        BY DEF Members
      <4> QED BY <4>1, <2>5, <3>0, <3>2, MembersAppend
    <3>4. Cardinality(Members) \in Nat /\ Cardinality(Members') \in Nat
      <4> HIDE DEF TypeOK, TablesInv
      <4> QED BY <3>2, <3>3, FS_CardinalityType, Zenon
    <3>5. Cardinality(Members') <= Len(cpumap')
      BY <3>1, <3>3, <3>4, SMTT(60)
    <3> QED
      BY <2>1, <2>2, <2>3, <3>3, <3>5
  <2> QED
    BY <1>1, <2>4, <2>5 DEF SmpGetinfo
<1>2. CASE SmpGetinfoReturn
  BY <1>2, <1>0 DEF SmpGetinfoReturn, numentries
<1>3. CASE SmpInit
  BY <1>3, <1>0 DEF SmpInit, Filled
<1>4. CASE SendInit
  <2>1. \A d \in Cpus : idx[d] = -1
    BY <1>4 DEF SendInit, BspInv
  <2> QED
    BY <1>4, <1>0, <2>1 DEF SendInit
<1>5. CASE SendFirstSipi
  <2>1. \A d \in Cpus : idx[d] = -1
    BY <1>5 DEF SendFirstSipi, BspInv
  <2> QED
    BY <1>5, <1>0, <2>1 DEF SendFirstSipi
<1>6. CASE SendSecondSipi
  BY <1>6, <1>0 DEF SendSecondSipi
<1>7. CASE PitTick
  BY <1>7, <1>0 DEF PitTick
<1>8. CASE PitInterrupt
  BY <1>8, <1>0 DEF PitInterrupt, Wake
<1>9. ASSUME NEW c \in Cpus, CpuStep(c) \/ LapicInterrupt(c) PROVE TablesInv'
  <2>1. CASE GetVcpu(c)
    <3>1. pc[c] = "getvcpu" /\ UNCHANGED tables /\ midtable = cpumap /\ idx[c] = -1
      BY <2>1 DEF GetVcpu, BspInv
    <3>2. \A d \in Cpus \ {c} : idx'[d] = idx[d] /\ pc'[d] = pc[d]
      BY <2>1 DEF GetVcpu
    <3>3. CASE pc'[c] = "halt" /\ UNCHANGED idx
      BY <1>0, <3>1, <3>2, <3>3, ZenonT(60)
    <3>4. ASSUME NEW i \in Slots(c), \A j \in Slots(c) : i <= j,
                 idx' = [idx EXCEPT ![c] = i - 1], pc'[c] = "barrier1"
          PROVE  TablesInv'
      <4>0. DOMAIN midtable = 1..Len(midtable)
        OBVIOUS
      <4>1. i \in DOMAIN cpumap /\ cpumap[i] = c /\ i \in Nat /\ i >= 1
        BY <3>1, <4>0 DEF Slots
      <4>2. c \in Members
        BY <4>1 DEF Members
      <4>3. idx'[c] = i - 1 /\ idx'[c] # -1
        BY <4>1, <3>4
      <4>4. c = cpumap[1] => idx'[c] = 0
        <5> SUFFICES ASSUME c = cpumap[1] PROVE idx'[c] = 0
          OBVIOUS
        <5>1. DOMAIN midtable = 1..Len(midtable) /\ Len(midtable) \in Nat
          OBVIOUS
        <5>2. i \in 1..Len(midtable)
          BY <5>1, <3>1, <4>1
        <5>3. 1 \in Slots(c)
          <6>1. 1 \in 1..Len(midtable)
            BY <5>1, <5>2
          <6> QED BY <6>1, <5>1, <3>1 DEF Slots
        <5> QED BY <5>1, <5>2, <5>3, <3>4, <4>3
      <4>5. Members' = Members /\ cpumap' = cpumap /\ midtable' = midtable
        BY <3>1 DEF tables, Members
      <4>6. \A d \in Cpus \ {c} :
              /\ pc'[d] \in Active => idx'[d] # -1
              /\ pc'[d] \in Unstarted \cup {"getvcpu"} => idx'[d] = -1
              /\ idx'[d] # -1 => d \in Members /\ midtable = cpumap
              /\ (idx'[d] # -1 /\ d = cpumap[1]) => idx'[d] = 0
        BY <3>2, SMTT(60)
      <4>7. /\ pc'[c] \in Active => idx'[c] # -1
            /\ pc'[c] \in Unstarted \cup {"getvcpu"} => idx'[c] = -1
            /\ idx'[c] # -1 => c \in Members /\ midtable = cpumap
            /\ (idx'[c] # -1 /\ c = cpumap[1]) => idx'[c] = 0
        BY <3>1, <3>4, <4>2, <4>3, <4>4
      <4>8. Cardinality(Members) <= Len(cpumap) /\ IsFiniteSet(Members)
        OBVIOUS
      <4> QED
        BY <4>5, <4>6, <4>7, <4>8, SMTT(60)
    <3> QED
      BY <2>1, <3>3, <3>4, ZenonT(60) DEF GetVcpu
  <2>2. CASE Barrier1Arrive(c)
    BY <2>2, <1>0 DEF Barrier1Arrive
  <2>3. CASE Barrier1Leave(c)
    BY <2>3, <1>0 DEF Barrier1Leave, Barrier1Open, numentries
  <2>4. CASE IdtLock(c)
    BY <2>4, <1>0 DEF IdtLock
  <2>5. CASE IdtCheck(c)
    BY <2>5, <1>0 DEF IdtCheck, Unlocked
  <2>6. CASE IdtBuildHost(c)
    BY <2>6, <1>0 DEF IdtBuildHost
  <2>7. CASE IdtBuildGuest(c)
    BY <2>7, <1>0 DEF IdtBuildGuest
  <2>8. CASE Lidt(c)
    BY <2>8, <1>0 DEF Lidt
  <2>9. CASE ShvMain(c)
    BY <2>9, <1>0 DEF ShvMain, isbsp
  <2>10. CASE Barrier2Arrive(c)
    BY <2>10, <1>0 DEF Barrier2Arrive
  <2>11. CASE Barrier2Leave(c)
    BY <2>11, <1>0 DEF Barrier2Leave, Barrier2Open, numentries
  <2>12. CASE NmiCheck(c)
    BY <2>12, <1>0 DEF NmiCheck, numentries
  <2>13. CASE TimerInit(c)
    <3>1. \A d \in Cpus : pc'[d] = pc[d] \/ (d = c /\ pc'[c] \in Past2)
      BY <2>13 DEF TimerInit
    <3>2. pc[c] = "timer_init" /\ UNCHANGED <<tables, idx>>
      BY <2>13 DEF TimerInit
    <3> QED
      BY <1>0, <3>1, <3>2, ZenonT(60)
  <2>14. CASE OneShotCli(c)
    BY <2>14, <1>0 DEF OneShotCli
  <2>15. CASE VgaArt(c)
    BY <2>15, <1>0 DEF VgaArt
  <2>16. CASE PagingDemo(c)
    BY <2>16, <1>0 DEF PagingDemo
  <2>17. CASE Sti(c)
    BY <2>17, <1>0 DEF Sti, isbsp
  <2>18. CASE LapicInterrupt(c)
    BY <2>18, <1>0 DEF LapicInterrupt
  <2> QED
    BY <1>9, <2>1, <2>2, <2>3, <2>4, <2>5, <2>6, <2>7, <2>8, <2>9, <2>10, <2>11, <2>12, <2>13, <2>14, <2>15, <2>16, <2>17, <2>18 DEF CpuStep
<1>10. CASE UNCHANGED vars
  BY <1>10, <1>0 DEF vars
<1> QED
  BY <1>1, <1>2, <1>3, <1>4, <1>5, <1>6, <1>7, <1>8, <1>9, <1>10 DEF Next, BspStep, Interrupt

\* lock_incl of the second barrier is the one step that adds to Arrived2.
LEMMA CountNext ==
  ASSUME TypeOK, TypeOK', TablesInv, BspInv, CountInv, FlagInv, [Next]_vars
  PROVE  CountInv'
<1> USE BootAssumption DEF TypeOK, Goto, tables, idtVars, devices, Location, Unstarted, AtBsp, BeforeArrive1, InIdt, BeforeArrive2, Past2,
           Halted, CountInv
<1> DEFINE A(d) == idx[d] # -1 /\ pc[d] \in {"barrier2_spin"} \cup Past2
<1>0. (UNCHANGED count2 /\ \A d \in Cpus : A(d)' <=> A(d))
        => count2' = Cardinality(Arrived2')
  <2> SUFFICES ASSUME UNCHANGED count2, \A d \in Cpus : A(d)' <=> A(d)
               PROVE  Arrived2' = Arrived2
    BY DEF CountInv
  <2> QED
    BY DEF Arrived2
<1>1. CASE SmpGetinfo
  <2>1. \A d \in Cpus : idx[d] = -1
    BY <1>1 DEF SmpGetinfo, BspInv, TablesInv, Active
  <2>2. UNCHANGED <<idx, count2>>
    BY <1>1 DEF SmpGetinfo
  <2> QED
    BY <1>0, <2>1, <2>2
<1>2. CASE SmpGetinfoReturn
  <2>1. \A d \in Cpus : idx[d] = -1
    BY <1>2 DEF SmpGetinfoReturn, BspInv, TablesInv, Active
  <2>2. UNCHANGED <<idx, count2>>
    BY <1>2 DEF SmpGetinfoReturn
  <2> QED
    BY <1>0, <2>1, <2>2
<1>3. CASE SmpInit
  BY <1>3, <1>0 DEF SmpInit, Filled
<1>4. CASE SendInit
  <2>1. \A d \in Cpus : idx[d] = -1
    BY <1>4 DEF SendInit, BspInv, TablesInv, Active
  <2>2. UNCHANGED <<idx, count2>>
    BY <1>4 DEF SendInit
  <2> QED
    BY <1>0, <2>1, <2>2
<1>5. CASE SendFirstSipi
  <2>1. \A d \in Cpus : idx[d] = -1
    BY <1>5 DEF SendFirstSipi, BspInv, TablesInv, Active
  <2>2. UNCHANGED <<idx, count2>>
    BY <1>5 DEF SendFirstSipi
  <2> QED
    BY <1>0, <2>1, <2>2
<1>6. CASE SendSecondSipi
  BY <1>6, <1>0 DEF SendSecondSipi
<1>7. CASE PitTick
  BY <1>7, <1>0 DEF PitTick
<1>8. CASE PitInterrupt
  <2>1. UNCHANGED <<tables, idx, count2, eflagsIF>> /\ eflagsIF[Bsp]
    BY <1>8 DEF PitInterrupt
  <2>2. \A d \in Cpus : pc'[d] = pc[d] \/ (d = Bsp /\ pc'[Bsp] \in Past2)
    BY <1>8 DEF PitInterrupt, Wake
  <2> QED
    BY <1>0, <2>1, <2>2 DEF FlagInv
<1>9. ASSUME NEW c \in Cpus, CpuStep(c) \/ LapicInterrupt(c) PROVE CountInv'
  <2>1. CASE GetVcpu(c)
    <3>1. pc[c] = "getvcpu" /\ idx[c] = -1 /\ UNCHANGED <<tables, count2>>
      BY <2>1 DEF GetVcpu, TablesInv
    <3>2. \A d \in Cpus \ {c} : idx'[d] = idx[d] /\ pc'[d] = pc[d]
      BY <2>1 DEF GetVcpu
    <3>3. pc'[c] = "barrier1" \/ (pc'[c] = "halt" /\ idx'[c] = -1)
      BY <3>1, <2>1 DEF GetVcpu
    <3> QED
      BY <1>0, <3>1, <3>2, <3>3
  <2>2. CASE Barrier1Arrive(c)
    BY <2>2, <1>0 DEF Barrier1Arrive
  <2>3. CASE Barrier1Leave(c)
    BY <2>3, <1>0 DEF Barrier1Leave, Barrier1Open, numentries
  <2>4. CASE IdtLock(c)
    BY <2>4, <1>0 DEF IdtLock
  <2>5. CASE IdtCheck(c)
    BY <2>5, <1>0 DEF IdtCheck, Unlocked
  <2>6. CASE IdtBuildHost(c)
    BY <2>6, <1>0 DEF IdtBuildHost
  <2>7. CASE IdtBuildGuest(c)
    BY <2>7, <1>0 DEF IdtBuildGuest
  <2>8. CASE Lidt(c)
    BY <2>8, <1>0 DEF Lidt
  <2>9. CASE ShvMain(c)
    BY <2>9, <1>0 DEF ShvMain, isbsp
  <2>10. CASE Barrier2Arrive(c)
    <3>1. pc[c] = "barrier2" /\ pc'[c] = "barrier2_spin" /\ idx[c] # -1
      BY <2>10 DEF Barrier2Arrive, TablesInv, Active
    <3>2. UNCHANGED <<tables, idx>> /\ count2' = count2 + 1
      BY <2>10 DEF Barrier2Arrive
    <3>3. \A d \in Cpus \ {c} : pc'[d] = pc[d]
      BY <2>10 DEF Barrier2Arrive
    <3>4. Arrived2' = Arrived2 \cup {c} /\ c \notin Arrived2
      BY <3>1, <3>2, <3>3, SMTT(60) DEF Arrived2
    <3>5. IsFiniteSet(Arrived2)
      BY FS_Subset DEF Arrived2
    <3>6. Cardinality(Arrived2') = Cardinality(Arrived2) + 1
      BY <3>4, <3>5, AddOne
    <3>7. count2' = Cardinality(Arrived2')
      BY <3>2, <3>6
    <3>8. \A d \in Cpus : idx'[d] # -1 /\ pc'[d] \in Past2 => count2' >= Len(cpumap')
      <4> SUFFICES ASSUME NEW d \in Cpus, idx'[d] # -1, pc'[d] \in Past2
                   PROVE  count2' >= Len(cpumap')
        OBVIOUS
      <4>1. idx[d] # -1 /\ pc[d] \in Past2
        BY <3>1, <3>2, <3>3
      <4>2. count2 >= Len(cpumap)
        BY <4>1
      <4>3. count2 \in Nat /\ Len(cpumap) \in Nat /\ cpumap' = cpumap
        BY <3>2
      <4> QED
        BY <3>2, <4>2, <4>3
    <3> QED
      BY <3>7, <3>8
  <2>11. CASE Barrier2Leave(c)
    BY <2>11, <1>0 DEF Barrier2Leave, Barrier2Open, numentries
  <2>12. CASE NmiCheck(c)
    BY <2>12, <1>0 DEF NmiCheck, numentries
  <2>13. CASE TimerInit(c)
    <3>1. \A d \in Cpus : pc'[d] = pc[d] \/ (d = c /\ pc'[c] \in Past2)
      BY <2>13 DEF TimerInit
    <3>2. pc[c] = "timer_init" /\ UNCHANGED <<tables, idx, count2>>
      BY <2>13 DEF TimerInit
    <3> QED
      BY <1>0, <3>1, <3>2
  <2>14. CASE OneShotCli(c)
    BY <2>14, <1>0 DEF OneShotCli
  <2>15. CASE VgaArt(c)
    BY <2>15, <1>0 DEF VgaArt
  <2>16. CASE PagingDemo(c)
    BY <2>16, <1>0 DEF PagingDemo
  <2>17. CASE Sti(c)
    BY <2>17, <1>0 DEF Sti, isbsp
  <2>18. CASE LapicInterrupt(c)
    BY <2>18, <1>0 DEF LapicInterrupt
  <2> QED
    BY <1>9, <2>1, <2>2, <2>3, <2>4, <2>5, <2>6, <2>7, <2>8, <2>9, <2>10, <2>11, <2>12, <2>13, <2>14, <2>15, <2>16, <2>17, <2>18 DEF CpuStep
<1>10. CASE UNCHANGED vars
  BY <1>10, <1>0 DEF vars
<1> QED
  BY <1>1, <1>2, <1>3, <1>4, <1>5, <1>6, <1>7, <1>8, <1>9, <1>10 DEF Next, BspStep, Interrupt

\* A CPU that finds initialized set may leave construct_idt before the tables
\* are complete, but then the CPU that builds them has not left it.
LEMMA IdtNext ==
  ASSUME TypeOK, TypeOK', TablesInv, BspInv, IdtInv, FlagInv, [Next]_vars
  PROVE  IdtInv'
<1> USE BootAssumption DEF TypeOK, Goto, tables, idtVars, devices, Location, Unstarted, AtBsp, BeforeArrive1, InIdt, BeforeArrive2, Past2,
           Halted, IdtInv, PastCheck
<1>1. CASE SmpGetinfo
  <2>1. \A d \in Cpus : idx[d] = -1 /\ pc[d] \notin {"idt_host", "idt_guest"}
    BY <1>1 DEF SmpGetinfo, BspInv, TablesInv, Active
  <2>2. UNCHANGED <<idx, idtVars, pic>>
    BY <1>1 DEF SmpGetinfo
  <2>3. \A d \in Cpus : pc'[d] # "idt_guest"
    BY <1>1, <2>1 DEF SmpGetinfo
  <2> QED
    BY <2>1, <2>2, <2>3
<1>2. CASE SmpGetinfoReturn
  <2>1. \A d \in Cpus : idx[d] = -1 /\ pc[d] \notin {"idt_host", "idt_guest"}
    BY <1>2 DEF SmpGetinfoReturn, numentries, BspInv, TablesInv, Active
  <2>2. UNCHANGED <<idx, idtVars, pic>>
    BY <1>2 DEF SmpGetinfoReturn, numentries
  <2>3. \A d \in Cpus : pc'[d] # "idt_guest"
    BY <1>2, <2>1 DEF SmpGetinfoReturn, numentries
  <2> QED
    BY <2>1, <2>2, <2>3
<1>3. CASE SmpInit
  BY <1>3 DEF SmpInit, Filled
<1>4. CASE SendInit
  <2>1. \A d \in Cpus : idx[d] = -1 /\ pc[d] \notin {"idt_host", "idt_guest"}
    BY <1>4 DEF SendInit, BspInv, TablesInv, Active
  <2>2. UNCHANGED <<idx, idtVars, pic>>
    BY <1>4 DEF SendInit
  <2>3. \A d \in Cpus : pc'[d] # "idt_guest"
    BY <1>4, <2>1 DEF SendInit
  <2> QED
    BY <2>1, <2>2, <2>3
<1>5. CASE SendFirstSipi
  <2>1. \A d \in Cpus : idx[d] = -1 /\ pc[d] \notin {"idt_host", "idt_guest"}
    BY <1>5 DEF SendFirstSipi, BspInv, TablesInv, Active
  <2>2. UNCHANGED <<idx, idtVars, pic>>
    BY <1>5 DEF SendFirstSipi
  <2>3. \A d \in Cpus : pc'[d] # "idt_guest"
    BY <1>5, <2>1 DEF SendFirstSipi
  <2> QED
    BY <2>1, <2>2, <2>3
<1>6. CASE SendSecondSipi
  BY <1>6 DEF SendSecondSipi
<1>7. CASE PitTick
  BY <1>7 DEF PitTick
<1>8. CASE PitInterrupt
  <2>1. UNCHANGED <<idx, eflagsIF, idtVars, pic>> /\ eflagsIF[Bsp]
    BY <1>8 DEF PitInterrupt
  <2>2. \A d \in Cpus : pc'[d] = pc[d] \/ (d = Bsp /\ pc'[Bsp] \in Past2)
    BY <1>8 DEF PitInterrupt, Wake
  <2> QED
    BY <2>1, <2>2, ZenonT(60) DEF FlagInv
<1>9. ASSUME NEW c \in Cpus, CpuStep(c) \/ LapicInterrupt(c) PROVE IdtInv'
  <2>1. CASE GetVcpu(c)
    <3>1. pc[c] = "getvcpu" /\ idx[c] = -1 /\ UNCHANGED <<idtVars, pic>>
      BY <2>1 DEF GetVcpu, TablesInv
    <3>2. \A d \in Cpus \ {c} : idx'[d] = idx[d] /\ pc'[d] = pc[d]
      BY <2>1 DEF GetVcpu
    <3>3. pc'[c] = "barrier1" \/ (pc'[c] = "halt" /\ idx'[c] = -1)
      BY <3>1, <2>1 DEF GetVcpu
    <3>4. initialized' => \/ idt' = {"host", "guest"}
                          \/ \E d \in Cpus : pc'[d] \in {"idt_host", "idt_guest"}
      BY <3>1, <3>2
    <3>5. \A d \in Cpus :
            /\ idx'[d] # -1 /\ pc'[d] # "barrier1" => idx[d] # -1 /\ pc[d] = pc'[d] /\ idx[d] = idx'[d]
            /\ pc'[d] = "idt_guest" => pc[d] = "idt_guest"
      BY <3>1, <3>2, <3>3
    <3>6. UNCHANGED <<initialized, idt, idtr, pic>>
      BY <3>1
    <3>7. ASSUME NEW d \in Cpus
          PROVE  /\ idx'[d] # -1 /\ pc'[d] \in PastCheck => initialized
                 /\ pc'[d] = "idt_guest" => "host" \in idt
                 /\ idx'[d] # -1 /\ pc'[d] \in {"barrier2_spin"} \cup BeforeArrive2 \cup Past2
                      => d \in idtr
                 /\ idx'[d] = 0 /\ pc'[d] \in {"barrier2", "barrier2_spin"} \cup Past2 => pic
      <4>1. CASE pc'[d] = "barrier1"
        BY <4>1
      <4>2. CASE idx'[d] = -1
        BY <4>2, <3>5
      <4>3. CASE pc[d] = pc'[d] /\ idx[d] = idx'[d]
        BY <4>3
      <4> QED
        BY <4>1, <4>2, <4>3, <3>5
    <3> QED
      BY <3>4, <3>6, <3>7
  <2>2. CASE Barrier1Arrive(c)
    BY <2>2 DEF Barrier1Arrive
  <2>3. CASE Barrier1Leave(c)
    BY <2>3 DEF Barrier1Leave, Barrier1Open, numentries
  <2>4. CASE IdtLock(c)
    BY <2>4 DEF IdtLock
  <2>5. CASE IdtCheck(c)
    BY <2>5 DEF IdtCheck, Unlocked
  <2>6. CASE IdtBuildHost(c)
    BY <2>6 DEF IdtBuildHost
  <2>7. CASE IdtBuildGuest(c)
    <3>1. idt' = {"host", "guest"}
      <4>1. "host" \in idt /\ idt' = idt \cup {"guest"}
        BY <2>7 DEF IdtBuildGuest
      <4>2. idt \subseteq {"host", "guest"}
        OBVIOUS
      <4> QED
        BY <4>1, <4>2, Zenon
    <3>2. pc[c] = "idt_guest" /\ pc'[c] = "lidt" /\ UNCHANGED <<idx, initialized, idtr, pic>>
      BY <2>7 DEF IdtBuildGuest
    <3>3. \A d \in Cpus \ {c} : pc'[d] = pc[d]
      BY <2>7 DEF IdtBuildGuest
    <3> QED
      BY <3>1, <3>2, <3>3
  <2>8. CASE Lidt(c)
    BY <2>8 DEF Lidt
  <2>9. CASE ShvMain(c)
    BY <2>9 DEF ShvMain, isbsp
  <2>10. CASE Barrier2Arrive(c)
    BY <2>10 DEF Barrier2Arrive
  <2>11. CASE Barrier2Leave(c)
    BY <2>11, SMTT(60) DEF Barrier2Leave, Barrier2Open, numentries
  <2>12. CASE NmiCheck(c)
    BY <2>12, SMTT(60) DEF NmiCheck, numentries
  <2>13. CASE TimerInit(c)
    <3>1. \A d \in Cpus : pc'[d] = pc[d] \/ (d = c /\ pc'[c] \in Past2)
      BY <2>13 DEF TimerInit
    <3>2. pc[c] = "timer_init" /\ UNCHANGED <<tables, idx, count2, idtVars, pic>>
      BY <2>13 DEF TimerInit
    <3> QED
      BY <3>1, <3>2, ZenonT(60)
  <2>14. CASE OneShotCli(c)
    BY <2>14 DEF OneShotCli
  <2>15. CASE VgaArt(c)
    BY <2>15 DEF VgaArt
  <2>16. CASE PagingDemo(c)
    BY <2>16 DEF PagingDemo
  <2>17. CASE Sti(c)
    BY <2>17 DEF Sti, isbsp
  <2>18. CASE LapicInterrupt(c)
    BY <2>18 DEF LapicInterrupt
  <2> QED
    BY <1>9, <2>1, <2>2, <2>3, <2>4, <2>5, <2>6, <2>7, <2>8, <2>9, <2>10, <2>11, <2>12, <2>13, <2>14, <2>15, <2>16, <2>17, <2>18 DEF CpuStep
<1>10. CASE UNCHANGED vars
  BY <1>10 DEF vars
<1> QED
  BY <1>1, <1>2, <1>3, <1>4, <1>5, <1>6, <1>7, <1>8, <1>9, <1>10 DEF Next, BspStep, Interrupt

(* The invariant as a whole, and what it implies. *)

\* Before smp_getinfo runs no CPU has a VCPU, so every part holds.
LEMMA InvInit == Init => IInv
<1> SUFFICES ASSUME Init PROVE IInv
  OBVIOUS
<1>1. TypeOK
  BY TypeInit
<1>2. TablesInv
  <2>1. Members = {} /\ Len(cpumap) = 0
    BY DEF Init, Members
  <2>2. IsFiniteSet(Members) /\ Cardinality(Members) = 0
    BY <2>1, FS_EmptySet
  <2> QED
    BY <2>1, <2>2, BootAssumption
    DEF Init, TablesInv, Active, Unstarted, AtBsp
<1>3. BspInv
  BY BootAssumption DEF Init, BspInv, AtBsp
<1>4. CountInv
  <2>1. Arrived2 = {}
    BY DEF Init, Arrived2
  <2> QED
    BY <2>1, FS_EmptySet DEF Init, CountInv
<1>5. IdtInv
  BY BootAssumption DEF Init, IdtInv
<1>6. FlagInv
  BY DEF Init, FlagInv
<1> QED
  BY <1>1, <1>2, <1>3, <1>4, <1>5, <1>6 DEF IInv

\* No step of a CPU, a timer or an interrupt handler breaks the invariant.
LEMMA InvNext == IInv /\ [Next]_vars => IInv'
<1> SUFFICES ASSUME IInv, [Next]_vars PROVE IInv'
  OBVIOUS
<1>1. TypeOK'
  BY TypeNext DEF IInv
<1> QED
  BY <1>1, BspNext, FlagNext, TablesNext, CountNext, IdtNext DEF IInv

\* All listed CPUs have arrived at the second barrier once one has left it: so
\* the CPU that built the tables is among them, and the one with VCPU 0.
LEMMA InvImpliesIdt == IInv => InterruptsFindIdt
<1> SUFFICES ASSUME IInv, NEW c \in Cpus, eflagsIF[c]
             PROVE  c \in idtr /\ idt = {"host", "guest"} /\ pic
  BY DEF InterruptsFindIdt
<1> USE DEF IInv
<1>1. idx[c] # -1 /\ pc[c] \in Past2
  BY DEF FlagInv
<1>2. c \in idtr /\ initialized
  BY <1>1 DEF IdtInv, PastCheck
<1>3. Arrived2 = Members
  <2>1. \A d \in Arrived2 : d \in Members
    BY DEF Arrived2, TablesInv
  <2>2. IsFiniteSet(Members) /\ Cardinality(Members) <= Len(cpumap)
    BY DEF TablesInv
  <2>3. Cardinality(Arrived2) >= Len(cpumap)
    BY <1>1 DEF CountInv
  <2>4. Cardinality(Arrived2) <= Cardinality(Members)
        /\ (Cardinality(Arrived2) = Cardinality(Members) => Arrived2 = Members)
    BY <2>1, <2>2, FS_Subset
  <2>5. Cardinality(Arrived2) \in Nat /\ Cardinality(Members) \in Nat
        /\ Len(cpumap) \in Nat
    <3>1. IsFiniteSet(Arrived2)
      BY <2>1, <2>2, FS_Subset
    <3>2. Len(cpumap) \in Nat
      BY DEF TypeOK
    <3> QED
      BY <3>1, <3>2, <2>2, FS_CardinalityType
  <2> QED
    BY <2>2, <2>3, <2>4, <2>5
<1>4. \A d \in Cpus : pc[d] \notin {"idt_host", "idt_guest"}
  <2> SUFFICES ASSUME NEW d \in Cpus, pc[d] \in {"idt_host", "idt_guest"}
               PROVE  FALSE
    OBVIOUS
  <2>1. pc[d] \in Active
    BY DEF Active, Location, InIdt, Unstarted, AtBsp, Halted
  <2>2. d \in Members
    BY <2>1 DEF TablesInv
  <2> QED
    BY <1>3, <2>2 DEF Arrived2, Past2, Halted
<1>5. idt = {"host", "guest"}
  BY <1>2, <1>4 DEF IdtInv
<1>6. pic
  <2>1. c \in Members
    BY <1>1 DEF TablesInv
  <2>2. 1 \in DOMAIN cpumap
    <3>1. DOMAIN cpumap = 1..Len(cpumap) /\ Len(cpumap) \in Nat
      BY DEF TypeOK
    <3>2. PICK i \in DOMAIN cpumap : cpumap[i] = c
      BY <2>1 DEF Members
    <3> QED
      BY <3>1, <3>2
  <2>3. cpumap[1] \in Arrived2
    BY <1>3, <2>2 DEF Members
  <2>4. cpumap[1] \in Cpus /\ idx[cpumap[1]] # -1
        /\ pc[cpumap[1]] \in {"barrier2_spin"} \cup Past2
    BY <2>3 DEF Arrived2
  <2>5. idx[cpumap[1]] = 0
    BY <2>4 DEF TablesInv
  <2> QED
    BY <2>4, <2>5 DEF IdtInv
<1> QED
  BY <1>2, <1>5, <1>6

\* On every machine and under every option the variables of the bring-up keep
\* the types of their C declarations; in particular the lock word of
\* construct_idt is only ever 0 or 1 and the program counters stay in the code.
THEOREM TypeCorrect == Spec => []TypeOK
<1>1. Init => TypeOK
  BY TypeInit
<1>2. TypeOK /\ [Next]_vars => TypeOK'
  BY TypeNext
<1> QED
  BY <1>1, <1>2, PTL DEF Spec

\* On every machine and under every option, a CPU that accepts interrupts has
\* loaded the IDT, and both IDTs and the 8259s are set up: the barrier of
\* shv_main makes up for construct_idt releasing its lock before it builds.
THEOREM IdtReady == Spec => []InterruptsFindIdt
<1>1. Init => IInv
  BY InvInit
<1>2. IInv /\ [Next]_vars => IInv'
  BY InvNext
<1>3. IInv => InterruptsFindIdt
  BY InvImpliesIdt
<1> QED
  BY <1>1, <1>2, <1>3, PTL DEF Spec

-----------------------------------------------------------------------------
(* g_cpumap, VCPUs, failures and the barriers. *)

\* smp_getinfo has looked at every record of the MADT.
Scanned == rec = Len(madt) + 1

\* The CPUs that the records before number n list.
ListedBefore(n) ==
  {madt[j].lapicid : j \in {k \in 1..(n - 1) : Processor(madt[k])}}

\* g_cpumap holds what was listed so far, each CPU once and the BSP first, and
\* nobody looks at it before it is complete.
ScanInv ==
  /\ rec \in 1..(Len(madt) + 1)
  /\ Members = ListedBefore(rec)
  /\ Cardinality(Members) = Len(cpumap)
  /\ Len(cpumap) <= MAX_PCPU_ENTRIES
  /\ cpumap # << >> => cpumap[1] = Bsp
  /\ pc[Bsp] = "smp_getinfo" => midtable = << >>
  /\ \A c \in Cpus :
       pc[c] \notin {"reset", "wait_sipi", "smp_getinfo", "failed"} => Scanned

\* A CPU runs as the VCPU whose entry of g_midtable is its own.
VcpuInv ==
  \A c \in Cpus :
    idx[c] # -1 => /\ idx[c] + 1 \in DOMAIN midtable
                   /\ midtable[idx[c] + 1] = c

\* After the one shot the 8259 stays in service: the BSP does not reset it again.
ShotInv == shot_arrived => isr0 /\ idx[Bsp] # -1 /\ pc[Bsp] \in Past2

\* The counter of the first barrier counts the CPUs that arrived there.
Count1Inv == count1 = Cardinality(ArrivedAt1)

JInv == /\ IInv /\ ScanInv /\ VcpuInv /\ OnlyUnlistedPark /\ ShotInv
        /\ OnlyMachineFailures /\ Count1Inv

(* What the steps do. *)

\* The ways a CPU goes through the barriers.
Moves(c) ==
  \/ pc[c] = "barrier1" /\ pc'[c] = "barrier1_spin"
  \/ pc[c] = "barrier1_spin" /\ pc'[c] \in InIdt /\ count1 >= Len(cpumap)
  \/ pc[c] \in InIdt /\ pc'[c] \in InIdt \cup BeforeArrive2
  \/ pc[c] \in BeforeArrive2 /\ pc'[c] \in BeforeArrive2
  \/ pc[c] = "barrier2" /\ pc'[c] = "barrier2_spin"
  \/ pc[c] = "barrier2_spin" /\ pc'[c] \in Past2 /\ count2 >= Len(cpumap)
  \/ pc[c] \in Past2 \ Halted /\ pc'[c] \in Past2

\* Once a CPU has its VCPU it only moves on; it fails for want of CPUs or of
\* room on the screen, and resets the 8259s before the second barrier.
LEMMA CpuMoves ==
  ASSUME TypeOK, TablesInv, NEW c \in Cpus, CpuStep(c), ~ GetVcpu(c)
  PROVE  /\ UNCHANGED <<opt, madt, cpumap, midtable, rec, idx, shot_arrived>>
         /\ idx[c] # -1
         /\ \A d \in Cpus \ {c} : pc'[d] = pc[d]
         /\ Moves(c)
         /\ count1' = IF pc[c] = "barrier1" THEN count1 + 1 ELSE count1
         /\ isr0' = isr0 \/ (pc[c] = "shv_main" /\ idx[c] = 0)
         /\ pc'[c] = "failed" => \/ opt.nmi /\ Len(cpumap) < 2
                                 \/ ~ opt.no_vga_art /\ idx[c] >= CONSOLE_MAX_CPU
<1> USE DEF TypeOK, TablesInv, Active, Goto, tables, idtVars, devices, Location, Unstarted, AtBsp,
            BeforeArrive1, InIdt, BeforeArrive2, Past2, Halted, Moves
<1>1. CASE Barrier1Arrive(c)
  BY <1>1 DEF Barrier1Arrive
<1>2. CASE Barrier1Leave(c)
  BY <1>2 DEF Barrier1Leave, Barrier1Open, numentries
<1>3. CASE IdtLock(c)
  BY <1>3 DEF IdtLock
<1>4. CASE IdtCheck(c)
  BY <1>4 DEF IdtCheck, Unlocked
<1>5. CASE IdtBuildHost(c)
  BY <1>5 DEF IdtBuildHost
<1>6. CASE IdtBuildGuest(c)
  BY <1>6 DEF IdtBuildGuest
<1>7. CASE Lidt(c)
  BY <1>7 DEF Lidt
<1>8. CASE ShvMain(c)
  BY <1>8 DEF ShvMain, isbsp
<1>9. CASE Barrier2Arrive(c)
  BY <1>9 DEF Barrier2Arrive
<1>10. CASE Barrier2Leave(c)
  BY <1>10 DEF Barrier2Leave, Barrier2Open, numentries
<1>11. CASE NmiCheck(c)
  BY <1>11 DEF NmiCheck, numentries
<1>12. CASE TimerInit(c)
  BY <1>12 DEF TimerInit, isbsp
<1>13. CASE OneShotCli(c)
  BY <1>13 DEF OneShotCli
<1>14. CASE VgaArt(c)
  BY <1>14 DEF VgaArt
<1>15. CASE PagingDemo(c)
  BY <1>15 DEF PagingDemo
<1>16. CASE Sti(c)
  BY <1>16 DEF Sti, isbsp
<1> QED
  BY <1>1, <1>2, <1>3, <1>4, <1>5, <1>6, <1>7, <1>8, <1>9, <1>10, <1>11, <1>12, <1>13, <1>14, <1>15, <1>16 DEF CpuStep

\* With a VCPU the BSP is VCPU 0.
LEMMA BspIsFirst ==
  ASSUME TypeOK, TablesInv, ScanInv, NEW c \in Cpus, idx[c] # -1
  PROVE  cpumap[1] = Bsp /\ (c = Bsp => idx[c] = 0)
<1>1. PICK i \in DOMAIN cpumap : cpumap[i] = c
  BY DEF TablesInv, Members
<1>2. cpumap # << >>
  BY <1>1
<1> QED
  BY <1>2 DEF ScanInv, TablesInv

\* An interrupt only wakes the BSP from its hlt: "Only one interrupt should
\* arrive, ever" holds.
LEMMA InterruptMoves ==
  ASSUME TypeOK, TablesInv, FlagInv, ScanInv, ShotInv,
         PitTick \/ PitInterrupt \/ \E c \in Cpus : LapicInterrupt(c)
  PROVE  /\ UNCHANGED <<opt, madt, cpumap, midtable, rec, idx, count1>>
         /\ \A d \in Cpus \ {Bsp} : pc'[d] = pc[d]
         /\ \/ pc'[Bsp] = pc[Bsp]
            \/ idx[Bsp] # -1 /\ pc[Bsp] \in Past2 \ Halted /\ pc'[Bsp] \in Past2 \ Halted
         /\ \/ shot_arrived' = shot_arrived /\ isr0' = isr0
            \/ ~ shot_arrived' /\ ~ shot_arrived
            \/ isr0' /\ idx[Bsp] # -1 /\ pc[Bsp] \in Past2
<1> USE DEF tables, idtVars, devices
<1>1. CASE PitTick
  BY <1>1 DEF PitTick
<1>2. CASE \E c \in Cpus : LapicInterrupt(c)
  BY <1>2 DEF LapicInterrupt
<1>3. CASE PitInterrupt
  <2>1. eflagsIF[Bsp] /\ ~ isr0
    BY <1>3 DEF PitInterrupt
  <2>2. idx[Bsp] # -1 /\ pc[Bsp] \in Past2 /\ ~ shot_arrived
    BY <2>1, BootAssumption DEF FlagInv, ShotInv
  <2>3. isbsp(Bsp)
    BY <2>2, BspIsFirst, BootAssumption DEF isbsp
  <2>4. pc' = IF pc[Bsp] = "oneshot_hlt" THEN [pc EXCEPT ![Bsp] = "oneshot_cli"] ELSE pc
    BY <1>3, <2>2, <2>3 DEF PitInterrupt, Wake
  <2>5. isr0' = opt.no_interrupt /\ shot_arrived' = (shot_arrived \/ opt.no_interrupt)
    BY <1>3 DEF PitInterrupt, NoEoi
  <2>6. UNCHANGED <<opt, madt, cpumap, midtable, rec, idx, count1>>
    BY <1>3 DEF PitInterrupt
  <2>7. /\ \A d \in Cpus \ {Bsp} : pc'[d] = pc[d]
        /\ \/ pc'[Bsp] = pc[Bsp]
           \/ pc[Bsp] \in Past2 \ Halted /\ pc'[Bsp] \in Past2 \ Halted
    BY <2>4, BootAssumption DEF TypeOK, Past2, Halted
  <2>8. shot_arrived' => isr0'
    BY <2>2, <2>5
  <2> QED
    BY <2>2, <2>6, <2>7, <2>8
<1> QED
  BY <1>1, <1>2, <1>3

-----------------------------------------------------------------------------
(* The MADT and g_cpumap. *)

\* What the firmware guarantees, and that all records together list Listed.
LEMMA MadtFacts ==
  ASSUME TypeOK
  PROVE  /\ Len(madt) \in Nat /\ DOMAIN madt = 1..Len(madt)
         /\ \A j \in DOMAIN madt : madt[j].lapicid \in Cpus
         /\ \A i, j \in DOMAIN madt :
              (Processor(madt[i]) /\ Processor(madt[j])
                 /\ madt[i].lapicid = madt[j].lapicid) => i = j
         /\ \A i \in DOMAIN madt :
              (Processor(madt[i]) /\ \A j \in 1..(i - 1) : ~ Processor(madt[j]))
                => madt[i].lapicid = Bsp
         /\ ListedBefore(Len(madt) + 1) = Listed
         /\ Listed \subseteq Cpus
<1> DEFINE Record == [type : Nat, enabled : BOOLEAN, lapicid : Cpus]
<1>1. FirmwareMadt(madt)
  BY BootAssumption, Zenon DEF TypeOK
<1>2. madt \in Seq(Record)
  BY <1>1 DEF FirmwareMadt
<1>3. Len(madt) \in Nat /\ DOMAIN madt = 1..Len(madt)
  <2> HIDE DEF Record
  <2> QED BY <1>2
<1>4. \A j \in DOMAIN madt : madt[j].lapicid \in Cpus
  <2> SUFFICES ASSUME NEW j \in DOMAIN madt PROVE madt[j].lapicid \in Cpus
    OBVIOUS
  <2>1. madt[j] \in Record
    <3> HIDE DEF Record
    <3> QED BY <1>2, <1>3, ElementOfSeq
  <2> QED BY <2>1
<1>5. ListedBefore(Len(madt) + 1) = Listed
  <2>1. (Len(madt) + 1) - 1 = Len(madt)
    BY <1>3
  <2> QED
    BY <1>3, <2>1 DEF ListedBefore, Listed
<1>6. Listed \subseteq Cpus
  BY <1>4 DEF Listed
<1> QED
  BY <1>1, <1>3, <1>4, <1>5, <1>6, Zenon DEF FirmwareMadt

\* Record n adds its CPU if it is one of an enabled processor.
LEMMA ListedNext ==
  ASSUME TypeOK, NEW n \in 1..Len(madt)
  PROVE  /\ Processor(madt[n]) =>
              ListedBefore(n + 1) = ListedBefore(n) \cup {madt[n].lapicid}
         /\ ~ Processor(madt[n]) => ListedBefore(n + 1) = ListedBefore(n)
         /\ Processor(madt[n]) => madt[n].lapicid \notin ListedBefore(n)
         /\ (Processor(madt[n]) /\ ListedBefore(n) = {}) => madt[n].lapicid = Bsp
<1>1. Len(madt) \in Nat /\ DOMAIN madt = 1..Len(madt)
  BY MadtFacts
<1> HIDE DEF Processor
<1>2. 1..((n + 1) - 1) = 1..(n - 1) \cup {n}
  BY <1>1
<1>3. /\ Processor(madt[n]) =>
           ListedBefore(n + 1) = ListedBefore(n) \cup {madt[n].lapicid}
      /\ ~ Processor(madt[n]) => ListedBefore(n + 1) = ListedBefore(n)
  BY <1>2 DEF ListedBefore
<1>4. Processor(madt[n]) => madt[n].lapicid \notin ListedBefore(n)
  <2> SUFFICES ASSUME Processor(madt[n]), madt[n].lapicid \in ListedBefore(n)
               PROVE  FALSE
    OBVIOUS
  <2>1. PICK j \in 1..(n - 1) : Processor(madt[j]) /\ madt[j].lapicid = madt[n].lapicid
    BY DEF ListedBefore
  <2>2. j \in DOMAIN madt /\ n \in DOMAIN madt /\ j # n
    BY <1>1
  <2> QED
    BY <2>1, <2>2, MadtFacts
<1>5. (Processor(madt[n]) /\ ListedBefore(n) = {}) => madt[n].lapicid = Bsp
  <2> SUFFICES ASSUME Processor(madt[n]), ListedBefore(n) = {}
               PROVE  madt[n].lapicid = Bsp
    OBVIOUS
  <2>1. \A j \in 1..(n - 1) : ~ Processor(madt[j])
    BY DEF ListedBefore
  <2>2. n \in DOMAIN madt
    BY <1>1
  <2> QED
    BY <2>1, <2>2, MadtFacts
<1> QED
  BY <1>3, <1>4, <1>5

\* The elements of a sequence with one more at its end.
LEMMA RangeAppend ==
  ASSUME NEW S, NEW s \in Seq(S), NEW x \in S, NEW t, t = Append(s, x)
  PROVE  {t[i] : i \in DOMAIN t} = {s[i] : i \in DOMAIN s} \cup {x}
<1>1. /\ DOMAIN s = 1..Len(s) /\ DOMAIN t = 1..(Len(s) + 1) /\ Len(s) \in Nat
      /\ \A i \in 1..Len(s) : t[i] = s[i]
      /\ t[Len(s) + 1] = x
  BY AppendProperties
<1>2. 1..(Len(s) + 1) = 1..Len(s) \cup {Len(s) + 1}
  BY <1>1
<1> QED
  BY <1>1, <1>2

\* While smp_getinfo runs no other CPU does.
LEMMA ScanAlone ==
  ASSUME TypeOK, BspInv, pc[Bsp] = "smp_getinfo"
  PROVE  \A d \in Cpus \ {Bsp} : pc[d] \in {"reset", "wait_sipi"}
BY DEF BspInv

\* smp_getinfo looks at one record.
LEMMA ScanRecord ==
  ASSUME TypeOK, TablesInv, BspInv, ScanInv, SmpGetinfo
  PROVE  ScanInv'
<1> DEFINE x == madt[rec].lapicid
<1>1. /\ rec \in 1..Len(madt) /\ Len(madt) \in Nat /\ UNCHANGED <<madt, midtable>>
      /\ pc[Bsp] = "smp_getinfo"
  BY MadtFacts DEF SmpGetinfo, ScanInv, TypeOK
<1>2. \A d \in Cpus \ {Bsp} : pc'[d] \in {"reset", "wait_sipi"}
  BY <1>1, ScanAlone DEF SmpGetinfo, Goto, TypeOK
<1>3. pc'[Bsp] \in {"smp_getinfo", "failed"}
  BY <1>1, BootAssumption DEF SmpGetinfo, Goto, TypeOK
<1>4. \A c \in Cpus : pc'[c] \in {"reset", "wait_sipi", "smp_getinfo", "failed"}
  BY <1>2, <1>3
<1>5. midtable' = << >>
  BY <1>1 DEF ScanInv
<1>6. rec \in DOMAIN madt /\ x \in Cpus
  BY <1>1, MadtFacts
<1>7. CASE cpumap' = cpumap /\ rec' = rec
  <2>1. Members' = Members /\ ListedBefore(rec)' = ListedBefore(rec)
    BY <1>1, <1>7 DEF Members, ListedBefore
  <2> QED
    BY <1>1, <1>4, <1>5, <1>7, <2>1 DEF ScanInv
<1>8. CASE cpumap' = cpumap /\ rec' = rec + 1 /\ ~ Processor(madt[rec])
  <2>1. Members' = Members
    BY <1>8 DEF Members
  <2>2. ListedBefore(rec)' = ListedBefore(rec + 1)
    BY <1>1, <1>8 DEF ListedBefore
  <2>3. ListedBefore(rec + 1) = ListedBefore(rec)
    BY <1>1, <1>8, ListedNext
  <2>4. rec' \in 1..(Len(madt) + 1)
    BY <1>1, <1>8
  <2> QED
    BY <1>1, <1>4, <1>5, <1>8, <2>1, <2>2, <2>3, <2>4 DEF ScanInv
<1>9. CASE /\ cpumap' = Append(cpumap, x) /\ rec' = rec + 1 /\ Processor(madt[rec])
           /\ Len(cpumap) < MAX_PCPU_ENTRIES
  <2>0. cpumap \in Seq(Cpus) /\ Len(cpumap) \in Nat
    BY DEF TypeOK
  <2>1. Members' = Members \cup {x}
    <3>1. {cpumap'[i] : i \in DOMAIN cpumap'} = {cpumap[i] : i \in DOMAIN cpumap} \cup {x}
      BY <1>6, <1>9, <2>0, RangeAppend
    <3> QED
      BY <3>1 DEF Members
  <2>2. ListedBefore(rec)' = ListedBefore(rec + 1)
    BY <1>1, <1>9 DEF ListedBefore
  <2>3. /\ ListedBefore(rec + 1) = ListedBefore(rec) \cup {x}
        /\ x \notin ListedBefore(rec)
        /\ ListedBefore(rec) = {} => x = Bsp
    BY <1>1, <1>9, ListedNext
  <2>4. Len(cpumap') = Len(cpumap) + 1 /\ cpumap'[1] = IF cpumap = << >> THEN x ELSE cpumap[1]
    <3>1. Len(cpumap) = 0 => cpumap = << >>
      BY <2>0, EmptySeq
    <3>2. /\ Len(cpumap') = Len(cpumap) + 1
          /\ cpumap'[Len(cpumap) + 1] = x
          /\ \A i \in 1..Len(cpumap) : cpumap'[i] = cpumap[i]
      BY <1>6, <1>9, <2>0, AppendProperties
    <3>3. cpumap = << >> => Len(cpumap) = 0
      OBVIOUS
    <3>4. cpumap # << >> => 1 \in 1..Len(cpumap)
      BY <3>1, <2>0
    <3> QED
      BY <3>2, <3>3, <3>4
  <2>5. Cardinality(Members \cup {x}) = Cardinality(Members) + 1
    BY <2>3, AddOne DEF ScanInv, TablesInv
  <2>6. cpumap = << >> => x = Bsp
    <3>1. cpumap = << >> => Members = {}
      BY DEF Members
    <3> QED BY <3>1, <2>3 DEF ScanInv
  <2>7. rec' \in 1..(Len(madt) + 1)
    BY <1>1, <1>9
  <2>8. Members = ListedBefore(rec) /\ Cardinality(Members) = Len(cpumap)
    BY DEF ScanInv
  <2>9. cpumap'[1] = Bsp
    BY <2>4, <2>6 DEF ScanInv
  <2>10. Len(cpumap') <= MAX_PCPU_ENTRIES
    BY <1>9, <2>0, <2>4, BootAssumption
  <2>11. Members' = ListedBefore(rec)' /\ Cardinality(Members)' = Len(cpumap)'
    BY <2>1, <2>2, <2>3, <2>4, <2>5, <2>8
  <2> QED
    BY <1>1, <1>4, <1>5, <2>7, <2>9, <2>10, <2>11 DEF ScanInv
<1> QED
  BY <1>7, <1>8, <1>9 DEF SmpGetinfo, numentries

\* Afterwards g_cpumap stays as it is, and no CPU starts before it is complete.
LEMMA ScanNext ==
  ASSUME JInv, [Next]_vars
  PROVE  ScanInv'
<1> USE DEF JInv, IInv
<1>1. CASE SmpGetinfo
  BY <1>1, ScanRecord
<1>0. ASSUME UNCHANGED <<madt, rec, cpumap>>,
             pc'[Bsp] = "smp_getinfo" => midtable' = << >>,
             \A c \in Cpus : pc'[c] \notin {"reset", "wait_sipi", "smp_getinfo", "failed"}
                               => Scanned
      PROVE  ScanInv'
  <2>1. Members' = Members /\ ListedBefore(rec)' = ListedBefore(rec) /\ Scanned' = Scanned
    BY <1>0 DEF Members, ListedBefore, Scanned
  <2> QED
    BY <1>0, <2>1 DEF ScanInv
<1> USE DEF tables, idtVars, devices
<1>2. CASE SmpGetinfoReturn
  <2>1. Scanned
    <3>1. Len(madt) \in Nat
      BY MadtFacts
    <3>2. rec > Len(madt) /\ rec \in 1..(Len(madt) + 1)
      BY <1>2 DEF SmpGetinfoReturn, ScanInv
    <3> QED
      BY <3>1, <3>2 DEF Scanned
  <2>2. UNCHANGED <<madt, rec, cpumap>> /\ pc'[Bsp] # "smp_getinfo"
    BY <1>2, BootAssumption DEF SmpGetinfoReturn, Goto, TypeOK
  <2> QED
    BY <1>0, <2>1, <2>2
<1>3. CASE SmpInit \/ SendInit \/ SendFirstSipi \/ SendSecondSipi
  <2>1. Scanned
    BY <1>3, BootAssumption DEF SmpInit, SendInit, SendFirstSipi, SendSecondSipi, ScanInv
  <2>2. UNCHANGED <<madt, rec, cpumap>>
    BY <1>3 DEF SmpInit, SendInit, SendFirstSipi, SendSecondSipi
  <2>3. pc'[Bsp] # "smp_getinfo"
    BY <1>3, BootAssumption DEF SmpInit, SendInit, SendFirstSipi, SendSecondSipi, Goto, TypeOK
  <2> QED
    BY <1>0, <2>1, <2>2, <2>3
<1>4. ASSUME NEW c \in Cpus, CpuStep(c) PROVE ScanInv'
  <2>1. CASE GetVcpu(c)
    <3>1. UNCHANGED <<madt, rec, cpumap, midtable>> /\ \A d \in Cpus \ {c} : pc'[d] = pc[d]
      BY <2>1 DEF GetVcpu, Goto, TypeOK
    <3>2. Scanned /\ pc'[c] # "smp_getinfo"
      BY <2>1 DEF GetVcpu, ScanInv, Goto, TypeOK
    <3> QED
      BY <1>0, <3>1, <3>2, BootAssumption DEF ScanInv
  <2>2. CASE ~ GetVcpu(c)
    <3>1. /\ UNCHANGED <<madt, rec, cpumap, midtable>> /\ Moves(c)
          /\ \A d \in Cpus \ {c} : pc'[d] = pc[d]
      BY <1>4, <2>2, CpuMoves
    <3>2. Scanned /\ pc'[c] # "smp_getinfo"
      BY <3>1 DEF Moves, ScanInv, InIdt, BeforeArrive2, Past2, Halted
    <3> QED
      BY <1>0, <3>1, <3>2, BootAssumption DEF ScanInv
  <2> QED BY <2>1, <2>2
<1>5. CASE PitTick \/ PitInterrupt \/ \E c \in Cpus : LapicInterrupt(c)
  <2>1. /\ UNCHANGED <<madt, rec, cpumap, midtable>>
        /\ \A d \in Cpus \ {Bsp} : pc'[d] = pc[d]
        /\ \/ pc'[Bsp] = pc[Bsp]
           \/ pc[Bsp] \in Past2 \ Halted /\ pc'[Bsp] \in Past2 \ Halted
    BY <1>5, InterruptMoves
  <2> QED
    BY <1>0, <2>1, BootAssumption DEF ScanInv, Past2, Halted
<1>6. CASE UNCHANGED vars
  BY <1>0, <1>6 DEF vars, ScanInv
<1> QED
  BY <1>1, <1>2, <1>3, <1>4, <1>5, <1>6 DEF Next, BspStep, Interrupt

(* The other steps, sorted by what they do to VCPUs. *)

\* smp_init and wakeupAPs touch no CPU that has a VCPU, park none, and fail
\* only in smp_getinfo.
LEMMA BspMoves ==
  ASSUME TypeOK, TablesInv, BspInv, BspStep
  PROVE  /\ UNCHANGED <<opt, madt, idx, count1, isr0, shot_arrived>>
         /\ \A d \in Cpus : idx[d] # -1 => pc'[d] = pc[d]
         /\ \A d \in Cpus : pc'[d] = "halt" => pc[d] = "halt"
         /\ \A d \in Cpus : pc'[d] = "failed" =>
              pc[d] = "failed" \/ (d = Bsp /\ pc[Bsp] = "smp_getinfo")
         /\ \/ midtable' = midtable
            \/ (\A d \in Cpus : idx[d] = -1) /\ pc[Bsp] = "smp_init"
<1> USE BootAssumption DEF TypeOK, TablesInv, Goto, tables, idtVars, devices, Unstarted, AtBsp
<1>1. CASE SmpGetinfo
  BY <1>1 DEF SmpGetinfo
<1>2. CASE SmpGetinfoReturn
  BY <1>2 DEF SmpGetinfoReturn
<1>3. CASE SmpInit
  BY <1>3 DEF SmpInit, BspInv
<1>4. CASE SendInit
  BY <1>4 DEF SendInit, BspInv
<1>5. CASE SendFirstSipi
  BY <1>5 DEF SendFirstSipi, BspInv
<1>6. CASE SendSecondSipi
  BY <1>6 DEF SendSecondSipi
<1> QED
  BY <1>1, <1>2, <1>3, <1>4, <1>5, <1>6 DEF BspStep

\* The search of init_core_lowlevel_setup ends at the CPU's own entry of the
\* complete table, or parks a CPU that has none.
LEMMA SearchMoves ==
  ASSUME TypeOK, TablesInv, BspInv, NEW c \in Cpus, GetVcpu(c)
  PROVE  /\ UNCHANGED <<opt, madt, cpumap, midtable, rec, count1, isr0, shot_arrived>>
         /\ midtable = cpumap /\ pc[c] = "getvcpu" /\ idx[c] = -1
         /\ \A d \in Cpus \ {c} : pc'[d] = pc[d] /\ idx'[d] = idx[d]
         /\ \/ pc'[c] = "barrier1" /\ \E i \in DOMAIN midtable :
                                       midtable[i] = c /\ idx'[c] = i - 1
            \/ pc'[c] = "halt" /\ idx'[c] = -1 /\ c \notin Members
<1> USE DEF TypeOK, Goto, tables, idtVars, devices
<1>1. pc[c] = "getvcpu" /\ idx[c] = -1 /\ midtable = cpumap
  BY DEF GetVcpu, TablesInv, BspInv
<1>2. UNCHANGED <<opt, madt, cpumap, midtable, rec, count1, isr0, shot_arrived>>
  BY DEF GetVcpu
<1>3. CASE \E i \in Slots(c) : idx' = [idx EXCEPT ![c] = i - 1] /\ Goto(c, "barrier1")
  BY <1>1, <1>2, <1>3 DEF Slots
<1>4. CASE Slots(c) = {} /\ Goto(c, "halt") /\ UNCHANGED idx
  <2>1. c \notin Members
    BY <1>1, <1>4 DEF Slots, Members
  <2> QED
    BY <1>1, <1>2, <1>4, <2>1
<1> QED
  BY <1>3, <1>4 DEF GetVcpu

\* A CPU keeps its VCPU, and g_midtable its entries.
LEMMA VcpuNext ==
  ASSUME JInv, [Next]_vars
  PROVE  VcpuInv'
<1> USE DEF JInv, IInv
<1>0. ASSUME UNCHANGED idx, midtable' = midtable \/ \A d \in Cpus : idx[d] = -1
      PROVE  VcpuInv'
  BY <1>0 DEF VcpuInv
<1>1. CASE BspStep
  BY <1>0, <1>1, BspMoves
<1>2. ASSUME NEW c \in Cpus, GetVcpu(c) PROVE VcpuInv'
  <2>1. /\ midtable' = midtable
        /\ \A d \in Cpus \ {c} : idx'[d] = idx[d]
        /\ \/ \E i \in DOMAIN midtable : midtable[i] = c /\ idx'[c] = i - 1
           \/ idx'[c] = -1
    BY <1>2, SearchMoves
  <2>2. DOMAIN midtable \subseteq Nat
    BY DEF TypeOK
  <2> QED
    BY <2>1, <2>2 DEF VcpuInv
<1>3. ASSUME NEW c \in Cpus, CpuStep(c), ~ GetVcpu(c) PROVE VcpuInv'
  BY <1>0, <1>3, CpuMoves
<1>4. CASE Interrupt
  BY <1>0, <1>4, InterruptMoves DEF Interrupt
<1>5. CASE UNCHANGED vars
  BY <1>0, <1>5 DEF vars, tables
<1> QED
  BY <1>1, <1>2, <1>3, <1>4, <1>5 DEF Next

\* The table is complete when the first CPU searches it, so a CPU that does
\* not find itself is not listed.
LEMMA ParkNext ==
  ASSUME JInv, [Next]_vars
  PROVE  OnlyUnlistedPark'
<1> USE DEF JInv, IInv
<1>0. ASSUME UNCHANGED <<madt, idx>>,
             \A d \in Cpus : (pc'[d] = "halt" /\ idx[d] = -1) => pc[d] = "halt"
      PROVE  OnlyUnlistedPark'
  <2>1. Listed' = Listed
    BY <1>0 DEF Listed
  <2> QED
    BY <1>0, <2>1 DEF OnlyUnlistedPark
<1>1. CASE BspStep
  BY <1>0, <1>1, BspMoves
<1>2. ASSUME NEW c \in Cpus, GetVcpu(c) PROVE OnlyUnlistedPark'
  <2>1. /\ madt' = madt /\ pc[c] = "getvcpu"
        /\ \A d \in Cpus \ {c} : idx'[d] = idx[d] /\ pc'[d] = pc[d]
        /\ pc'[c] = "barrier1" \/ c \notin Members
    BY <1>2, SearchMoves
  <2>2. Members = Listed
    <3>1. Scanned
      BY <2>1 DEF ScanInv
    <3> QED
      BY <3>1, MadtFacts DEF ScanInv, Scanned
  <2>3. Listed' = Listed
    BY <2>1 DEF Listed
  <2> QED
    BY <2>1, <2>2, <2>3 DEF OnlyUnlistedPark
<1>3. ASSUME NEW c \in Cpus, CpuStep(c), ~ GetVcpu(c) PROVE OnlyUnlistedPark'
  BY <1>0, <1>3, CpuMoves
<1>4. CASE Interrupt
  BY <1>0, <1>4, InterruptMoves, BootAssumption DEF Interrupt
<1>5. CASE UNCHANGED vars
  BY <1>0, <1>5 DEF vars, tables
<1> QED
  BY <1>1, <1>2, <1>3, <1>4, <1>5 DEF Next

\* The one shot comes after the BSP remapped the 8259s, and no other CPU is
\* VCPU 0: nothing takes the interrupt out of service.
LEMMA ShotNext ==
  ASSUME JInv, [Next]_vars
  PROVE  ShotInv'
<1> USE BootAssumption DEF JInv, IInv
<1>1. CASE BspStep
  <2>1. /\ UNCHANGED <<idx, isr0, shot_arrived>>
        /\ \A d \in Cpus : idx[d] # -1 => pc'[d] = pc[d]
    BY <1>1, BspMoves
  <2> QED
    BY <2>1 DEF ShotInv
<1>2. ASSUME NEW c \in Cpus, GetVcpu(c) PROVE ShotInv'
  <2>1. /\ UNCHANGED <<isr0, shot_arrived>> /\ pc[c] = "getvcpu"
        /\ \A d \in Cpus \ {c} : idx'[d] = idx[d] /\ pc'[d] = pc[d]
    BY <1>2, SearchMoves
  <2> QED
    BY <2>1 DEF ShotInv, Past2, Halted
<1>3. ASSUME NEW c \in Cpus, CpuStep(c), ~ GetVcpu(c) PROVE ShotInv'
  <2>1. /\ UNCHANGED <<idx, shot_arrived>> /\ Moves(c) /\ idx[c] # -1
        /\ \A d \in Cpus \ {c} : pc'[d] = pc[d]
        /\ isr0' = isr0 \/ (pc[c] = "shv_main" /\ idx[c] = 0)
    BY <1>3, CpuMoves
  <2>2. c = Bsp /\ pc[c] \in Past2 => pc'[c] \in Past2
    BY <2>1 DEF Moves, InIdt, BeforeArrive2, Past2, Halted
  <2>3. idx[c] = 0 => c = Bsp
    <3>1. cpumap[1] = Bsp
      BY <2>1, BspIsFirst
    <3>2. midtable = cpumap /\ midtable[idx[c] + 1] = c
      BY <2>1 DEF TablesInv, VcpuInv
    <3>3. idx[c] = 0 => idx[c] + 1 = 1
      OBVIOUS
    <3> QED
      BY <3>1, <3>2, <3>3
  <2>4. shot_arrived => isr0' = isr0
    BY <2>1, <2>3 DEF ShotInv, Past2, Halted
  <2> QED
    BY <2>1, <2>2, <2>4 DEF ShotInv
<1>4. CASE Interrupt
  <2>1. /\ UNCHANGED idx
        /\ \/ pc'[Bsp] = pc[Bsp]
           \/ idx[Bsp] # -1 /\ pc[Bsp] \in Past2 \ Halted /\ pc'[Bsp] \in Past2 \ Halted
        /\ \/ shot_arrived' = shot_arrived /\ isr0' = isr0
           \/ ~ shot_arrived' /\ ~ shot_arrived
           \/ isr0' /\ idx[Bsp] # -1 /\ pc[Bsp] \in Past2
    BY <1>4, InterruptMoves DEF Interrupt
  <2>2. pc[Bsp] \in Past2 => pc'[Bsp] \in Past2
    BY <2>1
  <2>3. shot_arrived' => isr0' /\ idx[Bsp] # -1 /\ pc[Bsp] \in Past2
    <3>1. CASE shot_arrived' = shot_arrived /\ isr0' = isr0
      BY <3>1 DEF ShotInv
    <3> QED
      BY <2>1, <3>1
  <2> QED
    BY <2>1, <2>2, <2>3 DEF ShotInv
<1>5. CASE UNCHANGED vars
  BY <1>5 DEF vars, devices, ShotInv
<1> QED
  BY <1>1, <1>2, <1>3, <1>4, <1>5 DEF Next

\* Once the MADT is scanned g_cpumap has as many entries as CPUs are listed.
LEMMA ScannedFacts ==
  ASSUME TypeOK, TablesInv, ScanInv, Scanned
  PROVE  /\ Members = Listed /\ IsFiniteSet(Listed)
         /\ Cardinality(Listed) = Len(cpumap) /\ Len(cpumap) \in Nat
<1>1. Members = Listed
  BY MadtFacts DEF ScanInv, Scanned
<1>2. Len(cpumap) \in Nat
  BY DEF TypeOK
<1> QED
  BY <1>1, <1>2 DEF ScanInv, TablesInv

\* smp_getinfo fails only on a MADT with no CPU or with too many.
LEMMA ScanFails ==
  ASSUME TypeOK, TablesInv, ScanInv, SmpGetinfo \/ SmpGetinfoReturn, pc'[Bsp] = "failed"
  PROVE  Cardinality(Listed) \notin 1..MAX_PCPU_ENTRIES
<1> USE BootAssumption
<1>0. Len(madt) \in Nat /\ Listed \subseteq Cpus /\ ListedBefore(Len(madt) + 1) = Listed
  BY MadtFacts
<1>1. CASE SmpGetinfo
  <2>1. /\ rec \in 1..Len(madt) /\ Processor(madt[rec])
        /\ Len(cpumap) >= MAX_PCPU_ENTRIES
    BY <1>0, <1>1 DEF SmpGetinfo, ScanInv, TypeOK, numentries
  <2>2. /\ madt[rec].lapicid \notin Members
        /\ ListedBefore(rec + 1) = Members \cup {madt[rec].lapicid}
    BY <2>1, ListedNext DEF ScanInv
  <2>3. ListedBefore(rec + 1) \subseteq Listed
    <3>1. 1..((rec + 1) - 1) \subseteq 1..((Len(madt) + 1) - 1)
      BY <1>0, <2>1
    <3>2. ListedBefore(rec + 1) \subseteq ListedBefore(Len(madt) + 1)
      BY <3>1 DEF ListedBefore
    <3> QED
      BY <1>0, <3>2
  <2>4. Cardinality(Members \cup {madt[rec].lapicid}) = Len(cpumap) + 1
    BY <2>2, AddOne DEF ScanInv, TablesInv
  <2>5. IsFiniteSet(Listed) /\ Cardinality(Listed) \in Nat
    BY <1>0, FS_Subset, FS_CardinalityType
  <2>6. Cardinality(ListedBefore(rec + 1)) <= Cardinality(Listed)
    BY <2>3, <2>5, FS_Subset
  <2>7. Len(cpumap) + 1 <= Cardinality(Listed) /\ Len(cpumap) \in Nat
    <3>1. Len(cpumap) \in Nat
      BY DEF TypeOK
    <3> QED
      BY <2>2, <2>4, <2>6, <3>1
  <2> QED
    BY <2>1, <2>5, <2>7
<1>2. CASE SmpGetinfoReturn
  <2>1. rec > Len(madt) /\ Len(cpumap) = 0
    BY <1>2 DEF SmpGetinfoReturn, Goto, TypeOK, numentries
  <2>2. Scanned
    <3>1. rec \in 1..(Len(madt) + 1)
      BY DEF ScanInv
    <3> QED
      BY <1>0, <2>1, <3>1 DEF Scanned
  <2>3. Cardinality(Listed) = 0
    BY <2>1, <2>2, ScannedFacts
  <2> QED
    BY <2>3
<1> QED
  BY <1>1, <1>2

\* Only the ASSERTs about the machine fail.
LEMMA FailNext ==
  ASSUME JInv, [Next]_vars
  PROVE  OnlyMachineFailures'
<1> USE BootAssumption DEF JInv, IInv
<1> DEFINE Machine(d) ==
             \/ d = Bsp /\ midtable = << >>
                        /\ Cardinality(Listed) \notin 1..MAX_PCPU_ENTRIES
             \/ opt.nmi /\ Cardinality(Listed) < 2
             \/ ~ opt.no_vga_art /\ idx[d] >= CONSOLE_MAX_CPU
<1>0. ASSUME UNCHANGED <<opt, madt>>,
             midtable' = midtable \/ pc[Bsp] # "failed",
             \A d \in Cpus : pc'[d] = "failed" =>
                \/ pc[d] = "failed" /\ idx'[d] = idx[d]
                \/ Machine(d) /\ idx'[d] = idx[d] /\ midtable' = midtable
      PROVE  OnlyMachineFailures'
  <2>1. Listed' = Listed
    BY <1>0 DEF Listed
  <2>2. ASSUME NEW d \in Cpus, pc'[d] = "failed" PROVE Machine(d)'
    <3>1. Machine(d) /\ idx'[d] = idx[d] /\ (d = Bsp => midtable' = midtable)
      BY <1>0, <2>2 DEF OnlyMachineFailures
    <3> QED
      BY <1>0, <2>1, <3>1
  <2> QED
    BY <2>2 DEF OnlyMachineFailures
<1>1. CASE BspStep
  <2>1. /\ UNCHANGED <<opt, madt, idx>>
        /\ \A d \in Cpus : pc'[d] = "failed" =>
             pc[d] = "failed" \/ (d = Bsp /\ pc[Bsp] = "smp_getinfo")
        /\ midtable' = midtable \/ pc[Bsp] = "smp_init"
    BY <1>1, BspMoves
  <2>2. pc[Bsp] = "smp_getinfo" /\ pc'[Bsp] = "failed" => Machine(Bsp) /\ midtable' = midtable
    <3> SUFFICES ASSUME pc[Bsp] = "smp_getinfo", pc'[Bsp] = "failed"
                 PROVE  Machine(Bsp) /\ midtable' = midtable
      OBVIOUS
    <3>1. SmpGetinfo \/ SmpGetinfoReturn
      BY <1>1 DEF BspStep, SmpInit, SendInit, SendFirstSipi, SendSecondSipi
    <3>2. Cardinality(Listed) \notin 1..MAX_PCPU_ENTRIES
      BY <3>1, ScanFails
    <3>3. midtable = << >> /\ midtable' = midtable
      BY <2>1 DEF ScanInv
    <3> QED
      BY <3>2, <3>3
  <2> HIDE DEF Machine
  <2> QED
    BY <1>0, <2>1, <2>2
<1>2. ASSUME NEW c \in Cpus, GetVcpu(c) PROVE OnlyMachineFailures'
  <2>1. /\ UNCHANGED <<opt, madt, midtable>> /\ pc'[c] # "failed"
        /\ \A d \in Cpus \ {c} : idx'[d] = idx[d] /\ pc'[d] = pc[d]
    BY <1>2, SearchMoves
  <2> HIDE DEF Machine
  <2> QED
    BY <1>0, <2>1
<1>3. ASSUME NEW c \in Cpus, CpuStep(c), ~ GetVcpu(c) PROVE OnlyMachineFailures'
  <2>1. /\ UNCHANGED <<opt, madt, midtable, idx>> /\ Moves(c)
        /\ \A d \in Cpus \ {c} : pc'[d] = pc[d]
        /\ pc'[c] = "failed" => \/ opt.nmi /\ Len(cpumap) < 2
                                \/ ~ opt.no_vga_art /\ idx[c] >= CONSOLE_MAX_CPU
    BY <1>3, CpuMoves
  <2>2. Scanned
    BY <2>1 DEF Moves, ScanInv, InIdt, BeforeArrive2, Past2, Halted
  <2>3. Cardinality(Listed) = Len(cpumap)
    BY <2>2, ScannedFacts
  <2>4. pc'[c] = "failed" => Machine(c)
    BY <2>1, <2>3
  <2> HIDE DEF Machine
  <2> QED
    BY <1>0, <2>1, <2>4
<1>4. CASE Interrupt
  <2>1. /\ UNCHANGED <<opt, madt, midtable, idx>>
        /\ \A d \in Cpus \ {Bsp} : pc'[d] = pc[d]
        /\ pc'[Bsp] = pc[Bsp] \/ pc'[Bsp] \in Past2 \ Halted
    BY <1>4, InterruptMoves DEF Interrupt
  <2>2. pc'[Bsp] = "failed" => pc[Bsp] = "failed"
    BY <2>1 DEF Halted
  <2> HIDE DEF Machine
  <2> QED
    BY <1>0, <2>1, <2>2
<1>5. CASE UNCHANGED vars
  BY <1>0, <1>5 DEF vars, tables
<1> QED
  BY <1>1, <1>2, <1>3, <1>4, <1>5 DEF Next

-----------------------------------------------------------------------------
(* The barriers. *)

\* Two sets that agree but for one element.
LEMMA AgreeBut ==
  ASSUME NEW S, NEW T, NEW x, T \ {x} = S \ {x}
  PROVE  /\ (x \in T <=> x \in S) => T = S
         /\ x \in T => T = S \cup {x}
OBVIOUS

\* The sets of a barrier change at most by the CPU that moves.
LEMMA OthersStay ==
  ASSUME NEW c \in Cpus,
         \A d \in Cpus \ {c} : idx'[d] = idx[d] /\ (idx[d] # -1 => pc'[d] = pc[d])
  PROVE  /\ ArrivedAt1' \ {c} = ArrivedAt1 \ {c} /\ Gone1' \ {c} = Gone1 \ {c}
         /\ ArrivedAt2' \ {c} = ArrivedAt2 \ {c} /\ Gone2' \ {c} = Gone2 \ {c}
<1>1. ArrivedAt1' \ {c} = ArrivedAt1 \ {c}
  BY DEF ArrivedAt1
<1>2. \A d \in ArrivedAt1 \ {c} : pc'[d] = pc[d]
  BY DEF ArrivedAt1
<1>3. Gone1' \ {c} = Gone1 \ {c}
  BY <1>1, <1>2 DEF Gone1, ArrivedAt1
<1>4. ArrivedAt2' \ {c} = ArrivedAt2 \ {c}
  BY <1>1, <1>2, <1>3 DEF ArrivedAt2, Gone1, ArrivedAt1
<1>5. Gone2' \ {c} = Gone2 \ {c}
  BY <1>1, <1>2, <1>4 DEF Gone2, ArrivedAt2, Gone1, ArrivedAt1
<1> QED
  BY <1>1, <1>3, <1>4, <1>5

\* A CPU that does not go through a barrier, and one that may.
Still(c) ==
  /\ \/ idx[c] = -1 /\ (idx'[c] = -1 \/ pc'[c] = "barrier1")
     \/ idx'[c] = idx[c] /\ pc'[c] = pc[c]
  /\ count1' = count1
Walks(c) ==
  /\ idx[c] # -1 /\ idx'[c] = idx[c] /\ Moves(c)
  /\ count1' = IF pc[c] = "barrier1" THEN count1 + 1 ELSE count1

\* Every step moves at most one of the CPUs that have a VCPU.
LEMMA OneWalks ==
  ASSUME JInv, [Next]_vars
  PROVE  /\ Listed' = Listed
         /\ \E c \in Cpus :
              /\ \A d \in Cpus \ {c} :
                   idx'[d] = idx[d] /\ (idx[d] # -1 => pc'[d] = pc[d])
              /\ Still(c) \/ Walks(c)
<1> USE BootAssumption DEF JInv, IInv
<1> DEFINE Turn(c) == /\ \A d \in Cpus \ {c} :
                           idx'[d] = idx[d] /\ (idx[d] # -1 => pc'[d] = pc[d])
                      /\ Still(c) \/ Walks(c)
<1> SUFFICES madt' = madt /\ \E c \in Cpus : Turn(c)
  BY DEF Listed
<1>1. CASE BspStep
  <2>1. /\ UNCHANGED <<madt, idx, count1>>
        /\ \A d \in Cpus : idx[d] # -1 => pc'[d] = pc[d]
    BY <1>1, BspMoves
  <2>2. Turn(Bsp)
    BY <2>1 DEF Still
  <2> QED
    BY <2>1, <2>2
<1>2. ASSUME NEW c \in Cpus, GetVcpu(c) PROVE madt' = madt /\ Turn(c)
  <2>1. /\ UNCHANGED <<madt, count1>> /\ idx[c] = -1
        /\ \A d \in Cpus \ {c} : pc'[d] = pc[d] /\ idx'[d] = idx[d]
        /\ pc'[c] = "barrier1" \/ idx'[c] = -1
    BY <1>2, SearchMoves
  <2> QED
    BY <2>1 DEF Still
<1>3. ASSUME NEW c \in Cpus, CpuStep(c), ~ GetVcpu(c) PROVE madt' = madt /\ Turn(c)
  <2>1. /\ UNCHANGED <<madt, idx>> /\ idx[c] # -1
        /\ \A d \in Cpus \ {c} : pc'[d] = pc[d]
        /\ Moves(c)
        /\ count1' = IF pc[c] = "barrier1" THEN count1 + 1 ELSE count1
    BY <1>3, CpuMoves
  <2>2. Walks(c)
    BY <2>1 DEF Walks
  <2> QED
    BY <2>1, <2>2
<1>4. CASE Interrupt
  <2>1. /\ UNCHANGED <<madt, idx, count1>>
        /\ \A d \in Cpus \ {Bsp} : pc'[d] = pc[d]
        /\ \/ pc'[Bsp] = pc[Bsp]
           \/ idx[Bsp] # -1 /\ pc[Bsp] \in Past2 \ Halted /\ pc'[Bsp] \in Past2 \ Halted
    BY <1>4, InterruptMoves DEF Interrupt
  <2>2. CASE pc'[Bsp] = pc[Bsp]
    <3>1. Turn(Bsp)
      BY <2>1, <2>2 DEF Still
    <3> QED
      BY <2>1, <3>1
  <2>3. CASE idx[Bsp] # -1 /\ pc[Bsp] \in Past2 \ Halted /\ pc'[Bsp] \in Past2 \ Halted
    <3>1. Moves(Bsp) /\ pc[Bsp] # "barrier1"
      BY <2>3 DEF Moves, Past2, Halted
    <3>2. Turn(Bsp)
      BY <2>1, <2>3, <3>1 DEF Walks
    <3> QED
      BY <2>1, <3>2
  <2> QED
    BY <2>1, <2>2, <2>3
<1>5. CASE UNCHANGED vars
  <2>1. UNCHANGED <<madt, idx, pc, count1>>
    BY <1>5 DEF vars, tables
  <2>2. Turn(Bsp)
    BY <2>1 DEF Still
  <2> QED
    BY <2>1, <2>2
<1> HIDE DEF Turn
<1> QED
  BY <1>1, <1>2, <1>3, <1>4, <1>5 DEF Next

\* What a step of the moving CPU does to the first barrier ...
LEMMA Walk1 ==
  ASSUME NEW c \in Cpus, Still(c) \/ Walks(c),
         \A d \in Cpus \ {c} : idx'[d] = idx[d] /\ (idx[d] # -1 => pc'[d] = pc[d])
  PROVE  \/ /\ ArrivedAt1' = ArrivedAt1 \cup {c} /\ c \notin ArrivedAt1
            /\ Gone1' = Gone1 /\ count1' = count1 + 1
            /\ idx[c] # -1 /\ pc[c] = "barrier1"
         \/ /\ ArrivedAt1' = ArrivedAt1 /\ Gone1' = Gone1 \cup {c} /\ c \notin Gone1
            /\ count1' = count1 /\ count1 >= Len(cpumap)
            /\ idx[c] # -1 /\ pc[c] = "barrier1_spin"
         \/ UNCHANGED <<ArrivedAt1, Gone1, count1>>
<1>1. ArrivedAt1' \ {c} = ArrivedAt1 \ {c} /\ Gone1' \ {c} = Gone1 \ {c}
  BY OthersStay
<1>2. /\ c \in ArrivedAt1 <=> idx[c] # -1 /\ pc[c] \notin BeforeArrive1
      /\ c \in ArrivedAt1' <=> idx'[c] # -1 /\ pc'[c] \notin BeforeArrive1
      /\ c \in Gone1 <=> c \in ArrivedAt1 /\ pc[c] # "barrier1_spin"
      /\ c \in Gone1' <=> c \in ArrivedAt1' /\ pc'[c] # "barrier1_spin"
  BY DEF ArrivedAt1, Gone1
<1>7. /\ (c \in ArrivedAt1' <=> c \in ArrivedAt1) => ArrivedAt1' = ArrivedAt1
      /\ c \in ArrivedAt1' => ArrivedAt1' = ArrivedAt1 \cup {c}
      /\ (c \in Gone1' <=> c \in Gone1) => Gone1' = Gone1
      /\ c \in Gone1' => Gone1' = Gone1 \cup {c}
  BY <1>1, AgreeBut
<1> USE DEF BeforeArrive1, InIdt, BeforeArrive2, Past2, Halted
<1>3. CASE Still(c)
  <2>1. c \in ArrivedAt1' <=> c \in ArrivedAt1
    BY <1>2, <1>3 DEF Still
  <2>2. c \in Gone1' <=> c \in Gone1
    BY <1>2, <1>3 DEF Still
  <2> QED
    BY <1>7, <1>3, <2>1, <2>2 DEF Still
<1>4. CASE Walks(c) /\ pc[c] = "barrier1"
  <2>1. c \in ArrivedAt1' /\ c \notin ArrivedAt1 /\ c \notin Gone1 /\ c \notin Gone1'
    BY <1>2, <1>4 DEF Walks, Moves
  <2> QED
    BY <1>7, <1>4, <2>1 DEF Walks
<1>5. CASE Walks(c) /\ pc[c] = "barrier1_spin"
  <2>1. /\ c \in ArrivedAt1' /\ c \in ArrivedAt1 /\ c \notin Gone1 /\ c \in Gone1'
        /\ count1 >= Len(cpumap)
    BY <1>2, <1>5 DEF Walks, Moves
  <2> QED
    BY <1>7, <1>5, <2>1 DEF Walks
<1>6. CASE Walks(c) /\ pc[c] \notin {"barrier1", "barrier1_spin"}
  <2>1. c \in ArrivedAt1' /\ c \in ArrivedAt1 /\ c \in Gone1 /\ c \in Gone1'
    BY <1>2, <1>6 DEF Walks, Moves
  <2> QED
    BY <1>7, <1>6, <2>1 DEF Walks
<1> QED
  BY <1>3, <1>4, <1>5, <1>6

\* ... and to the second one.
LEMMA Walk2 ==
  ASSUME NEW c \in Cpus, Still(c) \/ Walks(c),
         \A d \in Cpus \ {c} : idx'[d] = idx[d] /\ (idx[d] # -1 => pc'[d] = pc[d])
  PROVE  \/ /\ ArrivedAt2' = ArrivedAt2 \cup {c} /\ c \notin ArrivedAt2
            /\ Gone2' = Gone2
            /\ idx[c] # -1 /\ pc[c] = "barrier2"
         \/ /\ ArrivedAt2' = ArrivedAt2 /\ Gone2' = Gone2 \cup {c} /\ c \notin Gone2
            /\ count2 >= Len(cpumap)
            /\ idx[c] # -1 /\ pc[c] = "barrier2_spin"
         \/ UNCHANGED <<ArrivedAt2, Gone2>>
<1>1. ArrivedAt2' \ {c} = ArrivedAt2 \ {c} /\ Gone2' \ {c} = Gone2 \ {c}
  BY OthersStay
<1>2. /\ c \in ArrivedAt2 <=>
           idx[c] # -1 /\ pc[c] \notin BeforeArrive1 \cup {"barrier1_spin"}
                                      \cup InIdt \cup BeforeArrive2
      /\ c \in ArrivedAt2' <=>
           idx'[c] # -1 /\ pc'[c] \notin BeforeArrive1 \cup {"barrier1_spin"}
                                        \cup InIdt \cup BeforeArrive2
      /\ c \in Gone2 <=> c \in ArrivedAt2 /\ pc[c] # "barrier2_spin"
      /\ c \in Gone2' <=> c \in ArrivedAt2' /\ pc'[c] # "barrier2_spin"
  BY DEF ArrivedAt1, Gone1, ArrivedAt2, Gone2
<1>7. /\ (c \in ArrivedAt2' <=> c \in ArrivedAt2) => ArrivedAt2' = ArrivedAt2
      /\ c \in ArrivedAt2' => ArrivedAt2' = ArrivedAt2 \cup {c}
      /\ (c \in Gone2' <=> c \in Gone2) => Gone2' = Gone2
      /\ c \in Gone2' => Gone2' = Gone2 \cup {c}
  BY <1>1, AgreeBut
<1> USE DEF BeforeArrive1, InIdt, BeforeArrive2, Past2, Halted
<1>3. CASE Still(c)
  <2>1. c \in ArrivedAt2' <=> c \in ArrivedAt2
    BY <1>2, <1>3 DEF Still
  <2>2. c \in Gone2' <=> c \in Gone2
    BY <1>2, <1>3 DEF Still
  <2> QED
    BY <1>7, <2>1, <2>2
<1>4. CASE Walks(c) /\ pc[c] = "barrier2" /\ pc'[c] = "barrier2_spin"
  <2>1. c \in ArrivedAt2' /\ c \notin ArrivedAt2 /\ c \notin Gone2 /\ c \notin Gone2'
    BY <1>2, <1>4 DEF Walks
  <2> QED
    BY <1>7, <1>4, <2>1 DEF Walks
<1>5. CASE Walks(c) /\ pc[c] = "barrier2_spin"
  <2>1. /\ c \in ArrivedAt2' /\ c \in ArrivedAt2 /\ c \notin Gone2 /\ c \in Gone2'
        /\ count2 >= Len(cpumap)
    BY <1>2, <1>5 DEF Walks, Moves
  <2> QED
    BY <1>7, <1>5, <2>1 DEF Walks
<1>6. CASE Walks(c) /\ pc[c] # "barrier2_spin" /\ pc'[c] # "barrier2_spin"
  <2>1. (c \in ArrivedAt2' <=> c \in ArrivedAt2) /\ (c \in Gone2 <=> c \in Gone2')
    BY <1>2, <1>6 DEF Walks, Moves
  <2> QED
    BY <1>7, <2>1
<1> QED
  BY <1>3, <1>4, <1>5, <1>6 DEF Walks, Moves

\* lock_incl of the first barrier is the one step that adds to ArrivedAt1.
LEMMA Count1Next ==
  ASSUME JInv, [Next]_vars
  PROVE  Count1Inv'
<1>1. PICK c \in Cpus :
        /\ \A d \in Cpus \ {c} : idx'[d] = idx[d] /\ (idx[d] # -1 => pc'[d] = pc[d])
        /\ Still(c) \/ Walks(c)
  BY OneWalks
<1>2. \/ /\ ArrivedAt1' = ArrivedAt1 \cup {c} /\ c \notin ArrivedAt1
         /\ count1' = count1 + 1
      \/ UNCHANGED <<ArrivedAt1, count1>>
  BY <1>1, Walk1
<1>3. IsFiniteSet(ArrivedAt1)
  BY BootAssumption, FS_Subset DEF ArrivedAt1
<1>4. c \notin ArrivedAt1 => Cardinality(ArrivedAt1 \cup {c}) = Cardinality(ArrivedAt1) + 1
  BY <1>3, AddOne
<1> QED
  BY <1>2, <1>4 DEF JInv, Count1Inv

-----------------------------------------------------------------------------
(* The invariant as a whole, and what it implies. *)

\* Before smp_getinfo runs g_cpumap is empty and no CPU has a VCPU.
LEMMA TableInit == Init => JInv
<1> SUFFICES ASSUME Init PROVE JInv
  OBVIOUS
<1> USE BootAssumption
<1>1. IInv
  BY InvInit
<1>2. ScanInv
  <2>1. Members = {} /\ Cardinality(Members) = 0
    <3>1. Members = {}
      BY DEF Init, Members
    <3> QED
      BY <3>1, FS_EmptySet
  <2>2. Len(madt) \in Nat
    BY <1>1, MadtFacts DEF IInv
  <2>3. ListedBefore(1) = {}
    BY DEF ListedBefore
  <2>4. rec = 1 /\ cpumap = << >> /\ Len(cpumap) = 0 /\ midtable = << >>
    BY DEF Init
  <2>5. \A c \in Cpus : pc[c] \in {"reset", "smp_getinfo"}
    BY DEF Init
  <2> QED
    BY <2>1, <2>2, <2>3, <2>4, <2>5, BootAssumption DEF ScanInv, Scanned
<1>3. VcpuInv /\ ShotInv /\ OnlyUnlistedPark /\ OnlyMachineFailures
  BY DEF Init, VcpuInv, ShotInv, OnlyUnlistedPark, OnlyMachineFailures
<1>4. Count1Inv
  <2>1. ArrivedAt1 = {}
    BY DEF Init, ArrivedAt1
  <2> QED
    BY <2>1, FS_EmptySet DEF Init, Count1Inv
<1> QED
  BY <1>1, <1>2, <1>3, <1>4 DEF JInv

\* No step breaks it.
LEMMA TableNext == JInv /\ [Next]_vars => JInv'
<1> SUFFICES ASSUME JInv, [Next]_vars PROVE JInv'
  OBVIOUS
<1>1. IInv'
  BY InvNext DEF JInv
<1> QED
  BY <1>1, ScanNext, VcpuNext, ParkNext, ShotNext, FailNext, Count1Next DEF JInv

\* So it always holds.
LEMMA TableInv == Spec => []JInv
BY TableInit, TableNext, PTL DEF Spec

\* On every machine no two CPUs run on the same VCPU, and so on the same stack,
\* GDT and TSS, and every VCPU is an element of g_vcpus: the search of
\* init_core_lowlevel_setup ends at the CPU's own entry of a table that
\* smp_getinfo kept within MAX_PCPU_ENTRIES.
THEOREM VcpusDistinct == Spec => []DistinctVcpus
<1>1. JInv => DistinctVcpus
  <2> SUFFICES ASSUME JInv PROVE DistinctVcpus
    OBVIOUS
  <2> USE BootAssumption DEF JInv, IInv
  <2>1. Len(cpumap) \in Nat /\ DOMAIN cpumap = 1..Len(cpumap) /\ idx \in [Cpus -> Int]
    BY DEF TypeOK
  <2>2. ASSUME NEW c \in Cpus PROVE idx[c] < MAX_PCPU_ENTRIES
    <3>1. CASE idx[c] = -1
      BY <3>1
    <3>2. CASE idx[c] # -1
      <4>1. idx[c] + 1 \in DOMAIN cpumap
        BY <3>2 DEF VcpuInv, TablesInv
      <4>2. Len(cpumap) <= MAX_PCPU_ENTRIES
        BY DEF ScanInv
      <4> QED
        BY <2>1, <4>1, <4>2
    <3> QED
      BY <3>1, <3>2
  <2>3. ASSUME NEW c \in Cpus, NEW d \in Cpus, idx[c] = idx[d], idx[c] # -1
        PROVE  c = d
    BY <2>3 DEF VcpuInv
  <2> QED
    BY <2>2, <2>3 DEF DistinctVcpus
<1> QED
  BY <1>1, TableInv, PTL

\* On every machine a CPU that parks in init_core_lowlevel_setup is one that
\* the MADT does not list: no AP searches g_midtable before it is complete.
THEOREM ParkedUnlisted == Spec => []OnlyUnlistedPark
<1>1. JInv => OnlyUnlistedPark
  BY DEF JInv
<1> QED
  BY <1>1, TableInv, PTL

\* On every machine and under every option the only ASSERTs that can fail are
\* those about the machine; "Only one interrupt should arrive, ever" never
\* does.
THEOREM FailuresOfMachine == Spec => []OnlyMachineFailures
<1>1. JInv => OnlyMachineFailures
  BY DEF JInv
<1> QED
  BY <1>1, TableInv, PTL

\* Whoever moves while the counter has reached g_midtable_numentries knows
\* that all listed CPUs have arrived.
LEMMA AllArrived ==
  ASSUME JInv, Scanned, NEW A, NEW n \in Nat, A \subseteq Members,
         n = Cardinality(A), n >= Len(cpumap)
  PROVE  A = Listed
<1>1. /\ Members = Listed /\ IsFiniteSet(Listed)
      /\ Cardinality(Listed) = Len(cpumap) /\ Len(cpumap) \in Nat
  BY ScannedFacts DEF JInv, IInv
<1>2. /\ Cardinality(A) <= Cardinality(Listed)
      /\ Cardinality(A) = Cardinality(Listed) => A = Listed
  BY <1>1, FS_Subset
<1> QED
  BY <1>1, <1>2

\* On every machine the barrier of kernel_main_smp and the one of shv_main each
\* implement the abstract barrier among the listed CPUs: nobody goes on before
\* everybody has arrived, although the code compares a counter only.
THEOREM ImplementsBarriers == Spec => BarriersSpec
<1> USE BootAssumption
<1>1. Init => B1!Init /\ B2!Init
  <2> SUFFICES ASSUME Init PROVE B1!Init /\ B2!Init
    OBVIOUS
  <2>1. ArrivedAt1 = {}
    BY DEF Init, ArrivedAt1
  <2>2. Gone1 = {} /\ ArrivedAt2 = {} /\ Gone2 = {}
    BY <2>1 DEF Gone1, ArrivedAt2, Gone2
  <2> QED
    BY <2>1, <2>2 DEF B1!Init, B2!Init
<1>2. JInv /\ [Next]_vars => [B1!Next]_(B1!vars) /\ [B2!Next]_(B2!vars)
  <2> SUFFICES ASSUME JInv, [Next]_vars
               PROVE  [B1!Next]_(B1!vars) /\ [B2!Next]_(B2!vars)
    OBVIOUS
  <2>1. Listed' = Listed
    BY OneWalks
  <2>2. PICK c \in Cpus :
          /\ \A d \in Cpus \ {c} : idx'[d] = idx[d] /\ (idx[d] # -1 => pc'[d] = pc[d])
          /\ Still(c) \/ Walks(c)
    BY OneWalks
  <2>3. ArrivedAt1 \subseteq Members /\ ArrivedAt2 \subseteq Members
    BY DEF JInv, IInv, TablesInv, ArrivedAt1, Gone1, ArrivedAt2
  <2>4. pc[c] \in {"barrier1", "barrier1_spin", "barrier2", "barrier2_spin"}
          => Scanned /\ Members = Listed
    <3>1. pc[c] \in {"barrier1", "barrier1_spin", "barrier2", "barrier2_spin"} => Scanned
      BY DEF JInv, ScanInv
    <3> QED
      BY <3>1, ScannedFacts DEF JInv, IInv
  <2>5. idx[c] # -1 => c \in Members
    BY DEF JInv, IInv, TablesInv
  <2>6. [B1!Next]_(B1!vars)
    <3>1. CASE /\ ArrivedAt1' = ArrivedAt1 \cup {c} /\ c \notin ArrivedAt1
               /\ Gone1' = Gone1 /\ idx[c] # -1 /\ pc[c] = "barrier1"
      <4>1. c \in Listed /\ B1!Arrive(c)
        BY <2>1, <2>4, <2>5, <3>1 DEF B1!Arrive
      <4> QED
        BY <4>1 DEF B1!Next
    <3>2. CASE /\ ArrivedAt1' = ArrivedAt1 /\ Gone1' = Gone1 \cup {c} /\ c \notin Gone1
               /\ count1 >= Len(cpumap) /\ idx[c] # -1 /\ pc[c] = "barrier1_spin"
      <4>1. count1 = Cardinality(ArrivedAt1) /\ count1 \in Nat
        BY DEF JInv, IInv, Count1Inv, TypeOK
      <4>2. ArrivedAt1 = Listed
        BY <2>3, <2>4, <3>2, <4>1, AllArrived
      <4>3. c \in Listed /\ B1!Leave(c)
        BY <2>1, <2>4, <2>5, <3>2, <4>2 DEF B1!Leave
      <4> QED
        BY <4>3 DEF B1!Next
    <3>3. CASE UNCHANGED <<ArrivedAt1, Gone1>>
      BY <2>1, <3>3 DEF B1!vars
    <3> QED
      BY <2>2, <3>1, <3>2, <3>3, Walk1
  <2>7. [B2!Next]_(B2!vars)
    <3>1. CASE /\ ArrivedAt2' = ArrivedAt2 \cup {c} /\ c \notin ArrivedAt2
               /\ Gone2' = Gone2 /\ idx[c] # -1 /\ pc[c] = "barrier2"
      <4>1. c \in Listed /\ B2!Arrive(c)
        BY <2>1, <2>4, <2>5, <3>1 DEF B2!Arrive
      <4> QED
        BY <4>1 DEF B2!Next
    <3>2. CASE /\ ArrivedAt2' = ArrivedAt2 /\ Gone2' = Gone2 \cup {c} /\ c \notin Gone2
               /\ count2 >= Len(cpumap) /\ idx[c] # -1 /\ pc[c] = "barrier2_spin"
      <4>1. ArrivedAt2 = Arrived2
        <5>1. \A d \in Cpus : idx[d] # -1 => pc[d] \in Location \ Unstarted
          BY DEF JInv, IInv, TypeOK, TablesInv
        <5>2. Location \ Unstarted = BeforeArrive1 \cup {"barrier1_spin"} \cup InIdt
                \cup BeforeArrive2 \cup {"barrier2_spin"} \cup Past2
          BY DEF Location, Unstarted, AtBsp, BeforeArrive1, InIdt, BeforeArrive2, Past2, Halted
        <5>3. \A l \in {"barrier2_spin"} \cup Past2 :
                l \notin BeforeArrive1 \cup {"barrier1_spin"} \cup InIdt \cup BeforeArrive2
          BY DEF BeforeArrive1, InIdt, BeforeArrive2, Past2, Halted
        <5> HIDE DEF JInv, IInv
        <5>4. \A d \in Cpus : idx[d] # -1 =>
                (pc[d] \in {"barrier2_spin"} \cup Past2 <=>
                 pc[d] \notin BeforeArrive1 \cup {"barrier1_spin"} \cup InIdt \cup BeforeArrive2)
          BY <5>1, <5>2, <5>3
        <5>5. ArrivedAt2 = {d \in Cpus : idx[d] # -1 /\
                pc[d] \notin BeforeArrive1 \cup {"barrier1_spin"} \cup InIdt \cup BeforeArrive2}
          BY DEF ArrivedAt2, Gone1, ArrivedAt1
        <5> QED
          BY <5>4, <5>5 DEF Arrived2
      <4>2. count2 = Cardinality(ArrivedAt2) /\ count2 \in Nat
        BY <4>1 DEF JInv, IInv, CountInv, TypeOK
      <4>3. ArrivedAt2 = Listed
        BY <2>3, <2>4, <3>2, <4>2, AllArrived
      <4>4. c \in Listed /\ B2!Leave(c)
        BY <2>1, <2>4, <2>5, <3>2, <4>3 DEF B2!Leave
      <4> QED
        BY <4>4 DEF B2!Next
    <3>3. CASE UNCHANGED <<ArrivedAt2, Gone2>>
      BY <2>1, <3>3 DEF B2!vars
    <3> QED
      BY <2>2, <3>1, <3>2, <3>3, Walk2
  <2> QED
    BY <2>6, <2>7
<1> QED
  BY <1>1, <1>2, TableInv, PTL DEF Spec, BarriersSpec, B1!Spec, B2!Spec
=============================================================================
