-------------------------------- MODULE Boot --------------------------------
(***************************************************************************)
(* SMP bring-up of SHV: from smp_init on the bootstrap processor to the     *)
(* call of shv_vmx_main on every CPU (smp.c, smp-asm.S, kernel.c, idt.c,    *)
(* shv.c, shv-pic.c, shv-timer.c).                                          *)
(*                                                                         *)
(* A CPU is named by its LAPIC id.  Each CPU runs the same straight-line    *)
(* code, so its state is a program counter, the index of the VCPU it found  *)
(* for itself and its interrupt flag; everything else is memory or device   *)
(* state shared by all CPUs.                                                *)
(***************************************************************************)
EXTENDS Integers, Sequences, FiniteSets

CONSTANTS
  Cpus,               \* LAPIC ids of the CPUs that answer INIT-SIPI-SIPI
  Bsp,                \* the bootstrap processor
  Madts,              \* the MADTs the firmware may present (seqs of records)
  MAX_PCPU_ENTRIES,   \* capacity of g_cpumap, g_midtable, g_vcpus
  CONSOLE_MAX_CPU,    \* number of VCPUs the VGA art has room for
  MaxTime             \* bound on the tick counters pit_time and lapic_time

Processor(r) == r.type = 0 /\ r.enabled

(***************************************************************************)
(* What the firmware guarantees about a MADT: every enabled processor       *)
(* record names a CPU that exists, no CPU is named twice, and (smp.c:       *)
(* "ACPI spec says that first processor entry MUST be BSP") the first one   *)
(* is the bootstrap processor.                                              *)
(***************************************************************************)
FirmwareMadt(m) ==
  /\ m \in Seq([type : Nat, enabled : BOOLEAN, lapicid : Cpus])
  /\ \A i, j \in DOMAIN m :
       (Processor(m[i]) /\ Processor(m[j]) /\ m[i].lapicid = m[j].lapicid)
         => i = j
  /\ \A i \in DOMAIN m :
       (Processor(m[i]) /\ \A j \in 1..(i - 1) : ~ Processor(m[j]))
         => m[i].lapicid = Bsp

ASSUME BootAssumption ==
  /\ IsFiniteSet(Cpus)
  /\ Bsp \in Cpus
  /\ MAX_PCPU_ENTRIES \in Nat \ {0}
  /\ CONSOLE_MAX_CPU \in Nat \ {0}
  /\ MaxTime \in Nat \ {0}
  /\ \A m \in Madts : FirmwareMadt(m)

\* The bits of g_shv_opt and g_nmi_opt that the bring-up code tests;
\* unrestricted64 is SHV_USE_UNRESTRICTED_GUEST in an amd64 build.
Options == [nmi : BOOLEAN, no_interrupt : BOOLEAN, no_eflags_if : BOOLEAN,
            unrestricted64 : BOOLEAN, no_vga_art : BOOLEAN]

VARIABLES
  opt,           \* options in effect (set by parse_cmdline before smp_init)
  madt,          \* the firmware's MADT
  rec,           \* next MADT record smp_getinfo looks at
  cpumap,        \* g_cpumap; its length is g_midtable_numentries
  midtable,      \* g_midtable: LAPIC id of the VCPU with index i - 1
  pc,            \* program counter of each CPU
  idx,           \* index of the VCPU the CPU adopted, -1 before
  count1,        \* static count of the barrier in kernel_main_smp
  count2,        \* static count of the barrier in shv_main
  lock,          \* static lock of construct_idt
  initialized,   \* static flag of construct_idt
  idt,           \* tables already built: subset of {"host", "guest"}
  idtr,          \* CPUs that executed lidt
  eflagsIF,      \* EFLAGS.IF of each CPU
  pic,           \* the 8259s are remapped by pic_init
  irr0, isr0,    \* IRQ 0 requested / in service at the master 8259
  pit,           \* programming of the 8254: "bios","square","oneshot","idle"
  lapicTimer,    \* CPUs whose LAPIC timer is running
  shot_arrived,  \* static flag of handle_timer_interrupt
  pit_time,      \* vcpu->pit_time of the BSP
  lapic_time     \* vcpu->lapic_time of each CPU

tables == <<opt, madt, cpumap, midtable>>
idtVars == <<lock, initialized, idt, idtr>>
devices == <<pic, irr0, isr0, pit, lapicTimer, shot_arrived, pit_time,
             lapic_time>>
vars == <<tables, rec, pc, idx, count1, count2, idtVars, eflagsIF, devices>>

Goto(c, l) == pc' = [pc EXCEPT ![c] = l]

\* An ASSERT that does not hold, or HALT(): the CPU stays in cpu_halt().
Halted == {"halt", "failed"}

isbsp(c) == idx[c] = 0
numentries == Len(cpumap)

Init ==
  /\ opt \in Options
  /\ madt \in Madts
  /\ rec = 1
  /\ cpumap = << >>
  /\ midtable = << >>
  /\ pc = [c \in Cpus |-> IF c = Bsp THEN "smp_getinfo" ELSE "reset"]
  /\ idx = [c \in Cpus |-> -1]
  /\ count1 = 0
  /\ count2 = 0
  /\ lock = 0
  /\ initialized = FALSE
  /\ idt = {}
  /\ idtr = {}
  /\ eflagsIF = [c \in Cpus |-> FALSE]
  /\ pic = FALSE
  /\ irr0 = FALSE
  /\ isr0 = FALSE
  /\ pit = "bios"
  /\ lapicTimer = {}
  /\ shot_arrived = FALSE
  /\ pit_time = 0
  /\ lapic_time = [c \in Cpus |-> 0]

-----------------------------------------------------------------------------
(* smp.c: only the BSP runs. *)

\* smp_getinfo: one MADT record.  A processor record that is enabled goes to
\* g_cpumap; ASSERT(*num_pcpus < MAX_PCPU_ENTRIES) guards the array.
SmpGetinfo ==
  /\ pc[Bsp] = "smp_getinfo"
  /\ rec <= Len(madt)
  /\ \/ /\ Processor(madt[rec])
        /\ numentries < MAX_PCPU_ENTRIES
        /\ cpumap' = Append(cpumap, madt[rec].lapicid)
        /\ rec' = rec + 1
        /\ UNCHANGED pc
     \/ /\ Processor(madt[rec])
        /\ numentries >= MAX_PCPU_ENTRIES
        /\ Goto(Bsp, "failed")
        /\ UNCHANGED <<cpumap, rec>>
     \/ /\ ~ Processor(madt[rec])
        /\ rec' = rec + 1
        /\ UNCHANGED <<cpumap, pc>>
  /\ UNCHANGED <<opt, madt, midtable, idx, count1, count2, idtVars, eflagsIF,
                 devices>>

\* End of the MADT: without a single core, ASSERT(0 && "ACPI detection failed").
SmpGetinfoReturn ==
  /\ pc[Bsp] = "smp_getinfo"
  /\ rec > Len(madt)
  /\ Goto(Bsp, IF numentries = 0 THEN "failed" ELSE "smp_init")
  /\ UNCHANGED <<tables, rec, idx, count1, count2, idtVars, eflagsIF, devices>>

\* The entries of g_midtable after the loop of smp_init, and the mutant that
\* stops one entry early.
FilledShort == SubSeq(cpumap, 1, numentries - 1)
Filled == cpumap

\* The loop of smp_init that fills g_midtable and g_vcpus.
SmpInit ==
  /\ pc[Bsp] = "smp_init"
  /\ midtable' = Filled
  /\ Goto(Bsp, "send_init")
  /\ UNCHANGED <<opt, madt, cpumap, rec, idx, count1, count2, idtVars,
                 eflagsIF, devices>>

\* wakeupAPs: the INIT IPI goes to all CPUs excluding self, listed or not.
SendInit ==
  /\ pc[Bsp] = "send_init"
  /\ pc' = [c \in Cpus |-> IF c = Bsp THEN "send_sipi" ELSE "wait_sipi"]
  /\ UNCHANGED <<tables, rec, idx, count1, count2, idtVars, eflagsIF, devices>>

\* wakeupAPs: the first startup IPI, which some APs may miss ("twice as per
\* the MP protocol"): S are the ones that start on it.
SendFirstSipi ==
  /\ pc[Bsp] = "send_sipi"
  /\ \E S \in SUBSET (Cpus \ {Bsp}) :
       pc' = [c \in Cpus |->
                IF c = Bsp THEN "send_sipi_2"
                ELSE IF c \in S THEN "getvcpu" ELSE pc[c]]
  /\ UNCHANGED <<tables, rec, idx, count1, count2, idtVars, eflagsIF, devices>>

\* wakeupAPs: the second one starts the APs that still wait for it; a CPU that
\* already runs ignores it.  Then the BSP calls init_core_lowlevel_setup too.
SendSecondSipi ==
  /\ pc[Bsp] = "send_sipi_2"
  /\ pc' = [c \in Cpus |->
              IF c = Bsp \/ pc[c] = "wait_sipi" THEN "getvcpu" ELSE pc[c]]
  /\ UNCHANGED <<tables, rec, idx, count1, count2, idtVars, eflagsIF, devices>>

-----------------------------------------------------------------------------
(* smp-asm.S and kernel.c: every CPU. *)

\* Mutant: the comparison with the own LAPIC id is lost.
SlotsAny(c) == DOMAIN midtable

Slots(c) == {i \in DOMAIN midtable : midtable[i] = c}

\* init_core_lowlevel_setup: linear search of g_midtable for the own LAPIC id.
\* A CPU the MADT does not list halts; the others switch to the VCPU's stack.
GetVcpu(c) ==
  /\ pc[c] = "getvcpu"
  /\ \/ \E i \in Slots(c) :
          /\ \A j \in Slots(c) : i <= j
          /\ idx' = [idx EXCEPT ![c] = i - 1]
          /\ Goto(c, "barrier1")
     \/ /\ Slots(c) = {}
        /\ Goto(c, "halt")
        /\ UNCHANGED idx
  /\ UNCHANGED <<tables, rec, count1, count2, idtVars, eflagsIF, devices>>

\* kernel_main_smp: lock_incl(&count) of the first barrier.
Barrier1Arrive(c) ==
  /\ pc[c] = "barrier1"
  /\ count1' = count1 + 1
  /\ Goto(c, "barrier1_spin")
  /\ UNCHANGED <<tables, rec, idx, count2, idtVars, eflagsIF, devices>>

\* When the spin loop of the first barrier ends; the mutant is off by one.
Barrier1OpenEarly == count1 + 1 >= numentries
Barrier1Open == count1 >= numentries

\* kernel_main_smp: the spin loop ends, then init_gdt(vcpu) (per-CPU table).
Barrier1Leave(c) ==
  /\ pc[c] = "barrier1_spin"
  /\ Barrier1Open
  /\ Goto(c, "idt_lock")
  /\ UNCHANGED <<tables, rec, idx, count1, count2, idtVars, eflagsIF, devices>>

\* construct_idt: spin_lock(&lock).
IdtLock(c) ==
  /\ pc[c] = "idt_lock"
  /\ lock = 0
  /\ lock' = 1
  /\ Goto(c, "idt_check")
  /\ UNCHANGED <<tables, rec, idx, count1, count2, initialized, idt, idtr,
                 eflagsIF, devices>>

\* The lock word after construct_idt released it on both of its paths; the
\* mutant forgets the spin_unlock of the early return.
UnlockedLeak == IF initialized THEN lock ELSE 0
Unlocked == 0

\* construct_idt: test and set initialized, spin_unlock(&lock).  The tables
\* are built after the unlock, so a CPU that finds initialized set returns
\* while another one may still be building.
IdtCheck(c) ==
  /\ pc[c] = "idt_check"
  /\ lock' = Unlocked
  /\ initialized' = TRUE
  /\ Goto(c, IF initialized THEN "lidt" ELSE "idt_host")
  /\ UNCHANGED <<tables, rec, idx, count1, count2, idt, idtr, eflagsIF,
                 devices>>

\* construct_idt: the loop over g_idt_host.
IdtBuildHost(c) ==
  /\ pc[c] = "idt_host"
  /\ idt' = idt \cup {"host"}
  /\ Goto(c, "idt_guest")
  /\ UNCHANGED <<tables, rec, idx, count1, count2, lock, initialized, idtr,
                 eflagsIF, devices>>

\* construct_idt: the loop over g_idt_guest.
IdtBuildGuest(c) ==
  /\ pc[c] = "idt_guest"
  /\ idt' = idt \cup {"guest"}
  /\ Goto(c, "lidt")
  /\ UNCHANGED <<tables, rec, idx, count1, count2, lock, initialized, idtr,
                 eflagsIF, devices>>

\* init_idt: lidt.
Lidt(c) ==
  /\ pc[c] = "lidt"
  /\ idtr' = idtr \cup {c}
  /\ Goto(c, "shv_main")
  /\ UNCHANGED <<tables, rec, idx, count1, count2, lock, initialized, idt,
                 eflagsIF, devices>>

-----------------------------------------------------------------------------
(* shv.c: shv_main on every CPU. *)

\* The BSP clears the cursor and remaps the 8259s; ICW1 resets both, and the
\* OCW1 writes unmask every IRQ.
ShvMain(c) ==
  /\ pc[c] = "shv_main"
  /\ IF isbsp(c)
     THEN pic' = TRUE /\ irr0' = FALSE /\ isr0' = FALSE
     ELSE UNCHANGED <<pic, irr0, isr0>>
  /\ Goto(c, "barrier2")
  /\ UNCHANGED <<tables, rec, idx, count1, count2, idtVars, eflagsIF, pit,
                 lapicTimer, shot_arrived, pit_time, lapic_time>>

\* lock_incl(&count) of the second barrier.
Barrier2Arrive(c) ==
  /\ pc[c] = "barrier2"
  /\ count2' = count2 + 1
  /\ Goto(c, "barrier2_spin")
  /\ UNCHANGED <<tables, rec, idx, count1, idtVars, eflagsIF, devices>>

\* When the spin loop of the second barrier ends; the mutant is no
\* barrier at all.
Barrier2OpenAlways == TRUE
Barrier2Open == count2 >= numentries

\* The spin loop of the second barrier ends.
Barrier2Leave(c) ==
  /\ pc[c] = "barrier2_spin"
  /\ Barrier2Open
  /\ Goto(c, "nmi_check")
  /\ UNCHANGED <<tables, rec, idx, count1, count2, idtVars, eflagsIF, devices>>

\* "When testing NMI, we need exactly 2 CPUs."
NmiCheck(c) ==
  /\ pc[c] = "nmi_check"
  /\ Goto(c, IF opt.nmi /\ idx[c] >= 2 THEN "halt"
             ELSE IF opt.nmi /\ numentries < 2 THEN "failed"
             ELSE "timer_init")
  /\ UNCHANGED <<tables, rec, idx, count1, count2, idtVars, eflagsIF, devices>>

\* timer_init.  With SHV_NO_INTERRUPT the BSP arms the PIT once and sleeps in
\* "sti; hlt; cli"; otherwise it makes the PIT periodic.  A LAPIC timer runs
\* unless SHV_NO_INTERRUPT or SHV_NMI_ENABLE (an AP enables its LAPIC first).
TimerInit(c) ==
  /\ pc[c] = "timer_init"
  /\ pit' = IF ~ isbsp(c) THEN pit
            ELSE IF opt.no_interrupt THEN "oneshot" ELSE "square"
  /\ lapicTimer' = IF opt.no_interrupt \/ opt.nmi
                   THEN lapicTimer ELSE lapicTimer \cup {c}
  /\ IF isbsp(c) /\ opt.no_interrupt
     THEN /\ Goto(c, "oneshot_hlt")
          /\ eflagsIF' = [eflagsIF EXCEPT ![c] = TRUE]
     ELSE /\ Goto(c, "vga_art")
          /\ UNCHANGED eflagsIF
  /\ UNCHANGED <<tables, rec, idx, count1, count2, idtVars, pic, irr0, isr0,
                 shot_arrived, pit_time, lapic_time>>

\* The cli after the hlt of timer_init (the hlt ends in PitInterrupt).
OneShotCli(c) ==
  /\ pc[c] = "oneshot_cli"
  /\ eflagsIF' = [eflagsIF EXCEPT ![c] = FALSE]
  /\ Goto(c, "vga_art")
  /\ UNCHANGED <<tables, rec, idx, count1, count2, idtVars, devices>>

\* VGA art: console_get_vc asserts that the console has room for this VCPU.
VgaArt(c) ==
  /\ pc[c] = "vga_art"
  /\ Goto(c, IF ~ opt.no_vga_art /\ idx[c] >= CONSOLE_MAX_CPU
             THEN "failed" ELSE "paging_demo")
  /\ UNCHANGED <<tables, rec, idx, count1, count2, idtVars, eflagsIF, devices>>

\* "Demonstrate disabling paging in hypervisor": the amd64
\* routine shv_disable_enable_paging ends in sti whatever IF was before.
PagingDemo(c) ==
  /\ pc[c] = "paging_demo"
  /\ eflagsIF' = [eflagsIF EXCEPT
                    ![c] = @ \/ opt.unrestricted64]
  /\ Goto(c, "sti")
  /\ UNCHANGED <<tables, rec, idx, count1, count2, idtVars, devices>>

\* sti unless SHV_NO_EFLAGS_IF; in NMI mode the BSP then only forwards
\* interrupts from HALT(), every other CPU calls shv_vmx_main.
Sti(c) ==
  /\ pc[c] = "sti"
  /\ eflagsIF' = [eflagsIF EXCEPT ![c] = @ \/ ~ opt.no_eflags_if]
  /\ Goto(c, IF opt.nmi /\ isbsp(c) THEN "halt" ELSE "shv_vmx_main")
  /\ UNCHANGED <<tables, rec, idx, count1, count2, idtVars, devices>>

-----------------------------------------------------------------------------
(* Interrupts. *)

\* The 8254 raises IRQ 0: periodically as the BIOS left it or once
\* programmed as a square wave, a single time as a one-shot.
PitTick ==
  /\ pit \in {"bios", "square", "oneshot"}
  /\ ~ irr0
  /\ irr0' = TRUE
  /\ pit' = IF pit = "oneshot" THEN "idle" ELSE pit
  /\ UNCHANGED <<tables, rec, pc, idx, count1, count2, idtVars, eflagsIF, pic,
                 isr0, lapicTimer, shot_arrived, pit_time, lapic_time>>

Wake(c) == pc' = IF pc[c] = "oneshot_hlt"
                 THEN [pc EXCEPT ![c] = "oneshot_cli"] ELSE pc

\* The interrupt stays in service when the handler returns without an EOI; the
\* mutant acknowledges the one-shot interrupt too.
NoEoiMutant == FALSE
NoEoi == opt.no_interrupt

\* handle_timer_interrupt, vector 0x20.  With SHV_NO_INTERRUPT it asserts that
\* this is the BSP's only timer interrupt and returns without an EOI.
PitInterrupt ==
  /\ eflagsIF[Bsp]
  /\ irr0
  /\ ~ isr0
  /\ opt.no_interrupt \/ pit_time < MaxTime
  /\ irr0' = FALSE
  /\ isr0' = NoEoi
  /\ shot_arrived' = (shot_arrived \/ opt.no_interrupt)
  /\ pit_time' = IF opt.no_interrupt THEN pit_time ELSE pit_time + 1
  /\ IF opt.no_interrupt /\ (~ isbsp(Bsp) \/ shot_arrived)
     THEN Goto(Bsp, "failed")
     ELSE Wake(Bsp)
  /\ UNCHANGED <<tables, rec, idx, count1, count2, idtVars, eflagsIF, pic,
                 pit, lapicTimer, lapic_time>>

\* handle_timer_interrupt, vector 0x22, on the CPU whose LAPIC timer expired.
LapicInterrupt(c) ==
  /\ eflagsIF[c]
  /\ c \in lapicTimer
  /\ lapic_time[c] < MaxTime
  /\ lapic_time' = [lapic_time EXCEPT ![c] = @ + 1]
  /\ UNCHANGED <<tables, rec, pc, idx, count1, count2, idtVars, eflagsIF, pic,
                 irr0, isr0, pit, lapicTimer, shot_arrived, pit_time>>

-----------------------------------------------------------------------------
BspStep == \/ SmpGetinfo \/ SmpGetinfoReturn \/ SmpInit
           \/ SendInit \/ SendFirstSipi \/ SendSecondSipi

CpuStep(c) == \/ GetVcpu(c)
              \/ Barrier1Arrive(c) \/ Barrier1Leave(c)
              \/ IdtLock(c) \/ IdtCheck(c)
              \/ IdtBuildHost(c) \/ IdtBuildGuest(c) \/ Lidt(c)
              \/ ShvMain(c)
              \/ Barrier2Arrive(c) \/ Barrier2Leave(c)
              \/ NmiCheck(c)
              \/ TimerInit(c) \/ OneShotCli(c) \/ VgaArt(c)
              \/ PagingDemo(c) \/ Sti(c)

Interrupt == PitTick \/ PitInterrupt \/ \E c \in Cpus : LapicInterrupt(c)

Next == BspStep \/ (\E c \in Cpus : CpuStep(c)) \/ Interrupt

\* A CPU that can execute its next instruction eventually does; the timer
\* ticks and a deliverable interrupt is delivered.
Fairness ==
  /\ WF_vars(BspStep)
  /\ \A c \in Cpus : WF_vars(CpuStep(c))
  /\ WF_vars(PitTick)
  /\ WF_vars(PitInterrupt)

Spec == Init /\ [][Next]_vars

FairSpec == Spec /\ Fairness
-----------------------------------------------------------------------------
(* Properties. *)

\* Program counters, grouped by how far through the bring-up they are.
AtBsp == {"smp_getinfo", "smp_init", "send_init", "send_sipi", "send_sipi_2"}
Unstarted == {"reset", "wait_sipi"} \cup AtBsp
BeforeArrive1 == {"getvcpu", "barrier1"}
InIdt == {"idt_lock", "idt_check", "idt_host", "idt_guest", "lidt"}
BeforeArrive2 == {"shv_main", "barrier2"}
Past2 == {"nmi_check", "timer_init", "oneshot_hlt", "oneshot_cli",
          "vga_art", "paging_demo", "sti", "shv_vmx_main"} \cup Halted
Location == Unstarted \cup BeforeArrive1 \cup {"barrier1_spin"} \cup InIdt
              \cup BeforeArrive2 \cup {"barrier2_spin"} \cup Past2

\* Every variable keeps the type the C declarations give it.
TypeOK ==
  /\ opt \in Options
  /\ madt \in Madts
  /\ rec \in Nat \ {0}
  /\ cpumap \in Seq(Cpus)
  /\ midtable \in Seq(Cpus)
  /\ pc \in [Cpus -> Location]
  /\ idx \in [Cpus -> Int]
  /\ count1 \in Nat
  /\ count2 \in Nat
  /\ lock \in {0, 1}
  /\ initialized \in BOOLEAN
  /\ idt \subseteq {"host", "guest"}
  /\ idtr \subseteq Cpus
  /\ eflagsIF \in [Cpus -> BOOLEAN]
  /\ pic \in BOOLEAN
  /\ irr0 \in BOOLEAN
  /\ isr0 \in BOOLEAN
  /\ pit \in {"bios", "square", "oneshot", "idle"}
  /\ lapicTimer \subseteq Cpus
  /\ shot_arrived \in BOOLEAN
  /\ pit_time \in 0..MaxTime
  /\ lapic_time \in [Cpus -> 0..MaxTime]

\* A CPU that accepts interrupts has loaded the IDT, both tables are complete
\* and the 8259s deliver at the remapped vectors.  construct_idt releases its
\* lock before it builds the tables, so this rests on the barrier of shv_main.
InterruptsFindIdt ==
  \A c \in Cpus :
    eflagsIF[c] => c \in idtr /\ idt = {"host", "guest"} /\ pic

\* The CPUs the MADT lists.
Listed == {madt[i].lapicid : i \in {j \in DOMAIN madt : Processor(madt[j])}}

\* No two CPUs ever run on the same VCPU (and so on the same g_cpu_stack
\* entry, GDT and TSS), and the VCPU is one of the array: init_core_lowlevel_
\* setup gives each CPU its own.
DistinctVcpus ==
  /\ \A c \in Cpus : idx[c] < MAX_PCPU_ENTRIES
  /\ \A c, d \in Cpus : (idx[c] = idx[d] /\ idx[c] # -1) => c = d

\* A CPU parks in the "we should never get here" hlt of init_core_lowlevel_
\* setup only when the MADT does not list it: an AP that starts on the first
\* SIPI already finds g_midtable complete.
OnlyUnlistedPark ==
  \A c \in Cpus : (pc[c] = "halt" /\ idx[c] = -1) => c \notin Listed

\* The only ASSERTs of the bring-up that can fail are the ones about the
\* machine: no or too many CPUs in the MADT (BSP, before the wake-up), fewer
\* than two CPUs in NMI mode, more CPUs than the VGA art has room for.  So
\* handle_timer_interrupt's "Only one interrupt should arrive, ever" holds
\* although the PIT still ticks at the BIOS rate until timer_init.
OnlyMachineFailures ==
  \A c \in Cpus :
    pc[c] = "failed" =>
      \/ c = Bsp /\ midtable = << >>
                 /\ Cardinality(Listed) \notin 1..MAX_PCPU_ENTRIES
      \/ opt.nmi /\ Cardinality(Listed) < 2
      \/ ~ opt.no_vga_art /\ idx[c] >= CONSOLE_MAX_CPU

\* Who has arrived at the barrier of kernel_main_smp and at the one of shv_main,
\* and who has left it.
ArrivedAt1 == {c \in Cpus : idx[c] # -1 /\ pc[c] \notin BeforeArrive1}
Gone1 == ArrivedAt1 \ {c \in Cpus : pc[c] = "barrier1_spin"}
ArrivedAt2 == Gone1 \ {c \in Cpus : pc[c] \in InIdt \cup BeforeArrive2}
Gone2 == ArrivedAt2 \ {c \in Cpus : pc[c] = "barrier2_spin"}

B1 == INSTANCE Barrier WITH members <- Listed, arrived <- ArrivedAt1,
                            left <- Gone1
B2 == INSTANCE Barrier WITH members <- Listed, arrived <- ArrivedAt2,
                            left <- Gone2
\* The barrier of kernel_main_smp and the one of shv_main each implement the
\* abstract barrier among the listed CPUs.
BarriersSpec == B1!Spec /\ B2!Spec

\* Every CPU ends where shv_main sends it: the listed CPUs in shv_vmx_main,
\* in NMI mode only the one with index 1 while the BSP forwards interrupts
\* from HALT(); the unlisted ones stay parked.
Done ==
  \A c \in Cpus :
    pc[c] = IF c \notin Listed THEN "halt"
            ELSE IF opt.nmi /\ idx[c] # 1 THEN "halt"
            ELSE IF ~ opt.no_vga_art /\ idx[c] >= CONSOLE_MAX_CPU THEN "failed"
            ELSE "shv_vmx_main"

\* The bring-up ends: no CPU is left behind in a barrier, at the lock or in
\* the hlt of timer_init (unless one of the machine's ASSERTs failed).
BootCompletes == <>[](Done \/ pc[Bsp] = "failed")
=============================================================================
