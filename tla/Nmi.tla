--------------------------------- MODULE Nmi ---------------------------------
(***************************************************************************)
(* The NMI test of SHV (shv-nmi.c): CPU 1 runs the experiments in a guest    *)
(* and in its hypervisor, the BSP sends it NMIs and ordinary interrupts     *)
(* (vector 0x54) in turn from its timer interrupt, one each interrupt_period *)
(* ticks, as long as CPU 1 has set l2_ready.                                *)
(*                                                                         *)
(* Where an interrupt hits is what the experiments test, so CPU 1 advances   *)
(* from one place an interrupt can hit to the next.  The processor's rules  *)
(* for blocking and delivering NMIs and for VM entry and VM exit are the     *)
(* environment, taken from how the experiments use them.                    *)
(***************************************************************************)
EXTENDS NmiExperiments

CONSTANTS
  interrupt_period,  \* ticks between an NMI and the next interrupt
  Lag,               \* ticks CPU 1 may need to fall asleep or to accept an IPI
  FirstTickInHlt,    \* the very first tick finds CPU 1 asleep already
  ExpMask            \* exp_mask, as the set of experiments it lets run

ASSUME NmiAssumption ==
  /\ interrupt_period \in Nat \ {0}
  /\ Lag \in 0..(interrupt_period - 1)
  /\ FirstTickInHlt \in BOOLEAN
  /\ ExpMask \subseteq 1..30

VARIABLES
  experiment_no,  \* 0 until the "Sleep" of shv_nmi_guest_main is over
  state_no,
  mode,           \* "guest" or "host"
  pc,             \* [guest, host]: next operation of f and of vmcall
  at,             \* [guest, host]: place within that operation
  reason,         \* why the guest exited: "vmcall", "nmi" or "window"
  l2_ready,
  exit,           \* [source, rip, source_old, rip_old]: exit_source etc.
  failed,         \* a TEST_ASSERT (it sets master_fail) or an ASSERT failed
  vmcs,           \* the fields of the VMCS the experiments use
  block, vblock,  \* blocking by NMI in effect: physical, virtual
  guestIF,        \* EFLAGS.IF of the guest outside hlt_wait
  pend,           \* "nmi", "ipi" arrived at CPU 1, not yet delivered
  inflight,       \* sent by the BSP, not yet arrived
  count,          \* static count of the BSP; 0 only before the first tick
  lag             \* ticks since CPU 1 was last at rest

cpu == <<block, vblock, guestIF, pend>>
bsp == <<inflight, count, lag>>
where == <<experiment_no, state_no, mode, pc, at, reason>>
vars == <<where, l2_ready, exit, failed, vmcs, cpu, bsp>>

Sources == {"MEASURE", "MEAS_2", "NMI_G", "TIMER_G", "NMI_H", "TIMER_H",
            "VMEXIT", "NMIWIND"}
Nothing == [source |-> "MEASURE", rip |-> "none",
            source_old |-> "MEASURE", rip_old |-> "none"]

\* "Wait for some time to make the results visible": ten ticks' worth of
\* rounds, run like an experiment with number 0.
SleepRounds == (10 + interrupt_period - 1) \div interrupt_period
SleepRound == << hlt_wait("NMI_G"), iret_wait("MEASURE"), hlt_wait("TIMER_G") >>
Sleep == [i \in 1..(3 * SleepRounds) |-> SleepRound[((i - 1) % 3) + 1]]

f == IF experiment_no = 0 THEN Sleep ELSE experiments[experiment_no].f
handlers == experiments[experiment_no].vmcall
script == IF mode = "guest" THEN f ELSE handlers[state_no + 1]

\* CPU 1 is about to perform operation o.
AtOp(o) == at[mode] = "op" /\ pc[mode] <= Len(script)
             /\ script[pc[mode]].op = o
Op == script[pc[mode]]

Init ==
  /\ experiment_no = 0
  /\ state_no = 0
  /\ mode = "guest"
  /\ pc = [guest |-> 1, host |-> 1]
  /\ at = [guest |-> "op", host |-> "vmexit_asm"]
  /\ reason = "vmcall"
  /\ l2_ready = 0
  /\ exit = Nothing
  /\ failed = FALSE
  /\ vmcs = [nmi_exiting |-> 0, virtual_nmis |-> 0, blocking |-> 0,
             nmi_windowing |-> 0, inject |-> "none", hlt |-> FALSE]
  /\ block = FALSE
  /\ vblock = FALSE
  /\ guestIF = FALSE
  /\ pend = {}
  /\ inflight = {}
  /\ count = 0
  /\ lag = 0

-----------------------------------------------------------------------------
(* The processor: what is deliverable, and where it hits. *)

Bit(b) == IF b THEN 1 ELSE 0

NmiDeliverable == "nmi" \in pend /\ ~ block

\* Interrupts are enabled in the hlt of hlt_wait (until its popf), and in the
\* guest after the sti of shv_nmi_guest_main, but in no interrupt handler.
InterruptFlag ==
  \/ at[mode] \in {"hlt", "woken"}
  \/ mode = "guest" /\ guestIF /\ at.guest \notin {"nmi_stub", "kbd_stub"}
IpiDeliverable == "ipi" \in pend /\ InterruptFlag

WindowOpen ==
  mode = "guest" /\ vmcs.nmi_windowing = 1 /\ vmcs.virtual_nmis = 1 /\ ~ vblock

\* An instruction completes only when no event has to be delivered before it.
Quiet == ~ NmiDeliverable /\ ~ IpiDeliverable /\ ~ WindowOpen
Running == ~ failed /\ Quiet

\* The address an interrupt at this place pushes.
Rip(place) == IF place = "woken" THEN "hlt" ELSE place

Woken(m) == [at EXCEPT ![m] = IF @ = "hlt" THEN "woken" ELSE @]

\* handle_interrupt_cpu1: record the interrupt once, or twice after
\* prepare_measure_2; anything else is unexpected.
Recorded(source, rip) ==
  IF exit.source = "MEASURE" THEN [exit EXCEPT !.source = source, !.rip = rip]
  ELSE IF exit.source = "MEAS_2"
    THEN [exit EXCEPT !.source = "MEASURE", !.source_old = source,
                      !.rip_old = rip]
  ELSE exit

handle_interrupt_cpu1(source, rip) ==
  /\ l2_ready' = 0
  /\ exit' = Recorded(source, rip)
  /\ failed' = (exit.source \notin {"MEASURE", "MEAS_2"})

\* handle_nmi_interrupt.  All handlers of CPU 1 return by a simulated IRET
\* (handle_idt returns 1), so NMIs stay blocked.
NmiInterrupt ==
  /\ ~ failed
  /\ NmiDeliverable
  /\ mode = "host" \/ (vmcs.nmi_exiting = 0 /\ ~ WindowOpen)
  /\ handle_interrupt_cpu1(IF mode = "guest" THEN "NMI_G" ELSE "NMI_H",
                           Rip(at[mode]))
  /\ block' = TRUE
  /\ pend' = pend \ {"nmi"}
  /\ at' = Woken(mode)
  /\ UNCHANGED <<experiment_no, state_no, mode, pc, reason, vmcs, vblock,
                 guestIF, bsp>>

\* handle_ipi_interrupt.
IpiInterrupt ==
  /\ ~ failed
  /\ IpiDeliverable /\ ~ NmiDeliverable /\ ~ WindowOpen
  /\ handle_interrupt_cpu1(IF mode = "guest" THEN "TIMER_G" ELSE "TIMER_H",
                           Rip(at[mode]))
  /\ pend' = pend \ {"ipi"}
  /\ at' = Woken(mode)
  /\ UNCHANGED <<experiment_no, state_no, mode, pc, reason, vmcs, block,
                 vblock, guestIF, bsp>>

\* A VM exit saves whether NMIs (virtual NMIs) were blocked and whether the
\* guest slept in HLT.
VmExit(why) ==
  /\ mode' = "host"
  /\ reason' = why
  /\ vmcs' = [vmcs EXCEPT
                !.blocking = Bit(IF vmcs.virtual_nmis = 1 THEN vblock ELSE block),
                !.hlt = (at.guest = "hlt")]

\* An NMI in a guest with NMI exiting; in the host NMIs are blocked then.
NmiExit ==
  /\ ~ failed
  /\ mode = "guest" /\ NmiDeliverable /\ vmcs.nmi_exiting = 1 /\ ~ WindowOpen
  /\ VmExit("nmi")
  /\ at' = [at EXCEPT !.host = "vmexit_asm"]
  /\ block' = TRUE
  /\ pend' = pend \ {"nmi"}
  /\ UNCHANGED <<experiment_no, state_no, pc, l2_ready, exit, failed, vblock,
                 guestIF, bsp>>

\* NMI-window exiting takes precedence over a pending NMI.
WindowExit ==
  /\ ~ failed
  /\ WindowOpen
  /\ VmExit("window")
  /\ at' = [at EXCEPT !.host = "vmexit_asm"]
  /\ UNCHANGED <<experiment_no, state_no, pc, l2_ready, exit, failed, cpu, bsp>>

\* VM entry loads the blocking state and delivers an injected event: the guest
\* is then at the first instruction of the handler.
VmEntry ==
  /\ Running
  /\ mode = "host" /\ at.host = "vmresume"
  /\ mode' = "guest"
  /\ block' = (vmcs.virtual_nmis = 0 /\ vmcs.blocking = 1)
  /\ vblock' = (vmcs.virtual_nmis = 1
                  /\ (vmcs.blocking = 1 \/ vmcs.inject = "nmi_stub"))
  /\ vmcs' = [vmcs EXCEPT !.inject = "none"]
  /\ at' = [at EXCEPT !.guest =
              IF vmcs.inject # "none" THEN vmcs.inject
              ELSE IF @ = "hlt" /\ ~ vmcs.hlt THEN "woken" ELSE @]
  /\ UNCHANGED <<experiment_no, state_no, pc, reason, l2_ready, exit, failed,
                 guestIF, pend, bsp>>

\* The handler of the injected event runs; the keyboard handler has no effect
\* on the experiment.
InjectedHandler ==
  /\ Running
  /\ mode = "guest" /\ at.guest \in {"nmi_stub", "kbd_stub"}
  /\ IF at.guest = "nmi_stub"
     THEN handle_interrupt_cpu1("NMI_G", "vmcall")
     ELSE UNCHANGED <<l2_ready, exit, failed>>
  /\ at' = [at EXCEPT !.guest = "vmcall"]
  /\ UNCHANGED <<experiment_no, state_no, mode, pc, reason, vmcs, cpu, bsp>>

-----------------------------------------------------------------------------
(* shv_nmi_vmexit_handler. *)

\* The activity state after an NMI VM exit; the mutant leaves the guest asleep.
ActivityKept == vmcs.hlt
ActivityWritten == FALSE

\* VMX_VMEXIT_EXCEPTION.
HandleNmiExit ==
  /\ Running
  /\ mode = "host" /\ at.host = "vmexit_asm" /\ reason = "nmi"
  /\ handle_interrupt_cpu1("VMEXIT", Rip(at.guest))
  /\ vmcs' = [vmcs EXCEPT !.hlt = ActivityWritten]
  /\ at' = [at EXCEPT !.host = "vmresume"]
  /\ UNCHANGED <<experiment_no, state_no, mode, pc, reason, cpu, bsp>>

\* VMX_VMEXIT_NMI_WINDOW.
HandleWindowExit ==
  /\ Running
  /\ mode = "host" /\ at.host = "vmexit_asm" /\ reason = "window"
  /\ handle_interrupt_cpu1("NMIWIND", Rip(at.guest))
  /\ vmcs' = [vmcs EXCEPT !.nmi_windowing = 0]
  /\ at' = [at EXCEPT !.host = "vmresume"]
  /\ UNCHANGED <<experiment_no, state_no, mode, pc, reason, cpu, bsp>>

\* VMX_VMEXIT_VMCALL: shv_nmi_vmcall_dispatcher calls the experiment's handler.
Dispatch ==
  /\ Running
  /\ mode = "host" /\ at.host = "vmexit_asm" /\ reason = "vmcall"
  /\ at' = [at EXCEPT !.host = "op"]
  /\ pc' = [pc EXCEPT !.host = 1]
  /\ failed' = (state_no + 1 \notin DOMAIN handlers)
  /\ UNCHANGED <<experiment_no, state_no, mode, reason, l2_ready, exit, vmcs,
                 cpu, bsp>>

\* The handler returns: RIP moves past the vmcall, then vmresume.
HandlerReturn ==
  /\ Running
  /\ mode = "host" /\ at.host = "op" /\ pc.host > Len(script)
  /\ at' = [at EXCEPT !.host = "vmresume"]
  /\ UNCHANGED <<experiment_no, state_no, mode, pc, reason, l2_ready, exit,
                 failed, vmcs, cpu, bsp>>

-----------------------------------------------------------------------------
(* The operations of the experiments. *)

Advance == /\ pc' = [pc EXCEPT ![mode] = @ + 1]
           /\ at' = [at EXCEPT ![mode] = "op"]
           /\ UNCHANGED <<experiment_no, state_no, mode, reason>>

\* TEST_ASSERT: a failure sets master_fail, clears l2_ready and halts.
TEST_ASSERT(p) == /\ failed' = ~ p
                  /\ l2_ready' = IF p THEN l2_ready ELSE 0

Prepared == exit.source = "MEASURE" /\ exit.rip = "none"
Cleared == [exit EXCEPT !.source = "MEASURE", !.rip = "none"]
Measured(source, rip) ==
  exit.source = source /\ (source # "MEASURE" => exit.rip = rip)

\* state_no = s; asm volatile ("vmcall").
Vmcall ==
  /\ Running
  /\ AtOp("vmcall")
  /\ VmExit("vmcall")
  /\ state_no' = Op.state_no
  /\ at' = [guest |-> "vmcall", host |-> "vmexit_asm"]
  /\ UNCHANGED <<experiment_no, pc, l2_ready, exit, failed, cpu, bsp>>

\* The instruction after the vmcall.
VmcallDone ==
  /\ Running
  /\ mode = "guest" /\ at.guest = "vmcall"
  /\ Advance
  /\ UNCHANGED <<l2_ready, exit, failed, vmcs, cpu, bsp>>

\* hlt_wait up to "l2_ready = 1".
HltBegin ==
  /\ Running
  /\ AtOp("hlt_wait")
  /\ failed' = ~ Prepared
  /\ l2_ready' = Bit(Prepared)
  /\ at' = [at EXCEPT ![mode] = "armed"]
  /\ UNCHANGED <<experiment_no, state_no, mode, pc, reason, exit, vmcs, cpu,
                 bsp>>

\* "sti; hlt" puts CPU 1 to sleep.
HltSleep ==
  /\ Running
  /\ at[mode] = "armed"
  /\ at' = [at EXCEPT ![mode] = "hlt"]
  /\ UNCHANGED <<experiment_no, state_no, mode, pc, reason, l2_ready, exit,
                 failed, vmcs, cpu, bsp>>

\* Ticks the BSP handles before the one that sends the next IPI.
TicksToSend == (2 * interrupt_period - count) % interrupt_period

\* "Strange wakeup from HLT": the processor leaves HLT without an interrupt
\* (assumed not to happen so late that an IPI is sent meanwhile).
StrangeWakeup ==
  /\ Running
  /\ at[mode] = "hlt" /\ l2_ready = 1
  /\ inflight = {} /\ TicksToSend > Lag
  /\ at' = [at EXCEPT ![mode] = "woken"]
  /\ UNCHANGED <<experiment_no, state_no, mode, pc, reason, l2_ready, exit,
                 failed, vmcs, cpu, bsp>>

\* hlt_wait after the hlt, "qemu workaround": nothing recorded, sleep again.
HltAgain ==
  /\ Running
  /\ at[mode] = "woken" /\ exit.source = "MEASURE"
  /\ l2_ready' = 1
  /\ at' = [at EXCEPT ![mode] = "armed"]
  /\ UNCHANGED <<experiment_no, state_no, mode, pc, reason, exit, failed, vmcs,
                 cpu, bsp>>

\* hlt_wait after the hlt: ASSERT(!l2_ready), assert_measure.
HltEnd ==
  /\ Running
  /\ at[mode] = "woken" /\ exit.source # "MEASURE"
  /\ TEST_ASSERT(l2_ready = 0 /\ Measured(Op.source, "hlt"))
  /\ exit' = Cleared
  /\ Advance
  /\ UNCHANGED <<vmcs, cpu, bsp>>

\* iret_wait up to the iret, which ends NMI blocking: the physical one in the
\* host and in a guest without NMI exiting, the virtual one with virtual NMIs.
Iret ==
  /\ Running
  /\ AtOp("iret_wait")
  /\ TEST_ASSERT(Prepared)
  /\ at' = [at EXCEPT ![mode] = "iret"]
  /\ block' = (block /\ mode = "guest" /\ vmcs.nmi_exiting = 1)
  /\ vblock' = (vblock /\ mode = "host")
  /\ UNCHANGED <<experiment_no, state_no, mode, pc, reason, exit, vmcs,
                 guestIF, pend, bsp>>

\* iret_wait after the iret: assert_measure.
IretEnd ==
  /\ Running
  /\ at[mode] = "iret"
  /\ TEST_ASSERT(Measured(Op.source, "iret"))
  /\ exit' = Cleared
  /\ Advance
  /\ UNCHANGED <<vmcs, cpu, bsp>>

\* exit_source = EXIT_MEASURE (experiment_2).
ExitSourceMeasure ==
  /\ Running
  /\ AtOp("exit_source_measure")
  /\ exit' = [exit EXCEPT !.source = "MEASURE"]
  /\ Advance
  /\ UNCHANGED <<l2_ready, failed, vmcs, cpu, bsp>>

PrepareMeasure ==
  /\ Running
  /\ AtOp("prepare_measure")
  /\ TEST_ASSERT(Prepared)
  /\ Advance
  /\ UNCHANGED <<exit, vmcs, cpu, bsp>>

PrepareMeasure2 ==
  /\ Running
  /\ AtOp("prepare_measure_2")
  /\ TEST_ASSERT(Prepared)
  /\ exit' = [Nothing EXCEPT !.source = "MEAS_2"]
  /\ Advance
  /\ UNCHANGED <<vmcs, cpu, bsp>>

AssertMeasure ==
  /\ Running
  /\ AtOp("assert_measure")
  /\ TEST_ASSERT(Measured(Op.source, Op.rip))
  /\ exit' = Cleared
  /\ Advance
  /\ UNCHANGED <<vmcs, cpu, bsp>>

AssertMeasure2 ==
  /\ Running
  /\ AtOp("assert_measure_2")
  /\ TEST_ASSERT(/\ exit.source_old = Op.source1
                 /\ Op.source1 # "MEASURE" => exit.rip_old = Op.rip1
                 /\ Measured(Op.source, Op.rip))
  /\ exit' = Nothing
  /\ Advance
  /\ UNCHANGED <<vmcs, cpu, bsp>>

\* TEST_ASSERT(get_blocking_by_nmi()) and its negation.
GetBlockingByNmi ==
  /\ Running
  /\ AtOp("blocking_by_nmi")
  /\ TEST_ASSERT(vmcs.blocking = Op.blocking)
  /\ Advance
  /\ UNCHANGED <<exit, vmcs, cpu, bsp>>

\* The VMCS after set_state; the mutant does not clear the window control.
StateKeepsWindow(s) ==
  [vmcs EXCEPT !.nmi_exiting = s.nmi_exiting, !.virtual_nmis = s.virtual_nmis,
               !.blocking = s.blocking,
               !.nmi_windowing = IF s.nmi_windowing = 1 THEN 1 ELSE @]
StateWritten(s) ==
  [vmcs EXCEPT !.nmi_exiting = s.nmi_exiting, !.virtual_nmis = s.virtual_nmis,
               !.blocking = s.blocking, !.nmi_windowing = s.nmi_windowing]

SetState ==
  /\ Running
  /\ AtOp("set_state")
  /\ vmcs' = StateWritten(Op)
  /\ Advance
  /\ UNCHANGED <<l2_ready, exit, failed, cpu, bsp>>

AssertState ==
  /\ Running
  /\ AtOp("assert_state")
  /\ TEST_ASSERT(StateWritten(Op) = vmcs)
  /\ Advance
  /\ UNCHANGED <<exit, vmcs, cpu, bsp>>

\* set_inject_nmi, and the write of 0x80000021 (experiments 15 to 17).
Inject ==
  /\ Running
  /\ \/ /\ AtOp("set_inject_nmi")
        /\ TEST_ASSERT(vmcs.inject = "none")
        /\ vmcs' = [vmcs EXCEPT !.inject = "nmi_stub"]
     \/ /\ AtOp("inject_keyboard")
        /\ vmcs' = [vmcs EXCEPT !.inject = "kbd_stub"]
        /\ UNCHANGED <<l2_ready, failed>>
  /\ Advance
  /\ UNCHANGED <<exit, cpu, bsp>>

\* shv_nmi_guest_main: sti after the sleep, then experiments of the mask, in
\* the order of the table or at random.
AtEnd == mode = "guest" /\ at.guest = "op" /\ pc.guest > Len(f)

RunExperiment ==
  /\ Running
  /\ AtEnd
  /\ guestIF' = TRUE
  /\ \E i \in ExpMask : experiment_no' = i
  /\ state_no' = 0
  /\ pc' = [pc EXCEPT !.guest = 1]
  /\ UNCHANGED <<mode, at, reason, l2_ready, exit, failed, vmcs, block, vblock,
                 pend, bsp>>

\* "ALL TEST PASS".
AllTestPass ==
  /\ Running
  /\ AtEnd
  /\ l2_ready' = 0
  /\ at' = [at EXCEPT !.guest = "done"]
  /\ UNCHANGED <<experiment_no, state_no, mode, pc, reason, exit, failed, vmcs,
                 cpu, bsp>>

-----------------------------------------------------------------------------
(* The BSP. *)

\* What the tick sends, by count modulo twice the period; the mutant ignores
\* the period.
SentEachTick == IF count % 2 = 0 THEN {"nmi"} ELSE {"ipi"}
Sent == IF count % (2 * interrupt_period) = 0 THEN {"nmi"}
        ELSE IF count % (2 * interrupt_period) = interrupt_period THEN {"ipi"}
        ELSE {}

\* CPU 1 has caught up with the BSP: it sleeps and has no IPI to accept.
AtRest == at[mode] = "hlt" /\ inflight = {} /\ Quiet

\* shv_nmi_handle_timer_interrupt with l2_ready set (otherwise it does nothing
\* but acknowledge).  CPU 1 is never more than Lag ticks behind.
Tick ==
  /\ l2_ready = 1
  /\ AtRest \/ (lag < Lag /\ (count = 0 => ~ FirstTickInHlt))
  /\ lag' = IF AtRest THEN 0 ELSE lag + 1
  /\ inflight' = inflight \cup Sent
  /\ count' = IF count = 2 * interrupt_period THEN 1 ELSE count + 1
  /\ UNCHANGED <<where, l2_ready, exit, failed, vmcs, cpu>>

\* Time passes while l2_ready is clear.
IdleTick ==
  /\ l2_ready = 0 /\ lag > 0
  /\ lag' = 0
  /\ UNCHANGED <<where, l2_ready, exit, failed, vmcs, cpu, inflight, count>>

\* An IPI reaches CPU 1; a second NMI that arrives before the first is
\* delivered is lost.
Arrive ==
  /\ \E i \in inflight : inflight' = inflight \ {i} /\ pend' = pend \cup {i}
  /\ UNCHANGED <<where, l2_ready, exit, failed, vmcs, block, vblock, guestIF,
                 count, lag>>

-----------------------------------------------------------------------------
Cpu1 ==
  \/ NmiInterrupt \/ IpiInterrupt \/ NmiExit \/ WindowExit
  \/ VmEntry \/ InjectedHandler
  \/ HandleNmiExit \/ HandleWindowExit \/ Dispatch \/ HandlerReturn
  \/ Vmcall \/ VmcallDone \/ HltBegin \/ HltSleep \/ HltAgain \/ HltEnd
  \/ Iret \/ IretEnd \/ ExitSourceMeasure
  \/ PrepareMeasure \/ PrepareMeasure2 \/ AssertMeasure \/ AssertMeasure2
  \/ GetBlockingByNmi \/ SetState \/ AssertState \/ Inject
  \/ RunExperiment \/ AllTestPass

Next == Cpu1 \/ StrangeWakeup \/ Tick \/ IdleTick \/ Arrive

\* CPU 1 executes and the local APICs deliver IPIs.  The PIT ticks whatever
\* CPU 1 does, so a tick that is possible again and again happens.
Fairness == WF_vars(Cpu1) /\ SF_vars(Tick) /\ WF_vars(Arrive)

Spec == Init /\ [][Next]_vars

FairSpec == Spec /\ Fairness
-----------------------------------------------------------------------------
(* Properties. *)

Places == {"op", "armed", "hlt", "woken", "iret", "vmcall", "nmi_stub",
           "kbd_stub", "vmexit_asm", "vmresume", "done"}
Rips == {"none", "armed", "op", "hlt", "iret", "vmcall", "nmi_stub",
         "kbd_stub", "vmexit_asm", "vmresume", "done"}
IPIs == {"nmi", "ipi"}

\* Every variable keeps its type; state_no selects one of the two handlers an
\* experiment has at most.
TypeOK ==
  /\ experiment_no \in 0..30
  /\ state_no \in 0..1
  /\ mode \in {"guest", "host"}
  /\ pc \in [guest : 1..100, host : 1..10]
  /\ at \in [guest : Places, host : Places]
  /\ reason \in {"vmcall", "nmi", "window"}
  /\ l2_ready \in 0..1
  /\ exit \in [source : Sources, rip : Rips, source_old : Sources,
               rip_old : Rips]
  /\ failed \in BOOLEAN
  /\ vmcs \in [nmi_exiting : 0..1, virtual_nmis : 0..1, blocking : 0..1,
               nmi_windowing : 0..1, inject : {"none", "nmi_stub", "kbd_stub"},
               hlt : BOOLEAN]
  /\ block \in BOOLEAN
  /\ vblock \in BOOLEAN
  /\ guestIF \in BOOLEAN
  /\ pend \subseteq IPIs
  /\ inflight \subseteq IPIs
  /\ count \in 0..(2 * interrupt_period)
  /\ lag \in 0..Lag

\* On a processor with these rules no TEST_ASSERT and no ASSERT of shv-nmi.c
\* fails: every experiment passes whatever experiments ran before it.
TestsPass == ~ failed

\* hlt_wait: "Execute HLT and expect interrupt to hit on the instruction".  An
\* interrupt recorded while hlt_wait is under way hit the hlt.
InterruptHitsHlt ==
  (at[mode] \in {"armed", "hlt", "woken"} /\ exit.source # "MEASURE")
    => exit.rip = "hlt"

\* An experiment leaves nothing behind for the next one: no interrupt pending,
\* under way or unread, NMIs unblocked, no injection left in the VMCS, and the
\* BSP's next IPI is an NMI again, which every experiment relies on.
CleanBoundary ==
  AtEnd =>
    /\ exit = Nothing
    /\ l2_ready = 0
    /\ pend = {} /\ inflight = {}
    /\ ~ block
    /\ vmcs.inject = "none"
    /\ count \in {0} \cup (interrupt_period + 1)..(2 * interrupt_period)

\* Every experiment that starts ends: CPU 1 never sleeps on an interrupt that
\* the BSP does not send.
ExperimentsEnd == []<>(AtEnd \/ at.guest = "done")
=============================================================================
