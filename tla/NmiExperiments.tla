--------------------------- MODULE NmiExperiments ---------------------------
(***************************************************************************)
(* The NMI experiments of shv-nmi.c as data.  An experiment is straight-line *)
(* code in the guest (f) with VMCALLs into straight-line code in the host   *)
(* (vmcall, one sequence per value of state_no), so both are sequences of   *)
(* operations; module Nmi says what each operation does.                    *)
(*                                                                         *)
(* An interrupt is identified by its source (enum exit_source) and by the   *)
(* place it hit: "hlt", "iret" and "vmcall" stand for the address after     *)
(* that instruction, "nmi_stub" and "kbd_stub" for idt_stub_guest_11 and    *)
(* idt_stub_guest_hh1, "vmexit_asm" for itself and "none" for 0.            *)
(***************************************************************************)
EXTENDS Naturals, Sequences

\* The operations of the experiments.
vmcall(s)            == [op |-> "vmcall", state_no |-> s]
hlt_wait(source)     == [op |-> "hlt_wait", source |-> source]
iret_wait(source)    == [op |-> "iret_wait", source |-> source]
exit_source_measure  == [op |-> "exit_source_measure"]
prepare_measure      == [op |-> "prepare_measure"]
prepare_measure_2    == [op |-> "prepare_measure_2"]
assert_measure(source, rip) ==
  [op |-> "assert_measure", source |-> source, rip |-> rip]
assert_measure_2(source1, rip1, source2, rip2) ==
  [op |-> "assert_measure_2", source1 |-> source1, rip1 |-> rip1,
   source |-> source2, rip |-> rip2]
blocking_by_nmi(b)   == [op |-> "blocking_by_nmi", blocking |-> b]
Controls(op, nmi_exiting, virtual_nmis, blocking, nmi_windowing) ==
  [op |-> op, nmi_exiting |-> nmi_exiting, virtual_nmis |-> virtual_nmis,
   blocking |-> blocking, nmi_windowing |-> nmi_windowing]
set_state(e, v, b, w)    == Controls("set_state", e, v, b, w)
assert_state(e, v, b, w) == Controls("assert_state", e, v, b, w)
set_inject_nmi       == [op |-> "set_inject_nmi"]
inject_keyboard      == [op |-> "inject_keyboard"]

-----------------------------------------------------------------------------
\* Without NMI exiting an NMI reaches the guest's handler.
experiment_1 ==
  [f |-> << vmcall(0), hlt_wait("NMI_G"), iret_wait("MEASURE"),
            hlt_wait("TIMER_G") >>,
   vmcall |-> << << set_state(0, 0, 0, 0) >> >>]

\* An NMI the guest blocks stays blocked across a VM exit.
experiment_2 ==
  [f |-> << vmcall(0), hlt_wait("TIMER_G"), exit_source_measure,
            prepare_measure, vmcall(1), iret_wait("NMI_G"),
            iret_wait("MEASURE") >>,
   vmcall |-> << << set_state(0, 0, 1, 0) >>,
                 << blocking_by_nmi(1), assert_measure("MEASURE", "none"),
                    hlt_wait("TIMER_H") >> >>]

\* An NMI blocked in the host hits the guest after VM entry.
experiment_3 ==
  [f |-> << vmcall(0), assert_measure("NMI_G", "vmcall"),
            iret_wait("MEASURE") >>,
   vmcall |-> << << hlt_wait("NMI_H"), hlt_wait("TIMER_H"),
                    hlt_wait("TIMER_H"), set_state(0, 0, 0, 0),
                    prepare_measure >> >>]

\* Blocking set in the VMCS still blocks after the exit to the host.
experiment_4 ==
  [f |-> << vmcall(0), vmcall(1), iret_wait("MEASURE") >>,
   vmcall |-> << << set_state(0, 0, 1, 0) >>,
                 << hlt_wait("TIMER_H"), iret_wait("NMI_H"),
                    iret_wait("MEASURE") >> >>]

\* Mutants: the last wait is missing, so the experiment leaves the BSP in the
\* middle of its NMI / interrupt cycle; the second VMCALL has no handler.
experiment_5_no_timer ==
  [f |-> << vmcall(0), hlt_wait("VMEXIT"), vmcall(1) >>,
   vmcall |-> << << set_state(1, 0, 0, 0) >>, << iret_wait("MEASURE") >> >>]

experiment_5_bad_state ==
  [f |-> << vmcall(0), hlt_wait("VMEXIT"), vmcall(2), hlt_wait("TIMER_G") >>,
   vmcall |-> << << set_state(1, 0, 0, 0) >>, << iret_wait("MEASURE") >> >>]

\* NMI exiting: an NMI in the guest causes a VM exit.
experiment_5 ==
  [f |-> << vmcall(0), hlt_wait("VMEXIT"), vmcall(1), hlt_wait("TIMER_G") >>,
   vmcall |-> << << set_state(1, 0, 0, 0) >>,
                 << iret_wait("MEASURE") >> >>]

\* 6 and 7: NMI blocking with NMI exiting and without virtual NMIs.
experiment_6 ==
  [f |-> << vmcall(0), hlt_wait("TIMER_G"), iret_wait("MEASURE"), vmcall(1) >>,
   vmcall |-> << << set_state(1, 0, 1, 0) >>,
                 << blocking_by_nmi(1), iret_wait("NMI_H"),
                    iret_wait("MEASURE"), set_state(1, 0, 0, 0) >> >>]

experiment_7 ==
  [f |-> << prepare_measure, vmcall(0), assert_measure("VMEXIT", "vmcall"),
            vmcall(1) >>,
   vmcall |-> << << hlt_wait("NMI_H"), hlt_wait("TIMER_H"),
                    hlt_wait("TIMER_H"), set_state(1, 0, 0, 0) >>,
                 << blocking_by_nmi(0), iret_wait("MEASURE") >> >>]

\* As 5, with virtual NMIs.
experiment_8 ==
  [f |-> << vmcall(0), hlt_wait("VMEXIT"), vmcall(1), hlt_wait("TIMER_G") >>,
   vmcall |-> << << set_state(1, 1, 0, 0) >>,
                 << iret_wait("MEASURE") >> >>]

\* Virtual-NMI blocking does not block a physical NMI.
experiment_9 ==
  [f |-> << vmcall(0), hlt_wait("VMEXIT"), hlt_wait("TIMER_G"), vmcall(1) >>,
   vmcall |-> << << set_state(1, 1, 1, 0) >>,
                 << blocking_by_nmi(1), iret_wait("MEASURE") >> >>]

\* 10 to 14: blocking in the host against virtual-NMI blocking in the guest.
experiment_10 ==
  [f |-> << prepare_measure, vmcall(0), assert_measure("VMEXIT", "vmcall"),
            vmcall(1) >>,
   vmcall |-> << << hlt_wait("NMI_H"), hlt_wait("TIMER_H"),
                    hlt_wait("TIMER_H"), set_state(1, 1, 0, 0) >>,
                 << blocking_by_nmi(0), iret_wait("MEASURE") >> >>]

experiment_11 ==
  [f |-> << prepare_measure, vmcall(0), assert_measure("VMEXIT", "vmcall"),
            vmcall(1) >>,
   vmcall |-> << << hlt_wait("NMI_H"), hlt_wait("TIMER_H"),
                    hlt_wait("TIMER_H"), set_state(1, 1, 1, 0) >>,
                 << blocking_by_nmi(1), iret_wait("MEASURE") >> >>]

experiment_12 ==
  [f |-> << vmcall(0), iret_wait("MEASURE"), vmcall(1) >>,
   vmcall |-> << << set_state(1, 1, 1, 0) >>,
                 << blocking_by_nmi(0), hlt_wait("NMI_H"),
                    iret_wait("MEASURE"), hlt_wait("TIMER_H") >> >>]

experiment_13 ==
  [f |-> << vmcall(0), vmcall(1) >>,
   vmcall |-> << << hlt_wait("NMI_H"), hlt_wait("TIMER_H"),
                    set_state(1, 1, 0, 0) >>,
                 << blocking_by_nmi(0), hlt_wait("NMI_H"),
                    iret_wait("MEASURE"), hlt_wait("TIMER_H") >> >>]

experiment_14 ==
  [f |-> << vmcall(0), vmcall(1) >>,
   vmcall |-> << << hlt_wait("NMI_H"), hlt_wait("TIMER_H"),
                    set_state(1, 1, 1, 0) >>,
                 << blocking_by_nmi(1), hlt_wait("NMI_H"),
                    iret_wait("MEASURE"), hlt_wait("TIMER_H") >> >>]

\* 15 to 17: an NMI pending at an entry that injects a keyboard interrupt.
experiment_15 ==
  [f |-> << vmcall(0), assert_measure("NMI_G", "kbd_stub"), vmcall(1) >>,
   vmcall |-> << << hlt_wait("NMI_H"), hlt_wait("TIMER_H"),
                    hlt_wait("TIMER_H"), set_state(0, 0, 0, 0),
                    inject_keyboard, prepare_measure >>,
                 << blocking_by_nmi(1), iret_wait("MEASURE"),
                    set_state(0, 0, 0, 0) >> >>]

experiment_16 ==
  [f |-> << vmcall(0), assert_measure("VMEXIT", "kbd_stub"), vmcall(1) >>,
   vmcall |-> << << hlt_wait("NMI_H"), hlt_wait("TIMER_H"),
                    hlt_wait("TIMER_H"), set_state(1, 0, 0, 0),
                    inject_keyboard, prepare_measure >>,
                 << blocking_by_nmi(0), iret_wait("MEASURE"),
                    set_state(0, 0, 0, 0) >> >>]

experiment_17 ==
  [f |-> << vmcall(0), assert_measure("VMEXIT", "kbd_stub"), vmcall(1) >>,
   vmcall |-> << << hlt_wait("NMI_H"), hlt_wait("TIMER_H"),
                    hlt_wait("TIMER_H"), set_state(1, 1, 1, 0),
                    inject_keyboard, prepare_measure >>,
                 << blocking_by_nmi(1), iret_wait("MEASURE"),
                    set_state(0, 0, 0, 0) >> >>]

\* 18 to 20: injecting an NMI sets virtual-NMI blocking only.
experiment_18 ==
  [f |-> << vmcall(0), assert_measure("NMI_G", "vmcall"), vmcall(1) >>,
   vmcall |-> << << hlt_wait("NMI_H"), iret_wait("MEASURE"),
                    hlt_wait("TIMER_H"), set_state(0, 0, 0, 0),
                    set_inject_nmi, prepare_measure >>,
                 << blocking_by_nmi(0), iret_wait("MEASURE"),
                    set_state(0, 0, 0, 0) >> >>]

experiment_19 ==
  [f |-> << vmcall(0), assert_measure("NMI_G", "vmcall"), vmcall(1) >>,
   vmcall |-> << << set_state(1, 0, 0, 0), set_inject_nmi, prepare_measure >>,
                 << blocking_by_nmi(0), hlt_wait("NMI_H"),
                    iret_wait("MEASURE"), hlt_wait("TIMER_H"),
                    set_state(0, 0, 0, 0) >> >>]

experiment_20 ==
  [f |-> << vmcall(0), assert_measure("NMI_G", "vmcall"), vmcall(1) >>,
   vmcall |-> << << set_state(1, 1, 0, 0), set_inject_nmi, prepare_measure >>,
                 << blocking_by_nmi(1), hlt_wait("NMI_H"),
                    iret_wait("MEASURE"), hlt_wait("TIMER_H"),
                    set_state(0, 0, 0, 0) >> >>]

\* 21 to 26: NMI-window exiting, and its order with pending and injected NMIs.
experiment_21 ==
  [f |-> << vmcall(0), assert_measure("NMIWIND", "vmcall"), vmcall(1) >>,
   vmcall |-> << << set_state(1, 1, 0, 1), prepare_measure >>,
                 << assert_state(1, 1, 0, 0), hlt_wait("NMI_H"),
                    iret_wait("MEASURE"), hlt_wait("TIMER_H"),
                    set_state(0, 0, 0, 0) >> >>]

experiment_22 ==
  [f |-> << vmcall(0), assert_measure("MEASURE", "vmcall"), vmcall(1) >>,
   vmcall |-> << << set_state(1, 1, 1, 1), prepare_measure >>,
                 << assert_state(1, 1, 1, 1), hlt_wait("NMI_H"),
                    iret_wait("MEASURE"), hlt_wait("TIMER_H"),
                    set_state(0, 0, 0, 0) >> >>]

experiment_23 ==
  [f |-> << vmcall(0), assert_measure("MEASURE", "none"),
            iret_wait("NMIWIND"), vmcall(1) >>,
   vmcall |-> << << set_state(1, 1, 1, 1), prepare_measure >>,
                 << assert_state(1, 1, 0, 0), hlt_wait("NMI_H"),
                    iret_wait("MEASURE"), hlt_wait("TIMER_H"),
                    set_state(0, 0, 0, 0) >> >>]

experiment_24 ==
  [f |-> << vmcall(0),
            assert_measure_2("NMI_H", "vmexit_asm", "NMIWIND", "vmcall"),
            vmcall(1) >>,
   vmcall |-> << << hlt_wait("NMI_H"), hlt_wait("TIMER_H"),
                    hlt_wait("TIMER_H"), set_state(1, 1, 0, 1),
                    prepare_measure_2 >>,
                 << assert_state(1, 1, 0, 0), iret_wait("MEASURE"),
                    set_state(0, 0, 0, 0) >> >>]

experiment_25 ==
  [f |-> << vmcall(0), assert_measure("NMI_G", "vmcall"),
            iret_wait("NMIWIND"), vmcall(1) >>,
   vmcall |-> << << set_state(1, 1, 0, 1), set_inject_nmi, prepare_measure >>,
                 << assert_state(1, 1, 0, 0), hlt_wait("NMI_H"),
                    iret_wait("MEASURE"), hlt_wait("TIMER_H"),
                    set_state(0, 0, 0, 0) >> >>]

experiment_26 ==
  [f |-> << vmcall(0),
            assert_measure_2("VMEXIT", "nmi_stub", "NMI_G", "vmcall"),
            vmcall(1) >>,
   vmcall |-> << << hlt_wait("NMI_H"), hlt_wait("TIMER_H"),
                    hlt_wait("TIMER_H"), set_state(1, 1, 0, 0),
                    set_inject_nmi, prepare_measure_2 >>,
                 << assert_state(1, 1, 1, 0), iret_wait("MEASURE"),
                    set_state(0, 0, 0, 0) >> >>]

\* 27 to 30: two NMIs while blocked collapse into one.
experiment_27 ==
  [f |-> << vmcall(0), assert_measure("NMI_G", "vmcall"),
            iret_wait("MEASURE"), vmcall(1) >>,
   vmcall |-> << << hlt_wait("NMI_H"), hlt_wait("TIMER_H"),
                    hlt_wait("TIMER_H"), hlt_wait("TIMER_H"),
                    set_state(0, 0, 0, 0), prepare_measure >>,
                 << assert_state(0, 0, 0, 0), iret_wait("MEASURE"),
                    set_state(0, 0, 0, 0) >> >>]

experiment_28 ==
  [f |-> << vmcall(0), assert_measure("VMEXIT", "vmcall"),
            iret_wait("MEASURE"), vmcall(1) >>,
   vmcall |-> << << hlt_wait("NMI_H"), hlt_wait("TIMER_H"),
                    hlt_wait("TIMER_H"), hlt_wait("TIMER_H"),
                    set_state(1, 0, 0, 0), prepare_measure >>,
                 << assert_state(1, 0, 0, 0), iret_wait("MEASURE"),
                    set_state(0, 0, 0, 0) >> >>]

experiment_29 ==
  [f |-> << vmcall(0) >>,
   vmcall |-> << << hlt_wait("NMI_H"), hlt_wait("TIMER_H"),
                    hlt_wait("TIMER_H"), hlt_wait("TIMER_H"),
                    hlt_wait("TIMER_H"), iret_wait("NMI_H"),
                    iret_wait("MEASURE"), iret_wait("MEASURE"),
                    set_state(0, 0, 0, 0) >> >>]

experiment_30 ==
  [f |-> << vmcall(0), assert_measure("VMEXIT", "vmcall"),
            iret_wait("MEASURE"), vmcall(1) >>,
   vmcall |-> << << hlt_wait("NMI_H"), hlt_wait("TIMER_H"),
                    hlt_wait("TIMER_H"), hlt_wait("TIMER_H"),
                    set_state(1, 1, 0, 0), prepare_measure >>,
                 << assert_state(1, 1, 0, 0), iret_wait("MEASURE"),
                    set_state(0, 0, 0, 0) >> >>]

experiments ==
  << experiment_1, experiment_2, experiment_3, experiment_4, experiment_5,
     experiment_6, experiment_7, experiment_8, experiment_9, experiment_10,
     experiment_11, experiment_12, experiment_13, experiment_14,
     experiment_15, experiment_16, experiment_17, experiment_18,
     experiment_19, experiment_20, experiment_21, experiment_22,
     experiment_23, experiment_24, experiment_25, experiment_26,
     experiment_27, experiment_28, experiment_29, experiment_30 >>
=============================================================================
