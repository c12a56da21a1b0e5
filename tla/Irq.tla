-------------------------------- MODULE Irq --------------------------------
(***************************************************************************)
(* Interrupts of the 8259s on the BSP, their handlers (handle_idt in idt.c,  *)
(* shv-timer.c, shv-keyboard.c, shv-mouse.c, shv-pic.c) and the lock that    *)
(* printf (libc_stdio.c, debug.c) takes for a line, which code with          *)
(* interrupts enabled, handlers and the other CPU share.                     *)
(*                                                                         *)
(* Contexts that print: "bsp" and "ap", what runs on the two CPUs, host or   *)
(* guest; "irq", a handler on the BSP; and "inj", in the NMI test the        *)
(* handler of the vector 0x21 that was injected on CPU 1. IDT entries are    *)
(* interrupt gates, so a handler is not interrupted.                         *)
(***************************************************************************)
EXTENDS Pic

CONSTANTS
  MaxPrints,    \* how often each of "bsp" and "ap" prints
  MaxTicks,     \* interrupts of the PIT
  MaxBytes,     \* bytes from keyboard and mouse
  MaxInj,       \* injections on CPU 1
  MaxSpurious   \* spurious interrupts

Modes == {"normal", "nmi", "no_interrupt"}
Contexts == {"bsp", "ap", "irq", "inj"}

ASSUME IrqAssumption ==
  \A n \in {MaxPrints, MaxTicks, MaxBytes, MaxInj, MaxSpurious} : n \in Nat

VARIABLES
  mode,         \* SHV_NMI_ENABLE, SHV_NO_INTERRUPT or neither
  ps2_mouse,    \* SHV_USE_PS2_MOUSE
  lock,         \* emhfc_putchar_linelock_spinlock: who holds it, or "free"
  stage,        \* where in printf each context is
  master, slave,
  obf,          \* the output buffer of the PS/2 controller
  bsp,          \* "timer" and "woken" around sti; hlt; cli of timer_init, then
                \* "cli" and, with interrupts enabled for good, "mouse_init"
                \* and "run"
  handler,      \* the vector that the BSP handles, and how far it is
  inj,          \* how far the injected handler on CPU 1 is
  shot_arrived,
  count         \* how often the bounded things have happened

vars == <<mode, ps2_mouse, lock, stage, master, slave, obf, bsp, handler, inj,
          shot_arrived, count>>
options == <<mode, ps2_mouse>>
printing == <<lock, stage>>
pics == <<master, slave>>

TimerLine == 0
NoHandler == [irq |-> 0, at |-> "none"]

\* A tick of the PIT at the rate of the BIOS may be pending.
Init ==
  /\ mode \in Modes
  /\ ps2_mouse \in BOOLEAN
  /\ lock = "free"
  /\ stage = [c \in Contexts |-> "idle"]
  /\ master \in {Idle, Raise(Idle, TimerLine)}
  /\ slave = Idle
  /\ obf = "none"
  /\ bsp = IF mode = "no_interrupt" THEN "timer" ELSE "cli"
  /\ handler = NoHandler
  /\ inj = "none"
  /\ shot_arrived = FALSE
  /\ count = [bsp |-> 0, ap |-> 0, ticks |-> 0, bytes |-> 0, inj |-> 0, spurious |-> 0]

Bounded(what, max) ==
  /\ count[what] < max
  /\ count' = [count EXCEPT ![what] = @ + 1]

----------------------------------------------------------------------------
(* printf: take the line lock, write the line, release the lock. *)

\* In the NMI test the BSP only handles interrupts once mouse_init is over. A
\* CPU goes on when its handler has returned.
Running(c) ==
  CASE c = "bsp" -> /\ handler = NoHandler
                    /\ bsp \in {"cli", "mouse_init"} \/ (bsp = "run" /\ mode # "nmi")
    [] c = "ap" -> inj = "none"
    [] OTHER -> TRUE

Ready(c) == stage[c] = "idle"
CallPrintf(c) == stage' = [stage EXCEPT ![c] = "lock"] /\ UNCHANGED lock

StartPrint(c) ==
  /\ c \in {"bsp", "ap"}
  /\ Running(c)
  /\ Ready(c)
  /\ Bounded(c, MaxPrints)
  /\ CallPrintf(c)
  /\ UNCHANGED <<options, pics, obf, bsp, handler, inj, shot_arrived>>

\* A variant without the lock.
TakeLockNot(c) ==
  /\ Running(c)
  /\ stage[c] = "lock"
  /\ lock' = c
  /\ stage' = [stage EXCEPT ![c] = "out"]
  /\ UNCHANGED <<options, pics, obf, bsp, handler, inj, shot_arrived, count>>

\* emhfc_putchar_linelock
TakeLock(c) ==
  /\ Running(c)
  /\ stage[c] = "lock"
  /\ lock = "free"
  /\ lock' = c
  /\ stage' = [stage EXCEPT ![c] = "out"]
  /\ UNCHANGED <<options, pics, obf, bsp, handler, inj, shot_arrived, count>>

\* A variant that keeps the lock.
PutLineKeeps(c) ==
  /\ Running(c)
  /\ stage[c] = "out"
  /\ stage' = [stage EXCEPT ![c] = "idle"]
  /\ UNCHANGED <<options, lock, pics, obf, bsp, handler, inj, shot_arrived, count>>

\* kvprintf and emhfc_putchar_lineunlock
PutLine(c) ==
  /\ Running(c)
  /\ stage[c] = "out"
  /\ lock' = "free"
  /\ stage' = [stage EXCEPT ![c] = "idle"]
  /\ UNCHANGED <<options, pics, obf, bsp, handler, inj, shot_arrived, count>>

InPrintf(c) == TakeLock(c) \/ PutLine(c)

----------------------------------------------------------------------------
(* What comes from outside. *)

\* The PIT: periodic, or one shot, which the pending tick of the BIOS may come
\* before.
Tick ==
  /\ mode = "no_interrupt" => count.ticks = 0
  /\ Bounded("ticks", MaxTicks)
  /\ master' = Raise(master, TimerLine)
  /\ UNCHANGED <<options, printing, slave, obf, bsp, handler, inj, shot_arrived>>

\* A byte from the keyboard (line 1) or the mouse (line 12), which reports when
\* the BIOS or mouse_init has switched it on. The one shot takes a microsecond:
\* no byte comes between arming the PIT and its request.
Byte(dev) ==
  /\ mode = "no_interrupt" => shot_arrived \/ TimerLine \in master.irr \cup master.isr
  /\ obf = "none"
  /\ Bounded("bytes", MaxBytes)
  /\ obf' = dev
  /\ IF dev = "key"
     THEN master' = Raise(master, 1) /\ UNCHANGED slave
     ELSE slave' = Raise(slave, 12) /\ UNCHANGED master
  /\ UNCHANGED <<options, printing, bsp, handler, inj, shot_arrived>>

----------------------------------------------------------------------------
(* The BSP takes an interrupt. *)

Interruptible == handler = NoHandler /\ bsp # "cli"

Take(irq) == handler' = [irq |-> irq, at |-> "entry"]

Requests == Serviceable(Pending(master, slave))
NextLine == Lowest(Requests)
NextOfSlave == Lowest(Serviceable(slave))

Interrupt ==
  /\ Interruptible
  /\ Requests # {}
  /\ master' = Ack(master, NextLine)
  /\ IF NextLine = Cascade
     THEN slave' = Ack(slave, NextOfSlave) /\ Take(NextOfSlave)
     ELSE Take(NextLine) /\ UNCHANGED slave
  /\ UNCHANGED <<options, printing, obf, bsp, inj, shot_arrived, count>>

\* A request at the master went away before it was acknowledged.
Spurious ==
  /\ Interruptible
  /\ Requests = {}
  /\ master.isr = {}
  /\ Bounded("spurious", MaxSpurious)
  /\ Take(7)
  /\ UNCHANGED <<options, printing, pics, obf, bsp, inj, shot_arrived>>

\* CPU 1 has read the byte of the mouse, and with it the request at the slave
\* went away: the slave answers with its line 15, which is not in service.
SpuriousSlave ==
  /\ Interruptible
  /\ Requests # {} /\ NextLine = Cascade
  /\ obf # "mouse"
  /\ Bounded("spurious", MaxSpurious)
  /\ master' = Ack(master, Cascade)
  /\ slave' = [irr |-> slave.irr \ {NextOfSlave}, isr |-> slave.isr]
  /\ Take(15)
  /\ UNCHANGED <<options, printing, obf, bsp, inj, shot_arrived>>

\* IRET. The HLT of timer_init is over after it.
Iret ==
  /\ handler' = NoHandler
  /\ bsp' = IF bsp = "timer" THEN "woken" ELSE bsp

At(irq, where) == handler = [irq |-> irq, at |-> where]
Goto(where) == handler' = [handler EXCEPT !.at = where]

\* A variant that acknowledges the one shot too.
TimerEntryAcks ==
  /\ At(0, "entry")
  /\ shot_arrived' = (mode = "no_interrupt")
  /\ IF mode = "no_interrupt" /\ shot_arrived THEN Goto("halted") ELSE Goto("eoi")
  /\ UNCHANGED <<options, printing, pics, obf, bsp, inj, count>>

\* handle_timer_interrupt: without EOI for the one shot. In the NMI test it
\* may print what it injects.
TimerEntry ==
  /\ At(0, "entry")
  /\ shot_arrived' = (mode = "no_interrupt")
  /\ CASE mode = "no_interrupt" ->
            /\ IF shot_arrived THEN Goto("halted") /\ UNCHANGED bsp ELSE Iret
            /\ UNCHANGED printing
       [] mode = "normal" -> Goto("eoi") /\ UNCHANGED <<bsp, printing>>
       [] mode = "nmi" -> \/ Goto("eoi") /\ UNCHANGED <<bsp, printing>>
                          \/ Goto("print") /\ CallPrintf("irq") /\ UNCHANGED bsp
  /\ UNCHANGED <<options, pics, obf, inj, count>>

\* handle_keyboard_interrupt and handle_mouse_interrupt: read the byte, print.
ByteEntry ==
  /\ At(1, "entry") \/ At(12, "entry")
  /\ obf' = "none"
  /\ CallPrintf("irq")
  /\ Goto("print")
  /\ UNCHANGED <<options, pics, bsp, inj, shot_arrived, count>>

\* printf has returned.
Printed ==
  /\ handler.at = "print"
  /\ Ready("irq")
  /\ Goto(CASE handler.irq = 12 -> "eoi_slave"
            [] handler.irq = 15 -> "halted"
            [] OTHER -> "eoi")
  /\ UNCHANGED <<options, printing, pics, obf, bsp, inj, shot_arrived, count>>

EoiSlave ==
  /\ At(12, "eoi_slave")
  /\ slave' = Eoi(slave)
  /\ Goto("eoi")
  /\ UNCHANGED <<options, printing, master, obf, bsp, inj, shot_arrived, count>>

\* A variant in which the slave's EOI is thought to do.
EoiMasterNot ==
  /\ handler.at = "eoi"
  /\ IF handler.irq = 12 THEN UNCHANGED master ELSE master' = Eoi(master)
  /\ Iret
  /\ UNCHANGED <<options, printing, slave, obf, inj, shot_arrived, count>>

EoiMaster ==
  /\ handler.at = "eoi"
  /\ master' = Eoi(master)
  /\ Iret
  /\ UNCHANGED <<options, printing, slave, obf, inj, shot_arrived, count>>

\* pic_spurious(7) != 1. Nothing is on line 7.
SpuriousTest == 7 \in master.isr

\* A variant that reports the interrupt.
SpuriousEntryPrints ==
  /\ At(7, "entry")
  /\ CallPrintf("irq")
  /\ Goto("print")
  /\ UNCHANGED <<options, pics, obf, bsp, inj, shot_arrived, count>>

\* Vector 0x27: neither printf nor EOI.
SpuriousEntry ==
  /\ At(7, "entry")
  /\ IF SpuriousTest THEN Goto("halted") /\ UNCHANGED bsp ELSE Iret
  /\ UNCHANGED <<options, printing, pics, obf, inj, shot_arrived, count>>

\* Vector 0x2f is unknown: registers are printed, then HALT with interrupts off.
UnknownEntry ==
  /\ At(15, "entry")
  /\ CallPrintf("irq")
  /\ Goto("print")
  /\ UNCHANGED <<options, pics, obf, bsp, inj, shot_arrived, count>>

Handler ==
  \/ TimerEntry \/ ByteEntry \/ Printed \/ EoiSlave \/ EoiMaster
  \/ SpuriousEntry \/ UnknownEntry

\* cli after hlt in timer_init, sti in shv_main, and the end of mouse_init. With
\* the one shot in service its ASSERT on the dropped interrupt fails (module
\* Mouse), and the BSP halts with interrupts enabled.
Cli ==
  /\ bsp = "woken"
  /\ handler = NoHandler
  /\ bsp' = "cli"
  /\ UNCHANGED <<options, printing, pics, obf, handler, inj, shot_arrived, count>>

Sti ==
  /\ bsp = "cli"
  /\ Ready("bsp")
  /\ bsp' = IF ps2_mouse THEN "mouse_init" ELSE "run"
  /\ UNCHANGED <<options, printing, pics, obf, handler, inj, shot_arrived, count>>

MouseInitEnd ==
  /\ bsp = "mouse_init"
  /\ mode # "no_interrupt"
  /\ handler = NoHandler
  /\ Ready("bsp")
  /\ bsp' = "run"
  /\ UNCHANGED <<options, printing, pics, obf, handler, inj, shot_arrived, count>>

----------------------------------------------------------------------------
(* CPU 1 in the NMI test: vector 0x21 is injected while it waits in HLT, not  *)
(* while it prints (InterruptHitsHlt of module Nmi).  Its handler is          *)
(* handle_keyboard_interrupt too.                                            *)

InjEntry ==
  /\ mode = "nmi"
  /\ inj = "none"
  /\ Ready("ap")
  /\ Bounded("inj", MaxInj)
  /\ inj' = "print"
  /\ obf' = "none"
  /\ CallPrintf("inj")
  /\ UNCHANGED <<options, pics, bsp, handler, shot_arrived>>

InjEoi ==
  /\ inj = "print"
  /\ Ready("inj")
  /\ master' = Eoi(master)
  /\ inj' = "none"
  /\ UNCHANGED <<options, printing, slave, obf, bsp, handler, shot_arrived, count>>

----------------------------------------------------------------------------

Bsp == InPrintf("bsp") \/ InPrintf("irq") \/ Handler \/ Cli \/ Sti \/ MouseInitEnd
Ap == InPrintf("ap") \/ InPrintf("inj") \/ InjEoi
Outside == Tick \/ Spurious \/ SpuriousSlave \/ \E dev \in {"key", "mouse"} : Byte(dev)

Next ==
  \/ Bsp \/ Ap \/ Interrupt
  \/ StartPrint("bsp") \/ StartPrint("ap") \/ InjEntry
  \/ Outside

\* A processor goes on with what it has begun, and takes an interrupt that is
\* pending. Nothing has to begin.
Fairness == WF_vars(Bsp) /\ WF_vars(Ap) /\ WF_vars(Interrupt)

Spec == Init /\ [][Next]_vars /\ Fairness

----------------------------------------------------------------------------

\* The types of the variables.
TypeOK ==
  /\ mode \in Modes /\ ps2_mouse \in BOOLEAN
  /\ lock \in Contexts \cup {"free"}
  /\ stage \in [Contexts -> {"idle", "lock", "out"}]
  /\ master \in [irr : SUBSET MasterLines, isr : SUBSET MasterLines]
  /\ slave \in [irr : SUBSET SlaveLines, isr : SUBSET SlaveLines]
  /\ obf \in {"none", "key", "mouse"}
  /\ bsp \in {"timer", "woken", "cli", "mouse_init", "run"}
  /\ handler \in [irq : MasterLines \cup SlaveLines,
                  at : {"none", "entry", "print", "eoi_slave", "eoi", "halted"}]
  /\ inj \in {"none", "print"}
  /\ shot_arrived \in BOOLEAN

\* The lines of two printfs are never mixed, whichever of CPUs, handlers and
\* interrupted code call them.
LinesWhole ==
  \A c, d \in Contexts : stage[c] = "out" /\ stage[d] = "out" => c = d

\* Every interrupt is acknowledged once, though EOIs are not specific and CPU 1
\* sends one for an interrupt that the 8259 does not know: when the BSP has
\* returned from a handler nothing is in service that holds back others, and
\* while it is in one, nothing else is in service.
InServiceIsHandled ==
  mode # "no_interrupt" =>
    /\ master.isr \subseteq
         IF handler.at = "none" THEN {}
         ELSE {IF handler.irq < 8 THEN handler.irq ELSE Cascade}
    /\ slave.isr \subseteq
         IF handler.at = "none" THEN {} ELSE {handler.irq}

\* "Only one interrupt should arrive, ever" (shv-timer.c): once the timer's
\* interrupt was handled with SHV_NO_INTERRUPT, be it the one shot or a tick that
\* the BIOS left, no other is, whatever keys are pressed.
ShotIsLast ==
  [][shot_arrived /\ handler = NoHandler => handler' = NoHandler]_vars

\* A printf returns.
PrintfReturns == \A c \in Contexts : stage[c] # "idle" ~> stage[c] = "idle"

\* The BSP waits in a handler for the line lock that it holds itself: after a
\* byte came in normal mode, or in the printfs of mouse_init in the NMI test.
SelfDeadlock ==
  /\ lock = "bsp" /\ handler.at = "print"
  /\ \/ mode = "normal" /\ count.bytes > 0
     \/ mode = "nmi" /\ bsp = "mouse_init"

\* CPU 1 took the byte of an interrupt of the slave, and the BSP has halted on
\* an unknown vector.
UnknownHalt == mode = "nmi" /\ count.inj > 0 /\ At(15, "halted")

Lost == SelfDeadlock \/ UnknownHalt

\* Every printf returns, whichever CPUs, handlers and interrupted code call it,
\* but for the two ways above to lose the BSP: a tick or a spurious IRQ 7 that
\* hits the BSP in printf, an injected handler on CPU 1, and keys in the NMI test
\* without mouse_init or with SHV_NO_INTERRUPT never block anybody.
PrintfReturnsOrLost ==
  \A c \in Contexts : stage[c] # "idle" ~> (stage[c] = "idle" \/ Lost)

=============================================================================
