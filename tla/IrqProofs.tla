------------------------------ MODULE IrqProofs ------------------------------
(***************************************************************************)
(* Proofs about module Irq: for every bound on what happens, lines are        *)
(* printed whole, EOIs end the interrupt that is handled, and with            *)
(* SHV_NO_INTERRUPT nothing is handled after the one shot.                    *)
(***************************************************************************)
EXTENDS Irq, TLAPS

\* Only the timer, the keyboard, the mouse and the cascade are ever requested.
LinesUsed ==
  /\ master.irr \subseteq {0, 1} /\ master.isr \subseteq {0, 1, Cascade}
  /\ slave.irr \subseteq {12} /\ slave.isr \subseteq {12}

\* The line lock is held by the context that writes.
LockHeld == \A c \in Contexts : stage[c] = "out" <=> lock = c

\* A handler that does not print has no printf under way.
HandlersPrint ==
  /\ handler.at # "print" => stage["irq"] = "idle"
  /\ inj = "none" => stage["inj"] = "idle"

\* What happens in one mode only.
ModesKept ==
  /\ inj # "none" => mode = "nmi"
  /\ shot_arrived => mode = "no_interrupt"

\* The EOI of the slave comes before that of the master.
SlaveDone == mode # "no_interrupt" /\ handler.at = "eoi" => slave.isr = {}

\* With SHV_NO_INTERRUPT no byte comes before the timer's request, which has the
\* highest priority: nothing else but spurious interrupts is handled before it,
\* and it stays in service.
OneShot ==
  mode = "no_interrupt" =>
    /\ handler.at \in {"none", "entry"}
    /\ handler.at = "none" => handler = NoHandler
    /\ handler.at = "entry" => handler.irq \in {0, 7}
    /\ shot_arrived => 0 \in master.isr /\ handler = NoHandler
    /\ 0 \notin master.irr \cup master.isr => master.irr = {} /\ slave.irr = {}
    /\ handler = [irq |-> 0, at |-> "entry"] => 0 \in master.isr

IInv ==
  /\ TypeOK
  /\ LinesUsed
  /\ LockHeld
  /\ HandlersPrint
  /\ ModesKept
  /\ InServiceIsHandled
  /\ SlaveDone
  /\ OneShot

----------------------------------------------------------------------------
(* The controllers. *)

\* When one line is in service, a non-specific EOI ends it.
LEMMA EoiOfOne ==
  ASSUME NEW L, NEW p \in [irr : SUBSET L, isr : SUBSET L],
         NEW x \in Int, p.isr \subseteq {x}
  PROVE  Eoi(p).isr = {}
<1>1. CASE p.isr = {}
  BY <1>1 DEF Eoi
<1>2. CASE p.isr = {x}
  <2>1. Lowest(p.isr) = x
    BY <1>2 DEF Lowest
  <2> QED
    BY <1>2, <2>1 DEF Eoi
<1> QED
  BY <1>1, <1>2

\* What the processor is given: the line of the highest priority.
LEMMA Acknowledged ==
  ASSUME TypeOK, LinesUsed, Requests # {}
  PROVE  \/ /\ NextLine \in {0, 1}
            /\ NextLine \in master.irr
            /\ NextLine = 1 => 0 \notin master.irr
            /\ \A j \in master.isr : NextLine < j
         \/ /\ NextLine = Cascade
            /\ NextOfSlave = 12
            /\ 12 \in slave.irr
            /\ 0 \notin master.irr
            /\ \A j \in master.isr : Cascade < j
<1> DEFINE lines == Requests
           i == NextLine
           slines == Serviceable(slave)
<1>1. slines \subseteq {12}
  BY DEF LinesUsed, Serviceable
<1>2. Pending(master, slave).isr = master.isr
  BY DEF TypeOK, Pending, Raise
<1>3. Pending(master, slave).irr \subseteq {0, 1, 2}
  BY DEF TypeOK, Pending, Raise, LinesUsed, Cascade
<1>4. 2 \in Pending(master, slave).irr => slines # {}
  BY DEF TypeOK, Pending, Raise, LinesUsed, Cascade
<1>5. \A k \in {0, 1} : k \in Pending(master, slave).irr => k \in master.irr
  BY DEF TypeOK, Pending, Raise, LinesUsed, Cascade
<1>6. lines \subseteq {0, 1, 2} /\ lines # {}
  BY <1>3 DEF Serviceable, Requests
<1>7. i \in lines /\ \A k \in lines : i <= k
  <2>1. \E m \in lines : \A k \in lines : m <= k
    <3>1. CASE 0 \in lines
      BY <1>6, <3>1
    <3>2. CASE 0 \notin lines /\ 1 \in lines
      BY <1>6, <3>2
    <3>3. CASE 0 \notin lines /\ 1 \notin lines
      <4>1. lines = {2}
        BY <1>6, <3>3
      <4> QED
        BY <4>1
    <3> QED
      BY <3>1, <3>2, <3>3
  <2> HIDE DEF lines
  <2> QED
    BY <2>1 DEF NextLine, Lowest, lines
<1>8. i \in Pending(master, slave).irr /\ \A j \in master.isr : i < j
  <2>1. \A k \in lines : k \in Pending(master, slave).irr
                         /\ \A j \in Pending(master, slave).isr : k < j
    BY DEF Requests, Serviceable
  <2> HIDE DEF lines
  <2> QED
    BY <1>2, <1>7, <2>1
<1>9. i > 0 => 0 \notin master.irr
  <2> SUFFICES ASSUME i > 0, 0 \in master.irr PROVE FALSE
    OBVIOUS
  <2>1. 0 \in Pending(master, slave).irr
    BY DEF TypeOK, Pending, Raise
  <2>2. \A j \in master.isr : 0 < j
    BY <1>3, <1>8 DEF LinesUsed, Cascade
  <2>3. 0 \in lines
    BY <1>2, <2>1, <2>2 DEF Requests, Serviceable
  <2> QED
    BY <1>6, <1>7, <2>3
<1> HIDE DEF i
<1>10. CASE i = 2
  <2>1. slines = {12}
    BY <1>1, <1>4, <1>8, <1>10
  <2>2. Lowest(slines) = 12
    <3> HIDE DEF slines
    <3> QED
      BY <2>1 DEF Lowest
  <2>3. 12 \in slave.irr
    BY <2>1 DEF Serviceable
  <2>4. NextOfSlave = 12
    BY <2>2 DEF NextOfSlave
  <2> QED
    BY <1>8, <1>9, <1>10, <2>3, <2>4 DEF Cascade, i
<1>11. CASE i # 2
  <2>1. i \in {0, 1} /\ i \in master.irr
    BY <1>3, <1>5, <1>8, <1>11
  <2> QED
    BY <1>8, <1>9, <2>1 DEF i
<1> QED
  BY <1>10, <1>11

----------------------------------------------------------------------------
(* The invariant. *)

USE DEF Contexts, Modes, MasterLines, SlaveLines, Cascade

LEMMA InitIInv == Init => IInv
<1> SUFFICES ASSUME Init PROVE IInv
  OBVIOUS
<1> USE DEF Init
<1>1. TypeOK
  <2>1. shot_arrived \in BOOLEAN
    BY Zenon
  <2>2. master \in [irr : SUBSET MasterLines, isr : SUBSET MasterLines]
    BY DEF Idle, Raise, TimerLine
  <2> QED
    BY <2>1, <2>2 DEF TypeOK, Idle, NoHandler
<1>2. LinesUsed /\ InServiceIsHandled /\ SlaveDone
  BY DEF LinesUsed, InServiceIsHandled, SlaveDone, Idle, Raise, TimerLine
<1>3. LockHeld /\ HandlersPrint
  BY DEF LockHeld, HandlersPrint
<1>4. ModesKept
  BY DEF ModesKept
<1>5. OneShot
  BY DEF OneShot, Idle, Raise, TimerLine, NoHandler
<1> QED
  BY <1>1, <1>2, <1>3, <1>4, <1>5 DEF IInv

\* Steps of printf leave interrupts alone.
LEMMA PrintfStep ==
  ASSUME IInv, NEW c \in Contexts, StartPrint(c) \/ TakeLock(c) \/ PutLine(c)
  PROVE  IInv'
<1> USE DEF IInv, pics, options
<1>1. UNCHANGED <<mode, ps2_mouse, master, slave, obf, bsp, handler, inj, shot_arrived>>
  BY DEF StartPrint, TakeLock, PutLine
<1>2. lock' \in Contexts \cup {"free"} /\ stage' \in [Contexts -> {"idle", "lock", "out"}]
  BY DEF TypeOK, StartPrint, CallPrintf, TakeLock, PutLine
<1>3. LockHeld'
  <2>1. CASE StartPrint(c)
    BY <2>1 DEF TypeOK, LockHeld, StartPrint, CallPrintf, Ready
  <2>2. CASE TakeLock(c)
    BY <2>2 DEF TypeOK, LockHeld, TakeLock
  <2>3. CASE PutLine(c)
    BY <2>3 DEF TypeOK, LockHeld, PutLine
  <2> QED
    BY <2>1, <2>2, <2>3
<1>4. HandlersPrint'
  BY <1>1 DEF TypeOK, HandlersPrint, StartPrint, CallPrintf, TakeLock, PutLine
<1> QED
  BY <1>1, <1>2, <1>3, <1>4 DEF TypeOK, LinesUsed, ModesKept, InServiceIsHandled,
     SlaveDone, OneShot

\* What comes from outside only raises requests.
LEMMA OutsideStep ==
  ASSUME IInv, Tick \/ \E dev \in {"key", "mouse"} : Byte(dev)
  PROVE  IInv'
<1> USE DEF IInv, printing, options
<1>1. UNCHANGED <<mode, ps2_mouse, lock, stage, bsp, handler, inj, shot_arrived>>
  BY DEF Tick, Byte
<1>2. obf' \in {"none", "key", "mouse"}
  BY DEF TypeOK, Tick, Byte
<1>3. \/ master' = Raise(master, 0) /\ slave' = slave
      \/ /\ master' = Raise(master, 1) /\ slave' = slave
         /\ mode = "no_interrupt" => shot_arrived \/ 0 \in master.irr \cup master.isr
      \/ /\ master' = master /\ slave' = Raise(slave, 12)
         /\ mode = "no_interrupt" => shot_arrived \/ 0 \in master.irr \cup master.isr
  BY DEF Tick, Byte, TimerLine
<1>4. /\ master' \in [irr : SUBSET MasterLines, isr : SUBSET MasterLines]
      /\ slave' \in [irr : SUBSET SlaveLines, isr : SUBSET SlaveLines]
      /\ master'.isr = master.isr /\ slave'.isr = slave.isr
      /\ master.irr \subseteq master'.irr /\ master'.irr \subseteq master.irr \cup {0, 1}
      /\ slave'.irr \subseteq slave.irr \cup {12}
      /\ mode = "no_interrupt" /\ ~shot_arrived /\ 0 \notin master'.irr \cup master.isr =>
           master'.irr = master.irr /\ slave'.irr = slave.irr
  BY <1>3 DEF TypeOK, Raise
<1>5. TypeOK'
  BY <1>1, <1>2, <1>4 DEF TypeOK
<1>6. LinesUsed'
  BY <1>4 DEF LinesUsed
<1>7. OneShot'
  BY <1>1, <1>4 DEF OneShot, NoHandler
<1> QED
  BY <1>1, <1>4, <1>5, <1>6, <1>7 DEF LockHeld, HandlersPrint, ModesKept,
     InServiceIsHandled, SlaveDone

\* The BSP takes an interrupt only when it is in no handler.
LEMMA TakeStep ==
  ASSUME IInv, Interrupt \/ Spurious \/ SpuriousSlave
  PROVE  IInv'
<1> USE DEF IInv, printing, pics, options
<1>1. UNCHANGED <<mode, ps2_mouse, lock, stage, obf, bsp, inj, shot_arrived>> /\ handler = NoHandler
  BY DEF Interrupt, Spurious, SpuriousSlave, Interruptible
<1>2. CASE Interrupt
  <2>1. CASE /\ NextLine \in {0, 1}
             /\ NextLine \in master.irr
             /\ NextLine = 1 => 0 \notin master.irr
             /\ \A j \in master.isr : NextLine < j
    <3>1. /\ master' = Ack(master, NextLine)
          /\ slave' = slave
          /\ handler' = [irq |-> NextLine, at |-> "entry"]
      BY <1>2, <2>1 DEF Interrupt, Take
    <3> HIDE DEF NextLine
    <3>2. TypeOK' /\ LinesUsed'
      BY <1>1, <2>1, <3>1 DEF TypeOK, LinesUsed, Ack
    <3>3. InServiceIsHandled'
      BY <1>1, <2>1, <3>1 DEF InServiceIsHandled, NoHandler, Ack
    <3>4. OneShot'
      <4>1. mode = "no_interrupt" => NextLine = 0
        BY <2>1 DEF OneShot
      <4> QED
        BY <1>1, <2>1, <3>1, <4>1 DEF OneShot, NoHandler, Ack
    <3> QED
      BY <1>1, <3>1, <3>2, <3>3, <3>4 DEF LockHeld, HandlersPrint, ModesKept,
         SlaveDone, NoHandler
  <2>2. CASE /\ NextLine = Cascade
             /\ NextOfSlave = 12
             /\ 12 \in slave.irr
             /\ 0 \notin master.irr
             /\ \A j \in master.isr : Cascade < j
    <3>1. /\ master' = Ack(master, Cascade)
          /\ slave' = Ack(slave, 12)
          /\ handler' = [irq |-> 12, at |-> "entry"]
      BY <1>2, <2>2 DEF Interrupt, Take
    <3>2. TypeOK' /\ LinesUsed'
      BY <1>1, <2>2, <3>1 DEF TypeOK, LinesUsed, Ack
    <3>3. InServiceIsHandled'
      BY <1>1, <2>2, <3>1 DEF InServiceIsHandled, NoHandler, Ack
    <3>4. mode # "no_interrupt"
      BY <2>2 DEF OneShot
    <3> QED
      BY <1>1, <3>1, <3>2, <3>3, <3>4 DEF LockHeld, HandlersPrint, ModesKept,
         SlaveDone, OneShot, NoHandler
  <2>3. Requests # {}
    BY <1>2 DEF Interrupt
  <2> QED
    BY <2>1, <2>2, <2>3, Acknowledged
<1>3. CASE Spurious
  <2>1. handler' = [irq |-> 7, at |-> "entry"] /\ master.isr = {} /\ UNCHANGED <<master, slave>>
    BY <1>3 DEF Spurious, Take
  <2>2. TypeOK' /\ LinesUsed'
    BY <1>1, <2>1 DEF TypeOK, LinesUsed
  <2>3. InServiceIsHandled'
    BY <1>1, <2>1 DEF InServiceIsHandled, NoHandler
  <2>4. OneShot'
    BY <1>1, <2>1 DEF OneShot, NoHandler
  <2> QED
    BY <1>1, <2>1, <2>2, <2>3, <2>4 DEF LockHeld, HandlersPrint, ModesKept,
       SlaveDone, NoHandler
<1>4. CASE SpuriousSlave
  <2>1. /\ NextOfSlave = 12 /\ 12 \in slave.irr /\ 0 \notin master.irr
        /\ \A j \in master.isr : Cascade < j
    BY <1>4, Acknowledged DEF SpuriousSlave
  <2>2. /\ master' = Ack(master, Cascade)
        /\ slave' = [irr |-> slave.irr \ {12}, isr |-> slave.isr]
        /\ handler' = [irq |-> 15, at |-> "entry"]
    BY <1>4, <2>1 DEF SpuriousSlave, Take
  <2>3. TypeOK' /\ LinesUsed'
    BY <1>1, <2>1, <2>2 DEF TypeOK, LinesUsed, Ack
  <2>4. InServiceIsHandled'
    BY <1>1, <2>1, <2>2 DEF InServiceIsHandled, NoHandler, Ack
  <2>5. mode # "no_interrupt"
    BY <2>1 DEF OneShot
  <2> QED
    BY <1>1, <2>2, <2>3, <2>4, <2>5 DEF LockHeld, HandlersPrint, ModesKept,
       SlaveDone, OneShot, NoHandler
<1> QED
  BY <1>2, <1>3, <1>4

\* What the three kinds of ending a handler have in common: the BSP is in no
\* handler, and nothing is in service any more.
LEMMA Returned ==
  ASSUME IInv, Iret, mode # "no_interrupt",
         UNCHANGED <<mode, ps2_mouse, lock, stage, obf, inj, shot_arrived>>,
         handler.at # "print",
         master' \in [irr : SUBSET MasterLines, isr : SUBSET MasterLines],
         master'.irr = master.irr, master'.isr = {},
         slave' = slave, slave.isr = {}
  PROVE  IInv'
<1> USE DEF IInv, Iret, NoHandler
<1>1. TypeOK'
  BY DEF TypeOK
<1>2. LinesUsed' /\ InServiceIsHandled'
  BY DEF LinesUsed, InServiceIsHandled
<1> QED
  BY <1>1, <1>2 DEF LockHeld, HandlersPrint, ModesKept, SlaveDone, OneShot

LEMMA TimerStep ==
  ASSUME IInv, TimerEntry
  PROVE  IInv'
<1> USE DEF IInv, pics, printing, options
<1>1. /\ UNCHANGED <<mode, ps2_mouse, master, slave, obf, inj>>
      /\ handler = [irq |-> 0, at |-> "entry"]
      /\ shot_arrived' = (mode = "no_interrupt")
  BY DEF TimerEntry, At
<1>2. shot_arrived' \in BOOLEAN
  BY <1>1, Zenon
<1>3. CASE mode = "no_interrupt"
  <2>1. /\ handler' = NoHandler /\ UNCHANGED <<lock, stage>>
        /\ bsp' \in {"timer", "woken", "cli", "mouse_init", "run"}
    <3>1. ~shot_arrived
      BY <1>1, <1>3 DEF OneShot, NoHandler
    <3> QED
      BY <1>3, <3>1 DEF TimerEntry, Iret, TypeOK
  <2>2. TypeOK'
    BY <1>1, <1>2, <2>1 DEF TypeOK, NoHandler
  <2>3. OneShot'
    BY <1>1, <1>3, <2>1 DEF OneShot, NoHandler
  <2> QED
    BY <1>1, <1>2, <1>3, <2>1, <2>2, <2>3 DEF LinesUsed, LockHeld, HandlersPrint,
       ModesKept, InServiceIsHandled, SlaveDone, NoHandler
<1>4. CASE mode # "no_interrupt"
  <2>1. \/ handler' = [irq |-> 0, at |-> "eoi"] /\ UNCHANGED <<bsp, lock, stage>>
        \/ /\ handler' = [irq |-> 0, at |-> "print"]
           /\ UNCHANGED <<bsp, lock>>
           /\ stage' = [stage EXCEPT !["irq"] = "lock"]
    BY <1>1, <1>4 DEF TimerEntry, Goto, CallPrintf, TypeOK
  <2>2. TypeOK'
    BY <1>1, <1>2, <2>1 DEF TypeOK
  <2>3. LockHeld'
    BY <1>1, <2>1 DEF LockHeld, HandlersPrint, TypeOK
  <2>4. HandlersPrint'
    BY <1>1, <2>1 DEF HandlersPrint, TypeOK
  <2>5. InServiceIsHandled' /\ SlaveDone'
    BY <1>1, <2>1 DEF InServiceIsHandled, SlaveDone, LinesUsed
  <2> QED
    BY <1>1, <1>2, <1>4, <2>2, <2>3, <2>4, <2>5 DEF LinesUsed, ModesKept, OneShot
<1> QED
  BY <1>3, <1>4

LEMMA ByteStep ==
  ASSUME IInv, ByteEntry \/ UnknownEntry \/ Printed
  PROVE  IInv'
<1> USE DEF IInv, pics, printing, options
<1>1. UNCHANGED <<mode, ps2_mouse, master, slave, bsp, inj, shot_arrived>>
  BY DEF ByteEntry, UnknownEntry, Printed
<1>2. mode # "no_interrupt"
  BY DEF ByteEntry, UnknownEntry, Printed, At, OneShot
<1>3. CASE ByteEntry \/ UnknownEntry
  <2>1. /\ handler.at = "entry"
        /\ handler' = [irq |-> handler.irq, at |-> "print"]
        /\ obf' \in {"none", obf}
        /\ lock' = lock
        /\ stage' = [stage EXCEPT !["irq"] = "lock"]
    BY <1>3 DEF ByteEntry, UnknownEntry, At, Goto, CallPrintf, TypeOK
  <2>2. TypeOK'
    BY <1>1, <2>1 DEF TypeOK
  <2>3. LockHeld' /\ HandlersPrint'
    BY <1>1, <2>1 DEF LockHeld, HandlersPrint, TypeOK
  <2> QED
    BY <1>1, <1>2, <2>1, <2>2, <2>3 DEF LinesUsed, ModesKept, InServiceIsHandled,
       SlaveDone, OneShot
<1>4. CASE Printed
  <2>1. /\ handler.at = "print"
        /\ stage["irq"] = "idle"
        /\ handler' = [irq |-> handler.irq, at |-> IF handler.irq = 12 THEN "eoi_slave"
                                                 ELSE IF handler.irq = 15 THEN "halted" ELSE "eoi"]
        /\ UNCHANGED <<obf, lock, stage>>
    BY <1>4 DEF Printed, Ready, Goto, TypeOK
  <2>2. TypeOK'
    BY <1>1, <2>1 DEF TypeOK
  <2>3. InServiceIsHandled' /\ SlaveDone'
    BY <1>1, <1>2, <2>1 DEF InServiceIsHandled, SlaveDone, LinesUsed
  <2> QED
    BY <1>1, <1>2, <2>1, <2>2, <2>3 DEF LinesUsed, LockHeld, HandlersPrint, ModesKept,
       OneShot
<1> QED
  BY <1>3, <1>4

LEMMA EoiStep ==
  ASSUME IInv, EoiSlave \/ EoiMaster \/ SpuriousEntry
  PROVE  IInv'
<1> USE DEF IInv, pics, printing, options
<1>1. UNCHANGED <<mode, ps2_mouse, lock, stage, obf, inj, shot_arrived>> /\ handler.at # "print"
  BY DEF EoiSlave, EoiMaster, SpuriousEntry, At
<1>2. ~SpuriousTest
  BY DEF SpuriousTest, LinesUsed
<1>3. CASE EoiSlave
  <2>1. /\ handler = [irq |-> 12, at |-> "eoi_slave"]
        /\ handler' = [irq |-> 12, at |-> "eoi"]
        /\ slave' = Eoi(slave)
        /\ UNCHANGED <<master, bsp>>
    BY <1>3 DEF EoiSlave, At, Goto
  <2>2. mode # "no_interrupt"
    BY <2>1 DEF OneShot
  <2>3. slave'.isr = {}
    BY <2>1, EoiOfOne DEF LinesUsed, TypeOK
  <2>4. slave' \in [irr : SUBSET SlaveLines, isr : SUBSET SlaveLines] /\ slave'.irr = slave.irr
    BY <2>1 DEF TypeOK, Eoi
  <2>5. TypeOK'
    BY <1>1, <2>1, <2>4 DEF TypeOK
  <2> QED
    BY <1>1, <2>1, <2>2, <2>3, <2>4, <2>5 DEF LinesUsed, LockHeld, HandlersPrint,
       ModesKept, InServiceIsHandled, SlaveDone, OneShot
<1>4. CASE EoiMaster
  <2>1. handler.at = "eoi" /\ master' = Eoi(master) /\ slave' = slave /\ Iret
    BY <1>4 DEF EoiMaster
  <2>2. mode # "no_interrupt"
    BY <2>1 DEF OneShot
  <2>3. slave.isr = {}
    BY <2>1, <2>2 DEF SlaveDone
  <2>4. \E x \in Int : master.isr \subseteq {x}
    BY <2>1, <2>2 DEF InServiceIsHandled, TypeOK
  <2>5. master'.isr = {}
    BY <2>1, <2>4, EoiOfOne DEF TypeOK
  <2>6. /\ master' \in [irr : SUBSET MasterLines, isr : SUBSET MasterLines]
        /\ master'.irr = master.irr
    BY <2>1 DEF TypeOK, Eoi
  <2> QED
    BY <1>1, <1>2, <2>1, <2>2, <2>3, <2>5, <2>6, Returned DEF TypeOK
<1>5. CASE SpuriousEntry
  <2>1. handler = [irq |-> 7, at |-> "entry"] /\ UNCHANGED <<master, slave>> /\ Iret
    BY <1>2, <1>5 DEF SpuriousEntry, At
  <2>2. CASE mode # "no_interrupt"
    <3>1. master.isr = {} /\ slave.isr = {}
      BY <2>1, <2>2 DEF InServiceIsHandled, LinesUsed
    <3> QED
      BY <1>1, <1>2, <2>1, <2>2, <3>1, Returned DEF TypeOK
  <2>3. CASE mode = "no_interrupt"
    <3>1. handler' = NoHandler /\ bsp' \in {"timer", "woken", "cli", "mouse_init", "run"}
      BY <2>1 DEF Iret, TypeOK
    <3>2. TypeOK'
      BY <1>1, <1>2, <2>1, <3>1 DEF TypeOK, NoHandler
    <3>3. OneShot'
      BY <1>1, <2>1, <3>1 DEF OneShot, NoHandler
    <3> QED
      BY <1>1, <1>2, <2>1, <2>3, <3>1, <3>2, <3>3 DEF LinesUsed, LockHeld, HandlersPrint,
         ModesKept, InServiceIsHandled, SlaveDone, NoHandler
  <2> QED
    BY <2>2, <2>3
<1> QED
  BY <1>3, <1>4, <1>5

\* cli and sti, and the injected handler on CPU 1: its EOI can only take
\* something out of service.
LEMMA OtherStep ==
  ASSUME IInv, Cli \/ Sti \/ MouseInitEnd \/ InjEntry \/ InjEoi
  PROVE  IInv'
<1> USE DEF IInv, pics, printing, options
<1>1. UNCHANGED <<mode, ps2_mouse, slave, handler, shot_arrived>>
  BY DEF Cli, Sti, MouseInitEnd, InjEntry, InjEoi
<1>2. CASE Cli \/ Sti \/ MouseInitEnd
  BY <1>1, <1>2 DEF Cli, Sti, MouseInitEnd, TypeOK, LinesUsed, LockHeld, HandlersPrint, ModesKept,
     InServiceIsHandled, SlaveDone, OneShot
<1>3. CASE InjEntry
  <2>1. /\ mode = "nmi" /\ inj = "none" /\ inj' = "print" /\ obf' = "none"
        /\ UNCHANGED <<master, bsp, lock>>
        /\ stage' = [stage EXCEPT !["inj"] = "lock"]
    BY <1>3 DEF InjEntry, CallPrintf
  <2>2. TypeOK'
    BY <1>1, <2>1 DEF TypeOK
  <2>3. LockHeld' /\ HandlersPrint'
    BY <1>1, <2>1 DEF LockHeld, HandlersPrint, TypeOK
  <2> QED
    BY <1>1, <2>1, <2>2, <2>3 DEF LinesUsed, ModesKept, InServiceIsHandled, SlaveDone,
       OneShot
<1>4. CASE InjEoi
  <2>1. /\ inj = "print" /\ stage["inj"] = "idle" /\ inj' = "none"
        /\ UNCHANGED <<obf, bsp, lock, stage>>
        /\ master' = Eoi(master)
    BY <1>4 DEF InjEoi, Ready
  <2>2. /\ master' \in [irr : SUBSET MasterLines, isr : SUBSET MasterLines]
        /\ master'.irr = master.irr /\ master'.isr \subseteq master.isr
    BY <2>1 DEF TypeOK, Eoi
  <2>3. TypeOK'
    BY <1>1, <2>1, <2>2 DEF TypeOK
  <2>4. mode = "nmi"
    BY <2>1 DEF ModesKept
  <2>5. InServiceIsHandled'
    BY <1>1, <2>2, <2>4 DEF InServiceIsHandled
  <2> QED
    BY <1>1, <2>1, <2>2, <2>3, <2>4, <2>5 DEF LinesUsed, LockHeld, HandlersPrint,
       ModesKept, SlaveDone, OneShot
<1> QED
  BY <1>2, <1>3, <1>4

LEMMA NextIInv == IInv /\ [Next]_vars => IInv'
<1> SUFFICES ASSUME IInv, [Next]_vars PROVE IInv'
  OBVIOUS
<1>1. CASE \E c \in Contexts : StartPrint(c) \/ TakeLock(c) \/ PutLine(c)
  BY <1>1, PrintfStep
<1>2. CASE Tick \/ \E dev \in {"key", "mouse"} : Byte(dev)
  BY <1>2, OutsideStep
<1>3. CASE Interrupt \/ Spurious \/ SpuriousSlave
  BY <1>3, TakeStep
<1>4. CASE TimerEntry
  BY <1>4, TimerStep
<1>5. CASE ByteEntry \/ UnknownEntry \/ Printed
  BY <1>5, ByteStep
<1>6. CASE EoiSlave \/ EoiMaster \/ SpuriousEntry
  BY <1>6, EoiStep
<1>7. CASE Cli \/ Sti \/ MouseInitEnd \/ InjEntry \/ InjEoi
  BY <1>7, OtherStep
<1>8. CASE UNCHANGED vars
  BY <1>8 DEF vars, IInv, TypeOK, LinesUsed, LockHeld, HandlersPrint, ModesKept,
     InServiceIsHandled, SlaveDone, OneShot
<1> QED
  BY <1>1, <1>2, <1>3, <1>4, <1>5, <1>6, <1>7, <1>8
     DEF Next, Bsp, Ap, Outside, Handler, InPrintf

LEMMA Invariant == Spec => []IInv
BY InitIInv, NextIInv, PTL DEF Spec

----------------------------------------------------------------------------

\* Every variable keeps its type: the controllers only their own lines, the
\* line lock only a context that prints.
THEOREM Typed == Spec => []TypeOK
<1>1. IInv => TypeOK
  BY DEF IInv
<1> QED
  BY <1>1, Invariant, PTL

\* The lines of two printfs are never mixed (vprintf in libc_stdio.c).
THEOREM LinesAreWhole == Spec => []LinesWhole
<1>1. IInv => LinesWhole
  BY DEF IInv, LockHeld, LinesWhole
<1> QED
  BY <1>1, Invariant, PTL

\* Non-specific EOIs end the interrupt that is handled, although CPU 1 sends
\* one of its own (shv-keyboard.c, shv-mouse.c, shv-timer.c).
THEOREM EoisMatch == Spec => []InServiceIsHandled
<1>1. IInv => InServiceIsHandled
  BY DEF IInv
<1> QED
  BY <1>1, Invariant, PTL

\* With SHV_NO_INTERRUPT no interrupt is handled after the first of the timer,
\* which handle_timer_interrupt leaves in service (shv-timer.c), so that its
\* ASSERT never fails: neither a key nor a second tick gets past the 8259.
THEOREM ShotStaysLast == Spec => ShotIsLast
<1>1. IInv /\ IInv' /\ [Next]_vars => [shot_arrived /\ handler = NoHandler => handler' = NoHandler]_vars
  <2> SUFFICES ASSUME IInv, IInv', [Next]_vars, shot_arrived, handler = NoHandler
               PROVE  handler' = NoHandler
    OBVIOUS
  <2>1. mode = "no_interrupt"
    BY DEF IInv, ModesKept
  <2>2. mode' = mode /\ shot_arrived'
    BY <2>1 DEF Next, vars, Bsp, Ap, Outside, Handler, InPrintf, StartPrint, TakeLock, PutLine,
       Tick, Byte, Interrupt, Spurious, SpuriousSlave, TimerEntry, ByteEntry, Printed,
       EoiSlave, EoiMaster, SpuriousEntry, UnknownEntry, Cli, Sti, MouseInitEnd, options, InjEntry, InjEoi
  <2> QED
    BY <2>1, <2>2 DEF IInv, OneShot
<1> QED
  BY <1>1, Invariant, PTL DEF Spec, ShotIsLast
=============================================================================
