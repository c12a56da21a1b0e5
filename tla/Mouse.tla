------------------------------- MODULE Mouse -------------------------------
(***************************************************************************)
(* mouse_init (shv-mouse.c) on the BSP, the handlers of IRQ 1 and IRQ 12     *)
(* that share the PS/2 controller with it, and the controller, which takes   *)
(* commands and returns bytes in its own time.                               *)
(*                                                                         *)
(* An interrupt that is pending and reaches the BSP is taken between any two  *)
(* of its accesses. The printfs of mouse_init and of the handlers are left to *)
(* module Irq.                                                               *)
(***************************************************************************)
EXTENDS Integers, Sequences

CONSTANTS
  MaxKeys, MaxMoves \* how many bytes come from keyboard and mouse

\* What the constants must be.
MouseConstants ==
  /\ MaxKeys \in Nat /\ MaxMoves \in Nat

VARIABLES
  eflags_if,    \* FALSE with SHV_NO_EFLAGS_IF
  no_interrupt, \* SHV_NO_INTERRUPT: line 0 is in service for ever
  at,           \* the step of mouse_init that is next
  conf,         \* the configuration byte that mouse_init has read
  drop_mouse_interrupts,
  failed,       \* an ASSERT of mouse_init has failed; the BSP halts there
  dead,         \* the BSP has halted in a handler
  ibf,          \* the input buffer: a command or a byte of data
  obf,          \* the output buffer
  ctl,          \* the configuration of the controller
  port,         \* where the next byte of data goes
  reply,        \* a byte that waits until the output buffer is empty
  on,           \* whether the mouse reports movements
  irq,          \* lines with a request, 15 for one of the slave that went away
  keys, moves

vars == <<eflags_if, no_interrupt, at, conf, drop_mouse_interrupts, failed, dead,
          ibf, obf, ctl, port, reply, on, irq, keys, moves>>
options == <<eflags_if, no_interrupt>>
init_vars == <<options, at, conf, failed>>
device == <<ctl, port, reply, on>>
bytes == <<keys, moves>>

\* The bits of the configuration byte that the code looks at or changes.
Conf == [int1 : BOOLEAN, int2 : BOOLEAN, dis1 : BOOLEAN, dis2 : BOOLEAN]

\* Bytes: answers of the controller, the acknowledgement of the mouse (0xfa),
\* a key and a movement.
Bytes == {"conf", "55", "00", "fa", "key", "move"}

\* The BIOS leaves the keyboard on, and perhaps a byte in the output buffer.
Init ==
  /\ eflags_if \in BOOLEAN
  /\ no_interrupt \in BOOLEAN
  /\ at = 1
  /\ ctl \in {c \in Conf : c.int1 /\ ~c.dis1}
  /\ conf = ctl
  /\ drop_mouse_interrupts = 0
  /\ failed = FALSE
  /\ dead = FALSE
  /\ ibf = "none"
  /\ obf \in {"none", "key"}
  /\ port = "keyboard"
  /\ reply = "none"
  /\ on = FALSE
  /\ irq = {}
  /\ keys = 0
  /\ moves = 0

----------------------------------------------------------------------------
(* mouse_init as the sequence of its accesses: a command, a byte of data, a   *)
(* byte received and what is asserted of it, or the loop that flushes.        *)

Ctrl(c) == [do |-> "ctrl", arg |-> c]
Data(d) == [do |-> "data", arg |-> d]
Recv(check) == [do |-> "recv", arg |-> check]
Do(what) == [do |-> what, arg |-> "none"]

ps2_read_conf(check) == <<Ctrl("20"), Recv(check)>>
ps2_write_conf(d) == <<Ctrl("60"), Data(d)>>

FlushOutput == <<Do("flush")>>

\* A variant that expects the interrupt only when the mouse has been told.
EnableMouseLate ==
  ps2_write_conf("irq_on") \o
  <<Ctrl("d4"), Data("f4"), Do("drop"), Recv("fa"), Do("assert_dropped")>>
EnableMouse ==
  ps2_write_conf("irq_on") \o
  <<Do("drop"), Ctrl("d4"), Data("f4"), Recv("fa"), Do("assert_dropped")>>

Steps ==
  <<Ctrl("ad"), Ctrl("a7")>> \o FlushOutput
    \o ps2_read_conf("dis2") \o ps2_write_conf("irq_off")
    \o <<Ctrl("aa"), Recv("55"), Ctrl("a8")>> \o ps2_read_conf("en2")
    \o <<Ctrl("a7")>> \o ps2_read_conf("dis2")
    \o <<Ctrl("ab"), Recv("00"), Ctrl("a9"), Recv("00"), Ctrl("ae"), Ctrl("a8")>>
    \o ps2_read_conf("en") \o EnableMouse

Done == at > Len(Steps)

AtStep(do) ==
  /\ ~failed /\ ~dead
  /\ ~Done
  /\ Steps[at].do = do
Arg == Steps[at].arg
Advance == at' = at + 1

\* ps2_send_ctrl and ps2_send_data wait for the input buffer.
Send ==
  /\ AtStep("ctrl") \/ AtStep("data")
  /\ ibf = "none"
  /\ ibf' = Arg
  /\ Advance
  /\ UNCHANGED <<options, dead, conf, drop_mouse_interrupts, failed, obf, device, irq, bytes>>

\* When a byte is read, the controller lowers its line. A request that is still
\* pending stays latched, or it is lost: at the master that is a spurious IRQ 7,
\* which is ignored, and at the slave an IRQ 15.
AfterRead ==
  {irq, irq \ {1}} \cup (IF 12 \in irq THEN {(irq \ {12}) \cup {15}} ELSE {})

\* What a byte says as a configuration. One that is not from the controller
\* may say anything.
ConfOf(o) == IF o = "conf" THEN {ctl} ELSE Conf
Asserted(c) ==
  CASE Arg = "dis2" -> c.dis2
    [] Arg = "en2" -> ~c.dis2
    [] Arg = "en" -> ~c.dis1 /\ ~c.dis2

\* ps2_recv_data waits for the output buffer; what it returns is asserted.
Receive ==
  /\ AtStep("recv")
  /\ obf # "none"
  /\ obf' = "none"
  /\ irq' \in AfterRead
  /\ IF Arg \in {"dis2", "en2", "en"}
     THEN \E c \in ConfOf(obf) : conf' = c /\ failed' = ~Asserted(c)
     ELSE failed' = (Arg \notin {obf, "any"}) /\ UNCHANGED conf
  /\ Advance
  /\ UNCHANGED <<options, dead, drop_mouse_interrupts, ibf, device, bytes>>

FlushStep ==
  /\ AtStep("flush")
  /\ IF obf = "none"
     THEN Advance /\ UNCHANGED irq
     ELSE irq' \in AfterRead /\ UNCHANGED at
  /\ obf' = "none"
  /\ UNCHANGED <<options, dead, conf, drop_mouse_interrupts, failed, ibf, device, bytes>>

SetDrop ==
  /\ AtStep("drop")
  /\ drop_mouse_interrupts' = 1
  /\ Advance
  /\ UNCHANGED <<options, dead, conf, failed, ibf, obf, device, irq, bytes>>

AssertDropped ==
  /\ AtStep("assert_dropped")
  /\ failed' = (drop_mouse_interrupts # 0)
  /\ Advance
  /\ UNCHANGED <<options, dead, conf, drop_mouse_interrupts, ibf, obf, device, irq, bytes>>

----------------------------------------------------------------------------
(* The handlers. *)

\* Interrupts reach the BSP, also when it has halted in mouse_init.
Reached == eflags_if /\ ~no_interrupt /\ ~dead

\* handle_keyboard_interrupt; drop_keyboard_interrupts is never set.
Irq1 ==
  /\ Reached
  /\ 1 \in irq
  /\ irq' = irq \ {1}
  /\ obf' = "none"
  /\ UNCHANGED <<init_vars, dead, drop_mouse_interrupts, ibf, device, bytes>>

\* handle_mouse_interrupt
Irq12 ==
  /\ Reached
  /\ irq = {12}
  /\ irq' = {}
  /\ IF drop_mouse_interrupts > 0
     THEN drop_mouse_interrupts' = drop_mouse_interrupts - 1 /\ UNCHANGED obf
     ELSE obf' = "none" /\ UNCHANGED drop_mouse_interrupts
  /\ UNCHANGED <<init_vars, dead, ibf, device, bytes>>

\* The vector of IRQ 15 is unknown: HALT in the handler.
Irq15 ==
  /\ Reached
  /\ 15 \in irq /\ 1 \notin irq
  /\ dead' = TRUE
  /\ UNCHANGED <<init_vars, drop_mouse_interrupts, ibf, obf, device, irq, bytes>>

----------------------------------------------------------------------------
(* The controller and its devices. *)

\* A command or byte of data is taken once the reply before it is out.
Process ==
  /\ ibf # "none"
  /\ reply = "none"
  /\ ibf' = "none"
  /\ ctl' = CASE ibf = "ad" -> [ctl EXCEPT !.dis1 = TRUE]
              [] ibf = "a7" -> [ctl EXCEPT !.dis2 = TRUE]
              [] ibf = "ae" -> [ctl EXCEPT !.dis1 = FALSE]
              [] ibf = "a8" -> [ctl EXCEPT !.dis2 = FALSE]
              [] ibf = "irq_off" -> [conf EXCEPT !.int1 = FALSE, !.int2 = FALSE]
              [] ibf = "irq_on" -> [conf EXCEPT !.int1 = TRUE, !.int2 = TRUE]
              [] OTHER -> ctl
  /\ reply' = CASE ibf = "20" -> "conf"
                [] ibf = "aa" -> "55"
                [] ibf \in {"ab", "a9"} -> "00"
                [] ibf = "f4" /\ port = "mouse" -> "fa"
                [] OTHER -> "none"
  /\ on' = (on \/ (ibf = "f4" /\ port = "mouse"))
  /\ port' = IF ibf = "d4" THEN "mouse" ELSE "keyboard"
  /\ UNCHANGED <<init_vars, dead, drop_mouse_interrupts, obf, irq, bytes>>

\* A byte comes into the output buffer, with an interrupt if it is from a
\* device and its interrupt is on.
PutByte(b) ==
  /\ obf = "none"
  /\ obf' = b
  /\ irq' = irq \cup (IF b = "key" /\ ctl.int1 THEN {1}
                      ELSE IF b \in {"fa", "move"} /\ ctl.int2 THEN {12} ELSE {})

Reply ==
  /\ reply # "none"
  /\ PutByte(reply)
  /\ reply' = "none"
  /\ UNCHANGED <<init_vars, dead, drop_mouse_interrupts, ibf, ctl, port, on, bytes>>

Key ==
  /\ ~ctl.dis1
  /\ keys < MaxKeys
  /\ keys' = keys + 1
  /\ PutByte("key")
  /\ UNCHANGED <<init_vars, dead, drop_mouse_interrupts, ibf, device, moves>>

Move ==
  /\ on /\ reply = "none"
  /\ ~ctl.dis2
  /\ moves < MaxMoves
  /\ moves' = moves + 1
  /\ PutByte("move")
  /\ UNCHANGED <<init_vars, dead, drop_mouse_interrupts, ibf, device, keys>>

----------------------------------------------------------------------------

MouseInit == Send \/ Receive \/ FlushStep \/ SetDrop \/ AssertDropped
Handlers == Irq1 \/ Irq12 \/ Irq15
Controller == Process \/ Reply

Next == MouseInit \/ Handlers \/ Controller \/ Key \/ Move

\* mouse_init goes on, a pending interrupt is taken, and the controller answers.
Spec ==
  /\ Init /\ [][Next]_vars
  /\ WF_vars(MouseInit) /\ WF_vars(Handlers) /\ WF_vars(Controller)

----------------------------------------------------------------------------

\* The types of the variables.
TypeOK ==
  /\ at \in 1..(Len(Steps) + 1)
  /\ conf \in Conf /\ ctl \in Conf
  /\ drop_mouse_interrupts \in {0, 1}
  /\ \A b \in {eflags_if, no_interrupt, failed, dead, on} : b \in BOOLEAN
  /\ obf \in Bytes \cup {"none"} /\ reply \in Bytes \cup {"none"}
  /\ irq \subseteq {1, 12, 15}

\* Both devices and both interrupts are on, and reach the BSP; the interrupt of
\* the acknowledgement is over.
Working ==
  /\ ctl = [int1 |-> TRUE, int2 |-> TRUE, dis1 |-> FALSE, dis2 |-> FALSE]
  /\ on
  /\ drop_mouse_interrupts = 0
  /\ eflags_if /\ ~no_interrupt

Returned == Done /\ ~failed

\* Whatever keys are pressed, whenever interrupts are taken and with whichever
\* options: when mouse_init returns, the mouse works.
ReturnsWorking == [](Returned => Working)

\* The interrupt of the acknowledgement comes before the loop that polls for the
\* byte has read it.
Prompt ==
  (~Done /\ Steps[at].do = "assert_dropped" /\ moves = 0) => irq \cap {12, 15} = {}

\* After mouse_init every byte of a device is read by a handler, so that the
\* output buffer is empty for the next one. (A late interrupt of the
\* acknowledgement merges with that of a movement: the byte of the movement then
\* stays for ever, and the ASSERT does not notice.)
BytesRead == []Prompt => ((Returned /\ obf # "none") ~> obf = "none")

\* When also no key is pressed in mouse_init it returns, in none of its loops
\* waiting for a byte that a handler has taken and with none of its ASSERTs
\* failed, whatever the BIOS left behind and however slow the controller is.
ReturnsIfPrompt ==
  eflags_if /\ ~no_interrupt /\ [](Prompt /\ (~Done => keys = 0)) => <>Returned

\* The three together.
MouseRight == []TypeOK /\ ReturnsWorking /\ BytesRead /\ ReturnsIfPrompt
=============================================================================
