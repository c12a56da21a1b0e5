----------------------------- MODULE MCDevices -----------------------------
(***************************************************************************)
(* Devices for TLC: interrupts and printf (Irq) and the screen with the       *)
(* consoles of the CPUs (Console), which this module extends, the screen with *)
(* the text of printf (Console again) and the PS/2 mouse (Mouse). They share  *)
(* no state here, so that a behaviour is one of one of them and the others    *)
(* stay in an initial state.                                                 *)
(***************************************************************************)
EXTENDS Irq, Console

VARIABLES
  part,                                                       \* which one
  eflags_if, no_interrupt, step, conf, drop_mouse_interrupts, \* of Mouse
  mfailed, dead, ibf, mobf, ctl, port, reply, on, irq, keys, moves,
  tscreen, tat, tshv_x, tticks, tvid, ttext, tfailed          \* of the text

----------------------------------------------------------------------------

MO == INSTANCE Mouse WITH
        MaxKeys <- 2, MaxMoves <- 2,
        at <- step, failed <- mfailed, obf <- mobf

AnyMouse ==
  /\ eflags_if /\ ~no_interrupt
  /\ ctl = [int1 |-> TRUE, int2 |-> FALSE, dis1 |-> FALSE, dis2 |-> FALSE]
  /\ mobf = "none"

AnyIrq == mode = "normal" /\ ~ps2_mouse /\ master = Idle

\* A screen on which five characters wrap and scroll.
TX == INSTANCE Console WITH
        CONSOLE_WIDTH <- 2, CONSOLE_HEIGHT <- 2, CONSOLE_MAX_CPU <- 1,
        NumCpus <- 0, Art <- FALSE, DEBUG_VGA <- TRUE,
        MaxUpdates <- 0, MaxChars <- 5,
        screen <- tscreen, at <- tat, shv_x <- tshv_x, ticks <- tticks,
        vid <- tvid, text <- ttext, assert_failed <- tfailed

ASSUME MO!MouseConstants /\ Configured /\ TX!Configured

----------------------------------------------------------------------------

mouseVars == <<eflags_if, no_interrupt, step, conf, drop_mouse_interrupts, mfailed,
               dead, ibf, mobf, ctl, port, reply, on, irq, keys, moves>>
textVars == <<tscreen, tat, tshv_x, tticks, tvid, ttext, tfailed>>
deviceVars == <<part, vars, mouseVars, consoleVars, textVars>>

DeviceInit ==
  /\ Init
  /\ MO!Init
  /\ \/ part = "irq" /\ AnyMouse
     \/ part = "mouse" /\ AnyIrq
     \/ part \in {"screen", "text"} /\ AnyIrq /\ AnyMouse
  /\ ConsoleInit
  /\ TX!ConsoleInit

IrqPart(A) ==
  /\ part = "irq" /\ A
  /\ UNCHANGED <<part, mouseVars, consoleVars, textVars>>
MousePart(A) ==
  /\ part = "mouse" /\ A
  /\ UNCHANGED <<part, vars, consoleVars, textVars>>
IrqStep == IrqPart(Next)
MouseStep == MousePart(MO!Next)
ScreenStep ==
  /\ part = "screen" /\ ConsoleNext
  /\ UNCHANGED <<part, vars, mouseVars, textVars>>
TextStep ==
  /\ part = "text" /\ TX!ConsoleNext
  /\ UNCHANGED <<part, vars, mouseVars, consoleVars>>

DeviceNext == IrqStep \/ MouseStep \/ ScreenStep \/ TextStep

\* The fairness of Irq and of Mouse.
DeviceSpec ==
  /\ DeviceInit /\ [][DeviceNext]_deviceVars
  /\ WF_deviceVars(IrqPart(Bsp))
  /\ WF_deviceVars(IrqPart(Ap))
  /\ WF_deviceVars(IrqPart(Interrupt))
  /\ WF_deviceVars(MousePart(MO!MouseInit))
  /\ WF_deviceVars(MousePart(MO!Handlers))
  /\ WF_deviceVars(MousePart(MO!Controller))

----------------------------------------------------------------------------
(* The properties of Irq and Console have their own names. Those of the others *)
(* are for the behaviours that are theirs.                                     *)

\* When mouse_init returns, the mouse works, whatever keys are pressed, whenever
\* interrupts are taken and with whichever options. With prompt interrupts the
\* handlers then read every byte, and if no key is pressed before, mouse_init
\* does return.
MouseRight == part = "mouse" => MO!MouseRight

\* The text of dbg_x86_vgamem_putc wraps and scrolls, and does both at once,
\* without losing a character: the screen shows the last rows of it.
TextShows == part = "text" => TX!ScreenShows
=============================================================================
