------------------------------- MODULE MCIrq -------------------------------
(* Interrupts and printf, also in normal mode, where a key may be pressed while *)
(* the BSP prints.                                                           *)
EXTENDS Irq
=============================================================================
