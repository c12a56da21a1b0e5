------------------------------- MODULE MCNmi -------------------------------
(* The NMI test with SHV_NMI_INTR_PERIOD_5 and all experiments enabled.       *)
EXTENDS Nmi

AllExperiments == 1..30
=============================================================================
