------------------------------ MODULE MCGuest ------------------------------
(* All tests together and each group of them, with and without interrupts.   *)
EXTENDS Guest

None == [o \in {"msr", "no_if", "ept", "switch", "vpid", "unrestricted",
                "vmxoff", "large", "no_int", "bitmap", "mc", "x2apic"} |-> FALSE]
All == [o \in DOMAIN None |-> o \notin {"no_if", "no_int"}]

MCOptions ==
  {All, [All EXCEPT !.no_if = TRUE, !.mc = FALSE, !.x2apic = FALSE],
   [All EXCEPT !.no_int = TRUE],
   [None EXCEPT !.ept = TRUE], [None EXCEPT !.bitmap = TRUE]}
=============================================================================
