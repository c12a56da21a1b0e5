------------------------------ MODULE MemType ------------------------------
(***************************************************************************)
(* ept_get_mem_type (shv-ept.c): the memory type of a page, from the copies  *)
(* of the MTRRs that shv_ept_init makes.                                    *)
(*                                                                         *)
(* Addresses are page numbers; for the masks of the variable MTRRs they are  *)
(* the sets of their bits, so that & is intersection.                       *)
(***************************************************************************)
EXTENDS Integers, Sequences

CONSTANTS
  Pages,         \* pages to ask for
  Bits,          \* bits of a page number
  AddressSpace,  \* number of pages of 64-bit addresses, 2^52
  VarMtrrs,      \* what the variable MTRRs may hold: sequences of VarMtrr
  Fixed,         \* what the fixed MTRRs may hold, functions of <<MTRR, byte>>
  DefaultTypes   \* default types to consider

Types == {"UC", "WC", "WT", "WP", "WB"}
VarMtrr == [valid : BOOLEAN, base : SUBSET Bits, mask : SUBSET Bits,
            type : Types]

ASSUME MemTypeAssumption ==
  /\ Pages \subseteq Nat
  /\ Bits \subseteq Nat
  /\ AddressSpace \in Nat \ {0}
  /\ AddressSpace % 128 = 0
  /\ \A s \in VarMtrrs : s \in Seq(VarMtrr)
  /\ DefaultTypes \subseteq Types
  /\ \A f \in Fixed : f \in [(1..11) \X (0..7) -> Types]

VARIABLES
  pc,           \* "start", "loop", "done" or "halted"
  page,         \* pagebaseaddr
  mtrrs,        \* vmx_guestmtrrmsrs.var_mtrrs, var_count long
  fixed,        \* vmx_guestmtrrmsrs.fix_mtrrs
  mtrr_enable, fixmtrr_enable, defaulttype,
  i,            \* next variable MTRR
  prev_type,
  result

inputs == <<page, mtrrs, fixed, mtrr_enable, fixmtrr_enable, defaulttype>>
vars == <<pc, inputs, i, prev_type, result>>

\* fixed_mtrr_prop, in pages.
Prop(start, step) == [start |-> start, step |-> step, end |-> start + 8 * step]
fixed_mtrr_prop ==
  [k \in 1..11 |-> IF k = 1 THEN Prop(0, 16)
                   ELSE IF k <= 3 THEN Prop(128 + 32 * (k - 2), 4)
                   ELSE Prop(192 + 8 * (k - 4), 1)]

\* The first MTRR that ends behind the page, and the byte of it that is taken.
\* The subtraction is one of 64-bit integers, and the shift by 8 * index takes
\* its count modulo 64 on both architectures.
FixedIndex(p) ==
  CHOOSE k \in 1..11 :
    /\ p < fixed_mtrr_prop[k].end
    /\ \A j \in 1..(k - 1) : p >= fixed_mtrr_prop[j].end
FixedByte(p) ==
  LET prop == fixed_mtrr_prop[FixedIndex(p)]
  IN (((prop.start + AddressSpace - p) % AddressSpace) \div prop.step) % 8

\* shv_ept_init reads the MSRs.
Init ==
  /\ pc = "start"
  /\ page \in Pages
  /\ mtrrs \in VarMtrrs
  /\ fixed \in Fixed
  /\ mtrr_enable \in BOOLEAN
  /\ fixmtrr_enable \in BOOLEAN
  /\ defaulttype \in DefaultTypes
  /\ i = 1
  /\ prev_type = "RESV"
  /\ result = "none"

Return(t) == pc' = "done" /\ result' = t

\* "If MTRRs not enabled, return UC".
NotEnabled ==
  /\ pc = "start"
  /\ ~ mtrr_enable
  /\ Return("UC")
  /\ UNCHANGED <<inputs, i, prev_type>>

\* "If fixed MTRRs are enabled, and addr < 1M, use them".
UsesFixed == mtrr_enable /\ page < 256 /\ fixmtrr_enable
FromFixed ==
  /\ pc = "start"
  /\ UsesFixed
  /\ Return(fixed[<<FixedIndex(page), FixedByte(page)>>])
  /\ UNCHANGED <<inputs, i, prev_type>>

EnterLoop ==
  /\ pc = "start"
  /\ mtrr_enable /\ ~ UsesFixed
  /\ pc' = "loop"
  /\ UNCHANGED <<inputs, i, prev_type, result>>

\* (pagebaseaddr & mask) == (base & mask); the mutant compares with base.
BitsOf(p) == {b \in Bits : (p \div (2 ^ b)) % 2 = 1}
InRangeUnmasked(m) == m.valid /\ BitsOf(page) \cap m.mask = m.base
InRange(m) == m.valid /\ BitsOf(page) \cap m.mask = m.base \cap m.mask

Skip ==
  /\ pc = "loop"
  /\ i <= Len(mtrrs)
  /\ ~ InRange(mtrrs[i])
  /\ i' = i + 1
  /\ UNCHANGED <<pc, inputs, prev_type, result>>

\* "UC + * = UC; WB + WT = WT"; "none" where the code halts.  The mutant knows
\* only one order of WB and WT.
CombineOneOrder(p, c) ==
  IF p = "RESV" \/ p = c THEN c
  ELSE IF p = "UC" \/ c = "UC" THEN "UC"
  ELSE IF p = "WB" /\ c = "WT" THEN "WT"
  ELSE "none"
Combine(p, c) ==
  IF p = "RESV" \/ p = c THEN c
  ELSE IF p = "UC" \/ c = "UC" THEN "UC"
  ELSE IF {p, c} = {"WB", "WT"} THEN "WT"
  ELSE "none"

Matching ==
  /\ pc = "loop"
  /\ i <= Len(mtrrs)
  /\ InRange(mtrrs[i])
  /\ LET t == Combine(prev_type, mtrrs[i].type)
     IN IF t = "none"
        THEN pc' = "halted" /\ UNCHANGED <<i, prev_type>>
        ELSE prev_type' = t /\ i' = i + 1 /\ UNCHANGED pc
  /\ UNCHANGED <<inputs, result>>

\* "If not covered by any MTRR, use default type".
Final == IF prev_type = "RESV" THEN defaulttype ELSE prev_type
LoopEnd ==
  /\ pc = "loop"
  /\ i > Len(mtrrs)
  /\ Return(Final)
  /\ UNCHANGED <<inputs, i, prev_type>>

Next ==
  NotEnabled \/ FromFixed \/ EnterLoop \/ Skip \/ Matching \/ LoopEnd

Spec == Init /\ [][Next]_vars
-----------------------------------------------------------------------------
(* Properties. *)

\* Every variable keeps its type.
TypeOK ==
  /\ pc \in {"start", "loop", "done", "halted"}
  /\ page \in Pages
  /\ mtrrs \in VarMtrrs
  /\ fixed \in Fixed
  /\ mtrr_enable \in BOOLEAN /\ fixmtrr_enable \in BOOLEAN
  /\ defaulttype \in DefaultTypes
  /\ i \in 1..(Len(mtrrs) + 1)
  /\ prev_type \in Types \cup {"RESV"}
  /\ result \in Types \cup {"none"}

\* A valid MTRR covers the page if it has the bits of base that mask selects.
Covers(m) ==
  m.valid /\ \A b \in m.mask : (b \in BitsOf(page)) <=> (b \in m.base)

\* The types of the variable MTRRs that cover the page, up to number n.
Covering(n) == {mtrrs[k].type : k \in {j \in 1..n : Covers(mtrrs[j])}}

\* The type ept_get_mem_type returns from the variable MTRRs does not depend on
\* their order: it is UC if one of them says so, WT if they say WT and WB, the
\* one they agree on, and the default type if there is none.
VariableType ==
  (pc = "done" /\ mtrr_enable /\ ~ UsesFixed) =>
    LET T == Covering(Len(mtrrs))
    IN \/ T = {} /\ result = defaulttype
       \/ T = {result}
       \/ "UC" \in T /\ result = "UC"
       \/ T = {"WB", "WT"} /\ result = "WT"

\* ept_get_mem_type halts only if two MTRRs really conflict: their types differ,
\* neither is UC, and they are not WB and WT.
HaltOnConflict ==
  pc = "halted" =>
    \E s, t \in Covering(Len(mtrrs)) \ {"UC"} : s # t /\ {s, t} # {"WB", "WT"}

\* Byte k of a fixed MTRR is for the pages from start + k * step on, "Size of
\* each range": the type that is returned is the one of the byte whose range
\* holds the page.
FixedType ==
  (pc = "done" /\ UsesFixed) =>
    \E k \in 1..11 : \E b \in 0..7 :
      /\ fixed_mtrr_prop[k].start + b * fixed_mtrr_prop[k].step <= page
      /\ page < fixed_mtrr_prop[k].start + (b + 1) * fixed_mtrr_prop[k].step
      /\ result = fixed[<<k, b>>]
=============================================================================
