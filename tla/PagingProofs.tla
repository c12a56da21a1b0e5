----------------------------- MODULE PagingProofs -----------------------------
(***************************************************************************)
(* Proofs about what SHV writes into page tables.                           *)
(*                                                                         *)
(* The memory type that ept_get_mem_type computes from the variable MTRRs,   *)
(* for any number of them and any addresses.                                *)
(*                                                                         *)
(* The accessors of page map entries (hpt.c, hpto.c, bitfield.h) keep the    *)
(* fields of an entry apart, for all addresses, for every type and level of  *)
(* paging and for every order in which a client sets the fields.  Each field *)
(* has a set of bits.  A setter changes no other bits, a getter reads no     *)
(* other bits, and the bits of two fields, or of a field and of what the     *)
(* processor wants to be zero, never meet.  So the fields can be dealt with  *)
(* one at a time.                                                           *)
(***************************************************************************)
EXTENDS MemType, Hpt, FiniteSetTheorems, TLAPS

-----------------------------------------------------------------------------
(* The memory type. *)

\* The test of the code is the one of the property: & with mask on both sides
\* compares the bits that mask selects.
LEMMA RangeTest ==
  ASSUME NEW m \in VarMtrr
  PROVE  InRange(m) <=> Covers(m)
<1>1. m.mask \subseteq Bits /\ m.base \subseteq Bits
  BY DEF VarMtrr
<1>2. (BitsOf(page) \cap m.mask = m.base \cap m.mask)
        <=> \A b \in m.mask : (b \in BitsOf(page)) <=> (b \in m.base)
  OBVIOUS
<1> QED
  BY <1>2 DEF InRange, Covers

\* Some fixed MTRR ends behind every page below 1M, so the index that
\* ept_get_mem_type looks for exists ("Should be impossible because the last
\* entry in fixed_mtrr_prop is 1M").
LEMMA FixedFound ==
  ASSUME NEW p \in Nat, p < 256
  PROVE  FixedIndex(p) \in 1..11 /\ FixedByte(p) \in 0..7
<1> DEFINE P(k) == /\ p < fixed_mtrr_prop[k].end
                   /\ \A j \in 1..(k - 1) : p >= fixed_mtrr_prop[j].end
<1>1. /\ fixed_mtrr_prop[1].end = 128
      /\ fixed_mtrr_prop[2].end = 160
      /\ fixed_mtrr_prop[3].end = 192
      /\ \A k \in 4..11 : fixed_mtrr_prop[k].end = 200 + 8 * (k - 4)
  BY DEF fixed_mtrr_prop, Prop
<1>2. /\ \A k \in 1..11 : fixed_mtrr_prop[k].step \in {1, 4, 16}
      /\ \A k \in 1..11 : fixed_mtrr_prop[k].start \in Nat
  BY DEF fixed_mtrr_prop, Prop
<1>3. \E k \in 1..11 : P(k)
  <2>1. CASE p < 128
    <3>1. P(1)
      BY <1>1, <2>1
    <3> QED
      BY <3>1
  <2>2. CASE p >= 128 /\ p < 160
    <3>1. P(2)
      BY <1>1, <2>2
    <3> QED
      BY <3>1
  <2>3. CASE p >= 160 /\ p < 192
    <3>1. P(3)
      BY <1>1, <2>3
    <3> QED
      BY <3>1
  <2>4. CASE p >= 192
    <3>1. PICK k \in 4..11 : 192 + 8 * (k - 4) <= p /\ p < 200 + 8 * (k - 4)
      BY <2>4
    <3>2. P(k)
      BY <1>1, <2>4, <3>1
    <3> QED
      BY <3>2
  <2> QED
    BY <2>1, <2>2, <2>3, <2>4
<1>4. FixedIndex(p) \in 1..11
  BY <1>3 DEF FixedIndex
<1>5. FixedByte(p) \in 0..7
  <2> DEFINE q == fixed_mtrr_prop[FixedIndex(p)]
             d == (q.start + AddressSpace - p) % AddressSpace
  <2>1. q.step \in {1, 4, 16} /\ q.start \in Nat
    BY <1>2, <1>4
  <2>2. q.start + AddressSpace - p \in Int /\ AddressSpace \in Nat \ {0}
    BY <2>1, MemTypeAssumption
  <2>3. d \in Nat
    <3> HIDE DEF q
    <3> QED
      BY <2>2
  <2>4. d \div q.step \in Int
    <3> HIDE DEF q, d
    <3> QED
      BY <2>1, <2>3
  <2>5. (d \div q.step) % 8 \in 0..7
    <3> HIDE DEF q, d
    <3> QED
      BY <2>4
  <2> QED
    BY <2>5 DEF FixedByte
<1> QED
  BY <1>4, <1>5

-----------------------------------------------------------------------------
\* The invariant of the loop: prev_type is the type that the MTRRs seen so far
\* give the page.
Combined(T, y) ==
  \/ T = {} /\ y = "RESV"
  \/ T = {y}
  \/ "UC" \in T /\ y = "UC"
  \/ T = {"WB", "WT"} /\ y = "WT"

LoopInv ==
  /\ pc = "start" => i = 1 /\ prev_type = "RESV"
  /\ pc = "loop" => Combined(Covering(i - 1), prev_type)

IInv == TypeOK /\ LoopInv /\ VariableType /\ HaltOnConflict

\* Facts of the type invariant that the steps need.
LEMMA Elements ==
  ASSUME TypeOK, NEW k \in 1..Len(mtrrs)
  PROVE  /\ mtrrs \in Seq(VarMtrr) /\ Len(mtrrs) \in Nat
         /\ mtrrs[k] \in VarMtrr /\ mtrrs[k].type \in Types
<1>1. mtrrs \in Seq(VarMtrr)
  BY MemTypeAssumption DEF TypeOK
<1>2. Len(mtrrs) \in Nat
  BY <1>1
<1>3. mtrrs[k] \in VarMtrr
  BY <1>1
<1>4. mtrrs[k].type \in Types
  BY <1>3 DEF VarMtrr
<1> QED
  BY <1>1, <1>2, <1>3, <1>4

LEMMA LenNat == ASSUME TypeOK PROVE Len(mtrrs) \in Nat
  BY MemTypeAssumption DEF TypeOK

\* One more MTRR: its type joins the covering ones if it covers the page.
LEMMA CoveringNext ==
  ASSUME TypeOK, i <= Len(mtrrs)
  PROVE  /\ Covers(mtrrs[i]) => Covering(i) = Covering(i - 1) \cup {mtrrs[i].type}
         /\ ~ Covers(mtrrs[i]) => Covering(i) = Covering(i - 1)
         /\ Covering(i) \subseteq Covering(Len(mtrrs))
<1>1. i \in Nat /\ Len(mtrrs) \in Nat /\ 1 <= i
  BY LenNat DEF TypeOK
<1>2. 1..i = (1..(i - 1)) \cup {i}
  BY <1>1
<1>3. 1..i \subseteq 1..Len(mtrrs)
  BY <1>1
<1> QED
  BY <1>2, <1>3 DEF Covering

-----------------------------------------------------------------------------
LEMMA InitMemTypeInv == Init => IInv
<1> SUFFICES ASSUME Init PROVE IInv
  OBVIOUS
<1>1. Len(mtrrs) \in Nat
  BY MemTypeAssumption DEF Init
<1>2. TypeOK
  BY <1>1 DEF Init, TypeOK
<1> QED
  BY <1>2 DEF Init, IInv, LoopInv, VariableType, HaltOnConflict

\* Every step keeps the invariant: Skip and Matching move the loop on, LoopEnd
\* turns what the loop knows into the result.
LEMMA NextMemTypeInv == IInv /\ [Next]_vars => IInv'
<1> SUFFICES ASSUME IInv, [Next]_vars PROVE IInv'
  OBVIOUS
<1> USE DEF IInv
<1>0. Len(mtrrs) \in Nat /\ i \in Nat
  BY LenNat DEF TypeOK
<1>1. CASE NotEnabled
  <2>1. TypeOK'
    BY <1>1 DEF NotEnabled, Return, TypeOK, inputs, Types
  <2> QED
    BY <1>1, <2>1 DEF NotEnabled, Return, LoopInv, VariableType,
       HaltOnConflict, UsesFixed, inputs
<1>2. CASE FromFixed
  <2>1. page \in Nat /\ page < 256
    BY <1>2, MemTypeAssumption DEF FromFixed, UsesFixed, TypeOK
  <2>2. fixed[<<FixedIndex(page), FixedByte(page)>>] \in Types
    <3>1. FixedIndex(page) \in 1..11 /\ FixedByte(page) \in 0..7
      BY <2>1, FixedFound
    <3>2. fixed \in [(1..11) \X (0..7) -> Types]
      BY MemTypeAssumption DEF TypeOK
    <3> QED
      BY <3>1, <3>2
  <2>3. TypeOK'
    BY <1>2, <2>2 DEF FromFixed, Return, TypeOK, inputs
  <2> QED
    BY <1>2, <2>3 DEF FromFixed, Return, LoopInv, VariableType,
       HaltOnConflict, UsesFixed, inputs
<1>3. CASE EnterLoop
  <2>1. TypeOK'
    BY <1>3 DEF EnterLoop, TypeOK, inputs
  <2>2. Covering(0) = {}
    BY DEF Covering
  <2>3. Covering(i - 1)' = {}
    BY <1>3, <2>2 DEF EnterLoop, LoopInv, inputs, Covering
  <2>4. LoopInv'
    BY <1>3, <2>3 DEF EnterLoop, LoopInv, Combined, inputs
  <2> QED
    BY <1>3, <2>1, <2>4 DEF EnterLoop, VariableType, HaltOnConflict
<1>4. CASE Skip
  <2>1. TypeOK'
    BY <1>0, <1>4 DEF Skip, TypeOK, inputs
  <2>2. ~ Covers(mtrrs[i])
    BY <1>4, RangeTest, Elements DEF Skip, TypeOK
  <2>3. Covering(i - 1)' = Covering(i - 1)
    <3>1. (i - 1)' = i
      BY <1>0, <1>4 DEF Skip
    <3>2. Covering(i)= Covering(i - 1)
      BY <1>4, <2>2, CoveringNext DEF Skip
    <3>3. Covering(i - 1)' = Covering(i)
      BY <1>4, <3>1 DEF Skip, Covering, Covers, BitsOf, inputs
    <3> QED
      BY <3>2, <3>3
  <2>4. LoopInv'
    BY <1>4, <2>3 DEF Skip, LoopInv, Combined, inputs
  <2> QED
    BY <1>4, <2>1, <2>4 DEF Skip, VariableType, HaltOnConflict
<1>5. CASE Matching
  <2> DEFINE c == mtrrs[i].type
             T == Covering(i - 1)
  <2>1. c \in Types /\ i \in 1..Len(mtrrs)
    BY <1>0, <1>5, Elements DEF Matching, TypeOK
  <2>2. Covers(mtrrs[i])
    BY <1>5, <2>1, RangeTest, Elements DEF Matching
  <2>3. Covering(i) = T \cup {c} /\ Covering(i) \subseteq Covering(Len(mtrrs))
    BY <1>5, <2>2, CoveringNext DEF Matching
  <2>4. Combined(T, prev_type)
    BY <1>5 DEF Matching, LoopInv
  <2>5. "RESV" \notin T
    BY <1>0, <2>1, Elements DEF Covering, Types
  <2>6. CASE Combine(prev_type, c) = "none"
    <3>1. /\ prev_type # "RESV" /\ prev_type # c
          /\ prev_type # "UC" /\ c # "UC" /\ {prev_type, c} # {"WB", "WT"}
      BY <2>1, <2>6 DEF Combine, Types
    <3>2. prev_type \in T
      BY <2>4, <3>1 DEF Combined
    <3>3. pc' = "halted" /\ UNCHANGED <<i, prev_type, inputs, result>>
      BY <1>5, <2>6 DEF Matching
    <3>5. Covering(Len(mtrrs))' = Covering(Len(mtrrs))
      BY <3>3 DEF inputs, Covering, Covers, BitsOf
    <3>6. \E s, u \in Covering(Len(mtrrs)) \ {"UC"} :
            s # u /\ {s, u} # {"WB", "WT"}
      BY <2>3, <3>1, <3>2
    <3>7. HaltOnConflict'
      BY <3>5, <3>6 DEF HaltOnConflict
    <3>8. TypeOK'
      BY <3>3 DEF TypeOK, inputs
    <3> QED
      BY <3>3, <3>7, <3>8 DEF LoopInv, VariableType
  <2>7. CASE Combine(prev_type, c) # "none"
    <3>1. /\ pc' = "loop" /\ i' = i + 1 /\ UNCHANGED <<inputs, result>>
          /\ prev_type' = Combine(prev_type, c)
      BY <1>5, <2>7 DEF Matching
    <3>2. Combine(prev_type, c) \in Types
      BY <2>1, <2>7 DEF Combine, Types, TypeOK
    <3>3. TypeOK'
      BY <2>1, <3>1, <3>2, <1>0 DEF TypeOK, inputs
    <3>4. Covering(i - 1)' = T \cup {c}
      <4>1. (i - 1)' = i
        BY <1>0, <3>1
      <4> QED
        BY <2>3, <3>1, <4>1 DEF inputs, Covering, Covers, BitsOf
    <3>5. Combined(T \cup {c}, Combine(prev_type, c))
      <4> HIDE DEF T, c
      <4>1. CASE T = {} /\ prev_type = "RESV"
        BY <4>1 DEF Combined, Combine
      <4>2. CASE T = {prev_type} /\ prev_type # "RESV"
        <5>1. CASE prev_type = c
          BY <4>2, <5>1 DEF Combined, Combine
        <5>2. CASE prev_type # c /\ (prev_type = "UC" \/ c = "UC")
          BY <4>2, <5>2 DEF Combined, Combine
        <5>3. CASE prev_type # c /\ prev_type # "UC" /\ c # "UC"
          BY <2>7, <4>2, <5>3 DEF Combined, Combine
        <5> QED
          BY <5>1, <5>2, <5>3
      <4>3. CASE "UC" \in T /\ prev_type = "UC"
        BY <4>3 DEF Combined, Combine
      <4>4. CASE T = {"WB", "WT"} /\ prev_type = "WT"
        <5>1. CASE c = "WB" \/ c = "WT"
          BY <4>4, <5>1 DEF Combined, Combine
        <5>2. CASE c = "UC"
          BY <4>4, <5>2 DEF Combined, Combine
        <5>3. CASE c \notin {"WB", "WT", "UC"}
          <6>1. {prev_type, c} # {"WB", "WT"}
            BY <4>4, <5>3
          <6> QED
            BY <2>7, <4>4, <5>3, <6>1 DEF Combine
        <5> QED
          BY <5>1, <5>2, <5>3
      <4>5. CASE T = {prev_type} /\ prev_type = "RESV"
        BY <2>5, <4>5
      <4> QED
        BY <2>4, <4>1, <4>2, <4>3, <4>4, <4>5 DEF Combined
    <3> QED
      BY <3>1, <3>3, <3>4, <3>5 DEF LoopInv, Combined, VariableType,
         HaltOnConflict
  <2> QED
    BY <2>6, <2>7
<1>6. CASE LoopEnd
  <2>1. i - 1 = Len(mtrrs)
    BY <1>0, <1>6 DEF LoopEnd, TypeOK
  <2>2. Combined(Covering(Len(mtrrs)), prev_type)
    BY <1>6, <2>1 DEF LoopEnd, LoopInv
  <2>3. /\ pc' = "done" /\ result' = Final
        /\ UNCHANGED <<inputs, i, prev_type>>
    BY <1>6 DEF LoopEnd, Return
  <2>4. Final \in Types
    BY MemTypeAssumption DEF Final, TypeOK
  <2>5. TypeOK'
    BY <2>3, <2>4 DEF TypeOK, inputs
  <2>6. Covering(Len(mtrrs))' = Covering(Len(mtrrs))
    BY <2>3 DEF inputs, Covering, Covers, BitsOf
  <2>7. "RESV" \notin Covering(Len(mtrrs))
    BY Elements DEF Covering, Types
  <2>8. VariableType'
    BY <2>2, <2>3, <2>6, <2>7 DEF VariableType, Combined, Final, inputs
  <2> QED
    BY <2>3, <2>5, <2>8 DEF LoopInv, HaltOnConflict
<1>7. CASE UNCHANGED vars
  <2>1. TypeOK'
    BY <1>7 DEF vars, inputs, TypeOK
  <2>2. /\ Covering(i - 1)' = Covering(i - 1)
        /\ Covering(Len(mtrrs))' = Covering(Len(mtrrs))
    BY <1>7 DEF vars, inputs, Covering, Covers, BitsOf
  <2>3. LoopInv'
    BY <1>7, <2>2 DEF vars, inputs, LoopInv, Combined
  <2>4. VariableType' /\ HaltOnConflict'
    BY <1>7, <2>2 DEF vars, inputs, VariableType, HaltOnConflict, UsesFixed
  <2> QED
    BY <2>1, <2>3, <2>4
<1> QED
  BY <1>1, <1>2, <1>3, <1>4, <1>5, <1>6, <1>7 DEF Next

\* For any number of variable MTRRs, any addresses and any order: the type
\* ept_get_mem_type returns from them is UC if one covering MTRR says so, WT for
\* WB and WT, the common type, or the default.
THEOREM VariableTypeCorrect == Spec => []VariableType
<1>1. IInv => VariableType
  BY DEF IInv
<1> QED
  BY <1>1, InitMemTypeInv, NextMemTypeInv, PTL DEF Spec

\* ept_get_mem_type halts only if two covering variable MTRRs conflict, however
\* many there are: their types differ, neither is UC, and they are not WB and WT.
THEOREM HaltsOnlyOnConflict == Spec => []HaltOnConflict
<1>1. IInv => HaltOnConflict
  BY DEF IInv
<1> QED
  BY <1>1, InitMemTypeInv, NextMemTypeInv, PTL DEF Spec

-----------------------------------------------------------------------------
(* Page map entries. *)

\* The levels of the types of paging.
Level(ty, l) == ty \in HPT_TYPES /\ l \in 1..hpt_type_max_lvl[ty]

\* The bits of the fields; leaf says whether the entry is a page.
PageBits(ty, l) == IF HasPs(ty, l) THEN {7} ELSE {}
AddressBits(ty, l, leaf) ==
  IF ty = "NORM" THEN IF l = 2 /\ leaf THEN 22..31 ELSE 12..31
  ELSE IF l > 1 /\ ty # "EPT" /\ leaf THEN 13..51 ELSE 12..51
ProtBits(ty, l) ==
  IF ty = "EPT" THEN {0, 1, 2}
  ELSE {0} \cup (IF ty = "PAE" /\ l = 3 THEN {} ELSE {1})
           \cup (IF HasNx(ty, l) THEN {63} ELSE {})
UserBits(ty, l) == IF HasUser(ty, l) THEN {2} ELSE {}
CacheBits(ty, l, leaf) ==
  IF ty = "EPT" THEN {3, 4, 5}
  ELSE {3, 4} \cup (IF leaf THEN {Pat(l)} ELSE {})
UnusedBits == {9, 10, 11}
Unused(e) == {b - 9 : b \in e \cap UnusedBits}

\* The bits of an entry as it is stored in a page map.
EntryBits(ty) == IF ty = "NORM" THEN 0..31 ELSE 0..63

\* What is proved of an entry e whose fields were set to these values.
Means(ty, l, e, leaf, addr, prot, user, pmt, unused) ==
  /\ e \subseteq EntryBits(ty)
  /\ hpt_pme_is_page(ty, l, e) = leaf
  /\ e \cap AddressBits(ty, l, leaf) = addr
  /\ hpt_pme_getprot(ty, l, e) = prot
  /\ hpt_pme_getuser(ty, l, e) = user
  /\ (ty = "EPT" => leaf) => hpt_pme_get_pmt(ty, l, e) = pmt
  /\ Unused(e) = unused
  /\ e \cap Mbz(ty, l, leaf) = {}

----------------------------------------------------------------------------
(* Levels and bits. *)

\* The types and their levels, one by one.
LEMMA Levels ==
  ASSUME NEW ty, NEW l, Level(ty, l)
  PROVE  \/ ty = "NORM" /\ l \in {1, 2}
         \/ ty = "PAE" /\ l \in {1, 2, 3}
         \/ ty = "LONG" /\ l \in {1, 2, 3, 4}
         \/ ty = "EPT" /\ l \in {1, 2, 3, 4}
  BY DEF Level, HPT_TYPES, hpt_type_max_lvl

\* BR64_COPY_BITS_HL without an offset.
LEMMA CopyBits ==
  ASSUME NEW dst, NEW src \in SUBSET Int, NEW hi \in Int, NEW lo \in Int
  PROVE  BR64_COPY_BITS_HL(dst, src, hi, lo, 0) = (dst \ (lo..hi)) \cup (src \cap (lo..hi))
<1>1. lo + 0 = lo /\ hi + 0 = hi
  OBVIOUS
<1>2. {b + 0 : b \in src \cap (lo..hi)} = src \cap (lo..hi)
  OBVIOUS
<1> QED
  BY <1>1, <1>2 DEF BR64_COPY_BITS_HL

\* The bits of an entry are numbers.
LEMMA EntryBitsAreInt == ASSUME NEW ty PROVE EntryBits(ty) \subseteq 0..63 /\ EntryBits(ty) \subseteq Int
  BY DEF EntryBits

\* Where the address of an entry is, unless it is that of a 4 MB page.
LEMMA AddressRange ==
  ASSUME NEW ty, NEW l, Level(ty, l), NEW e, NEW leaf \in BOOLEAN,
         hpt_pme_is_page(ty, l, e) = leaf, ~IsPse(ty, l, e)
  PROVE  AddressLo(ty, l, e)..AddressHi(ty) = AddressBits(ty, l, leaf)
<1>1. CASE ty = "NORM"
  <2>1. AddressLo(ty, l, e) = 12 /\ AddressHi(ty) = 31
    BY <1>1 DEF AddressLo, AddressHi
  <2>2. ~(l = 2 /\ leaf)
    BY <1>1 DEF IsPse
  <2> QED
    BY <1>1, <2>1, <2>2 DEF AddressBits
<1>2. CASE ty = "EPT"
  <2>1. AddressLo(ty, l, e) = 12 /\ AddressHi(ty) = 51
    BY <1>2 DEF AddressLo, AddressHi
  <2> QED
    BY <1>2, <2>1 DEF AddressBits
<1>3. CASE ty \in {"PAE", "LONG"}
  <2>1. AddressLo(ty, l, e) = (IF l > 1 /\ leaf THEN 13 ELSE 12) /\ AddressHi(ty) = 51
    BY <1>3 DEF AddressLo, AddressHi
  <2> QED
    BY <1>3, <2>1 DEF AddressBits
<1> QED
  BY <1>1, <1>2, <1>3 DEF Level, HPT_TYPES

\* hpt_pme_get_address returns the bits of the address.
LEMMA GetAddress ==
  ASSUME NEW ty, NEW l, Level(ty, l), NEW e \in SUBSET EntryBits(ty),
         NEW leaf \in BOOLEAN, hpt_pme_is_page(ty, l, e) = leaf
  PROVE  hpt_pme_get_address(ty, l, e) = e \cap AddressBits(ty, l, leaf)
<1>0. e \in SUBSET Int
  BY EntryBitsAreInt
<1>1. CASE IsPse(ty, l, e)
  <2>1. ty = "NORM" /\ l = 2 /\ leaf = TRUE
    BY <1>1 DEF IsPse
  <2>2. \A b \in e : b \in 0..31
    BY <2>1 DEF EntryBits
  <2>3. e \cap (32..39) = {}
    BY <2>2
  <2>4. BR64_COPY_BITS_HL({}, e, 39, 32, 32 - 13) = {}
    BY <2>3 DEF BR64_COPY_BITS_HL
  <2>5. BR64_COPY_BITS_HL({}, e, 31, 22, 22 - 22) = e \cap (22..31)
    BY <1>0, CopyBits, 22 - 22 = 0
  <2> QED
    BY <1>1, <2>1, <2>4, <2>5 DEF hpt_pme_get_address, AddressBits
<1>2. CASE ~IsPse(ty, l, e)
  <2>1. AddressHi(ty) \in Int /\ AddressLo(ty, l, e) \in Int
    BY DEF AddressHi, AddressLo
  <2>2. AddressLo(ty, l, e)..AddressHi(ty) = AddressBits(ty, l, leaf)
    BY <1>2, AddressRange
  <2>3. hpt_pme_get_address(ty, l, e) = {} \cup (e \cap (AddressLo(ty, l, e)..AddressHi(ty)))
    BY <1>0, <1>2, <2>1, CopyBits DEF hpt_pme_get_address
  <2> QED
    BY <2>2, <2>3
<1> QED
  BY <1>1, <1>2

\* hpt_pme_set_address changes the bits of the address and no others.
LEMMA PutAddress ==
  ASSUME NEW ty, NEW l, Level(ty, l), NEW e \in SUBSET EntryBits(ty),
         NEW leaf \in BOOLEAN, hpt_pme_is_page(ty, l, e) = leaf,
         NEW a \in SUBSET Int
  PROVE  hpt_pme_set_address(ty, l, e, a) =
           (e \ AddressBits(ty, l, leaf)) \cup (a \cap AddressBits(ty, l, leaf))
<1>1. CASE IsPse(ty, l, e)
  <2>1. ty = "NORM" /\ l = 2 /\ leaf = TRUE
    BY <1>1 DEF IsPse
  <2>2. BR64_COPY_BITS_HL(e, a, 31, 22, 22 - 22) = (e \ (22..31)) \cup (a \cap (22..31))
    BY CopyBits, 22 - 22 = 0
  <2> QED
    BY <1>1, <2>1, <2>2 DEF hpt_pme_set_address, AddressBits
<1>2. CASE ~IsPse(ty, l, e)
  <2>1. AddressHi(ty) \in Int /\ AddressLo(ty, l, e) \in Int
    BY DEF AddressHi, AddressLo
  <2>2. AddressLo(ty, l, e)..AddressHi(ty) = AddressBits(ty, l, leaf)
    BY <1>2, AddressRange
  <2> QED
    BY <1>2, <2>1, <2>2, CopyBits DEF hpt_pme_set_address
<1> QED
  BY <1>1, <1>2

----------------------------------------------------------------------------
(* A getter reads the bits of its field only. *)

\* Two entries have the same bits of the set bits.
Agree(d, e, bits) == \A b \in bits : b \in d <=> b \in e

\* hpt_pme_is_page
LEMMA PageReads ==
  ASSUME NEW ty, NEW l, Level(ty, l), NEW d, NEW e, Agree(d, e, PageBits(ty, l))
  PROVE  hpt_pme_is_page(ty, l, d) = hpt_pme_is_page(ty, l, e)
  BY DEF Agree, PageBits, hpt_pme_is_page, BR64_GET_BIT

\* hpt_pme_getuser
LEMMA UserReads ==
  ASSUME NEW ty, NEW l, Level(ty, l), NEW d, NEW e, Agree(d, e, UserBits(ty, l))
  PROVE  hpt_pme_getuser(ty, l, d) = hpt_pme_getuser(ty, l, e)
  BY DEF Agree, UserBits, hpt_pme_getuser, BR64_GET_BIT

\* hpt_pme_getprot
LEMMA ProtReads ==
  ASSUME NEW ty, NEW l, Level(ty, l), NEW d, NEW e, Agree(d, e, ProtBits(ty, l))
  PROVE  hpt_pme_getprot(ty, l, d) = hpt_pme_getprot(ty, l, e)
<1>1. (0 \in d <=> 0 \in e)
  BY DEF Agree, ProtBits
<1>2. ~(ty = "PAE" /\ l = 3) => (1 \in d <=> 1 \in e)
  BY DEF Agree, ProtBits
<1>3. ty = "EPT" => (2 \in d <=> 2 \in e)
  BY DEF Agree, ProtBits
<1>4. ty # "EPT" /\ HasNx(ty, l) => (63 \in d <=> 63 \in e)
  BY DEF Agree, ProtBits
<1> QED
  BY <1>1, <1>2, <1>3, <1>4, Zenon DEF hpt_pme_getprot, BR64_GET_BIT

\* hpt_pme_get_pmt
LEMMA CacheReads ==
  ASSUME NEW ty, NEW l, Level(ty, l), NEW d, NEW e, NEW leaf,
         Agree(d, e, CacheBits(ty, l, leaf))
  PROVE  hpt_pme_get_pmt(ty, l, d) = hpt_pme_get_pmt(ty, l, e)
<1>1. CASE ty = "EPT"
  <2>1. \A b \in 3..5 : b \in d <=> b \in e
    BY <1>1 DEF Agree, CacheBits
  <2>2. d \cap (3..5) = e \cap (3..5)
    BY <2>1
  <2> QED
    BY <1>1, <2>2 DEF hpt_pme_get_pmt, BR64_GET_HL
<1>2. CASE ty # "EPT"
  <2>1. (3 \in d <=> 3 \in e) /\ (4 \in d <=> 4 \in e)
    BY <1>2 DEF Agree, CacheBits
  <2> QED
    BY <1>2, <2>1 DEF hpt_pme_get_pmt, BR64_GET_BIT, hpt_pme_get_pcd, hpt_pme_get_pwt
<1> QED
  BY <1>1, <1>2

----------------------------------------------------------------------------
(* The fields never meet. *)

\* Entries of level 1 are pages, and others if they have a bit to say so.
PageFits(ty, l, leaf) == (l = 1 => leaf) /\ (leaf => l = 1 \/ HasPs(ty, l))

\* hpt_pme_is_page says so.
LEMMA PageIsFit ==
  ASSUME NEW ty, NEW l, NEW e PROVE PageFits(ty, l, hpt_pme_is_page(ty, l, e))
  BY DEF PageFits, hpt_pme_is_page

Meet(d, e) == \E b \in d : b \in e

\* The bits of the address and those of the other fields.
LEMMA AddressApart ==
  ASSUME NEW ty, NEW l, Level(ty, l), NEW leaf \in BOOLEAN, PageFits(ty, l, leaf)
  PROVE  /\ ~Meet(AddressBits(ty, l, leaf), PageBits(ty, l))
         /\ ~Meet(AddressBits(ty, l, leaf), ProtBits(ty, l))
         /\ ~Meet(AddressBits(ty, l, leaf), UserBits(ty, l))
         /\ ~Meet(AddressBits(ty, l, leaf), CacheBits(ty, l, leaf))
         /\ ~Meet(AddressBits(ty, l, leaf), UnusedBits)
         /\ ~Meet(AddressBits(ty, l, leaf), Mbz(ty, l, leaf))
<1>1. AddressBits(ty, l, leaf) \subseteq 12..51
  BY DEF AddressBits
<1>2. /\ PageBits(ty, l) \subseteq {7} /\ UserBits(ty, l) \subseteq {2}
      /\ ProtBits(ty, l) \subseteq {0, 1, 2, 63}
  BY DEF PageBits, ProtBits, UserBits
<1>3. ~Meet(AddressBits(ty, l, leaf), CacheBits(ty, l, leaf))
  <2>1. CASE ty = "EPT" \/ ~leaf \/ l = 1
    <3>1. CacheBits(ty, l, leaf) \subseteq {3, 4, 5, 7}
      BY <2>1 DEF CacheBits, Pat
    <3> QED
      BY <1>1, <3>1 DEF Meet
  <2>2. CASE ty # "EPT" /\ leaf /\ l # 1
    <3>1. CacheBits(ty, l, leaf) = {3, 4, 12}
      BY <2>2 DEF CacheBits, Pat
    <3>2. AddressBits(ty, l, leaf) \subseteq 13..51
      BY <2>2, Levels DEF AddressBits, PageFits, HasPs
    <3> QED
      BY <3>1, <3>2 DEF Meet
  <2> QED
    BY <2>1, <2>2
<1>4. ~Meet(AddressBits(ty, l, leaf), Mbz(ty, l, leaf))
  <2>1. CASE ty = "NORM"
    BY <2>1 DEF Meet, AddressBits, Mbz
  <2>2. CASE ty = "PAE"
    <3>1. Mbz(ty, l, leaf) \subseteq (52..63) \cup (1..8)
      BY <2>2 DEF Mbz
    <3> QED
      BY <1>1, <3>1 DEF Meet
  <2>3. CASE ty = "LONG"
    BY <1>1, <2>3 DEF Meet, Mbz
  <2>4. CASE ty = "EPT"
    <3>1. Mbz(ty, l, leaf) \subseteq 3..7
      BY <2>4 DEF Mbz
    <3> QED
      BY <1>1, <3>1 DEF Meet
  <2> QED
    BY <2>1, <2>2, <2>3, <2>4 DEF Level, HPT_TYPES
<1>5. ~Meet(AddressBits(ty, l, leaf), UnusedBits)
  BY <1>1 DEF Meet, UnusedBits
<1> QED
  BY <1>1, <1>2, <1>3, <1>4, <1>5 DEF Meet

\* The bits of the protection and of the user bit, and those of the others.
LEMMA ProtApart ==
  ASSUME NEW ty, NEW l, Level(ty, l), NEW leaf \in BOOLEAN, PageFits(ty, l, leaf)
  PROVE  /\ ~Meet(ProtBits(ty, l), PageBits(ty, l))
         /\ ~Meet(ProtBits(ty, l), AddressBits(ty, l, leaf))
         /\ ~Meet(ProtBits(ty, l), UserBits(ty, l))
         /\ ~Meet(ProtBits(ty, l), CacheBits(ty, l, leaf))
         /\ ~Meet(ProtBits(ty, l), UnusedBits)
         /\ ~Meet(ProtBits(ty, l), Mbz(ty, l, leaf))
<1>1. ProtBits(ty, l) \subseteq {0, 1, 2, 63}
  BY DEF ProtBits
<1>2. PageBits(ty, l) \subseteq {7} /\ CacheBits(ty, l, leaf) \subseteq {3, 4, 5, 7, 12}
  BY DEF PageBits, CacheBits, Pat
<1>3. ~Meet(ProtBits(ty, l), UserBits(ty, l))
  BY DEF Meet, ProtBits, UserBits, HasUser
<1>4. ~Meet(ProtBits(ty, l), Mbz(ty, l, leaf))
  <2>1. CASE ty = "NORM"
    BY <2>1, <1>1 DEF Meet, Mbz
  <2>2. CASE ty = "PAE" /\ l = 3
    <3>1. ProtBits(ty, l) = {0}
      BY <2>2 DEF ProtBits, HasNx
    <3>2. Mbz(ty, l, leaf) = (52..62) \cup ({63} \cup (5..8) \cup (1..2))
      BY <2>2 DEF Mbz
    <3> QED
      BY <3>1, <3>2 DEF Meet
  <2>3. CASE ty = "PAE" /\ l # 3
    <3>1. Mbz(ty, l, leaf) = 52..62
      BY <2>3 DEF Mbz
    <3> QED
      BY <1>1, <3>1 DEF Meet
  <2>4. CASE ty = "LONG"
    BY <2>4, <1>1 DEF Meet, Mbz
  <2>5. CASE ty = "EPT"
    <3>1. Mbz(ty, l, leaf) \subseteq 3..7
      BY <2>5 DEF Mbz
    <3> QED
      BY <1>1, <3>1 DEF Meet
  <2> QED
    BY <2>1, <2>2, <2>3, <2>4, <2>5 DEF Level, HPT_TYPES
<1>5. ~Meet(ProtBits(ty, l), AddressBits(ty, l, leaf))
  BY AddressApart DEF Meet
<1> QED
  BY <1>1, <1>2, <1>3, <1>4, <1>5 DEF Meet, UnusedBits

\* The user bit and the bits of the others.
LEMMA UserApart ==
  ASSUME NEW ty, NEW l, Level(ty, l), NEW leaf \in BOOLEAN, PageFits(ty, l, leaf)
  PROVE  /\ ~Meet(UserBits(ty, l), PageBits(ty, l))
         /\ ~Meet(UserBits(ty, l), AddressBits(ty, l, leaf))
         /\ ~Meet(UserBits(ty, l), ProtBits(ty, l))
         /\ ~Meet(UserBits(ty, l), CacheBits(ty, l, leaf))
         /\ ~Meet(UserBits(ty, l), UnusedBits)
         /\ ~Meet(UserBits(ty, l), Mbz(ty, l, leaf))
<1>1. UserBits(ty, l) \subseteq {2}
  BY DEF UserBits
<1>2. PageBits(ty, l) \subseteq {7} /\ CacheBits(ty, l, leaf) \subseteq {3, 4, 5, 7, 12}
  BY DEF PageBits, CacheBits, Pat
<1>3. ~Meet(UserBits(ty, l), Mbz(ty, l, leaf))
  <2>1. CASE HasUser(ty, l)
    <3>1. 2 \notin Mbz(ty, l, leaf)
      BY <2>1 DEF HasUser, Mbz
    <3> QED
      BY <1>1, <3>1 DEF Meet
  <2> QED
    BY <2>1 DEF UserBits, Meet
<1> QED
  BY <1>1, <1>2, <1>3, AddressApart, ProtApart DEF Meet, UnusedBits

\* The bits of the memory type and those of the others. An EPT entry that is
\* no page has no memory type.
LEMMA CacheApart ==
  ASSUME NEW ty, NEW l, Level(ty, l), NEW leaf \in BOOLEAN, PageFits(ty, l, leaf)
  PROVE  /\ ~Meet(CacheBits(ty, l, leaf), PageBits(ty, l))
         /\ ~Meet(CacheBits(ty, l, leaf), AddressBits(ty, l, leaf))
         /\ ~Meet(CacheBits(ty, l, leaf), ProtBits(ty, l))
         /\ ~Meet(CacheBits(ty, l, leaf), UserBits(ty, l))
         /\ ~Meet(CacheBits(ty, l, leaf), UnusedBits)
         /\ (ty = "EPT" => leaf) => ~Meet(CacheBits(ty, l, leaf), Mbz(ty, l, leaf))
<1>1. CacheBits(ty, l, leaf) \subseteq {3, 4, 5, 7, 12}
  BY DEF CacheBits, Pat
<1>2. ~Meet(CacheBits(ty, l, leaf), PageBits(ty, l))
  <2>1. CASE HasPs(ty, l)
    <3>1. l # 1
      BY <2>1 DEF HasPs
    <3>2. CacheBits(ty, l, leaf) \subseteq {3, 4, 5, 12}
      BY <3>1 DEF CacheBits, Pat
    <3> QED
      BY <3>2 DEF Meet, PageBits
  <2> QED
    BY <2>1 DEF Meet, PageBits
<1>3. (ty = "EPT" => leaf) => ~Meet(CacheBits(ty, l, leaf), Mbz(ty, l, leaf))
  <2>1. CASE ty = "NORM"
    BY <2>1, <1>1 DEF Meet, Mbz
  <2>2. CASE ty = "PAE" /\ l = 3
    <3>1. CacheBits(ty, l, leaf) = {3, 4}
      BY <2>2 DEF CacheBits, PageFits, HasPs
    <3>2. Mbz(ty, l, leaf) = (52..62) \cup ({63} \cup (5..8) \cup (1..2))
      BY <2>2 DEF Mbz
    <3> QED
      BY <3>1, <3>2 DEF Meet
  <2>3. CASE ty = "PAE" /\ l # 3
    <3>1. Mbz(ty, l, leaf) = 52..62
      BY <2>3 DEF Mbz
    <3> QED
      BY <1>1, <3>1 DEF Meet
  <2>4. CASE ty = "LONG"
    <3>1. CASE l = 4
      <4>1. CacheBits(ty, l, leaf) = {3, 4}
        BY <2>4, <3>1 DEF CacheBits, PageFits, HasPs
      <4> QED
        BY <2>4, <4>1 DEF Meet, Mbz
    <3> QED
      BY <2>4, <3>1 DEF Meet, Mbz
  <2>5. CASE ty = "EPT"
    <3>1. leaf => \A b \in Mbz(ty, l, leaf) : b = 7
      BY <2>5 DEF Mbz
    <3>2. \A b \in CacheBits(ty, l, leaf) : b \in {3, 4, 5}
      BY <2>5 DEF CacheBits
    <3>3. ~leaf \/ ~(\E b \in CacheBits(ty, l, leaf) : b \in Mbz(ty, l, leaf))
      BY <3>1, <3>2
    <3> QED
      BY <2>5, <3>3 DEF Meet
  <2> QED
    BY <2>1, <2>2, <2>3, <2>4, <2>5 DEF Level, HPT_TYPES
<1> QED
  BY <1>1, <1>2, <1>3, AddressApart, ProtApart, UserApart DEF Meet, UnusedBits

\* The unused bits and those of the others.
LEMMA UnusedApart ==
  ASSUME NEW ty, NEW l, Level(ty, l), NEW leaf \in BOOLEAN, PageFits(ty, l, leaf)
  PROVE  /\ ~Meet(UnusedBits, PageBits(ty, l))
         /\ ~Meet(UnusedBits, AddressBits(ty, l, leaf))
         /\ ~Meet(UnusedBits, ProtBits(ty, l))
         /\ ~Meet(UnusedBits, UserBits(ty, l))
         /\ ~Meet(UnusedBits, CacheBits(ty, l, leaf))
         /\ ~Meet(UnusedBits, Mbz(ty, l, leaf))
<1>1. ~Meet(UnusedBits, PageBits(ty, l))
  BY DEF Meet, UnusedBits, PageBits
<1>2. \A b \in 9..11 : b \notin Mbz(ty, l, leaf)
  BY DEF Mbz, Level, HPT_TYPES
<1>3. ~Meet(UnusedBits, Mbz(ty, l, leaf))
  BY <1>2 DEF Meet, UnusedBits
<1> QED
  BY <1>1, <1>3, AddressApart, ProtApart, UserApart, CacheApart DEF Meet

----------------------------------------------------------------------------
(* A setter changes the bits of its field only, and its getter returns what  *)
(* was set.                                                                  *)

\* Entry e became d, by changing only these bits.
Changed(ty, d, e, bits) ==
  d \subseteq EntryBits(ty) /\ \A b : b \notin bits => (b \in d <=> b \in e)

\* Bits that are moved by zero.
LEMMA PlusZero ==
  ASSUME NEW bits \in SUBSET Int PROVE {b + 0 : b \in bits} = bits
<1>1. \A b \in Int : b + 0 = b
  OBVIOUS
<1> QED
  BY <1>1, Zenon

\* Bits that are moved and moved back.
LEMMA ThereAndBack ==
  ASSUME NEW bits \in SUBSET Int PROVE {b - 3 : b \in {c + 3 : c \in bits}} = bits
<1>1. \A c \in Int : (c + 3) - 3 = c
  OBVIOUS
<1> QED
  BY <1>1, Zenon

\* Protections are the same if they have the same bits.
LEMMA SameProt ==
  ASSUME NEW a, NEW c, a \subseteq {0, 1, 2}, c \subseteq {0, 1, 2},
         0 \in a <=> 0 \in c, 1 \in a <=> 1 \in c, 2 \in a <=> 2 \in c
  PROVE  a = c
<1>1. \A p \in {0, 1, 2} : p \in a <=> p \in c
  OBVIOUS
<1>2. \A p \in a : p \in c
  BY <1>1
<1>3. \A p \in c : p \in a
  BY <1>1
<1> QED
  BY <1>2, <1>3

\* Which protections hpt_pme_getprot returns.
LEMMA ProtRead ==
  ASSUME NEW ty, NEW l, NEW d
  PROVE  /\ hpt_pme_getprot(ty, l, d) \subseteq {0, 1, 2}
         /\ 0 \in hpt_pme_getprot(ty, l, d) <=> 0 \in d
         /\ 1 \in hpt_pme_getprot(ty, l, d) <=>
              (IF ty = "PAE" /\ l = 3 THEN 0 \in d ELSE 1 \in d)
         /\ 2 \in hpt_pme_getprot(ty, l, d) <=>
              (IF ty = "EPT" THEN 2 \in d
               ELSE IF HasNx(ty, l) THEN 63 \notin d ELSE 0 \in d)
<1>1. hpt_pme_getprot(ty, l, d) =
        {p \in {0, 1, 2} :
           \/ p = 0 /\ 0 \in d
           \/ p = 1 /\ (IF ty = "PAE" /\ l = 3 THEN 0 \in d ELSE 1 \in d)
           \/ p = 2 /\ (IF ty = "EPT" THEN 2 \in d
                       ELSE IF HasNx(ty, l) THEN 63 \notin d ELSE 0 \in d)}
  BY Zenon DEF hpt_pme_getprot, BR64_GET_BIT, HPT_PROTS_RWX, R, W, X
<1> QED
  BY <1>1

\* hpt_pme_setprot, with the protections that PDPTEs of PAE paging can have.
LEMMA PutProt ==
  ASSUME NEW ty, NEW l, Level(ty, l), NEW e \in SUBSET EntryBits(ty),
         NEW perms \in SUBSET HPT_PROTS_RWX, hpt_prot_is_valid(ty, l, perms),
         ty = "PAE" /\ l = 3 => perms \in {{}, HPT_PROTS_RWX}
  PROVE  /\ Changed(ty, hpt_pme_setprot(ty, l, e, perms), e, ProtBits(ty, l))
         /\ hpt_pme_getprot(ty, l, hpt_pme_setprot(ty, l, e, perms)) = perms
<1> DEFINE d == hpt_pme_setprot(ty, l, e, perms)
<1>0. perms \subseteq {0, 1, 2}
  BY DEF HPT_PROTS_RWX, R, W, X
<1>1. \A b : b \in d <=>
        IF ty = "EPT" THEN (b \in e /\ b \notin 0..2) \/ b \in perms
        ELSE IF b = 63 /\ HasNx(ty, l) THEN 2 \notin perms
        ELSE IF b = 1 /\ ~(ty = "PAE" /\ l = 3) THEN 1 \in perms
        ELSE IF b = 0 THEN 0 \in perms
        ELSE b \in e
  <2>1. CASE ty = "EPT"
    <3>1. d = (e \ (0..2)) \cup {b + 0 : b \in perms}
      BY <2>1 DEF hpt_pme_setprot, BR64_SET_HL
    <3>2. {b + 0 : b \in perms} = perms
      BY <1>0, PlusZero
    <3> QED
      BY <2>1, <3>1, <3>2
  <2>2. CASE ty # "EPT"
    BY <2>2 DEF hpt_pme_setprot, BR64_SET_BIT, R, W, X
  <2> QED
    BY <2>1, <2>2
<1>2. \A b \in d : b \in e \/ b \in ProtBits(ty, l)
  <2>1. CASE ty = "EPT"
    BY <1>0, <1>1, <2>1 DEF ProtBits
  <2>2. CASE ty # "EPT"
    BY <1>1, <2>2 DEF ProtBits
  <2> QED
    BY <2>1, <2>2
<1>3. \A b : b \notin ProtBits(ty, l) => (b \in d <=> b \in e)
  <2>1. CASE ty = "EPT"
    <3>1. ProtBits(ty, l) = {0, 1, 2}
      BY <2>1 DEF ProtBits
    <3>2. \A b : b \in 0..2 <=> b \in {0, 1, 2}
      OBVIOUS
    <3> QED
      BY <1>0, <1>1, <2>1, <3>1, <3>2
  <2>2. CASE ty # "EPT"
    BY <1>1, <2>2 DEF ProtBits
  <2> QED
    BY <2>1, <2>2
<1>4. ProtBits(ty, l) \subseteq EntryBits(ty)
  BY DEF ProtBits, EntryBits, HasNx
<1>5. Changed(ty, d, e, ProtBits(ty, l))
  BY <1>2, <1>3, <1>4 DEF Changed
<1> DEFINE q == hpt_pme_getprot(ty, l, d)
<1>6. q \subseteq {0, 1, 2}
  BY ProtRead
<1>7. q = perms
  <2>1. CASE ty = "EPT"
    <3>1. (0 \in d <=> 0 \in perms) /\ (1 \in d <=> 1 \in perms) /\ (2 \in d <=> 2 \in perms)
      BY <1>1, <2>1
    <3>2. /\ 0 \in q <=> 0 \in d
          /\ 1 \in q <=> 1 \in d
          /\ 2 \in q <=> 2 \in d
      BY <2>1, ProtRead
    <3>4. (0 \in q <=> 0 \in perms) /\ (1 \in q <=> 1 \in perms) /\ (2 \in q <=> 2 \in perms)
      BY <3>1, <3>2
    <3> HIDE DEF q
    <3> QED
      BY <1>0, <1>6, <3>4, SameProt
  <2>2. CASE ty = "NORM"
    <3>1. (0 \in d <=> 0 \in perms) /\ (1 \in d <=> 1 \in perms)
      BY <1>1, <2>2
    <3>2. /\ 0 \in q <=> 0 \in d
          /\ 1 \in q <=> 1 \in d
          /\ 2 \in q <=> 0 \in d
      BY <2>2, ProtRead DEF HasNx
    <3>3. 2 \in perms <=> 0 \in perms
      BY <2>2 DEF hpt_prot_is_valid, HPT_PROTS_RWX, R, W, X
    <3>4. (0 \in q <=> 0 \in perms) /\ (1 \in q <=> 1 \in perms) /\ (2 \in q <=> 2 \in perms)
      BY <3>1, <3>2, <3>3
    <3> HIDE DEF q
    <3> QED
      BY <1>0, <1>6, <3>4, SameProt
  <2>3. CASE ty = "PAE" /\ l = 3
    <3>1. 0 \in d <=> 0 \in perms
      BY <1>1, <2>3 DEF HasNx
    <3>2. /\ 0 \in q <=> 0 \in d
          /\ 1 \in q <=> 0 \in d
          /\ 2 \in q <=> 0 \in d
      BY <2>3, ProtRead DEF HasNx
    <3>3. (1 \in perms <=> 0 \in perms) /\ (2 \in perms <=> 0 \in perms)
      BY <2>3 DEF HPT_PROTS_RWX, R, W, X
    <3>4. (0 \in q <=> 0 \in perms) /\ (1 \in q <=> 1 \in perms) /\ (2 \in q <=> 2 \in perms)
      BY <3>1, <3>2, <3>3
    <3> HIDE DEF q
    <3> QED
      BY <1>0, <1>6, <3>4, SameProt
  <2>4. CASE ty = "LONG" \/ (ty = "PAE" /\ l # 3)
    <3>1. (0 \in d <=> 0 \in perms) /\ (1 \in d <=> 1 \in perms) /\ (63 \in d <=> 2 \notin perms)
      BY <1>1, <2>4 DEF HasNx
    <3>2. /\ 0 \in q <=> 0 \in d
          /\ 1 \in q <=> 1 \in d
          /\ 2 \in q <=> 63 \notin d
      BY <2>4, ProtRead DEF HasNx
    <3>4. (0 \in q <=> 0 \in perms) /\ (1 \in q <=> 1 \in perms) /\ (2 \in q <=> 2 \in perms)
      BY <3>1, <3>2
    <3> HIDE DEF q
    <3> QED
      BY <1>0, <1>6, <3>4, SameProt
  <2> QED
    BY <2>1, <2>2, <2>3, <2>4 DEF Level, HPT_TYPES
<1> QED
  BY <1>5, <1>7

\* hpt_pme_setuser
LEMMA PutUser ==
  ASSUME NEW ty, NEW l, Level(ty, l), NEW e \in SUBSET EntryBits(ty),
         NEW user \in BOOLEAN, user \/ HasUser(ty, l)
  PROVE  /\ Changed(ty, hpt_pme_setuser(ty, l, e, user), e, UserBits(ty, l))
         /\ hpt_pme_getuser(ty, l, hpt_pme_setuser(ty, l, e, user)) = user
<1>1. CASE HasUser(ty, l)
  <2>1. hpt_pme_setuser(ty, l, e, user) = BR64_SET_BIT(e, 2, user)
    BY <1>1 DEF hpt_pme_setuser
  <2>2. 2 \in EntryBits(ty)
    BY DEF EntryBits
  <2> QED
    BY <1>1, <2>1, <2>2 DEF Changed, UserBits, hpt_pme_getuser, BR64_GET_BIT, BR64_SET_BIT
<1>2. CASE ~HasUser(ty, l)
  BY <1>2 DEF Changed, UserBits, hpt_pme_getuser, hpt_pme_setuser
<1> QED
  BY <1>1, <1>2

\* hpt_pme_set_pmt
LEMMA PutCache ==
  ASSUME NEW ty, NEW l, Level(ty, l), NEW e \in SUBSET EntryBits(ty),
         NEW pmt \in hpt_pmt_t, PmtIsValid(ty, l, e, pmt),
         NEW leaf \in BOOLEAN, hpt_pme_is_page(ty, l, e) = leaf
  PROVE  /\ Changed(ty, hpt_pme_set_pmt(ty, l, e, pmt), e, CacheBits(ty, l, leaf))
         /\ hpt_pme_get_pmt(ty, l, hpt_pme_set_pmt(ty, l, e, pmt)) = pmt
<1> DEFINE d == hpt_pme_set_pmt(ty, l, e, pmt)
<1>0. CacheBits(ty, l, leaf) \subseteq EntryBits(ty)
  BY DEF CacheBits, EntryBits, Pat
<1>1. CASE ty = "EPT"
  <2>1. d = (e \ (3..5)) \cup {b + 3 : b \in pmt}
    BY <1>1 DEF hpt_pme_set_pmt, BR64_SET_HL
  <2>2. pmt \subseteq {0, 1, 2}
    BY DEF hpt_pmt_t, HPT_PMT_UC, HPT_PMT_WC, HPT_PMT_WT, HPT_PMT_WP, HPT_PMT_WB
  <2>3. {b + 3 : b \in pmt} \subseteq {3, 4, 5}
    BY <2>2
  <2>4. Changed(ty, d, e, CacheBits(ty, l, leaf))
    BY <1>0, <1>1, <2>1, <2>3 DEF Changed, CacheBits
  <2>5. d \cap (3..5) = {b + 3 : b \in pmt}
    BY <2>1, <2>3
  <2>6. hpt_pme_get_pmt(ty, l, d) = {b - 3 : b \in {c + 3 : c \in pmt}}
    BY <1>1, <2>5 DEF hpt_pme_get_pmt, BR64_GET_HL
  <2>7. {b - 3 : b \in {c + 3 : c \in pmt}} = pmt
    <3>1. pmt \in SUBSET Int
      BY <2>2
    <3> QED
      BY <3>1, ThereAndBack
  <2> QED
    BY <2>4, <2>6, <2>7
<1>2. CASE ty # "EPT"
  <2>1. Pat(l) # 3 /\ Pat(l) # 4
    BY DEF Pat
  <2>2. \A b : b \in d <=>
          IF b = 3 THEN pmt \in {HPT_PMT_UC, HPT_PMT_WT}
          ELSE IF b = 4 THEN pmt \in {HPT_PMT_UC, HPT_PMT_WC}
          ELSE b \in e /\ ~(leaf /\ b = Pat(l))
    BY <1>2, <2>1 DEF hpt_pme_set_pmt, hpt_pme_set_pat, hpt_pme_set_pcd, hpt_pme_set_pwt, BR64_SET_BIT
  <2>3. Changed(ty, d, e, CacheBits(ty, l, leaf))
    <3>1. \A b : b \notin CacheBits(ty, l, leaf) => b # 3 /\ b # 4 /\ ~(leaf /\ b = Pat(l))
      BY <1>2 DEF CacheBits
    <3>2. 3 \in EntryBits(ty) /\ 4 \in EntryBits(ty)
      BY DEF EntryBits
    <3> QED
      BY <2>2, <3>1, <3>2 DEF Changed
  <2>4. (4 \in d <=> pmt \in {HPT_PMT_UC, HPT_PMT_WC}) /\ (3 \in d <=> pmt \in {HPT_PMT_UC, HPT_PMT_WT})
    BY <2>2
  <2>5. pmt # HPT_PMT_WP
    BY <1>2 DEF PmtIsValid
  <2>6. pmt \in {HPT_PMT_UC, HPT_PMT_WC, HPT_PMT_WT, HPT_PMT_WB}
    BY <2>5 DEF hpt_pmt_t
  <2>7. /\ 0 \notin HPT_PMT_UC /\ 2 \notin HPT_PMT_UC
        /\ 0 \in HPT_PMT_WC /\ 2 \notin HPT_PMT_WC
        /\ 0 \notin HPT_PMT_WT /\ 2 \in HPT_PMT_WT /\ 1 \notin HPT_PMT_WT
        /\ 1 \in HPT_PMT_WB /\ 2 \in HPT_PMT_WB
    BY DEF HPT_PMT_UC, HPT_PMT_WC, HPT_PMT_WT, HPT_PMT_WB
  <2>8. /\ hpt_pme_get_pcd(d) = (4 \in d) /\ hpt_pme_get_pwt(d) = (3 \in d)
    BY DEF hpt_pme_get_pcd, hpt_pme_get_pwt, BR64_GET_BIT
  <2>9. hpt_pme_get_pmt(ty, l, d) = IF 4 \in d THEN IF 3 \in d THEN HPT_PMT_UC ELSE HPT_PMT_WC
                                              ELSE IF 3 \in d THEN HPT_PMT_WT ELSE HPT_PMT_WB
    BY <1>2, <2>8 DEF hpt_pme_get_pmt
  <2>10. hpt_pme_get_pmt(ty, l, d) = pmt
    BY <2>4, <2>6, <2>7, <2>9
  <2> QED
    BY <2>3, <2>10
<1> QED
  BY <1>1, <1>2

\* hpt_pme_setunused, from bit 9 on.
LEMMA PutUnused ==
  ASSUME NEW ty, NEW e \in SUBSET EntryBits(ty), NEW hi \in 1..2, NEW val \in SUBSET (0..2),
         NEW unused, Unused(e) = unused
  PROVE  /\ Changed(ty, hpt_pme_setunused(e, hi, 0, val), e, UnusedBits)
         /\ Unused(hpt_pme_setunused(e, hi, 0, val)) =
              (unused \ (0..hi)) \cup (val \cap (0..hi))
<1> DEFINE d == hpt_pme_setunused(e, hi, 0, val)
<1>1. d = (e \ (9..(hi + 9))) \cup {b + 9 : b \in val \cap (0..hi)}
  BY DEF hpt_pme_setunused, BR64_COPY_BITS_HL
<1>2. {b + 9 : b \in val \cap (0..hi)} \subseteq 9..11
  OBVIOUS
<1>3. \A b : b \notin UnusedBits => (b \in d <=> b \in e)
  BY <1>1, <1>2 DEF UnusedBits
<1>4. UnusedBits = 9..11 /\ UnusedBits \subseteq EntryBits(ty)
  BY DEF UnusedBits, EntryBits
<1>5. Changed(ty, d, e, UnusedBits)
  BY <1>3, <1>4 DEF Changed
<1>6. \A b \in 0..2 : b + 9 \in d <=> IF b \in 0..hi THEN b \in val ELSE b + 9 \in e
  BY <1>1
<1>7. \A x, b : b \in Unused(x) <=> b \in 0..2 /\ b + 9 \in x
  BY <1>4 DEF Unused
<1>8. \A b : b \in Unused(d) <=>
        b \in (unused \ (0..hi)) \cup (val \cap (0..hi))
  BY <1>6, <1>7
<1> QED
  BY <1>5, <1>8

----------------------------------------------------------------------------
(* A change of some bits does not reach a field that has other bits. *)

\* Entries agree in the bits that were not changed.
LEMMA KeptBits ==
  ASSUME NEW ty, NEW d, NEW e, NEW bits, Changed(ty, d, e, bits), NEW f, ~Meet(bits, f)
  PROVE  Agree(d, e, f) /\ d \cap f = e \cap f
  BY DEF Meet, Changed, Agree

\* The kind of the entry.
LEMMA KeptPage ==
  ASSUME NEW ty, NEW l, Level(ty, l), NEW d, NEW e, NEW bits, Changed(ty, d, e, bits),
         ~Meet(bits, PageBits(ty, l))
  PROVE  hpt_pme_is_page(ty, l, d) = hpt_pme_is_page(ty, l, e)
<1>1. Agree(d, e, PageBits(ty, l))
  BY KeptBits
<1> QED
  BY <1>1, PageReads

\* The protection.
LEMMA KeptProt ==
  ASSUME NEW ty, NEW l, Level(ty, l), NEW d, NEW e, NEW bits, Changed(ty, d, e, bits),
         ~Meet(bits, ProtBits(ty, l))
  PROVE  hpt_pme_getprot(ty, l, d) = hpt_pme_getprot(ty, l, e)
<1>1. Agree(d, e, ProtBits(ty, l))
  BY KeptBits
<1> QED
  BY <1>1, ProtReads

\* The user bit.
LEMMA KeptUser ==
  ASSUME NEW ty, NEW l, Level(ty, l), NEW d, NEW e, NEW bits, Changed(ty, d, e, bits),
         ~Meet(bits, UserBits(ty, l))
  PROVE  hpt_pme_getuser(ty, l, d) = hpt_pme_getuser(ty, l, e)
<1>1. Agree(d, e, UserBits(ty, l))
  BY KeptBits
<1> QED
  BY <1>1, UserReads

\* The memory type.
LEMMA KeptCache ==
  ASSUME NEW ty, NEW l, Level(ty, l), NEW d, NEW e, NEW bits, Changed(ty, d, e, bits),
         NEW leaf, ~Meet(bits, CacheBits(ty, l, leaf))
  PROVE  hpt_pme_get_pmt(ty, l, d) = hpt_pme_get_pmt(ty, l, e)
<1>1. Agree(d, e, CacheBits(ty, l, leaf))
  BY KeptBits
<1> QED
  BY <1>1, CacheReads

\* The unused bits.
LEMMA KeptUnused ==
  ASSUME NEW ty, NEW d, NEW e, NEW bits, Changed(ty, d, e, bits), ~Meet(bits, UnusedBits)
  PROVE  Unused(d) = Unused(e)
<1>1. d \cap UnusedBits = e \cap UnusedBits
  BY KeptBits
<1> QED
  BY <1>1, Zenon DEF Unused

(* What an entry means after a step. *)

\* The kind of an entry.
LEMMA MeansFit ==
  ASSUME NEW ty, NEW l, NEW e, NEW leaf, NEW addr, NEW prot, NEW user, NEW pmt, NEW unused,
         Means(ty, l, e, leaf, addr, prot, user, pmt, unused)
  PROVE  PageFits(ty, l, leaf)
  BY PageIsFit DEF Means

\* hpt_pme_set_address
LEMMA AfterAddress ==
  ASSUME NEW ty, NEW l, Level(ty, l), NEW e,
         NEW leaf \in BOOLEAN, NEW addr, NEW prot, NEW user, NEW pmt, NEW unused,
         Means(ty, l, e, leaf, addr, prot, user, pmt, unused),
         NEW a \in SUBSET AddressBits(ty, l, leaf)
  PROVE  Means(ty, l, hpt_pme_set_address(ty, l, e, a), leaf, a, prot, user, pmt, unused)
<1> DEFINE d == hpt_pme_set_address(ty, l, e, a)
<1>1. AddressBits(ty, l, leaf) \subseteq EntryBits(ty) /\ AddressBits(ty, l, leaf) \subseteq Int
  BY DEF AddressBits, EntryBits
<1>2. Changed(ty, d, e, AddressBits(ty, l, leaf)) /\ d \cap AddressBits(ty, l, leaf) = a
  <2>1. e \in SUBSET EntryBits(ty) /\ hpt_pme_is_page(ty, l, e) = leaf
    BY DEF Means
  <2>2. a \in SUBSET Int
    BY <1>1
  <2>3. d = (e \ AddressBits(ty, l, leaf)) \cup (a \cap AddressBits(ty, l, leaf))
    BY <2>1, <2>2, PutAddress
  <2> QED
    BY <1>1, <2>1, <2>3 DEF Changed
<1> HIDE DEF d
<1>3. PageFits(ty, l, leaf)
  BY MeansFit
<1>4. /\ ~Meet(AddressBits(ty, l, leaf), PageBits(ty, l))
      /\ ~Meet(AddressBits(ty, l, leaf), ProtBits(ty, l))
      /\ ~Meet(AddressBits(ty, l, leaf), UserBits(ty, l))
      /\ ~Meet(AddressBits(ty, l, leaf), CacheBits(ty, l, leaf))
      /\ ~Meet(AddressBits(ty, l, leaf), UnusedBits)
      /\ ~Meet(AddressBits(ty, l, leaf), Mbz(ty, l, leaf))
  BY <1>3, AddressApart
<1>5. d \subseteq EntryBits(ty)
  BY <1>2 DEF Changed
<1>6. hpt_pme_is_page(ty, l, d) = leaf
  BY <1>2, <1>4, KeptPage DEF Means
<1>7. hpt_pme_getprot(ty, l, d) = prot
  BY <1>2, <1>4, KeptProt DEF Means
<1>8. hpt_pme_getuser(ty, l, d) = user
  BY <1>2, <1>4, KeptUser DEF Means
<1>9. (ty = "EPT" => leaf) => hpt_pme_get_pmt(ty, l, d) = pmt
  BY <1>2, <1>4, KeptCache DEF Means
<1>10. Unused(d) = unused
  BY <1>2, <1>4, KeptUnused DEF Means
<1>11. d \cap Mbz(ty, l, leaf) = {}
  BY <1>2, <1>4, KeptBits DEF Means
<1>12. Means(ty, l, d, leaf, a, prot, user, pmt, unused)
  BY <1>2, <1>5, <1>6, <1>7, <1>8, <1>9, <1>10, <1>11, Zenon DEF Means
<1> QED
  BY <1>12 DEF d

\* hpt_pme_setprot
LEMMA AfterProt ==
  ASSUME NEW ty, NEW l, Level(ty, l), NEW e,
         NEW leaf \in BOOLEAN, NEW addr, NEW prot, NEW user, NEW pmt, NEW unused,
         Means(ty, l, e, leaf, addr, prot, user, pmt, unused),
         NEW perms \in SUBSET HPT_PROTS_RWX, hpt_prot_is_valid(ty, l, perms),
         ty = "PAE" /\ l = 3 => perms \in {{}, HPT_PROTS_RWX}
  PROVE  Means(ty, l, hpt_pme_setprot(ty, l, e, perms), leaf, addr, perms, user, pmt, unused)
<1> DEFINE d == hpt_pme_setprot(ty, l, e, perms)
<1>1. e \in SUBSET EntryBits(ty)
  BY DEF Means
<1>2. Changed(ty, d, e, ProtBits(ty, l)) /\ hpt_pme_getprot(ty, l, d) = perms
  BY <1>1, PutProt
<1> HIDE DEF d
<1>3. PageFits(ty, l, leaf)
  BY MeansFit
<1>4. /\ ~Meet(ProtBits(ty, l), PageBits(ty, l))
      /\ ~Meet(ProtBits(ty, l), AddressBits(ty, l, leaf))
      /\ ~Meet(ProtBits(ty, l), UserBits(ty, l))
      /\ ~Meet(ProtBits(ty, l), CacheBits(ty, l, leaf))
      /\ ~Meet(ProtBits(ty, l), UnusedBits)
      /\ ~Meet(ProtBits(ty, l), Mbz(ty, l, leaf))
  BY <1>3, ProtApart
<1>5. d \subseteq EntryBits(ty)
  BY <1>2 DEF Changed
<1>6. hpt_pme_is_page(ty, l, d) = leaf
  BY <1>2, <1>4, KeptPage DEF Means
<1>7. d \cap AddressBits(ty, l, leaf) = addr
  BY <1>2, <1>4, KeptBits DEF Means
<1>8. hpt_pme_getuser(ty, l, d) = user
  BY <1>2, <1>4, KeptUser DEF Means
<1>9. (ty = "EPT" => leaf) => hpt_pme_get_pmt(ty, l, d) = pmt
  BY <1>2, <1>4, KeptCache DEF Means
<1>10. Unused(d) = unused
  BY <1>2, <1>4, KeptUnused DEF Means
<1>11. d \cap Mbz(ty, l, leaf) = {}
  BY <1>2, <1>4, KeptBits DEF Means
<1>12. Means(ty, l, d, leaf, addr, perms, user, pmt, unused)
  BY <1>2, <1>5, <1>6, <1>7, <1>8, <1>9, <1>10, <1>11, Zenon DEF Means
<1> QED
  BY <1>12 DEF d

\* hpt_pme_setuser
LEMMA AfterUser ==
  ASSUME NEW ty, NEW l, Level(ty, l), NEW e,
         NEW leaf \in BOOLEAN, NEW addr, NEW prot, NEW user, NEW pmt, NEW unused,
         Means(ty, l, e, leaf, addr, prot, user, pmt, unused),
         NEW u \in BOOLEAN, u \/ HasUser(ty, l)
  PROVE  Means(ty, l, hpt_pme_setuser(ty, l, e, u), leaf, addr, prot, u, pmt, unused)
<1> DEFINE d == hpt_pme_setuser(ty, l, e, u)
<1>1. e \in SUBSET EntryBits(ty)
  BY DEF Means
<1>2. Changed(ty, d, e, UserBits(ty, l)) /\ hpt_pme_getuser(ty, l, d) = u
  BY <1>1, PutUser
<1> HIDE DEF d
<1>3. PageFits(ty, l, leaf)
  BY MeansFit
<1>4. /\ ~Meet(UserBits(ty, l), PageBits(ty, l))
      /\ ~Meet(UserBits(ty, l), AddressBits(ty, l, leaf))
      /\ ~Meet(UserBits(ty, l), ProtBits(ty, l))
      /\ ~Meet(UserBits(ty, l), CacheBits(ty, l, leaf))
      /\ ~Meet(UserBits(ty, l), UnusedBits)
      /\ ~Meet(UserBits(ty, l), Mbz(ty, l, leaf))
  BY <1>3, UserApart
<1>5. d \subseteq EntryBits(ty)
  BY <1>2 DEF Changed
<1>6. hpt_pme_is_page(ty, l, d) = leaf
  BY <1>2, <1>4, KeptPage DEF Means
<1>7. d \cap AddressBits(ty, l, leaf) = addr
  BY <1>2, <1>4, KeptBits DEF Means
<1>8. hpt_pme_getprot(ty, l, d) = prot
  BY <1>2, <1>4, KeptProt DEF Means
<1>9. (ty = "EPT" => leaf) => hpt_pme_get_pmt(ty, l, d) = pmt
  BY <1>2, <1>4, KeptCache DEF Means
<1>10. Unused(d) = unused
  BY <1>2, <1>4, KeptUnused DEF Means
<1>11. d \cap Mbz(ty, l, leaf) = {}
  BY <1>2, <1>4, KeptBits DEF Means
<1>12. Means(ty, l, d, leaf, addr, prot, u, pmt, unused)
  BY <1>2, <1>5, <1>6, <1>7, <1>8, <1>9, <1>10, <1>11, Zenon DEF Means
<1> QED
  BY <1>12 DEF d

\* hpt_pme_set_pmt
LEMMA AfterCache ==
  ASSUME NEW ty, NEW l, Level(ty, l), NEW e,
         NEW leaf \in BOOLEAN, NEW addr, NEW prot, NEW user, NEW pmt, NEW unused,
         Means(ty, l, e, leaf, addr, prot, user, pmt, unused),
         NEW m \in hpt_pmt_t, PmtIsValid(ty, l, e, m)
  PROVE  Means(ty, l, hpt_pme_set_pmt(ty, l, e, m), leaf, addr, prot, user, m, unused)
<1> DEFINE d == hpt_pme_set_pmt(ty, l, e, m)
<1>1. e \in SUBSET EntryBits(ty) /\ hpt_pme_is_page(ty, l, e) = leaf
  BY DEF Means
<1>2. Changed(ty, d, e, CacheBits(ty, l, leaf)) /\ hpt_pme_get_pmt(ty, l, d) = m
  BY <1>1, PutCache
<1>3. ty = "EPT" => leaf
  BY <1>1 DEF PmtIsValid
<1> HIDE DEF d
<1>4. PageFits(ty, l, leaf)
  BY MeansFit
<1>5. /\ ~Meet(CacheBits(ty, l, leaf), PageBits(ty, l))
      /\ ~Meet(CacheBits(ty, l, leaf), AddressBits(ty, l, leaf))
      /\ ~Meet(CacheBits(ty, l, leaf), ProtBits(ty, l))
      /\ ~Meet(CacheBits(ty, l, leaf), UserBits(ty, l))
      /\ ~Meet(CacheBits(ty, l, leaf), UnusedBits)
      /\ ~Meet(CacheBits(ty, l, leaf), Mbz(ty, l, leaf))
  BY <1>4, <1>3, CacheApart
<1>6. d \subseteq EntryBits(ty)
  BY <1>2 DEF Changed
<1>7. hpt_pme_is_page(ty, l, d) = leaf
  BY <1>2, <1>5, KeptPage DEF Means
<1>8. d \cap AddressBits(ty, l, leaf) = addr
  BY <1>2, <1>5, KeptBits DEF Means
<1>9. hpt_pme_getprot(ty, l, d) = prot
  BY <1>2, <1>5, KeptProt DEF Means
<1>10. hpt_pme_getuser(ty, l, d) = user
  BY <1>2, <1>5, KeptUser DEF Means
<1>11. Unused(d) = unused
  BY <1>2, <1>5, KeptUnused DEF Means
<1>12. d \cap Mbz(ty, l, leaf) = {}
  BY <1>2, <1>5, KeptBits DEF Means
<1>13. Means(ty, l, d, leaf, addr, prot, user, m, unused)
  BY <1>2, <1>6, <1>7, <1>8, <1>9, <1>10, <1>11, <1>12, Zenon DEF Means
<1> QED
  BY <1>13 DEF d

\* hpt_pme_setunused
LEMMA AfterUnused ==
  ASSUME NEW ty, NEW l, Level(ty, l), NEW e,
         NEW leaf \in BOOLEAN, NEW addr, NEW prot, NEW user, NEW pmt, NEW unused,
         Means(ty, l, e, leaf, addr, prot, user, pmt, unused),
         NEW hi \in 1..2, NEW val \in SUBSET (0..2)
  PROVE  Means(ty, l, hpt_pme_setunused(e, hi, 0, val), leaf, addr, prot, user, pmt,
               (unused \ (0..hi)) \cup (val \cap (0..hi)))
<1> DEFINE d == hpt_pme_setunused(e, hi, 0, val)
           n == (unused \ (0..hi)) \cup (val \cap (0..hi))
<1>1. e \in SUBSET EntryBits(ty) /\ Unused(e) = unused
  BY DEF Means
<1>2. Changed(ty, d, e, UnusedBits) /\ Unused(d) = n
  BY <1>1, PutUnused
<1> HIDE DEF d, n
<1>3. PageFits(ty, l, leaf)
  BY MeansFit
<1>4. /\ ~Meet(UnusedBits, PageBits(ty, l))
      /\ ~Meet(UnusedBits, AddressBits(ty, l, leaf))
      /\ ~Meet(UnusedBits, ProtBits(ty, l))
      /\ ~Meet(UnusedBits, UserBits(ty, l))
      /\ ~Meet(UnusedBits, CacheBits(ty, l, leaf))
      /\ ~Meet(UnusedBits, Mbz(ty, l, leaf))
  BY <1>3, UnusedApart
<1>5. d \subseteq EntryBits(ty)
  BY <1>2 DEF Changed
<1>6. hpt_pme_is_page(ty, l, d) = leaf
  BY <1>2, <1>4, KeptPage DEF Means
<1>7. d \cap AddressBits(ty, l, leaf) = addr
  BY <1>2, <1>4, KeptBits DEF Means
<1>8. hpt_pme_getprot(ty, l, d) = prot
  BY <1>2, <1>4, KeptProt DEF Means
<1>9. hpt_pme_getuser(ty, l, d) = user
  BY <1>2, <1>4, KeptUser DEF Means
<1>10. (ty = "EPT" => leaf) => hpt_pme_get_pmt(ty, l, d) = pmt
  BY <1>2, <1>4, KeptCache DEF Means
<1>11. d \cap Mbz(ty, l, leaf) = {}
  BY <1>2, <1>4, KeptBits DEF Means
<1>12. Means(ty, l, d, leaf, addr, prot, user, pmt, n)
  BY <1>2, <1>5, <1>6, <1>7, <1>8, <1>9, <1>10, <1>11, Zenon DEF Means
<1> QED
  BY <1>12 DEF d, n

\* A zero entry.
LEMMA ZeroEntry ==
  ASSUME NEW ty, NEW l, Level(ty, l)
  PROVE  /\ hpt_pme_is_page(ty, l, {}) = (l = 1)
         /\ hpt_pme_get_address(ty, l, {}) = {}
         /\ Unused({}) = {}
         /\ hpt_pme_getunused({}, 2, 0) = {}
<1>1. hpt_pme_is_page(ty, l, {}) = (l = 1)
  BY DEF hpt_pme_is_page, BR64_GET_BIT
<1>2. hpt_pme_get_address(ty, l, {}) = {} \cap AddressBits(ty, l, (l = 1))
  BY <1>1, GetAddress
<1> QED
  BY <1>1, <1>2 DEF Unused, hpt_pme_getunused, BR64_GET_HL

\* hpt_pme_set_page, on a zero entry.
LEMMA AfterPage ==
  ASSUME NEW ty, NEW l, Level(ty, l), NEW leaf \in BOOLEAN, MayBePage(ty, l, leaf)
  PROVE  Means(ty, l, hpt_pme_set_page(ty, l, {}, leaf), leaf, {},
               hpt_pme_getprot(ty, l, {}), hpt_pme_getuser(ty, l, {}),
               hpt_pme_get_pmt(ty, l, {}), {})
<1> DEFINE d == hpt_pme_set_page(ty, l, {}, leaf)
<1>1. d \subseteq {7} /\ Changed(ty, d, {}, PageBits(ty, l))
  <2>1. 7 \in EntryBits(ty)
    BY DEF EntryBits
  <2> QED
    BY <2>1 DEF Changed, PageBits, hpt_pme_set_page, BR64_SET_BIT
<1>2. PageFits(ty, l, leaf)
  BY DEF PageFits, MayBePage, HasPs
<1>3. /\ ~Meet(PageBits(ty, l), AddressBits(ty, l, leaf))
      /\ ~Meet(PageBits(ty, l), ProtBits(ty, l))
      /\ ~Meet(PageBits(ty, l), UserBits(ty, l))
      /\ ~Meet(PageBits(ty, l), CacheBits(ty, l, leaf))
      /\ ~Meet(PageBits(ty, l), UnusedBits)
  BY <1>2, AddressApart, ProtApart, UserApart, CacheApart, UnusedApart DEF Meet
<1>4. hpt_pme_is_page(ty, l, d) = leaf
  BY DEF hpt_pme_is_page, hpt_pme_set_page, MayBePage, BR64_SET_BIT, BR64_GET_BIT, HasPs
<1>5. d \cap Mbz(ty, l, leaf) = {}
  <2>1. CASE HasPs(ty, l)
    <3>1. 7 \notin Mbz(ty, l, leaf)
      BY <2>1, Levels DEF HasPs, Mbz
    <3> QED
      BY <1>1, <3>1
  <2>2. CASE ~HasPs(ty, l)
    BY <2>2 DEF hpt_pme_set_page
  <2> QED
    BY <2>1, <2>2
<1> HIDE DEF d
<1>6. d \cap AddressBits(ty, l, leaf) = {}
  BY <1>1, <1>3, KeptBits
<1>7. hpt_pme_getprot(ty, l, d) = hpt_pme_getprot(ty, l, {})
  BY <1>1, <1>3, KeptProt
<1>8. hpt_pme_getuser(ty, l, d) = hpt_pme_getuser(ty, l, {})
  BY <1>1, <1>3, KeptUser
<1>9. hpt_pme_get_pmt(ty, l, d) = hpt_pme_get_pmt(ty, l, {})
  BY <1>1, <1>3, KeptCache
<1>10. Unused(d) = {}
  BY <1>1, <1>3, KeptUnused, ZeroEntry
<1>11. d \subseteq EntryBits(ty)
  BY <1>1 DEF Changed
<1>12. Means(ty, l, d, leaf, {}, hpt_pme_getprot(ty, l, {}), hpt_pme_getuser(ty, l, {}),
            hpt_pme_get_pmt(ty, l, {}), {})
  BY <1>4, <1>5, <1>6, <1>7, <1>8, <1>9, <1>10, <1>11, Zenon DEF Means
<1> QED
  BY <1>12 DEF d

----------------------------------------------------------------------------
(* The levels of an address. *)

\* hpt_va_idx_hi
LEMMA IdxHi ==
  /\ /\ hpt_va_idx_hi("NORM", 0) = 11 /\ hpt_va_idx_hi("NORM", 1) = 21
     /\ hpt_va_idx_hi("NORM", 2) = 31
  /\ /\ hpt_va_idx_hi("PAE", 0) = 11 /\ hpt_va_idx_hi("PAE", 1) = 20
     /\ hpt_va_idx_hi("PAE", 2) = 29 /\ hpt_va_idx_hi("PAE", 3) = 31
  /\ \A ty \in {"LONG", "EPT"} :
       /\ hpt_va_idx_hi(ty, 0) = 11 /\ hpt_va_idx_hi(ty, 1) = 20
       /\ hpt_va_idx_hi(ty, 2) = 29 /\ hpt_va_idx_hi(ty, 3) = 38
       /\ hpt_va_idx_hi(ty, 4) = 47
  BY DEF hpt_va_idx_hi, va_idx_hi

\* The highest bit of the offset in a page of a level.
OffsetHi(ty, l) == hpt_va_idx_hi(ty, l - 1)

\* Its values.
LEMMA Offsets ==
  ASSUME NEW ty, NEW l, Level(ty, l)
  PROVE  /\ OffsetHi(ty, l) \in 11..38
         /\ l = 1 => OffsetHi(ty, l) = 11
         /\ ty = "NORM" /\ l = 2 => OffsetHi(ty, l) = 21
         /\ l # 1 => OffsetHi(ty, l) \in 20..38
<1>1. CASE ty = "NORM"
  BY <1>1, IdxHi, Levels DEF OffsetHi
<1>2. CASE ty = "PAE"
  BY <1>2, IdxHi, Levels DEF OffsetHi
<1>3. CASE ty \in {"LONG", "EPT"}
  BY <1>3, IdxHi, Levels DEF OffsetHi
<1> QED
  BY <1>1, <1>2, <1>3 DEF Level, HPT_TYPES

\* Aligned addresses have only bits of the address and none of the offset,
\* unless 4 MB pages lie above 4 GB.
LEMMA AlignedFits ==
  ASSUME NEW ty, NEW l, Level(ty, l), NEW leaf \in BOOLEAN, ~HighNorm, NEW f \in u64
  PROVE  /\ Aligned(ty, l, leaf, f) \subseteq AddressBits(ty, l, leaf)
         /\ leaf => Aligned(ty, l, leaf, f) \cap (0..OffsetHi(ty, l)) = {}
<1> DEFINE lo == IF leaf THEN OffsetHi(ty, l) + 1 ELSE 12
           hi == IF ty # "NORM" THEN 51 ELSE 31
<1>1. Aligned(ty, l, leaf, f) = f \cap (lo..hi)
  BY DEF Aligned, OffsetHi
<1>2. leaf => lo = OffsetHi(ty, l) + 1 /\ OffsetHi(ty, l) \in Int
  BY Offsets
<1>3. lo..hi \subseteq AddressBits(ty, l, leaf)
  <2>1. CASE ~leaf
    BY <2>1 DEF AddressBits
  <2>2. CASE leaf /\ l = 1
    BY <2>2, Offsets DEF AddressBits
  <2>3. CASE leaf /\ l # 1 /\ ty = "NORM"
    <3>1. l = 2
      BY <2>3, Levels
    <3> QED
      BY <2>3, <3>1, Offsets DEF AddressBits
  <2>4. CASE leaf /\ l # 1 /\ ty # "NORM"
    <3>1. lo \in 21..39 /\ hi = 51
      BY <2>4, Offsets
    <3>2. lo..hi \subseteq 13..51
      BY <3>1
    <3>3. 13..51 \subseteq AddressBits(ty, l, leaf)
      BY <2>4 DEF AddressBits
    <3> QED
      BY <3>2, <3>3
  <2> QED
    BY <2>1, <2>2, <2>3, <2>4
<1>4. leaf => (lo..hi) \cap (0..OffsetHi(ty, l)) = {}
  BY <1>2
<1> HIDE DEF lo, hi
<1> QED
  BY <1>1, <1>3, <1>4

\* BR64_GET_HL differs between two values that differ in one bit exactly if
\* the bit is in the range.
LEMMA RangeDiffers ==
  ASSUME NEW va \in SUBSET Int, NEW b \in Int, NEW hi \in Int, NEW lo \in Int
  PROVE  BR64_GET_HL(va, hi, lo) # BR64_GET_HL(BR64_SET_BIT(va, b, b \notin va), hi, lo)
           <=> b \in lo..hi
<1> DEFINE vb == BR64_SET_BIT(va, b, b \notin va)
<1>1. vb \in SUBSET Int /\ \A c \in Int : c \in vb <=> (IF c = b THEN c \notin va ELSE c \in va)
  BY DEF BR64_SET_BIT
<1> HIDE DEF vb
<1>2. \A x \in SUBSET Int : \A c \in lo..hi : c \in x <=> c - lo \in BR64_GET_HL(x, hi, lo)
  BY DEF BR64_GET_HL
<1>3. CASE b \in lo..hi
  <2>1. b - lo \in BR64_GET_HL(va, hi, lo) <=> b \in va
    BY <1>2, <1>3
  <2>2. b - lo \in BR64_GET_HL(vb, hi, lo) <=> b \in vb
    BY <1>1, <1>2, <1>3
  <2> QED
    BY <1>1, <1>3, <2>1, <2>2 DEF vb
<1>4. CASE b \notin lo..hi
  <2>1. va \cap (lo..hi) = vb \cap (lo..hi)
    BY <1>1, <1>4
  <2> QED
    BY <1>4, <2>1 DEF BR64_GET_HL, vb
<1> QED
  BY <1>3, <1>4

\* Every bit above the offset is in the range of exactly one level.
LEMMA OneLevel ==
  ASSUME NEW ty \in HPT_TYPES, NEW b \in 0..hpt_va_idx_hi(ty, hpt_type_max_lvl[ty])
  PROVE  LET in(l) == b \in (hpt_va_idx_hi(ty, l - 1) + 1)..hpt_va_idx_hi(ty, l)
             lvls == 1..hpt_type_max_lvl[ty]
         IN /\ b \in Int
            /\ \A l \in lvls : hpt_va_idx_hi(ty, l) \in Int /\ hpt_va_idx_hi(ty, l - 1) \in Int
            /\ hpt_va_idx_hi(ty, 0) = 11
            /\ b <= 11 => \A l \in lvls : ~in(l)
            /\ b > 11 => \E k \in lvls : \A l \in lvls : in(l) <=> l = k
<1>1. CASE ty = "NORM"
  <2>1. hpt_type_max_lvl[ty] = 2 /\ b \in 0..31 /\ 1..2 = {1, 2}
    BY <1>1, IdxHi DEF hpt_type_max_lvl
  <2>2. b > 11 => b \in 12..21 \/ b \in 22..31
    BY <2>1
  <2> QED
    BY <1>1, <2>1, <2>2, IdxHi
<1>2. CASE ty = "PAE"
  <2>1. hpt_type_max_lvl[ty] = 3 /\ b \in 0..31 /\ 1..3 = {1, 2, 3}
    BY <1>2, IdxHi DEF hpt_type_max_lvl
  <2>2. b > 11 => b \in 12..20 \/ b \in 21..29 \/ b \in 30..31
    BY <2>1
  <2> QED
    BY <1>2, <2>1, <2>2, IdxHi
<1>3. CASE ty \in {"LONG", "EPT"}
  <2>1. hpt_type_max_lvl[ty] = 4 /\ b \in 0..47 /\ 1..4 = {1, 2, 3, 4}
    BY <1>3, IdxHi DEF hpt_type_max_lvl
  <2>2. b > 11 => b \in 12..20 \/ b \in 21..29 \/ b \in 30..38 \/ b \in 39..47
    BY <2>1
  <2> QED
    BY <1>3, <2>1, <2>2, IdxHi
<1> QED
  BY <1>1, <1>2, <1>3 DEF HPT_TYPES

\* hpt_get_pm_idx: a bit of an address counts in the index of one level or in
\* the offset.
LEMMA OneIndex ==
  ASSUME NEW ty \in HPT_TYPES, NEW va \in u64,
         NEW b \in 0..hpt_va_idx_hi(ty, hpt_type_max_lvl[ty])
  PROVE  LET vb == BR64_SET_BIT(va, b, b \notin va)
             lvls == {l \in 1..hpt_type_max_lvl[ty] :
                        hpt_get_pm_idx(ty, l, va) # hpt_get_pm_idx(ty, l, vb)}
         IN Cardinality(lvls) = IF b <= hpt_va_idx_hi(ty, 0) THEN 0 ELSE 1
<1> DEFINE vb == BR64_SET_BIT(va, b, b \notin va)
           max == hpt_type_max_lvl[ty]
           lvls == {l \in 1..max : hpt_get_pm_idx(ty, l, va) # hpt_get_pm_idx(ty, l, vb)}
           in(l) == b \in (hpt_va_idx_hi(ty, l - 1) + 1)..hpt_va_idx_hi(ty, l)
<1>1. /\ b \in Int
      /\ \A l \in 1..max : hpt_va_idx_hi(ty, l) \in Int /\ hpt_va_idx_hi(ty, l - 1) \in Int
      /\ hpt_va_idx_hi(ty, 0) = 11
      /\ b <= 11 => \A l \in 1..max : ~in(l)
      /\ b > 11 => \E k \in 1..max : \A l \in 1..max : in(l) <=> l = k
  BY OneLevel
<1>2. va \in SUBSET Int
  BY DEF u64
<1>3. \A l \in 1..max : hpt_get_pm_idx(ty, l, va) # hpt_get_pm_idx(ty, l, vb) <=> in(l)
  <2>1. TAKE l \in 1..max
  <2>2. hpt_va_idx_hi(ty, l) \in Int /\ hpt_va_idx_hi(ty, l - 1) + 1 \in Int
    BY <1>1
  <2> QED
    BY <1>1, <1>2, <2>2, RangeDiffers DEF hpt_get_pm_idx
<1>4. lvls = {l \in 1..max : in(l)}
  BY <1>3
<1>5. CASE b <= 11
  <2>1. lvls = {}
    BY <1>1, <1>4, <1>5
  <2> QED
    BY <1>1, <1>5, <2>1, FS_EmptySet
<1>6. CASE b > 11
  <2>1. PICK k \in 1..max : \A l \in 1..max : in(l) <=> l = k
    BY <1>1, <1>6
  <2>2. lvls = {k}
    BY <1>4, <2>1
  <2>3. Cardinality({k}) = 1
    BY FS_Singleton
  <2> QED
    BY <1>1, <1>6, <2>2, <2>3
<1> QED
  BY <1>1, <1>5, <1>6

\* hpt_cr3_set_address and hpt_cr3_get_address
LEMMA RootOf ==
  ASSUME NEW ty \in HPT_TYPES, NEW f \in u64, NEW x \in SUBSET Int,
         NEW hi \in Int, hi = IF ty \in {"NORM", "PAE"} THEN 31 ELSE 51
  PROVE  LET new == hpt_cr3_set_address(ty, x, f \cap (12..hi))
         IN /\ new \in SUBSET Int
            /\ hpt_cr3_get_address(ty, new) = f \cap (12..hi)
            /\ new \cap {3, 4} = x \cap {3, 4}
<1> DEFINE a == f \cap (12..hi)
           new == hpt_cr3_set_address(ty, x, a)
<1>0. a \in SUBSET Int
  BY DEF u64
<1>1. CASE ty = "NORM"
  <2>1. new = ((x \ (12..31)) \cup (a \cap (12..31))) \ ((5..11) \cup (0..2))
    BY <1>0, <1>1, CopyBits DEF hpt_cr3_set_address
  <2> HIDE DEF new
  <2>2. new \in SUBSET Int
    BY <1>0, <2>1
  <2>3. hpt_cr3_get_address(ty, new) = new \cap (12..31)
    <3>1. BR64_COPY_BITS_HL({}, new, 31, 12, 0) = ({} \ (12..31)) \cup (new \cap (12..31))
      BY <2>2, CopyBits
    <3> QED
      BY <1>1, <3>1 DEF hpt_cr3_get_address
  <2>4. new \cap (12..31) = a
    <3>1. hi = 31
      BY <1>1
    <3>2. a \subseteq 12..31
      BY <3>1
    <3> HIDE DEF a
    <3>3. \A b \in 12..31 : b \in new <=> b \in a
      BY <2>1, <3>2
    <3> QED
      BY <3>2, <3>3
  <2>5. new \cap {3, 4} = x \cap {3, 4}
    BY <2>1
  <2> QED
    BY <2>2, <2>3, <2>4, <2>5 DEF new
<1>2. CASE ty = "PAE"
  <2>1. new = ((x \ (5..31)) \cup (a \cap (5..31))) \ (0..2)
    BY <1>0, <1>2, CopyBits DEF hpt_cr3_set_address
  <2> HIDE DEF new
  <2>2. new \in SUBSET Int
    BY <1>0, <2>1
  <2>3. hpt_cr3_get_address(ty, new) = new \cap (5..31)
    <3>1. BR64_COPY_BITS_HL({}, new, 31, 5, 0) = ({} \ (5..31)) \cup (new \cap (5..31))
      BY <2>2, CopyBits
    <3> QED
      BY <1>2, <3>1 DEF hpt_cr3_get_address
  <2>4. new \cap (5..31) = a
    <3>1. hi = 31
      BY <1>2
    <3>2. a \subseteq 12..31
      BY <3>1
    <3> HIDE DEF a
    <3>3. \A b \in 5..31 : b \in new <=> b \in a
      BY <2>1, <3>2
    <3>4. \A b \in a : b \in 5..31
      BY <3>2
    <3> QED
      BY <3>3, <3>4
  <2>5. new \cap {3, 4} = x \cap {3, 4}
    BY <2>1
  <2> QED
    BY <2>2, <2>3, <2>4, <2>5 DEF new
<1>3. CASE ty \in {"LONG", "EPT"}
  <2>1. new = (x \ (12..51)) \cup (a \cap (12..51))
    BY <1>0, <1>3, CopyBits DEF hpt_cr3_set_address
  <2> HIDE DEF new
  <2>2. new \in SUBSET Int
    BY <1>0, <2>1
  <2>3. hpt_cr3_get_address(ty, new) = new \cap (12..51)
    <3>1. BR64_COPY_BITS_HL({}, new, 51, 12, 0) = ({} \ (12..51)) \cup (new \cap (12..51))
      BY <2>2, CopyBits
    <3> QED
      BY <1>3, <3>1 DEF hpt_cr3_get_address
  <2>4. new \cap (12..51) = a
    <3>1. hi = 51
      BY <1>3
    <3>2. a \subseteq 12..51
      BY <3>1
    <3> HIDE DEF a
    <3>3. \A b : b \in new \cap (12..51) <=> b \in a
      BY <2>1, <3>2
    <3> QED
      BY <3>3
  <2>5. new \cap {3, 4} = x \cap {3, 4}
    BY <2>1
  <2> QED
    BY <2>2, <2>3, <2>4, <2>5 DEF new
<1> QED
  BY <1>1, <1>2, <1>3 DEF HPT_TYPES

----------------------------------------------------------------------------
(* The theorem. *)

WantType == [page: BOOLEAN, addr: SUBSET Int, prot: SUBSET Int, user: BOOLEAN,
             pmt: SUBSET Int, unused: SUBSET Int]

\* The entry means what was set, and the address is aligned.
Inv ==
  /\ t \in PagingTypes
  /\ Level(t, lvl)
  /\ want \in WantType
  /\ Means(t, lvl, pme, want.page, want.addr, want.prot, want.user, want.pmt, want.unused)
  /\ want.page => want.addr \cap (0..OffsetHi(t, lvl)) = {}

\* The fields of a zero entry have their types.
LEMMA ZeroFields ==
  ASSUME NEW ty, NEW l, Level(ty, l)
  PROVE  /\ hpt_pme_getprot(ty, l, {}) \subseteq Int
         /\ hpt_pme_getuser(ty, l, {}) \in BOOLEAN
         /\ hpt_pme_get_pmt(ty, l, {}) \subseteq Int
<1>1. hpt_pme_getprot(ty, l, {}) \subseteq {0, 1, 2}
  BY ProtRead
<1>2. hpt_pme_getuser(ty, l, {}) \in BOOLEAN
  BY DEF hpt_pme_getuser
<1>3. hpt_pme_get_pmt(ty, l, {}) \subseteq Int
  <2>1. CASE ty = "EPT"
    BY <2>1 DEF hpt_pme_get_pmt, BR64_GET_HL
  <2>2. CASE ty # "EPT"
    BY <2>2 DEF hpt_pme_get_pmt, hpt_pme_get_pcd, hpt_pme_get_pwt, BR64_GET_BIT, HPT_PMT_WB
  <2> QED
    BY <2>1, <2>2
<1> QED
  BY <1>1, <1>2, <1>3

\* A zero entry, before and after hpt_pme_set_page.
LEMMA InitInv == ASSUME HptConstants, EntryInit PROVE Inv
<1>1. t \in PagingTypes /\ Level(t, lvl)
  BY DEF EntryInit, Level, HptConstants
<1>2. /\ want.page = hpt_pme_is_page(t, lvl, {})
      /\ want.addr = hpt_pme_get_address(t, lvl, {})
      /\ want.prot = hpt_pme_getprot(t, lvl, {})
      /\ want.user = hpt_pme_getuser(t, lvl, {})
      /\ want.pmt = hpt_pme_get_pmt(t, lvl, {})
      /\ want.unused = hpt_pme_getunused({}, 2, 0)
      /\ DOMAIN want = {"page", "addr", "prot", "user", "pmt", "unused"}
      /\ want = [page |-> want.page, addr |-> want.addr, prot |-> want.prot,
                 user |-> want.user, pmt |-> want.pmt, unused |-> want.unused]
  BY DEF EntryInit, Fields
<1>3. /\ want.page = (lvl = 1) /\ want.addr = {} /\ want.unused = {}
  BY <1>1, <1>2, ZeroEntry
<1>4. want \in WantType
  <2>1. want.page \in BOOLEAN /\ want.addr \in SUBSET Int /\ want.unused \in SUBSET Int
    BY <1>3
  <2>2. want.prot \in SUBSET Int /\ want.pmt \in SUBSET Int
    BY <1>1, <1>2, ZeroFields
  <2>3. want.user \in BOOLEAN
    <3>1. hpt_pme_getuser(t, lvl, {}) \in BOOLEAN
      BY <1>1, ZeroFields
    <3> QED
      BY <1>2, <3>1, Zenon
  <2> QED
    BY <1>2, <2>1, <2>2, <2>3 DEF WantType
<1>5. Means(t, lvl, {}, want.page, want.addr, want.prot, want.user, want.pmt, want.unused)
  <2>1. {} \subseteq EntryBits(t) /\ {} \cap AddressBits(t, lvl, want.page) = {}
        /\ {} \cap Mbz(t, lvl, want.page) = {} /\ Unused({}) = {}
    BY <1>1, ZeroEntry
  <2> QED
    BY <1>2, <1>3, <2>1, Zenon DEF Means
<1> QED
  BY <1>1, <1>3, <1>4, <1>5 DEF Inv, EntryInit

\* Every step keeps the invariant.
LEMMA NextInv ==
  ASSUME Callers, Inv, [EntryNext]_entryVars
  PROVE  Inv'
<1> USE DEF Inv
<1>1. t \in PagingTypes /\ Level(t, lvl) /\ Frames \subseteq u64
  BY DEF Callers, HptConstants
<1>2. ASSUME NEW is_page \in BOOLEAN, Fresh(is_page) PROVE Inv'
  <2>1. Means(t, lvl, pme', is_page, {}, hpt_pme_getprot(t, lvl, {}),
              hpt_pme_getuser(t, lvl, {}), hpt_pme_get_pmt(t, lvl, {}), {})
    BY <1>1, <1>2, AfterPage DEF Fresh
  <2>2. want' = [page |-> is_page, addr |-> {}, prot |-> hpt_pme_getprot(t, lvl, {}),
                 user |-> hpt_pme_getuser(t, lvl, {}), pmt |-> hpt_pme_get_pmt(t, lvl, {}),
                 unused |-> {}]
    BY <1>1, <1>2, ZeroEntry DEF Fresh, Fields
  <2>3. want' \in WantType
    BY <1>1, <2>2, ZeroFields DEF WantType
  <2> QED
    BY <1>1, <1>2, <2>1, <2>2, <2>3 DEF Fresh
<1>3. ASSUME NEW f \in Frames, SetAddress(f) PROVE Inv'
  <2> DEFINE a == Aligned(t, lvl, want.page, f)
  <2>0. want.page \in BOOLEAN
    BY DEF WantType
  <2>1. a \subseteq AddressBits(t, lvl, want.page) /\ (want.page => a \cap (0..OffsetHi(t, lvl)) = {})
    BY <1>1, <2>0, AlignedFits DEF Callers
  <2>2. Means(t, lvl, hpt_pme_set_address(t, lvl, pme, a), want.page, a, want.prot,
              want.user, want.pmt, want.unused)
    BY <1>1, <2>0, <2>1, AfterAddress
  <2>3. a \subseteq Int
    BY <1>1, <2>1 DEF AddressBits
  <2>4. pme' = hpt_pme_set_address(t, lvl, pme, a) /\ want' = [want EXCEPT !.addr = a]
        /\ UNCHANGED <<t, lvl>>
    BY <1>3 DEF SetAddress
  <2> HIDE DEF a
  <2>5. want' = [page |-> want.page, addr |-> a, prot |-> want.prot, user |-> want.user,
                 pmt |-> want.pmt, unused |-> want.unused]
    BY <2>4 DEF WantType
  <2>6. want' \in WantType
    BY <2>3, <2>5 DEF WantType
  <2> QED
    BY <1>1, <2>1, <2>2, <2>4, <2>5, <2>6
<1>4. ASSUME NEW perms \in SUBSET HPT_PROTS_RWX, SetProt(perms) PROVE Inv'
  <2>0. want.page \in BOOLEAN
    BY DEF WantType
  <2>1. /\ hpt_prot_is_valid(t, lvl, perms)
        /\ t = "PAE" /\ lvl = 3 => perms \in {{}, HPT_PROTS_RWX}
        /\ pme' = hpt_pme_setprot(t, lvl, pme, perms)
        /\ want' = [want EXCEPT !.prot = perms]
        /\ UNCHANGED <<t, lvl>>
    BY <1>4 DEF SetProt, Callers
  <2>2. Means(t, lvl, pme', want.page, want.addr, perms, want.user, want.pmt, want.unused)
    BY <1>1, <2>0, <2>1, AfterProt
  <2>3. want' = [page |-> want.page, addr |-> want.addr, prot |-> perms, user |-> want.user,
                 pmt |-> want.pmt, unused |-> want.unused]
    BY <2>1 DEF WantType
  <2>4. perms \subseteq Int
    BY DEF HPT_PROTS_RWX, R, W, X
  <2>5. want' \in WantType
    BY <2>3, <2>4 DEF WantType
  <2> QED
    BY <1>1, <2>1, <2>2, <2>3, <2>5
<1>5. ASSUME NEW user \in BOOLEAN, SetUser(user) PROVE Inv'
  <2>0. want.page \in BOOLEAN
    BY DEF WantType
  <2>1. /\ user \/ HasUser(t, lvl)
        /\ pme' = hpt_pme_setuser(t, lvl, pme, user)
        /\ want' = [want EXCEPT !.user = user]
        /\ UNCHANGED <<t, lvl>>
    BY <1>5 DEF SetUser
  <2>2. Means(t, lvl, pme', want.page, want.addr, want.prot, user, want.pmt, want.unused)
    BY <1>1, <2>0, <2>1, AfterUser
  <2>3. want' = [page |-> want.page, addr |-> want.addr, prot |-> want.prot, user |-> user,
                 pmt |-> want.pmt, unused |-> want.unused]
    BY <2>1 DEF WantType
  <2>4. want' \in WantType
    BY <2>3 DEF WantType
  <2> QED
    BY <1>1, <2>1, <2>2, <2>3, <2>4
<1>6. ASSUME NEW pmt \in hpt_pmt_t, SetCache(pmt) PROVE Inv'
  <2>0. want.page \in BOOLEAN
    BY DEF WantType
  <2>1. /\ PmtIsValid(t, lvl, pme, pmt)
        /\ pme' = hpt_pme_set_pmt(t, lvl, pme, pmt)
        /\ want' = [want EXCEPT !.pmt = pmt]
        /\ UNCHANGED <<t, lvl>>
    BY <1>6 DEF SetCache
  <2>2. Means(t, lvl, pme', want.page, want.addr, want.prot, want.user, pmt, want.unused)
    BY <1>1, <2>0, <2>1, AfterCache
  <2>3. want' = [page |-> want.page, addr |-> want.addr, prot |-> want.prot,
                 user |-> want.user, pmt |-> pmt, unused |-> want.unused]
    BY <2>1 DEF WantType
  <2>4. pmt \subseteq Int
    BY DEF hpt_pmt_t, HPT_PMT_UC, HPT_PMT_WC, HPT_PMT_WT, HPT_PMT_WP, HPT_PMT_WB
  <2>5. want' \in WantType
    BY <2>3, <2>4 DEF WantType
  <2> QED
    BY <1>1, <2>1, <2>2, <2>3, <2>5
<1>7. ASSUME NEW hi \in 1..2, NEW lo \in UnusedLo, NEW val \in {{0, 1}, {1, 2}},
             SetUnused(hi, lo, val)
      PROVE  Inv'
  <2> DEFINE n == (want.unused \ (0..hi)) \cup (val \cap (0..hi))
  <2>0. want.page \in BOOLEAN /\ lo = 0 /\ val \in SUBSET (0..2)
    BY DEF WantType, Callers
  <2>1. /\ pme' = hpt_pme_setunused(pme, hi, 0, val)
        /\ want' = [want EXCEPT !.unused = n]
        /\ UNCHANGED <<t, lvl>>
    BY <1>7, <2>0 DEF SetUnused
  <2>2. Means(t, lvl, pme', want.page, want.addr, want.prot, want.user, want.pmt, n)
    <3>1. Means(t, lvl, pme, want.page, want.addr, want.prot, want.user, want.pmt, want.unused)
      OBVIOUS
    <3> HIDE DEF Inv
    <3>2. Means(t, lvl, hpt_pme_setunused(pme, hi, 0, val), want.page, want.addr, want.prot,
                want.user, want.pmt, n)
      BY <1>1, <2>0, <3>1, AfterUnused
    <3> QED
      BY <2>1, <3>2, Zenon
  <2>3. n \subseteq Int
    BY <2>0 DEF WantType
  <2> HIDE DEF n
  <2>4. want' = [page |-> want.page, addr |-> want.addr, prot |-> want.prot,
                 user |-> want.user, pmt |-> want.pmt, unused |-> n]
    BY <2>1 DEF WantType
  <2>5. want' \in WantType
    BY <2>3, <2>4 DEF WantType
  <2> QED
    BY <1>1, <2>1, <2>2, <2>4, <2>5
<1>8. CASE StoreAndLoad
  <2>1. pme' = pme
    BY <1>8 DEF StoreAndLoad, hpt_pm_stored, Means, EntryBits
  <2> QED
    BY <1>8, <2>1 DEF StoreAndLoad
<1>9. CASE UNCHANGED entryVars
  BY <1>9 DEF entryVars
<1> QED
  BY <1>2, <1>3, <1>4, <1>5, <1>6, <1>7, <1>8, <1>9 DEF EntryNext

\* The invariant implies what the run checks.
LEMMA InvKept ==
  ASSUME Callers, Inv
  PROVE  FieldsKept
<1>1. /\ t \in PagingTypes /\ t \in HPT_TYPES /\ Level(t, lvl) /\ Frames \subseteq u64
      /\ want.page \in BOOLEAN /\ pme \in SUBSET EntryBits(t)
      /\ hpt_pme_is_page(t, lvl, pme) = want.page
  BY DEF Callers, HptConstants, Inv, Level, WantType, Means
<1>2. EntryTypeOK
  BY <1>1 DEF EntryTypeOK, Level, EntryBits
<1>3. AddressKept
  <2>1. hpt_pme_get_address(t, lvl, pme) = want.addr
    BY <1>1, GetAddress DEF Inv, Means
  <2>2. ASSUME NEW va \in Frames, want.page
        PROVE  LET pa == hpt_pmeo_va_to_pa(t, lvl, pme, va)
                   off == 0..hpt_va_idx_hi(t, lvl - 1)
               IN pa \cap off = va \cap off /\ pa \ off = want.addr
    <3> DEFINE off == 0..hpt_va_idx_hi(t, lvl - 1)
    <3>1. want.addr \cap off = {}
      BY <2>2 DEF Inv, OffsetHi
    <3>2. hpt_pmeo_va_to_pa(t, lvl, pme, va) = want.addr \cup (va \cap off)
      BY <2>1 DEF hpt_pmeo_va_to_pa
    <3> QED
      BY <3>1, <3>2
  <2> QED
    BY <2>1, <2>2 DEF AddressKept
<1>4. ProtKept
  BY DEF ProtKept, Inv, Means
<1>5. CacheKept
  BY DEF CacheKept, Inv, Means
<1>6. UnusedKept
  <2>1. hpt_pme_getunused(pme, 2, 0) = Unused(pme)
    <3>1. UnusedBits = 9..11 /\ 2 + 9 = 11 /\ 0 + 9 = 9
      BY DEF UnusedBits
    <3> QED
      BY <3>1 DEF hpt_pme_getunused, BR64_GET_HL, Unused
  <2>2. Unused(pme) = want.unused
    BY DEF Inv, Means
  <2>3. Unused(pme) \subseteq 0..2
    BY DEF Unused, UnusedBits
  <2> QED
    BY <2>1, <2>2, <2>3 DEF UnusedKept, Callers
<1>7. ReservedClear
  BY DEF ReservedClear, Inv, Means
<1>8. IndexSplit
  BY <1>1, OneIndex DEF IndexSplit, Callers, HptConstants
<1>9. RootKept
  <2>1. ASSUME NEW ty \in PagingTypes, NEW f \in Frames, NEW g \in Frames, NEW caching \in {{}, {3, 4}}
        PROVE  LET bits == 12..(IF ty \in {"NORM", "PAE"} THEN 31 ELSE 51)
                   old == hpt_cr3_set_address(ty, caching, g \cap bits)
                   new == hpt_cr3_set_address(ty, old, f \cap bits)
               IN /\ hpt_cr3_get_address(ty, new) = f \cap bits
                  /\ new \cap {3, 4} = caching
    <3> DEFINE hi == IF ty \in {"NORM", "PAE"} THEN 31 ELSE 51
               old == hpt_cr3_set_address(ty, caching, g \cap (12..hi))
               new == hpt_cr3_set_address(ty, old, f \cap (12..hi))
    <3>0. ty \in HPT_TYPES
      BY DEF Callers, HptConstants
    <3>1. caching \in SUBSET Int /\ caching \cap {3, 4} = caching /\ hi \in Int
      OBVIOUS
    <3>2. old \in SUBSET Int /\ old \cap {3, 4} = caching
      BY <1>1, <3>0, <3>1, RootOf
    <3> HIDE DEF old
    <3>3. hpt_cr3_get_address(ty, new) = f \cap (12..hi) /\ new \cap {3, 4} = caching
      BY <1>1, <3>0, <3>1, <3>2, RootOf
    <3> QED
      BY <3>3 DEF old
  <2> QED
    BY <2>1 DEF RootKept
<1> QED
  BY <1>2, <1>3, <1>4, <1>5, <1>6, <1>7, <1>8, <1>9 DEF FieldsKept

\* However the fields of an entry are set, in any order and again, for any
\* addresses and for every type and level of paging, each getter of hpt.c
\* returns what was set last, an address is translated by it (hpt_pmeo_va_to_pa),
\* no bit that must be zero is set, each bit of an address selects at one level
\* and the root can be read back from CR3 (FieldsKept), as long as callers keep
\* to Callers.
THEOREM FieldsAlwaysKept ==
  ASSUME Callers
  PROVE  EntrySpec => []FieldsKept
<1>1. EntryInit => Inv
  BY InitInv DEF Callers
<1>2. Inv /\ [EntryNext]_entryVars => Inv'
  BY NextInv
<1>3. Inv => FieldsKept
  BY InvKept
<1> QED
  BY <1>1, <1>2, <1>3, PTL DEF EntrySpec
=============================================================================
