-------------------------------- MODULE Hpt --------------------------------
(***************************************************************************)
(* Page map entries (hpt.c, hpto.c, bitfield.h): the accessors of the fields *)
(* of an entry, for 32-bit, PAE, 64-bit and EPT paging, and of the address  *)
(* in CR3 and in the EPT pointer.                                           *)
(*                                                                         *)
(* A u64 is the set of its bits that are 1. A caller starts from a zero     *)
(* entry, says whether it is a page, and then sets the other fields in any  *)
(* order and any number of times, as shv_build_ept does. The variable want  *)
(* remembers what was set.                                                  *)
(***************************************************************************)
EXTENDS Integers, FiniteSets

CONSTANTS
  PagingTypes, \* the types of paging to consider
  Frames,      \* physical addresses, as sets of bits, before they are aligned
  HighNorm,    \* whether 4 MB pages may lie above 4 GB
  PaeTopRWX,   \* whether PDPTEs get no protection but NONE and RWX
  UnusedLo     \* the low ends at which unused bits are set

u64 == SUBSET (0..63)
HPT_TYPES == {"NORM", "PAE", "LONG", "EPT"}
R == 0
W == 1
X == 2
HPT_PROTS_RWX == {R, W, X}

\* What the constants must be.
HptConstants ==
  /\ PagingTypes \subseteq HPT_TYPES
  /\ Frames \subseteq u64
  /\ HighNorm \in BOOLEAN
  /\ PaeTopRWX \in BOOLEAN
  /\ UnusedLo \subseteq 0..1

\* What the callers of the code keep to: 4 MB pages lie below 4 GB, PDPTEs of
\* PAE paging get no protection but NONE and RWX, and unused bits are set from
\* bit 0 on. Without these, setters and getters do not agree.
Callers == HptConstants /\ ~HighNorm /\ PaeTopRWX = TRUE /\ UnusedLo = {0}

VARIABLES
  t, lvl,   \* the type and level of the entry
  pme,      \* the entry
  want      \* the fields that were set since it was zero

entryVars == <<t, lvl, pme, want>>

----------------------------------------------------------------------------
(* bitfield.h *)

BR64_GET_HL(x, hi, lo) == {b - lo : b \in x \cap (lo..hi)}
BR64_SET_HL(x, hi, lo, val) == (x \ (lo..hi)) \cup {b + lo : b \in val}
BR64_GET_BIT(x, pos) == pos \in x
BR64_SET_BIT(x, pos, val) == IF val THEN x \cup {pos} ELSE x \ {pos}
BR64_COPY_BITS_HL(dst, src, src_hi, src_lo, offset) ==
  (dst \ ((src_lo + offset)..(src_hi + offset)))
    \cup {b + offset : b \in src \cap (src_lo..src_hi)}

----------------------------------------------------------------------------
(* hpt.c *)

hpt_type_max_lvl == [NORM |-> 2, PAE |-> 3, LONG |-> 4, EPT |-> 4]

\* The highest bit of a virtual address that a level translates; level 0 is
\* the offset in a page.
va_idx_hi ==
  [NORM |-> <<11, 21, 31>>,         PAE |-> <<11, 20, 29, 31>>,
   LONG |-> <<11, 20, 29, 38, 47>>, EPT |-> <<11, 20, 29, 38, 47>>]
hpt_va_idx_hi(ty, l) == va_idx_hi[ty][l + 1]

\* Whether an entry has a bit that says it is a page.
HasPs(ty, l) == l = 2 \/ (l = 3 /\ ty \in {"LONG", "EPT"})

hpt_pme_is_page(ty, l, e) == l = 1 \/ (HasPs(ty, l) /\ BR64_GET_BIT(e, 7))
hpt_pme_set_page(ty, l, e, is_page) ==
  IF HasPs(ty, l) THEN BR64_SET_BIT(e, 7, is_page) ELSE e

\* Only a zero entry is asked to be a page, and only one that can be.
MayBePage(ty, l, is_page) == HasPs(ty, l) \/ is_page = (l = 1)

HasUser(ty, l) == ty \in {"NORM", "LONG"} \/ (ty = "PAE" /\ l # 3)
hpt_pme_getuser(ty, l, e) == HasUser(ty, l) => BR64_GET_BIT(e, 2)
hpt_pme_setuser(ty, l, e, user) ==
  IF HasUser(ty, l) THEN BR64_SET_BIT(e, 2, user) ELSE e

hpt_prot_is_valid(ty, l, perms) ==
  CASE ty = "NORM" -> perms \in {{}, {R, X}, HPT_PROTS_RWX}
    [] ty = "PAE"  -> \/ perms \in {{}, HPT_PROTS_RWX, {R, X}, {R, W}}
                      \/ perms = {R} /\ l # 3
    [] ty = "LONG" -> perms \in {{}, {R}, {R, X}, {R, W}, HPT_PROTS_RWX}
    [] ty = "EPT"  -> perms \subseteq HPT_PROTS_RWX

HasNx(ty, l) == ty = "LONG" \/ (ty = "PAE" /\ l # 3)

hpt_pme_setprot(ty, l, e, perms) ==
  LET r == BR64_SET_BIT(e, 0, R \in perms)
      rw == IF ty = "PAE" /\ l = 3 THEN r ELSE BR64_SET_BIT(r, 1, W \in perms)
  IN IF ty = "EPT" THEN BR64_SET_HL(e, 2, 0, perms)
     ELSE IF HasNx(ty, l) THEN BR64_SET_BIT(rw, 63, X \notin perms)
     ELSE rw

hpt_pme_getprot(ty, l, e) ==
  LET r == BR64_GET_BIT(e, 0)
      w == IF ty = "PAE" /\ l = 3 THEN r ELSE BR64_GET_BIT(e, 1)
      x == IF ty = "EPT" THEN BR64_GET_BIT(e, 2)
           ELSE IF HasNx(ty, l) THEN ~BR64_GET_BIT(e, 63)
           ELSE r
  IN {p \in HPT_PROTS_RWX : \/ p = R /\ r
                            \/ p = W /\ w
                            \/ p = X /\ x}

hpt_pme_is_present(ty, l, e) ==
  IF ty = "EPT" THEN hpt_pme_getprot(ty, l, e) # {}
  ELSE R \in hpt_pme_getprot(ty, l, e)

\* The bits of an address that an entry holds where they are in the address.
AddressHi(ty) == IF ty = "NORM" THEN 31 ELSE 51
AddressLo(ty, l, e) ==
  IF l > 1 /\ ty \in {"PAE", "LONG"} /\ hpt_pme_is_page(ty, l, e)
  THEN 13 ELSE 12
IsPse(ty, l, e) == ty = "NORM" /\ l = 2 /\ hpt_pme_is_page(ty, l, e)

\* Of a 4 MB page the code passes the bits of the address, or of the entry,
\* where BR64_COPY_BITS_HL takes those of the source. The first of the two
\* copies of hpt_pme_set_address has no effect: the second starts from entry
\* again.
hpt_pme_get_address(ty, l, e) ==
  IF IsPse(ty, l, e)
  THEN BR64_COPY_BITS_HL(BR64_COPY_BITS_HL({}, e, 39, 32, 32 - 13),
                         e, 31, 22, 22 - 22)
  ELSE BR64_COPY_BITS_HL({}, e, AddressHi(ty), AddressLo(ty, l, e), 0)
\* A variant that leaves the old address bits in place.
SetAddressNoClear(ty, l, e, addr) == e \cup addr
hpt_pme_set_address(ty, l, e, addr) ==
  IF IsPse(ty, l, e)
  THEN BR64_COPY_BITS_HL(e, addr, 31, 22, 22 - 22)
  ELSE BR64_COPY_BITS_HL(e, addr, AddressHi(ty), AddressLo(ty, l, e), 0)

\* The unused bits 9 to 11 stand for bits 0 to 2 of the value.
hpt_pme_setunused(e, hi, lo, val) == BR64_COPY_BITS_HL(e, val, hi, lo, 9)
hpt_pme_getunused(e, hi, lo) == BR64_GET_HL(e, hi + 9, lo + 9)

Pat(l) == IF l = 1 THEN 7 ELSE 12
hpt_pme_set_pat(ty, l, e, pat) ==
  IF hpt_pme_is_page(ty, l, e) THEN BR64_SET_BIT(e, Pat(l), pat) ELSE e

HPT_PMT_UC == {}
HPT_PMT_WC == {0}
HPT_PMT_WT == {2}
HPT_PMT_WP == {0, 2}
HPT_PMT_WB == {1, 2}
hpt_pmt_t == {HPT_PMT_UC, HPT_PMT_WC, HPT_PMT_WT, HPT_PMT_WP, HPT_PMT_WB}

hpt_pme_get_pcd(e) == BR64_GET_BIT(e, 4)
hpt_pme_set_pcd(e, pcd) == BR64_SET_BIT(e, 4, pcd)
hpt_pme_get_pwt(e) == BR64_GET_BIT(e, 3)
hpt_pme_set_pwt(e, pwt) == BR64_SET_BIT(e, 3, pwt)

\* The types that can be set: without EPT write-protected needs the PAT, and
\* an EPT entry has a type only if it is a page.
PmtIsValid(ty, l, e, pmt) ==
  IF ty = "EPT" THEN hpt_pme_is_page(ty, l, e) ELSE pmt # HPT_PMT_WP

hpt_pme_set_pmt(ty, l, e, pmt) ==
  LET pat == hpt_pme_set_pat(ty, l, e, FALSE)
      pcd == hpt_pme_set_pcd(pat, pmt \in {HPT_PMT_UC, HPT_PMT_WC})
  IN IF ty = "EPT" THEN BR64_SET_HL(e, 5, 3, pmt)
     ELSE hpt_pme_set_pwt(pcd, pmt \in {HPT_PMT_UC, HPT_PMT_WT})
hpt_pme_get_pmt(ty, l, e) ==
  LET pcd == hpt_pme_get_pcd(e)
      pwt == hpt_pme_get_pwt(e)
  IN CASE ty = "EPT" -> BR64_GET_HL(e, 5, 3)
       [] ty # "EPT" /\ ~pcd /\ ~pwt -> HPT_PMT_WB
       [] ty # "EPT" /\ ~pcd /\ pwt -> HPT_PMT_WT
       [] ty # "EPT" /\ pcd /\ ~pwt -> HPT_PMT_WC
       [] ty # "EPT" /\ pcd /\ pwt -> HPT_PMT_UC

\* CR3 and the EPT pointer.
hpt_cr3_set_address(ty, x, a) ==
  CASE ty = "NORM" -> BR64_COPY_BITS_HL(x, a, 31, 12, 0) \ ((5..11) \cup (0..2))
    [] ty = "PAE"  -> BR64_COPY_BITS_HL(x, a, 31, 5, 0) \ (0..2)
    [] ty \in {"LONG", "EPT"} -> BR64_COPY_BITS_HL(x, a, 51, 12, 0)
hpt_cr3_get_address(ty, x) ==
  CASE ty = "NORM" -> BR64_COPY_BITS_HL({}, x, 31, 12, 0)
    [] ty = "PAE"  -> BR64_COPY_BITS_HL({}, x, 31, 5, 0)
    [] ty \in {"LONG", "EPT"} -> BR64_COPY_BITS_HL({}, x, 51, 12, 0)

\* hpt_consts.h: the bits that must be zero in an entry.
Mbz(ty, l, page) ==
  CASE ty = "NORM" -> IF l = 2 /\ page THEN {21} ELSE {}
    [] ty = "PAE"  -> (52..62) \cup
                      IF l = 3 THEN {63} \cup (5..8) \cup (1..2) ELSE {}
    [] ty = "LONG" -> IF l = 4 THEN {7, 8} ELSE {}
    [] ty = "EPT"  -> (IF ~page THEN 3..6 ELSE {}) \cup
                      (IF l = 4 THEN {7} ELSE {})

\* A page map of 32-bit paging has entries of 32 bits.
hpt_pm_stored(ty, e) == IF ty = "NORM" THEN e \cap (0..31) ELSE e

\* The index of va in a page map of level l.
hpt_get_pm_idx(ty, l, va) ==
  BR64_GET_HL(va, hpt_va_idx_hi(ty, l), hpt_va_idx_hi(ty, l - 1) + 1)

\* hpto.c: the physical address of va, the sum of a base and an offset. The
\* base has no bit of the offset, so that the sum is the union.
hpt_pmeo_va_to_pa(ty, l, e, va) ==
  hpt_pme_get_address(ty, l, e) \cup (va \cap (0..hpt_va_idx_hi(ty, l - 1)))

----------------------------------------------------------------------------
(* The calls of a client. *)

\* The fields of the entry as the accessors return them.
Fields(ty, l, e) ==
  [page   |-> hpt_pme_is_page(ty, l, e),
   addr   |-> hpt_pme_get_address(ty, l, e),
   prot   |-> hpt_pme_getprot(ty, l, e),
   user   |-> hpt_pme_getuser(ty, l, e),
   pmt    |-> hpt_pme_get_pmt(ty, l, e),
   unused |-> hpt_pme_getunused(e, 2, 0)]

EntryInit ==
  /\ t \in PagingTypes
  /\ lvl \in 1..hpt_type_max_lvl[t]
  /\ pme = {}
  /\ want = Fields(t, lvl, {})

\* pmeo.pme = 0; hpt_pmeo_set_page(&pmeo, is_page)
Fresh(is_page) ==
  /\ MayBePage(t, lvl, is_page)
  /\ pme' = hpt_pme_set_page(t, lvl, {}, is_page)
  /\ want' = [Fields(t, lvl, {}) EXCEPT !.page = is_page]
  /\ UNCHANGED <<t, lvl>>

\* Addresses are aligned to what they are the address of.
Aligned(ty, l, page, f) ==
  LET lo == IF page THEN hpt_va_idx_hi(ty, l - 1) + 1 ELSE 12
      hi == IF ty # "NORM" THEN 51
            ELSE IF HighNorm /\ page /\ l = 2 THEN 39 ELSE 31
  IN f \cap (lo..hi)

SetAddress(f) ==
  LET a == Aligned(t, lvl, want.page, f) IN
  /\ pme' = hpt_pme_set_address(t, lvl, pme, a)
  /\ want' = [want EXCEPT !.addr = a]
  /\ UNCHANGED <<t, lvl>>

SetProt(perms) ==
  /\ hpt_prot_is_valid(t, lvl, perms)
  /\ PaeTopRWX /\ t = "PAE" /\ lvl = 3 => perms \in {{}, HPT_PROTS_RWX}
  /\ pme' = hpt_pme_setprot(t, lvl, pme, perms)
  /\ want' = [want EXCEPT !.prot = perms]
  /\ UNCHANGED <<t, lvl>>

SetUser(user) ==
  /\ user \/ HasUser(t, lvl)
  /\ pme' = hpt_pme_setuser(t, lvl, pme, user)
  /\ want' = [want EXCEPT !.user = user]
  /\ UNCHANGED <<t, lvl>>

SetCache(pmt) ==
  /\ PmtIsValid(t, lvl, pme, pmt)
  /\ pme' = hpt_pme_set_pmt(t, lvl, pme, pmt)
  /\ want' = [want EXCEPT !.pmt = pmt]
  /\ UNCHANGED <<t, lvl>>

SetUnused(hi, lo, val) ==
  /\ hi > lo
  /\ pme' = hpt_pme_setunused(pme, hi, lo, val)
  /\ want' = [want EXCEPT !.unused = (@ \ (lo..hi)) \cup (val \cap (lo..hi))]
  /\ UNCHANGED <<t, lvl>>

\* hpt_pm_set_pme_by_idx and hpt_pm_get_pme_by_idx
StoreAndLoad ==
  /\ pme' = hpt_pm_stored(t, pme)
  /\ UNCHANGED <<t, lvl, want>>

EntryNext ==
  \/ \E is_page \in BOOLEAN : Fresh(is_page)
  \/ \E f \in Frames : SetAddress(f)
  \/ \E perms \in SUBSET HPT_PROTS_RWX : SetProt(perms)
  \/ \E user \in BOOLEAN : SetUser(user)
  \/ \E pmt \in hpt_pmt_t : SetCache(pmt)
  \/ \E hi \in 1..2, lo \in UnusedLo, val \in {{0, 1}, {1, 2}} : SetUnused(hi, lo, val)
  \/ StoreAndLoad

EntrySpec == EntryInit /\ [][EntryNext]_entryVars

----------------------------------------------------------------------------

\* hpt_pme_t is a u64, and a page map of 32-bit paging holds u32.
EntryTypeOK ==
  /\ t \in PagingTypes
  /\ lvl \in 1..hpt_type_max_lvl[t]
  /\ pme \in SUBSET (IF t = "NORM" THEN 0..31 ELSE 0..63)

\* hpt_pme_get_address returns the address that was set last, whatever other
\* fields were set before and after, and a virtual address is translated to
\* that address plus its own offset (hpt_pmeo_va_to_pa).
AddressKept ==
  /\ hpt_pme_get_address(t, lvl, pme) = want.addr
  /\ \A va \in Frames :
       want.page =>
         LET pa == hpt_pmeo_va_to_pa(t, lvl, pme, va)
             off == 0..hpt_va_idx_hi(t, lvl - 1)
         IN pa \cap off = va \cap off /\ pa \ off = want.addr

\* hpt_pme_getprot, hpt_pme_getuser and hpt_pme_is_page return what was set
\* last, whatever other fields were set before and after.
ProtKept ==
  /\ hpt_pme_getprot(t, lvl, pme) = want.prot
  /\ hpt_pme_getuser(t, lvl, pme) = want.user
  /\ hpt_pme_is_page(t, lvl, pme) = want.page

\* hpt_pme_get_pmt returns the memory type that was set last, whatever other
\* fields were set before and after.
CacheKept ==
  (t = "EPT" => want.page) => hpt_pme_get_pmt(t, lvl, pme) = want.pmt

\* hpt_pme_getunused returns the bits that were set last, at the positions at
\* which they were set.
UnusedKept ==
  \A lo \in UnusedLo : hpt_pme_getunused(pme, 2, lo) = want.unused \cap (lo..2)

\* The bits that hpt_consts.h calls MBZ for the type, the level and the kind
\* of the entry stay zero: the processor faults on an entry that sets one.
ReservedClear == pme \cap Mbz(t, lvl, want.page) = {}

\* Every bit of a virtual address up to the highest that is translated selects
\* in exactly one place: in the index of one level or in the offset.
IndexSplit ==
  \A ty \in PagingTypes, va \in Frames :
    \A b \in 0..hpt_va_idx_hi(ty, hpt_type_max_lvl[ty]) :
      LET vb == BR64_SET_BIT(va, b, b \notin va)
          lvls == {l \in 1..hpt_type_max_lvl[ty] :
                     hpt_get_pm_idx(ty, l, va) # hpt_get_pm_idx(ty, l, vb)}
      IN Cardinality(lvls) = IF b <= hpt_va_idx_hi(ty, 0) THEN 0 ELSE 1

\* The address of the root page map can be read back from CR3 or the EPT
\* pointer, whatever address was there before, and setting it leaves the
\* caching bits of CR3 alone.
RootKept ==
  \A ty \in PagingTypes, f, g \in Frames, caching \in {{}, {3, 4}} :
    LET bits == 12..(IF ty \in {"NORM", "PAE"} THEN 31 ELSE 51)
        old == hpt_cr3_set_address(ty, caching, g \cap bits)
        new == hpt_cr3_set_address(ty, old, f \cap bits)
    IN /\ hpt_cr3_get_address(ty, new) = f \cap bits
       /\ new \cap {3, 4} = caching

\* However its fields are set (hpt.c), in any order and again, an entry is what its
\* client means and no setter reaches into the field of another.
FieldsKept ==
  /\ EntryTypeOK
  /\ AddressKept
  /\ ProtKept
  /\ CacheKept
  /\ UnusedKept
  /\ ReservedClear
  /\ IndexSplit
  /\ RootKept
============================================================================
