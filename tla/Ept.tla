-------------------------------- MODULE Ept --------------------------------
(***************************************************************************)
(* shv_build_ept (shv-ept.c), the client of the page table walker: the EPT  *)
(* of one vcpu and one value of ept_num >> 4, built for one ept_num after    *)
(* another while the guest is stopped in a VM exit.                          *)
(*                                                                         *)
(* An address is the number of its 4K page. Memory types are left to module  *)
(* MemType and INVEPT to module Guest.                                      *)
(***************************************************************************)
EXTENDS Hptw, Sequences

CONSTANTS
  RealModeEnd,      \* 0x00100000, also _shv_ept_low
  EptHigh,          \* _shv_ept_high
  Lapic,            \* 0xfee00000
  Console,          \* 0x000b8000
  Target,           \* 0x12340000
  LargePages,       \* the addresses of large_pages[0] and large_pages[1]
  EptTarget,        \* the address of ept_target[0]
  Firsts,           \* the first ept_num of an EPT
  Count             \* how many ept_nums share an EPT (16)

NumPages == Fanout^MaxLvl
EptPages == 0..(NumPages - 1)
AddressOf(n) == EptTarget + n     \* ept_target[n]
LargeSize == Fanout               \* pages of a page of level 2

\* The image is linked at 1M and holds large_pages, which are aligned; what is
\* mapped apart from it lies outside.
EptConstants ==
  /\ 2 \in PageLvls
  /\ Console \in 0..(RealModeEnd - 1)
  /\ RealModeEnd < EptHigh
  /\ \A i \in {0, 1} : /\ LargePages[i] % LargeSize = 0
                       /\ LargePages[i] \in RealModeEnd..(EptHigh - LargeSize)
  /\ LargePages[0] # LargePages[1]
  /\ {Lapic, Target} \subseteq EptHigh..(NumPages - 1)
  /\ Lapic # Target

VARIABLES
  large,        \* SHV_USE_LARGE_PAGE of g_shv_opt
  first,        \* the first ept_num of this EPT
  state,        \* "start", "build", "built", or "failed": an ASSERT halts
  ept_num,      \* the ept_num that is or was built
  ept_valid,
  todo,         \* the insertions that shv_build_ept has still to make
  mem           \* the first bytes of ept_target and large_pages

eptvars == <<large, first, state, ept_num, ept_valid, todo, mem>>
allvars == <<vars, eptvars>>

Targets == {AddressOf(n) : n \in first..(first + Count - 1)}
Larges == {LargePages[0], LargePages[1]}

EptInit ==
  /\ Init
  /\ large \in BOOLEAN
  /\ first \in Firsts
  /\ state = "start"
  /\ ept_num = first
  /\ ept_valid = FALSE
  /\ todo = <<>>
  /\ mem = [f \in Targets \cup Larges |-> 0]

----------------------------------------------------------------------------

\* hpt_get_pm_idx for all levels.
VaOf(p) == [l \in Levels |-> (p \div Fanout^(l - 1)) % Fanout]

Insertion(p, l, e) == [op |-> "insert_alloc", va |-> VaOf(p), lvl |-> l, pme |-> e]

\* pmeo of a page that allows everything.
Page4K(p) == [ps |-> FALSE, prot |-> HPT_PROTS_RWX, user |-> TRUE, to |-> p]
Page2M(p) == [Page4K(p) EXCEPT !.ps = TRUE]

ept_map_continuous_addr(low, high) ==
  [k \in 1..(high - low) |-> Insertion(low + k - 1, 1, Page4K(low + k - 1))]

FixedMappings ==
  ept_map_continuous_addr(RealModeEnd, EptHigh)
    \o ept_map_continuous_addr(Lapic, Lapic + 1)
    \o ept_map_continuous_addr(Console, Console + 1)
    \o ept_map_continuous_addr(0, RealModeEnd)

\* A variant that leaves out an entry that it would only clear.
TargetMappingSkip(n) ==
  IF n = 0 THEN <<>> ELSE <<Insertion(Target, 1, Page4K(AddressOf(n)))>>
TargetMapping(n) ==
  <<Insertion(Target, 1, IF n = 0 THEN Zero ELSE Page4K(AddressOf(n)))>>

LargeMapping ==
  <<Insertion(LargePages[1], 2, Page2M(LargePages[0])),
    Insertion(LargePages[0], 2, Page2M(LargePages[1]))>>

\* A variant that maps everything each time.
ScriptAll(n) ==
  FixedMappings \o TargetMapping(n) \o (IF large THEN LargeMapping ELSE <<>>)

\* The insertions of shv_build_ept, in their order.
Script(n) ==
  (IF ept_valid THEN <<>> ELSE FixedMappings)
    \o TargetMapping(n)
    \o (IF large THEN LargeMapping ELSE <<>>)

\* VMCALL 17 increments ept_num and comes back to an EPT with its first one.
NextNum ==
  IF state = "start" \/ ept_num = first + Count - 1 THEN first ELSE ept_num + 1

\* The bytes are written once the insertions before them are made; the guest
\* does not run before all is done.
StartBuild ==
  /\ state \in {"start", "built"}
  /\ state' = "build"
  /\ ept_num' = NextNum
  /\ todo' = Script(NextNum)
  /\ ept_valid' = TRUE
  /\ mem' = [f \in DOMAIN mem |->
               CASE f = AddressOf(NextNum) -> NextNum
                 [] large /\ f = LargePages[0] -> 65
                 [] large /\ f = LargePages[1] -> 66
                 [] OTHER -> mem[f]]
  /\ UNCHANGED <<vars, large, first>>

\* A call of hptw_insert_pmeo_alloc.
Insert ==
  /\ state = "build"
  /\ pc = "idle"
  /\ err = 0
  /\ todo # <<>>
  /\ Begin(Head(todo))
  /\ todo' = Tail(todo)
  /\ UNCHANGED <<large, first, state, ept_num, ept_valid, mem>>

\* ASSERT(hptw_insert_pmeo_alloc(...) == 0) is checked when the call returns.
AssertFails ==
  /\ state = "build"
  /\ pc = "idle"
  /\ err # 0
  /\ state' = "failed"
  /\ UNCHANGED <<vars, large, first, ept_num, ept_valid, todo, mem>>

EndBuild ==
  /\ state = "build"
  /\ pc = "idle"
  /\ err = 0
  /\ todo = <<>>
  /\ state' = "built"
  /\ UNCHANGED <<vars, large, first, ept_num, ept_valid, todo, mem>>

WalkStep == Walk /\ UNCHANGED eptvars

EptNext == StartBuild \/ Insert \/ WalkStep \/ AssertFails \/ EndBuild

\* The processor goes on with shv_build_ept.
EptSpec == EptInit /\ [][EptNext]_allvars /\ WF_allvars(EptNext)

----------------------------------------------------------------------------

\* The types of the variables.
EptTypeOK ==
  /\ TypeOK
  /\ large \in BOOLEAN
  /\ first \in Firsts
  /\ ept_num \in first..(first + Count - 1)
  /\ ept_valid \in BOOLEAN
  /\ state \in {"start", "build", "built", "failed"}

\* What the guest's address p should lead to.
RWXTo(l, f) == [lvl |-> l, to |-> f, prot |-> HPT_PROTS_RWX, user |-> TRUE]
InLarge(i, p) == large /\ p \in LargePages[i]..(LargePages[i] + LargeSize - 1)
Expected(p) ==
  CASE p = Target -> IF ept_num = 0 THEN NoLeaf ELSE RWXTo(1, AddressOf(ept_num))
    [] InLarge(0, p) -> RWXTo(2, LargePages[1])
    [] InLarge(1, p) -> RWXTo(2, LargePages[0])
    [] OTHER -> IF p < EptHigh \/ p = Lapic THEN RWXTo(1, p) ELSE NoLeaf

\* However often the EPT was built before, it maps the page 0x12340000 to the
\* page of this ept_num or to none, swaps the large pages, maps the rest of
\* the image, the LAPIC and the real mode memory to themselves, and maps
\* nothing else.
BuiltRight ==
  state = "built" => \A p \in EptPages : Leaf(VaOf(p)) = Expected(p)

\* So the guest reads what its tests assert (shv_guest_test_ept,
\* shv_guest_test_large_page).
GuestReads(p) == mem[Leaf(VaOf(p)).to]
GuestSees ==
  state = "built" =>
    /\ ept_num # 0 => GuestReads(Target) = ept_num
    /\ large => GuestReads(LargePages[0]) = 66 /\ GuestReads(LargePages[1]) = 65

\* Building an EPT again takes nothing from its pool, whose pages are never
\* given back: the pool cannot run dry over the iterations.
RebuildTakesNoPage ==
  [][state = "built" \/ (state = "build" /\ ept_num # first) =>
       page_alloc' = page_alloc]_allvars

\* The insertions are calls for which the walker is right: a page of level 2
\* says that it is one, and an entry is for the first address it translates.
UsesHptw ==
  pc = "walk" => /\ req.va = Base(req.lvl, req.va)
                 /\ req.pme \in ClientEntries(req.lvl)

\* shv_build_ept returns, with no ASSERT failed, and leaves an EPT in which the
\* guest sees what it should. It calls the walker as it must, and takes no page
\* for an EPT that was built before.
BuildRight ==
  /\ [](EptTypeOK /\ UsesHptw)
  /\ RebuildTakesNoPage
  /\ state = "build" ~> (state = "built" /\ BuiltRight /\ GuestSees)
=============================================================================
