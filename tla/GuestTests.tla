----------------------------- MODULE GuestTests -----------------------------
(***************************************************************************)
(* The guest half of the tests of shv-guest.c as data: one iteration of      *)
(* shv_guest_main is straight-line code, a sequence of operations between    *)
(* which an interrupt can hit.  Guest.tla says what each operation does.    *)
(***************************************************************************)
EXTENDS Integers, Sequences

\* The bits of g_shv_opt that select these tests, and two traits of the
\* machine: mc, machine check MSRs can be written; x2apic, the LAPIC id is
\* read from an MSR.
AllOptions ==
  [msr : BOOLEAN, no_if : BOOLEAN, ept : BOOLEAN, switch : BOOLEAN,
   vpid : BOOLEAN, unrestricted : BOOLEAN, vmxoff : BOOLEAN, large : BOOLEAN,
   no_int : BOOLEAN, bitmap : BOOLEAN, mc : BOOLEAN, x2apic : BOOLEAN]

\* "Need 0x4": these tests require SHV_USE_EPT.
Legal(o) == (o.switch \/ o.unrestricted \/ o.large) => o.ept

\* MSR addresses as <<upper half, offset>>: 0xc0000082 is <<1, 130>>.
Address ==
  [APIC_BASE |-> <<0, 27>>, X2APIC_APICID |-> <<0, 2050>>,
   TSC_ADJUST |-> <<0, 59>>, LSTAR |-> <<1, 130>>,
   FS_BASE |-> <<1, 256>>, GS_BASE |-> <<1, 257>>,
   LOW |-> <<0, 8191>>, HIGH |-> <<1, 8191>>]

\* 0x1fff and 0xc0001fff do not exist: an access that does not exit is #GP.
Absent == {"LOW", "HIGH"}

-----------------------------------------------------------------------------
When(c, s) == IF c THEN s ELSE << >>

install(h) == <<[op |-> "override", to |-> h]>>
vmcall(eax, ebx) == <<[op |-> "vmcall", eax |-> eax, ebx |-> ebx]>>
rdmsr(m) == <<[op |-> "rdmsr", msr |-> m]>>
cpuid(eax) == <<[op |-> "cpuid", eax |-> eax]>>
cli == <<[op |-> "cli"]>>
sti == <<[op |-> "sti"]>>

\* A test installs its VM exit handler and removes it at the end.
Test(h, body) == install(h) \o body \o install("NULL")

\* _test_rdmsr, _test_wrmsr: ebx tells whether the access went through
\* ("normal"), exited ("vmexit") or raised #GP ("except").
test_rdmsr(m, expected) ==
  rdmsr(m) \o <<[op |-> "check_ebx", ebx |-> expected]>>
test_wrmsr(m, expected, val) ==
  <<[op |-> "wrmsr", msr |-> m, val |-> val],
    [op |-> "check_ebx", ebx |-> expected]>>

shv_guest_test_msr_ls == Test("msr_ls", vmcall(12, 0) \o vmcall(16, 0))

shv_guest_test_ept ==
  <<[op |-> "ept_fresh"]>> \o install("ept") \o
  <<[op |-> "ept_read"], [op |-> "ept_check"]>> \o install("NULL") \o
  <<[op |-> "ept_count"]>>

shv_guest_switch_ept == Test("switch_ept", vmcall(17, 0))
shv_guest_test_vpid == Test("vpid", vmcall(19, 0))
shv_guest_test_vmxoff(off) == Test("vmxoff", vmcall(22, IF off THEN 1 ELSE 0))
shv_guest_wait_int == Test("wait_int", vmcall(25, 0))

\* shv_disable_enable_paging of amd64: sti whatever SHV_NO_EFLAGS_IF says.
paging_demo == cli \o <<[op |-> "paging", on |-> FALSE],
                        [op |-> "paging", on |-> TRUE]>> \o sti

\* VMCALLs 38 and 39 set and clear a bit of the MSR bitmap, whose quarters are
\* reads of low and high MSRs, then writes of low and high MSRs.
set_bit(n) == vmcall(38, n)
clear_bit(n) == vmcall(39, n)
R_LOW == 0
R_HIGH == 8192
W_LOW == 16384
W_HIGH == 24576

lstar(r, w) == test_rdmsr("LSTAR", r) \o test_wrmsr("LSTAR", w, "guest")
tsc(r, w) == test_rdmsr("TSC_ADJUST", r) \o test_wrmsr("TSC_ADJUST", w, "guest")
ends(rl, rh, wl, wh) ==
  test_rdmsr("LOW", rl) \o test_rdmsr("HIGH", rh) \o
  test_wrmsr("LOW", wl, "guest") \o test_wrmsr("HIGH", wh, "guest")

\* The last part of the bitmap test, in which interrupts would clear the bases.
fs_gs(o) ==
  cli \o vmcall(41, 0) \o test_rdmsr("FS_BASE", "normal") \o
  <<[op |-> "check_fs_gs", fs |-> "680effff", gs |-> "6810ffff"]>> \o
  test_wrmsr("FS_BASE", "normal", "ffff680e") \o
  test_wrmsr("GS_BASE", "normal", "ffff6810") \o vmcall(42, 0) \o
  When(~ o.no_if, sti)

shv_guest_msr_bitmap(o) ==
  Test("msr_bitmap",
    vmcall(34, 0) \o
    lstar("normal", "normal") \o set_bit(R_HIGH + 130) \o
    lstar("vmexit", "normal") \o clear_bit(R_HIGH + 130) \o
    set_bit(W_HIGH + 130) \o
    lstar("normal", "vmexit") \o tsc("normal", "normal") \o
    clear_bit(W_HIGH + 130) \o set_bit(R_LOW + 59) \o
    tsc("vmexit", "normal") \o clear_bit(R_LOW + 59) \o set_bit(W_LOW + 59) \o
    tsc("normal", "vmexit") \o clear_bit(W_LOW + 59) \o
    set_bit(R_LOW + 8191) \o
    ends("vmexit", "except", "except", "except") \o
    clear_bit(R_LOW + 8191) \o set_bit(R_HIGH + 8191) \o
    ends("except", "vmexit", "except", "except") \o
    clear_bit(R_HIGH + 8191) \o set_bit(W_LOW + 8191) \o
    ends("except", "except", "vmexit", "except") \o
    clear_bit(W_LOW + 8191) \o set_bit(W_HIGH + 8191) \o
    ends("except", "except", "except", "vmexit") \o
    clear_bit(W_HIGH + 8191) \o
    fs_gs(o) \o vmcall(37, 0) \o
    ends("vmexit", "vmexit", "vmexit", "vmexit"))

-----------------------------------------------------------------------------
\* get_vcpu reads APIC_BASE and, with x2APIC, the LAPIC id.
get_vcpu(o) == rdmsr("APIC_BASE") \o When(o.x2apic, rdmsr("X2APIC_APICID"))

\* shv_guest_main up to its loop (iteration 0) and iteration i of the loop.
Program(o, i) ==
  IF i = 0 THEN get_vcpu(o) \o cpuid("xmhf") \o When(~ o.no_if, sti)
  ELSE When(~ (o.no_if \/ o.no_int), <<[op |-> "hlt"]>>) \o
       When(o.msr, shv_guest_test_msr_ls) \o
       When(o.ept, shv_guest_test_ept) \o
       When(o.switch, shv_guest_switch_ept) \o
       When(o.vpid, shv_guest_test_vpid) \o
       When(o.vmxoff /\ i % 5 = 0, shv_guest_test_vmxoff(i % 3 = 0)) \o
       When(o.unrestricted, paging_demo) \o
       When(o.large, <<[op |-> "large_page"]>>) \o
       When(o.bitmap, shv_guest_msr_bitmap(o)) \o
       shv_guest_wait_int
=============================================================================
