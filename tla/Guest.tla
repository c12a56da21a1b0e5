------------------------------- MODULE Guest -------------------------------
(***************************************************************************)
(* One CPU that runs the tests of shv-guest.c in its guest and handles their *)
(* VM exits in the host (shv-vmx.c, shv-vmx-asm.S, shv-guest.c, shv-ept.c).  *)
(*                                                                         *)
(* Timer interrupts hit the guest between any two instructions.  Their       *)
(* handler executes RDMSR and CPUID, which exit to whatever handler the      *)
(* running test has installed.  What the tests share with other CPUs is in   *)
(* UserMode.tla; the rest of the state belongs to the CPU.                  *)
(***************************************************************************)
EXTENDS GuestTests, FiniteSets

CONSTANTS
  Options,    \* the configurations to consider
  EptCount,   \* SHV_EPT_COUNT
  EptSub,     \* ept_nums that share an EPT (16 in the code)
  VpidCount   \* number of values of the 16-bit VPID (2^16)

ASSUME GuestAssumption ==
  /\ Options \subseteq {o \in AllOptions : Legal(o)}
  /\ EptCount \in Nat \ {0}
  /\ EptSub \in Nat \ {0}
  /\ VpidCount \in Nat \ {0} /\ VpidCount % 2 = 0

VARIABLES
  opt,        \* the configuration
  mode,       \* "start", "guest", "exit" (in vmexit_handler), "wait" (hlt in
              \* the host), "entry" (at VMLAUNCH or VMRESUME) or "failed"
  iter,       \* iteration of shv_guest_main, modulo 15
  at,         \* next operation of Program(opt, iter)
  eflags_if,  \* EFLAGS.IF of the guest
  pg,         \* CR0.PG of the guest
  ebx,        \* EBX of the guest in the MSR tests
  eax,        \* EAX in the EPT test: n for page n of ept_target, FEE1C0DE
  intr,       \* where the guest's interrupt or #GP handler is
  vmxbit,     \* CPUID.1:ECX[5] as the guest last read it
  override,   \* vcpu->vmexit_handler_override
  exit,       \* the VM exit being handled, then the VM entry instruction
  vmx,        \* VMX operation, current VMCS, its launch state and its region
  vmcs,       \* the fields that the tests change
  msr,        \* MSRs
  stored,     \* my_vmexit_msrstore
  old_vals,   \* data.old_vals of the MSR test
  bitmap,     \* bits set in the MSR bitmap
  ept,        \* ept_valid and what the EPTs map, per EPT
  ept_num,
  ept_exit_count,
  tlb         \* cached guest-physical mappings, <<EPT, page, target>>

reg == <<ebx, eax>>
guest == <<iter, at, eflags_if, pg, reg, intr, vmxbit, override>>
tables == <<ept, ept_num, ept_exit_count, tlb>>
msrs == <<msr, stored, old_vals, bitmap>>
vars == <<opt, mode, exit, vmx, vmcs, guest, msrs, tables>>

\* The value the EPT violation handler puts into EAX.
FEE1C0DE == -1

-----------------------------------------------------------------------------
(* The processor: VMX instructions.  vmx.es stands for the fields of the VMCS *)
(* while it is current, vmx.region for its memory image.                     *)

Writable(x) == x.on /\ x.current
Failed(x) == [x EXCEPT !.ok = FALSE]
VmWriteEs(x, v) == IF Writable(x) THEN [x EXCEPT !.es = v] ELSE Failed(x)
VmClear(x) ==
  IF x.on THEN [x EXCEPT !.current = FALSE, !.launched = FALSE,
                         !.region = IF x.current THEN x.es ELSE x.region]
  ELSE Failed(x)
VmPtrld(x) ==
  IF x.on THEN [x EXCEPT !.current = TRUE, !.es = x.region] ELSE Failed(x)
VmxOff(x) ==
  IF x.on THEN [x EXCEPT !.on = FALSE, !.current = FALSE] ELSE Failed(x)
VmxOn(x) == IF x.on THEN Failed(x) ELSE [x EXCEPT !.on = TRUE]

\* MSRs after the first n entries of a load list.
Loaded(list, n) ==
  [m \in DOMAIN msr |->
     IF \E i \in 1..n : list[i][1] = m
     THEN list[CHOOSE i \in 1..n : list[i][1] = m][2] ELSE msr[m]]

\* The bit of the MSR bitmap that decides on an access.
BitOf(access, m) ==
  (IF access = "write" THEN 16384 ELSE 0) + 8192 * Address[m][1] + Address[m][2]
Intercepted(access, m) == ~ vmcs.bitmaps \/ BitOf(access, m) \in bitmap

\* The MSR areas that VMCALL 12 fills in, always with the same entries.
StoreList == <<"MTRR5_BASE", "EFER", "MC402">>
ExitLoadList == <<<<"MTRR5_MASK", "bbbbb000">>, <<"STAR", "11111000">>,
                  <<"MC403", "33333333">>>>
EntryLoadList == <<<<"MTRR6_BASE", "ccccc000">>, <<"PAT", "00070604">>,
                   <<"MC406", "66666666">>>>

\* A VM exit stores and loads MSRs and enters vmexit_asm.
VmExit(e) ==
  /\ mode' = "exit"
  /\ exit' = e
  /\ stored' = [i \in 1..3 |-> IF i <= vmcs.store THEN msr[StoreList[i]]
                               ELSE stored[i]]
  /\ msr' = Loaded(ExitLoadList, vmcs.load)
  /\ UNCHANGED <<opt, vmx, vmcs, old_vals, bitmap, tables>>

\* What a VM entry needs to succeed.
EntryValid ==
  /\ Writable(vmx)
  /\ vmx.launched = (exit.reason = "vmresume")
  /\ opt.vpid => vmcs.vpid # 0

\* The guest-physical mappings of an EPT.
Mappings(r) ==
  {<<r, "large", ept[r].large>>} \cup
  (IF ept[r].target = 0 THEN {} ELSE {<<r, "target", ept[r].target>>})
Cached(r, page) == {m \in tlb : m[1] = r /\ m[2] = page}

\* VMLAUNCH or VMRESUME.  The processor may cache every mapping as soon as the
\* guest runs: all that are not cached yet are.  A failure is vmentry_error.
VmEntry ==
  /\ mode = "entry"
  /\ IF EntryValid
     THEN /\ mode' = "guest"
          /\ vmx' = [vmx EXCEPT !.launched = TRUE]
          /\ msr' = Loaded(EntryLoadList, vmcs.entry)
          /\ tlb' = tlb \cup
               (IF opt.ept THEN {m \in Mappings(vmcs.eptp) :
                                   Cached(vmcs.eptp, m[2]) = {}}
                ELSE {})
     ELSE mode' = "failed" /\ UNCHANGED <<vmx, msr, tlb>>
  /\ UNCHANGED <<opt, exit, vmcs, guest, stored, old_vals, bitmap, ept,
                 ept_num, ept_exit_count>>

-----------------------------------------------------------------------------
(* shv-ept.c. *)

\* INVEPT of an EPT that was built before; the mutant leaves it out.
InveptNone(r) == tlb
Invept(r) == IF ept[r].valid THEN {m \in tlb : m[1] # r} ELSE tlb

\* shv_build_ept: id-map the memory once per EPT, map 0x12340000 to page n of
\* ept_target (to nothing when n is 0) and swap the large pages.
EptOf(n) == n \div EptSub
shv_build_ept(n) ==
  /\ ept' = [ept EXCEPT ![EptOf(n)] =
               [valid |-> TRUE, target |-> n,
                large |-> IF opt.large THEN "swapped" ELSE "same"]]
  /\ tlb' = Invept(EptOf(n))

-----------------------------------------------------------------------------
(* shv_vmx_main. *)

Msrs == {"MTRR5_BASE", "MTRR5_MASK", "MTRR6_BASE", "EFER", "STAR", "PAT",
         "MC402", "MC403", "MC406", "LSTAR", "TSC_ADJUST"}

Init ==
  /\ opt \in Options
  /\ mode = "start"
  /\ iter = 0
  /\ at = 1
  /\ eflags_if = FALSE
  /\ pg = TRUE
  /\ ebx = "none"
  /\ eax = 0
  /\ intr = "none"
  /\ vmxbit = TRUE
  /\ override = "NULL"
  /\ exit = [reason |-> "none"]
  /\ vmx = [on |-> FALSE, current |-> FALSE, launched |-> FALSE,
            es |-> "none", region |-> "none", ok |-> TRUE]
  /\ vmcs = [eptp |-> 0, vpid |-> 0, bitmaps |-> FALSE, store |-> 0,
             load |-> 0, entry |-> 0, fs |-> "0", gs |-> "0"]
  /\ msr = [m \in Msrs |-> "boot"]
  /\ stored = [i \in 1..3 |-> "none"]
  /\ old_vals = [m \in Msrs |-> "none"]
  /\ bitmap = {}
  /\ ept = [r \in 0..(EptCount - 1) |->
              [valid |-> FALSE, target |-> 0, large |-> "same"]]
  /\ ept_num = 0
  /\ ept_exit_count = 0
  /\ tlb = {}

\* shv_vmx_vmcs_init: empty MSR lists, no MSR bitmap, EPT 0, VPID 1, flat
\* segments, of which ES stands for all fields that no test uses.
shv_vmx_vmcs_init(x) ==
  /\ vmx' = VmWriteEs(x, "ffffffff")
  /\ vmcs' = [eptp |-> 0, vpid |-> IF opt.vpid THEN 1 ELSE 0,
              bitmaps |-> FALSE, store |-> 0, load |-> 0, entry |-> 0,
              fs |-> "0", gs |-> "0"]
  /\ IF opt.ept THEN shv_build_ept(0) ELSE UNCHANGED <<ept, tlb>>

\* VMXON, VMCLEAR, VMPTRLD, set up the VMCS, VMLAUNCH.
ShvVmxMain ==
  /\ mode = "start"
  /\ shv_vmx_vmcs_init(VmPtrld(VmClear(VmxOn(vmx))))
  /\ exit' = [reason |-> "vmlaunch"]
  /\ mode' = IF vmx'.ok THEN "entry" ELSE "failed"
  /\ UNCHANGED <<opt, guest, msrs, ept_num, ept_exit_count>>

-----------------------------------------------------------------------------
(* The guest. *)

Code == Program(opt, iter)
Op == Code[at]
Running == mode = "guest" /\ intr = "none"
Executes(op) == Running /\ at <= Len(Code) /\ Op.op = op

\* Go on behind the current operation, or fail an ASSERT.
Step(ok) ==
  /\ at' = at + 1
  /\ mode' = IF ok THEN "guest" ELSE "failed"

\* Only iter % 5 and iter % 3 matter.
NextIteration ==
  /\ Running
  /\ at > Len(Code)
  /\ iter' = (iter % 15) + 1
  /\ at' = 1
  /\ UNCHANGED <<opt, mode, exit, vmx, vmcs, eflags_if, pg, reg, intr, vmxbit,
                 override, msrs, tables>>

Override ==
  /\ Executes("override")
  /\ override' = Op.to
  /\ Step(TRUE)
  /\ UNCHANGED <<opt, exit, vmx, vmcs, iter, eflags_if, pg, reg, intr, vmxbit,
                 msrs, tables>>

Vmcall ==
  /\ Executes("vmcall")
  /\ VmExit([reason |-> "VMCALL", eax |-> Op.eax, ebx |-> Op.ebx])
  /\ UNCHANGED guest

Cpuid ==
  /\ Executes("cpuid")
  /\ VmExit([reason |-> "CPUID", eax |-> Op.eax])
  /\ UNCHANGED guest

\* cli, sti and the two writes of CR0 when the paging test runs.
SetFlags ==
  /\ Running /\ at <= Len(Code)
  /\ \/ Op.op = "cli" /\ eflags_if' = FALSE /\ UNCHANGED pg
     \/ Op.op = "sti" /\ eflags_if' = TRUE /\ UNCHANGED pg
     \/ Op.op = "paging" /\ pg' = Op.on /\ UNCHANGED eflags_if
  /\ Step(TRUE)
  /\ UNCHANGED <<opt, exit, vmx, vmcs, iter, reg, intr, vmxbit, override,
                 msrs, tables>>

\* RDMSR or WRMSR with EBX = MSR_TEST_NORMAL: exits, raises #GP or succeeds.
AccessMsr(op, access, reason) ==
  /\ Executes(op)
  /\ ebx' = "normal"
  /\ \/ /\ Intercepted(access, Op.msr)
        /\ VmExit([reason |-> reason, msr |-> Op.msr, ebx |-> "normal"])
        /\ UNCHANGED <<at, intr>>
     \/ /\ ~ Intercepted(access, Op.msr)
        /\ Op.msr \in Absent
        /\ intr' = "gp_enter"
        /\ UNCHANGED <<opt, mode, exit, vmx, vmcs, at, msrs, tables>>
     \/ /\ ~ Intercepted(access, Op.msr)
        /\ Op.msr \notin Absent
        /\ Step(TRUE)
        /\ IF access = "read" THEN UNCHANGED <<vmcs, msr>>
           ELSE CASE Op.msr = "FS_BASE" -> vmcs' = [vmcs EXCEPT !.fs = Op.val]
                                           /\ UNCHANGED msr
                  [] Op.msr = "GS_BASE" -> vmcs' = [vmcs EXCEPT !.gs = Op.val]
                                           /\ UNCHANGED msr
                  [] OTHER -> msr' = [msr EXCEPT ![Op.msr] = Op.val]
                              /\ UNCHANGED vmcs
        /\ UNCHANGED <<opt, exit, vmx, intr, stored, old_vals, bitmap, tables>>
  /\ UNCHANGED <<iter, eflags_if, pg, eax, vmxbit, override>>

Rdmsr == AccessMsr("rdmsr", "read", "RDMSR")
Wrmsr == AccessMsr("wrmsr", "write", "WRMSR")

\* The read of 0x12340000 goes through the cached mapping if there is one.
EptRead ==
  /\ Executes("ept_read")
  /\ LET hit == Cached(vmcs.eptp, "target")
         seen == IF hit # {} THEN (CHOOSE m \in hit : TRUE)[3]
                 ELSE ept[vmcs.eptp].target
     IN IF seen = 0
        THEN VmExit([reason |-> "EPT_VIOLATION"]) /\ UNCHANGED <<at, eax>>
        ELSE /\ eax' = seen
             /\ Step(TRUE)
             /\ UNCHANGED <<opt, exit, vmx, vmcs, msrs, tables>>
  /\ UNCHANGED <<iter, eflags_if, pg, ebx, intr, vmxbit, override>>

\* What guest reads of large_pages[0] and [1] give: the byte of the page that
\* the mapping leads to.
LargePages ==
  LET hit == Cached(vmcs.eptp, "large")
      seen == IF hit # {} THEN (CHOOSE m \in hit : TRUE)[3]
              ELSE ept[vmcs.eptp].large
  IN IF seen = "swapped" THEN <<"B", "A">> ELSE <<"A", "B">>

\* The assertions of the tests in the guest.
Checks ==
  /\ Running /\ at <= Len(Code)
  /\ \/ Op.op = "check_ebx" /\ Step(ebx = Op.ebx)
     \/ Op.op = "check_fs_gs" /\ Step(vmcs.fs = Op.fs /\ vmcs.gs = Op.gs)
     \/ Op.op = "ept_fresh" /\ Step(ept_exit_count = 0)
     \/ Op.op = "ept_check"
        /\ Step(eax = IF ept_num = 0 THEN FEE1C0DE ELSE ept_num)
     \/ Op.op = "large_page" /\ Step(LargePages = <<"B", "A">>)
  /\ UNCHANGED <<opt, exit, vmx, vmcs, iter, eflags_if, pg, reg, intr, vmxbit,
                 override, msrs, tables>>

\* The end of shv_guest_test_ept.
EptCountCheck ==
  /\ Executes("ept_count")
  /\ Step(ept_exit_count = IF ept_num = 0 THEN 1 ELSE 0)
  /\ ept_exit_count' = 0
  /\ UNCHANGED <<opt, exit, vmx, vmcs, iter, eflags_if, pg, reg, intr, vmxbit,
                 override, msrs, ept, ept_num, tlb>>

-----------------------------------------------------------------------------
(* Interrupts and exceptions in the guest: idt_stub_common, handle_idt. *)

\* A timer interrupt; it ends a hlt.  With paging off the handler of the IDT
\* cannot be reached.
GuestInterrupt ==
  /\ Running
  /\ eflags_if
  /\ ~ opt.no_int
  /\ intr' = "int_enter"
  /\ mode' = IF pg THEN "guest" ELSE "failed"
  /\ at' = IF Executes("hlt") THEN at + 1 ELSE at
  /\ UNCHANGED <<opt, exit, vmx, vmcs, iter, eflags_if, pg, reg, vmxbit,
                 override, msrs, tables>>

\* Places in the handler: the stub, then the RDMSRs of get_vcpu, the CPUID of
\* handle_idt, the check of its result.
Handler == [int_enter |-> "int_rdmsr", int_rdmsr |-> "int_x2apic",
            int_x2apic |-> "int_cpuid", int_cpuid |-> "int_end",
            gp_enter |-> "gp_rdmsr", gp_rdmsr |-> "gp_x2apic",
            gp_x2apic |-> "gp_cpuid", gp_cpuid |-> "gp_end"]
HandlerRead == [int_rdmsr |-> "APIC_BASE", gp_rdmsr |-> "APIC_BASE",
                int_x2apic |-> "X2APIC_APICID", gp_x2apic |-> "X2APIC_APICID"]

\* The stub loads FS and GS, which clears their bases.
IdtStub ==
  /\ mode = "guest"
  /\ intr \in {"int_enter", "gp_enter"}
  /\ intr' = Handler[intr]
  /\ vmcs' = [vmcs EXCEPT !.fs = "0", !.gs = "0"]
  /\ UNCHANGED <<opt, mode, exit, vmx, iter, at, eflags_if, pg, reg, vmxbit,
                 override, msrs, tables>>

\* get_vcpu.  The compiler may have anything in EBX here.
IdtRdmsr ==
  /\ mode = "guest"
  /\ intr \in DOMAIN HandlerRead
  /\ \/ /\ HandlerRead[intr] = "X2APIC_APICID" /\ ~ opt.x2apic
        /\ intr' = Handler[intr]
        /\ UNCHANGED <<opt, mode, exit, vmx, vmcs, msrs, tables>>
     \/ /\ HandlerRead[intr] = "X2APIC_APICID" => opt.x2apic
        /\ ~ Intercepted("read", HandlerRead[intr])
        /\ intr' = Handler[intr]
        /\ UNCHANGED <<opt, mode, exit, vmx, vmcs, msrs, tables>>
     \/ /\ HandlerRead[intr] = "X2APIC_APICID" => opt.x2apic
        /\ Intercepted("read", HandlerRead[intr])
        /\ VmExit([reason |-> "RDMSR", msr |-> HandlerRead[intr],
                   ebx |-> "any"])
        /\ UNCHANGED intr
  /\ UNCHANGED <<iter, at, eflags_if, pg, reg, vmxbit, override>>

IdtCpuid ==
  /\ mode = "guest"
  /\ intr \in {"int_cpuid", "gp_cpuid"}
  /\ VmExit([reason |-> "CPUID", eax |-> "1"])
  /\ UNCHANGED guest

\* Where IRET goes: back to what was interrupted, for #GP to the place that the
\* exception table names.  The mutant repeats the access that faulted.
ReturnRepeat == at
Return == IF intr = "gp_end" THEN at + 1 ELSE at

\* ASSERT(guest == !(cpuid_ecx(1, 0) & (1U << 5))), then the timer handler and
\* IRET, or for #GP the exception table: on with EBX = MSR_TEST_EXCEPT.
IdtEnd ==
  /\ mode = "guest"
  /\ intr \in {"int_end", "gp_end"}
  /\ intr' = "none"
  /\ mode' = IF vmxbit THEN "failed" ELSE "guest"
  /\ at' = Return
  /\ ebx' = IF intr = "gp_end" THEN "except" ELSE ebx
  /\ UNCHANGED <<opt, exit, vmx, vmcs, iter, eflags_if, pg, eax, vmxbit,
                 override, msrs, tables>>

-----------------------------------------------------------------------------
(* vmexit_handler and the handlers that tests install. *)

\* The handler returns without resuming the guest, so that the default one
\* takes over, unless the exit is one it knows.  The mutant of the bitmap test
\* takes every RDMSR for one of the test.
TakesAllRdmsr(h, e) ==
  CASE h = "NULL" -> FALSE
    [] h = "ept" -> e.reason = "EPT_VIOLATION"
    [] h = "msr_bitmap" -> e.reason # "CPUID"
    [] OTHER -> e.reason = "VMCALL"
Takes(h, e) ==
  CASE h = "NULL" -> FALSE
    [] h = "ept" -> e.reason = "EPT_VIOLATION"
    [] h = "msr_bitmap" ->
         /\ e.reason # "CPUID"
         /\ e.reason = "RDMSR" => e.msr \notin {"APIC_BASE", "X2APIC_APICID"}
    [] OTHER -> e.reason = "VMCALL"

Handles(h) == mode = "exit" /\ override = h /\ Takes(h, exit)

\* VMCS_guest_RIP + inst_len: in the program or in the interrupt handler.
NextRip ==
  IF intr = "none" THEN at' = at + 1 /\ UNCHANGED intr
  ELSE intr' = Handler[intr] /\ UNCHANGED at

\* The end of every handler: the next instruction, then VMRESUME.
Resume(ok) ==
  /\ NextRip
  /\ mode' = IF ok THEN "entry" ELSE "failed"
  /\ exit' = [reason |-> "vmresume"]
  /\ UNCHANGED <<opt, iter, eflags_if, pg, override>>

\* The cases of the switch in vmexit_handler; all others fail.  A guest does
\* not see the VMX bit of CPUID.
DefaultHandler ==
  /\ mode = "exit"
  /\ ~ Takes(override, exit)
  /\ Resume(exit.reason \in {"CPUID", "RDMSR"})
  /\ vmxbit' = IF exit.reason = "CPUID" /\ exit.eax = "1" THEN FALSE ELSE vmxbit
  /\ UNCHANGED <<vmx, vmcs, reg, msrs, tables>>

\* The machine check MSRs are left alone when they cannot be written.
Saved == IF opt.mc THEN Msrs \ {"LSTAR", "TSC_ADJUST"}
         ELSE Msrs \ {"LSTAR", "TSC_ADJUST", "MC402", "MC403", "MC406"}
Used == IF opt.mc THEN 3 ELSE 2

\* The values that VMCALL 12 writes.
Experiment ==
  [MTRR5_BASE |-> "aaaaa000", MTRR5_MASK |-> "dead", MTRR6_BASE |-> "dead",
   MC402 |-> "22222222", MC403 |-> "dead", MC406 |-> "dead"]

\* VMCALL 12: save the MSRs, give the lists their lengths, change the MSRs.
MsrLs12 ==
  /\ Handles("msr_ls") /\ exit.eax = 12
  /\ Resume(msr["PAT"] = "boot")
  /\ old_vals' = [m \in Msrs |-> IF m \in Saved THEN msr[m] ELSE "none"]
  /\ vmcs' = [vmcs EXCEPT !.store = Used, !.load = Used, !.entry = Used]
  /\ msr' = [m \in Msrs |-> IF m \in DOMAIN Experiment \cap Saved
                            THEN Experiment[m] ELSE msr[m]]
  /\ stored' = [i \in 1..3 |-> IF i <= Used THEN "dead" ELSE stored[i]]
  /\ UNCHANGED <<vmx, reg, vmxbit, bitmap, tables>>

\* "Check effects".
MsrLsEffects ==
  /\ stored[1] = "aaaaa000" /\ stored[2] = msr["EFER"]
  /\ msr["MTRR5_MASK"] = "bbbbb000" /\ msr["MTRR6_BASE"] = "ccccc000"
  /\ msr["PAT"] = "00070604" /\ msr["STAR"] = "11111000"
  /\ opt.mc => /\ stored[3] = "22222222"
               /\ msr["MC403"] = "33333333" /\ msr["MC406"] = "66666666"

\* The lengths of the lists after VMCALL 16; the mutant leaves the one for VM
\* entry as it is.
ResetListsEntry == [vmcs EXCEPT !.store = 0, !.load = 0]
ResetLists == [vmcs EXCEPT !.store = 0, !.load = 0, !.entry = 0]

\* VMCALL 16: check the effects, "reset state".
MsrLs16 ==
  /\ Handles("msr_ls") /\ exit.eax = 16
  /\ Resume(MsrLsEffects)
  /\ vmcs' = ResetLists
  /\ msr' = [m \in Msrs |-> IF m \in Saved THEN old_vals[m] ELSE msr[m]]
  /\ UNCHANGED <<vmx, reg, vmxbit, stored, old_vals, bitmap, tables>>

\* The read of 0x12340000 without a mapping.
EptViolation ==
  /\ Handles("ept")
  /\ Resume(TRUE)
  /\ eax' = FEE1C0DE
  /\ ept_exit_count' = ept_exit_count + 1
  /\ UNCHANGED <<vmx, vmcs, ebx, vmxbit, msrs, ept, ept_num, tlb>>

\* VMCALL 17: the next ept_num.
SwitchEpt ==
  /\ Handles("switch_ept")
  /\ Resume(exit.eax = 17)
  /\ ept_num' = (ept_num + 1) % (EptCount * EptSub)
  /\ shv_build_ept(ept_num')
  /\ vmcs' = [vmcs EXCEPT !.eptp = EptOf(ept_num')]
  /\ UNCHANGED <<vmx, reg, vmxbit, msrs, ept_exit_count>>

\* VMCALL 19: VPIDs are odd, so that 0 is skipped when they wrap.  The mutant
\* counts in a wider integer.
NextVpidWide == vmcs.vpid + 2
NextVpid == (vmcs.vpid + 2) % VpidCount

TestVpid ==
  /\ Handles("vpid")
  /\ Resume(exit.eax = 19 /\ vmcs.vpid % 2 = 1)
  /\ vmcs' = [vmcs EXCEPT !.vpid = NextVpid]
  /\ UNCHANGED <<vmx, reg, vmxbit, msrs, tables>>

\* VMCALL 22: change a field, VMCLEAR, optionally VMXOFF and VMXON, put the
\* field right in memory, VMCLEAR and VMPTRLD.
TestVmxoff ==
  /\ Handles("vmxoff")
  /\ LET cleared == VmClear(VmWriteEs(vmx, "a69f1c74"))
         again == IF exit.ebx = 1 THEN VmxOn(VmxOff(cleared)) ELSE cleared
         edited == [again EXCEPT !.region = vmx.es]
         loaded == VmPtrld(VmClear(edited))
         ok == /\ exit.eax = 22 /\ loaded.ok
               /\ ~ Writable(cleared)
               /\ again.region = "a69f1c74"
               /\ ~ Writable(edited)
               /\ loaded.es = vmx.es
     IN /\ vmx' = loaded
        /\ mode' = IF ok THEN "entry" ELSE "failed"
  /\ NextRip
  /\ exit' = [reason |-> "vmlaunch"]
  /\ UNCHANGED <<opt, iter, eflags_if, pg, override, vmcs, reg, vmxbit, msrs,
                 tables>>

\* VMCALL 25: sti; hlt; cli in the host unless interrupts are off.
WaitInt ==
  /\ Handles("wait_int")
  /\ exit.eax = 25
  /\ ~ (opt.no_if \/ opt.no_int)
  /\ mode' = "wait"
  /\ UNCHANGED <<opt, exit, vmx, vmcs, guest, msrs, tables>>
WaitNothing ==
  /\ Handles("wait_int")
  /\ opt.no_if \/ opt.no_int
  /\ Resume(exit.eax = 25)
  /\ UNCHANGED <<vmx, vmcs, reg, vmxbit, msrs, tables>>
HostInterrupt ==
  /\ mode = "wait"
  /\ Resume(TRUE)
  /\ UNCHANGED <<vmx, vmcs, reg, vmxbit, msrs, tables>>

\* VMCALLs of the MSR bitmap test that change the VMCS.
BitmapVmcs ==
  /\ Handles("msr_bitmap") /\ exit.reason = "VMCALL"
  /\ \/ /\ exit.eax = 34
        /\ Resume(~ vmcs.bitmaps /\ bitmap = {} /\ msr["TSC_ADJUST"] = "boot")
        /\ vmcs' = [vmcs EXCEPT !.bitmaps = TRUE]
        /\ UNCHANGED msr
     \/ /\ exit.eax = 37
        /\ Resume(vmcs.bitmaps)
        /\ vmcs' = [vmcs EXCEPT !.bitmaps = FALSE]
        /\ msr' = [msr EXCEPT !["TSC_ADJUST"] = "boot"]
     \/ /\ exit.eax = 41
        /\ Resume(vmcs.fs = "0" /\ vmcs.gs = "0")
        /\ vmcs' = [vmcs EXCEPT !.fs = "680effff", !.gs = "6810ffff"]
        /\ UNCHANGED msr
     \/ /\ exit.eax = 42
        /\ Resume(vmcs.fs = "ffff680e" /\ vmcs.gs = "ffff6810")
        /\ vmcs' = [vmcs EXCEPT !.fs = "0", !.gs = "0"]
        /\ UNCHANGED msr
  /\ UNCHANGED <<vmx, reg, vmxbit, stored, old_vals, bitmap, tables>>

\* VMCALLs 38 and 39 set a bit that is clear and clear one that is set.
BitmapBit ==
  /\ Handles("msr_bitmap") /\ exit.reason = "VMCALL"
  /\ \/ /\ exit.eax = 38
        /\ Resume(exit.ebx < 32768 /\ exit.ebx \notin bitmap)
        /\ bitmap' = bitmap \cup {exit.ebx}
     \/ /\ exit.eax = 39
        /\ Resume(exit.ebx < 32768 /\ exit.ebx \in bitmap)
        /\ bitmap' = bitmap \ {exit.ebx}
  /\ UNCHANGED <<vmx, vmcs, reg, vmxbit, msr, stored, old_vals, tables>>

\* RDMSR and WRMSR of the test tell the guest that they exited.
BitmapMsr ==
  /\ Handles("msr_bitmap") /\ exit.reason \in {"RDMSR", "WRMSR"}
  /\ Resume(exit.reason = "RDMSR" => exit.ebx = "normal")
  /\ ebx' = "vmexit"
  /\ UNCHANGED <<vmx, vmcs, eax, vmxbit, msrs, tables>>

-----------------------------------------------------------------------------
GuestStep ==
  \/ NextIteration \/ Override \/ Vmcall \/ Cpuid \/ SetFlags
  \/ Rdmsr \/ Wrmsr \/ EptRead \/ Checks \/ EptCountCheck
HandlerStep == IdtStub \/ IdtRdmsr \/ IdtCpuid \/ IdtEnd
HostStep ==
  \/ ShvVmxMain \/ VmEntry \/ DefaultHandler \/ MsrLs12 \/ MsrLs16
  \/ EptViolation \/ SwitchEpt \/ TestVpid \/ TestVmxoff
  \/ WaitInt \/ WaitNothing \/ BitmapVmcs \/ BitmapBit \/ BitmapMsr

Next ==
  GuestStep \/ HandlerStep \/ HostStep \/ GuestInterrupt \/ HostInterrupt

Spec == Init /\ [][Next]_vars

\* The CPU runs and the timer, which is periodic, always ticks again.  Ticks are
\* milliseconds apart, so the guest gets on between them.
FairSpec ==
  /\ Spec
  /\ SF_vars(GuestStep) /\ WF_vars(HandlerStep) /\ WF_vars(HostStep)
  /\ WF_vars(GuestInterrupt) /\ WF_vars(HostInterrupt)
-----------------------------------------------------------------------------
(* Properties. *)

\* The bits of the MSR bitmap, which is one page.
BitNums == 0..32767

\* Every variable keeps its type; the VPID fits its field.
TypeOK ==
  /\ opt \in Options
  /\ mode \in {"start", "guest", "exit", "wait", "entry", "failed"}
  /\ iter \in 0..15
  /\ at \in 1..(Len(Code) + 1)
  /\ {eflags_if, pg, vmxbit} \subseteq BOOLEAN
  /\ intr \in DOMAIN Handler \cup {"none", "int_end", "gp_end"}
  /\ override \in {"NULL", "msr_ls", "ept", "switch_ept", "vpid", "vmxoff",
                   "wait_int", "msr_bitmap"}
  /\ vmcs.vpid \in 0..(VpidCount - 1)
  /\ vmcs.eptp \in 0..(EptCount - 1)
  /\ {vmcs.store, vmcs.load, vmcs.entry} \subseteq 0..3
  /\ DOMAIN msr = Msrs
  /\ bitmap \subseteq BitNums
  /\ ept_num \in 0..(EptCount * EptSub - 1)
  /\ ept_exit_count \in 0..1
  /\ eax \in -1..(EptCount * EptSub - 1)

\* On a processor that follows the rules no test fails, wherever interrupts hit:
\* no ASSERT of a test or a handler fails, no VM exit is unknown to
\* vmexit_handler, no VMLAUNCH, VMRESUME or other VMX instruction fails, and no
\* interrupt comes while paging is off.
TestsPass == mode # "failed"

\* The guest never uses a mapping that shv_build_ept has changed: INVEPT comes
\* before the change, and nothing is cached between the two.
NoStaleMapping ==
  (mode = "guest" /\ opt.ept) =>
    \A m \in tlb : m[1] = vmcs.eptp => m \in Mappings(vmcs.eptp)

\* An iteration leaves nothing behind for the next but ept_num, the VPID and
\* LSTAR: MSRs, MSR lists, bitmap, segment bases, VMCS and handler are as before.
CleanIteration ==
  (mode = "guest" /\ iter > 0 /\ at = 1) =>
    /\ override = "NULL"
    /\ \A m \in Msrs \ {"LSTAR"} : msr[m] = "boot"
    /\ vmcs.store = 0 /\ vmcs.load = 0 /\ vmcs.entry = 0
    /\ ~ vmcs.bitmaps /\ bitmap = {}
    /\ vmcs.fs = "0" /\ vmcs.gs = "0"
    /\ vmx.launched /\ vmx.es = "ffffffff"
    /\ pg /\ ept_exit_count = 0
    /\ opt.no_if \/ eflags_if

\* The loop goes on: iteration 1 comes again and again, so no hlt of the guest
\* or of the host waits with interrupts disabled.
IterationsGoOn == []<>(iter = 1 /\ at = 1)
=============================================================================
