---------------------------- MODULE GuestProofs ----------------------------
(***************************************************************************)
(* What holds of Guest for every legal configuration, every number of EPTs  *)
(* and of VPIDs, and interrupts anywhere.                                   *)
(*                                                                         *)
(* The first part is what the host keeps right whatever the guest does: the *)
(* guest never runs on a mapping that shv_build_ept has changed, and no VMX *)
(* instruction of the host fails. These proofs do not look into Program.    *)
(*                                                                         *)
(* The second part is that the tests pass. It finds out what is known at    *)
(* each point of every iteration by going through the code of the tests     *)
(* (Points, May, After, Run), and shows that each step of each handler and  *)
(* of each interrupt keeps to it (At, Moved).                               *)
(***************************************************************************)
EXTENDS Guest, TLAPS

Epts == 0..(EptCount - 1)

\* The EPTs, and the VMCS fields that the host uses.
Tables ==
  /\ ept \in [Epts -> [valid : BOOLEAN, target : Nat, large : {"same", "swapped"}]]
  /\ ept_num \in 0..(EptCount * EptSub - 1)
  /\ {"eptp", "vpid"} \subseteq DOMAIN vmcs
  /\ vmcs.eptp \in Epts

\* A mapping that is cached is one of an EPT that was built, as it is now: while
\* an EPT is not valid nothing of it can be cached, which is why shv_build_ept
\* needs no INVEPT the first time.
CachedIsMapped ==
  \A m \in tlb : m[1] \in Epts /\ ept[m[1]].valid /\ m \in Mappings(m[1])
CurrentIsBuilt == mode # "start" /\ opt.ept => ept[vmcs.eptp].valid

\* The values that field ES takes, and the states of VMX operation.
EsValues == {"none", "ffffffff", "a69f1c74"}
VmxStates == [on : BOOLEAN, current : BOOLEAN, launched : BOOLEAN,
              es : EsValues, region : EsValues, ok : BOOLEAN]

\* VMX operation between the steps of the host; ES, which stands for the fields
\* that no test uses, keeps its value.
Operation ==
  /\ vmx \in VmxStates
  /\ vmx.ok = TRUE
  /\ mode # "start" => vmx.es = "ffffffff"
  /\ mode = "start" => ~vmx.on /\ ~vmx.launched
  /\ mode \in {"guest", "exit", "wait"} => Writable(vmx) /\ vmx.launched
  /\ mode = "entry" => Writable(vmx) /\ vmx.launched = (exit.reason = "vmresume")

\* VPIDs are odd.
OddVpid ==
  mode # "start" /\ opt.vpid =>
    vmcs.vpid \in 0..(VpidCount - 1) /\ vmcs.vpid % 2 = 1

IInv ==
  /\ Tables
  /\ CachedIsMapped
  /\ CurrentIsBuilt
  /\ Operation
  /\ OddVpid

----------------------------------------------------------------------------

\* The EPT of an ept_num exists.
LEMMA EptExists ==
  ASSUME NEW n \in 0..(EptCount * EptSub - 1)
  PROVE  EptOf(n) \in Epts
<1> DEFINE d == n \div EptSub
           r == n % EptSub
<1>1. /\ d \in Int /\ r \in Int /\ n = EptSub * d + r
      /\ 0 <= r /\ r < EptSub /\ n \in Nat
  BY GuestAssumption
<1>2. EptCount \in Nat /\ EptSub \in Nat \ {0} /\ n < EptCount * EptSub
  BY GuestAssumption
<1> HIDE DEF d, r
<1>3. d >= 0
  <2> SUFFICES ASSUME d <= -1 PROVE FALSE
    BY <1>1
  <2>1. EptSub * d <= EptSub * (-1)
    BY <1>1, <1>2
  <2> QED
    BY <1>1, <1>2, <2>1
<1>4. d < EptCount
  <2> SUFFICES ASSUME d >= EptCount PROVE FALSE
    BY <1>1, <1>2
  <2>1. EptSub * d >= EptSub * EptCount
    BY <1>1, <1>2
  <2> QED
    BY <1>1, <1>2, <2>1
<1>5. d \in Epts
  BY <1>1, <1>2, <1>3, <1>4 DEF Epts
<1> QED
  BY <1>5 DEF EptOf, d

\* ept_num stays below the number of EPTs times EptSub.
LEMMA NextEptNum ==
  ASSUME NEW n \in 0..(EptCount * EptSub - 1)
  PROVE  (n + 1) % (EptCount * EptSub) \in 0..(EptCount * EptSub - 1)
<1>1. EptCount * EptSub \in Nat \ {0}
  BY GuestAssumption
<1> DEFINE k == EptCount * EptSub
<1>2. k \in Nat \ {0} /\ n + 1 \in Nat
  BY <1>1
<1> HIDE DEF k
<1>3. (n + 1) % k \in 0..(k - 1)
  BY <1>2
<1> QED
  BY <1>3 DEF k

\* The VPID stays odd and in its field when it wraps.
LEMMA NextVpidOdd ==
  ASSUME NEW v \in 0..(VpidCount - 1), v % 2 = 1
  PROVE  /\ (v + 2) % VpidCount \in 0..(VpidCount - 1)
         /\ ((v + 2) % VpidCount) % 2 = 1
<1>1. VpidCount \in Nat \ {0} /\ VpidCount % 2 = 0
  BY GuestAssumption
<1>2. CASE v + 2 < VpidCount
  <2>1. (v + 2) % VpidCount = v + 2
    BY <1>1, <1>2
  <2> QED
    BY <1>1, <1>2, <2>1
<1>3. CASE ~(v + 2 < VpidCount)
  <2>1. v + 2 - VpidCount = 1 /\ 1 < VpidCount
    BY <1>1, <1>3
  <2>2. v + 2 = VpidCount + 1
    BY <1>1, <2>1
  <2>3. (VpidCount + 1) % VpidCount = 1
    BY <1>1, <2>1
  <2> QED
    BY <1>1, <2>1, <2>2, <2>3
<1> QED
  BY <1>2, <1>3

----------------------------------------------------------------------------

\* Before shv_vmx_main no EPT is built and nothing is cached.
LEMMA InitIInv ==
  ASSUME Init
  PROVE  IInv
<1>1. Tables
  <2>1. 0 \in Epts /\ 0 \in 0..(EptCount * EptSub - 1)
    BY GuestAssumption DEF Epts
  <2>2. ept = [r \in Epts |-> [valid |-> FALSE, target |-> 0, large |-> "same"]]
    BY DEF Init, Epts
  <2>3. {"eptp", "vpid"} \subseteq DOMAIN vmcs /\ vmcs.eptp = 0 /\ ept_num = 0
    BY DEF Init
  <2> QED
    BY <2>1, <2>2, <2>3 DEF Tables
<1>2. CachedIsMapped /\ CurrentIsBuilt /\ OddVpid
  BY DEF Init, CachedIsMapped, CurrentIsBuilt, OddVpid
<1>3. Operation
  <2>1. /\ vmx = [on |-> FALSE, current |-> FALSE, launched |-> FALSE,
                  es |-> "none", region |-> "none", ok |-> TRUE]
        /\ mode = "start"
    BY DEF Init
  <2>2. /\ vmx \in VmxStates
        /\ vmx.ok = TRUE /\ vmx.on = FALSE /\ vmx.launched = FALSE
    BY <2>1 DEF VmxStates, EsValues
  <2> QED
    BY <2>1, <2>2 DEF Operation
<1> QED
  BY <1>1, <1>2, <1>3 DEF IInv

\* Most steps change neither EPTs nor VMX operation, nor the fields of the VMCS
\* that are for the host, and leave the guest running or handle its VM exit.
Quiet ==
  /\ UNCHANGED <<opt, ept, tlb, ept_num, vmx>>
  /\ vmcs'.eptp = vmcs.eptp /\ vmcs'.vpid = vmcs.vpid
  /\ {"eptp", "vpid"} \subseteq DOMAIN vmcs'
  /\ mode \in {"guest", "exit", "wait"}
  /\ \/ mode' \in {"guest", "exit", "wait", "failed"}
     \/ mode' = "entry" /\ exit'.reason = "vmresume"

\* A step that touches neither the EPTs nor VMX operation keeps the invariant.
LEMMA QuietIInv ==
  ASSUME IInv, Quiet
  PROVE  IInv'
<1>1. Tables' /\ CachedIsMapped' /\ CurrentIsBuilt' /\ OddVpid'
  BY DEF IInv, Quiet, Tables, CachedIsMapped, CurrentIsBuilt, OddVpid,
         Mappings
<1>2. Operation'
  BY DEF IInv, Quiet, Operation, Writable
<1> QED
  BY <1>1, <1>2 DEF IInv

\* The fields of a VMCS that changes in another.
LEMMA OtherField ==
  ASSUME NEW w, {"eptp", "vpid"} \subseteq DOMAIN w,
         NEW f \in {"store", "load", "entry", "bitmaps", "fs", "gs"}, NEW x
  PROVE  /\ {"eptp", "vpid"} \subseteq DOMAIN [w EXCEPT ![f] = x]
         /\ [w EXCEPT ![f] = x].eptp = w.eptp
         /\ [w EXCEPT ![f] = x].vpid = w.vpid
OBVIOUS

\* A VM exit only hands over to the host.
LEMMA VmExitQuiet ==
  ASSUME Tables, NEW e, VmExit(e), mode = "guest"
  PROVE  Quiet
BY DEF VmExit, Tables, Quiet, tables

\* Nothing the guest executes by itself touches EPTs or VMX operation.
LEMMA GuestQuiet ==
  ASSUME Tables, GuestStep
  PROVE  Quiet
<1> USE DEF Running, Executes, Step, tables, guest, msrs, reg
<1>1. CASE NextIteration
  BY <1>1 DEF NextIteration, Tables, Quiet
<1>2. CASE Override
  BY <1>2 DEF Override, Tables, Quiet
<1>3. CASE Vmcall \/ Cpuid
  BY <1>3, VmExitQuiet DEF Vmcall, Cpuid
<1>4. CASE SetFlags
  BY <1>4 DEF SetFlags, Tables, Quiet
<1>5. CASE Checks
  BY <1>5 DEF Checks, Tables, Quiet
<1>6. CASE EptCountCheck
  BY <1>6 DEF EptCountCheck, Tables, Quiet
<1>7. CASE EptRead
  <2>1. CASE VmExit([reason |-> "EPT_VIOLATION"])
    BY <1>7, <2>1, VmExitQuiet DEF EptRead
  <2>2. CASE Step(TRUE) /\ UNCHANGED <<opt, exit, vmx, vmcs, msrs, tables>>
    BY <1>7, <2>2 DEF EptRead, Tables, Quiet
  <2> QED
    BY <1>7, <2>1, <2>2 DEF EptRead
<1>8. ASSUME NEW op, NEW access, NEW reason, AccessMsr(op, access, reason)
      PROVE  Quiet
  <2>0. mode = "guest"
    BY <1>8 DEF AccessMsr
  <2>1. CASE VmExit([reason |-> reason, msr |-> Op.msr, ebx |-> "normal"])
    BY <2>0, <2>1, VmExitQuiet
  <2>2. CASE UNCHANGED <<opt, mode, exit, vmx, vmcs, at, msrs, tables>>
    BY <2>0, <2>2 DEF Tables, Quiet
  <2>3. CASE /\ Step(TRUE)
             /\ \/ vmcs' = vmcs
                \/ vmcs' = [vmcs EXCEPT !.fs = Op.val]
                \/ vmcs' = [vmcs EXCEPT !.gs = Op.val]
             /\ UNCHANGED <<opt, exit, vmx, intr, stored, old_vals, bitmap, tables>>
    <3>1. /\ {"eptp", "vpid"} \subseteq DOMAIN vmcs'
          /\ vmcs'.eptp = vmcs.eptp /\ vmcs'.vpid = vmcs.vpid
      BY <2>3, OtherField DEF Tables
    <3> QED
      BY <2>0, <2>3, <3>1 DEF Quiet
  <2> QED
    BY <1>8, <2>1, <2>2, <2>3 DEF AccessMsr
<1> QED
  BY <1>1, <1>2, <1>3, <1>4, <1>5, <1>6, <1>7, <1>8 DEF GuestStep, Rdmsr, Wrmsr

\* Neither do the interrupt handlers of the guest.
LEMMA HandlerQuiet ==
  ASSUME Tables, HandlerStep
  PROVE  Quiet
<1> USE DEF tables, guest, msrs, reg
<1>1. CASE IdtStub
  <2>1. vmcs' = [vmcs EXCEPT !.fs = "0", !.gs = "0"]
    BY <1>1 DEF IdtStub
  <2>2. /\ {"eptp", "vpid"} \subseteq DOMAIN vmcs'
        /\ vmcs'.eptp = vmcs.eptp /\ vmcs'.vpid = vmcs.vpid
    BY <2>1 DEF Tables
  <2> QED
    BY <1>1, <2>2 DEF IdtStub, Quiet
<1>2. CASE IdtRdmsr
  <2>1. mode = "guest"
    BY <1>2 DEF IdtRdmsr
  <2>2. CASE VmExit([reason |-> "RDMSR", msr |-> HandlerRead[intr], ebx |-> "any"])
    BY <2>1, <2>2, VmExitQuiet
  <2>3. CASE UNCHANGED <<opt, mode, exit, vmx, vmcs, msrs, tables>>
    BY <2>1, <2>3 DEF Tables, Quiet
  <2> QED
    BY <1>2, <2>2, <2>3 DEF IdtRdmsr
<1>3. CASE IdtCpuid
  BY <1>3, VmExitQuiet DEF IdtCpuid
<1>4. CASE IdtEnd
  BY <1>4 DEF IdtEnd, Tables, Quiet
<1> QED
  BY <1>1, <1>2, <1>3, <1>4 DEF HandlerStep

\* A handler that resumes the guest without changing EPTs or VMX operation.
LEMMA ResumeQuiet ==
  ASSUME Tables, mode \in {"exit", "wait"}, NEW ok, Resume(ok),
         UNCHANGED <<ept, tlb, ept_num, vmx>>,
         {"eptp", "vpid"} \subseteq DOMAIN vmcs',
         vmcs'.eptp = vmcs.eptp, vmcs'.vpid = vmcs.vpid
  PROVE  Quiet
BY DEF Resume, Quiet

\* Most VM exit handlers, and interrupts, leave EPTs and VMX operation alone.
LEMMA HostQuiet ==
  ASSUME Tables,
         \/ DefaultHandler \/ MsrLs12 \/ MsrLs16 \/ EptViolation
         \/ WaitInt \/ WaitNothing \/ BitmapVmcs \/ BitmapBit \/ BitmapMsr
         \/ GuestInterrupt \/ HostInterrupt
  PROVE  Quiet
<1> USE DEF tables, guest, msrs, reg, Handles
<1>1. {"eptp", "vpid"} \subseteq DOMAIN vmcs
  BY DEF Tables
<1>2. CASE DefaultHandler
  BY <1>1, <1>2, ResumeQuiet DEF DefaultHandler
<1>3. CASE MsrLs12
  <2>1. vmcs' = [vmcs EXCEPT !.store = Used, !.load = Used, !.entry = Used]
    BY <1>3 DEF MsrLs12
  <2>2. /\ {"eptp", "vpid"} \subseteq DOMAIN vmcs'
        /\ vmcs'.eptp = vmcs.eptp /\ vmcs'.vpid = vmcs.vpid
    BY <1>1, <2>1
  <2> QED
    BY <1>3, <2>2, ResumeQuiet DEF MsrLs12
<1>4. CASE MsrLs16
  <2>1. vmcs' = [vmcs EXCEPT !.store = 0, !.load = 0, !.entry = 0]
    BY <1>4 DEF MsrLs16, ResetLists
  <2>2. /\ {"eptp", "vpid"} \subseteq DOMAIN vmcs'
        /\ vmcs'.eptp = vmcs.eptp /\ vmcs'.vpid = vmcs.vpid
    BY <1>1, <2>1
  <2> QED
    BY <1>4, <2>2, ResumeQuiet DEF MsrLs16
<1>5. CASE EptViolation
  BY <1>1, <1>5, ResumeQuiet DEF EptViolation
<1>6. CASE WaitInt
  BY <1>1, <1>6 DEF WaitInt, Quiet
<1>7. CASE WaitNothing
  BY <1>1, <1>7, ResumeQuiet DEF WaitNothing
<1>8. CASE BitmapVmcs
  <2>1. \/ vmcs' = [vmcs EXCEPT !.bitmaps = TRUE]
        \/ vmcs' = [vmcs EXCEPT !.bitmaps = FALSE]
        \/ vmcs' = [vmcs EXCEPT !.fs = "680effff", !.gs = "6810ffff"]
        \/ vmcs' = [vmcs EXCEPT !.fs = "0", !.gs = "0"]
    BY <1>8 DEF BitmapVmcs
  <2>2. /\ {"eptp", "vpid"} \subseteq DOMAIN vmcs'
        /\ vmcs'.eptp = vmcs.eptp /\ vmcs'.vpid = vmcs.vpid
    BY <1>1, <2>1
  <2>3. /\ \E ok : Resume(ok)
        /\ mode = "exit" /\ UNCHANGED <<ept, tlb, ept_num, vmx>>
    BY <1>8 DEF BitmapVmcs
  <2> QED
    BY <2>2, <2>3, ResumeQuiet
<1>9. CASE BitmapBit
  <2>1. /\ \E ok : Resume(ok)
        /\ mode = "exit" /\ UNCHANGED <<ept, tlb, ept_num, vmx, vmcs>>
    BY <1>9 DEF BitmapBit
  <2> QED
    BY <1>1, <2>1, ResumeQuiet
<1>10. CASE BitmapMsr
  BY <1>1, <1>10, ResumeQuiet DEF BitmapMsr
<1>11. CASE GuestInterrupt
  BY <1>1, <1>11 DEF GuestInterrupt, Running, Quiet
<1>12. CASE HostInterrupt
  BY <1>1, <1>12, ResumeQuiet DEF HostInterrupt
<1> QED
  BY <1>2, <1>3, <1>4, <1>5, <1>6, <1>7, <1>8, <1>9, <1>10, <1>11, <1>12

----------------------------------------------------------------------------

\* shv_build_ept leaves nothing cached that it changes: what was cached of the
\* EPT is dropped if it was built before, and nothing was if it was not.
LEMMA BuildEpt ==
  ASSUME Tables, CachedIsMapped, NEW n \in 0..(EptCount * EptSub - 1),
         shv_build_ept(n)
  PROVE  /\ ept' \in [Epts -> [valid : BOOLEAN, target : Nat,
                               large : {"same", "swapped"}]]
         /\ ept'[EptOf(n)].valid
         /\ CachedIsMapped'
<1> DEFINE r == EptOf(n)
           e == [valid |-> TRUE, target |-> n,
                 large |-> IF opt.large THEN "swapped" ELSE "same"]
<1>1. r \in Epts
  BY EptExists
<1>2. e \in [valid : BOOLEAN, target : Nat, large : {"same", "swapped"}] /\ e.valid
  OBVIOUS
<1>3. ept' = [ept EXCEPT ![r] = e] /\ tlb' = Invept(r)
  BY DEF shv_build_ept
<1> HIDE DEF r, e
<1>4. /\ ept' \in [Epts -> [valid : BOOLEAN, target : Nat, large : {"same", "swapped"}]]
      /\ ept'[r] = e /\ \A s \in Epts : s # r => ept'[s] = ept[s]
  BY <1>1, <1>2, <1>3 DEF Tables
<1>5. ASSUME NEW m \in tlb'
      PROVE  m[1] \in Epts /\ ept'[m[1]].valid /\ m \in Mappings(m[1])'
  <2>1. m \in tlb /\ m[1] # r
    <3>1. CASE ept[r].valid
      BY <1>3, <3>1 DEF Invept
    <3>2. CASE ~ept[r].valid
      BY <1>3, <3>2 DEF Invept, CachedIsMapped
    <3> QED
      BY <3>1, <3>2
  <2>2. m[1] \in Epts /\ ept[m[1]].valid /\ m \in Mappings(m[1])
    BY <2>1 DEF CachedIsMapped
  <2>3. ept'[m[1]] = ept[m[1]]
    BY <1>4, <2>1, <2>2
  <2>4. m \in Mappings(m[1])'
    BY <2>2, <2>3 DEF Mappings
  <2> QED
    BY <2>2, <2>3, <2>4
<1> QED
  BY <1>2, <1>4, <1>5 DEF CachedIsMapped, r

\* shv_vmx_main enters VMX operation with the EPT it has just built.
LEMMA ShvVmxMainIInv ==
  ASSUME IInv, ShvVmxMain
  PROVE  IInv'
<1> DEFINE x == VmPtrld(VmClear(VmxOn(vmx)))
<1>1. /\ mode = "start" /\ mode' \in {"entry", "failed"} /\ exit'.reason = "vmlaunch"
      /\ vmx' = VmWriteEs(x, "ffffffff")
      /\ vmcs' = [eptp |-> 0, vpid |-> IF opt.vpid THEN 1 ELSE 0,
                  bitmaps |-> FALSE, store |-> 0, load |-> 0, entry |-> 0,
                  fs |-> "0", gs |-> "0"]
      /\ IF opt.ept THEN shv_build_ept(0) ELSE UNCHANGED <<ept, tlb>>
      /\ opt' = opt /\ ept_num' = ept_num
  BY DEF ShvVmxMain, shv_vmx_vmcs_init
<1>2. /\ vmcs'.eptp = 0 /\ (opt.vpid => vmcs'.vpid = 1)
      /\ {"eptp", "vpid"} \subseteq DOMAIN vmcs'
  BY <1>1
<1>3. 0 \in 0..(EptCount * EptSub - 1) /\ EptOf(0) = 0 /\ 0 \in Epts
  BY GuestAssumption DEF EptOf, Epts
<1>4. Tables' /\ CachedIsMapped' /\ CurrentIsBuilt'
  <2>1. CASE opt.ept
    <3>1. /\ ept' \in [Epts -> [valid : BOOLEAN, target : Nat,
                                large : {"same", "swapped"}]]
          /\ ept'[EptOf(0)].valid /\ CachedIsMapped'
      BY <1>1, <1>3, <2>1, BuildEpt DEF IInv
    <3> QED
      BY <1>1, <1>2, <1>3, <3>1 DEF IInv, Tables, CurrentIsBuilt
  <2>2. CASE ~opt.ept
    BY <1>1, <1>2, <1>3, <2>2 DEF IInv, Tables, CachedIsMapped, CurrentIsBuilt, Mappings
  <2> QED
    BY <2>1, <2>2
<1>5. OddVpid'
  <2>1. 1 \in 0..(VpidCount - 1) /\ 1 % 2 = 1
    BY GuestAssumption
  <2> QED
    BY <1>1, <1>2, <2>1 DEF OddVpid
<1>6. Operation'
  <2>1. /\ vmx \in VmxStates
        /\ vmx.ok = TRUE /\ vmx.on = FALSE
    BY <1>1 DEF IInv, Operation
  <2> DEFINE a == VmxOn(vmx)
             b == VmClear(a)
  <2>2. a = [vmx EXCEPT !.on = TRUE]
    BY <2>1 DEF VmxOn
  <2>3. /\ a \in VmxStates
        /\ a.on = TRUE /\ a.ok = TRUE
    BY <2>1, <2>2 DEF VmxStates
  <2> HIDE DEF a
  <2>4. /\ b \in VmxStates
        /\ b.on = TRUE /\ b.ok = TRUE /\ b.launched = FALSE
    <3> DEFINE g == IF a.current THEN a.es ELSE a.region
    <3>1. b = [a EXCEPT !.current = FALSE, !.launched = FALSE, !.region = g]
      BY <2>3 DEF VmClear
    <3>2. g \in EsValues
      BY <2>3 DEF VmxStates
    <3> HIDE DEF b, g
    <3> QED
      BY <2>3, <3>1, <3>2 DEF VmxStates
  <2> HIDE DEF b
  <2>5. /\ x \in VmxStates
        /\ x.on = TRUE /\ x.ok = TRUE /\ x.launched = FALSE /\ x.current = TRUE
    <3>1. x = VmPtrld(b)
      BY DEF a, b
    <3> HIDE DEF x
    <3> QED
      BY <2>4, <3>1 DEF VmPtrld, VmxStates
  <2> HIDE DEF x
  <2>6. /\ vmx' \in VmxStates
        /\ vmx'.on = TRUE /\ vmx'.ok = TRUE /\ vmx'.launched = FALSE
        /\ vmx'.current = TRUE /\ vmx'.es = "ffffffff"
    <3>1. vmx' = [x EXCEPT !.es = "ffffffff"] /\ "ffffffff" \in EsValues
      BY <1>1, <2>5 DEF VmWriteEs, Writable, EsValues
    <3> QED
      BY <2>5, <3>1 DEF VmxStates
  <2> QED
    BY <1>1, <2>6 DEF Operation, Writable
<1> QED
  BY <1>4, <1>5, <1>6 DEF IInv

\* The exit handler that goes on to the next EPT builds it anew and invalidates.
LEMMA SwitchEptIInv ==
  ASSUME IInv, SwitchEpt
  PROVE  IInv'
<1> DEFINE n == (ept_num + 1) % (EptCount * EptSub)
<1>1. n \in 0..(EptCount * EptSub - 1)
  BY NextEptNum DEF IInv, Tables
<1>2. /\ mode = "exit" /\ mode' \in {"entry", "failed"} /\ exit'.reason = "vmresume"
      /\ ept_num' = n /\ shv_build_ept(n)
      /\ vmcs' = [vmcs EXCEPT !.eptp = EptOf(n)]
      /\ opt' = opt /\ vmx' = vmx
  BY DEF SwitchEpt, Handles, Resume
<1> HIDE DEF n
<1>3. EptOf(n) \in Epts
  BY <1>1, EptExists
<1>4. /\ {"eptp", "vpid"} \subseteq DOMAIN vmcs'
      /\ vmcs'.eptp = EptOf(n) /\ vmcs'.vpid = vmcs.vpid
  BY <1>2 DEF IInv, Tables
<1>5. /\ ept' \in [Epts -> [valid : BOOLEAN, target : Nat,
                            large : {"same", "swapped"}]]
      /\ ept'[EptOf(n)].valid /\ CachedIsMapped'
  BY <1>1, <1>2, BuildEpt DEF IInv
<1>6. Tables' /\ CurrentIsBuilt'
  BY <1>1, <1>2, <1>3, <1>4, <1>5 DEF Tables, CurrentIsBuilt
<1>7. OddVpid'
  BY <1>2, <1>4 DEF IInv, OddVpid
<1>8. Operation'
  BY <1>2 DEF IInv, Operation, Writable
<1> QED
  BY <1>5, <1>6, <1>7, <1>8 DEF IInv

\* A VM entry caches what the current EPT maps.
LEMMA VmEntryIInv ==
  ASSUME IInv, VmEntry
  PROVE  IInv'
<1>1. /\ mode = "entry" /\ UNCHANGED <<opt, exit, vmcs, ept, ept_num>>
  BY DEF VmEntry
<1>2. Tables' /\ CurrentIsBuilt' /\ OddVpid'
  BY <1>1 DEF VmEntry, IInv, Tables, CurrentIsBuilt, OddVpid
<1>3. CachedIsMapped'
  <2> SUFFICES ASSUME NEW m \in tlb'
               PROVE  m[1] \in Epts /\ ept[m[1]].valid /\ m \in Mappings(m[1])
    BY <1>1 DEF CachedIsMapped, Mappings
  <2>1. CASE m \in tlb
    BY <2>1 DEF IInv, CachedIsMapped
  <2>2. CASE m \notin tlb
    <3>1. opt.ept /\ m \in Mappings(vmcs.eptp)
      BY <2>2 DEF VmEntry
    <3>2. m[1] = vmcs.eptp
      BY <3>1 DEF Mappings
    <3>3. vmcs.eptp \in Epts /\ ept[vmcs.eptp].valid
      BY <1>1, <3>1 DEF IInv, Tables, CurrentIsBuilt
    <3> QED
      BY <3>1, <3>2, <3>3
  <2> QED
    BY <2>1, <2>2
<1>4. Operation'
  <2>1. vmx \in VmxStates /\ Writable(vmx) /\ vmx.ok = TRUE /\ vmx.es = "ffffffff"
    BY <1>1 DEF IInv, Operation
  <2>2. CASE mode' = "guest" /\ vmx' = [vmx EXCEPT !.launched = TRUE]
    <3>1. /\ vmx' \in VmxStates /\ vmx'.ok = TRUE /\ vmx'.launched = TRUE
          /\ vmx'.on = vmx.on /\ vmx'.current = vmx.current /\ vmx'.es = vmx.es
      BY <2>1, <2>2 DEF VmxStates
    <3> QED
      BY <2>1, <2>2, <3>1 DEF Operation, Writable
  <2>3. CASE mode' = "failed" /\ vmx' = vmx
    BY <2>1, <2>3 DEF Operation
  <2> QED
    BY <2>2, <2>3 DEF VmEntry
<1> QED
  BY <1>2, <1>3, <1>4 DEF IInv

\* The VPID test leaves an odd VPID behind.
LEMMA TestVpidIInv ==
  ASSUME IInv, TestVpid
  PROVE  IInv'
<1>1. /\ mode = "exit" /\ mode' \in {"entry", "failed"} /\ exit'.reason = "vmresume"
      /\ vmcs' = [vmcs EXCEPT !.vpid = NextVpid]
      /\ UNCHANGED <<opt, vmx, ept, ept_num, tlb>>
  BY DEF TestVpid, Handles, Resume, tables
<1>2. /\ {"eptp", "vpid"} \subseteq DOMAIN vmcs'
      /\ vmcs'.eptp = vmcs.eptp /\ vmcs'.vpid = NextVpid
  BY <1>1 DEF IInv, Tables
<1>3. Tables' /\ CachedIsMapped' /\ CurrentIsBuilt'
  BY <1>1, <1>2 DEF IInv, Tables, CachedIsMapped, CurrentIsBuilt, Mappings
<1>4. Operation'
  BY <1>1 DEF IInv, Operation, Writable
<1>5. OddVpid'
  <2> SUFFICES ASSUME opt.vpid
               PROVE  NextVpid \in 0..(VpidCount - 1) /\ NextVpid % 2 = 1
    BY <1>1, <1>2 DEF OddVpid
  <2>1. vmcs.vpid \in 0..(VpidCount - 1) /\ vmcs.vpid % 2 = 1
    BY <1>1 DEF IInv, OddVpid
  <2> QED
    BY <2>1, NextVpidOdd DEF NextVpid
<1> QED
  BY <1>3, <1>4, <1>5 DEF IInv

\* The states that the VMXOFF test goes through: the VMCS is written back to its
\* region, which is edited, and loaded again, never launched.
LEMMA TestVmxoffStates ==
  ASSUME NEW x \in VmxStates, x.on = TRUE, x.current = TRUE, x.ok = TRUE,
         NEW off
  PROVE  LET cleared == VmClear(VmWriteEs(x, "a69f1c74"))
             again == IF off THEN VmxOn(VmxOff(cleared)) ELSE cleared
             edited == [again EXCEPT !.region = x.es]
             loaded == VmPtrld(VmClear(edited))
         IN /\ ~Writable(cleared) /\ ~Writable(edited)
            /\ again.region = "a69f1c74" /\ loaded.es = x.es
            /\ loaded \in VmxStates /\ loaded.ok = TRUE /\ loaded.on = TRUE
            /\ loaded.current = TRUE /\ loaded.launched = FALSE
<1> DEFINE y == [x EXCEPT !.es = "a69f1c74"]
           c == [x EXCEPT !.current = FALSE, !.launched = FALSE, !.es = "a69f1c74",
                          !.region = "a69f1c74"]
           e == [c EXCEPT !.region = x.es]
           l == [e EXCEPT !.current = TRUE, !.es = x.es]
<1>1. VmWriteEs(x, "a69f1c74") = y
  BY DEF VmWriteEs, Writable
<1>2. VmClear(y) = c
  <2>1. y.on = TRUE /\ y.current = TRUE /\ y.es = "a69f1c74"
    BY DEF VmxStates
  <2>2. VmClear(y) = [y EXCEPT !.current = FALSE, !.launched = FALSE,
                               !.region = "a69f1c74"]
    BY <2>1 DEF VmClear
  <2> QED
    BY <2>2 DEF VmxStates
<1>3. /\ c \in VmxStates /\ c.on = TRUE /\ c.current = FALSE /\ c.launched = FALSE
      /\ c.ok = TRUE /\ c.region = "a69f1c74"
  BY DEF VmxStates, EsValues
<1> HIDE DEF c
<1>4. VmxOn(VmxOff(c)) = c
  <2>1. VmxOff(c) = [c EXCEPT !.on = FALSE, !.current = FALSE]
    BY <1>3 DEF VmxOff
  <2>2. VmxOn(VmxOff(c)) = [c EXCEPT !.on = TRUE, !.current = FALSE]
    BY <1>3, <2>1 DEF VmxOn, VmxStates
  <2> QED
    BY <1>3, <2>2 DEF VmxStates
<1>5. /\ e \in VmxStates /\ e.on = TRUE /\ e.current = FALSE /\ e.launched = FALSE
      /\ e.ok = TRUE /\ e.region = x.es
  BY <1>3 DEF VmxStates
<1> HIDE DEF e
<1>6. VmClear(e) = e
  BY <1>5 DEF VmClear, VmxStates
<1>7. VmPtrld(e) = l
  BY <1>5 DEF VmPtrld
<1>8. /\ l \in VmxStates /\ l.ok = TRUE /\ l.on = TRUE /\ l.current = TRUE
      /\ l.launched = FALSE /\ l.es = x.es
  BY <1>5 DEF VmxStates
<1> HIDE DEF l, y
<1> QED
  BY <1>1, <1>2, <1>3, <1>4, <1>5, <1>6, <1>7, <1>8 DEF Writable, e

\* What the VMXOFF test leaves: it fails only if VMCALL was not its own.
LEMMA TestVmxoffFacts ==
  ASSUME IInv, TestVmxoff
  PROVE  /\ mode = "exit" /\ exit'.reason = "vmlaunch"
         /\ mode' \in {"entry", "failed"} /\ (exit.eax = 22 => mode' = "entry")
         /\ UNCHANGED <<opt, vmcs, ept, ept_num, tlb>>
         /\ vmx' \in VmxStates /\ vmx'.ok = TRUE /\ vmx'.on = TRUE
         /\ vmx'.current = TRUE /\ vmx'.launched = FALSE /\ vmx'.es = vmx.es
<1> DEFINE off == exit.ebx = 1
           cleared == VmClear(VmWriteEs(vmx, "a69f1c74"))
           again == IF off THEN VmxOn(VmxOff(cleared)) ELSE cleared
           edited == [again EXCEPT !.region = vmx.es]
           loaded == VmPtrld(VmClear(edited))
<1>1. mode = "exit"
  BY DEF TestVmxoff, Handles
<1>2. vmx \in VmxStates /\ vmx.on = TRUE /\ vmx.current = TRUE /\ vmx.ok = TRUE
  BY <1>1 DEF IInv, Operation, Writable, VmxStates
<1>3. /\ ~Writable(cleared) /\ ~Writable(edited)
      /\ again.region = "a69f1c74" /\ loaded.es = vmx.es
      /\ loaded \in VmxStates /\ loaded.ok = TRUE /\ loaded.on = TRUE
      /\ loaded.current = TRUE /\ loaded.launched = FALSE
  BY <1>2, TestVmxoffStates
<1>4. /\ vmx' = loaded
      /\ mode' = IF /\ exit.eax = 22 /\ loaded.ok /\ ~Writable(cleared)
                    /\ again.region = "a69f1c74" /\ ~Writable(edited)
                    /\ loaded.es = vmx.es
                 THEN "entry" ELSE "failed"
      /\ exit' = [reason |-> "vmlaunch"]
      /\ UNCHANGED <<opt, vmcs, ept, ept_num, tlb>>
  BY DEF TestVmxoff, tables
<1> HIDE DEF cleared, again, edited, loaded
<1> QED
  BY <1>1, <1>3, <1>4

\* The VMXOFF test ends in VMX operation with the VMCS it started with.
LEMMA TestVmxoffIInv ==
  ASSUME IInv, TestVmxoff
  PROVE  IInv'
<1>1. /\ mode = "exit" /\ exit'.reason = "vmlaunch" /\ mode' \in {"entry", "failed"}
      /\ UNCHANGED <<opt, vmcs, ept, ept_num, tlb>>
      /\ vmx' \in VmxStates /\ vmx'.ok = TRUE /\ vmx'.on = TRUE
      /\ vmx'.current = TRUE /\ vmx'.launched = FALSE /\ vmx'.es = vmx.es
  BY TestVmxoffFacts
<1>2. Tables' /\ CachedIsMapped' /\ CurrentIsBuilt' /\ OddVpid'
  BY <1>1 DEF IInv, Tables, CachedIsMapped, CurrentIsBuilt, OddVpid, Mappings
<1>3. Operation'
  BY <1>1 DEF IInv, Operation, Writable
<1> QED
  BY <1>2, <1>3 DEF IInv

----------------------------------------------------------------------------

\* No step breaks the invariant.
LEMMA NextIInv ==
  ASSUME IInv, [Next]_vars
  PROVE  IInv'
<1>1. CASE GuestStep
  BY <1>1, GuestQuiet, QuietIInv DEF IInv
<1>2. CASE HandlerStep
  BY <1>2, HandlerQuiet, QuietIInv DEF IInv
<1>3. CASE ShvVmxMain
  BY <1>3, ShvVmxMainIInv
<1>4. CASE VmEntry
  BY <1>4, VmEntryIInv
<1>5. CASE SwitchEpt
  BY <1>5, SwitchEptIInv
<1>6. CASE TestVpid
  BY <1>6, TestVpidIInv
<1>7. CASE TestVmxoff
  BY <1>7, TestVmxoffIInv
<1>8. CASE \/ DefaultHandler \/ MsrLs12 \/ MsrLs16 \/ EptViolation
           \/ WaitInt \/ WaitNothing \/ BitmapVmcs \/ BitmapBit \/ BitmapMsr
           \/ GuestInterrupt \/ HostInterrupt
  BY <1>8, HostQuiet, QuietIInv DEF IInv
<1>9. CASE UNCHANGED vars
  <2>1. UNCHANGED <<opt, mode, exit, vmx, vmcs, ept, ept_num, tlb>>
    BY <1>9 DEF vars, tables
  <2>2. Tables' /\ CachedIsMapped' /\ CurrentIsBuilt' /\ OddVpid'
    BY <2>1 DEF IInv, Tables, CachedIsMapped, CurrentIsBuilt, OddVpid, Mappings
  <2>3. Operation'
    BY <2>1 DEF IInv, Operation, Writable
  <2> QED
    BY <2>2, <2>3 DEF IInv
<1> QED
  BY <1>1, <1>2, <1>3, <1>4, <1>5, <1>6, <1>7, <1>8, <1>9 DEF Next, HostStep

\* So it always holds.
LEMMA Inductive == Spec => []IInv
<1>1. Init => IInv
  BY InitIInv
<1>2. IInv /\ [Next]_vars => IInv'
  BY NextIInv
<1> QED
  BY <1>1, <1>2, PTL DEF Spec

\* For every number of EPTs, every sharing of them between ept_nums and every
\* order of switches and VM exits: the guest never runs on a mapping that
\* shv_build_ept has changed since it was cached.
THEOREM MappingsFresh == Spec => []NoStaleMapping
<1>1. IInv => NoStaleMapping
  BY DEF IInv, CachedIsMapped, NoStaleMapping
<1> QED
  BY <1>1, Inductive, PTL

\* shv_vmx_main comes to its VMLAUNCH.
LEMMA ShvVmxMainEnters ==
  ASSUME IInv, ShvVmxMain
  PROVE  mode' = "entry"
<1>1. vmx'.ok = TRUE
  BY ShvVmxMainIInv DEF IInv, Operation
<1> QED
  BY <1>1 DEF ShvVmxMain

\* A VM entry succeeds.
LEMMA VmEntrySucceeds ==
  ASSUME IInv, mode = "entry"
  PROVE  EntryValid
<1>1. Writable(vmx) /\ vmx.launched = (exit.reason = "vmresume")
  BY DEF IInv, Operation
<1>2. opt.vpid => vmcs.vpid # 0
  <2>1. opt.vpid => vmcs.vpid % 2 = 1
    BY DEF IInv, OddVpid
  <2>2. 0 % 2 # 1
    OBVIOUS
  <2> QED
    BY <2>1, <2>2
<1> QED
  BY <1>1, <1>2 DEF EntryValid

\* No VMX instruction of the host fails, whatever the tests before it did:
\* shv_vmx_main comes to its VMLAUNCH, every VMLAUNCH and VMRESUME starts the
\* guest (VMRESUME after an ordinary VM exit, VMLAUNCH after the VMXOFF test;
\* no VPID is 0 when the 16-bit counter wraps), and the VMXOFF test finds the
\* VMCS written back, edited and loaded again.
HostSucceeds ==
  [][/\ ShvVmxMain => mode' = "entry"
     /\ VmEntry => mode' = "guest"
     /\ TestVmxoff /\ exit.eax = 22 => mode' = "entry"]_vars

\* For every configuration and number of VPIDs the VMX instructions of the host
\* succeed: VMXON to VMLAUNCH, every VM entry, and those of the VMXOFF test.
THEOREM VmxSucceeds == Spec => HostSucceeds
<1> DEFINE A == /\ ShvVmxMain => mode' = "entry"
                /\ VmEntry => mode' = "guest"
                /\ TestVmxoff /\ exit.eax = 22 => mode' = "entry"
<1>1. ASSUME IInv, [Next]_vars
      PROVE  [A]_vars
  <2>1. ShvVmxMain => mode' = "entry"
    BY <1>1, ShvVmxMainEnters
  <2>2. VmEntry => mode' = "guest"
    BY <1>1, VmEntrySucceeds DEF VmEntry
  <2>3. ASSUME TestVmxoff, exit.eax = 22 PROVE mode' = "entry"
    BY <1>1, <2>3, TestVmxoffFacts
  <2> QED
    BY <2>1, <2>2, <2>3
<1>2. [][A]_vars => HostSucceeds
  BY DEF HostSucceeds
<1> QED
  BY <1>1, <1>2, Inductive, PTL DEF Spec

----------------------------------------------------------------------------
(* What a test knows at each point of its code. *)

Overrides == {"NULL", "msr_ls", "ept", "switch_ept", "vpid", "vmxoff", "wait_int",
              "msr_bitmap"}
Bases == {"0", "680effff", "6810ffff", "ffff680e", "ffff6810"}
BitSets == SUBSET BitNums

\* What is known between two operations: the handler that is installed, whether
\* the MSR lists are in use, the MSR bitmap, TSC_ADJUST and EBX ("any" if
\* nothing), whether interrupts are off, paging, the bases of FS and GS, and
\* whether the page of the EPT test was read. With paging off or bases in use
\* no interrupt may come.
Points ==
  {s \in [handler : Overrides, lists : BOOLEAN,
          bitmaps : BOOLEAN, bits : BitSets,
          tsc : {"boot", "any"}, ebx : {"any", "normal", "vmexit", "except"},
          off : BOOLEAN, pg : BOOLEAN, fs : Bases, gs : Bases,
          ept : {"idle", "read"}] :
     ~s.pg \/ s.fs # "0" \/ s.gs # "0" => s.off}

\* With handler h installed and nothing else changed.
With(h) ==
  [handler |-> h, lists |-> FALSE, bitmaps |-> FALSE, bits |-> {},
   tsc |-> "boot", ebx |-> "any", off |-> FALSE, pg |-> TRUE,
   fs |-> "0", gs |-> "0", ept |-> "idle"]

\* Between two tests.
Clean == With("NULL")

\* What becomes of an access to an MSR.
Outcome(s, op) ==
  IF ~s.bitmaps \/ BitOf(IF op.op = "rdmsr" THEN "read" ELSE "write", op.msr) \in s.bits
  THEN "vmexit"
  ELSE IF op.msr \in Absent THEN "except" ELSE "normal"

\* The VMCALLs that the handlers expect.
MayCall(o, op, s) ==
  \/ s.handler = "msr_ls" /\ op.eax = 12 /\ ~s.lists
  \/ s.handler = "msr_ls" /\ op.eax = 16 /\ s.lists
  \/ s.handler = "switch_ept" /\ op.eax = 17 /\ s.ept = "idle" /\ o.ept
  \/ s.handler = "vpid" /\ op.eax = 19 /\ o.vpid
  \/ s.handler = "vmxoff" /\ op.eax = 22 /\ op.ebx \in {0, 1}
  \/ s.handler = "wait_int" /\ op.eax = 25
  \/ /\ s.handler = "msr_bitmap"
     /\ \/ op.eax = 34 /\ ~s.bitmaps /\ s.bits = {} /\ s.tsc = "boot"
        \/ op.eax = 37 /\ s.bitmaps
        \/ op.eax = 38 /\ op.ebx \in BitNums \ s.bits
        \/ op.eax = 39 /\ op.ebx \in s.bits
        \/ op.eax = 41 /\ s.fs = "0" /\ s.gs = "0"
        \/ op.eax = 42 /\ s.fs = "ffff680e" /\ s.gs = "ffff6810"

\* Accesses to MSRs: two of get_vcpu, which the default handler lets pass, and
\* those of the bitmap test.
MayAccess(op, s) ==
  /\ s.ebx = "any"
  /\ \/ s.handler = "NULL" /\ ~s.bitmaps /\ op.op = "rdmsr"
     \/ /\ s.handler = "msr_bitmap"
        /\ op.msr \in {"LSTAR", "TSC_ADJUST", "FS_BASE", "GS_BASE"} \cup Absent
        /\ Outcome(s, op) = "except" => s.pg /\ s.fs = "0" /\ s.gs = "0"
        /\ op.op = "wrmsr" =>
             op.val \in IF op.msr \in {"FS_BASE", "GS_BASE"} THEN Bases ELSE {"guest"}

\* Operation op can be executed at point s ...
May(o, op, s) ==
  \/ op.op \in {"cpuid", "hlt", "cli", "sti", "paging", "override"}
  \/ op.op = "vmcall" /\ MayCall(o, op, s)
  \/ op.op \in {"rdmsr", "wrmsr"} /\ MayAccess(op, s)
  \/ op.op = "check_ebx" /\ s.ebx # "any" /\ s.ebx = op.ebx
  \/ op.op = "check_fs_gs" /\ s.fs = op.fs /\ s.gs = op.gs
  \/ op.op = "ept_fresh" /\ s.ept = "idle"
  \/ op.op = "ept_read" /\ s.ept = "idle" /\ s.handler = "ept" /\ o.ept
  \/ op.op \in {"ept_check", "ept_count"} /\ s.ept = "read"
  \/ op.op = "large_page" /\ o.large /\ o.ept

\* ... and leads to this point.
After(o, op, s) ==
  LET call(n) == op.op = "vmcall" /\ op.eax = n
      access == op.op \in {"rdmsr", "wrmsr"}
      wrote(m) == op.op = "wrmsr" /\ op.msr = m /\ Outcome(s, op) = "normal"
  IN [handler |-> IF op.op = "override" THEN op.to ELSE s.handler,
      lists |-> IF call(12) THEN TRUE ELSE IF call(16) THEN FALSE ELSE s.lists,
      bitmaps |-> IF call(34) THEN TRUE ELSE IF call(37) THEN FALSE ELSE s.bitmaps,
      bits |-> IF call(38) THEN s.bits \cup {op.ebx}
               ELSE IF call(39) THEN s.bits \ {op.ebx} ELSE s.bits,
      tsc |-> IF call(37) THEN "boot"
              ELSE IF wrote("TSC_ADJUST") THEN "any" ELSE s.tsc,
      ebx |-> IF access /\ s.handler = "msr_bitmap" THEN Outcome(s, op)
              ELSE IF access \/ op.op = "check_ebx" THEN "any" ELSE s.ebx,
      off |-> IF op.op = "cli" THEN TRUE ELSE IF op.op = "sti" THEN FALSE
              ELSE IF call(42) /\ o.no_if THEN FALSE ELSE s.off,
      pg |-> IF op.op = "paging" THEN op.on ELSE s.pg,
      fs |-> IF call(41) THEN "680effff" ELSE IF call(42) THEN "0"
             ELSE IF wrote("FS_BASE") THEN op.val ELSE s.fs,
      gs |-> IF call(41) THEN "6810ffff" ELSE IF call(42) THEN "0"
             ELSE IF wrote("GS_BASE") THEN op.val ELSE s.gs,
      ept |-> IF op.op = "ept_read" THEN "read"
              ELSE IF op.op = "ept_count" THEN "idle" ELSE s.ept]

\* The operations of the tests.
Ops ==
  [op : {"cli", "sti", "hlt", "ept_fresh", "ept_read", "ept_check", "ept_count",
         "large_page"}]
  \cup [op : {"cpuid"}, eax : {"xmhf"}]
  \cup [op : {"paging"}, on : BOOLEAN]
  \cup [op : {"override"}, to : Overrides]
  \cup [op : {"vmcall"}, eax : Nat, ebx : Nat]
  \cup [op : {"rdmsr"}, msr : DOMAIN Address]
  \cup [op : {"wrmsr"}, msr : DOMAIN Address, val : Bases \cup {"guest"}]
  \cup [op : {"check_ebx"}, ebx : {"normal", "vmexit", "except"}]
  \cup [op : {"check_fs_gs"}, fs : Bases, gs : Bases]

\* st is what is known before, between and behind the operations of code.
Path(o, code, st) ==
  /\ code \in Seq(Ops)
  /\ st \in [0..Len(code) -> Points]
  /\ \A n \in 1..Len(code) :
       May(o, code[n], st[n - 1]) /\ st[n] = After(o, code[n], st[n - 1])

\* From point s, code can be executed and ends at point t.
Run(o, code, s, t) ==
  \E st : Path(o, code, st) /\ st[0] = s /\ st[Len(code)] = t

\* No operation at all.
LEMMA RunNothing ==
  ASSUME NEW o, NEW s \in Points
  PROVE  Run(o, << >>, s, s)
<1> DEFINE st == [n \in 0..0 |-> s]
<1>1. Len(<< >>) = 0 /\ << >> \in Seq(Ops)
  OBVIOUS
<1>2. Path(o, << >>, st) /\ st[0] = s /\ st[Len(<< >>)] = s
  BY <1>1 DEF Path
<1> QED
  BY <1>2 DEF Run

\* One operation.
LEMMA RunOne ==
  ASSUME NEW o, NEW op \in Ops, NEW s \in Points, NEW t \in Points,
         May(o, op, s), t = After(o, op, s)
  PROVE  Run(o, <<op>>, s, t)
<1> DEFINE st == [n \in 0..1 |-> IF n = 0 THEN s ELSE t]
<1>1. Len(<<op>>) = 1 /\ <<op>> \in Seq(Ops) /\ <<op>>[1] = op
  OBVIOUS
<1>2. st \in [0..1 -> Points] /\ st[0] = s /\ st[1] = t
  OBVIOUS
<1> HIDE DEF st
<1>3. Path(o, <<op>>, st)
  <2> SUFFICES ASSUME NEW n \in 1..Len(<<op>>)
               PROVE  /\ May(o, <<op>>[n], st[n - 1])
                      /\ st[n] = After(o, <<op>>[n], st[n - 1])
    BY <1>1, <1>2 DEF Path
  <2>1. n = 1 /\ n - 1 = 0
    BY <1>1
  <2> QED
    BY <1>1, <1>2, <2>1
<1> QED
  BY <1>1, <1>2, <1>3 DEF Run

\* Two operations are one behind the other.
LEMMA Pair ==
  ASSUME NEW a, NEW b
  PROVE  <<a, b>> = <<a>> \o <<b>>
<1> DEFINE S == {a, b}
           c == <<a>> \o <<b>>
<1>1. <<a>> \in Seq(S) /\ <<b>> \in Seq(S) /\ <<a, b>> \in Seq(S)
  OBVIOUS
<1>2. /\ c \in Seq(S) /\ Len(c) = 2 /\ c[1] = a /\ c[2] = b
  BY <1>1
<1> HIDE DEF c
<1>3. <<a, b>> = c
  BY <1>1, <1>2
<1> QED
  BY <1>3 DEF c

\* One piece of code behind another.
LEMMA RunThen ==
  ASSUME NEW o, NEW a, NEW b, NEW s, NEW t, NEW u,
         Run(o, a, s, t), Run(o, b, t, u)
  PROVE  Run(o, a \o b, s, u)
<1>1. PICK p : Path(o, a, p) /\ p[0] = s /\ p[Len(a)] = t
  BY DEF Run
<1>2. PICK q : Path(o, b, q) /\ q[0] = t /\ q[Len(b)] = u
  BY DEF Run
<1>3. a \in Seq(Ops) /\ b \in Seq(Ops) /\ Len(a) \in Nat /\ Len(b) \in Nat
  BY <1>1, <1>2 DEF Path
<1>4. /\ a \o b \in Seq(Ops) /\ Len(a \o b) = Len(a) + Len(b)
      /\ \A n \in 1..(Len(a) + Len(b)) :
           (a \o b)[n] = IF n <= Len(a) THEN a[n] ELSE b[n - Len(a)]
  BY <1>3
<1> DEFINE st == [n \in 0..(Len(a) + Len(b)) |->
                    IF n <= Len(a) THEN p[n] ELSE q[n - Len(a)]]
<1>5. \A n \in 0..Len(b) : st[Len(a) + n] = q[n]
  BY <1>1, <1>2, <1>3
<1>6. \A n \in 0..Len(a) : st[n] = p[n]
  BY <1>3
<1>7. st \in [0..(Len(a) + Len(b)) -> Points]
  <2> SUFFICES ASSUME NEW n \in 0..(Len(a) + Len(b)) PROVE st[n] \in Points
    OBVIOUS
  <2>1. CASE n <= Len(a)
    BY <1>1, <1>3, <2>1 DEF Path
  <2>2. CASE ~(n <= Len(a))
    <3>1. n - Len(a) \in 0..Len(b)
      BY <1>3, <2>2
    <3> QED
      BY <1>2, <2>2, <3>1 DEF Path
  <2> QED
    BY <2>1, <2>2
<1> HIDE DEF st
<1>8. Path(o, a \o b, st)
  <2> SUFFICES ASSUME NEW n \in 1..(Len(a) + Len(b))
               PROVE  /\ May(o, (a \o b)[n], st[n - 1])
                      /\ st[n] = After(o, (a \o b)[n], st[n - 1])
    BY <1>4, <1>7 DEF Path
  <2>1. CASE n <= Len(a)
    <3>1. /\ n \in 1..Len(a) /\ n \in 0..Len(a) /\ n - 1 \in 0..Len(a)
          /\ (a \o b)[n] = a[n]
      BY <1>3, <1>4, <2>1
    <3>2. st[n] = p[n] /\ st[n - 1] = p[n - 1]
      BY <1>6, <3>1
    <3> QED
      BY <1>1, <3>1, <3>2 DEF Path
  <2>2. CASE ~(n <= Len(a))
    <3> DEFINE m == n - Len(a)
    <3>1. /\ m \in 1..Len(b) /\ m \in 0..Len(b) /\ m - 1 \in 0..Len(b)
          /\ (a \o b)[n] = b[m] /\ n = Len(a) + m /\ n - 1 = Len(a) + (m - 1)
      BY <1>3, <1>4, <2>2
    <3> HIDE DEF m
    <3>2. st[n] = q[m] /\ st[n - 1] = q[m - 1]
      BY <1>5, <3>1
    <3> QED
      BY <1>2, <3>1, <3>2 DEF Path
  <2> QED
    BY <2>1, <2>2
<1>9. st[0] = s /\ st[Len(a \o b)] = u
  <2>1. 0 \in 0..Len(a) /\ Len(b) \in 0..Len(b)
    BY <1>3
  <2> QED
    BY <1>1, <1>2, <1>4, <1>5, <1>6, <2>1
<1> QED
  BY <1>8, <1>9 DEF Run

\* A test that runs only under a condition, and changes nothing known if it does.
LEMMA RunWhen ==
  ASSUME NEW o, NEW c \in BOOLEAN, NEW code, NEW s \in Points,
         c => Run(o, code, s, s)
  PROVE  Run(o, When(c, code), s, s)
BY RunNothing DEF When

----------------------------------------------------------------------------
(* The tests, one by one. *)

\* The points of the tests are points.
LEMMA TestPoints ==
  /\ \A h \in Overrides : With(h) \in Points
  /\ Clean \in Points
<1>0. {} \in BitSets
  BY DEF BitSets
<1>1. ASSUME NEW h \in Overrides PROVE With(h) \in Points
  BY <1>0 DEF Points, With, Bases
<1> QED
  BY <1>1 DEF Clean, Overrides

\* Installing a handler.
LEMMA RunInstall ==
  ASSUME NEW o, NEW g \in Overrides, NEW h \in Overrides
  PROVE  Run(o, install(h), With(g), With(h))
<1> DEFINE op == [op |-> "override", to |-> h]
<1>1. op \in Ops /\ op.op = "override" /\ op.to = h
  BY DEF Ops
<1> HIDE DEF op
<1>2. May(o, op, With(g))
  BY <1>1 DEF May
<1>3. With(h) = After(o, op, With(g))
  BY <1>1 DEF After, With
<1>4. Run(o, <<op>>, With(g), With(h))
  BY <1>1, <1>2, <1>3, RunOne, TestPoints
<1> QED
  BY <1>4 DEF install, op

\* A VMCALL that the handler expects.
LEMMA RunCall ==
  ASSUME NEW o, NEW a \in Nat, NEW b \in Nat, NEW s \in Points, NEW t \in Points,
         MayCall(o, [op |-> "vmcall", eax |-> a, ebx |-> b], s),
         t = After(o, [op |-> "vmcall", eax |-> a, ebx |-> b], s)
  PROVE  Run(o, vmcall(a, b), s, t)
<1> DEFINE op == [op |-> "vmcall", eax |-> a, ebx |-> b]
<1>1. op \in Ops /\ op.op = "vmcall" /\ MayCall(o, op, s) /\ t = After(o, op, s)
  BY DEF Ops
<1> HIDE DEF op
<1>2. May(o, op, s)
  BY <1>1 DEF May
<1>3. Run(o, <<op>>, s, t)
  BY <1>1, <1>2, RunOne
<1> QED
  BY <1>3 DEF vmcall, op

\* A test that installs its handler, and removes it at the end.
LEMMA RunTest ==
  ASSUME NEW o, NEW h \in Overrides, NEW body, Run(o, body, With(h), With(h))
  PROVE  Run(o, Test(h, body), Clean, Clean)
<1>1. "NULL" \in Overrides
  BY DEF Overrides
<1>2. Run(o, install(h), Clean, With(h)) /\ Run(o, install("NULL"), With(h), Clean)
  BY <1>1, RunInstall DEF Clean
<1>3. Run(o, install(h) \o body, Clean, With(h))
  BY <1>2, RunThen
<1>4. Run(o, install(h) \o body \o install("NULL"), Clean, Clean)
  BY <1>2, <1>3, RunThen
<1> QED
  BY <1>4 DEF Test

\* The tests of ept_num, VPIDs and VMXOFF, and the wait for an interrupt: one
\* VMCALL that changes nothing known.
LEMMA RunCallTests ==
  ASSUME NEW o
  PROVE  /\ o.ept => Run(o, shv_guest_switch_ept, Clean, Clean)
         /\ o.vpid => Run(o, shv_guest_test_vpid, Clean, Clean)
         /\ \A off \in BOOLEAN : Run(o, shv_guest_test_vmxoff(off), Clean, Clean)
         /\ Run(o, shv_guest_wait_int, Clean, Clean)
<1>1. /\ {"switch_ept", "vpid", "vmxoff", "wait_int"} \subseteq Overrides
      /\ \A h \in Overrides : With(h).handler = h /\ With(h).ept = "idle"
  BY DEF Overrides, With
<1>2. ASSUME NEW h \in Overrides, NEW a \in {17, 19, 22, 25}, NEW b \in Nat,
             MayCall(o, [op |-> "vmcall", eax |-> a, ebx |-> b], With(h))
      PROVE  Run(o, Test(h, vmcall(a, b)), Clean, Clean)
  <2> DEFINE op == [op |-> "vmcall", eax |-> a, ebx |-> b]
  <2>1. /\ op.op = "vmcall" /\ op.eax = a /\ a \in Nat
        /\ a # 12 /\ a # 16 /\ a # 34 /\ a # 37 /\ a # 38 /\ a # 39 /\ a # 41
        /\ a # 42
    OBVIOUS
  <2> HIDE DEF op
  <2>2. With(h) = After(o, op, With(h))
    BY <2>1 DEF After, With
  <2>3. Run(o, vmcall(a, b), With(h), With(h))
    BY <1>2, <2>1, <2>2, RunCall, TestPoints DEF op
  <2> QED
    BY <2>3, RunTest
<1>3. ASSUME o.ept PROVE Run(o, shv_guest_switch_ept, Clean, Clean)
  <2>1. MayCall(o, [op |-> "vmcall", eax |-> 17, ebx |-> 0], With("switch_ept"))
    BY <1>1, <1>3 DEF MayCall
  <2> QED
    BY <1>1, <1>2, <2>1 DEF shv_guest_switch_ept
<1>4. ASSUME o.vpid PROVE Run(o, shv_guest_test_vpid, Clean, Clean)
  <2>1. MayCall(o, [op |-> "vmcall", eax |-> 19, ebx |-> 0], With("vpid"))
    BY <1>1, <1>4 DEF MayCall
  <2> QED
    BY <1>1, <1>2, <2>1 DEF shv_guest_test_vpid
<1>5. ASSUME NEW off \in BOOLEAN
      PROVE  Run(o, shv_guest_test_vmxoff(off), Clean, Clean)
  <2> DEFINE b == IF off THEN 1 ELSE 0
  <2>1. b \in {0, 1} /\ b \in Nat
    OBVIOUS
  <2> HIDE DEF b
  <2>2. MayCall(o, [op |-> "vmcall", eax |-> 22, ebx |-> b], With("vmxoff"))
    BY <1>1, <2>1 DEF MayCall
  <2>3. Run(o, Test("vmxoff", vmcall(22, b)), Clean, Clean)
    BY <1>1, <1>2, <2>1, <2>2
  <2> QED
    BY <2>3 DEF shv_guest_test_vmxoff, b
<1>6. Run(o, shv_guest_wait_int, Clean, Clean)
  <2>1. MayCall(o, [op |-> "vmcall", eax |-> 25, ebx |-> 0], With("wait_int"))
    BY <1>1 DEF MayCall
  <2> QED
    BY <1>1, <1>2, <2>1 DEF shv_guest_wait_int
<1> QED
  BY <1>3, <1>4, <1>5, <1>6

\* The test of the MSR lists: VMCALL 12, then 16.
LEMMA RunMsrLs ==
  ASSUME NEW o
  PROVE  Run(o, shv_guest_test_msr_ls, Clean, Clean)
<1> DEFINE s == With("msr_ls")
           t == [handler |-> "msr_ls", lists |-> TRUE, bitmaps |-> FALSE, bits |-> {},
                 tsc |-> "boot", ebx |-> "any", off |-> FALSE, pg |-> TRUE,
                 fs |-> "0", gs |-> "0", ept |-> "idle"]
           call(a) == [op |-> "vmcall", eax |-> a, ebx |-> 0]
<1>1. "msr_ls" \in Overrides /\ s \in Points
  BY TestPoints DEF Overrides
<1>2. t \in Points
  <2>1. {} \in BitSets
    BY DEF BitSets
  <2> QED
    BY <1>1, <2>1 DEF Points, Bases
<1>3. t = After(o, call(12), s) /\ s = After(o, call(16), t)
  BY DEF After, With
<1>4. MayCall(o, call(12), s) /\ MayCall(o, call(16), t)
  BY DEF MayCall, With
<1> HIDE DEF s, t
<1>5. Run(o, vmcall(12, 0), s, t) /\ Run(o, vmcall(16, 0), t, s)
  BY <1>1, <1>2, <1>3, <1>4, RunCall
<1>6. Run(o, vmcall(12, 0) \o vmcall(16, 0), s, s)
  BY <1>5, RunThen
<1> QED
  BY <1>1, <1>6, RunTest DEF shv_guest_test_msr_ls, s

\* An operation that has no operand.
LEMMA RunPlain ==
  ASSUME NEW o, NEW s \in Points, NEW t \in Points,
         NEW name \in {"cli", "sti", "hlt", "ept_fresh", "ept_read", "ept_check",
                       "ept_count", "large_page"},
         May(o, [op |-> name], s), t = After(o, [op |-> name], s)
  PROVE  Run(o, <<[op |-> name]>>, s, t)
<1>1. [op |-> name] \in Ops
  BY DEF Ops
<1> QED
  BY <1>1, RunOne

\* The test of EPT violations.
LEMMA RunEpt ==
  ASSUME NEW o, o.ept
  PROVE  Run(o, shv_guest_test_ept, Clean, Clean)
<1> DEFINE t(h) == [handler |-> h, lists |-> FALSE, bitmaps |-> FALSE, bits |-> {},
                    tsc |-> "boot", ebx |-> "any", off |-> FALSE, pg |-> TRUE,
                    fs |-> "0", gs |-> "0", ept |-> "read"]
           s == With("ept")
           u == t("ept")
           v == t("NULL")
           op == [op |-> "override", to |-> "NULL"]
<1>1. {"ept", "NULL"} \subseteq Overrides
  BY DEF Overrides
<1>2. Clean \in Points /\ s \in Points
  BY <1>1, TestPoints
<1>3. u \in Points /\ v \in Points
  <2>1. {} \in BitSets
    BY DEF BitSets
  <2> QED
    BY <1>1, <2>1 DEF Points, Bases
<1>4. /\ Clean = After(o, [op |-> "ept_fresh"], Clean)
      /\ u = After(o, [op |-> "ept_read"], s)
      /\ u = After(o, [op |-> "ept_check"], u)
      /\ v = After(o, op, u)
      /\ Clean = After(o, [op |-> "ept_count"], v)
  BY DEF After, With, Clean
<1>5. /\ May(o, [op |-> "ept_fresh"], Clean) /\ May(o, [op |-> "ept_read"], s)
      /\ May(o, [op |-> "ept_check"], u) /\ May(o, op, u)
      /\ May(o, [op |-> "ept_count"], v)
  BY DEF May, With, Clean
<1>6. op \in Ops
  BY <1>1 DEF Ops
<1> HIDE DEF s, u, v
<1>7. Run(o, <<[op |-> "ept_fresh"]>>, Clean, Clean)
  BY <1>2, <1>4, <1>5, RunPlain
<1>8. Run(o, install("ept"), Clean, s)
  BY <1>1, RunInstall DEF Clean, s
<1>9. Run(o, <<[op |-> "ept_read"], [op |-> "ept_check"]>>, s, u)
  <2>1. Run(o, <<[op |-> "ept_read"]>>, s, u) /\ Run(o, <<[op |-> "ept_check"]>>, u, u)
    BY <1>2, <1>3, <1>4, <1>5, RunPlain
  <2> QED
    BY <2>1, Pair, RunThen
<1>10. Run(o, install("NULL"), u, v)
  BY <1>3, <1>4, <1>5, <1>6, RunOne DEF install
<1>11. Run(o, <<[op |-> "ept_count"]>>, v, Clean)
  BY <1>2, <1>3, <1>4, <1>5, RunPlain
<1>12. Run(o, <<[op |-> "ept_fresh"]>> \o install("ept"), Clean, s)
  BY <1>7, <1>8, RunThen
<1>13. Run(o, <<[op |-> "ept_fresh"]>> \o install("ept") \o
              <<[op |-> "ept_read"], [op |-> "ept_check"]>>, Clean, u)
  BY <1>9, <1>12, RunThen
<1>14. Run(o, <<[op |-> "ept_fresh"]>> \o install("ept") \o
              <<[op |-> "ept_read"], [op |-> "ept_check"]>> \o install("NULL"),
           Clean, v)
  BY <1>10, <1>13, RunThen
<1>15. Run(o, <<[op |-> "ept_fresh"]>> \o install("ept") \o
              <<[op |-> "ept_read"], [op |-> "ept_check"]>> \o install("NULL") \o
              <<[op |-> "ept_count"]>>, Clean, Clean)
  BY <1>11, <1>14, RunThen
<1> QED
  BY <1>15 DEF shv_guest_test_ept

\* The test that turns paging off and on with interrupts off.
LEMMA RunPaging ==
  ASSUME NEW o
  PROVE  Run(o, paging_demo, Clean, Clean)
<1> DEFINE off(on) == [handler |-> "NULL", lists |-> FALSE, bitmaps |-> FALSE,
                       bits |-> {}, tsc |-> "boot", ebx |-> "any", off |-> TRUE,
                       pg |-> on, fs |-> "0", gs |-> "0", ept |-> "idle"]
           s == off(TRUE)
           t == off(FALSE)
           p == [op |-> "paging", on |-> FALSE]
           q == [op |-> "paging", on |-> TRUE]
<1>1. Clean \in Points /\ s \in Points /\ t \in Points
  <2>1. {} \in BitSets
    BY DEF BitSets
  <2> QED
    BY <2>1, TestPoints DEF Points, Overrides, Bases
<1>2. /\ s = After(o, [op |-> "cli"], Clean) /\ t = After(o, p, s)
      /\ s = After(o, q, t) /\ Clean = After(o, [op |-> "sti"], s)
  BY DEF After, With, Clean
<1>3. /\ May(o, [op |-> "cli"], Clean) /\ May(o, p, s) /\ May(o, q, t)
      /\ May(o, [op |-> "sti"], s)
  BY DEF May
<1>4. p \in Ops /\ q \in Ops
  BY DEF Ops
<1> HIDE DEF s, t
<1>5. Run(o, cli, Clean, s) /\ Run(o, sti, s, Clean)
  BY <1>1, <1>2, <1>3, RunPlain DEF cli, sti
<1>6. Run(o, <<p, q>>, s, s)
  <2>1. Run(o, <<p>>, s, t) /\ Run(o, <<q>>, t, s)
    BY <1>1, <1>2, <1>3, <1>4, RunOne
  <2> QED
    BY <2>1, Pair, RunThen
<1> HIDE DEF p, q
<1>7. Run(o, cli \o <<p, q>>, Clean, s)
  BY <1>5, <1>6, RunThen
<1>8. Run(o, cli \o <<p, q>> \o sti, Clean, Clean)
  BY <1>5, <1>7, RunThen
<1> QED
  BY <1>8 DEF paging_demo, p, q

----------------------------------------------------------------------------
(* The test of the MSR bitmap. *)

\* The points of the test: s without an MSR access that is unchecked.
TestMsrs == {"LSTAR", "TSC_ADJUST", "LOW", "HIGH", "FS_BASE", "GS_BASE"}
Pt(on, bits, t, e, off, f, g) ==
  [handler |-> "msr_bitmap", lists |-> FALSE, bitmaps |-> on, bits |-> bits,
   tsc |-> t, ebx |-> e, off |-> off, pg |-> TRUE, fs |-> f, gs |-> g,
   ept |-> "idle"]
TscValues == {"boot", "any"}
Bitmap(on, bits, t) == Pt(on, bits, t, "any", FALSE, "0", "0")

\* They are points.
LEMMA BitmapPoints ==
  ASSUME NEW on \in BOOLEAN, NEW bits \in BitSets, NEW t \in TscValues,
         NEW e \in {"any", "normal", "vmexit", "except"}, NEW off \in BOOLEAN,
         NEW f \in Bases, NEW g \in Bases, off \/ (f = "0" /\ g = "0")
  PROVE  Pt(on, bits, t, e, off, f, g) \in Points
BY DEF Pt, Points, Overrides, TscValues

\* What becomes of an access at such a point.
Result(on, bits, access, m) ==
  IF ~on \/ BitOf(access, m) \in bits THEN "vmexit"
  ELSE IF m \in Absent THEN "except" ELSE "normal"

\* The bits that the test sets are those of its MSRs, one for each way to access
\* one.
LEMMA BitsOfMsrs ==
  /\ \A a, b \in {"read", "write"}, m, n \in TestMsrs :
       BitOf(a, m) = BitOf(b, n) => a = b /\ m = n
  /\ \A a \in {"read", "write"}, m \in TestMsrs :
       BitOf(a, m) \in BitNums /\ BitOf(a, m) \in Nat
  /\ R_HIGH + 130 = BitOf("read", "LSTAR") /\ W_HIGH + 130 = BitOf("write", "LSTAR")
  /\ R_LOW + 59 = BitOf("read", "TSC_ADJUST")
  /\ W_LOW + 59 = BitOf("write", "TSC_ADJUST")
  /\ R_LOW + 8191 = BitOf("read", "LOW") /\ W_LOW + 8191 = BitOf("write", "LOW")
  /\ R_HIGH + 8191 = BitOf("read", "HIGH") /\ W_HIGH + 8191 = BitOf("write", "HIGH")
<1>1. /\ BitOf("read", "LSTAR") = 8322 /\ BitOf("write", "LSTAR") = 24706
      /\ BitOf("read", "TSC_ADJUST") = 59 /\ BitOf("write", "TSC_ADJUST") = 16443
      /\ BitOf("read", "LOW") = 8191 /\ BitOf("write", "LOW") = 24575
      /\ BitOf("read", "HIGH") = 16383 /\ BitOf("write", "HIGH") = 32767
      /\ BitOf("read", "FS_BASE") = 8448 /\ BitOf("write", "FS_BASE") = 24832
      /\ BitOf("read", "GS_BASE") = 8449 /\ BitOf("write", "GS_BASE") = 24833
  BY DEF BitOf, Address
<1>2. ASSUME NEW a \in {"read", "write"}, NEW m \in TestMsrs
      PROVE  BitOf(a, m) \in BitNums /\ BitOf(a, m) \in Nat
  <2>1. BitOf(a, m) \in {59, 8191, 8322, 8448, 8449, 16383, 16443, 24575, 24706,
                        24832, 24833, 32767}
    BY <1>1 DEF TestMsrs
  <2> QED
    BY <2>1 DEF BitNums
<1>3. ASSUME NEW a \in {"read", "write"}, NEW b \in {"read", "write"},
             NEW m \in TestMsrs, NEW n \in TestMsrs, BitOf(a, m) = BitOf(b, n)
      PROVE  a = b /\ m = n
  <2>1. CASE a = "read" /\ b = "read"
    BY <1>1, <1>3, <2>1 DEF TestMsrs
  <2>2. CASE a = "write" /\ b = "write"
    BY <1>1, <1>3, <2>2 DEF TestMsrs
  <2>3. CASE a # b
    BY <1>1, <1>3, <2>3 DEF TestMsrs
  <2> QED
    BY <2>1, <2>2, <2>3
<1>4. /\ R_HIGH + 130 = 8322 /\ W_HIGH + 130 = 24706 /\ R_LOW + 59 = 59
      /\ W_LOW + 59 = 16443 /\ R_LOW + 8191 = 8191 /\ W_LOW + 8191 = 24575
      /\ R_HIGH + 8191 = 16383 /\ W_HIGH + 8191 = 32767
  BY DEF R_LOW, R_HIGH, W_LOW, W_HIGH
<1> QED
  BY <1>1, <1>2, <1>3, <1>4

\* With one bit set the access it stands for exits, and no other.
LEMMA OneBit ==
  ASSUME NEW a \in {"read", "write"}, NEW m \in TestMsrs,
         NEW b \in {"read", "write"}, NEW n \in TestMsrs
  PROVE  Result(TRUE, {BitOf(b, n)}, a, m) =
           IF a = b /\ m = n THEN "vmexit"
           ELSE IF m \in Absent THEN "except" ELSE "normal"
BY BitsOfMsrs DEF Result

\* An RDMSR and the check of EBX behind it.
LEMMA RunTestRdmsr ==
  ASSUME NEW o, NEW on \in BOOLEAN, NEW bits \in BitSets, NEW t \in TscValues,
         NEW off \in BOOLEAN, NEW f \in Bases, NEW g \in Bases,
         off \/ (f = "0" /\ g = "0"), NEW m \in TestMsrs,
         m \in Absent => f = "0" /\ g = "0",
         NEW r, r = Result(on, bits, "read", m)
  PROVE  Run(o, test_rdmsr(m, r), Pt(on, bits, t, "any", off, f, g),
             Pt(on, bits, t, "any", off, f, g))
<1> DEFINE s == Pt(on, bits, t, "any", off, f, g)
           u == Pt(on, bits, t, r, off, f, g)
           p == [op |-> "rdmsr", msr |-> m]
           q == [op |-> "check_ebx", ebx |-> r]
<1>1. r \in {"normal", "vmexit", "except"}
  BY DEF Result
<1>2. s \in Points /\ u \in Points
  BY <1>1, BitmapPoints
<1>3. p \in Ops /\ q \in Ops
  BY <1>1 DEF Ops, TestMsrs, Address
<1>4. Outcome(s, p) = r
  BY DEF Outcome, Result, Pt
<1>5. r = "except" => f = "0" /\ g = "0"
  BY DEF Result
<1>6. May(o, p, s)
  BY <1>4, <1>5 DEF May, MayAccess, Pt, TestMsrs, Absent
<1>7. May(o, q, u)
  BY <1>1 DEF May, Pt
<1>8. u = After(o, p, s)
  BY <1>4 DEF After, Pt
<1>9. s = After(o, q, u)
  BY DEF After, Pt
<1> HIDE DEF s, u
<1>10. Run(o, <<p>>, s, u) /\ Run(o, <<q>>, u, s)
  BY <1>2, <1>3, <1>6, <1>7, <1>8, <1>9, RunOne
<1>11. Run(o, <<p>> \o <<q>>, s, s)
  BY <1>10, RunThen
<1> QED
  BY <1>11 DEF test_rdmsr, rdmsr, s

\* A WRMSR and the check of EBX behind it.
LEMMA RunTestWrmsr ==
  ASSUME NEW o, NEW on \in BOOLEAN, NEW bits \in BitSets, NEW t \in TscValues,
         NEW off \in BOOLEAN, NEW f \in Bases, NEW g \in Bases,
         off \/ (f = "0" /\ g = "0"), NEW m \in TestMsrs,
         m \in Absent => f = "0" /\ g = "0",
         NEW r, r = Result(on, bits, "write", m),
         NEW v \in IF m \in {"FS_BASE", "GS_BASE"} THEN Bases ELSE {"guest"},
         NEW t2 \in TscValues, NEW f2 \in Bases, NEW g2 \in Bases,
         t2 = IF r = "normal" /\ m = "TSC_ADJUST" THEN "any" ELSE t,
         f2 = IF r = "normal" /\ m = "FS_BASE" THEN v ELSE f,
         g2 = IF r = "normal" /\ m = "GS_BASE" THEN v ELSE g,
         off \/ (f2 = "0" /\ g2 = "0")
  PROVE  Run(o, test_wrmsr(m, r, v), Pt(on, bits, t, "any", off, f, g),
             Pt(on, bits, t2, "any", off, f2, g2))
<1> DEFINE s == Pt(on, bits, t, "any", off, f, g)
           u == Pt(on, bits, t2, r, off, f2, g2)
           w == Pt(on, bits, t2, "any", off, f2, g2)
           p == [op |-> "wrmsr", msr |-> m, val |-> v]
           q == [op |-> "check_ebx", ebx |-> r]
<1>1. r \in {"normal", "vmexit", "except"}
  BY DEF Result
<1>2. s \in Points /\ u \in Points /\ w \in Points
  BY <1>1, BitmapPoints
<1>3. p \in Ops /\ q \in Ops
  BY <1>1 DEF Ops, TestMsrs, Address
<1>4. Outcome(s, p) = r
  BY DEF Outcome, Result, Pt
<1>5. r = "except" => f = "0" /\ g = "0"
  BY DEF Result
<1>6. May(o, p, s)
  BY <1>4, <1>5 DEF May, MayAccess, Pt, TestMsrs, Absent
<1>7. May(o, q, u)
  BY <1>1 DEF May, Pt
<1>8. u = After(o, p, s)
  <2>1. p.op = "wrmsr" /\ p.msr = m /\ p.val = v
    OBVIOUS
  <2> HIDE DEF p
  <2> DEFINE wrote(x) == p.op = "wrmsr" /\ p.msr = x /\ Outcome(s, p) = "normal"
             a == After(o, p, s)
  <2>2. /\ t2 = IF wrote("TSC_ADJUST") THEN "any" ELSE s.tsc
        /\ f2 = IF wrote("FS_BASE") THEN p.val ELSE s.fs
        /\ g2 = IF wrote("GS_BASE") THEN p.val ELSE s.gs
    BY <1>4, <2>1 DEF Pt
  <2>3. /\ a.handler = "msr_bitmap" /\ a.lists = FALSE /\ a.bitmaps = on
        /\ a.bits = bits /\ a.ebx = r /\ a.off = off /\ a.pg = TRUE
        /\ a.ept = "idle"
    BY <1>4, <2>1 DEF After, Pt
  <2>4. a.tsc = t2 /\ a.fs = f2 /\ a.gs = g2
    BY <2>1, <2>2 DEF After
  <2>5. a = [handler |-> a.handler, lists |-> a.lists, bitmaps |-> a.bitmaps,
             bits |-> a.bits, tsc |-> a.tsc, ebx |-> a.ebx, off |-> a.off,
             pg |-> a.pg, fs |-> a.fs, gs |-> a.gs, ept |-> a.ept]
    BY DEF After
  <2> HIDE DEF a
  <2>6. u = a
    BY <2>3, <2>4, <2>5 DEF Pt
  <2> QED
    BY <2>6 DEF a
<1>9. w = After(o, q, u)
  BY DEF After, Pt
<1> HIDE DEF s, u, w
<1>10. Run(o, <<p>>, s, u) /\ Run(o, <<q>>, u, w)
  BY <1>2, <1>3, <1>6, <1>7, <1>8, <1>9, RunOne
<1>11. Run(o, <<p, q>>, s, w)
  BY <1>10, Pair, RunThen
<1> QED
  BY <1>11 DEF test_wrmsr, s, w

\* The accesses to LSTAR.
LEMMA RunLstar ==
  ASSUME NEW o, NEW bits \in BitSets, NEW t \in TscValues, NEW r, NEW w,
         r = Result(TRUE, bits, "read", "LSTAR"),
         w = Result(TRUE, bits, "write", "LSTAR")
  PROVE  Run(o, lstar(r, w), Bitmap(TRUE, bits, t), Bitmap(TRUE, bits, t))
<1>1. "LSTAR" \in TestMsrs /\ "LSTAR" \notin Absent /\ "0" \in Bases
  BY DEF TestMsrs, Absent, Bases
<1>2. Run(o, test_rdmsr("LSTAR", r), Bitmap(TRUE, bits, t), Bitmap(TRUE, bits, t))
  BY <1>1, RunTestRdmsr DEF Bitmap
<1>3. Run(o, test_wrmsr("LSTAR", w, "guest"), Bitmap(TRUE, bits, t),
          Bitmap(TRUE, bits, t))
  BY <1>1, RunTestWrmsr DEF Bitmap
<1> QED
  BY <1>2, <1>3, RunThen DEF lstar

\* The accesses to TSC_ADJUST: a write that does not exit changes it.
LEMMA RunTsc ==
  ASSUME NEW o, NEW bits \in BitSets, NEW t \in TscValues, NEW r, NEW w,
         NEW t2 \in TscValues,
         r = Result(TRUE, bits, "read", "TSC_ADJUST"),
         w = Result(TRUE, bits, "write", "TSC_ADJUST"),
         t2 = IF w = "normal" THEN "any" ELSE t
  PROVE  Run(o, tsc(r, w), Bitmap(TRUE, bits, t), Bitmap(TRUE, bits, t2))
<1>1. "TSC_ADJUST" \in TestMsrs /\ "TSC_ADJUST" \notin Absent /\ "0" \in Bases
  BY DEF TestMsrs, Absent, Bases
<1>2. Run(o, test_rdmsr("TSC_ADJUST", r), Bitmap(TRUE, bits, t), Bitmap(TRUE, bits, t))
  BY <1>1, RunTestRdmsr DEF Bitmap
<1>3. Run(o, test_wrmsr("TSC_ADJUST", w, "guest"), Bitmap(TRUE, bits, t),
          Bitmap(TRUE, bits, t2))
  BY <1>1, RunTestWrmsr DEF Bitmap
<1> QED
  BY <1>2, <1>3, RunThen DEF tsc

\* The accesses to the two MSRs that do not exist.
LEMMA RunEnds ==
  ASSUME NEW o, NEW on \in BOOLEAN, NEW bits \in BitSets, NEW t \in TscValues,
         NEW rl, NEW rh, NEW wl, NEW wh,
         rl = Result(on, bits, "read", "LOW"), rh = Result(on, bits, "read", "HIGH"),
         wl = Result(on, bits, "write", "LOW"), wh = Result(on, bits, "write", "HIGH")
  PROVE  Run(o, ends(rl, rh, wl, wh), Bitmap(on, bits, t), Bitmap(on, bits, t))
<1> DEFINE s == Bitmap(on, bits, t)
<1>1. /\ {"LOW", "HIGH"} \subseteq TestMsrs /\ {"LOW", "HIGH"} \subseteq Absent
      /\ "0" \in Bases
  BY DEF TestMsrs, Absent, Bases
<1>2. Run(o, test_rdmsr("LOW", rl), s, s) /\ Run(o, test_rdmsr("HIGH", rh), s, s)
  BY <1>1, RunTestRdmsr DEF Bitmap
<1>3. Run(o, test_wrmsr("LOW", wl, "guest"), s, s)
  BY <1>1, RunTestWrmsr DEF Bitmap
<1>4. Run(o, test_wrmsr("HIGH", wh, "guest"), s, s)
  BY <1>1, RunTestWrmsr DEF Bitmap
<1> HIDE DEF s
<1>5. Run(o, test_rdmsr("LOW", rl) \o test_rdmsr("HIGH", rh), s, s)
  BY <1>2, RunThen
<1>6. Run(o, test_rdmsr("LOW", rl) \o test_rdmsr("HIGH", rh) \o
             test_wrmsr("LOW", wl, "guest"), s, s)
  BY <1>3, <1>5, RunThen
<1>7. Run(o, test_rdmsr("LOW", rl) \o test_rdmsr("HIGH", rh) \o
             test_wrmsr("LOW", wl, "guest") \o test_wrmsr("HIGH", wh, "guest"), s, s)
  BY <1>4, <1>6, RunThen
<1> QED
  BY <1>7 DEF ends, s

\* One bit is set and cleared.
LEMMA RunBit ==
  ASSUME NEW o, NEW n \in BitNums, n \in Nat, NEW t \in TscValues
  PROVE  /\ Run(o, set_bit(n), Bitmap(TRUE, {}, t), Bitmap(TRUE, {n}, t))
         /\ Run(o, clear_bit(n), Bitmap(TRUE, {n}, t), Bitmap(TRUE, {}, t))
<1> DEFINE s == Bitmap(TRUE, {}, t)
           u == Bitmap(TRUE, {n}, t)
           p == [op |-> "vmcall", eax |-> 38, ebx |-> n]
           q == [op |-> "vmcall", eax |-> 39, ebx |-> n]
<1>1. s \in Points /\ u \in Points
  <2>1. {} \in BitSets /\ {n} \in BitSets /\ "0" \in Bases
    BY DEF BitSets, Bases
  <2> QED
    BY <2>1, BitmapPoints DEF Bitmap
<1>2. {} \cup {n} = {n} /\ {n} \ {n} = {}
  OBVIOUS
<1>3. u = After(o, p, s) /\ s = After(o, q, u)
  <2>1. \A b : /\ Bitmap(TRUE, b \cup {n}, t) = After(o, p, Bitmap(TRUE, b, t))
               /\ Bitmap(TRUE, b \ {n}, t) = After(o, q, Bitmap(TRUE, b, t))
    BY DEF After, Bitmap, Pt
  <2> QED
    BY <1>2, <2>1
<1>4. MayCall(o, p, s) /\ MayCall(o, q, u)
  BY DEF MayCall, Bitmap, Pt
<1> HIDE DEF s, u
<1> QED
  BY <1>1, <1>3, <1>4, RunCall DEF set_bit, clear_bit, s, u

\* The last part, with interrupts off: the bases are those that VMCALL 41 and
\* WRMSR set.
LEMMA RunFsGs ==
  ASSUME NEW o
  PROVE  Run(o, fs_gs(o), Bitmap(TRUE, {}, "any"), Bitmap(TRUE, {}, "any"))
<1> DEFINE P(off, f, g) == Pt(TRUE, {}, "any", "any", off, f, g)
           s == P(FALSE, "0", "0")
           a == P(TRUE, "0", "0")
           b == P(TRUE, "680effff", "6810ffff")
           c == P(TRUE, "ffff680e", "6810ffff")
           d == P(TRUE, "ffff680e", "ffff6810")
           e == P(IF o.no_if THEN FALSE ELSE TRUE, "0", "0")
           call(n) == [op |-> "vmcall", eax |-> n, ebx |-> 0]
           check == [op |-> "check_fs_gs", fs |-> "680effff", gs |-> "6810ffff"]
<1>1. /\ {} \in BitSets /\ "any" \in TscValues
      /\ {"0", "680effff", "6810ffff", "ffff680e", "ffff6810"} \subseteq Bases
      /\ {"FS_BASE", "GS_BASE"} \subseteq TestMsrs
      /\ "FS_BASE" \notin Absent /\ "GS_BASE" \notin Absent
  BY DEF BitSets, Bases, TestMsrs, Absent, TscValues
<1>2. /\ s \in Points /\ a \in Points /\ b \in Points /\ c \in Points
      /\ d \in Points /\ e \in Points
  BY <1>1, BitmapPoints
<1>3. /\ a = After(o, [op |-> "cli"], s) /\ b = After(o, call(41), a)
      /\ b = After(o, check, b)
  BY DEF After, Pt
<1>4. e = After(o, call(42), d) /\ s = After(o, [op |-> "sti"], e)
  BY DEF After, Pt
<1>5. /\ May(o, [op |-> "cli"], s) /\ MayCall(o, call(41), a)
      /\ May(o, check, b) /\ MayCall(o, call(42), d) /\ May(o, [op |-> "sti"], e)
  BY DEF May, MayCall, Pt
<1>6. check \in Ops
  BY <1>1 DEF Ops
<1>7. Run(o, test_rdmsr("FS_BASE", "normal"), b, b)
  <2>1. "normal" = Result(TRUE, {}, "read", "FS_BASE")
    BY <1>1 DEF Result
  <2> QED
    BY <1>1, <2>1, RunTestRdmsr
<1>8. Run(o, test_wrmsr("FS_BASE", "normal", "ffff680e"), b, c)
  <2>1. "normal" = Result(TRUE, {}, "write", "FS_BASE")
    BY <1>1 DEF Result
  <2> QED
    BY <1>1, <2>1, RunTestWrmsr
<1>9. Run(o, test_wrmsr("GS_BASE", "normal", "ffff6810"), c, d)
  <2>1. "normal" = Result(TRUE, {}, "write", "GS_BASE")
    BY <1>1 DEF Result
  <2> QED
    BY <1>1, <2>1, RunTestWrmsr
<1>10. o.no_if => e = s
  OBVIOUS
<1> HIDE DEF s, a, b, c, d, e, check
<1>11. Run(o, cli, s, a)
  BY <1>2, <1>3, <1>5, RunPlain DEF cli
<1>12. Run(o, vmcall(41, 0), a, b) /\ Run(o, vmcall(42, 0), d, e)
  BY <1>2, <1>3, <1>4, <1>5, RunCall
<1>13. Run(o, <<check>>, b, b)
  BY <1>2, <1>3, <1>5, <1>6, RunOne
<1>14. Run(o, When(~o.no_if, sti), e, s)
  <2>1. CASE o.no_if
    BY <1>2, <1>10, <2>1, RunNothing DEF When
  <2>2. CASE ~o.no_if
    BY <1>2, <1>4, <1>5, <2>2, RunPlain DEF When, sti
  <2> QED
    BY <2>1, <2>2
<1>15. Run(o, cli \o vmcall(41, 0), s, b)
  BY <1>11, <1>12, RunThen
<1>16. Run(o, cli \o vmcall(41, 0) \o test_rdmsr("FS_BASE", "normal"), s, b)
  BY <1>7, <1>15, RunThen
<1>17. Run(o, cli \o vmcall(41, 0) \o test_rdmsr("FS_BASE", "normal") \o <<check>>,
           s, b)
  BY <1>13, <1>16, RunThen
<1>18. Run(o, cli \o vmcall(41, 0) \o test_rdmsr("FS_BASE", "normal") \o <<check>> \o
              test_wrmsr("FS_BASE", "normal", "ffff680e"), s, c)
  BY <1>8, <1>17, RunThen
<1>19. Run(o, cli \o vmcall(41, 0) \o test_rdmsr("FS_BASE", "normal") \o <<check>> \o
              test_wrmsr("FS_BASE", "normal", "ffff680e") \o
              test_wrmsr("GS_BASE", "normal", "ffff6810"), s, d)
  BY <1>9, <1>18, RunThen
<1>20. Run(o, cli \o vmcall(41, 0) \o test_rdmsr("FS_BASE", "normal") \o <<check>> \o
              test_wrmsr("FS_BASE", "normal", "ffff680e") \o
              test_wrmsr("GS_BASE", "normal", "ffff6810") \o vmcall(42, 0), s, e)
  BY <1>12, <1>19, RunThen
<1>21. Run(o, cli \o vmcall(41, 0) \o test_rdmsr("FS_BASE", "normal") \o <<check>> \o
              test_wrmsr("FS_BASE", "normal", "ffff680e") \o
              test_wrmsr("GS_BASE", "normal", "ffff6810") \o vmcall(42, 0) \o
              When(~o.no_if, sti), s, s)
  BY <1>14, <1>20, RunThen
<1> QED
  BY <1>21 DEF fs_gs, check, s, Bitmap

\* The pattern of the test behind code a: a bit is set, accesses are tried, and
\* the bit is cleared.
LEMMA RunRound ==
  ASSUME NEW o, NEW a, NEW x, NEW s, NEW n \in BitNums, n \in Nat,
         NEW t \in TscValues, NEW u \in TscValues,
         Run(o, a, s, Bitmap(TRUE, {}, t)),
         Run(o, x, Bitmap(TRUE, {n}, t), Bitmap(TRUE, {n}, u))
  PROVE  Run(o, a \o set_bit(n) \o x \o clear_bit(n), s, Bitmap(TRUE, {}, u))
<1>1. Run(o, a \o set_bit(n), s, Bitmap(TRUE, {n}, t))
  BY RunBit, RunThen
<1>2. Run(o, a \o set_bit(n) \o x, s, Bitmap(TRUE, {n}, u))
  BY <1>1, RunThen
<1> QED
  BY <1>2, RunBit, RunThen

\* The test of the MSR bitmap.
LEMMA RunMsrBitmap ==
  ASSUME NEW o
  PROVE  Run(o, shv_guest_msr_bitmap(o), Clean, Clean)
<1> DEFINE Free(t) == Bitmap(TRUE, {}, t)
           Bit(a, m) == BitOf(a, m)
           s == With("msr_bitmap")
           c1 == vmcall(34, 0) \o lstar("normal", "normal")
           c2 == c1 \o set_bit(R_HIGH + 130) \o lstar("vmexit", "normal") \o
                 clear_bit(R_HIGH + 130)
           c3 == c2 \o set_bit(W_HIGH + 130) \o lstar("normal", "vmexit") \o
                 tsc("normal", "normal") \o clear_bit(W_HIGH + 130)
           c4 == c3 \o set_bit(R_LOW + 59) \o tsc("vmexit", "normal") \o
                 clear_bit(R_LOW + 59)
           c5 == c4 \o set_bit(W_LOW + 59) \o tsc("normal", "vmexit") \o
                 clear_bit(W_LOW + 59)
           c6 == c5 \o set_bit(R_LOW + 8191) \o
                 ends("vmexit", "except", "except", "except") \o
                 clear_bit(R_LOW + 8191)
           c7 == c6 \o set_bit(R_HIGH + 8191) \o
                 ends("except", "vmexit", "except", "except") \o
                 clear_bit(R_HIGH + 8191)
           c8 == c7 \o set_bit(W_LOW + 8191) \o
                 ends("except", "except", "vmexit", "except") \o
                 clear_bit(W_LOW + 8191)
           c9 == c8 \o set_bit(W_HIGH + 8191) \o
                 ends("except", "except", "except", "vmexit") \o
                 clear_bit(W_HIGH + 8191)
           c10 == c9 \o fs_gs(o) \o vmcall(37, 0)
           c11 == c10 \o ends("vmexit", "vmexit", "vmexit", "vmexit")
           call(n) == [op |-> "vmcall", eax |-> n, ebx |-> 0]
<1>0. shv_guest_msr_bitmap(o) = Test("msr_bitmap", c11)
  BY DEF shv_guest_msr_bitmap
<1>1. /\ "boot" \in TscValues /\ "any" \in TscValues /\ {} \in BitSets /\ "0" \in Bases
      /\ {"LSTAR", "TSC_ADJUST", "LOW", "HIGH"} \subseteq TestMsrs
      /\ "LSTAR" \notin Absent /\ "TSC_ADJUST" \notin Absent
      /\ "LOW" \in Absent /\ "HIGH" \in Absent /\ "msr_bitmap" \in Overrides
      /\ \A a \in {"read", "write"}, m \in TestMsrs :
           /\ Bit(a, m) \in BitNums /\ Bit(a, m) \in Nat /\ {Bit(a, m)} \in BitSets
  BY BitsOfMsrs DEF TscValues, BitSets, Bases, TestMsrs, Absent, Overrides
<1>2. /\ s \in Points /\ Free("boot") \in Points /\ Free("any") \in Points
      /\ s = Bitmap(FALSE, {}, "boot")
  BY <1>1, TestPoints, BitmapPoints DEF Bitmap, With, Pt
<1>3. Run(o, vmcall(34, 0), s, Free("boot"))
  <2>1. Free("boot") = After(o, call(34), s) /\ MayCall(o, call(34), s)
    BY DEF After, Bitmap, Pt, With, MayCall
  <2> QED
    BY <1>2, <2>1, RunCall
<1>4. Run(o, vmcall(37, 0), Free("any"), s)
  <2>1. s = After(o, call(37), Free("any")) /\ MayCall(o, call(37), Free("any"))
    BY DEF After, Bitmap, Pt, With, MayCall
  <2> QED
    BY <1>2, <2>1, RunCall
<1> HIDE DEF s, c1, c2, c3, c4, c5, c6, c7, c8, c9, c10, c11
<1>5. Run(o, c1, s, Free("boot"))
  <2>1. /\ "normal" = Result(TRUE, {}, "read", "LSTAR")
        /\ "normal" = Result(TRUE, {}, "write", "LSTAR")
    BY <1>1 DEF Result
  <2>2. Run(o, lstar("normal", "normal"), Free("boot"), Free("boot"))
    BY <1>1, <2>1, RunLstar
  <2> QED
    BY <1>3, <2>2, RunThen DEF c1
<1>6. Run(o, c2, s, Free("boot"))
  <2> DEFINE n == BitOf("read", "LSTAR")
  <2>1. n \in BitNums /\ n \in Nat /\ {n} \in BitSets /\ R_HIGH + 130 = n
    BY <1>1, BitsOfMsrs
  <2>2. /\ "vmexit" = Result(TRUE, {n}, "read", "LSTAR")
        /\ "normal" = Result(TRUE, {n}, "write", "LSTAR")
    BY <1>1, OneBit
  <2> HIDE DEF n
  <2>3. Run(o, lstar("vmexit", "normal"), Bitmap(TRUE, {n}, "boot"),
            Bitmap(TRUE, {n}, "boot"))
    BY <1>1, <2>1, <2>2, RunLstar
  <2> QED
    BY <1>1, <1>5, <2>1, <2>3, RunRound DEF c2
<1>7. Run(o, c3, s, Free("any"))
  <2> DEFINE n == BitOf("write", "LSTAR")
  <2>1. n \in BitNums /\ n \in Nat /\ {n} \in BitSets /\ W_HIGH + 130 = n
    BY <1>1, BitsOfMsrs
  <2>2. /\ "normal" = Result(TRUE, {n}, "read", "LSTAR")
        /\ "vmexit" = Result(TRUE, {n}, "write", "LSTAR")
        /\ "normal" = Result(TRUE, {n}, "read", "TSC_ADJUST")
        /\ "normal" = Result(TRUE, {n}, "write", "TSC_ADJUST")
    BY <1>1, OneBit
  <2> HIDE DEF n
  <2>3. Run(o, set_bit(n), Free("boot"), Bitmap(TRUE, {n}, "boot"))
    BY <1>1, <2>1, RunBit
  <2>4. Run(o, lstar("normal", "vmexit"), Bitmap(TRUE, {n}, "boot"),
            Bitmap(TRUE, {n}, "boot"))
    BY <1>1, <2>1, <2>2, RunLstar
  <2>5. Run(o, tsc("normal", "normal"), Bitmap(TRUE, {n}, "boot"),
            Bitmap(TRUE, {n}, "any"))
    BY <1>1, <2>1, <2>2, RunTsc
  <2>6. Run(o, clear_bit(n), Bitmap(TRUE, {n}, "any"), Free("any"))
    BY <1>1, <2>1, RunBit
  <2>7. Run(o, c2 \o set_bit(n), s, Bitmap(TRUE, {n}, "boot"))
    BY <1>6, <2>3, RunThen
  <2>8. Run(o, c2 \o set_bit(n) \o lstar("normal", "vmexit"), s,
            Bitmap(TRUE, {n}, "boot"))
    BY <2>4, <2>7, RunThen
  <2>9. Run(o, c2 \o set_bit(n) \o lstar("normal", "vmexit") \o
               tsc("normal", "normal"), s, Bitmap(TRUE, {n}, "any"))
    BY <2>5, <2>8, RunThen
  <2> QED
    BY <2>1, <2>6, <2>9, RunThen DEF c3
<1>8. Run(o, c4, s, Free("any"))
  <2> DEFINE n == BitOf("read", "TSC_ADJUST")
  <2>1. n \in BitNums /\ n \in Nat /\ {n} \in BitSets /\ R_LOW + 59 = n
    BY <1>1, BitsOfMsrs
  <2>2. /\ "vmexit" = Result(TRUE, {n}, "read", "TSC_ADJUST")
        /\ "normal" = Result(TRUE, {n}, "write", "TSC_ADJUST")
    BY <1>1, OneBit
  <2> HIDE DEF n
  <2>3. Run(o, tsc("vmexit", "normal"), Bitmap(TRUE, {n}, "any"),
            Bitmap(TRUE, {n}, "any"))
    BY <1>1, <2>1, <2>2, RunTsc
  <2> QED
    BY <1>1, <1>7, <2>1, <2>3, RunRound DEF c4
<1>9. Run(o, c5, s, Free("any"))
  <2> DEFINE n == BitOf("write", "TSC_ADJUST")
  <2>1. n \in BitNums /\ n \in Nat /\ {n} \in BitSets /\ W_LOW + 59 = n
    BY <1>1, BitsOfMsrs
  <2>2. /\ "normal" = Result(TRUE, {n}, "read", "TSC_ADJUST")
        /\ "vmexit" = Result(TRUE, {n}, "write", "TSC_ADJUST")
    BY <1>1, OneBit
  <2> HIDE DEF n
  <2>3. Run(o, tsc("normal", "vmexit"), Bitmap(TRUE, {n}, "any"),
            Bitmap(TRUE, {n}, "any"))
    BY <1>1, <2>1, <2>2, RunTsc
  <2> QED
    BY <1>1, <1>8, <2>1, <2>3, RunRound DEF c5
<1>10. Run(o, c6, s, Free("any"))
  <2> DEFINE n == BitOf("read", "LOW")
  <2>1. n \in BitNums /\ n \in Nat /\ {n} \in BitSets
    BY <1>1, BitsOfMsrs
  <2>2. /\ "vmexit" = Result(TRUE, {n}, "read", "LOW")
        /\ "except" = Result(TRUE, {n}, "read", "HIGH")
        /\ "except" = Result(TRUE, {n}, "write", "LOW")
        /\ "except" = Result(TRUE, {n}, "write", "HIGH")
    BY <1>1, OneBit
  <2> HIDE DEF n
  <2>3. Run(o, ends("vmexit", "except", "except", "except"),
            Bitmap(TRUE, {n}, "any"), Bitmap(TRUE, {n}, "any"))
    BY <1>1, <2>1, <2>2, RunEnds
  <2>4. Run(o, c5 \o set_bit(n) \o ends("vmexit", "except", "except", "except") \o
               clear_bit(n), s, Free("any"))
    BY <1>1, <1>9, <2>1, <2>3, RunRound
  <2>5. R_LOW + 8191 = n
    BY BitsOfMsrs DEF n
  <2>6. c6 = c5 \o set_bit(n) \o ends("vmexit", "except", "except", "except") \o
               clear_bit(n)
    BY <2>5 DEF c6
  <2> QED
    BY <2>4, <2>6
<1>11. Run(o, c7, s, Free("any"))
  <2> DEFINE n == BitOf("read", "HIGH")
  <2>1. n \in BitNums /\ n \in Nat /\ {n} \in BitSets
    BY <1>1, BitsOfMsrs
  <2>2. /\ "except" = Result(TRUE, {n}, "read", "LOW")
        /\ "vmexit" = Result(TRUE, {n}, "read", "HIGH")
        /\ "except" = Result(TRUE, {n}, "write", "LOW")
        /\ "except" = Result(TRUE, {n}, "write", "HIGH")
    BY <1>1, OneBit
  <2> HIDE DEF n
  <2>3. Run(o, ends("except", "vmexit", "except", "except"),
            Bitmap(TRUE, {n}, "any"), Bitmap(TRUE, {n}, "any"))
    BY <1>1, <2>1, <2>2, RunEnds
  <2>4. Run(o, c6 \o set_bit(n) \o ends("except", "vmexit", "except", "except") \o
               clear_bit(n), s, Free("any"))
    BY <1>1, <1>10, <2>1, <2>3, RunRound
  <2>5. R_HIGH + 8191 = n
    BY BitsOfMsrs DEF n
  <2>6. c7 = c6 \o set_bit(n) \o ends("except", "vmexit", "except", "except") \o
               clear_bit(n)
    BY <2>5 DEF c7
  <2> QED
    BY <2>4, <2>6
<1>12. Run(o, c8, s, Free("any"))
  <2> DEFINE n == BitOf("write", "LOW")
  <2>1. n \in BitNums /\ n \in Nat /\ {n} \in BitSets
    BY <1>1, BitsOfMsrs
  <2>2. /\ "except" = Result(TRUE, {n}, "read", "LOW")
        /\ "except" = Result(TRUE, {n}, "read", "HIGH")
        /\ "vmexit" = Result(TRUE, {n}, "write", "LOW")
        /\ "except" = Result(TRUE, {n}, "write", "HIGH")
    BY <1>1, OneBit
  <2> HIDE DEF n
  <2>3. Run(o, ends("except", "except", "vmexit", "except"),
            Bitmap(TRUE, {n}, "any"), Bitmap(TRUE, {n}, "any"))
    BY <1>1, <2>1, <2>2, RunEnds
  <2>4. Run(o, c7 \o set_bit(n) \o ends("except", "except", "vmexit", "except") \o
               clear_bit(n), s, Free("any"))
    BY <1>1, <1>11, <2>1, <2>3, RunRound
  <2>5. W_LOW + 8191 = n
    BY BitsOfMsrs DEF n
  <2>6. c8 = c7 \o set_bit(n) \o ends("except", "except", "vmexit", "except") \o
               clear_bit(n)
    BY <2>5 DEF c8
  <2> QED
    BY <2>4, <2>6
<1>13. Run(o, c9, s, Free("any"))
  <2> DEFINE n == BitOf("write", "HIGH")
  <2>1. n \in BitNums /\ n \in Nat /\ {n} \in BitSets
    BY <1>1, BitsOfMsrs
  <2>2. /\ "except" = Result(TRUE, {n}, "read", "LOW")
        /\ "except" = Result(TRUE, {n}, "read", "HIGH")
        /\ "except" = Result(TRUE, {n}, "write", "LOW")
        /\ "vmexit" = Result(TRUE, {n}, "write", "HIGH")
    BY <1>1, OneBit
  <2> HIDE DEF n
  <2>3. Run(o, ends("except", "except", "except", "vmexit"),
            Bitmap(TRUE, {n}, "any"), Bitmap(TRUE, {n}, "any"))
    BY <1>1, <2>1, <2>2, RunEnds
  <2>4. Run(o, c8 \o set_bit(n) \o ends("except", "except", "except", "vmexit") \o
               clear_bit(n), s, Free("any"))
    BY <1>1, <1>12, <2>1, <2>3, RunRound
  <2>5. W_HIGH + 8191 = n
    BY BitsOfMsrs DEF n
  <2>6. c9 = c8 \o set_bit(n) \o ends("except", "except", "except", "vmexit") \o
               clear_bit(n)
    BY <2>5 DEF c9
  <2> QED
    BY <2>4, <2>6
<1>14. Run(o, c10, s, s)
  <2>1. Run(o, fs_gs(o), Free("any"), Free("any"))
    BY RunFsGs
  <2>2. Run(o, c9 \o fs_gs(o), s, Free("any"))
    BY <1>13, <2>1, RunThen
  <2> QED
    BY <1>4, <2>2, RunThen DEF c10
<1>15. Run(o, c11, s, s)
  <2>1. Run(o, ends("vmexit", "vmexit", "vmexit", "vmexit"), s, s)
    <3>1. \A a, m : "vmexit" = Result(FALSE, {}, a, m)
      BY DEF Result
    <3> QED
      BY <1>1, <1>2, <3>1, RunEnds
  <2> QED
    BY <1>14, <2>1, RunThen DEF c11
<1> QED
  BY <1>0, <1>1, <1>15, RunTest DEF s

----------------------------------------------------------------------------

\* Where the first iteration starts: interrupts are off until its STI, if any.
First(o, i) ==
  IF i > 0 \/ o.no_if THEN Clean
  ELSE [handler |-> "NULL", lists |-> FALSE, bitmaps |-> FALSE, bits |-> {},
        tsc |-> "boot", ebx |-> "any", off |-> TRUE, pg |-> TRUE,
        fs |-> "0", gs |-> "0", ept |-> "idle"]

\* The code before the loop of shv_guest_main.
LEMMA RunStart ==
  ASSUME NEW o \in AllOptions
  PROVE  Run(o, Program(o, 0), First(o, 0), Clean)
<1> DEFINE s == First(o, 0)
           a == [op |-> "rdmsr", msr |-> "APIC_BASE"]
           x == [op |-> "rdmsr", msr |-> "X2APIC_APICID"]
           c == [op |-> "cpuid", eax |-> "xmhf"]
<1>1. o.no_if \in BOOLEAN /\ o.x2apic \in BOOLEAN
  BY DEF AllOptions
<1>2. s \in Points /\ Clean \in Points
  <2>1. {} \in BitSets
    BY DEF BitSets
  <2> QED
    BY <2>1, TestPoints DEF First, Points, Overrides, Bases
<1>3. a \in Ops /\ x \in Ops /\ c \in Ops
  BY DEF Ops, Address
<1>4. s = After(o, a, s) /\ s = After(o, x, s) /\ s = After(o, c, s)
  BY DEF After, First, Clean, With
<1>5. May(o, a, s) /\ May(o, x, s) /\ May(o, c, s)
  BY DEF May, MayAccess, First, Clean, With
<1>6. ~o.no_if => Clean = After(o, [op |-> "sti"], s) /\ May(o, [op |-> "sti"], s)
  BY DEF After, May, First, Clean, With
<1>7. o.no_if => s = Clean
  BY DEF First
<1> HIDE DEF s
<1>8. Run(o, rdmsr("APIC_BASE"), s, s) /\ Run(o, rdmsr("X2APIC_APICID"), s, s)
  BY <1>2, <1>3, <1>4, <1>5, RunOne DEF rdmsr
<1>9. Run(o, cpuid("xmhf"), s, s)
  BY <1>2, <1>3, <1>4, <1>5, RunOne DEF cpuid
<1>10. Run(o, When(~o.no_if, sti), s, Clean)
  <2>1. CASE o.no_if
    BY <1>2, <1>7, <2>1, RunNothing DEF When
  <2>2. CASE ~o.no_if
    BY <1>2, <1>6, <2>2, RunPlain DEF When, sti
  <2> QED
    BY <2>1, <2>2
<1>11. Run(o, When(o.x2apic, rdmsr("X2APIC_APICID")), s, s)
  BY <1>1, <1>2, <1>8, RunWhen
<1>12. Run(o, get_vcpu(o), s, s)
  BY <1>8, <1>11, RunThen DEF get_vcpu
<1>13. Run(o, get_vcpu(o) \o cpuid("xmhf"), s, s)
  BY <1>9, <1>12, RunThen
<1>14. Run(o, get_vcpu(o) \o cpuid("xmhf") \o When(~o.no_if, sti), s, Clean)
  BY <1>10, <1>13, RunThen
<1> QED
  BY <1>14 DEF Program, s

\* An iteration of the loop.
LEMMA RunLoop ==
  ASSUME NEW o \in AllOptions, Legal(o), NEW i \in Nat \ {0}
  PROVE  Run(o, Program(o, i), Clean, Clean)
<1> DEFINE c1 == When(~(o.no_if \/ o.no_int), <<[op |-> "hlt"]>>)
           c2 == c1 \o When(o.msr, shv_guest_test_msr_ls)
           c3 == c2 \o When(o.ept, shv_guest_test_ept)
           c4 == c3 \o When(o.switch, shv_guest_switch_ept)
           c5 == c4 \o When(o.vpid, shv_guest_test_vpid)
           c6 == c5 \o When(o.vmxoff /\ i % 5 = 0, shv_guest_test_vmxoff(i % 3 = 0))
           c7 == c6 \o When(o.unrestricted, paging_demo)
           c8 == c7 \o When(o.large, <<[op |-> "large_page"]>>)
           c9 == c8 \o When(o.bitmap, shv_guest_msr_bitmap(o))
           c10 == c9 \o shv_guest_wait_int
<1>0. Program(o, i) = c10
  BY DEF Program
<1>1. /\ o.no_if \in BOOLEAN /\ o.no_int \in BOOLEAN /\ o.msr \in BOOLEAN
      /\ o.ept \in BOOLEAN /\ o.switch \in BOOLEAN /\ o.vpid \in BOOLEAN
      /\ o.vmxoff \in BOOLEAN /\ o.unrestricted \in BOOLEAN
      /\ o.large \in BOOLEAN /\ o.bitmap \in BOOLEAN
  BY DEF AllOptions
<1>2. Clean \in Points
  BY TestPoints
<1>3. Run(o, <<[op |-> "hlt"]>>, Clean, Clean)
  <2>1. May(o, [op |-> "hlt"], Clean) /\ Clean = After(o, [op |-> "hlt"], Clean)
    BY DEF May, After, Clean, With
  <2> QED
    BY <1>2, <2>1, RunPlain
<1>4. o.large => Run(o, <<[op |-> "large_page"]>>, Clean, Clean)
  <2>1. Clean = After(o, [op |-> "large_page"], Clean)
    BY DEF After, Clean, With
  <2>2. o.large => May(o, [op |-> "large_page"], Clean)
    BY DEF May, Legal
  <2> QED
    BY <1>2, <2>1, <2>2, RunPlain
<1>5. o.switch => Run(o, shv_guest_switch_ept, Clean, Clean)
  BY RunCallTests DEF Legal
<1> HIDE DEF c1, c2, c3, c4, c5, c6, c7, c8, c9, c10
<1>6. Run(o, c1, Clean, Clean)
  BY <1>1, <1>2, <1>3, RunWhen DEF c1
<1>7. Run(o, c2, Clean, Clean)
  <2>1. o.msr => Run(o, shv_guest_test_msr_ls, Clean, Clean)
    BY <1>1, RunMsrLs
  <2>2. Run(o, When(o.msr, shv_guest_test_msr_ls), Clean, Clean)
    BY <1>1, <1>2, <2>1, RunWhen
  <2> QED
    BY <1>6, <2>2, RunThen DEF c2
<1>8. Run(o, c3, Clean, Clean)
  <2>1. o.ept => Run(o, shv_guest_test_ept, Clean, Clean)
    BY <1>1, RunEpt
  <2>2. Run(o, When(o.ept, shv_guest_test_ept), Clean, Clean)
    BY <1>1, <1>2, <2>1, RunWhen
  <2> QED
    BY <1>7, <2>2, RunThen DEF c3
<1>9. Run(o, c4, Clean, Clean)
  <2>1. o.switch => Run(o, shv_guest_switch_ept, Clean, Clean)
    BY <1>1, <1>5
  <2>2. Run(o, When(o.switch, shv_guest_switch_ept), Clean, Clean)
    BY <1>1, <1>2, <2>1, RunWhen
  <2> QED
    BY <1>8, <2>2, RunThen DEF c4
<1>10. Run(o, c5, Clean, Clean)
  <2>1. o.vpid => Run(o, shv_guest_test_vpid, Clean, Clean)
    BY <1>1, RunCallTests
  <2>2. Run(o, When(o.vpid, shv_guest_test_vpid), Clean, Clean)
    BY <1>1, <1>2, <2>1, RunWhen
  <2> QED
    BY <1>9, <2>2, RunThen DEF c5
<1>11. Run(o, c6, Clean, Clean)
  <2>1. (o.vmxoff /\ i % 5 = 0) \in BOOLEAN /\ (i % 3 = 0) \in BOOLEAN
    BY <1>1
  <2>2. Run(o, shv_guest_test_vmxoff(i % 3 = 0), Clean, Clean)
    BY <2>1, RunCallTests
  <2>3. Run(o, When(o.vmxoff /\ i % 5 = 0, shv_guest_test_vmxoff(i % 3 = 0)),
            Clean, Clean)
    BY <1>2, <2>1, <2>2, RunWhen
  <2> QED
    BY <1>10, <2>3, RunThen DEF c6
<1>12. Run(o, c7, Clean, Clean)
  <2>1. o.unrestricted => Run(o, paging_demo, Clean, Clean)
    BY <1>1, RunPaging
  <2>2. Run(o, When(o.unrestricted, paging_demo), Clean, Clean)
    BY <1>1, <1>2, <2>1, RunWhen
  <2> QED
    BY <1>11, <2>2, RunThen DEF c7
<1>13. Run(o, c8, Clean, Clean)
  <2>1. o.large => Run(o, <<[op |-> "large_page"]>>, Clean, Clean)
    BY <1>1, <1>4
  <2>2. Run(o, When(o.large, <<[op |-> "large_page"]>>), Clean, Clean)
    BY <1>1, <1>2, <2>1, RunWhen
  <2> QED
    BY <1>12, <2>2, RunThen DEF c8
<1>14. Run(o, c9, Clean, Clean)
  <2>1. o.bitmap => Run(o, shv_guest_msr_bitmap(o), Clean, Clean)
    BY <1>1, RunMsrBitmap
  <2>2. Run(o, When(o.bitmap, shv_guest_msr_bitmap(o)), Clean, Clean)
    BY <1>1, <1>2, <2>1, RunWhen
  <2> QED
    BY <1>13, <2>2, RunThen DEF c9
<1>15. Run(o, c10, Clean, Clean)
  <2>1. Run(o, shv_guest_wait_int, Clean, Clean)
    BY RunCallTests
  <2> QED
    BY <1>14, <2>1, RunThen DEF c10
<1> QED
  BY <1>0, <1>15

\* Every iteration of shv_guest_main, of every configuration that is legal, can be
\* executed from its start and leaves everything as a test expects it.
LEMMA RunProgram ==
  ASSUME NEW i \in 0..15, NEW o \in Options
  PROVE  Run(o, Program(o, i), First(o, i), Clean)
<1>1. o \in AllOptions /\ Legal(o)
  BY GuestAssumption
<1>2. CASE i = 0
  BY <1>1, <1>2, RunStart
<1>3. CASE i # 0
  <2>1. i \in Nat \ {0} /\ First(o, i) = Clean
    BY <1>3 DEF First
  <2> QED
    BY <1>1, <2>1, RunLoop
<1> QED
  BY <1>2, <1>3

----------------------------------------------------------------------------
(* What a point of the tests means for the state, whoever runs. *)

\* The MSR lists are empty, or as VMCALL 12 made them; MSRs they do not concern
\* have the value they had at boot.
Lists(s) ==
  LET n == IF s.lists THEN Used ELSE 0
      kept == IF s.lists
              THEN {"EFER"} \cup IF opt.mc THEN {} ELSE {"MC402", "MC403", "MC406"}
              ELSE Msrs \ {"LSTAR", "TSC_ADJUST"}
  IN /\ vmcs.store = n /\ vmcs.load = n /\ vmcs.entry = n
     /\ \A m \in kept : msr[m] = "boot"

\* Between VMCALLs 12 and 16 the values to go back to are saved, and each VM
\* entry and each VM exit has done its part.
ListsUsed(s) ==
  s.lists =>
    /\ \A m \in Saved : old_vals[m] = "boot"
    /\ msr["MTRR5_BASE"] = "aaaaa000"
    /\ opt.mc => msr["MC402"] = "22222222"
    /\ mode \in {"guest", "exit"} =>
         /\ msr["MTRR6_BASE"] = "ccccc000" /\ msr["PAT"] = "00070604"
         /\ opt.mc => msr["MC406"] = "66666666"
    /\ mode = "exit" => MsrLsEffects

\* The EPT test has not read its page, or has: through the mapping or, for
\* ept_num 0, by an EPT violation.
EptUse(s) ==
  IF s.ept = "idle" THEN ept_exit_count = 0
  ELSE IF ept_num = 0 THEN ept_exit_count = 1 /\ eax = FEE1C0DE
  ELSE ept_exit_count = 0 /\ eax = ept_num

\* The registers, the handler and the MSR bitmap.
Registers(s) ==
  /\ override = s.handler /\ pg = s.pg
  /\ IF s.off THEN ~eflags_if ELSE eflags_if \/ opt.no_if
  /\ vmcs.bitmaps = s.bitmaps /\ bitmap = s.bits
  /\ vmcs.fs = s.fs /\ vmcs.gs = s.gs
  /\ s.tsc = "boot" => msr["TSC_ADJUST"] = "boot"
  /\ s.ebx # "any" => ebx = s.ebx

Fits(s) == Registers(s) /\ EptUse(s) /\ Lists(s) /\ ListsUsed(s)

\* Where an interrupt or #GP has come to.
InIntr == {"int_enter", "int_rdmsr", "int_x2apic", "int_cpuid", "int_end"}
InGp == {"gp_enter", "gp_rdmsr", "gp_x2apic", "gp_cpuid", "gp_end"}
Interrupted(s) ==
  /\ intr \in InIntr \cup InGp \cup {"none"}
  /\ intr # "none" => s.pg /\ s.fs = "0" /\ s.gs = "0"
  /\ intr \in InGp => /\ at <= Len(Code) /\ Op.op \in {"rdmsr", "wrmsr"}
                      /\ Outcome(s, Op) = "except"
  /\ intr \in {"int_end", "gp_end"} => ~vmxbit

\* The VM exit that is handled is one of the current operation or of the handler
\* of an interrupt.
ExitOf(s) ==
  \/ Op.op = "vmcall" /\ exit = [reason |-> "VMCALL", eax |-> Op.eax, ebx |-> Op.ebx]
  \/ Op.op = "cpuid" /\ exit = [reason |-> "CPUID", eax |-> Op.eax]
  \/ /\ Op.op = "rdmsr" /\ Outcome(s, Op) = "vmexit"
     /\ exit = [reason |-> "RDMSR", msr |-> Op.msr, ebx |-> "normal"]
  \/ /\ Op.op = "wrmsr" /\ Outcome(s, Op) = "vmexit"
     /\ exit = [reason |-> "WRMSR", msr |-> Op.msr, ebx |-> "normal"]
  \/ /\ Op.op = "ept_read" /\ ept_num = 0
     /\ exit = [reason |-> "EPT_VIOLATION"]
Exits(s) ==
  /\ mode = "exit" =>
       IF intr = "none" THEN at <= Len(Code) /\ ExitOf(s)
       ELSE \/ /\ intr \in DOMAIN HandlerRead
               /\ exit = [reason |-> "RDMSR", msr |-> HandlerRead[intr], ebx |-> "any"]
            \/ /\ intr \in {"int_cpuid", "gp_cpuid"}
               /\ exit = [reason |-> "CPUID", eax |-> "1"]
  /\ mode = "wait" =>
       /\ intr = "none" /\ at <= Len(Code)
       /\ Op.op = "vmcall" /\ Op.eax = 25 /\ s.handler = "wait_int"

Here(s) == Fits(s) /\ Interrupted(s) /\ Exits(s)

\* The EPT in use is the one of ept_num.
EptNow ==
  mode # "start" /\ opt.ept =>
    /\ vmcs.eptp = EptOf(ept_num)
    /\ ept[vmcs.eptp].target = ept_num
    /\ ept[vmcs.eptp].large = IF opt.large THEN "swapped" ELSE "same"

\* The types of the VMCS fields and of MSRs.
Values == {"boot", "none", "dead", "guest", "aaaaa000", "bbbbb000", "ccccc000",
           "00070604", "11111000", "22222222", "33333333", "66666666"}
Fields ==
  [eptp : Epts, vpid : 0..(VpidCount - 1), bitmaps : BOOLEAN, store : 0..3,
   load : 0..3, entry : 0..3, fs : Bases, gs : Bases]
Shape ==
  /\ opt \in Options
  /\ mode \in {"start", "guest", "exit", "wait", "entry"}
  /\ eflags_if \in BOOLEAN /\ pg \in BOOLEAN /\ vmxbit \in BOOLEAN
  /\ vmcs \in Fields
  /\ msr \in [Msrs -> Values] /\ old_vals \in [Msrs -> Values]
  /\ stored \in [1..3 -> Values]
  /\ eax \in -1..(EptCount * EptSub - 1)
  /\ mode = "start" =>
       /\ ept_num = 0 /\ ~vmcs.bitmaps /\ vmcs.fs = "0" /\ vmcs.gs = "0"
       /\ vmcs.store = 0 /\ vmcs.load = 0 /\ vmcs.entry = 0

\* The state is at point s, from which the current operation leads to t.
At(s, t) ==
  /\ IInv /\ Shape /\ EptNow
  /\ s \in Points /\ Here(s)
  /\ at <= Len(Code) => /\ Op \in Ops /\ May(opt, Op, s)
                        /\ t \in Points /\ t = After(opt, Op, s)

\* A step leaves it there, or has carried out the operation.
Moved(s, t) ==
  /\ UNCHANGED <<opt, iter>>
  /\ \/ at' = at /\ Here(s)'
     \/ at <= Len(Code) /\ at' = at + 1 /\ Here(t)'

----------------------------------------------------------------------------

\* Interrupts aside, all is well behind an operation.
LEMMA Behind ==
  ASSUME NEW t, intr' = "none", mode' \in {"guest", "entry"}, Fits(t)'
  PROVE  Here(t)'
BY DEF Here, Interrupted, Exits, InGp

\* Where nothing of it changes, a point keeps its meaning.
LEMMA FitsKept ==
  ASSUME NEW s, Fits(s),
         UNCHANGED <<opt, override, pg, eflags_if, ebx, eax, vmcs, bitmap, msr,
                     old_vals, stored, ept_num, ept_exit_count>>,
         mode' \in {"guest", "exit"} => mode' = mode
  PROVE  Fits(s)'
BY DEF Fits, Registers, EptUse, Lists, ListsUsed, Used, Saved, MsrLsEffects

\* Two points say the same of everything but EBX.
Same(s, t) ==
  /\ t.handler = s.handler /\ t.lists = s.lists /\ t.bitmaps = s.bitmaps
  /\ t.bits = s.bits /\ t.tsc = s.tsc /\ t.off = s.off /\ t.pg = s.pg
  /\ t.fs = s.fs /\ t.gs = s.gs /\ t.ept = s.ept

\* Points that say the same mean the same.
LEMMA FitsSame ==
  ASSUME NEW s, NEW t, Fits(s), Same(s, t), t.ebx = s.ebx \/ t.ebx = "any"
  PROVE  Fits(t)
BY DEF Fits, Same, Registers, EptUse, Lists, ListsUsed

\* The fields of the point behind an operation.
LEMMA AfterFields ==
  ASSUME NEW o, NEW op, NEW s, op.op # "vmcall",
         op.op \notin {"override", "cli", "sti", "paging", "ept_read", "ept_count"},
         ~(op.op = "wrmsr" /\ Outcome(s, op) = "normal")
  PROVE  /\ Same(s, After(o, op, s))
         /\ op.op \notin {"rdmsr", "wrmsr", "check_ebx"} => After(o, op, s).ebx = s.ebx
         /\ op.op = "check_ebx" => After(o, op, s).ebx = "any"
         /\ op.op \in {"rdmsr", "wrmsr"} =>
              After(o, op, s).ebx = IF s.handler = "msr_bitmap" THEN Outcome(s, op)
                                    ELSE "any"
BY DEF After, Same

\* A step that is about the registers, the handler, or the MSR bitmap only.
LEMMA FitsRegisters ==
  ASSUME NEW s, NEW t, Fits(s), Registers(t)',
         UNCHANGED <<opt, eax, msr, old_vals, stored, ept_num, ept_exit_count>>,
         vmcs'.store = vmcs.store, vmcs'.load = vmcs.load, vmcs'.entry = vmcs.entry,
         t.lists = s.lists, t.ept = s.ept,
         mode' \in {"guest", "exit"} => mode' = mode
  PROVE  Fits(t)'
BY DEF Fits, EptUse, Lists, ListsUsed, Used, Saved, MsrLsEffects

\* Installing a handler.
LEMMA OverrideMoved ==
  ASSUME NEW s, NEW t, At(s, t), Override
  PROVE  Moved(s, t) /\ Shape' /\ EptNow'
<1> USE DEF tables, guest, msrs, reg
<1>1. /\ mode = "guest" /\ intr = "none" /\ at <= Len(Code) /\ Op.op = "override"
      /\ override' = Op.to /\ at' = at + 1 /\ mode' = "guest"
      /\ UNCHANGED <<opt, exit, vmx, vmcs, iter, eflags_if, pg, reg, intr, vmxbit,
                     msrs, tables>>
  BY DEF Override, Executes, Running, Step
<1>2. t = After(opt, Op, s) /\ Fits(s)
  BY <1>1 DEF At, Here
<1>3. /\ t.handler = Op.to /\ t.lists = s.lists /\ t.ept = s.ept /\ t.pg = s.pg
      /\ t.bitmaps = s.bitmaps /\ t.bits = s.bits /\ t.tsc = s.tsc /\ t.off = s.off
      /\ t.fs = s.fs /\ t.gs = s.gs /\ t.ebx = s.ebx
  BY <1>1, <1>2 DEF After
<1>4. Registers(t)'
  BY <1>1, <1>2, <1>3 DEF Fits, Registers
<1>5. Fits(t)'
  BY <1>1, <1>2, <1>3, <1>4, FitsRegisters
<1>6. Here(t)'
  BY <1>1, <1>5, Behind
<1>7. Shape' /\ EptNow'
  BY <1>1 DEF At, Shape, EptNow
<1> QED
  BY <1>1, <1>6, <1>7 DEF Moved

\* cli, sti and the writes of CR0.
LEMMA SetFlagsMoved ==
  ASSUME NEW s, NEW t, At(s, t), SetFlags
  PROVE  Moved(s, t) /\ Shape' /\ EptNow'
<1> USE DEF tables, guest, msrs, reg
<1>1. /\ mode = "guest" /\ intr = "none" /\ at <= Len(Code)
      /\ Op.op \in {"cli", "sti", "paging"}
      /\ \/ Op.op = "cli" /\ eflags_if' = FALSE /\ pg' = pg
         \/ Op.op = "sti" /\ eflags_if' = TRUE /\ pg' = pg
         \/ Op.op = "paging" /\ pg' = Op.on /\ eflags_if' = eflags_if
      /\ at' = at + 1 /\ mode' = "guest"
      /\ UNCHANGED <<opt, exit, vmx, vmcs, iter, reg, intr, vmxbit, override,
                     msrs, tables>>
  BY DEF SetFlags, Running, Step
<1>2. t = After(opt, Op, s) /\ Fits(s) /\ Op \in Ops
  BY <1>1 DEF At, Here
<1>3. /\ t.handler = s.handler /\ t.lists = s.lists /\ t.ept = s.ept
      /\ t.bitmaps = s.bitmaps /\ t.bits = s.bits /\ t.tsc = s.tsc
      /\ t.fs = s.fs /\ t.gs = s.gs /\ t.ebx = s.ebx
      /\ t.off = IF Op.op = "cli" THEN TRUE ELSE IF Op.op = "sti" THEN FALSE ELSE s.off
      /\ t.pg = IF Op.op = "paging" THEN Op.on ELSE s.pg
  BY <1>1, <1>2 DEF After
<1>4. Registers(t)'
  BY <1>1, <1>2, <1>3 DEF Fits, Registers
<1>5. Fits(t)'
  BY <1>1, <1>2, <1>3, <1>4, FitsRegisters
<1>6. Here(t)'
  BY <1>1, <1>5, Behind
<1>7. Op.op = "paging" => Op.on \in BOOLEAN
  BY <1>2 DEF Ops
<1>8. eflags_if' \in BOOLEAN /\ pg' \in BOOLEAN
  BY <1>1, <1>7 DEF At, Shape
<1>9. Shape' /\ EptNow'
  BY <1>1, <1>8 DEF At, Shape, EptNow
<1> QED
  BY <1>1, <1>6, <1>9 DEF Moved

\* The large pages are swapped: what is cached is what the EPT maps.
LEMMA LargePagesSwapped ==
  ASSUME IInv, EptNow, mode = "guest", opt.ept, opt.large
  PROVE  LargePages = <<"B", "A">>
<1> DEFINE r == vmcs.eptp
           hit == Cached(r, "large")
<1>1. ept[r].large = "swapped"
  BY DEF EptNow
<1>2. \A m \in hit : m[3] = "swapped"
  <2> SUFFICES ASSUME NEW m \in hit PROVE m[3] = "swapped"
    OBVIOUS
  <2>1. m \in tlb /\ m[1] = r /\ m[2] = "large"
    BY DEF Cached
  <2>2. m \in Mappings(r)
    BY <2>1 DEF IInv, CachedIsMapped
  <2> QED
    BY <1>1, <2>1, <2>2 DEF Mappings
<1>3. hit # {} => (CHOOSE m \in hit : TRUE) \in hit
  OBVIOUS
<1> QED
  BY <1>1, <1>2, <1>3 DEF LargePages

\* The assertions of the tests hold.
LEMMA ChecksMoved ==
  ASSUME NEW s, NEW t, At(s, t), Checks
  PROVE  Moved(s, t) /\ Shape' /\ EptNow'
<1> USE DEF tables, guest, msrs, reg
<1>1. /\ mode = "guest" /\ intr = "none" /\ at <= Len(Code)
      /\ Op.op \in {"check_ebx", "check_fs_gs", "ept_fresh", "ept_check", "large_page"}
      /\ at' = at + 1
      /\ UNCHANGED <<opt, exit, vmx, vmcs, iter, eflags_if, pg, reg, intr, vmxbit,
                     override, msrs, tables>>
  BY DEF Checks, Running, Step
<1>2. t = After(opt, Op, s) /\ Fits(s) /\ May(opt, Op, s)
  BY <1>1 DEF At, Here
<1>3. mode' = "guest"
  <2>1. CASE Op.op = "check_ebx"
    BY <1>2, <2>1 DEF Checks, Step, May, Fits, Registers
  <2>2. CASE Op.op = "check_fs_gs"
    BY <1>2, <2>2 DEF Checks, Step, May, Fits, Registers
  <2>3. CASE Op.op = "ept_fresh"
    BY <1>2, <2>3 DEF Checks, Step, May, Fits, EptUse
  <2>4. CASE Op.op = "ept_check"
    BY <1>2, <2>4 DEF Checks, Step, May, Fits, EptUse
  <2>5. CASE Op.op = "large_page"
    <3>1. opt.ept /\ opt.large
      BY <1>2, <2>5 DEF May
    <3>2. LargePages = <<"B", "A">>
      BY <1>1, <3>1, LargePagesSwapped DEF At
    <3> QED
      BY <2>5, <3>2 DEF Checks, Step
  <2> QED
    BY <1>1, <2>1, <2>2, <2>3, <2>4, <2>5
<1>4. Same(s, t) /\ (t.ebx = s.ebx \/ t.ebx = "any")
  BY <1>1, <1>2, AfterFields
<1>5. Fits(t)
  BY <1>2, <1>4, FitsSame
<1>6. Here(t)'
  BY <1>1, <1>3, <1>5, FitsKept, Behind
<1>7. Shape' /\ EptNow'
  BY <1>1, <1>3 DEF At, Shape, EptNow
<1> QED
  BY <1>1, <1>6, <1>7 DEF Moved

\* The end of the EPT test.
LEMMA EptCountMoved ==
  ASSUME NEW s, NEW t, At(s, t), EptCountCheck
  PROVE  Moved(s, t) /\ Shape' /\ EptNow'
<1> USE DEF tables, guest, msrs, reg
<1>1. /\ mode = "guest" /\ intr = "none" /\ at <= Len(Code)
      /\ Op.op = "ept_count" /\ at' = at + 1 /\ ept_exit_count' = 0
      /\ UNCHANGED <<opt, exit, vmx, vmcs, iter, eflags_if, pg, reg, intr, vmxbit,
                     override, msrs, ept, ept_num, tlb>>
  BY DEF EptCountCheck, Executes, Running, Step
<1>2. t = After(opt, Op, s) /\ Fits(s) /\ May(opt, Op, s)
  BY <1>1 DEF At, Here
<1>3. mode' = "guest"
  BY <1>1, <1>2 DEF EptCountCheck, Step, May, Fits, EptUse
<1>4. /\ t.handler = s.handler /\ t.lists = s.lists /\ t.ept = "idle" /\ t.pg = s.pg
      /\ t.bitmaps = s.bitmaps /\ t.bits = s.bits /\ t.tsc = s.tsc /\ t.off = s.off
      /\ t.fs = s.fs /\ t.gs = s.gs /\ t.ebx = s.ebx
  BY <1>1, <1>2 DEF After
<1>5. Fits(t)'
  BY <1>1, <1>2, <1>3, <1>4
  DEF Fits, Registers, EptUse, Lists, ListsUsed, Used, Saved, MsrLsEffects
<1>6. Here(t)'
  BY <1>1, <1>3, <1>5, Behind
<1>7. Shape' /\ EptNow'
  BY <1>1, <1>3 DEF At, Shape, EptNow
<1> QED
  BY <1>1, <1>6, <1>7 DEF Moved

----------------------------------------------------------------------------
(* VM exits and VM entries. *)

\* An MSR of the first n entries of a load list.
LEMMA LoadedValue ==
  ASSUME NEW list, NEW n \in Nat, NEW k \in 1..n, list[k][1] \in DOMAIN msr,
         \A i \in 1..n : list[i][1] = list[k][1] => i = k
  PROVE  Loaded(list, n)[list[k][1]] = list[k][2]
<1> DEFINE m == list[k][1]
           c == CHOOSE i \in 1..n : list[i][1] = m
<1>1. c \in 1..n /\ list[c][1] = m
  OBVIOUS
<1>2. c = k
  BY <1>1
<1> HIDE DEF c
<1>3. Loaded(list, n)[m] = list[c][2]
  BY DEF Loaded, c
<1> QED
  BY <1>2, <1>3

\* An MSR that is not there keeps its value.
LEMMA LoadedOther ==
  ASSUME NEW list, NEW n, NEW m \in DOMAIN msr, \A i \in 1..n : list[i][1] # m
  PROVE  Loaded(list, n)[m] = msr[m]
BY DEF Loaded

\* What a load list of which n entries are in use loads.
LEMMA Loads ==
  ASSUME msr \in [Msrs -> Values], NEW n \in {0, 2, 3}, NEW e,
         \A i \in 1..3 : e[i][1] \in Msrs /\ e[i][2] \in Values,
         e[1][1] # e[2][1], e[1][1] # e[3][1], e[2][1] # e[3][1]
  PROVE  /\ Loaded(e, n) \in [Msrs -> Values]
         /\ n # 0 => /\ Loaded(e, n)[e[1][1]] = e[1][2]
                     /\ Loaded(e, n)[e[2][1]] = e[2][2]
         /\ n = 3 => Loaded(e, n)[e[3][1]] = e[3][2]
         /\ \A m \in Msrs : \/ Loaded(e, n)[m] = msr[m]
                            \/ m \in {e[1][1], e[2][1]} /\ n # 0
                            \/ m = e[3][1] /\ n = 3
<1>1. \A i \in 1..n : i = 1 \/ i = 2 \/ (i = 3 /\ n = 3)
  OBVIOUS
<1>2. DOMAIN msr = Msrs /\ \A m \in Msrs : msr[m] \in Values
  OBVIOUS
<1>3. ASSUME n # 0
      PROVE  Loaded(e, n)[e[1][1]] = e[1][2] /\ Loaded(e, n)[e[2][1]] = e[2][2]
  <2>1. n \in Nat /\ 1 \in 1..n /\ 2 \in 1..n /\ 1 \in 1..3 /\ 2 \in 1..3
    BY <1>3
  <2>2. \A i \in 1..n : e[i][1] = e[1][1] => i = 1
    BY <1>1
  <2>3. \A i \in 1..n : e[i][1] = e[2][1] => i = 2
    BY <1>1
  <2> QED
    BY <1>2, <2>1, <2>2, <2>3, LoadedValue
<1>4. ASSUME n = 3
      PROVE  Loaded(e, n)[e[3][1]] = e[3][2]
  <2>1. n \in Nat /\ 3 \in 1..n /\ 3 \in 1..3
    BY <1>4
  <2>2. \A i \in 1..n : e[i][1] = e[3][1] => i = 3
    BY <1>1
  <2> QED
    BY <1>2, <2>1, <2>2, LoadedValue
<1>5. ASSUME NEW m \in Msrs
      PROVE  \/ Loaded(e, n)[m] = msr[m]
             \/ m \in {e[1][1], e[2][1]} /\ n # 0
             \/ m = e[3][1] /\ n = 3
  <2>1. CASE \A i \in 1..n : e[i][1] # m
    BY <1>2, <2>1, LoadedOther
  <2>2. CASE \E i \in 1..n : e[i][1] = m
    BY <1>1, <2>2
  <2> QED
    BY <2>1, <2>2
<1>6. Loaded(e, n) \in [Msrs -> Values]
  <2>1. DOMAIN Loaded(e, n) = Msrs /\ Loaded(e, n) = [m \in Msrs |-> Loaded(e, n)[m]]
    BY <1>2 DEF Loaded
  <2>2. e[1][2] \in Values /\ e[2][2] \in Values /\ e[3][2] \in Values
    OBVIOUS
  <2>3. ASSUME NEW m \in Msrs PROVE Loaded(e, n)[m] \in Values
    BY <1>2, <1>3, <1>4, <1>5, <2>2
  <2> QED
    BY <2>1, <2>3
<1> QED
  BY <1>3, <1>4, <1>5, <1>6

\* A VM exit leaves the guest where it is.
LEMMA ExitFits ==
  ASSUME NEW s, NEW e, s \in Points, Fits(s), Shape, mode = "guest", VmExit(e),
         UNCHANGED <<override, pg, eflags_if, eax>>,
         s.ebx # "any" => ebx' = ebx
  PROVE  /\ Fits(s)'
         /\ msr' \in [Msrs -> Values] /\ stored' \in [1..3 -> Values]
<1> USE DEF tables
<1>1. /\ mode' = "exit" /\ exit' = e
      /\ stored' = [i \in 1..3 |-> IF i <= vmcs.store THEN msr[StoreList[i]]
                                   ELSE stored[i]]
      /\ msr' = Loaded(ExitLoadList, vmcs.load)
      /\ UNCHANGED <<opt, vmx, vmcs, old_vals, bitmap, tables>>
  BY DEF VmExit
<1> DEFINE n == vmcs.load
<1>2. /\ vmcs.store = n /\ n \in {0, 2, 3}
      /\ s.lists => n = IF opt.mc THEN 3 ELSE 2
      /\ ~s.lists => n = 0
  BY DEF Fits, Lists, Used
<1>3. msr \in [Msrs -> Values] /\ stored \in [1..3 -> Values]
  BY DEF Shape
<1> HIDE DEF n
<1>4. /\ msr' \in [Msrs -> Values]
      /\ n # 0 => msr'["MTRR5_MASK"] = "bbbbb000" /\ msr'["STAR"] = "11111000"
      /\ n = 3 => msr'["MC403"] = "33333333"
      /\ \A m \in Msrs : \/ msr'[m] = msr[m]
                         \/ m \in {"MTRR5_MASK", "STAR"} /\ n # 0
                         \/ m = "MC403" /\ n = 3
  <2> DEFINE e1 == ExitLoadList
  <2>1. /\ e1[1][1] = "MTRR5_MASK" /\ e1[1][2] = "bbbbb000"
        /\ e1[2][1] = "STAR" /\ e1[2][2] = "11111000"
        /\ e1[3][1] = "MC403" /\ e1[3][2] = "33333333"
    BY DEF ExitLoadList
  <2>2. msr' = Loaded(e1, n)
    BY <1>1 DEF n
  <2> HIDE DEF e1
  <2>3. \A i \in 1..3 : e1[i][1] \in Msrs /\ e1[i][2] \in Values
    BY <2>1 DEF Msrs, Values
  <2> QED
    BY <1>2, <1>3, <2>1, <2>2, <2>3, Loads
<1>5. /\ stored' \in [1..3 -> Values]
      /\ n # 0 => stored'[1] = msr["MTRR5_BASE"] /\ stored'[2] = msr["EFER"]
      /\ n = 3 => stored'[3] = msr["MC402"]
  <2>1. \A i \in 1..3 : StoreList[i] \in Msrs
    BY DEF StoreList, Msrs
  <2>2. StoreList[1] = "MTRR5_BASE" /\ StoreList[2] = "EFER" /\ StoreList[3] = "MC402"
    BY DEF StoreList
  <2> QED
    BY <1>1, <1>2, <1>3, <2>1, <2>2
<1>6. Registers(s)' /\ EptUse(s)'
  <2>1. msr'["TSC_ADJUST"] = msr["TSC_ADJUST"]
    BY <1>4 DEF Msrs
  <2> QED
    BY <1>1, <2>1 DEF Fits, Registers, EptUse
<1>7. Lists(s)'
  <2>1. CASE ~s.lists
    BY <1>1, <1>2, <1>4, <2>1 DEF Fits, Lists
  <2>2. CASE s.lists
    <3>1. msr'["EFER"] = msr["EFER"] /\ msr["EFER"] = "boot"
      BY <1>4, <2>2 DEF Fits, Lists, Msrs
    <3>2. ASSUME ~opt.mc, NEW m \in {"MC402", "MC403", "MC406"}
          PROVE  msr'[m] = "boot"
      BY <1>2, <1>4, <2>2, <3>2 DEF Fits, Lists, Msrs
    <3> QED
      BY <1>1, <2>2, <3>1, <3>2 DEF Fits, Lists, Used
  <2> QED
    BY <2>1, <2>2
<1>8. ListsUsed(s)'
  <2> SUFFICES ASSUME s.lists PROVE ListsUsed(s)'
    BY DEF ListsUsed
  <2>1. /\ \A m \in {"MTRR5_BASE", "MC402", "MTRR6_BASE", "PAT", "MC406", "EFER"} :
             msr'[m] = msr[m]
    BY <1>4 DEF Msrs
  <2>2. /\ \A m \in Saved : old_vals[m] = "boot"
        /\ msr["MTRR5_BASE"] = "aaaaa000"
        /\ opt.mc => msr["MC402"] = "22222222"
        /\ msr["MTRR6_BASE"] = "ccccc000" /\ msr["PAT"] = "00070604"
        /\ opt.mc => msr["MC406"] = "66666666"
    BY DEF Fits, ListsUsed
  <2>3. MsrLsEffects'
    BY <1>1, <1>2, <1>4, <1>5, <2>1, <2>2 DEF MsrLsEffects
  <2> QED
    BY <1>1, <2>1, <2>2, <2>3 DEF ListsUsed, Saved
<1> QED
  BY <1>4, <1>5, <1>6, <1>7, <1>8 DEF Fits

\* A VM entry too.
LEMMA VmEntryMoved ==
  ASSUME NEW s, NEW t, At(s, t), VmEntry
  PROVE  Moved(s, t) /\ Shape' /\ EptNow'
<1> USE DEF guest, reg
<1>1. /\ mode = "entry" /\ mode' = "guest"
      /\ msr' = Loaded(EntryLoadList, vmcs.entry)
      /\ UNCHANGED <<opt, exit, vmcs, guest, stored, old_vals, bitmap, ept,
                     ept_num, ept_exit_count>>
  <2>1. mode = "entry"
    BY DEF VmEntry
  <2>2. EntryValid
    BY <2>1, VmEntrySucceeds DEF At
  <2> QED
    BY <2>1, <2>2 DEF VmEntry
<1> DEFINE n == vmcs.entry
<1>2. /\ n \in {0, 2, 3} /\ s \in Points /\ Fits(s)
      /\ s.lists => n = IF opt.mc THEN 3 ELSE 2
      /\ ~s.lists => n = 0
  BY DEF At, Here, Fits, Lists, Used
<1> HIDE DEF n
<1>3. /\ msr' \in [Msrs -> Values]
      /\ n # 0 => msr'["MTRR6_BASE"] = "ccccc000" /\ msr'["PAT"] = "00070604"
      /\ n = 3 => msr'["MC406"] = "66666666"
      /\ \A m \in Msrs : \/ msr'[m] = msr[m]
                         \/ m \in {"MTRR6_BASE", "PAT"} /\ n # 0
                         \/ m = "MC406" /\ n = 3
  <2> DEFINE e1 == EntryLoadList
  <2>1. /\ e1[1][1] = "MTRR6_BASE" /\ e1[1][2] = "ccccc000"
        /\ e1[2][1] = "PAT" /\ e1[2][2] = "00070604"
        /\ e1[3][1] = "MC406" /\ e1[3][2] = "66666666"
    BY DEF EntryLoadList
  <2>2. msr' = Loaded(e1, n) /\ msr \in [Msrs -> Values]
    BY <1>1 DEF n, At, Shape
  <2> HIDE DEF e1
  <2>3. \A i \in 1..3 : e1[i][1] \in Msrs /\ e1[i][2] \in Values
    BY <2>1 DEF Msrs, Values
  <2> QED
    BY <1>2, <2>1, <2>2, <2>3, Loads
<1>4. Registers(s)' /\ EptUse(s)'
  <2>1. msr'["TSC_ADJUST"] = msr["TSC_ADJUST"]
    BY <1>3 DEF Msrs
  <2> QED
    BY <1>1, <1>2, <2>1 DEF Fits, Registers, EptUse
<1>5. Lists(s)'
  <2>1. CASE ~s.lists
    BY <1>1, <1>2, <1>3, <2>1 DEF Fits, Lists
  <2>2. CASE s.lists
    <3>1. msr'["EFER"] = msr["EFER"] /\ msr["EFER"] = "boot"
      BY <1>2, <1>3, <2>2 DEF Fits, Lists, Msrs
    <3>2. ASSUME ~opt.mc, NEW m \in {"MC402", "MC403", "MC406"}
          PROVE  msr'[m] = "boot"
      BY <1>2, <1>3, <2>2, <3>2 DEF Fits, Lists, Msrs
    <3> QED
      BY <1>1, <1>2, <2>2, <3>1, <3>2 DEF Fits, Lists, Used
  <2> QED
    BY <2>1, <2>2
<1>6. ListsUsed(s)'
  <2> SUFFICES ASSUME s.lists PROVE ListsUsed(s)'
    BY DEF ListsUsed
  <2>1. msr'["MTRR5_BASE"] = msr["MTRR5_BASE"] /\ msr'["MC402"] = msr["MC402"]
    BY <1>3 DEF Msrs
  <2>2. /\ \A m \in Saved : old_vals[m] = "boot"
        /\ msr["MTRR5_BASE"] = "aaaaa000"
        /\ opt.mc => msr["MC402"] = "22222222"
    BY <1>2 DEF Fits, ListsUsed
  <2> QED
    BY <1>1, <1>2, <1>3, <2>1, <2>2 DEF ListsUsed, Saved
<1>7. Here(s)'
  <2>1. Interrupted(s)' /\ Exits(s)'
    BY <1>1 DEF At, Here, Interrupted, Exits, Op, Code
  <2> QED
    BY <1>4, <1>5, <1>6, <2>1 DEF Here, Fits
<1>8. Shape' /\ EptNow'
  BY <1>1, <1>3 DEF At, Shape, EptNow
<1> QED
  BY <1>1, <1>7, <1>8 DEF Moved

----------------------------------------------------------------------------
(* The guest. *)

\* The operation is the same as long as the guest does not get on.
LEMMA SameOp ==
  ASSUME UNCHANGED <<opt, iter, at>>
  PROVE  Op' = Op /\ Len(Code)' = Len(Code)
BY DEF Op, Code

\* A VM exit of the guest: the point stays, and the exit is one that is known.
LEMMA ExitMoved ==
  ASSUME NEW s, NEW t, NEW e, At(s, t), mode = "guest", VmExit(e),
         UNCHANGED <<iter, at, eflags_if, pg, eax, intr, vmxbit, override>>,
         s.ebx # "any" => ebx' = ebx,
         Exits(s)'
  PROVE  Moved(s, t) /\ Shape' /\ EptNow'
<1> USE DEF tables
<1>1. /\ mode' = "exit" /\ UNCHANGED <<opt, vmx, vmcs, old_vals, bitmap, tables>>
  BY DEF VmExit
<1>2. Fits(s)' /\ msr' \in [Msrs -> Values] /\ stored' \in [1..3 -> Values]
  BY ExitFits DEF At, Here
<1>3. Interrupted(s)'
  <2>1. Op' = Op /\ Len(Code)' = Len(Code)
    BY <1>1, SameOp
  <2> QED
    BY <1>1, <2>1 DEF At, Here, Interrupted
<1>4. Shape' /\ EptNow'
  BY <1>1, <1>2 DEF At, Shape, EptNow
<1> QED
  BY <1>1, <1>2, <1>3, <1>4 DEF Moved, Here

\* VMCALL and CPUID.
LEMMA VmcallMoved ==
  ASSUME NEW s, NEW t, At(s, t), Vmcall \/ Cpuid
  PROVE  Moved(s, t) /\ Shape' /\ EptNow'
<1> USE DEF guest, reg
<1>1. /\ mode = "guest" /\ intr = "none" /\ at <= Len(Code) /\ UNCHANGED guest
      /\ \/ /\ Op.op = "vmcall"
            /\ VmExit([reason |-> "VMCALL", eax |-> Op.eax, ebx |-> Op.ebx])
         \/ /\ Op.op = "cpuid"
            /\ VmExit([reason |-> "CPUID", eax |-> Op.eax])
  BY DEF Vmcall, Cpuid, Executes, Running
<1>2. opt' = opt /\ mode' = "exit"
  BY <1>1 DEF VmExit
<1>3. Op' = Op /\ Len(Code)' = Len(Code)
  BY <1>1, <1>2, SameOp
<1>4. ExitOf(s)'
  BY <1>1, <1>3 DEF VmExit, ExitOf
<1>5. Exits(s)'
  BY <1>1, <1>2, <1>3, <1>4 DEF Exits
<1> QED
  BY <1>1, <1>5, ExitMoved

\* Whether an access exits is what is known of the MSR bitmap.
LEMMA OutcomeIs ==
  ASSUME NEW s, Registers(s),
         \/ Op.op = "rdmsr" /\ Intercepted("read", Op.msr)
         \/ Op.op = "wrmsr" /\ Intercepted("write", Op.msr)
  PROVE  Outcome(s, Op) = "vmexit"
BY DEF Outcome, Registers, Intercepted

\* The other accesses succeed or raise #GP.
LEMMA OutcomeIsNot ==
  ASSUME NEW s, Registers(s),
         \/ Op.op = "rdmsr" /\ ~Intercepted("read", Op.msr)
         \/ Op.op = "wrmsr" /\ ~Intercepted("write", Op.msr)
  PROVE  Outcome(s, Op) = IF Op.msr \in Absent THEN "except" ELSE "normal"
BY DEF Outcome, Registers, Intercepted

\* RDMSR and WRMSR.
LEMMA AccessMoved ==
  ASSUME NEW s, NEW t, At(s, t), Rdmsr \/ Wrmsr
  PROVE  Moved(s, t) /\ Shape' /\ EptNow'
<1> USE DEF tables, msrs
<1>1. /\ mode = "guest" /\ intr = "none" /\ at <= Len(Code) /\ ebx' = "normal"
      /\ Op.op \in {"rdmsr", "wrmsr"}
      /\ UNCHANGED <<iter, eflags_if, pg, eax, vmxbit, override>>
  BY DEF Rdmsr, Wrmsr, AccessMsr, Executes, Running
<1>2. /\ t = After(opt, Op, s) /\ Fits(s) /\ Registers(s) /\ Op \in Ops
      /\ s.ebx = "any" /\ MayAccess(Op, s) /\ s \in Points /\ Here(s)
      /\ Shape /\ EptNow
  BY <1>1 DEF At, Here, Fits, May, MayAccess
<1> DEFINE out == Outcome(s, Op)
           e(r) == [reason |-> r, msr |-> Op.msr, ebx |-> "normal"]
<1>3. CASE \/ Op.op = "rdmsr" /\ VmExit(e("RDMSR")) /\ Intercepted("read", Op.msr)
           \/ Op.op = "wrmsr" /\ VmExit(e("WRMSR")) /\ Intercepted("write", Op.msr)
  <2>0. UNCHANGED <<at, intr>>
    BY <1>1, <1>3 DEF Rdmsr, Wrmsr, AccessMsr, Executes, VmExit, Step
  <2>1. opt' = opt /\ mode' = "exit"
    BY <1>3 DEF VmExit
  <2>2. Op' = Op /\ Len(Code)' = Len(Code)
    BY <1>1, <2>0, <2>1, SameOp
  <2>3. out = "vmexit"
    BY <1>2, <1>3, OutcomeIs
  <2>4. ExitOf(s)'
    BY <1>3, <2>2, <2>3 DEF VmExit, ExitOf
  <2>5. Exits(s)'
    BY <1>1, <2>0, <2>1, <2>2, <2>4 DEF Exits
  <2> QED
    BY <1>1, <1>2, <1>3, <2>0, <2>5, ExitMoved
<1>4. CASE /\ intr' = "gp_enter" /\ out = "except"
           /\ UNCHANGED <<opt, mode, exit, vmx, vmcs, at, msrs, tables>>
  <2>1. s.pg /\ s.fs = "0" /\ s.gs = "0"
    BY <1>2, <1>4 DEF MayAccess, Outcome
  <2>2. Op' = Op /\ Len(Code)' = Len(Code)
    BY <1>1, <1>4, SameOp
  <2>3. Registers(s)'
    BY <1>1, <1>2, <1>4 DEF Registers
  <2>4. Fits(s)'
    BY <1>1, <1>2, <1>4, <2>3, FitsRegisters
  <2>5. Interrupted(s)' /\ Exits(s)'
    BY <1>1, <1>4, <2>1, <2>2 DEF Interrupted, Exits, InGp, InIntr
  <2>6. Shape' /\ EptNow'
    BY <1>1, <1>2, <1>4 DEF Shape, EptNow
  <2> QED
    BY <1>1, <1>4, <2>4, <2>5, <2>6 DEF Moved, Here
<1>5. CASE /\ out = "normal" /\ at' = at + 1 /\ mode' = "guest"
           /\ Op.op = "rdmsr" /\ UNCHANGED <<vmcs, msr>>
           /\ UNCHANGED <<opt, exit, vmx, intr, stored, old_vals, bitmap, tables>>
  <2>1. Same(s, t) /\ (t.ebx = "any" \/ t.ebx = "normal")
    BY <1>2, <1>5, AfterFields
  <2>2. Registers(t)'
    BY <1>1, <1>2, <1>5, <2>1 DEF Registers, Same
  <2>3. Fits(t)'
    BY <1>1, <1>2, <1>5, <2>1, <2>2, FitsRegisters DEF Same
  <2>4. Shape' /\ EptNow'
    BY <1>1, <1>2, <1>5 DEF Shape, EptNow
  <2> QED
    BY <1>1, <1>5, <2>3, <2>4, Behind DEF Moved
<1>6. CASE /\ out = "normal" /\ at' = at + 1 /\ mode' = "guest" /\ Op.op = "wrmsr"
           /\ CASE Op.msr = "FS_BASE" -> vmcs' = [vmcs EXCEPT !.fs = Op.val]
                                         /\ UNCHANGED msr
                [] Op.msr = "GS_BASE" -> vmcs' = [vmcs EXCEPT !.gs = Op.val]
                                         /\ UNCHANGED msr
                [] OTHER -> msr' = [msr EXCEPT ![Op.msr] = Op.val]
                            /\ UNCHANGED vmcs
           /\ UNCHANGED <<opt, exit, vmx, intr, stored, old_vals, bitmap, tables>>
  <2>1. s.handler = "msr_bitmap" /\ Op.msr \notin Absent
    BY <1>2, <1>6 DEF MayAccess, Outcome
  <2>2. Op.msr \in {"LSTAR", "TSC_ADJUST", "FS_BASE", "GS_BASE"}
    BY <1>2, <2>1 DEF MayAccess
  <2>3. /\ t.handler = s.handler /\ t.lists = s.lists /\ t.bitmaps = s.bitmaps
        /\ t.bits = s.bits /\ t.off = s.off /\ t.pg = s.pg /\ t.ept = s.ept
        /\ t.ebx = "normal"
        /\ t.tsc = IF Op.msr = "TSC_ADJUST" THEN "any" ELSE s.tsc
        /\ t.fs = IF Op.msr = "FS_BASE" THEN Op.val ELSE s.fs
        /\ t.gs = IF Op.msr = "GS_BASE" THEN Op.val ELSE s.gs
    BY <1>2, <1>6, <2>1 DEF After
  <2>4. vmcs \in Fields /\ msr \in [Msrs -> Values]
    BY <1>2 DEF Shape
  <2>5. CASE Op.msr \in {"FS_BASE", "GS_BASE"}
    <3>1. Op.val \in Bases
      BY <1>2, <1>6, <2>1, <2>5 DEF MayAccess
    <3>2. /\ msr' = msr /\ vmcs' \in Fields
          /\ vmcs'.fs = (IF Op.msr = "FS_BASE" THEN Op.val ELSE vmcs.fs)
          /\ vmcs'.gs = (IF Op.msr = "GS_BASE" THEN Op.val ELSE vmcs.gs)
          /\ vmcs'.eptp = vmcs.eptp /\ vmcs'.bitmaps = vmcs.bitmaps
          /\ vmcs'.store = vmcs.store /\ vmcs'.load = vmcs.load
          /\ vmcs'.entry = vmcs.entry
      BY <1>6, <2>4, <2>5, <3>1 DEF Fields
    <3>3. Registers(t)'
      BY <1>1, <1>2, <1>6, <2>3, <2>5, <3>2 DEF Registers
    <3>4. Fits(t)'
      BY <1>1, <1>2, <1>6, <2>3, <3>2, <3>3, FitsRegisters
    <3>5. Shape' /\ EptNow'
      BY <1>1, <1>2, <1>6, <3>2 DEF Shape, EptNow
    <3> QED
      BY <1>1, <1>6, <3>4, <3>5, Behind DEF Moved
  <2>6. CASE Op.msr \in {"LSTAR", "TSC_ADJUST"}
    <3>1. Op.val \in Values
      BY <1>2, <1>6, <2>1, <2>6 DEF MayAccess, Values
    <3>2. /\ vmcs' = vmcs /\ msr' \in [Msrs -> Values]
          /\ \A m \in Msrs \ {Op.msr} : msr'[m] = msr[m]
      BY <1>6, <2>4, <2>6, <3>1 DEF Msrs
    <3>3. Registers(t)'
      <4>1. Op.msr = "LSTAR" => msr'["TSC_ADJUST"] = msr["TSC_ADJUST"]
        BY <3>2 DEF Msrs
      <4> QED
        BY <1>1, <1>2, <1>6, <2>3, <2>6, <3>2, <4>1 DEF Registers
    <3>4. EptUse(t)'
      BY <1>1, <1>2, <1>6, <2>3 DEF Fits, EptUse
    <3>5. \A m \in Msrs \ {"LSTAR", "TSC_ADJUST"} : msr'[m] = msr[m]
      BY <2>6, <3>2
    <3>6. Lists(t)'
      BY <1>2, <1>6, <2>3, <3>2, <3>5 DEF Fits, Lists, Used, Msrs
    <3>7. ListsUsed(t)'
      BY <1>1, <1>2, <1>6, <2>3, <3>5 DEF Fits, ListsUsed, Saved, Msrs
    <3>8. Fits(t)'
      BY <3>3, <3>4, <3>6, <3>7 DEF Fits
    <3>9. Shape' /\ EptNow'
      BY <1>1, <1>2, <1>6, <3>2 DEF Shape, EptNow
    <3> QED
      BY <1>1, <1>6, <3>8, <3>9, Behind DEF Moved
  <2> QED
    BY <2>2, <2>5, <2>6
<1>7. CASE Rdmsr
  <2>1. Op.op = "rdmsr" /\ AccessMsr("rdmsr", "read", "RDMSR")
    BY <1>7 DEF Rdmsr, AccessMsr, Executes
  <2>2. CASE Intercepted("read", Op.msr)
    BY <1>3, <2>1, <2>2 DEF AccessMsr
  <2>3. CASE ~Intercepted("read", Op.msr)
    <3>1. out = IF Op.msr \in Absent THEN "except" ELSE "normal"
      BY <1>2, <2>1, <2>3, OutcomeIsNot
    <3> QED
      BY <1>4, <1>5, <2>1, <2>3, <3>1 DEF AccessMsr, Step
  <2> QED
    BY <2>2, <2>3
<1>8. CASE Wrmsr
  <2>1. Op.op = "wrmsr" /\ AccessMsr("wrmsr", "write", "WRMSR")
    BY <1>8 DEF Wrmsr, AccessMsr, Executes
  <2>2. CASE Intercepted("write", Op.msr)
    BY <1>3, <2>1, <2>2 DEF AccessMsr
  <2>3. CASE ~Intercepted("write", Op.msr)
    <3>1. out = IF Op.msr \in Absent THEN "except" ELSE "normal"
      BY <1>2, <2>1, <2>3, OutcomeIsNot
    <3> QED
      BY <1>4, <1>6, <2>1, <2>3, <3>1 DEF AccessMsr, Step
  <2> QED
    BY <2>2, <2>3
<1> QED
  BY <1>7, <1>8

\* The read of 0x12340000 sees the page of ept_num.
LEMMA EptReadMoved ==
  ASSUME NEW s, NEW t, At(s, t), EptRead
  PROVE  Moved(s, t) /\ Shape' /\ EptNow'
<1> USE DEF tables, msrs
<1> DEFINE hit == Cached(vmcs.eptp, "target")
           seen == IF hit # {} THEN (CHOOSE m \in hit : TRUE)[3]
                   ELSE ept[vmcs.eptp].target
<1>1. /\ mode = "guest" /\ intr = "none" /\ at <= Len(Code) /\ Op.op = "ept_read"
      /\ IF seen = 0
         THEN VmExit([reason |-> "EPT_VIOLATION"]) /\ UNCHANGED <<at, eax>>
         ELSE /\ eax' = seen
              /\ at' = at + 1 /\ mode' = "guest"
              /\ UNCHANGED <<opt, exit, vmx, vmcs, msrs, tables>>
      /\ UNCHANGED <<iter, eflags_if, pg, ebx, intr, vmxbit, override>>
  BY DEF EptRead, Executes, Running, Step
<1>2. /\ t = After(opt, Op, s) /\ Fits(s) /\ Shape /\ EptNow /\ IInv
      /\ s.ept = "idle" /\ opt.ept
  BY <1>1 DEF At, Here, May
<1>3. ept_num \in 0..(EptCount * EptSub - 1) /\ ept[vmcs.eptp].target = ept_num
  BY <1>1, <1>2 DEF IInv, Tables, EptNow
<1>4. seen = ept_num
  <2>1. \A m \in hit : m[3] = ept_num
    <3> SUFFICES ASSUME NEW m \in hit PROVE m[3] = ept_num
      OBVIOUS
    <3>1. m \in tlb /\ m[1] = vmcs.eptp /\ m[2] = "target"
      BY DEF Cached
    <3>2. m \in Mappings(vmcs.eptp)
      BY <1>2, <3>1 DEF IInv, CachedIsMapped
    <3> QED
      BY <1>3, <3>1, <3>2 DEF Mappings
  <2>2. hit # {} => (CHOOSE m \in hit : TRUE) \in hit
    OBVIOUS
  <2> QED
    BY <1>3, <2>1, <2>2
<1> HIDE DEF seen
<1>5. CASE ept_num = 0
  <2>1. VmExit([reason |-> "EPT_VIOLATION"]) /\ UNCHANGED <<at, eax>>
    BY <1>1, <1>4, <1>5
  <2>2. mode' = "exit" /\ opt' = opt /\ ept_num' = ept_num
        /\ exit' = [reason |-> "EPT_VIOLATION"]
    BY <2>1 DEF VmExit
  <2>3. Op' = Op /\ Len(Code)' = Len(Code)
    BY <1>1, <2>1, <2>2, SameOp
  <2>4. Exits(s)'
    BY <1>1, <1>5, <2>1, <2>2, <2>3 DEF Exits, ExitOf
  <2> QED
    BY <1>1, <2>1, <2>4, ExitMoved
<1>6. CASE ept_num # 0
  <2>1. /\ eax' = ept_num /\ at' = at + 1 /\ mode' = "guest"
        /\ UNCHANGED <<opt, exit, vmx, vmcs, msrs, tables>>
    BY <1>1, <1>4, <1>6
  <2>2. /\ t.handler = s.handler /\ t.lists = s.lists /\ t.bitmaps = s.bitmaps
        /\ t.bits = s.bits /\ t.off = s.off /\ t.pg = s.pg /\ t.ept = "read"
        /\ t.ebx = s.ebx /\ t.tsc = s.tsc /\ t.fs = s.fs /\ t.gs = s.gs
    BY <1>1, <1>2 DEF After
  <2>3. Registers(t)' /\ EptUse(t)'
    BY <1>1, <1>2, <1>6, <2>1, <2>2 DEF Fits, Registers, EptUse
  <2>4. Lists(t)' /\ ListsUsed(t)'
    BY <1>1, <1>2, <2>1, <2>2 DEF Fits, Lists, ListsUsed, Used, Saved, MsrLsEffects
  <2>5. Fits(t)'
    BY <2>3, <2>4 DEF Fits
  <2>6. eax' \in -1..(EptCount * EptSub - 1)
    <3> DEFINE k == EptCount * EptSub
    <3>1. k \in Int
      BY GuestAssumption
    <3>2. ept_num \in 0..(k - 1)
      BY <1>3
    <3> HIDE DEF k
    <3>3. ept_num \in -1..(k - 1)
      BY <3>1, <3>2
    <3> QED
      BY <2>1, <3>3 DEF k
  <2>7. Shape' /\ EptNow'
    BY <1>1, <1>2, <2>1, <2>6 DEF Shape, EptNow
  <2> QED
    BY <1>1, <2>1, <2>5, <2>7, Behind DEF Moved
<1> QED
  BY <1>5, <1>6

\* A timer interrupt: it comes only where it does no harm.
LEMMA GuestInterruptMoved ==
  ASSUME NEW s, NEW t, At(s, t), GuestInterrupt
  PROVE  Moved(s, t) /\ Shape' /\ EptNow'
<1> USE DEF tables, msrs, reg
<1>1. /\ mode = "guest" /\ intr = "none" /\ eflags_if
      /\ intr' = "int_enter" /\ mode' = IF pg THEN "guest" ELSE "failed"
      /\ at' = IF Executes("hlt") THEN at + 1 ELSE at
      /\ UNCHANGED <<opt, exit, vmx, vmcs, iter, eflags_if, pg, reg, vmxbit,
                     override, msrs, tables>>
  BY DEF GuestInterrupt, Running
<1>2. s \in Points /\ Fits(s) /\ Registers(s) /\ Shape /\ EptNow
  BY DEF At, Here, Fits
<1>3. s.pg /\ s.fs = "0" /\ s.gs = "0"
  BY <1>1, <1>2 DEF Points, Registers
<1>4. mode' = "guest"
  BY <1>1, <1>2, <1>3 DEF Registers
<1>5. Fits(s)'
  BY <1>1, <1>2, <1>4, FitsKept
<1>6. Shape' /\ EptNow'
  BY <1>1, <1>2, <1>4 DEF Shape, EptNow
<1>7. CASE ~Executes("hlt")
  <2>1. Interrupted(s)' /\ Exits(s)'
    BY <1>1, <1>3, <1>4 DEF Interrupted, Exits, InIntr, InGp
  <2> QED
    BY <1>1, <1>5, <1>6, <1>7, <2>1 DEF Moved, Here
<1>8. CASE Executes("hlt")
  <2>1. at <= Len(Code) /\ Op.op = "hlt"
    BY <1>8 DEF Executes
  <2>2. t = After(opt, Op, s)
    BY <2>1 DEF At
  <2>3. Same(s, t) /\ t.ebx = s.ebx
    BY <2>1, <2>2, AfterFields
  <2>4. Fits(t)'
    <3>1. Fits(t)
      BY <1>2, <2>3, FitsSame
    <3> QED
      BY <1>1, <1>4, <3>1, FitsKept
  <2>5. Interrupted(t)' /\ Exits(t)'
    BY <1>1, <1>3, <1>4, <2>3 DEF Interrupted, Exits, InIntr, InGp, Same
  <2> QED
    BY <1>1, <1>6, <1>8, <2>1, <2>4, <2>5 DEF Moved, Here
<1> QED
  BY <1>7, <1>8

\* The handlers of interrupts and #GP, up to their end.
LEMMA IdtMoved ==
  ASSUME NEW s, NEW t, At(s, t), IdtStub \/ IdtRdmsr \/ IdtCpuid
  PROVE  Moved(s, t) /\ Shape' /\ EptNow'
<1> USE DEF tables, msrs, reg, guest
<1>1. mode = "guest" /\ UNCHANGED <<iter, at, eflags_if, pg, reg, vmxbit, override>>
  BY DEF IdtStub, IdtRdmsr, IdtCpuid
<1>2. /\ s \in Points /\ Fits(s) /\ Interrupted(s) /\ Registers(s) /\ Shape /\ EptNow
  BY DEF At, Here, Fits
<1>3. /\ intr \in {"int_enter", "int_rdmsr", "int_x2apic", "int_cpuid",
                   "gp_enter", "gp_rdmsr", "gp_x2apic", "gp_cpuid"}
      /\ intr \in InIntr \cup InGp
  BY DEF IdtStub, IdtRdmsr, IdtCpuid, HandlerRead, InIntr, InGp
<1>4. s.pg /\ s.fs = "0" /\ s.gs = "0"
  BY <1>2, <1>3 DEF Interrupted, InIntr, InGp
<1>5. ASSUME intr' = Handler[intr], intr \notin {"int_cpuid", "gp_cpuid"},
             UNCHANGED <<opt, mode, msrs, tables>>,
             vmcs' \in Fields, vmcs'.fs = vmcs.fs, vmcs'.gs = vmcs.gs,
             vmcs'.bitmaps = vmcs.bitmaps, vmcs'.eptp = vmcs.eptp,
             vmcs'.store = vmcs.store, vmcs'.load = vmcs.load,
             vmcs'.entry = vmcs.entry
      PROVE  Moved(s, t) /\ Shape' /\ EptNow'
  <2>1. Op' = Op /\ Len(Code)' = Len(Code)
    BY <1>1, <1>5, SameOp
  <2>2. Registers(s)'
    BY <1>1, <1>2, <1>5 DEF Registers
  <2>3. Fits(s)'
    BY <1>1, <1>2, <1>5, <2>2, FitsRegisters
  <2>4. /\ intr \in InGp => intr' \in {"gp_rdmsr", "gp_x2apic", "gp_cpuid"}
        /\ intr \in InIntr => intr' \in {"int_rdmsr", "int_x2apic", "int_cpuid"}
    BY <1>3, <1>5 DEF Handler, InGp, InIntr
  <2>5. Interrupted(s)'
    BY <1>1, <1>2, <1>3, <1>4, <1>5, <2>1, <2>4 DEF Interrupted, InGp, InIntr
  <2>6. Exits(s)'
    BY <1>1, <1>5 DEF Exits
  <2>7. Shape' /\ EptNow'
    BY <1>1, <1>2, <1>5 DEF Shape, EptNow
  <2> QED
    BY <1>1, <1>5, <2>3, <2>5, <2>6, <2>7 DEF Moved, Here
<1>6. CASE IdtStub
  <2>1. /\ intr' = Handler[intr] /\ intr \notin {"int_cpuid", "gp_cpuid"}
        /\ vmcs' = [vmcs EXCEPT !.fs = "0", !.gs = "0"]
        /\ UNCHANGED <<opt, mode, msrs, tables>>
    BY <1>6 DEF IdtStub
  <2>2. vmcs \in Fields /\ vmcs.fs = "0" /\ vmcs.gs = "0"
    BY <1>2, <1>4 DEF Shape, Registers
  <2>3. /\ vmcs' \in Fields /\ vmcs'.fs = vmcs.fs /\ vmcs'.gs = vmcs.gs
        /\ vmcs'.bitmaps = vmcs.bitmaps /\ vmcs'.eptp = vmcs.eptp
        /\ vmcs'.store = vmcs.store /\ vmcs'.load = vmcs.load
        /\ vmcs'.entry = vmcs.entry
    BY <2>1, <2>2 DEF Fields, Bases
  <2> QED
    BY <1>5, <2>1, <2>3
<1>7. ASSUME NEW e, VmExit(e), intr' = intr,
             \/ /\ intr \in DOMAIN HandlerRead
                /\ e = [reason |-> "RDMSR", msr |-> HandlerRead[intr], ebx |-> "any"]
             \/ /\ intr \in {"int_cpuid", "gp_cpuid"}
                /\ e = [reason |-> "CPUID", eax |-> "1"]
      PROVE  Moved(s, t) /\ Shape' /\ EptNow'
  <2>1. mode' = "exit" /\ exit' = e
    BY <1>7 DEF VmExit
  <2>2. Exits(s)'
    BY <1>3, <1>7, <2>1 DEF Exits
  <2> QED
    BY <1>1, <1>7, <2>2, ExitMoved
<1>8. CASE IdtRdmsr
  <2>1. intr \in DOMAIN HandlerRead
    BY <1>8 DEF IdtRdmsr
  <2>2. CASE /\ intr' = Handler[intr]
             /\ UNCHANGED <<opt, mode, exit, vmx, vmcs, msrs, tables>>
    <3>1. intr \notin {"int_cpuid", "gp_cpuid"} /\ vmcs \in Fields
      BY <1>2, <2>1 DEF HandlerRead, Shape
    <3> QED
      BY <1>5, <2>2, <3>1
  <2>3. CASE /\ VmExit([reason |-> "RDMSR", msr |-> HandlerRead[intr], ebx |-> "any"])
             /\ UNCHANGED intr
    BY <1>7, <2>1, <2>3
  <2> QED
    BY <1>8, <2>2, <2>3 DEF IdtRdmsr
<1>9. CASE IdtCpuid
  BY <1>7, <1>9 DEF IdtCpuid
<1> QED
  BY <1>6, <1>8, <1>9

\* IRET: back to where the interrupt hit; behind the access for #GP.
LEMMA IdtEndMoved ==
  ASSUME NEW s, NEW t, At(s, t), IdtEnd
  PROVE  Moved(s, t) /\ Shape' /\ EptNow'
<1> USE DEF tables, msrs, reg
<1>1. /\ mode = "guest" /\ intr \in {"int_end", "gp_end"} /\ intr' = "none"
      /\ mode' = (IF vmxbit THEN "failed" ELSE "guest") /\ at' = Return
      /\ ebx' = (IF intr = "gp_end" THEN "except" ELSE ebx)
      /\ UNCHANGED <<opt, exit, vmx, vmcs, iter, eflags_if, pg, eax, vmxbit,
                     override, msrs, tables>>
  BY DEF IdtEnd
<1>2. /\ s \in Points /\ Fits(s) /\ Interrupted(s) /\ Registers(s) /\ Shape /\ EptNow
  BY DEF At, Here, Fits
<1>3. mode' = "guest"
  BY <1>1, <1>2 DEF Interrupted
<1>4. Shape' /\ EptNow'
  BY <1>1, <1>2, <1>3 DEF Shape, EptNow
<1>5. CASE intr = "int_end"
  <2>1. at' = at /\ ebx' = ebx
    BY <1>1, <1>5 DEF Return
  <2>2. Fits(s)'
    BY <1>1, <1>2, <1>3, <2>1, FitsKept
  <2> QED
    BY <1>1, <1>3, <1>4, <2>1, <2>2, Behind DEF Moved
<1>6. CASE intr = "gp_end"
  <2>1. /\ at' = at + 1 /\ ebx' = "except" /\ at <= Len(Code)
        /\ Op.op \in {"rdmsr", "wrmsr"} /\ Outcome(s, Op) = "except"
    BY <1>1, <1>2, <1>6 DEF Return, Interrupted, InGp
  <2>2. t = After(opt, Op, s)
    BY <2>1 DEF At
  <2>3. Same(s, t) /\ (t.ebx = "any" \/ t.ebx = "except")
    BY <2>1, <2>2, AfterFields
  <2>4. Registers(t)'
    BY <1>1, <1>2, <2>1, <2>3 DEF Registers, Same
  <2>5. Fits(t)'
    BY <1>1, <1>2, <1>3, <2>3, <2>4, FitsRegisters DEF Same
  <2> QED
    BY <1>1, <1>3, <1>4, <2>1, <2>5, Behind DEF Moved
<1> QED
  BY <1>1, <1>5, <1>6

----------------------------------------------------------------------------
(* The host. *)

\* shv_vmx_main comes to its VMLAUNCH with an empty VMCS.
LEMMA ShvVmxMainMoved ==
  ASSUME NEW s, NEW t, At(s, t), ShvVmxMain
  PROVE  Moved(s, t) /\ Shape' /\ EptNow'
<1> USE DEF guest, msrs, reg
<1>1. /\ mode = "start"
      /\ vmcs' = [eptp |-> 0, vpid |-> IF opt.vpid THEN 1 ELSE 0,
                  bitmaps |-> FALSE, store |-> 0, load |-> 0, entry |-> 0,
                  fs |-> "0", gs |-> "0"]
      /\ IF opt.ept THEN shv_build_ept(0) ELSE UNCHANGED <<ept, tlb>>
      /\ UNCHANGED <<opt, guest, msrs, ept_num, ept_exit_count>>
  BY DEF ShvVmxMain, shv_vmx_vmcs_init
<1>2. s \in Points /\ Fits(s) /\ Interrupted(s) /\ Shape /\ IInv
  BY DEF At, Here
<1>3. mode' = "entry"
  BY <1>2, ShvVmxMainEnters
<1>4. /\ ept_num = 0 /\ ~vmcs.bitmaps /\ vmcs.fs = "0" /\ vmcs.gs = "0"
      /\ vmcs.store = 0 /\ vmcs.load = 0 /\ vmcs.entry = 0 /\ vmcs.bitmaps \in BOOLEAN
  BY <1>1, <1>2 DEF Shape, Fields
<1>5. vmcs' \in Fields
  <2>1. 0 \in Epts /\ 0 \in 0..(VpidCount - 1) /\ 1 \in 0..(VpidCount - 1)
    BY GuestAssumption DEF Epts
  <2> QED
    BY <1>1, <2>1 DEF Fields, Bases
<1>6. /\ vmcs'.eptp = 0 /\ vmcs'.bitmaps = vmcs.bitmaps /\ vmcs'.fs = vmcs.fs
      /\ vmcs'.gs = vmcs.gs /\ vmcs'.store = vmcs.store /\ vmcs'.load = vmcs.load
      /\ vmcs'.entry = vmcs.entry
  BY <1>1, <1>4
<1>7. Registers(s)'
  BY <1>1, <1>2, <1>6 DEF Fits, Registers
<1>8. Fits(s)'
  BY <1>1, <1>2, <1>3, <1>6, <1>7, FitsRegisters
<1>9. Interrupted(s)' /\ Exits(s)'
  <2>1. Op' = Op /\ Len(Code)' = Len(Code)
    BY <1>1, SameOp
  <2> QED
    BY <1>1, <1>2, <1>3, <2>1 DEF Interrupted, Exits
<1>10. Shape'
  BY <1>1, <1>2, <1>3, <1>5 DEF Shape
<1>11. EptNow'
  <2> SUFFICES ASSUME opt.ept PROVE EptNow'
    BY <1>1 DEF EptNow
  <2>1. EptOf(0) = 0 /\ 0 \in Epts
    BY GuestAssumption DEF EptOf, Epts
  <2>2. ept' = [ept EXCEPT ![0] = [valid |-> TRUE, target |-> 0,
                  large |-> IF opt.large THEN "swapped" ELSE "same"]]
    BY <1>1, <2>1 DEF shv_build_ept
  <2>3. /\ ept'[0].target = 0
        /\ ept'[0].large = IF opt.large THEN "swapped" ELSE "same"
    BY <1>2, <2>1, <2>2 DEF IInv, Tables
  <2> QED
    BY <1>1, <1>4, <1>6, <2>1, <2>3 DEF EptNow
<1> QED
  BY <1>1, <1>8, <1>9, <1>10, <1>11 DEF Moved, Here

\* A handler that a test has installed only takes exits of that test.
LEMMA Handled ==
  ASSUME NEW s, NEW t, At(s, t), NEW h, Handles(h)
  PROVE  /\ mode = "exit" /\ intr = "none" /\ at <= Len(Code)
         /\ s.handler = h /\ ExitOf(s) /\ s \in Points /\ Fits(s) /\ Registers(s)
         /\ IInv /\ Shape /\ EptNow
         /\ Op \in Ops /\ May(opt, Op, s) /\ t \in Points /\ t = After(opt, Op, s)
<1>1. /\ mode = "exit" /\ override = h /\ Takes(h, exit)
      /\ s \in Points /\ Fits(s) /\ Registers(s) /\ Interrupted(s) /\ Exits(s)
      /\ IInv /\ Shape /\ EptNow
  BY DEF Handles, At, Here, Fits
<1>2. s.handler = h
  BY <1>1 DEF Registers
<1>3. intr = "none"
  <2> SUFFICES ASSUME intr # "none" PROVE ~Takes(h, exit)
    BY <1>1
  <2>1. CASE /\ intr \in DOMAIN HandlerRead
             /\ exit = [reason |-> "RDMSR", msr |-> HandlerRead[intr], ebx |-> "any"]
    <3>1. HandlerRead[intr] \in {"APIC_BASE", "X2APIC_APICID"}
      BY <2>1 DEF HandlerRead
    <3>2. exit.reason = "RDMSR" /\ exit.msr \in {"APIC_BASE", "X2APIC_APICID"}
      BY <2>1, <3>1
    <3> QED
      BY <3>2 DEF Takes
  <2>2. CASE exit = [reason |-> "CPUID", eax |-> "1"]
    <3>1. exit.reason = "CPUID"
      BY <2>2
    <3> QED
      BY <3>1 DEF Takes
  <2> QED
    BY <1>1, <2>1, <2>2 DEF Exits
<1>4. at <= Len(Code) /\ ExitOf(s)
  BY <1>1, <1>3 DEF Exits
<1> QED
  BY <1>1, <1>2, <1>3, <1>4 DEF At

\* The VMCALL is one that the handler expects.
LEMMA HandledCall ==
  ASSUME NEW s, NEW t, At(s, t), NEW h, Handles(h), exit.reason = "VMCALL"
  PROVE  /\ Op.op = "vmcall" /\ exit.eax = Op.eax /\ exit.ebx = Op.ebx
         /\ MayCall(opt, Op, s) /\ Op.ebx \in Nat
<1>1. ExitOf(s) /\ May(opt, Op, s) /\ Op \in Ops
  BY Handled
<1>2. /\ Op.op = "vmcall"
      /\ exit = [reason |-> "VMCALL", eax |-> Op.eax, ebx |-> Op.ebx]
  BY <1>1 DEF ExitOf
<1> QED
  BY <1>1, <1>2 DEF May, Ops

\* Most VMCALLs change nothing that is known.
LEMMA AfterCallSame ==
  ASSUME NEW o, NEW op, NEW s, op.op = "vmcall", op.eax \in {17, 19, 22, 25}
  PROVE  Same(s, After(o, op, s)) /\ After(o, op, s).ebx = s.ebx
<1>1. /\ op.eax # 12 /\ op.eax # 16 /\ op.eax # 34 /\ op.eax # 37
      /\ op.eax # 38 /\ op.eax # 39 /\ op.eax # 41 /\ op.eax # 42
  OBVIOUS
<1> DEFINE t == After(o, op, s)
<1>2. t.lists = s.lists /\ t.bitmaps = s.bitmaps /\ t.bits = s.bits /\ t.tsc = s.tsc
  BY <1>1 DEF After
<1>3. t.off = s.off /\ t.fs = s.fs /\ t.gs = s.gs
  BY <1>1 DEF After
<1>4. t.handler = s.handler /\ t.ebx = s.ebx /\ t.pg = s.pg /\ t.ept = s.ept
  BY <1>1 DEF After
<1> HIDE DEF t
<1>5. Same(s, t) /\ t.ebx = s.ebx
  BY <1>2, <1>3, <1>4 DEF Same
<1> QED
  BY <1>5 DEF t

\* The guest goes on behind the operation that exited.
LEMMA ResumeMoved ==
  ASSUME NEW s, NEW t, intr = "none", at <= Len(Code), mode' = "entry", NextRip,
         UNCHANGED <<opt, iter>>, Fits(t)'
  PROVE  Moved(s, t)
<1>1. at' = at + 1 /\ intr' = "none"
  BY DEF NextRip
<1> QED
  BY <1>1, Behind DEF Moved

\* What the end of a handler leaves as it is.
LEMMA ResumeSame ==
  ASSUME NEW ok \in BOOLEAN, ok, Resume(ok)
  PROVE  /\ mode' = "entry" /\ NextRip
         /\ UNCHANGED <<opt, iter, eflags_if, pg, override>>
BY DEF Resume

\* vmexit_handler itself: it gets the exits of interrupt handlers, and of the
\* guest only those it knows.
LEMMA DefaultHandlerMoved ==
  ASSUME NEW s, NEW t, At(s, t), DefaultHandler
  PROVE  Moved(s, t) /\ Shape' /\ EptNow'
<1> USE DEF tables, msrs, reg
<1>1. /\ mode = "exit" /\ ~Takes(override, exit)
      /\ Resume(exit.reason \in {"CPUID", "RDMSR"})
      /\ vmxbit' = IF exit.reason = "CPUID" /\ exit.eax = "1" THEN FALSE ELSE vmxbit
      /\ UNCHANGED <<vmx, vmcs, reg, msrs, tables>>
  BY DEF DefaultHandler
<1>2. /\ s \in Points /\ Fits(s) /\ Registers(s) /\ Interrupted(s) /\ Exits(s)
      /\ Shape /\ EptNow
  BY DEF At, Here, Fits
<1>3. vmxbit' \in BOOLEAN
  BY <1>1, <1>2 DEF Shape
<1>4. CASE intr # "none"
  <2>1. \/ /\ intr \in DOMAIN HandlerRead
           /\ exit = [reason |-> "RDMSR", msr |-> HandlerRead[intr], ebx |-> "any"]
        \/ /\ intr \in {"int_cpuid", "gp_cpuid"}
           /\ exit = [reason |-> "CPUID", eax |-> "1"]
    BY <1>1, <1>2, <1>4 DEF Exits
  <2>2. /\ exit.reason \in {"CPUID", "RDMSR"}
        /\ intr \in {"int_cpuid", "gp_cpuid"} => vmxbit' = FALSE
    BY <1>1, <2>1 DEF HandlerRead
  <2>3. /\ mode' = "entry" /\ NextRip
        /\ UNCHANGED <<opt, iter, eflags_if, pg, override>>
    BY <1>1, <2>2, ResumeSame
  <2>4. at' = at /\ intr' = Handler[intr]
    BY <1>4, <2>3 DEF NextRip
  <2>5. /\ intr \in {"int_rdmsr", "int_x2apic", "int_cpuid",
                     "gp_rdmsr", "gp_x2apic", "gp_cpuid"}
    BY <2>1 DEF HandlerRead
  <2>6. /\ intr' \in InGp => intr \in InGp
        /\ intr' \in InIntr \cup InGp
        /\ intr' \in {"int_end", "gp_end"} => intr \in {"int_cpuid", "gp_cpuid"}
    BY <2>4, <2>5 DEF Handler, InGp, InIntr
  <2>7. Op' = Op /\ Len(Code)' = Len(Code)
    BY <2>3, <2>4, SameOp
  <2>8. Interrupted(s)'
    BY <1>2, <1>4, <2>2, <2>3, <2>4, <2>6, <2>7 DEF Interrupted
  <2>9. Exits(s)'
    BY <2>3 DEF Exits
  <2>10. Fits(s)'
    BY <1>1, <1>2, <2>3, FitsKept
  <2>11. Shape' /\ EptNow'
    BY <1>1, <1>2, <1>3, <2>3 DEF Shape, EptNow
  <2> QED
    BY <2>3, <2>4, <2>8, <2>9, <2>10, <2>11 DEF Moved, Here
<1>5. CASE intr = "none"
  <2>1. at <= Len(Code) /\ ExitOf(s)
    BY <1>1, <1>2, <1>5 DEF Exits
  <2>2. Op \in Ops /\ May(opt, Op, s) /\ t = After(opt, Op, s) /\ override = s.handler
    BY <1>2, <2>1 DEF At, Registers
  <2>3. /\ Op.op \in {"cpuid", "rdmsr"} /\ exit.reason \in {"CPUID", "RDMSR"}
        /\ Op.op = "rdmsr" => s.handler # "msr_bitmap"
    <3>1. CASE Op.op = "vmcall"
      <4>1. exit.reason = "VMCALL"
        BY <2>1, <3>1 DEF ExitOf
      <4>2. s.handler \notin {"NULL", "ept"}
        BY <2>2, <3>1 DEF May, MayCall
      <4> QED
        BY <1>1, <2>2, <4>1, <4>2 DEF Takes
    <3>2. CASE Op.op = "cpuid"
      BY <2>1, <3>2 DEF ExitOf
    <3>3. CASE Op.op \in {"rdmsr", "wrmsr"}
      <4>1. MayAccess(Op, s)
        BY <2>2, <3>3 DEF May
      <4>2. CASE s.handler = "msr_bitmap"
        <5>1. Op.msr \notin {"APIC_BASE", "X2APIC_APICID"}
          BY <4>1, <4>2 DEF MayAccess, Absent
        <5>2. exit.reason \in {"RDMSR", "WRMSR"} /\ exit.msr = Op.msr
          BY <2>1, <3>3 DEF ExitOf
        <5> QED
          BY <1>1, <2>2, <4>2, <5>1, <5>2 DEF Takes
      <4>3. CASE s.handler # "msr_bitmap"
        <5>1. Op.op = "rdmsr"
          BY <4>1, <4>3 DEF MayAccess
        <5>2. exit.reason = "RDMSR"
          BY <2>1, <5>1 DEF ExitOf
        <5> QED
          BY <4>3, <5>1, <5>2
      <4> QED
        BY <4>2, <4>3
    <3>4. CASE Op.op = "ept_read"
      <4>1. exit.reason = "EPT_VIOLATION" /\ s.handler = "ept"
        BY <2>1, <2>2, <3>4 DEF ExitOf, May
      <4> QED
        BY <1>1, <2>2, <4>1 DEF Takes
    <3> QED
      BY <2>1, <3>1, <3>2, <3>3, <3>4 DEF ExitOf
  <2>4. /\ mode' = "entry" /\ NextRip
        /\ UNCHANGED <<opt, iter, eflags_if, pg, override>>
    BY <1>1, <2>3, ResumeSame
  <2>5. Same(s, t) /\ (t.ebx = s.ebx \/ t.ebx = "any")
    BY <2>2, <2>3, AfterFields
  <2>6. Fits(t)
    BY <1>2, <2>5, FitsSame
  <2>7. Fits(t)'
    BY <1>1, <2>4, <2>6, FitsKept
  <2>8. Shape' /\ EptNow'
    BY <1>1, <1>2, <1>3, <2>4 DEF Shape, EptNow
  <2> QED
    BY <1>5, <2>1, <2>4, <2>7, <2>8, ResumeMoved
<1> QED
  BY <1>4, <1>5

\* An EPT violation: the read is skipped and FEE1C0DE is its result.
LEMMA EptViolationMoved ==
  ASSUME NEW s, NEW t, At(s, t), EptViolation
  PROVE  Moved(s, t) /\ Shape' /\ EptNow'
<1> USE DEF msrs
<1>1. /\ Handles("ept") /\ Resume(TRUE)
      /\ eax' = FEE1C0DE /\ ept_exit_count' = ept_exit_count + 1
      /\ UNCHANGED <<vmx, vmcs, ebx, vmxbit, msrs, ept, ept_num, tlb>>
  BY DEF EptViolation
<1>2. /\ mode = "exit" /\ intr = "none" /\ at <= Len(Code) /\ ExitOf(s) /\ Fits(s)
      /\ Registers(s) /\ Shape /\ EptNow /\ May(opt, Op, s) /\ t = After(opt, Op, s)
  BY <1>1, Handled
<1>3. /\ mode' = "entry" /\ NextRip
      /\ UNCHANGED <<opt, iter, eflags_if, pg, override>>
  BY <1>1, ResumeSame
<1>4. Op.op = "ept_read" /\ ept_num = 0
  <2>1. exit.reason = "EPT_VIOLATION"
    BY <1>1 DEF Handles, Takes
  <2> QED
    BY <1>2, <2>1 DEF ExitOf
<1>5. s.ept = "idle"
  BY <1>2, <1>4 DEF May
<1>6. /\ t.handler = s.handler /\ t.lists = s.lists /\ t.bitmaps = s.bitmaps
      /\ t.bits = s.bits /\ t.off = s.off /\ t.pg = s.pg /\ t.ept = "read"
      /\ t.ebx = s.ebx /\ t.tsc = s.tsc /\ t.fs = s.fs /\ t.gs = s.gs
  BY <1>2, <1>4 DEF After
<1>7. Registers(t)' /\ EptUse(t)'
  BY <1>1, <1>2, <1>3, <1>4, <1>5, <1>6 DEF Fits, Registers, EptUse
<1>8. Lists(t)' /\ ListsUsed(t)'
  BY <1>1, <1>2, <1>3, <1>6 DEF Fits, Lists, ListsUsed, Used, Saved
<1>9. Fits(t)'
  BY <1>7, <1>8 DEF Fits
<1>10. eax' \in -1..(EptCount * EptSub - 1)
  <2> DEFINE k == EptCount * EptSub
  <2>1. k \in Nat \ {0}
    BY GuestAssumption
  <2> HIDE DEF k
  <2>2. -1 \in -1..(k - 1)
    BY <2>1
  <2> QED
    BY <1>1, <2>2 DEF k, FEE1C0DE
<1>11. Shape' /\ EptNow'
  BY <1>1, <1>2, <1>3, <1>10 DEF Shape, EptNow
<1> QED
  BY <1>2, <1>3, <1>9, <1>11, ResumeMoved

\* The next EPT maps what the test expects.
LEMMA SwitchEptMoved ==
  ASSUME NEW s, NEW t, At(s, t), SwitchEpt
  PROVE  Moved(s, t) /\ Shape' /\ EptNow'
<1> USE DEF msrs, reg
<1> DEFINE n == (ept_num + 1) % (EptCount * EptSub)
<1>1. /\ Handles("switch_ept") /\ Resume(exit.eax = 17)
      /\ ept_num' = n /\ shv_build_ept(n)
      /\ vmcs' = [vmcs EXCEPT !.eptp = EptOf(n)]
      /\ UNCHANGED <<vmx, reg, vmxbit, msrs, ept_exit_count>>
  BY DEF SwitchEpt
<1>2. /\ mode = "exit" /\ intr = "none" /\ at <= Len(Code) /\ s.handler = "switch_ept"
      /\ Fits(s) /\ Registers(s) /\ IInv /\ Shape /\ EptNow /\ t = After(opt, Op, s)
  BY <1>1, Handled
<1>3. exit.reason = "VMCALL"
  BY <1>1 DEF Handles, Takes
<1>4. /\ Op.op = "vmcall" /\ Op.eax = 17 /\ exit.eax = 17 /\ s.ept = "idle" /\ opt.ept
  <2>1. Op.op = "vmcall" /\ exit.eax = Op.eax /\ MayCall(opt, Op, s)
    BY <1>1, <1>3, HandledCall
  <2> QED
    BY <1>2, <2>1 DEF MayCall
<1>5. /\ mode' = "entry" /\ NextRip
      /\ UNCHANGED <<opt, iter, eflags_if, pg, override>>
  BY <1>1, <1>4, ResumeSame
<1>6. Same(s, t) /\ t.ebx = s.ebx
  BY <1>2, <1>4, AfterCallSame
<1>7. n \in 0..(EptCount * EptSub - 1)
  BY <1>2, NextEptNum DEF IInv, Tables
<1> HIDE DEF n
<1>8. EptOf(n) \in Epts
  BY <1>7, EptExists
<1>9. vmcs \in Fields
  BY <1>2 DEF Shape
<1>10. /\ vmcs' \in Fields
       /\ vmcs'.eptp = EptOf(n) /\ vmcs'.bitmaps = vmcs.bitmaps
       /\ vmcs'.fs = vmcs.fs /\ vmcs'.gs = vmcs.gs /\ vmcs'.store = vmcs.store
       /\ vmcs'.load = vmcs.load /\ vmcs'.entry = vmcs.entry
  BY <1>1, <1>8, <1>9 DEF Fields
<1>11. bitmap' = bitmap /\ msr' = msr /\ ebx' = ebx /\ old_vals' = old_vals
  BY <1>1
<1>12. Registers(t)' /\ EptUse(t)'
  BY <1>1, <1>2, <1>4, <1>5, <1>6, <1>10, <1>11 DEF Fits, Registers, EptUse, Same
<1>13. Lists(t)' /\ ListsUsed(t)'
  BY <1>2, <1>5, <1>6, <1>10, <1>11 DEF Fits, Lists, ListsUsed, Used, Saved, Same
<1>14. Fits(t)'
  BY <1>12, <1>13 DEF Fits
<1>15. Shape'
  BY <1>1, <1>2, <1>5, <1>10 DEF Shape
<1>16. EptNow'
  <2> DEFINE e == [valid |-> TRUE, target |-> n,
                   large |-> IF opt.large THEN "swapped" ELSE "same"]
  <2>1. ept' = [ept EXCEPT ![EptOf(n)] = e]
    BY <1>1 DEF shv_build_ept
  <2>2. e.target = n /\ e.large = IF opt.large THEN "swapped" ELSE "same"
    OBVIOUS
  <2> HIDE DEF e
  <2>3. ept'[EptOf(n)] = e
    BY <1>2, <1>8, <2>1 DEF IInv, Tables
  <2>4. EptOf(ept_num)' = EptOf(n)
    BY <1>1 DEF EptOf
  <2> QED
    BY <1>1, <1>5, <1>10, <2>2, <2>3, <2>4 DEF EptNow
<1> QED
  BY <1>2, <1>5, <1>14, <1>15, <1>16, ResumeMoved

\* Handlers of VMCALLs that leave all that is known as it is.
LEMMA KeptMoved ==
  ASSUME NEW s, NEW t, intr = "none", at <= Len(Code), mode' = "entry", NextRip,
         UNCHANGED <<opt, iter, override, pg, eflags_if, ebx, eax, vmcs, bitmap, msr,
                     old_vals, stored, vmxbit, ept_num, ept_exit_count, ept>>,
         mode # "start",
         Fits(s), Shape, EptNow, Same(s, t), t.ebx = s.ebx \/ t.ebx = "any"
  PROVE  Moved(s, t) /\ Shape' /\ EptNow'
<1>1. Fits(t)'
  BY FitsSame, FitsKept
<1>2. Shape' /\ EptNow'
  BY DEF Shape, EptNow
<1> QED
  BY <1>1, <1>2, ResumeMoved

\* The VPID test, which finds an odd VPID.
LEMMA TestVpidMoved ==
  ASSUME NEW s, NEW t, At(s, t), TestVpid
  PROVE  Moved(s, t) /\ Shape' /\ EptNow'
<1> USE DEF tables, msrs, reg
<1>1. /\ Handles("vpid") /\ Resume(exit.eax = 19 /\ vmcs.vpid % 2 = 1)
      /\ vmcs' = [vmcs EXCEPT !.vpid = NextVpid]
      /\ UNCHANGED <<vmx, reg, vmxbit, msrs, tables>>
  BY DEF TestVpid
<1>2. /\ mode = "exit" /\ intr = "none" /\ at <= Len(Code) /\ s.handler = "vpid"
      /\ Fits(s) /\ Registers(s) /\ IInv /\ Shape /\ EptNow /\ t = After(opt, Op, s)
  BY <1>1, Handled
<1>3. exit.reason = "VMCALL"
  BY <1>1 DEF Handles, Takes
<1>4. Op.op = "vmcall" /\ Op.eax = 19 /\ exit.eax = 19 /\ opt.vpid
  <2>1. Op.op = "vmcall" /\ exit.eax = Op.eax /\ MayCall(opt, Op, s)
    BY <1>1, <1>3, HandledCall
  <2> QED
    BY <1>2, <2>1 DEF MayCall
<1>5. vmcs.vpid \in 0..(VpidCount - 1) /\ vmcs.vpid % 2 = 1
  BY <1>2, <1>4 DEF IInv, OddVpid
<1>6. /\ mode' = "entry" /\ NextRip
      /\ UNCHANGED <<opt, iter, eflags_if, pg, override>>
  BY <1>1, <1>4, <1>5, ResumeSame
<1>7. Same(s, t) /\ t.ebx = s.ebx
  BY <1>2, <1>4, AfterCallSame
<1>8. NextVpid \in 0..(VpidCount - 1)
  BY <1>5, NextVpidOdd DEF NextVpid
<1>9. vmcs \in Fields
  BY <1>2 DEF Shape
<1>10. /\ vmcs' \in Fields
       /\ vmcs'.eptp = vmcs.eptp /\ vmcs'.bitmaps = vmcs.bitmaps
       /\ vmcs'.fs = vmcs.fs /\ vmcs'.gs = vmcs.gs /\ vmcs'.store = vmcs.store
       /\ vmcs'.load = vmcs.load /\ vmcs'.entry = vmcs.entry
  BY <1>1, <1>8, <1>9 DEF Fields
<1>11. Registers(t)'
  BY <1>1, <1>2, <1>6, <1>7, <1>10 DEF Registers, Same
<1>12. Fits(t)'
  BY <1>1, <1>2, <1>6, <1>7, <1>10, <1>11, FitsRegisters DEF Same
<1>13. Shape' /\ EptNow'
  BY <1>1, <1>2, <1>6, <1>10 DEF Shape, EptNow
<1> QED
  BY <1>2, <1>6, <1>12, <1>13, ResumeMoved

\* The VMXOFF test.
LEMMA TestVmxoffMoved ==
  ASSUME NEW s, NEW t, At(s, t), TestVmxoff
  PROVE  Moved(s, t) /\ Shape' /\ EptNow'
<1> USE DEF tables, msrs, reg
<1>1. /\ Handles("vmxoff") /\ NextRip
      /\ UNCHANGED <<opt, iter, eflags_if, pg, override, vmcs, reg, vmxbit, msrs, tables>>
  BY DEF TestVmxoff
<1>2. /\ mode = "exit" /\ intr = "none" /\ at <= Len(Code) /\ s.handler = "vmxoff"
      /\ Fits(s) /\ IInv /\ Shape /\ EptNow /\ t = After(opt, Op, s)
  BY <1>1, Handled
<1>3. exit.reason = "VMCALL"
  BY <1>1 DEF Handles, Takes
<1>4. Op.op = "vmcall" /\ Op.eax = 22 /\ exit.eax = 22
  <2>1. Op.op = "vmcall" /\ exit.eax = Op.eax /\ MayCall(opt, Op, s)
    BY <1>1, <1>3, HandledCall
  <2> QED
    BY <1>2, <2>1 DEF MayCall
<1>5. mode' = "entry"
  BY <1>2, <1>4, TestVmxoffFacts
<1>6. Same(s, t) /\ t.ebx = s.ebx
  BY <1>2, <1>4, AfterCallSame
<1> QED
  BY <1>1, <1>2, <1>5, <1>6, KeptMoved

\* The wait for an interrupt in the host.
LEMMA WaitMoved ==
  ASSUME NEW s, NEW t, At(s, t), WaitInt \/ WaitNothing \/ HostInterrupt
  PROVE  Moved(s, t) /\ Shape' /\ EptNow'
<1> USE DEF tables, msrs, reg, guest
<1>1. CASE WaitInt
  <2>1. /\ Handles("wait_int") /\ mode' = "wait" /\ exit.eax = 25
        /\ UNCHANGED <<opt, exit, vmx, vmcs, guest, msrs, tables>>
    BY <1>1 DEF WaitInt
  <2>2. /\ mode = "exit" /\ intr = "none" /\ at <= Len(Code) /\ s.handler = "wait_int"
        /\ Fits(s) /\ Shape /\ EptNow
    BY <2>1, Handled
  <2>3. exit.reason = "VMCALL"
    BY <2>1 DEF Handles, Takes
  <2>4. Op.op = "vmcall" /\ Op.eax = 25
    BY <2>1, <2>3, HandledCall
  <2>5. Op' = Op /\ Len(Code)' = Len(Code)
    BY <2>1, SameOp
  <2>6. Interrupted(s)' /\ Exits(s)'
    BY <2>1, <2>2, <2>4, <2>5 DEF Interrupted, Exits, InGp
  <2>7. Fits(s)'
    BY <2>1, <2>2, FitsKept
  <2>8. Shape' /\ EptNow'
    BY <2>1, <2>2 DEF Shape, EptNow
  <2> QED
    BY <2>1, <2>6, <2>7, <2>8 DEF Moved, Here
<1>2. CASE WaitNothing
  <2>1. /\ Handles("wait_int") /\ Resume(exit.eax = 25)
        /\ UNCHANGED <<vmx, vmcs, reg, vmxbit, msrs, tables>>
    BY <1>2 DEF WaitNothing
  <2>2. /\ mode = "exit" /\ intr = "none" /\ at <= Len(Code) /\ s.handler = "wait_int"
        /\ Fits(s) /\ Shape /\ EptNow /\ t = After(opt, Op, s)
    BY <2>1, Handled
  <2>3. exit.reason = "VMCALL"
    BY <2>1 DEF Handles, Takes
  <2>4. Op.op = "vmcall" /\ Op.eax = 25 /\ exit.eax = 25
    <3>1. Op.op = "vmcall" /\ exit.eax = Op.eax /\ MayCall(opt, Op, s)
      BY <2>1, <2>3, HandledCall
    <3> QED
      BY <2>2, <3>1 DEF MayCall
  <2>5. /\ mode' = "entry" /\ NextRip
        /\ UNCHANGED <<opt, iter, eflags_if, pg, override>>
    BY <2>1, <2>4, ResumeSame
  <2>6. Same(s, t) /\ t.ebx = s.ebx
    BY <2>2, <2>4, AfterCallSame
  <2> QED
    BY <2>1, <2>2, <2>5, <2>6, KeptMoved
<1>3. CASE HostInterrupt
  <2>1. /\ mode = "wait" /\ Resume(TRUE)
        /\ UNCHANGED <<vmx, vmcs, reg, vmxbit, msrs, tables>>
    BY <1>3 DEF HostInterrupt
  <2>2. /\ intr = "none" /\ at <= Len(Code) /\ Op.op = "vmcall" /\ Op.eax = 25
        /\ Fits(s) /\ Shape /\ EptNow
    BY <2>1 DEF At, Here, Exits
  <2>3. t = After(opt, Op, s)
    BY <2>2 DEF At
  <2>4. /\ mode' = "entry" /\ NextRip
        /\ UNCHANGED <<opt, iter, eflags_if, pg, override>>
    BY <2>1, ResumeSame
  <2>5. Same(s, t) /\ t.ebx = s.ebx
    BY <2>2, <2>3, AfterCallSame
  <2> QED
    BY <2>1, <2>2, <2>4, <2>5, KeptMoved
<1> QED
  BY <1>1, <1>2, <1>3

\* VMCALL 12 of the MSR test.
LEMMA MsrLs12Moved ==
  ASSUME NEW s, NEW t, At(s, t), MsrLs12
  PROVE  Moved(s, t) /\ Shape' /\ EptNow'
<1> USE DEF tables, reg
<1>1. /\ Handles("msr_ls") /\ exit.eax = 12 /\ Resume(msr["PAT"] = "boot")
      /\ old_vals' = [m \in Msrs |-> IF m \in Saved THEN msr[m] ELSE "none"]
      /\ vmcs' = [vmcs EXCEPT !.store = Used, !.load = Used, !.entry = Used]
      /\ msr' = [m \in Msrs |-> IF m \in DOMAIN Experiment \cap Saved
                                THEN Experiment[m] ELSE msr[m]]
      /\ stored' = [i \in 1..3 |-> IF i <= Used THEN "dead" ELSE stored[i]]
      /\ UNCHANGED <<vmx, reg, vmxbit, bitmap, tables>>
  BY DEF MsrLs12
<1>2. /\ mode = "exit" /\ intr = "none" /\ at <= Len(Code) /\ s.handler = "msr_ls"
      /\ Fits(s) /\ Registers(s) /\ Shape /\ EptNow /\ t = After(opt, Op, s)
  BY <1>1, Handled
<1>3. exit.reason = "VMCALL"
  BY <1>1 DEF Handles, Takes
<1>4. Op.op = "vmcall" /\ Op.eax = 12 /\ ~s.lists
  <2>1. Op.op = "vmcall" /\ exit.eax = Op.eax /\ MayCall(opt, Op, s)
    BY <1>1, <1>3, HandledCall
  <2> QED
    BY <1>1, <1>2, <2>1 DEF MayCall
<1>5. \A m \in Msrs \ {"LSTAR", "TSC_ADJUST"} : msr[m] = "boot"
  BY <1>2, <1>4 DEF Fits, Lists
<1>6. msr["PAT"] = "boot"
  BY <1>5 DEF Msrs
<1>7. /\ mode' = "entry" /\ NextRip
      /\ UNCHANGED <<opt, iter, eflags_if, pg, override>>
  BY <1>1, <1>6, ResumeSame
<1>8. /\ t.handler = s.handler /\ t.lists = TRUE /\ t.bitmaps = s.bitmaps
      /\ t.bits = s.bits /\ t.off = s.off /\ t.pg = s.pg /\ t.ept = s.ept
      /\ t.ebx = s.ebx /\ t.tsc = s.tsc /\ t.fs = s.fs /\ t.gs = s.gs
  BY <1>2, <1>4 DEF After
<1>9. Used \in 0..3 /\ Used' = Used /\ Saved' = Saved
  BY <1>7 DEF Used, Saved
<1>10. vmcs \in Fields /\ msr \in [Msrs -> Values] /\ stored \in [1..3 -> Values]
  BY <1>2 DEF Shape
<1>11. /\ vmcs' \in Fields
       /\ vmcs'.eptp = vmcs.eptp /\ vmcs'.bitmaps = vmcs.bitmaps
       /\ vmcs'.fs = vmcs.fs /\ vmcs'.gs = vmcs.gs /\ vmcs'.store = Used
       /\ vmcs'.load = Used /\ vmcs'.entry = Used
  BY <1>1, <1>9, <1>10 DEF Fields
<1>12. Saved \subseteq Msrs \ {"LSTAR", "TSC_ADJUST"}
  BY DEF Saved
<1>13. /\ DOMAIN Experiment = {"MTRR5_BASE", "MTRR5_MASK", "MTRR6_BASE",
                               "MC402", "MC403", "MC406"}
       /\ Experiment["MTRR5_BASE"] = "aaaaa000" /\ Experiment["MC402"] = "22222222"
       /\ \A m \in DOMAIN Experiment : Experiment[m] \in Values
  BY DEF Experiment, Values
<1>14. /\ msr' \in [Msrs -> Values] /\ old_vals' \in [Msrs -> Values]
       /\ stored' \in [1..3 -> Values]
  <2>1. "none" \in Values /\ "dead" \in Values
    BY DEF Values
  <2>2. msr' \in [Msrs -> Values]
    BY <1>1, <1>10, <1>13
  <2>3. old_vals' \in [Msrs -> Values]
    BY <1>1, <1>10, <2>1
  <2>4. stored' \in [1..3 -> Values]
    BY <1>1, <1>10, <2>1
  <2> QED
    BY <2>2, <2>3, <2>4
<1>15. /\ msr'["MTRR5_BASE"] = "aaaaa000"
       /\ opt.mc => msr'["MC402"] = "22222222"
       /\ msr'["EFER"] = "boot" /\ msr'["TSC_ADJUST"] = msr["TSC_ADJUST"]
  <2>1. "MTRR5_BASE" \in Saved /\ (opt.mc => "MC402" \in Saved)
    BY DEF Saved, Msrs
  <2>2. {"MTRR5_BASE", "MC402", "EFER", "TSC_ADJUST"} \subseteq Msrs /\ msr["EFER"] = "boot"
    BY <1>5 DEF Msrs
  <2> QED
    BY <1>1, <1>13, <2>1, <2>2
<1>16. ASSUME ~opt.mc, NEW m \in {"MC402", "MC403", "MC406"}
       PROVE  msr'[m] = "boot"
  <2>1. m \notin Saved /\ m \in Msrs /\ msr[m] = "boot"
    BY <1>5, <1>16 DEF Saved, Msrs
  <2> QED
    BY <1>1, <2>1
<1>17. \A m \in Saved : old_vals'[m] = "boot"
  BY <1>1, <1>5, <1>12
<1>18. Registers(t)' /\ EptUse(t)'
  BY <1>1, <1>2, <1>7, <1>8, <1>11, <1>15 DEF Fits, Registers, EptUse
<1>19. Lists(t)'
  BY <1>7, <1>8, <1>9, <1>11, <1>15, <1>16 DEF Lists
<1>20. ListsUsed(t)'
  BY <1>7, <1>8, <1>9, <1>15, <1>17 DEF ListsUsed
<1>21. Fits(t)'
  BY <1>18, <1>19, <1>20 DEF Fits
<1>22. Shape' /\ EptNow'
  BY <1>1, <1>2, <1>7, <1>11, <1>14 DEF Shape, EptNow
<1> QED
  BY <1>2, <1>7, <1>21, <1>22, ResumeMoved

\* VMCALL 16 of the MSR test: VM exits and VM entries had their effects, and the
\* MSRs go back.
LEMMA MsrLs16Moved ==
  ASSUME NEW s, NEW t, At(s, t), MsrLs16
  PROVE  Moved(s, t) /\ Shape' /\ EptNow'
<1> USE DEF tables, reg
<1>1. /\ Handles("msr_ls") /\ exit.eax = 16 /\ Resume(MsrLsEffects)
      /\ vmcs' = [vmcs EXCEPT !.store = 0, !.load = 0, !.entry = 0]
      /\ msr' = [m \in Msrs |-> IF m \in Saved THEN old_vals[m] ELSE msr[m]]
      /\ UNCHANGED <<vmx, reg, vmxbit, stored, old_vals, bitmap, tables>>
  BY DEF MsrLs16, ResetLists
<1>2. /\ mode = "exit" /\ intr = "none" /\ at <= Len(Code) /\ s.handler = "msr_ls"
      /\ Fits(s) /\ Registers(s) /\ Shape /\ EptNow /\ t = After(opt, Op, s)
  BY <1>1, Handled
<1>3. exit.reason = "VMCALL"
  BY <1>1 DEF Handles, Takes
<1>4. Op.op = "vmcall" /\ Op.eax = 16 /\ s.lists
  <2>1. Op.op = "vmcall" /\ exit.eax = Op.eax /\ MayCall(opt, Op, s)
    BY <1>1, <1>3, HandledCall
  <2> QED
    BY <1>1, <1>2, <2>1 DEF MayCall
<1>5. MsrLsEffects /\ \A m \in Saved : old_vals[m] = "boot"
  BY <1>2, <1>4 DEF Fits, ListsUsed
<1>6. /\ mode' = "entry" /\ NextRip
      /\ UNCHANGED <<opt, iter, eflags_if, pg, override>>
  <2>1. MsrLsEffects \in BOOLEAN
    BY DEF MsrLsEffects
  <2> QED
    BY <1>1, <1>5, <2>1, ResumeSame
<1>7. /\ t.handler = s.handler /\ t.lists = FALSE /\ t.bitmaps = s.bitmaps
      /\ t.bits = s.bits /\ t.off = s.off /\ t.pg = s.pg /\ t.ept = s.ept
      /\ t.ebx = s.ebx /\ t.tsc = s.tsc /\ t.fs = s.fs /\ t.gs = s.gs
  BY <1>2, <1>4 DEF After
<1>8. vmcs \in Fields /\ msr \in [Msrs -> Values] /\ old_vals \in [Msrs -> Values]
  BY <1>2 DEF Shape
<1>9. /\ vmcs' \in Fields
      /\ vmcs'.eptp = vmcs.eptp /\ vmcs'.bitmaps = vmcs.bitmaps
      /\ vmcs'.fs = vmcs.fs /\ vmcs'.gs = vmcs.gs /\ vmcs'.store = 0
      /\ vmcs'.load = 0 /\ vmcs'.entry = 0
  <2>1. 0 \in 0..3
    OBVIOUS
  <2> QED
    BY <1>1, <1>8, <2>1 DEF Fields
<1>10. msr' \in [Msrs -> Values]
  BY <1>1, <1>8
<1>11. ASSUME NEW m \in Msrs \ {"LSTAR", "TSC_ADJUST"}
       PROVE  msr'[m] = "boot"
  <2>1. CASE m \in Saved
    BY <1>1, <1>5, <2>1
  <2>2. CASE m \notin Saved
    <3>1. ~opt.mc /\ m \in {"MC402", "MC403", "MC406"}
      BY <2>2 DEF Saved
    <3>2. msr[m] = "boot"
      BY <1>2, <1>4, <3>1 DEF Fits, Lists
    <3> QED
      BY <1>1, <2>2, <3>2
  <2> QED
    BY <2>1, <2>2
<1>12. msr'["TSC_ADJUST"] = msr["TSC_ADJUST"]
  BY <1>1 DEF Msrs, Saved
<1>13. Registers(t)' /\ EptUse(t)'
  BY <1>1, <1>2, <1>6, <1>7, <1>9, <1>12 DEF Fits, Registers, EptUse
<1>14. Lists(t)' /\ ListsUsed(t)'
  BY <1>7, <1>9, <1>11 DEF Lists, ListsUsed
<1>15. Fits(t)'
  BY <1>13, <1>14 DEF Fits
<1>16. Shape' /\ EptNow'
  BY <1>1, <1>2, <1>6, <1>9, <1>10 DEF Shape, EptNow
<1> QED
  BY <1>2, <1>6, <1>15, <1>16, ResumeMoved

\* The test on the number of a bit in VMCALLs 38 and 39.
LEMMA BitBelow ==
  ASSUME NEW n \in BitNums
  PROVE  n < 32768
BY DEF BitNums

\* VMCALLs 38 and 39.
LEMMA BitmapBitMoved ==
  ASSUME NEW s, NEW t, At(s, t), BitmapBit
  PROVE  Moved(s, t) /\ Shape' /\ EptNow'
<1> USE DEF tables, reg
<1>1. /\ Handles("msr_bitmap") /\ exit.reason = "VMCALL"
      /\ UNCHANGED <<vmx, vmcs, reg, vmxbit, msr, stored, old_vals, tables>>
  BY DEF BitmapBit
<1>2. /\ mode = "exit" /\ intr = "none" /\ at <= Len(Code) /\ s.handler = "msr_bitmap"
      /\ s \in Points /\ Fits(s) /\ Registers(s) /\ Shape /\ EptNow
      /\ t = After(opt, Op, s)
  BY <1>1, Handled
<1>3. /\ Op.op = "vmcall" /\ exit.eax = Op.eax /\ exit.ebx = Op.ebx
      /\ MayCall(opt, Op, s) /\ Op.ebx \in Nat
  BY <1>1, HandledCall
<1>4. bitmap = s.bits
  BY <1>2 DEF Registers
<1>5. ASSUME Op.eax = 38 \/ Op.eax = 39,
             mode' = "entry", NextRip,
             UNCHANGED <<opt, iter, eflags_if, pg, override>>,
             bitmap' = IF Op.eax = 38 THEN s.bits \cup {Op.ebx} ELSE s.bits \ {Op.ebx}
      PROVE  Moved(s, t) /\ Shape' /\ EptNow'
  <2>1. /\ mode' = "entry" /\ NextRip
        /\ UNCHANGED <<opt, iter, eflags_if, pg, override>>
    BY <1>5
  <2>2. /\ t.handler = s.handler /\ t.lists = s.lists /\ t.bitmaps = s.bitmaps
        /\ t.off = s.off /\ t.pg = s.pg /\ t.ept = s.ept
        /\ t.ebx = s.ebx /\ t.tsc = s.tsc /\ t.fs = s.fs /\ t.gs = s.gs
        /\ t.bits = bitmap'
    <3>1. CASE Op.eax = 38
      BY <1>2, <1>3, <1>5, <3>1 DEF After
    <3>2. CASE Op.eax = 39
      BY <1>2, <1>3, <1>5, <3>2 DEF After
    <3> QED
      BY <1>5, <3>1, <3>2
  <2>3. Registers(t)'
    BY <1>1, <1>2, <2>1, <2>2 DEF Registers
  <2>4. Fits(t)'
    BY <1>1, <1>2, <2>1, <2>2, <2>3, FitsRegisters
  <2>5. Shape' /\ EptNow'
    BY <1>1, <1>2, <2>1 DEF Shape, EptNow
  <2> QED
    BY <1>2, <2>1, <2>4, <2>5, ResumeMoved
<1>6. s.bits \subseteq BitNums
  BY <1>2 DEF Points, BitSets
<1>7. CASE Op.eax = 38
  <2>1. /\ Resume(exit.ebx < 32768 /\ exit.ebx \notin bitmap)
        /\ bitmap' = bitmap \cup {exit.ebx}
    BY <1>3, <1>7 DEF BitmapBit
  <2>2. Op.ebx \in BitNums \ s.bits
    BY <1>2, <1>3, <1>7 DEF MayCall
  <2>3. Op.ebx < 32768
    BY <2>2, BitBelow
  <2>4. exit.ebx < 32768 /\ exit.ebx \notin bitmap
    BY <1>3, <1>4, <2>2, <2>3
  <2>5. /\ mode' = "entry" /\ NextRip
        /\ UNCHANGED <<opt, iter, eflags_if, pg, override>>
    BY <2>1, <2>4 DEF Resume
  <2> QED
    BY <1>3, <1>4, <1>5, <1>7, <2>1, <2>5
<1>8. CASE Op.eax = 39
  <2>1. /\ Resume(exit.ebx < 32768 /\ exit.ebx \in bitmap)
        /\ bitmap' = bitmap \ {exit.ebx}
    BY <1>3, <1>8 DEF BitmapBit
  <2>2. Op.ebx \in s.bits
    BY <1>2, <1>3, <1>8 DEF MayCall
  <2>3. Op.ebx < 32768
    BY <1>6, <2>2, BitBelow
  <2>4. exit.ebx < 32768 /\ exit.ebx \in bitmap
    BY <1>3, <1>4, <2>2, <2>3
  <2>5. /\ mode' = "entry" /\ NextRip
        /\ UNCHANGED <<opt, iter, eflags_if, pg, override>>
    BY <2>1, <2>4 DEF Resume
  <2> QED
    BY <1>3, <1>4, <1>5, <1>8, <2>1, <2>5
<1> QED
  BY <1>3, <1>7, <1>8 DEF BitmapBit

\* The VMCALLs of the bitmap test that change the VMCS.
LEMMA BitmapVmcsMoved ==
  ASSUME NEW s, NEW t, At(s, t), BitmapVmcs
  PROVE  Moved(s, t) /\ Shape' /\ EptNow'
<1> USE DEF tables, reg
<1>1. /\ Handles("msr_bitmap") /\ exit.reason = "VMCALL"
      /\ UNCHANGED <<vmx, reg, vmxbit, stored, old_vals, bitmap, tables>>
  BY DEF BitmapVmcs
<1>2. /\ mode = "exit" /\ intr = "none" /\ at <= Len(Code) /\ s.handler = "msr_bitmap"
      /\ s \in Points /\ Fits(s) /\ Registers(s) /\ Shape /\ EptNow
      /\ t = After(opt, Op, s)
  BY <1>1, Handled
<1>3. Op.op = "vmcall" /\ exit.eax = Op.eax /\ MayCall(opt, Op, s)
  BY <1>1, HandledCall
<1>4. vmcs \in Fields /\ msr \in [Msrs -> Values]
  BY <1>2 DEF Shape
<1>5. ASSUME mode' = "entry", NextRip, msr' = msr,
             UNCHANGED <<opt, iter, eflags_if, pg, override>>,
             vmcs' \in Fields, vmcs'.eptp = vmcs.eptp, vmcs'.store = vmcs.store,
             vmcs'.load = vmcs.load, vmcs'.entry = vmcs.entry,
             t.handler = s.handler, t.lists = s.lists, t.bits = s.bits, t.pg = s.pg,
             t.ept = s.ept, t.ebx = s.ebx, t.tsc = s.tsc,
             t.off = s.off \/ (~t.off /\ opt.no_if),
             vmcs'.bitmaps = t.bitmaps, vmcs'.fs = t.fs, vmcs'.gs = t.gs
      PROVE  Moved(s, t) /\ Shape' /\ EptNow'
  <2>1. Registers(t)'
    BY <1>1, <1>2, <1>5 DEF Registers
  <2>2. Fits(t)'
    BY <1>1, <1>2, <1>5, <2>1, FitsRegisters
  <2>3. Shape' /\ EptNow'
    BY <1>1, <1>2, <1>5 DEF Shape, EptNow
  <2> QED
    BY <1>2, <1>5, <2>2, <2>3, ResumeMoved
<1>6. CASE Op.eax = 34
  <2>1. /\ Resume(~ vmcs.bitmaps /\ bitmap = {} /\ msr["TSC_ADJUST"] = "boot")
        /\ vmcs' = [vmcs EXCEPT !.bitmaps = TRUE] /\ msr' = msr
    BY <1>3, <1>6 DEF BitmapVmcs
  <2>2. ~s.bitmaps /\ s.bits = {} /\ s.tsc = "boot"
    BY <1>2, <1>3, <1>6 DEF MayCall
  <2>3. ~vmcs.bitmaps /\ bitmap = {} /\ msr["TSC_ADJUST"] = "boot"
    BY <1>2, <2>2 DEF Registers
  <2>4. /\ mode' = "entry" /\ NextRip
        /\ UNCHANGED <<opt, iter, eflags_if, pg, override>>
    BY <2>1, <2>3 DEF Resume
  <2>5. /\ t.handler = s.handler /\ t.lists = s.lists /\ t.bits = s.bits /\ t.pg = s.pg
        /\ t.ept = s.ept /\ t.ebx = s.ebx /\ t.tsc = s.tsc /\ t.off = s.off
        /\ t.bitmaps = TRUE /\ t.fs = s.fs /\ t.gs = s.gs
    BY <1>2, <1>3, <1>6 DEF After
  <2>6. /\ vmcs' \in Fields
        /\ vmcs'.eptp = vmcs.eptp /\ vmcs'.store = vmcs.store
        /\ vmcs'.load = vmcs.load /\ vmcs'.entry = vmcs.entry
        /\ vmcs'.bitmaps = TRUE /\ vmcs'.fs = vmcs.fs /\ vmcs'.gs = vmcs.gs
    BY <1>4, <2>1 DEF Fields
  <2>7. vmcs.fs = s.fs /\ vmcs.gs = s.gs
    BY <1>2 DEF Registers
  <2> QED
    BY <1>5, <2>1, <2>4, <2>5, <2>6, <2>7
<1>7. CASE Op.eax = 41
  <2>1. /\ Resume(vmcs.fs = "0" /\ vmcs.gs = "0")
        /\ vmcs' = [vmcs EXCEPT !.fs = "680effff", !.gs = "6810ffff"] /\ msr' = msr
    BY <1>3, <1>7 DEF BitmapVmcs
  <2>2. s.fs = "0" /\ s.gs = "0"
    BY <1>2, <1>3, <1>7 DEF MayCall
  <2>3. vmcs.fs = "0" /\ vmcs.gs = "0" /\ vmcs.bitmaps = s.bitmaps
    BY <1>2, <2>2 DEF Registers
  <2>4. /\ mode' = "entry" /\ NextRip
        /\ UNCHANGED <<opt, iter, eflags_if, pg, override>>
    BY <2>1, <2>3 DEF Resume
  <2>5. /\ t.handler = s.handler /\ t.lists = s.lists /\ t.bits = s.bits /\ t.pg = s.pg
        /\ t.ept = s.ept /\ t.ebx = s.ebx /\ t.tsc = s.tsc /\ t.off = s.off
        /\ t.bitmaps = s.bitmaps /\ t.fs = "680effff" /\ t.gs = "6810ffff"
    BY <1>2, <1>3, <1>7 DEF After
  <2>6. /\ vmcs' \in Fields
        /\ vmcs'.eptp = vmcs.eptp /\ vmcs'.store = vmcs.store
        /\ vmcs'.load = vmcs.load /\ vmcs'.entry = vmcs.entry
        /\ vmcs'.bitmaps = vmcs.bitmaps
        /\ vmcs'.fs = "680effff" /\ vmcs'.gs = "6810ffff"
    BY <1>4, <2>1 DEF Fields, Bases
  <2> QED
    BY <1>5, <2>1, <2>3, <2>4, <2>5, <2>6
<1>8. CASE Op.eax = 42
  <2>1. /\ Resume(vmcs.fs = "ffff680e" /\ vmcs.gs = "ffff6810")
        /\ vmcs' = [vmcs EXCEPT !.fs = "0", !.gs = "0"] /\ msr' = msr
    BY <1>3, <1>8 DEF BitmapVmcs
  <2>2. s.fs = "ffff680e" /\ s.gs = "ffff6810"
    BY <1>2, <1>3, <1>8 DEF MayCall
  <2>3. vmcs.fs = "ffff680e" /\ vmcs.gs = "ffff6810" /\ vmcs.bitmaps = s.bitmaps
    BY <1>2, <2>2 DEF Registers
  <2>4. /\ mode' = "entry" /\ NextRip
        /\ UNCHANGED <<opt, iter, eflags_if, pg, override>>
    BY <2>1, <2>3 DEF Resume
  <2>5. /\ t.handler = s.handler /\ t.lists = s.lists /\ t.bits = s.bits /\ t.pg = s.pg
        /\ t.ept = s.ept /\ t.ebx = s.ebx /\ t.tsc = s.tsc
        /\ t.off = (IF opt.no_if THEN FALSE ELSE s.off)
        /\ t.bitmaps = s.bitmaps /\ t.fs = "0" /\ t.gs = "0"
    BY <1>2, <1>3, <1>8 DEF After
  <2>6. /\ vmcs' \in Fields
        /\ vmcs'.eptp = vmcs.eptp /\ vmcs'.store = vmcs.store
        /\ vmcs'.load = vmcs.load /\ vmcs'.entry = vmcs.entry
        /\ vmcs'.bitmaps = vmcs.bitmaps /\ vmcs'.fs = "0" /\ vmcs'.gs = "0"
    BY <1>4, <2>1 DEF Fields, Bases
  <2>7. t.off = s.off \/ (~t.off /\ opt.no_if)
    BY <2>5
  <2> QED
    BY <1>5, <2>1, <2>3, <2>4, <2>5, <2>6, <2>7
<1>9. CASE Op.eax = 37
  <2>1. /\ Resume(vmcs.bitmaps) /\ vmcs' = [vmcs EXCEPT !.bitmaps = FALSE]
        /\ msr' = [msr EXCEPT !["TSC_ADJUST"] = "boot"]
    BY <1>3, <1>9 DEF BitmapVmcs
  <2>2. s.bitmaps
    BY <1>2, <1>3, <1>9 DEF MayCall
  <2>3. vmcs.bitmaps /\ vmcs.fs = s.fs /\ vmcs.gs = s.gs
    BY <1>2, <2>2 DEF Registers
  <2>4. /\ mode' = "entry" /\ NextRip
        /\ UNCHANGED <<opt, iter, eflags_if, pg, override>>
    BY <2>1, <2>3 DEF Resume
  <2>5. /\ t.handler = s.handler /\ t.lists = s.lists /\ t.bits = s.bits /\ t.pg = s.pg
        /\ t.ept = s.ept /\ t.ebx = s.ebx /\ t.tsc = "boot" /\ t.off = s.off
        /\ t.bitmaps = FALSE /\ t.fs = s.fs /\ t.gs = s.gs
    BY <1>2, <1>3, <1>9 DEF After
  <2>6. /\ vmcs' \in Fields
        /\ vmcs'.eptp = vmcs.eptp /\ vmcs'.store = vmcs.store
        /\ vmcs'.load = vmcs.load /\ vmcs'.entry = vmcs.entry
        /\ vmcs'.bitmaps = FALSE /\ vmcs'.fs = vmcs.fs /\ vmcs'.gs = vmcs.gs
    BY <1>4, <2>1 DEF Fields
  <2>7. /\ msr' \in [Msrs -> Values] /\ msr'["TSC_ADJUST"] = "boot"
        /\ \A m \in Msrs \ {"LSTAR", "TSC_ADJUST"} : msr'[m] = msr[m]
    BY <1>4, <2>1 DEF Msrs, Values
  <2>8. Registers(t)' /\ EptUse(t)'
    BY <1>1, <1>2, <2>3, <2>4, <2>5, <2>6, <2>7 DEF Fits, Registers, EptUse
  <2>9. Lists(t)'
    BY <1>2, <2>4, <2>5, <2>6, <2>7 DEF Fits, Lists, Used, Msrs
  <2>10. ListsUsed(t)'
    BY <1>1, <1>2, <2>4, <2>5, <2>7 DEF Fits, ListsUsed, Saved, Msrs
  <2>11. Fits(t)'
    BY <2>8, <2>9, <2>10 DEF Fits
  <2>12. Shape' /\ EptNow'
    BY <1>1, <1>2, <2>4, <2>6, <2>7 DEF Shape, EptNow
  <2> QED
    BY <1>2, <2>4, <2>11, <2>12, ResumeMoved
<1> QED
  BY <1>3, <1>6, <1>7, <1>8, <1>9 DEF BitmapVmcs

\* RDMSR and WRMSR of the bitmap test that exit.
LEMMA BitmapMsrMoved ==
  ASSUME NEW s, NEW t, At(s, t), BitmapMsr
  PROVE  Moved(s, t) /\ Shape' /\ EptNow'
<1> USE DEF tables, msrs
<1>1. /\ Handles("msr_bitmap") /\ exit.reason \in {"RDMSR", "WRMSR"}
      /\ Resume(exit.reason = "RDMSR" => exit.ebx = "normal")
      /\ ebx' = "vmexit"
      /\ UNCHANGED <<vmx, vmcs, eax, vmxbit, msrs, tables>>
  BY DEF BitmapMsr
<1>2. /\ mode = "exit" /\ intr = "none" /\ at <= Len(Code) /\ s.handler = "msr_bitmap"
      /\ s \in Points /\ Fits(s) /\ Registers(s) /\ Shape /\ EptNow /\ ExitOf(s)
      /\ t = After(opt, Op, s)
  BY <1>1, Handled
<1>3. /\ Op.op \in {"rdmsr", "wrmsr"} /\ Outcome(s, Op) = "vmexit"
      /\ exit.ebx = "normal"
  BY <1>1, <1>2 DEF ExitOf
<1>4. /\ mode' = "entry" /\ NextRip
      /\ UNCHANGED <<opt, iter, eflags_if, pg, override>>
  BY <1>1, <1>3 DEF Resume
<1>5. Same(s, t) /\ t.ebx = "vmexit"
  BY <1>2, <1>3, AfterFields
<1>6. Registers(t)'
  BY <1>1, <1>2, <1>4, <1>5 DEF Registers, Same
<1>7. Fits(t)'
  BY <1>1, <1>2, <1>4, <1>5, <1>6, FitsRegisters DEF Same
<1>8. Shape' /\ EptNow'
  BY <1>1, <1>2, <1>4 DEF Shape, EptNow
<1> QED
  BY <1>2, <1>4, <1>7, <1>8, ResumeMoved

----------------------------------------------------------------------------
(* The tests pass. *)

\* The state is at one of the points on the way through an iteration.
Tracked ==
  \E st, s : /\ Path(opt, Code, st)
             /\ st[0] = First(opt, iter) /\ st[Len(Code)] = Clean
             /\ s = st[at - 1] /\ Here(s)

GInv ==
  /\ IInv /\ Shape /\ EptNow
  /\ iter \in 0..15 /\ at \in 1..(Len(Code) + 1)
  /\ Tracked

\* There is a way through every iteration.
LEMMA StartPath ==
  ASSUME NEW o \in Options, NEW i \in 0..15
  PROVE  \E st : /\ Path(o, Program(o, i), st)
                 /\ st[0] = First(o, i) /\ st[Len(Program(o, i))] = Clean
                 /\ Len(Program(o, i)) \in Nat
<1>1. PICK st : /\ Path(o, Program(o, i), st)
                /\ st[0] = First(o, i) /\ st[Len(Program(o, i))] = Clean
  BY RunProgram DEF Run
<1>2. Len(Program(o, i)) \in Nat
  BY <1>1 DEF Path
<1> QED
  BY <1>1, <1>2

\* Before shv_vmx_main.
LEMMA InitGInv ==
  ASSUME Init
  PROVE  GInv
<1>1. IInv
  BY InitIInv
<1>2. Shape
  <2>1. /\ opt \in Options /\ mode = "start" /\ eflags_if = FALSE /\ pg = TRUE
        /\ vmxbit = TRUE /\ eax = 0 /\ ept_num = 0
    BY DEF Init
  <2>2. vmcs = [eptp |-> 0, vpid |-> 0, bitmaps |-> FALSE, store |-> 0,
                load |-> 0, entry |-> 0, fs |-> "0", gs |-> "0"]
    BY DEF Init
  <2>3. 0 \in Epts /\ 0 \in 0..(VpidCount - 1) /\ 0 \in 0..3
    BY GuestAssumption DEF Epts
  <2>4. vmcs \in Fields
    BY <2>2, <2>3 DEF Fields, Bases
  <2>5. /\ ~vmcs.bitmaps /\ vmcs.fs = "0" /\ vmcs.gs = "0"
        /\ vmcs.store = 0 /\ vmcs.load = 0 /\ vmcs.entry = 0
    BY <2>2
  <2>6. /\ msr \in [Msrs -> Values] /\ old_vals \in [Msrs -> Values]
        /\ stored \in [1..3 -> Values]
    BY DEF Init, Values
  <2>7. eax \in -1..(EptCount * EptSub - 1)
    <3> DEFINE k == EptCount * EptSub
    <3>1. k \in Nat \ {0}
      BY GuestAssumption
    <3> HIDE DEF k
    <3>2. 0 \in -1..(k - 1)
      BY <3>1
    <3> QED
      BY <2>1, <3>2 DEF k
  <2> QED
    BY <2>1, <2>4, <2>5, <2>6, <2>7 DEF Shape
<1>3. EptNow /\ iter = 0 /\ iter \in 0..15 /\ at = 1 /\ opt \in Options
  BY DEF Init, EptNow
<1> DEFINE f == First(opt, 0)
<1>4. /\ f.handler = "NULL" /\ f.lists = FALSE /\ f.bitmaps = FALSE /\ f.bits = {}
      /\ f.tsc = "boot" /\ f.ebx = "any" /\ f.pg = TRUE /\ f.fs = "0" /\ f.gs = "0"
      /\ f.ept = "idle" /\ (~f.off => opt.no_if)
  BY DEF First, Clean, With
<1> HIDE DEF f
<1>5. Here(f)
  <2>1. Registers(f)
    <3>1. /\ override = "NULL" /\ pg = TRUE /\ eflags_if = FALSE /\ bitmap = {}
          /\ msr["TSC_ADJUST"] = "boot" /\ vmcs.bitmaps = FALSE
          /\ vmcs.fs = "0" /\ vmcs.gs = "0"
      BY DEF Init, Msrs
    <3> QED
      BY <1>4, <3>1 DEF Registers
  <2>2. EptUse(f)
    BY <1>4 DEF Init, EptUse
  <2>3. Lists(f)
    BY <1>4 DEF Init, Lists
  <2>4. ListsUsed(f)
    BY <1>4 DEF ListsUsed
  <2>5. Interrupted(f) /\ Exits(f)
    BY DEF Init, Interrupted, Exits, InGp
  <2> QED
    BY <2>1, <2>2, <2>3, <2>4, <2>5 DEF Here, Fits
<1>6. PICK st : /\ Path(opt, Code, st) /\ st[0] = First(opt, iter)
                /\ st[Len(Code)] = Clean /\ Len(Code) \in Nat
  BY <1>3, StartPath DEF Code
<1>7. f = st[at - 1]
  BY <1>3, <1>6 DEF f
<1>8. Tracked /\ at \in 1..(Len(Code) + 1)
  BY <1>3, <1>5, <1>6, <1>7 DEF Tracked
<1> QED
  BY <1>1, <1>2, <1>3, <1>8 DEF GInv

\* The end of an iteration is where the next one starts.
LEMMA NextIterationGInv ==
  ASSUME GInv, NextIteration, IInv'
  PROVE  GInv'
<1> USE DEF tables, msrs, reg
<1>1. /\ mode = "guest" /\ intr = "none" /\ at > Len(Code)
      /\ iter' = (iter % 15) + 1 /\ at' = 1
      /\ UNCHANGED <<opt, mode, exit, vmx, vmcs, eflags_if, pg, reg, intr, vmxbit,
                     override, msrs, tables>>
  BY DEF NextIteration, Running
<1>2. PICK st, s : /\ Path(opt, Code, st)
                   /\ st[0] = First(opt, iter) /\ st[Len(Code)] = Clean
                   /\ s = st[at - 1] /\ Here(s)
  BY DEF GInv, Tracked
<1>3. Len(Code) \in Nat
  BY <1>2 DEF Path
<1>4. at - 1 = Len(Code)
  BY <1>1, <1>3 DEF GInv
<1>5. s = Clean
  BY <1>2, <1>4
<1>6. iter' \in 0..15 /\ iter' > 0
  BY <1>1 DEF GInv
<1>7. s = First(opt, iter')
  BY <1>5, <1>6 DEF First
<1>8. Fits(s)'
  BY <1>1, <1>2, FitsKept DEF Here
<1>9. Here(s)'
  BY <1>1, <1>8, Behind
<1>10. Shape' /\ EptNow'
  BY <1>1 DEF GInv, Shape, EptNow
<1>11. opt \in Options
  BY DEF GInv, Shape
<1>12. PICK next : /\ Path(opt, Program(opt, iter'), next)
                   /\ next[0] = First(opt, iter')
                   /\ next[Len(Program(opt, iter'))] = Clean
                   /\ Len(Program(opt, iter')) \in Nat
  BY <1>6, <1>11, StartPath
<1>13. Code' = Program(opt, iter') /\ opt' = opt
  BY <1>1 DEF Code
<1>14. s = next[at' - 1]
  BY <1>1, <1>7, <1>12
<1>15. Tracked' /\ at' \in 1..(Len(Code') + 1)
  BY <1>1, <1>9, <1>12, <1>13, <1>14 DEF Tracked
<1> QED
  BY <1>6, <1>10, <1>15 DEF GInv

\* Every other step leaves the state at a point or carries it to the next.
LEMMA MovedGInv ==
  ASSUME NEW st, NEW s, NEW t, GInv, IInv', Shape', EptNow', Moved(s, t),
         Path(opt, Code, st), st[0] = First(opt, iter), st[Len(Code)] = Clean,
         s = st[at - 1], at <= Len(Code) => t = st[at]
  PROVE  GInv'
<1>1. opt' = opt /\ iter' = iter
  BY DEF Moved
<1>2. Code' = Code
  BY <1>1 DEF Code
<1>3. /\ Path(opt', Code', st) /\ st[0] = First(opt', iter') /\ st[Len(Code')] = Clean
      /\ Len(Code) \in Nat
  BY <1>1, <1>2 DEF Path
<1>4. CASE at' = at /\ Here(s)'
  <2>1. s = st[at' - 1] /\ at' \in 1..(Len(Code') + 1)
    BY <1>2, <1>4 DEF GInv
  <2>2. Tracked'
    BY <1>3, <1>4, <2>1 DEF Tracked
  <2> QED
    BY <1>1, <2>1, <2>2 DEF GInv
<1>5. CASE at <= Len(Code) /\ at' = at + 1 /\ Here(t)'
  <2>1. t = st[at' - 1] /\ at' \in 1..(Len(Code') + 1)
    BY <1>2, <1>3, <1>5 DEF GInv
  <2>2. Tracked'
    BY <1>3, <1>5, <2>1 DEF Tracked
  <2> QED
    BY <1>1, <2>1, <2>2 DEF GInv
<1> QED
  BY <1>4, <1>5 DEF Moved

\* No step breaks the invariant.
LEMMA NextGInv ==
  ASSUME GInv, [Next]_vars
  PROVE  GInv'
<1>1. IInv'
  BY NextIInv DEF GInv
<1>2. PICK st, s : /\ Path(opt, Code, st)
                   /\ st[0] = First(opt, iter) /\ st[Len(Code)] = Clean
                   /\ s = st[at - 1] /\ Here(s)
  BY DEF GInv, Tracked
<1> DEFINE t == IF at <= Len(Code) THEN st[at] ELSE s
<1>3. /\ Code \in Seq(Ops) /\ Len(Code) \in Nat
      /\ st \in [0..Len(Code) -> Points]
      /\ \A n \in 1..Len(Code) :
           May(opt, Code[n], st[n - 1]) /\ st[n] = After(opt, Code[n], st[n - 1])
  BY <1>2 DEF Path
<1>4. s \in Points
  <2>1. at - 1 \in 0..Len(Code)
    BY <1>3 DEF GInv
  <2> QED
    BY <1>2, <1>3, <2>1
<1>5. ASSUME at <= Len(Code)
      PROVE  Op \in Ops /\ May(opt, Op, s) /\ t \in Points /\ t = After(opt, Op, s)
  <2>1. at \in 1..Len(Code) /\ at \in 0..Len(Code) /\ t = st[at]
    BY <1>3, <1>5 DEF GInv
  <2>2. Op \in Ops
    BY <1>3, <2>1 DEF Op
  <2> QED
    BY <1>2, <1>3, <2>1, <2>2 DEF Op
<1>6. at <= Len(Code) => t = st[at]
  OBVIOUS
<1> HIDE DEF t
<1>7. At(s, t)
  BY <1>2, <1>4, <1>5 DEF At, GInv
<1>8. ASSUME Moved(s, t), Shape', EptNow'
      PROVE  GInv'
  BY <1>1, <1>2, <1>6, <1>8, MovedGInv
<1>9. CASE GuestStep
  <2>1. CASE NextIteration
    BY <1>1, <2>1, NextIterationGInv
  <2>2. CASE Override
    BY <1>7, <1>8, <2>2, OverrideMoved
  <2>3. CASE Vmcall \/ Cpuid
    BY <1>7, <1>8, <2>3, VmcallMoved
  <2>4. CASE SetFlags
    BY <1>7, <1>8, <2>4, SetFlagsMoved
  <2>5. CASE Rdmsr \/ Wrmsr
    BY <1>7, <1>8, <2>5, AccessMoved
  <2>6. CASE EptRead
    BY <1>7, <1>8, <2>6, EptReadMoved
  <2>7. CASE Checks
    BY <1>7, <1>8, <2>7, ChecksMoved
  <2>8. CASE EptCountCheck
    BY <1>7, <1>8, <2>8, EptCountMoved
  <2> QED
    BY <1>9, <2>1, <2>2, <2>3, <2>4, <2>5, <2>6, <2>7, <2>8 DEF GuestStep
<1>10. CASE HandlerStep
  <2>1. CASE IdtStub \/ IdtRdmsr \/ IdtCpuid
    BY <1>7, <1>8, <2>1, IdtMoved
  <2>2. CASE IdtEnd
    BY <1>7, <1>8, <2>2, IdtEndMoved
  <2> QED
    BY <1>10, <2>1, <2>2 DEF HandlerStep
<1>11. CASE GuestInterrupt
  BY <1>7, <1>8, <1>11, GuestInterruptMoved
<1>12. CASE HostInterrupt \/ WaitInt \/ WaitNothing
  BY <1>7, <1>8, <1>12, WaitMoved
<1>13. CASE HostStep
  <2>1. CASE ShvVmxMain
    BY <1>7, <1>8, <2>1, ShvVmxMainMoved
  <2>2. CASE VmEntry
    BY <1>7, <1>8, <2>2, VmEntryMoved
  <2>3. CASE DefaultHandler
    BY <1>7, <1>8, <2>3, DefaultHandlerMoved
  <2>4. CASE MsrLs12
    BY <1>7, <1>8, <2>4, MsrLs12Moved
  <2>5. CASE MsrLs16
    BY <1>7, <1>8, <2>5, MsrLs16Moved
  <2>6. CASE EptViolation
    BY <1>7, <1>8, <2>6, EptViolationMoved
  <2>7. CASE SwitchEpt
    BY <1>7, <1>8, <2>7, SwitchEptMoved
  <2>8. CASE TestVpid
    BY <1>7, <1>8, <2>8, TestVpidMoved
  <2>9. CASE TestVmxoff
    BY <1>7, <1>8, <2>9, TestVmxoffMoved
  <2>10. CASE BitmapVmcs
    BY <1>7, <1>8, <2>10, BitmapVmcsMoved
  <2>11. CASE BitmapBit
    BY <1>7, <1>8, <2>11, BitmapBitMoved
  <2>12. CASE BitmapMsr
    BY <1>7, <1>8, <2>12, BitmapMsrMoved
  <2> QED
    BY <1>12, <1>13, <2>1, <2>2, <2>3, <2>4, <2>5, <2>6, <2>7, <2>8, <2>9, <2>10,
       <2>11, <2>12 DEF HostStep
<1>14. CASE UNCHANGED vars
  <2> USE DEF tables, msrs, reg, guest
  <2>1. /\ UNCHANGED <<opt, mode, exit, vmx, vmcs, guest, msrs, tables>>
    BY <1>14 DEF vars
  <2>2. Op' = Op /\ Len(Code)' = Len(Code)
    BY <2>1, SameOp
  <2>3. Fits(s)'
    BY <1>2, <2>1, FitsKept DEF Here
  <2>4. Interrupted(s)'
    BY <1>2, <2>1, <2>2 DEF Here, Interrupted
  <2>5. Exits(s)'
    BY <1>2, <2>1, <2>2 DEF Here, Exits, ExitOf
  <2>6. Shape' /\ EptNow'
    BY <2>1 DEF GInv, Shape, EptNow
  <2> QED
    BY <1>8, <2>1, <2>3, <2>4, <2>5, <2>6 DEF Moved, Here
<1> QED
  BY <1>9, <1>10, <1>11, <1>12, <1>13, <1>14 DEF Next

\* So it always holds.
LEMMA TestsInductive == Spec => []GInv
<1>1. Init => GInv
  BY InitGInv
<1>2. GInv /\ [Next]_vars => GInv'
  BY NextGInv
<1> QED
  BY <1>1, <1>2, PTL DEF Spec

\* What the invariant says of the current point.
LEMMA GInvPoint ==
  ASSUME GInv
  PROVE  \E s \in Points : Here(s) /\ (at = 1 => s = First(opt, iter))
<1>1. PICK st, s : /\ Path(opt, Code, st)
                   /\ st[0] = First(opt, iter) /\ st[Len(Code)] = Clean
                   /\ s = st[at - 1] /\ Here(s)
  BY DEF GInv, Tracked
<1>2. st \in [0..Len(Code) -> Points] /\ Len(Code) \in Nat
  BY <1>1 DEF Path
<1>3. at - 1 \in 0..Len(Code)
  BY <1>2 DEF GInv
<1>4. s \in Points
  BY <1>1, <1>2, <1>3
<1>5. at = 1 => s = First(opt, iter)
  BY <1>1
<1> QED
  BY <1>1, <1>4, <1>5

\* For every legal configuration of SHV_OPT, every number of EPTs and VPIDs, and
\* interrupts at any point of the guest and of the host's wait: every variable
\* keeps its type. The VPID wraps within its 16 bits, the bits of the MSR bitmap
\* that VMCALL 38 sets are bits of it, ept_num and EAX name pages of ept_target,
\* and the EPT test never counts more than one EPT violation.
THEOREM TypeCorrect == Spec => []TypeOK
<1>1. GInv => TypeOK
  <2> SUFFICES ASSUME GInv PROVE TypeOK
    OBVIOUS
  <2>1. PICK s \in Points : Here(s)
    BY GInvPoint
  <2>2. Shape /\ iter \in 0..15 /\ at \in 1..(Len(Code) + 1)
    BY DEF GInv
  <2>3. /\ opt \in Options
        /\ mode \in {"start", "guest", "exit", "wait", "entry", "failed"}
        /\ {eflags_if, pg, vmxbit} \subseteq BOOLEAN
        /\ eax \in -1..(EptCount * EptSub - 1) /\ DOMAIN msr = Msrs
    BY <2>2 DEF Shape
  <2>4. intr \in DOMAIN Handler \cup {"none", "int_end", "gp_end"}
    BY <2>1 DEF Here, Interrupted, InIntr, InGp, Handler
  <2>5. override \in {"NULL", "msr_ls", "ept", "switch_ept", "vpid", "vmxoff",
                      "wait_int", "msr_bitmap"}
    BY <2>1 DEF Here, Fits, Registers, Points, Overrides
  <2>6. /\ vmcs.vpid \in 0..(VpidCount - 1) /\ vmcs.eptp \in 0..(EptCount - 1)
        /\ {vmcs.store, vmcs.load, vmcs.entry} \subseteq 0..3
    BY <2>2 DEF Shape, Fields, Epts
  <2>7. bitmap \subseteq BitNums
    BY <2>1 DEF Here, Fits, Registers, Points, BitSets
  <2>8. ept_num \in 0..(EptCount * EptSub - 1)
    BY DEF GInv, IInv, Tables
  <2>9. ept_exit_count \in 0..1
    BY <2>1 DEF Here, Fits, EptUse
  <2> QED
    BY <2>2, <2>3, <2>4, <2>5, <2>6, <2>7, <2>8, <2>9, Zenon DEF TypeOK
<1> QED
  BY <1>1, TestsInductive, PTL

\* For the same: no test fails, wherever interrupts hit. No ASSERT of a test or of
\* a handler fails, no VM exit is unknown to vmexit_handler, no VMX instruction
\* fails, and no interrupt comes while paging is off.
THEOREM TestsAlwaysPass == Spec => []TestsPass
<1>1. GInv => TestsPass
  BY DEF GInv, Shape, TestsPass
<1> QED
  BY <1>1, TestsInductive, PTL

\* For the same: an iteration leaves nothing behind for the next but ept_num, the
\* VPID and LSTAR.
THEOREM IterationsClean == Spec => []CleanIteration
<1>1. GInv => CleanIteration
  <2> SUFFICES ASSUME GInv, mode = "guest", iter > 0, at = 1
               PROVE  /\ override = "NULL"
                      /\ \A m \in Msrs \ {"LSTAR"} : msr[m] = "boot"
                      /\ vmcs.store = 0 /\ vmcs.load = 0 /\ vmcs.entry = 0
                      /\ ~vmcs.bitmaps /\ bitmap = {}
                      /\ vmcs.fs = "0" /\ vmcs.gs = "0"
                      /\ vmx.launched /\ vmx.es = "ffffffff"
                      /\ pg /\ ept_exit_count = 0
                      /\ (opt.no_if \/ eflags_if)
    BY DEF CleanIteration
  <2>1. PICK s \in Points : Here(s) /\ s = First(opt, iter)
    BY GInvPoint
  <2>2. /\ s.handler = "NULL" /\ s.lists = FALSE /\ s.bitmaps = FALSE /\ s.bits = {}
        /\ s.tsc = "boot" /\ s.pg = TRUE /\ s.fs = "0" /\ s.gs = "0"
        /\ s.ept = "idle" /\ s.off = FALSE
    BY <2>1 DEF First, Clean, With
  <2>3. /\ override = "NULL" /\ ~vmcs.bitmaps /\ bitmap = {}
        /\ vmcs.fs = "0" /\ vmcs.gs = "0" /\ pg /\ (opt.no_if \/ eflags_if)
        /\ msr["TSC_ADJUST"] = "boot" /\ ept_exit_count = 0
    BY <2>1, <2>2 DEF Here, Fits, Registers, EptUse
  <2>4. /\ vmcs.store = 0 /\ vmcs.load = 0 /\ vmcs.entry = 0
        /\ \A m \in Msrs \ {"LSTAR", "TSC_ADJUST"} : msr[m] = "boot"
    BY <2>1, <2>2 DEF Here, Fits, Lists
  <2>5. vmx.launched /\ vmx.es = "ffffffff"
    BY DEF GInv, IInv, Operation
  <2> QED
    BY <2>3, <2>4, <2>5
<1> QED
  BY <1>1, TestsInductive, PTL
=============================================================================
