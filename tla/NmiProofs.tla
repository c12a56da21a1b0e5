------------------------------ MODULE NmiProofs ------------------------------
(***************************************************************************)
(* Proofs about module Nmi, for every interrupt_period, Lag and mask of      *)
(* experiments.                                                             *)
(*                                                                         *)
(* The first part checks the tables of the experiments against what TypeOK   *)
(* needs of them; with the place of CPU 1 in its code (Placed) TypeOK is     *)
(* inductive.  The second part is the protocol of l2_ready between hlt_wait  *)
(* and the timer interrupt of the BSP: an interrupt is sent only to a CPU    *)
(* that sleeps in the hlt, and recorded there.                              *)
(***************************************************************************)
EXTENDS Nmi, Integers, TLAPS

-----------------------------------------------------------------------------
(* The tables of the experiments. *)

\* The operations of the guest code and of the host code.
GuestNames == {"vmcall", "hlt_wait", "iret_wait", "exit_source_measure",
               "prepare_measure", "assert_measure", "assert_measure_2"}
HostNames == {"hlt_wait", "iret_wait", "prepare_measure", "prepare_measure_2",
              "assert_measure", "blocking_by_nmi", "set_state", "assert_state",
              "set_inject_nmi", "inject_keyboard"}

\* What TypeOK needs of an operation, of the code of one side and of an
\* experiment: the lengths bound pc, state_no selects a handler and set_state
\* writes bits.
Control(o) == /\ o.nmi_exiting \in 0..1 /\ o.virtual_nmis \in 0..1
              /\ o.blocking \in 0..1 /\ o.nmi_windowing \in 0..1
GuestOp(o) == o.op \in GuestNames /\ (o.op = "vmcall" => o.state_no \in 0..1)
HostOp(o) == o.op \in HostNames /\ (o.op = "set_state" => Control(o))

GuestCode(s) == Len(s) \in 0..98 /\ \A k \in 1..Len(s) : GuestOp(s[k])
HostCode(s) == Len(s) \in 0..9 /\ \A k \in 1..Len(s) : HostOp(s[k])
Fits(e) == GuestCode(e.f) /\ \A k \in DOMAIN e.vmcall : HostCode(e.vmcall[k])

\* Every operation of the tables fits the side that uses it.
LEMMA OpsFit ==
  /\ \A s \in 0..1 : GuestOp(vmcall(s))
  /\ \A x : /\ GuestOp(hlt_wait(x)) /\ HostOp(hlt_wait(x))
            /\ GuestOp(iret_wait(x)) /\ HostOp(iret_wait(x))
  /\ \A x, y : GuestOp(assert_measure(x, y)) /\ HostOp(assert_measure(x, y))
  /\ \A x, y, z, w : GuestOp(assert_measure_2(x, y, z, w))
  /\ GuestOp(exit_source_measure)
  /\ GuestOp(prepare_measure) /\ HostOp(prepare_measure)
  /\ HostOp(prepare_measure_2) /\ HostOp(set_inject_nmi) /\ HostOp(inject_keyboard)
  /\ \A x : HostOp(blocking_by_nmi(x))
  /\ \A e, v, b, w \in 0..1 : HostOp(set_state(e, v, b, w))
  /\ \A e, v, b, w : HostOp(assert_state(e, v, b, w))
  BY DEF GuestOp, HostOp, GuestNames, HostNames, Control, Controls, vmcall,
         hlt_wait, iret_wait, assert_measure, assert_measure_2, exit_source_measure,
         prepare_measure, prepare_measure_2, set_inject_nmi, inject_keyboard,
         blocking_by_nmi, set_state, assert_state

\* Code of the lengths that occur, in the guest and in the host.
LEMMA GuestCodes ==
  /\ \A a :
       GuestOp(a) =>
         GuestCode(<<a>>)
  /\ \A a, b :
       GuestOp(a) /\ GuestOp(b) =>
         GuestCode(<<a, b>>)
  /\ \A a, b, c :
       GuestOp(a) /\ GuestOp(b) /\ GuestOp(c) =>
         GuestCode(<<a, b, c>>)
  /\ \A a, b, c, d :
       GuestOp(a) /\ GuestOp(b) /\ GuestOp(c) /\ GuestOp(d) =>
         GuestCode(<<a, b, c, d>>)
  /\ \A a, b, c, d, e, g, h :
       GuestOp(a) /\ GuestOp(b) /\ GuestOp(c) /\ GuestOp(d) /\ GuestOp(e) /\
       GuestOp(g) /\ GuestOp(h) =>
         GuestCode(<<a, b, c, d, e, g, h>>)
  BY DEF GuestCode

LEMMA HostCodes ==
  /\ \A a :
       HostOp(a) =>
         HostCode(<<a>>)
  /\ \A a, b :
       HostOp(a) /\ HostOp(b) =>
         HostCode(<<a, b>>)
  /\ \A a, b, c :
       HostOp(a) /\ HostOp(b) /\ HostOp(c) =>
         HostCode(<<a, b, c>>)
  /\ \A a, b, c, d :
       HostOp(a) /\ HostOp(b) /\ HostOp(c) /\ HostOp(d) =>
         HostCode(<<a, b, c, d>>)
  /\ \A a, b, c, d, e :
       HostOp(a) /\ HostOp(b) /\ HostOp(c) /\ HostOp(d) /\ HostOp(e) =>
         HostCode(<<a, b, c, d, e>>)
  /\ \A a, b, c, d, e, g :
       HostOp(a) /\ HostOp(b) /\ HostOp(c) /\ HostOp(d) /\ HostOp(e) /\
       HostOp(g) =>
         HostCode(<<a, b, c, d, e, g>>)
  /\ \A a, b, c, d, e, g, h, i, j :
       HostOp(a) /\ HostOp(b) /\ HostOp(c) /\ HostOp(d) /\ HostOp(e) /\
       HostOp(g) /\ HostOp(h) /\ HostOp(i) /\ HostOp(j) =>
         HostCode(<<a, b, c, d, e, g, h, i, j>>)
  BY DEF HostCode

\* All thirty experiments of shv-nmi.c fit.
LEMMA ExperimentsFit == \A n \in 1..30 : Fits(experiments[n])
<1>1. Fits(experiment_1)
  BY OpsFit, GuestCodes, HostCodes DEF Fits, experiment_1
<1>2. Fits(experiment_2)
  BY OpsFit, GuestCodes, HostCodes DEF Fits, experiment_2
<1>3. Fits(experiment_3)
  BY OpsFit, GuestCodes, HostCodes DEF Fits, experiment_3
<1>4. Fits(experiment_4)
  BY OpsFit, GuestCodes, HostCodes DEF Fits, experiment_4
<1>5. Fits(experiment_5)
  BY OpsFit, GuestCodes, HostCodes DEF Fits, experiment_5
<1>6. Fits(experiment_6)
  BY OpsFit, GuestCodes, HostCodes DEF Fits, experiment_6
<1>7. Fits(experiment_7)
  BY OpsFit, GuestCodes, HostCodes DEF Fits, experiment_7
<1>8. Fits(experiment_8)
  BY OpsFit, GuestCodes, HostCodes DEF Fits, experiment_8
<1>9. Fits(experiment_9)
  BY OpsFit, GuestCodes, HostCodes DEF Fits, experiment_9
<1>10. Fits(experiment_10)
  BY OpsFit, GuestCodes, HostCodes DEF Fits, experiment_10
<1>11. Fits(experiment_11)
  BY OpsFit, GuestCodes, HostCodes DEF Fits, experiment_11
<1>12. Fits(experiment_12)
  BY OpsFit, GuestCodes, HostCodes DEF Fits, experiment_12
<1>13. Fits(experiment_13)
  BY OpsFit, GuestCodes, HostCodes DEF Fits, experiment_13
<1>14. Fits(experiment_14)
  BY OpsFit, GuestCodes, HostCodes DEF Fits, experiment_14
<1>15. Fits(experiment_15)
  BY OpsFit, GuestCodes, HostCodes DEF Fits, experiment_15
<1>16. Fits(experiment_16)
  BY OpsFit, GuestCodes, HostCodes DEF Fits, experiment_16
<1>17. Fits(experiment_17)
  BY OpsFit, GuestCodes, HostCodes DEF Fits, experiment_17
<1>18. Fits(experiment_18)
  BY OpsFit, GuestCodes, HostCodes DEF Fits, experiment_18
<1>19. Fits(experiment_19)
  BY OpsFit, GuestCodes, HostCodes DEF Fits, experiment_19
<1>20. Fits(experiment_20)
  BY OpsFit, GuestCodes, HostCodes DEF Fits, experiment_20
<1>21. Fits(experiment_21)
  BY OpsFit, GuestCodes, HostCodes DEF Fits, experiment_21
<1>22. Fits(experiment_22)
  BY OpsFit, GuestCodes, HostCodes DEF Fits, experiment_22
<1>23. Fits(experiment_23)
  BY OpsFit, GuestCodes, HostCodes DEF Fits, experiment_23
<1>24. Fits(experiment_24)
  BY OpsFit, GuestCodes, HostCodes DEF Fits, experiment_24
<1>25. Fits(experiment_25)
  BY OpsFit, GuestCodes, HostCodes DEF Fits, experiment_25
<1>26. Fits(experiment_26)
  BY OpsFit, GuestCodes, HostCodes DEF Fits, experiment_26
<1>27. Fits(experiment_27)
  BY OpsFit, GuestCodes, HostCodes DEF Fits, experiment_27
<1>28. Fits(experiment_28)
  BY OpsFit, GuestCodes, HostCodes DEF Fits, experiment_28
<1>29. Fits(experiment_29)
  BY OpsFit, GuestCodes, HostCodes DEF Fits, experiment_29
<1>30. Fits(experiment_30)
  BY OpsFit, GuestCodes, HostCodes DEF Fits, experiment_30
<1> HIDE DEF Fits
<1> QED
  BY <1>1, <1>2, <1>3, <1>4, <1>5, <1>6, <1>7, <1>8, <1>9, <1>10, <1>11, <1>12, <1>13,
     <1>14, <1>15, <1>16, <1>17, <1>18, <1>19, <1>20, <1>21, <1>22, <1>23, <1>24, <1>25,
     <1>26, <1>27, <1>28, <1>29, <1>30
     DEF experiments

\* The sleep before the experiments: at most ten rounds of three operations,
\* which only wait.
LEMMA SleepFits ==
  /\ GuestCode(Sleep)
  /\ \A k \in 1..Len(Sleep) : Sleep[k].op \in {"hlt_wait", "iret_wait"}
<1> DEFINE n == 3 * SleepRounds
           g(i) == SleepRound[((i - 1) % 3) + 1]
<1>1. SleepRounds \in 0..10
  <2>1. PICK p \in Nat \ {0} : p = interrupt_period
    BY NmiAssumption
  <2>2. PICK q \in Int : q = (10 + p - 1) \div p
    BY <2>1
  <2>3. q * p <= 9 + p /\ 9 + p < (q + 1) * p
    BY <2>1, <2>2, Z3
  <2>4. q >= 11 => q * p >= 11 * p
    BY <2>1, Z3
  <2>5. q <= -1 => (q + 1) * p <= 0
    BY <2>1, Z3
  <2> QED
    BY <2>1, <2>2, <2>3, <2>4, <2>5 DEF SleepRounds
<1>2. n \in 0..30
  BY <1>1
<1>3. \A i \in 1..n : g(i) \in {hlt_wait("NMI_G"), iret_wait("MEASURE"), hlt_wait("TIMER_G")}
  <2>1. \A i \in 1..n : ((i - 1) % 3) + 1 \in 1..3
    BY <1>2
  <2> QED
    BY <2>1 DEF SleepRound
<1>4. Len(Sleep) = n /\ \A i \in 1..n : Sleep[i] = g(i)
  BY <1>2 DEF Sleep
<1> HIDE DEF n, g
<1>5. \A i \in 1..n : GuestOp(Sleep[i])
  BY <1>3, <1>4, OpsFit
<1>6. \A i \in 1..n : Sleep[i].op \in {"hlt_wait", "iret_wait"}
  BY <1>3, <1>4 DEF hlt_wait, iret_wait
<1> QED
  BY <1>2, <1>4, <1>5, <1>6 DEF GuestCode

-----------------------------------------------------------------------------
(* The place of CPU 1. *)

\* The places within an operation.
Working == {"op", "armed", "hlt", "woken", "iret"}

\* Where CPU 1 is, in terms of the code it runs.
Placed ==
  /\ experiment_no = 0 =>
       mode = "guest" /\ vmcs.nmi_exiting = 0 /\ vmcs.nmi_windowing = 0
  /\ pc.guest <= Len(f) + 1
  /\ at.guest \notin {"op", "done"} => pc.guest <= Len(f)
  /\ mode = "host" /\ at.host \in Working =>
       /\ state_no + 1 \in DOMAIN handlers
       /\ pc.host <= Len(handlers[state_no + 1]) + 1
       /\ at.host # "op" => pc.host <= Len(handlers[state_no + 1])
  /\ mode = "host" /\ reason = "vmcall" => at.guest = "vmcall"
  /\ mode = "host" /\ reason # "vmcall" => at.host \in {"vmexit_asm", "vmresume"}
  /\ vmcs.inject # "none" => mode = "host" /\ reason = "vmcall"

\* TypeOK in parts.
WhereType ==
  /\ experiment_no \in 0..30
  /\ state_no \in 0..1
  /\ mode \in {"guest", "host"}
  /\ pc \in [guest : 1..100, host : 1..10]
  /\ at \in [guest : Places, host : Places]
  /\ reason \in {"vmcall", "nmi", "window"}
TestType ==
  /\ l2_ready \in 0..1
  /\ exit \in [source : Sources, rip : Rips, source_old : Sources, rip_old : Rips]
  /\ failed \in BOOLEAN
VmcsType ==
  vmcs \in [nmi_exiting : 0..1, virtual_nmis : 0..1, blocking : 0..1,
            nmi_windowing : 0..1, inject : {"none", "nmi_stub", "kbd_stub"},
            hlt : BOOLEAN]
CpuType == block \in BOOLEAN /\ vblock \in BOOLEAN /\ guestIF \in BOOLEAN /\ pend \subseteq IPIs
BspType == inflight \subseteq IPIs /\ count \in 0..(2 * interrupt_period) /\ lag \in 0..Lag

\* The next position in a code that has not ended.
LEMMA Positions ==
  /\ \A x \in 1..100, n \in 0..98 :
       x <= n => x \in 1..n /\ x + 1 \in 1..100 /\ x + 1 <= n + 1 /\ x <= n + 1
  /\ \A x \in 1..10, n \in 0..9 :
       x <= n => x \in 1..n /\ x + 1 \in 1..10 /\ x + 1 <= n + 1 /\ x <= n + 1
  OBVIOUS

\* The components of pc.
LEMMA PcType ==
  ASSUME WhereType
  PROVE  /\ pc.guest \in 1..100 /\ pc.host \in 1..10
         /\ pc = [guest |-> pc.guest, host |-> pc.host]
  BY DEF WhereType

\* TypeOK and its parts, now and after a step.
LEMMA TypeParts ==
  TypeOK <=> WhereType /\ TestType /\ VmcsType /\ CpuType /\ BspType
  BY Zenon DEF TypeOK, WhereType, TestType, VmcsType, CpuType, BspType

LEMMA TypePartsNext ==
  TypeOK' <=> WhereType' /\ TestType' /\ VmcsType' /\ CpuType' /\ BspType'
  BY Zenon DEF TypeOK, WhereType, TestType, VmcsType, CpuType, BspType

\* The code the guest runs.
LEMMA GuestFits ==
  ASSUME WhereType
  PROVE  GuestCode(f) /\ Len(f) \in 0..98
<1>1. CASE experiment_no = 0
  BY <1>1, SleepFits DEF f, GuestCode
<1>2. CASE experiment_no # 0
  <2>1. experiment_no \in 1..30 /\ f = experiments[experiment_no].f
    BY <1>2 DEF WhereType, f
  <2>2. Fits(experiments[experiment_no])
    BY <2>1, ExperimentsFit
  <2> QED
    BY <2>1, <2>2 DEF Fits, GuestCode
<1> QED BY <1>1, <1>2

\* The handler the host runs.
LEMMA HostFits ==
  ASSUME WhereType, experiment_no # 0, state_no + 1 \in DOMAIN handlers
  PROVE  HostCode(handlers[state_no + 1]) /\ Len(handlers[state_no + 1]) \in 0..9
<1>1. experiment_no \in 1..30
  BY DEF WhereType
<1>2. Fits(experiments[experiment_no])
  BY <1>1, ExperimentsFit
<1> QED
  BY <1>2 DEF Fits, HostCode, handlers

\* The operation CPU 1 is at.
LEMMA AtOpFits ==
  ASSUME WhereType, Placed, NEW o, AtOp(o)
  PROVE  /\ at[mode] = "op"
         /\ pc[mode] <= Len(script)
         /\ mode = "guest" => GuestOp(Op)
         /\ mode = "host" => HostOp(Op)
         /\ Op.op = o
         /\ experiment_no = 0 => o \in {"hlt_wait", "iret_wait"}
<1>1. at[mode] = "op" /\ pc[mode] <= Len(script) /\ Op.op = o
  BY DEF AtOp, Op
<1>2. CASE mode = "guest"
  <2>0. script = f /\ Op = f[pc.guest]
    BY <1>2 DEF script, Op
  <2>1. script = f /\ GuestCode(f) /\ pc.guest \in 1..Len(f) /\ Op = f[pc.guest]
    BY <1>1, <1>2, <2>0, GuestFits, PcType, Positions
  <2>2. GuestOp(Op)
    BY <2>1 DEF GuestCode
  <2>3. experiment_no = 0 => o \in {"hlt_wait", "iret_wait"}
    BY <1>1, <2>1, SleepFits DEF f
  <2> QED BY <1>1, <1>2, <2>2, <2>3
<1>3. CASE mode = "host"
  <2>1. experiment_no # 0 /\ state_no + 1 \in DOMAIN handlers
    BY <1>1, <1>3 DEF Placed, Working
  <2>2. script = handlers[state_no + 1]
    BY <1>3 DEF script
  <2>3. pc.host \in 1..Len(script) /\ Op = script[pc.host] /\ HostCode(script)
    BY <1>1, <1>3, <2>1, <2>2, HostFits, PcType, Positions DEF Op
  <2>4. HostOp(Op)
    BY <2>3 DEF HostCode
  <2> QED BY <1>1, <1>3, <2>1, <2>4
<1> QED BY <1>2, <1>3 DEF WhereType

\* Advance ends an operation.
LEMMA AdvanceKeeps ==
  ASSUME WhereType, VmcsType, Placed, Advance,
         at[mode] \in Working \/ (mode = "guest" /\ at[mode] = "vmcall"),
         at[mode] = "op" => pc[mode] <= Len(script),
         vmcs'.inject = vmcs.inject \/ mode = "host",
         experiment_no = 0 => vmcs' = vmcs
  PROVE  WhereType' /\ Placed'
<1>1. /\ pc' = [pc EXCEPT ![mode] = @ + 1] /\ at' = [at EXCEPT ![mode] = "op"]
      /\ UNCHANGED <<experiment_no, state_no, mode, reason>>
  BY DEF Advance
<1>2. f' = f /\ handlers' = handlers
  BY <1>1 DEF f, handlers
<1>3. Len(f) \in 0..98
  BY GuestFits
<1>4. CASE mode = "guest"
  <2>1. pc.guest <= Len(f)
    BY <1>4 DEF Placed, script, Working
  <2>2. pc' = [guest |-> pc.guest + 1, host |-> pc.host] /\ at' = [guest |-> "op", host |-> at.host]
    BY <1>1, <1>4 DEF WhereType
  <2>3. WhereType'
    <3>1. pc.guest + 1 \in 1..100 /\ pc.host \in 1..10
      BY <1>3, <2>1, PcType, Positions
    <3>2. "op" \in Places /\ at.host \in Places
      BY DEF WhereType, Places
    <3>3. pc' \in [guest : 1..100, host : 1..10]
      BY <2>2, <3>1
    <3>4. at' \in [guest : Places, host : Places]
      BY <2>2, <3>2
    <3> QED
      BY <1>1, <3>3, <3>4 DEF WhereType
  <2>4. vmcs'.inject = vmcs.inject
    BY <1>4
  <2>5. Placed'
    <3>1. pc'.guest <= Len(f') + 1 /\ at'.guest = "op"
      BY <1>2, <1>3, <2>1, <2>2, PcType, Positions
    <3>2. vmcs'.inject = "none"
      BY <1>4, <2>4 DEF Placed
    <3> QED
      BY <1>1, <1>4, <3>1, <3>2 DEF Placed
  <2> QED BY <2>3, <2>5
<1>5. CASE mode = "host"
  <2> DEFINE h == handlers[state_no + 1]
  <2>1. experiment_no # 0 /\ state_no + 1 \in DOMAIN handlers /\ reason = "vmcall"
    BY <1>5 DEF Placed, Working
  <2>2. Len(h) \in 0..9 /\ pc.host <= Len(h)
    BY <1>5, <2>1, HostFits DEF Placed, script
  <2>3. pc' = [guest |-> pc.guest, host |-> pc.host + 1] /\ at' = [guest |-> at.guest, host |-> "op"]
    BY <1>1, <1>5 DEF WhereType
  <2>4. h' = h
    BY <1>1, <1>2
  <2> HIDE DEF h
  <2>5. WhereType'
    <3>1. pc.host + 1 \in 1..10 /\ pc.guest \in 1..100
      BY <2>2, PcType, Positions
    <3>2. "op" \in Places /\ at.guest \in Places
      BY DEF WhereType, Places
    <3>3. pc' \in [guest : 1..100, host : 1..10]
      BY <2>3, <3>1
    <3>4. at' \in [guest : Places, host : Places]
      BY <2>3, <3>2
    <3> QED
      BY <1>1, <3>3, <3>4 DEF WhereType
  <2>6. pc'.host <= Len(h') + 1
    BY <2>2, <2>3, <2>4, PcType, Positions
  <2>7. Placed'
    BY <1>1, <1>2, <1>5, <2>1, <2>3, <2>6 DEF Placed, WhereType, h
  <2> QED BY <2>5, <2>7
<1> QED BY <1>4, <1>5 DEF WhereType

\* A step within an operation.
LEMMA WithinKeeps ==
  ASSUME WhereType, Placed, at[mode] \in Working, at[mode] = "op" => pc[mode] <= Len(script),
         NEW x \in {"armed", "hlt", "woken", "iret"}, at' = [at EXCEPT ![mode] = x],
         UNCHANGED <<experiment_no, state_no, mode, pc, reason, vmcs>>
  PROVE  WhereType' /\ Placed'
<1>1. f' = f /\ handlers' = handlers
  BY DEF f, handlers
<1>2. x \in Places /\ at.guest \in Places /\ at.host \in Places /\ x \in Working /\ x \notin {"op", "done"}
  BY DEF Places, WhereType, Working
<1>3. CASE mode = "guest"
  <2>1. at' = [guest |-> x, host |-> at.host] /\ at[mode] = at.guest /\ at.guest # "done"
    BY <1>3 DEF WhereType, Working
  <2>2. at' \in [guest : Places, host : Places]
    BY <1>2, <2>1
  <2>3. WhereType'
    BY <2>2 DEF WhereType
  <2>4. pc.guest <= Len(f)
    BY <1>3, <2>1 DEF Placed, script
  <2>5. Placed'
    BY <1>1, <1>3, <2>4 DEF Placed
  <2> QED BY <2>3, <2>5
<1>4. CASE mode = "host"
  <2>1. at' = [guest |-> at.guest, host |-> x] /\ at.host \in Working
    BY <1>4 DEF WhereType
  <2>2. at' \in [guest : Places, host : Places]
    BY <1>2, <2>1
  <2>3. WhereType'
    BY <2>2 DEF WhereType
  <2>4. pc.host <= Len(handlers[state_no + 1])
    BY <1>4, <2>1 DEF Placed, script
  <2>5. reason = "vmcall"
    BY <1>4, <2>1 DEF Placed, Working
  <2>6. Placed'
    BY <1>1, <1>2, <1>4, <2>1, <2>4, <2>5 DEF Placed
  <2> QED BY <2>3, <2>6
<1> QED BY <1>3, <1>4 DEF WhereType

\* An interrupt handled without a VM exit.
LEMMA InterruptPlaced ==
  ASSUME WhereType, Placed, NmiInterrupt \/ IpiInterrupt
  PROVE  WhereType' /\ Placed'
<1>1. /\ at' = [at EXCEPT ![mode] = IF @ = "hlt" THEN "woken" ELSE @]
      /\ UNCHANGED <<experiment_no, state_no, mode, pc, reason, vmcs>>
  BY DEF NmiInterrupt, IpiInterrupt, Woken
<1>2. f' = f /\ handlers' = handlers
  BY <1>1 DEF f, handlers
<1>3. CASE at[mode] # "hlt"
  <2>1. at' = at
    BY <1>1, <1>3 DEF WhereType
  <2> QED
    BY <1>1, <1>2, <2>1 DEF WhereType, Placed
<1>4. CASE at[mode] = "hlt"
  <2>1. at' = [at EXCEPT ![mode] = "woken"] /\ at[mode] \in Working /\ at[mode] # "op"
    BY <1>1, <1>4 DEF Working
  <2> QED
    BY <1>1, <2>1, WithinKeeps
<1> QED
  BY <1>3, <1>4

\* A VM exit for an NMI or for the NMI window.
LEMMA EventExitPlaced ==
  ASSUME WhereType, VmcsType, Placed, NmiExit \/ WindowExit
  PROVE  WhereType' /\ Placed'
<1>1. /\ mode = "guest" /\ mode' = "host" /\ reason' \in {"nmi", "window"}
      /\ at' = [at EXCEPT !.host = "vmexit_asm"]
      /\ UNCHANGED <<experiment_no, state_no, pc>>
  BY DEF NmiExit, WindowExit, VmExit, WindowOpen
<1>2. vmcs'.inject = vmcs.inject
  BY DEF NmiExit, WindowExit, VmExit, VmcsType
<1>3. experiment_no # 0
  BY DEF NmiExit, WindowExit, WindowOpen, Placed
<1>4. f' = f /\ handlers' = handlers
  BY <1>1 DEF f, handlers
<1>5. at' = [guest |-> at.guest, host |-> "vmexit_asm"] /\ "vmexit_asm" \in Places
  BY <1>1 DEF WhereType, Places
<1>6. at' \in [guest : Places, host : Places]
  BY <1>5 DEF WhereType
<1>7. WhereType'
  BY <1>1, <1>6 DEF WhereType
<1>8. Placed'
  BY <1>1, <1>2, <1>3, <1>4, <1>5 DEF Placed, Working
<1> QED BY <1>7, <1>8

\* A VM exit for a vmcall.
LEMMA VmcallPlaced ==
  ASSUME WhereType, VmcsType, Placed, Vmcall
  PROVE  WhereType' /\ Placed'
<1>1. /\ mode' = "host" /\ reason' = "vmcall"
      /\ at' = [guest |-> "vmcall", host |-> "vmexit_asm"]
      /\ UNCHANGED <<experiment_no, pc>> /\ state_no' = Op.state_no /\ AtOp("vmcall")
  BY DEF Vmcall, VmExit
<1>2. mode = "guest" /\ Op.state_no \in 0..1 /\ experiment_no # 0
  BY <1>1, AtOpFits DEF GuestOp, HostOp, HostNames, WhereType
<1>3. pc.guest <= Len(f) /\ pc.guest <= Len(f) + 1
  BY <1>1, <1>2, AtOpFits DEF script, Placed
<1>4. at' \in [guest : Places, host : Places]
  BY <1>1 DEF Places
<1>5. WhereType'
  BY <1>1, <1>2, <1>4 DEF WhereType
<1>6. f' = f
  BY <1>1 DEF f
<1>7. Placed'
  BY <1>1, <1>2, <1>3, <1>6 DEF Placed, Working
<1> QED BY <1>5, <1>7

\* VM entry, and the handler of the event it injects.
LEMMA EntryPlaced ==
  ASSUME WhereType, VmcsType, Placed, VmEntry \/ InjectedHandler
  PROVE  WhereType' /\ Placed'
<1>1. /\ mode' = "guest" /\ UNCHANGED <<experiment_no, state_no, pc, reason>>
      /\ \E x : at' = [at EXCEPT !.guest = x]
  BY DEF VmEntry, InjectedHandler
<1>2. f' = f /\ at'.host = at.host
  BY <1>1 DEF f, WhereType
<1>3. /\ at'.guest \in Places
      /\ at'.guest \notin {"op", "done"} => at.guest \notin {"op", "done"}
  <2>1. CASE VmEntry
    <3>1. at'.guest = IF vmcs.inject # "none" THEN vmcs.inject
                      ELSE IF at.guest = "hlt" /\ ~ vmcs.hlt THEN "woken" ELSE at.guest
      BY <2>1 DEF VmEntry, WhereType
    <3>2. vmcs.inject # "none" => at.guest = "vmcall"
      BY DEF Placed
    <3>3. at.guest \in Places /\ vmcs.inject \in {"none", "nmi_stub", "kbd_stub"}
      BY DEF WhereType, VmcsType
    <3> QED
      BY <3>1, <3>2, <3>3 DEF Places
  <2>2. CASE InjectedHandler
    BY <2>2 DEF InjectedHandler, WhereType, Places
  <2> QED BY <2>1, <2>2
<1>4. vmcs'.inject = "none"
  <2>1. CASE VmEntry
    BY <2>1 DEF VmEntry, VmcsType
  <2>2. CASE InjectedHandler
    BY <2>2 DEF InjectedHandler, Placed
  <2> QED BY <2>1, <2>2
<1>5. vmcs'.nmi_exiting = vmcs.nmi_exiting /\ vmcs'.nmi_windowing = vmcs.nmi_windowing
  BY DEF VmEntry, InjectedHandler, VmcsType
<1>6. at' \in [guest : Places, host : Places]
  BY <1>1, <1>3 DEF WhereType
<1>7. WhereType'
  BY <1>1, <1>6 DEF WhereType
<1>8. Placed'
  BY <1>1, <1>2, <1>3, <1>4, <1>5 DEF Placed
<1> QED BY <1>7, <1>8

\* shv_nmi_vmexit_handler; a vmcall without a handler fails.
LEMMA HypervisorPlaced ==
  ASSUME WhereType, VmcsType, Placed,
         HandleNmiExit \/ HandleWindowExit \/ Dispatch \/ HandlerReturn
  PROVE  WhereType' /\ (~failed' => Placed')
<1>1. /\ mode = "host" /\ UNCHANGED <<experiment_no, state_no, mode, reason>>
      /\ \E x \in {"op", "vmresume"} : at' = [at EXCEPT !.host = x]
  BY DEF HandleNmiExit, HandleWindowExit, Dispatch, HandlerReturn
<1>2. f' = f /\ handlers' = handlers /\ experiment_no # 0
  BY <1>1 DEF f, handlers, Placed
<1>3. /\ vmcs'.inject = vmcs.inject
      /\ pc'.guest = pc.guest /\ pc' \in [guest : 1..100, host : 1..10]
  <2>1. vmcs'.inject = vmcs.inject
    BY DEF HandleNmiExit, HandleWindowExit, Dispatch, HandlerReturn, VmcsType
  <2>2. pc' = pc \/ pc' = [pc EXCEPT !.host = 1]
    BY DEF HandleNmiExit, HandleWindowExit, Dispatch, HandlerReturn
  <2>3. pc'.guest = pc.guest /\ pc' \in [guest : 1..100, host : 1..10]
    BY <2>2 DEF WhereType
  <2> QED BY <2>1, <2>3
<1>4. at'.guest = at.guest /\ at' \in [guest : Places, host : Places]
  BY <1>1 DEF WhereType, Places
<1>5. WhereType'
  BY <1>1, <1>3, <1>4 DEF WhereType
<1>6. ~failed' /\ at'.host \in Working =>
        /\ state_no + 1 \in DOMAIN handlers
        /\ pc'.host <= Len(handlers[state_no + 1]) + 1
        /\ at'.host = "op" /\ reason = "vmcall"
  <2>1. CASE Dispatch
    <3>0. ~failed' => state_no + 1 \in DOMAIN handlers
      BY <2>1 DEF Dispatch
    <3>1. pc'.host = 1 /\ reason = "vmcall" /\ at'.host = "op"
      BY <2>1 DEF Dispatch, WhereType
    <3>2. ASSUME ~failed' PROVE 1 <= Len(handlers[state_no + 1]) + 1
      <4>1. PICK n \in 0..9 : n = Len(handlers[state_no + 1])
        BY <1>2, <3>0, <3>2, HostFits
      <4> QED
        BY <4>1
    <3> QED
      BY <3>0, <3>1, <3>2
  <2>2. CASE ~Dispatch
    BY <2>2 DEF HandleNmiExit, HandleWindowExit, HandlerReturn, Working, WhereType
  <2> QED BY <2>1, <2>2
<1>7. ~failed' /\ reason # "vmcall" => at'.host = "vmresume"
  BY <1>1, <1>4, <1>6 DEF Working, WhereType
<1>8. ~failed' => Placed'
  BY <1>1, <1>2, <1>3, <1>4, <1>6, <1>7 DEF Placed
<1> QED BY <1>5, <1>8

\* The operations.
LEMMA OperationPlaced ==
  ASSUME WhereType, VmcsType, Placed,
         \/ VmcallDone \/ HltBegin \/ HltSleep \/ StrangeWakeup \/ HltAgain \/ HltEnd
         \/ Iret \/ IretEnd \/ ExitSourceMeasure
         \/ PrepareMeasure \/ PrepareMeasure2 \/ AssertMeasure \/ AssertMeasure2
         \/ GetBlockingByNmi \/ SetState \/ AssertState \/ Inject
  PROVE  WhereType' /\ Placed'
<1>1. CASE HltBegin \/ Iret
  <2>1. /\ \E x \in {"armed", "hlt", "woken", "iret"} : at' = [at EXCEPT ![mode] = x]
        /\ UNCHANGED <<experiment_no, state_no, mode, pc, reason, vmcs>>
        /\ at[mode] = "op" /\ pc[mode] <= Len(script)
    BY <1>1 DEF HltBegin, Iret, AtOp
  <2> QED
    BY <2>1, WithinKeeps DEF Working
<1>2. CASE HltSleep \/ StrangeWakeup \/ HltAgain
  <2>1. /\ \E x \in {"armed", "hlt", "woken", "iret"} : at' = [at EXCEPT ![mode] = x]
        /\ UNCHANGED <<experiment_no, state_no, mode, pc, reason, vmcs>>
        /\ at[mode] \in Working /\ at[mode] # "op"
    BY <1>2 DEF HltSleep, StrangeWakeup, HltAgain, Working
  <2> QED
    BY <2>1, WithinKeeps
<1>3. CASE VmcallDone
  BY <1>3, AdvanceKeeps DEF VmcallDone
<1>4. CASE HltEnd \/ IretEnd
  BY <1>4, AdvanceKeeps DEF HltEnd, IretEnd, Working
<1>5. CASE \/ ExitSourceMeasure \/ PrepareMeasure \/ PrepareMeasure2 \/ AssertMeasure
           \/ AssertMeasure2 \/ GetBlockingByNmi \/ AssertState
  <2>1. Advance /\ vmcs' = vmcs /\ at[mode] = "op" /\ pc[mode] <= Len(script)
    BY <1>5 DEF ExitSourceMeasure, PrepareMeasure, PrepareMeasure2, AssertMeasure,
                AssertMeasure2, GetBlockingByNmi, AssertState, AtOp
  <2> QED
    BY <2>1, AdvanceKeeps DEF Working
<1>6. CASE SetState \/ Inject
  <2>1. Advance /\ at[mode] = "op" /\ pc[mode] <= Len(script)
    BY <1>6 DEF SetState, Inject, AtOp
  <2>2. \E o \in {"set_state", "set_inject_nmi", "inject_keyboard"} : AtOp(o)
    BY <1>6 DEF SetState, Inject
  <2>3. mode = "host" /\ experiment_no # 0
    BY <2>2, AtOpFits DEF GuestOp, GuestNames, WhereType
  <2> QED
    BY <2>1, <2>3, AdvanceKeeps DEF Working
<1> QED
  BY <1>1, <1>2, <1>3, <1>4, <1>5, <1>6

\* shv_nmi_guest_main between the experiments.
LEMMA MainPlaced ==
  ASSUME WhereType, Placed, RunExperiment \/ AllTestPass
  PROVE  WhereType' /\ Placed'
<1>1. mode = "guest" /\ at.guest = "op" /\ UNCHANGED <<mode, reason, vmcs>>
  BY DEF RunExperiment, AllTestPass, AtEnd
<1>2. CASE RunExperiment
  <2>1. PICK i \in ExpMask : experiment_no' = i
    BY <1>2 DEF RunExperiment
  <2>2. i \in 1..30 /\ state_no' = 0 /\ at' = at /\ pc' = [pc EXCEPT !.guest = 1]
    BY <1>2, <2>1, NmiAssumption DEF RunExperiment
  <2>3. experiment_no' # 0 /\ f' = experiments[i].f
    BY <2>1, <2>2 DEF f
  <2>4. PICK n \in 0..98 : n = Len(f')
    BY <2>2, <2>3, ExperimentsFit DEF Fits, GuestCode
  <2>5. pc'.guest = 1 /\ pc' \in [guest : 1..100, host : 1..10]
    BY <2>2 DEF WhereType
  <2>6. WhereType'
    BY <1>1, <2>1, <2>2, <2>5 DEF WhereType
  <2>7. pc'.guest <= Len(f') + 1
    BY <2>4, <2>5
  <2> QED
    BY <1>1, <2>2, <2>3, <2>6, <2>7 DEF Placed
<1>3. CASE AllTestPass
  <2>1. UNCHANGED <<experiment_no, state_no, pc>> /\ at' = [at EXCEPT !.guest = "done"]
    BY <1>3 DEF AllTestPass
  <2>2. f' = f /\ at'.guest = "done" /\ at' \in [guest : Places, host : Places]
    BY <2>1 DEF f, WhereType, Places
  <2> QED
    BY <1>1, <2>1, <2>2 DEF WhereType, Placed
<1> QED BY <1>2, <1>3

\* handle_interrupt_cpu1 records a source and an address.
LEMMA RecordType ==
  ASSUME TestType, NEW s \in Sources, NEW p \in Rips, handle_interrupt_cpu1(s, p)
  PROVE  TestType'
<1>1. exit' \in [source : Sources, rip : Rips, source_old : Sources, rip_old : Rips]
  <2>1. "MEASURE" \in Sources
    BY DEF Sources
  <2>2. exit' = Recorded(s, p)
    BY DEF handle_interrupt_cpu1
  <2> QED
    BY <2>1, <2>2 DEF TestType, Recorded
<1>2. l2_ready' \in 0..1
  BY DEF handle_interrupt_cpu1
<1>3. failed' \in BOOLEAN
  BY Zenon DEF handle_interrupt_cpu1
<1> QED
  BY <1>1, <1>2, <1>3 DEF TestType

\* The address that an interrupt pushes.
LEMMA RipType ==
  ASSUME NEW p \in Places PROVE Rip(p) \in Rips
  BY DEF Places, Rip, Rips

\* The results of the tests.
LEMMA NextTest ==
  ASSUME WhereType, TestType, Next
  PROVE  TestType'
<1>0. at.guest \in Places /\ at[mode] \in Places /\ "vmcall" \in Rips
      /\ {"NMI_G", "NMI_H", "TIMER_G", "TIMER_H", "VMEXIT", "NMIWIND"} \subseteq Sources
  BY DEF WhereType, Rips, Sources
<1>1. CASE \/ NmiInterrupt \/ IpiInterrupt \/ HandleNmiExit \/ HandleWindowExit
           \/ InjectedHandler
  <2>1. (\E s \in Sources, p \in Rips : handle_interrupt_cpu1(s, p))
        \/ UNCHANGED <<l2_ready, exit, failed>>
    BY <1>0, <1>1, RipType DEF NmiInterrupt, IpiInterrupt, HandleNmiExit, HandleWindowExit,
                               InjectedHandler
  <2> QED
    BY <2>1, RecordType DEF TestType
<1>2. CASE \/ HltBegin \/ HltAgain \/ HltEnd \/ Iret \/ IretEnd \/ ExitSourceMeasure
           \/ PrepareMeasure \/ PrepareMeasure2 \/ AssertMeasure \/ AssertMeasure2
           \/ GetBlockingByNmi \/ AssertState \/ Inject \/ AllTestPass \/ Dispatch
  <2>1. exit' \in {exit, Cleared, Nothing, [Nothing EXCEPT !.source = "MEAS_2"],
                   [exit EXCEPT !.source = "MEASURE"]}
    BY <1>2 DEF HltBegin, HltAgain, HltEnd, Iret, IretEnd, ExitSourceMeasure,
       PrepareMeasure,
       PrepareMeasure2, AssertMeasure, AssertMeasure2, GetBlockingByNmi, AssertState, Inject,
       AllTestPass, Dispatch
  <2>2. exit' \in [source : Sources, rip : Rips, source_old : Sources, rip_old : Rips]
    <3>1. "MEASURE" \in Sources /\ "MEAS_2" \in Sources /\ "none" \in Rips
      BY DEF Sources, Rips
    <3>2. Nothing \in [source : Sources, rip : Rips, source_old : Sources, rip_old : Rips]
      BY <3>1 DEF Nothing
    <3>3. Cleared \in [source : Sources, rip : Rips, source_old : Sources, rip_old : Rips]
      BY <3>1 DEF Cleared, TestType
    <3>4. [exit EXCEPT !.source = "MEASURE"]
            \in [source : Sources, rip : Rips, source_old : Sources, rip_old : Rips]
      BY <3>1 DEF TestType
    <3>5. [Nothing EXCEPT !.source = "MEAS_2"]
            \in [source : Sources, rip : Rips, source_old : Sources, rip_old : Rips]
      BY <3>1, <3>2
    <3> QED
      BY <2>1, <3>2, <3>3, <3>4, <3>5 DEF TestType
  <2>3. l2_ready' \in 0..1
    BY <1>2 DEF HltBegin, HltAgain, HltEnd, Iret, IretEnd, ExitSourceMeasure,
       PrepareMeasure,
       PrepareMeasure2, AssertMeasure, AssertMeasure2, GetBlockingByNmi, AssertState, Inject,
       AllTestPass, Dispatch, TEST_ASSERT, Bit, TestType
  <2>4. failed' \in BOOLEAN
    BY <1>2, Zenon DEF HltBegin, HltAgain, HltEnd, Iret, IretEnd, ExitSourceMeasure,
       PrepareMeasure, PrepareMeasure2, AssertMeasure, AssertMeasure2, GetBlockingByNmi,
       AssertState, Inject, AllTestPass, Dispatch, TEST_ASSERT, TestType
  <2> QED
    BY <2>2, <2>3, <2>4 DEF TestType
<1>3. CASE \/ NmiExit \/ WindowExit \/ VmEntry \/ HandlerReturn \/ Vmcall \/ VmcallDone
           \/ HltSleep \/ SetState \/ RunExperiment \/ StrangeWakeup \/ Tick \/ IdleTick
           \/ Arrive
  <2>1. UNCHANGED <<l2_ready, exit, failed>>
    BY <1>3 DEF NmiExit, WindowExit, VmEntry, HandlerReturn, Vmcall, VmcallDone, HltSleep,
       SetState, RunExperiment, StrangeWakeup, Tick, IdleTick, Arrive
  <2> QED
    BY <2>1 DEF TestType
<1> QED
  BY <1>1, <1>2, <1>3 DEF Next, Cpu1

\* The fields of the VMCS.
LEMMA NextVmcs ==
  ASSUME WhereType, VmcsType, ~failed => Placed, Next
  PROVE  VmcsType'
<1>1. CASE NmiExit \/ WindowExit \/ Vmcall
  <2>1. vmcs' = [vmcs EXCEPT
                   !.blocking = Bit(IF vmcs.virtual_nmis = 1 THEN vblock ELSE block),
                   !.hlt = (at.guest = "hlt")]
    BY <1>1 DEF NmiExit, WindowExit, Vmcall, VmExit
  <2>2. Bit(IF vmcs.virtual_nmis = 1 THEN vblock ELSE block) \in 0..1
    BY DEF Bit
  <2>3. (at.guest = "hlt") \in BOOLEAN
    OBVIOUS
  <2> QED
    BY <2>1, <2>2, <2>3 DEF VmcsType
<1>2. CASE VmEntry \/ HandleNmiExit \/ HandleWindowExit \/ Inject
  <2>1. \/ \E x \in {"none", "nmi_stub", "kbd_stub"} : vmcs' = [vmcs EXCEPT !.inject = x]
        \/ vmcs' = [vmcs EXCEPT !.hlt = FALSE]
        \/ vmcs' = [vmcs EXCEPT !.nmi_windowing = 0]
    BY <1>2 DEF VmEntry, HandleNmiExit, HandleWindowExit, Inject, ActivityWritten
  <2>2. CASE \E x \in {"none", "nmi_stub", "kbd_stub"} : vmcs' = [vmcs EXCEPT !.inject = x]
    BY <2>2 DEF VmcsType
  <2>3. CASE vmcs' = [vmcs EXCEPT !.hlt = FALSE]
    BY <2>3 DEF VmcsType
  <2>4. CASE vmcs' = [vmcs EXCEPT !.nmi_windowing = 0]
    BY <2>4 DEF VmcsType
  <2> QED
    BY <2>1, <2>2, <2>3, <2>4
<1>3. CASE SetState
  <2>1. ~failed /\ AtOp("set_state") /\ vmcs' = StateWritten(Op)
    BY <1>3 DEF SetState, Running
  <2>2. Control(Op)
    BY <2>1, AtOpFits DEF GuestOp, GuestNames, HostOp, WhereType
  <2> QED
    BY <2>1, <2>2 DEF Control, StateWritten, VmcsType
<1>4. CASE \/ NmiInterrupt \/ IpiInterrupt \/ InjectedHandler \/ Dispatch \/ HandlerReturn
           \/ VmcallDone \/ HltBegin \/ HltSleep \/ HltAgain \/ HltEnd \/ Iret \/ IretEnd
           \/ ExitSourceMeasure \/ PrepareMeasure \/ PrepareMeasure2 \/ AssertMeasure
           \/ AssertMeasure2 \/ GetBlockingByNmi \/ AssertState \/ RunExperiment
           \/ AllTestPass \/ StrangeWakeup \/ Tick \/ IdleTick \/ Arrive
  <2>1. vmcs' = vmcs
    BY <1>4 DEF NmiInterrupt, IpiInterrupt, InjectedHandler, Dispatch, HandlerReturn,
       VmcallDone, HltBegin, HltSleep, HltAgain, HltEnd, Iret, IretEnd, ExitSourceMeasure,
       PrepareMeasure, PrepareMeasure2, AssertMeasure, AssertMeasure2, GetBlockingByNmi,
       AssertState, RunExperiment, AllTestPass, StrangeWakeup, Tick, IdleTick, Arrive
  <2> QED
    BY <2>1 DEF VmcsType
<1> QED
  BY <1>1, <1>2, <1>3, <1>4 DEF Next, Cpu1

\* The processor's blocking and pending interrupts.
LEMMA NextCpu ==
  ASSUME CpuType, BspType, Next
  PROVE  CpuType'
<1>1. pend' \subseteq IPIs
  <2>1. CASE NmiInterrupt \/ IpiInterrupt \/ NmiExit
    BY <2>1 DEF NmiInterrupt, IpiInterrupt, NmiExit, CpuType
  <2>2. CASE Arrive
    BY <2>2 DEF Arrive, CpuType, BspType
  <2>3. CASE ~(NmiInterrupt \/ IpiInterrupt \/ NmiExit \/ Arrive)
    <3>1. pend' = pend
      BY <2>3 DEF Next, Cpu1, WindowExit, VmEntry, InjectedHandler, HandleNmiExit,
         HandleWindowExit, Dispatch, HandlerReturn, Vmcall, VmcallDone, HltBegin, HltSleep,
         HltAgain, HltEnd, Iret, IretEnd, ExitSourceMeasure, PrepareMeasure, PrepareMeasure2,
         AssertMeasure, AssertMeasure2, GetBlockingByNmi, SetState, AssertState, Inject,
         RunExperiment, AllTestPass, StrangeWakeup, Tick, IdleTick, cpu
    <3> QED
      BY <3>1 DEF CpuType
  <2> QED
    BY <2>1, <2>2, <2>3
<1>2. block' \in BOOLEAN /\ vblock' \in BOOLEAN /\ guestIF' \in BOOLEAN
  <2>1. CASE NmiInterrupt \/ NmiExit
    BY <2>1, Zenon DEF NmiInterrupt, NmiExit, CpuType
  <2>2. CASE VmEntry
    BY <2>2, Zenon DEF VmEntry, CpuType
  <2>3. CASE Iret
    BY <2>3, Zenon DEF Iret, CpuType
  <2>4. CASE RunExperiment
    BY <2>4, Zenon DEF RunExperiment, CpuType
  <2>5. CASE ~(NmiInterrupt \/ NmiExit \/ VmEntry \/ Iret \/ RunExperiment)
    <3>1. UNCHANGED <<block, vblock, guestIF>>
      BY <2>5 DEF Next, Cpu1, IpiInterrupt, WindowExit, InjectedHandler, HandleNmiExit,
         HandleWindowExit, Dispatch, HandlerReturn, Vmcall, VmcallDone, HltBegin, HltSleep,
         HltAgain, HltEnd, IretEnd, ExitSourceMeasure, PrepareMeasure, PrepareMeasure2,
         AssertMeasure, AssertMeasure2, GetBlockingByNmi, SetState, AssertState, Inject,
         AllTestPass, StrangeWakeup, Tick, IdleTick, Arrive, cpu
    <3> QED
      BY <3>1, Zenon DEF CpuType
  <2> QED
    BY <2>1, <2>2, <2>3, <2>4, <2>5
<1> QED
  BY <1>1, <1>2 DEF CpuType

\* The BSP's counter, and what it has sent.
LEMMA NextBsp ==
  ASSUME BspType, Next
  PROVE  BspType'
<1>1. CASE Tick
  <2>1. inflight' \subseteq IPIs
    BY <1>1 DEF Tick, Sent, BspType, IPIs
  <2>2. count' \in 0..(2 * interrupt_period)
    BY <1>1, NmiAssumption DEF Tick, BspType
  <2>3. AtRest \/ lag < Lag
    BY <1>1 DEF Tick
  <2>4. lag' \in 0..Lag
    BY <1>1, <2>3, NmiAssumption DEF Tick, BspType
  <2> QED
    BY <2>1, <2>2, <2>4 DEF BspType
<1>2. CASE IdleTick \/ Arrive
  BY <1>2, NmiAssumption DEF IdleTick, Arrive, BspType
<1>3. CASE ~(Tick \/ IdleTick \/ Arrive)
  <2>1. UNCHANGED bsp
    BY <1>3 DEF Next, Cpu1, NmiInterrupt, IpiInterrupt, NmiExit, WindowExit, VmEntry,
       InjectedHandler, HandleNmiExit, HandleWindowExit, Dispatch, HandlerReturn, Vmcall,
       VmcallDone, HltBegin, HltSleep, HltAgain, HltEnd, Iret, IretEnd, ExitSourceMeasure,
       PrepareMeasure, PrepareMeasure2, AssertMeasure, AssertMeasure2, GetBlockingByNmi,
       SetState, AssertState, Inject, RunExperiment, AllTestPass, StrangeWakeup
  <2> QED
    BY <2>1 DEF bsp, BspType
<1> QED BY <1>1, <1>2, <1>3

\* Where CPU 1 is after a step.
LEMMA NextPlaced ==
  ASSUME WhereType, VmcsType, ~failed => Placed, Next
  PROVE  WhereType' /\ (~failed' => Placed')
<1>1. CASE Cpu1 \/ StrangeWakeup
  <2>1. Placed
    BY <1>1 DEF Cpu1, NmiInterrupt, IpiInterrupt, NmiExit, WindowExit, VmEntry,
       InjectedHandler, HandleNmiExit, HandleWindowExit, Dispatch, HandlerReturn, Vmcall,
       VmcallDone, HltBegin, HltSleep, HltAgain, HltEnd, Iret, IretEnd, ExitSourceMeasure,
       PrepareMeasure, PrepareMeasure2, AssertMeasure, AssertMeasure2, GetBlockingByNmi,
       SetState, AssertState, Inject, RunExperiment, AllTestPass, StrangeWakeup, Running
  <2> QED
    BY <1>1, <2>1, InterruptPlaced, EventExitPlaced, EntryPlaced, HypervisorPlaced,
       VmcallPlaced, OperationPlaced, MainPlaced DEF Cpu1
<1>2. CASE Tick \/ IdleTick \/ Arrive
  <2>1. UNCHANGED <<experiment_no, state_no, mode, pc, at, reason, vmcs, failed>>
    BY <1>2 DEF Tick, IdleTick, Arrive, where
  <2>2. WhereType'
    BY <2>1 DEF WhereType
  <2>3. Placed => Placed'
    BY <2>1 DEF Placed, f, handlers
  <2>4. failed' = failed
    BY <2>1
  <2> QED
    BY <2>2, <2>3, <2>4
<1> QED BY <1>1, <1>2 DEF Next

----------------------------------------------------------------------------
\* The inductive invariant.
NmiInv == TypeOK /\ (~failed => Placed)

\* It holds initially, and every step keeps it.
LEMMA InitInv == ASSUME Init PROVE NmiInv
<1>1. TypeOK
  <2>1. WhereType
    BY DEF Init, WhereType, Places
  <2>2. TestType
    <3>1. "MEASURE" \in Sources /\ "none" \in Rips
      BY DEF Sources, Rips
    <3>2. Nothing \in [source : Sources, rip : Rips, source_old : Sources, rip_old : Rips]
      BY <3>1 DEF Nothing
    <3>3. l2_ready = 0 /\ exit = Nothing
      BY DEF Init
    <3>4. failed \in BOOLEAN
      BY Zenon DEF Init
    <3> QED
      BY <3>2, <3>3, <3>4 DEF TestType
  <2>3. VmcsType
    BY DEF Init, VmcsType
  <2>4. CpuType
    BY DEF Init, CpuType
  <2>5. BspType
    BY NmiAssumption DEF Init, BspType
  <2> QED
    BY <2>1, <2>2, <2>3, <2>4, <2>5, TypeParts
<1>2. Placed
  <2>1. PICK n \in 0..98 : n = Len(f)
    BY <1>1, GuestFits, TypeParts
  <2>2. pc.guest <= Len(f) + 1
    BY <2>1 DEF Init
  <2> QED
    BY <2>2 DEF Init, Placed, Working
<1> QED BY <1>1, <1>2 DEF NmiInv

LEMMA NextInv == ASSUME NmiInv, [Next]_vars PROVE NmiInv'
<1>1. CASE Next
  <2>1. WhereType /\ TestType /\ VmcsType /\ CpuType /\ BspType /\ (~failed => Placed)
    BY TypeParts DEF NmiInv
  <2>2. WhereType' /\ (~failed' => Placed')
    BY <1>1, <2>1, NextPlaced
  <2>3. TestType' /\ VmcsType' /\ CpuType' /\ BspType'
    BY <1>1, <2>1, NextTest, NextVmcs, NextCpu, NextBsp
  <2> QED
    BY <2>2, <2>3, TypePartsNext, Zenon DEF NmiInv
<1>2. CASE UNCHANGED vars
  BY <1>2 DEF vars, where, cpu, bsp, NmiInv, TypeOK, Placed, f, handlers
<1> QED BY <1>1, <1>2

\* The inductive invariant holds in every behaviour: in particular CPU 1 never
\* runs past the end of an experiment or of a handler, and the host runs a
\* handler of shv_nmi_vmcall_dispatcher only if the experiment has it.
THEOREM InvAlways == Spec => []NmiInv
  BY InitInv, NextInv, PTL DEF Spec

\* Every variable of the NMI test keeps its type, whatever the period, the lag
\* and the mask of experiments, and whether or not a test fails.
THEOREM TypeCorrect == Spec => []TypeOK
<1>1. NmiInv => TypeOK
  BY DEF NmiInv
<1> QED BY <1>1, InvAlways, PTL

----------------------------------------------------------------------------
(* The ticks of the BSP. *)

\* TicksToSend without a remainder.
Left == IF count <= interrupt_period THEN interrupt_period - count
        ELSE 2 * interrupt_period - count

\* n % p for n up to 2 * p.
LEMMA Remainder ==
  ASSUME NEW p \in Nat \ {0}, NEW n \in Nat
  PROVE  /\ n < p => n % p = n
         /\ p <= n /\ n < 2 * p => n % p = n - p
         /\ n = 2 * p => n % p = 0
<1>1. n % p = n - p * (n \div p) /\ n \div p \in Nat /\ n % p \in 0..(p - 1)
  BY Z3
<1> DEFINE q == n \div p
<1>2. q \in Nat /\ n % p = n - p * q /\ n % p >= 0 /\ n % p < p
  BY <1>1
<1> HIDE DEF q
<1>3. n < p => q = 0
  <2>1. q >= 1 => p * q >= p
    BY <1>2, Z3
  <2> QED BY <1>2, <2>1
<1>4. n < 2 * p => q <= 1
  <2>1. q >= 2 => p * q >= 2 * p
    BY <1>2, Z3
  <2> QED BY <1>2, <2>1
<1>5. p <= n => q >= 1
  <2>1. q = 0 => p * q = 0
    BY <1>2
  <2> QED BY <1>2, <2>1
<1>6. n = 2 * p => q = 2
  <2>1. q >= 3 => p * q >= 3 * p
    BY <1>2, Z3
  <2>2. q = 1 => p * q = p
    BY <1>2
  <2>3. q = 0 => p * q = 0
    BY <1>2
  <2> QED BY <1>2, <2>1, <2>2, <2>3
<1> QED
  BY <1>2, <1>3, <1>4, <1>5, <1>6

\* The BSP sends when no tick is left, and one IPI at most.
LEMMA TicksLeft ==
  ASSUME count \in 0..(2 * interrupt_period)
  PROVE  /\ count # 0 => TicksToSend = Left
         /\ count = 0 => TicksToSend = 0
         /\ Sent # {} => count = 0 \/ Left = 0
         /\ Sent \in {{}, {"nmi"}, {"ipi"}}
<1> DEFINE P == interrupt_period
<1>0. P \in Nat \ {0} /\ count \in Nat /\ 2 * P \in Nat \ {0} /\ 2 * P - count \in Nat
  BY NmiAssumption
<1>1. count # 0 => TicksToSend = Left
  <2>1. CASE count = 0
    BY <2>1
  <2>2. CASE count # 0 /\ count <= P
    <3>1. P <= 2 * P - count /\ 2 * P - count < 2 * P
      BY <1>0, <2>2
    <3>2. (2 * P - count) % P = (2 * P - count) - P
      BY <1>0, <3>1, Remainder
    <3> QED
      BY <1>0, <2>2, <3>2 DEF TicksToSend, Left
  <2>3. CASE count > P
    <3>1. 2 * P - count < P
      BY <1>0, <2>3
    <3>2. (2 * P - count) % P = 2 * P - count
      BY <1>0, <3>1, Remainder
    <3> QED
      BY <1>0, <2>3, <3>2 DEF TicksToSend, Left
  <2> QED BY <1>0, <2>1, <2>2, <2>3
<1>2. count = 0 => TicksToSend = 0
  BY <1>0, Remainder DEF TicksToSend
<1>3. count # 2 * P => count % (2 * P) = count
  BY <1>0, Remainder
<1>4. Sent # {} => count = 0 \/ Left = 0
  BY <1>0, <1>3 DEF Sent, Left
<1> QED
  BY <1>1, <1>2, <1>4 DEF Sent

----------------------------------------------------------------------------
(* The protocol of l2_ready. *)

\* The place of CPU 1, and the places of hlt_wait.
Here == at[mode]
Waiting == Here \in {"armed", "hlt", "woken"}

\* The NMI that hlt_wait waits for has made the guest exit.
Exiting == mode = "host" /\ reason = "nmi" /\ at.guest = "hlt"
Exited == Exiting /\ at.host = "vmexit_asm"

\* An interrupt is on its way, or CPU 1 has not yet come to handle it.
Event == NmiDeliverable \/ "ipi" \in pend \/ inflight # {} \/ Exiting

\* The interrupt has been recorded as one that hit the hlt.
Recording == exit.source # "MEASURE" /\ exit.rip = "hlt"

\* What the host does, and what the guest was doing.
HostSide ==
  /\ mode = "host" /\ reason = "vmcall" => at.guest = "vmcall"
  /\ mode = "host" /\ reason # "vmcall" => at.host \in {"vmexit_asm", "vmresume"}
  /\ vmcs.inject # "none" => mode = "host" /\ reason = "vmcall"
  /\ mode = "host" /\ at.guest \in {"armed", "hlt", "woken"} => Exiting
  /\ Exiting /\ at.host = "vmresume" => ~vmcs.hlt

\* l2_ready is set as long as CPU 1 waits and nothing has been recorded.
ReadySide ==
  /\ l2_ready = 1 => (Waiting \/ Exited) /\ exit.source = "MEASURE"
  /\ Here \in {"armed", "hlt"} \/ Exited => l2_ready = 1
  /\ l2_ready = 0 /\ (Waiting \/ Exiting) => Recording

\* One interrupt at a time, and only where CPU 1 sleeps.
EventSide ==
  /\ inflight # {} => /\ Here = "hlt"
                      /\ inflight = {"nmi"} \/ inflight = {"ipi"}
                      /\ ~NmiDeliverable /\ "ipi" \notin pend
  /\ "ipi" \in pend => Here = "hlt" /\ ~NmiDeliverable
  /\ Here \in {"armed", "woken"} => ~NmiDeliverable
  /\ Exiting => "nmi" \notin pend
  /\ Waiting => ~WindowOpen
  /\ Exiting /\ vmcs.nmi_windowing = 1 /\ vmcs.virtual_nmis = 1 => vmcs.blocking = 1

\* The BSP's next interrupt is far enough.
TickSide ==
  /\ l2_ready = 0 => count = 0 \/ Left >= Lag
  /\ l2_ready = 1 /\ Event => count # 0 /\ Left + lag >= interrupt_period - 1
  /\ l2_ready = 1 /\ Here \in {"armed", "woken"} => count = 0 \/ Left + lag >= Lag

\* The invariant of the protocol.
Protocol == HostSide /\ ReadySide /\ EventSide /\ TickSide

\* What CPU 1 and the BSP must keep to.
Timely == FirstTickInHlt /\ 2 * Lag < interrupt_period

\* Only the host injects.
NoInject == AtOp("set_inject_nmi") \/ AtOp("inject_keyboard") => mode = "host"

LEMMA InjectsInHost ==
  ASSUME NmiInv, ~failed
  PROVE  NoInject
<1>1. WhereType /\ Placed
  BY TypeParts DEF NmiInv
<1> QED
  BY <1>1, AtOpFits DEF NoInject, GuestOp, GuestNames, WhereType

\* CPU 1 starts outside hlt_wait.
LEMMA InitProtocol == ASSUME Init, Timely PROVE Protocol
<1>1. HostSide
  BY DEF Init, HostSide, Exiting
<1>2. ReadySide
  BY DEF Init, ReadySide, Waiting, Exited, Exiting, Here
<1>3. EventSide
  BY DEF Init, EventSide, Waiting, Exiting, Here, NmiDeliverable, WindowOpen
<1>4. TickSide
  BY DEF Init, TickSide, Event, Here
<1> QED
  BY <1>1, <1>2, <1>3, <1>4 DEF Protocol

\* The types of the tick counters.
LEMMA LeftType ==
  ASSUME TypeOK
  PROVE  /\ Left \in Nat /\ lag \in Nat /\ lag <= Lag /\ Lag \in Nat
         /\ interrupt_period \in Nat \ {0}
  BY NmiAssumption DEF TypeOK, Left

\* Once the interrupt is handled the next one is far.
LEMMA FarAfter ==
  ASSUME TypeOK, TickSide, Timely, l2_ready = 0 \/ Event
  PROVE  count = 0 \/ Left >= Lag
<1>1. l2_ready \in {0, 1}
  BY DEF TypeOK
<1> QED
  BY <1>1, LeftType DEF TickSide, Timely

\* Handling an NMI without a VM exit.
LEMMA NmiInterruptKeeps ==
  ASSUME TypeOK, Protocol, Timely, NmiInterrupt, ~failed' PROVE Protocol'
<1> DEFINE src == IF mode = "guest" THEN "NMI_G" ELSE "NMI_H"
<1>1. /\ mode' = mode /\ reason' = reason /\ vmcs' = vmcs
      /\ at' = [at EXCEPT ![mode] = IF @ = "hlt" THEN "woken" ELSE @]
      /\ l2_ready' = 0 /\ pend' = pend \ {"nmi"}
      /\ UNCHANGED <<vblock, inflight, count, lag>>
      /\ exit' = Recorded(src, Rip(at[mode]))
  BY DEF NmiInterrupt, Woken, handle_interrupt_cpu1, bsp
<1>2. block' = TRUE /\ NmiDeliverable
  BY DEF NmiInterrupt
<1>4. HostSide'
  BY <1>1 DEF HostSide, Exiting, Protocol, TypeOK
<1>5. ReadySide'
  <2>1. Waiting => Here = "hlt"
    BY <1>2 DEF Protocol, EventSide, Waiting
  <2>2. ~Exiting
    BY <1>2 DEF Protocol, EventSide, NmiDeliverable
  <2>3. Waiting => exit' = [exit EXCEPT !.source = src, !.rip = "hlt"]
    BY <1>1, <2>1 DEF Protocol, ReadySide, Here, Recorded, Rip
  <2>4. Waiting => Recording'
    BY <2>3 DEF Recording, TypeOK
  <2>5. Waiting' <=> Waiting
    BY <1>1, <2>1 DEF Waiting, Here, TypeOK
  <2>6. ~Exiting' /\ Here' \notin {"armed", "hlt"}
    BY <1>1, <2>1, <2>2 DEF Waiting, Exiting, Here, TypeOK, Protocol, HostSide
  <2> QED
    BY <1>1, <2>4, <2>5, <2>6 DEF ReadySide, Exited
<1>6. EventSide'
  BY <1>1, <1>2 DEF EventSide, Waiting, Exiting, Here, NmiDeliverable, WindowOpen,
     Protocol, TypeOK
<1>7. TickSide'
  <2>1. count = 0 \/ Left >= Lag
    BY <1>2, FarAfter DEF Protocol, Event
  <2> QED
    BY <1>1, <2>1 DEF TickSide, Left
<1> QED
  BY <1>4, <1>5, <1>6, <1>7 DEF Protocol

\* CPU 1 does not wait and nothing is on its way.
LEMMA Calm ==
  ASSUME TypeOK, Protocol, ~Waiting, ~Exiting
  PROVE  l2_ready = 0 /\ inflight = {} /\ "ipi" \notin pend
<1>1. l2_ready = 0
  BY DEF TypeOK, Protocol, ReadySide, Exited
<1>2. Here # "hlt"
  BY DEF Waiting
<1> QED
  BY <1>1, <1>2 DEF Protocol, EventSide

\* A step between places at which CPU 1 does not wait.
LEMMA AwayKeeps ==
  ASSUME TypeOK, Protocol, Timely, l2_ready = 0, inflight = {}, "ipi" \notin pend,
         HostSide', ~Waiting', ~Exiting', l2_ready' = 0,
         UNCHANGED <<inflight, count>>, pend' \subseteq pend
  PROVE  Protocol'
<1>1. ReadySide'
  <2>1. Here' \notin {"armed", "hlt"}
    BY DEF Waiting
  <2> QED
    BY <2>1 DEF ReadySide, Exited
<1>2. EventSide'
  <2>1. Here' \notin {"armed", "hlt", "woken"}
    BY DEF Waiting
  <2> QED
    BY <2>1 DEF EventSide
<1>3. TickSide'
  <2>1. count = 0 \/ Left >= Lag
    BY FarAfter DEF Protocol
  <2> QED
    BY <2>1 DEF TickSide, Left
<1> QED
  BY <1>1, <1>2, <1>3 DEF Protocol

\* An operation, from its beginning to its end or to the iret.
LEMMA OpKeeps ==
  ASSUME TypeOK, Protocol, Timely, Here \in {"op", "iret"},
         NEW x \in {"op", "iret"}, at' = [at EXCEPT ![mode] = x],
         UNCHANGED <<mode, reason, pend, inflight, count>>,
         vmcs'.inject = vmcs.inject \/ mode = "host",
         l2_ready' = 0
  PROVE  Protocol'
<1>1. ~Waiting /\ (mode = "host" => reason = "vmcall")
  BY DEF Waiting, Here, Protocol, HostSide, TypeOK
<1>2. ~Exiting /\ ~Exiting'
  BY <1>1 DEF Exiting
<1>3. ~Waiting'
  BY DEF Waiting, Here, TypeOK
<1>4. HostSide'
  BY <1>1, <1>2, <1>3 DEF HostSide, Protocol, TypeOK, Exiting
<1> QED
  BY <1>1, <1>2, <1>3, <1>4, Calm, AwayKeeps

\* Operations that are one step.
LEMMA OpsKeep ==
  ASSUME TypeOK, Protocol, Timely, NoInject,
         \/ ExitSourceMeasure \/ PrepareMeasure \/ PrepareMeasure2 \/ AssertMeasure
         \/ AssertMeasure2 \/ GetBlockingByNmi \/ SetState \/ AssertState \/ Inject
         \/ Iret \/ IretEnd
  PROVE  Protocol'
<1>1. Here \in {"op", "iret"}
  BY DEF ExitSourceMeasure, PrepareMeasure, PrepareMeasure2, AssertMeasure,
         AssertMeasure2, GetBlockingByNmi, SetState, AssertState, Inject, Iret, IretEnd,
         AtOp, Here
<1>2. l2_ready = 0
  <2>1. ~Waiting /\ ~Exiting
    BY <1>1 DEF Waiting, Here, Protocol, HostSide, TypeOK, Exiting
  <2> QED
    BY <2>1, Calm
<1>3. l2_ready' = 0
  BY <1>2 DEF ExitSourceMeasure, PrepareMeasure, PrepareMeasure2, AssertMeasure,
         AssertMeasure2, GetBlockingByNmi, SetState, AssertState, Inject, Iret, IretEnd,
         TEST_ASSERT
<1>4. UNCHANGED <<mode, reason, pend, inflight, count>>
  BY DEF ExitSourceMeasure, PrepareMeasure, PrepareMeasure2, AssertMeasure,
         AssertMeasure2, GetBlockingByNmi, SetState, AssertState, Inject, Iret, IretEnd,
         Advance, cpu, bsp
<1>5. \E x \in {"op", "iret"} : at' = [at EXCEPT ![mode] = x]
  BY DEF ExitSourceMeasure, PrepareMeasure, PrepareMeasure2, AssertMeasure,
         AssertMeasure2, GetBlockingByNmi, SetState, AssertState, Inject, Iret, IretEnd,
         Advance
<1>6. vmcs'.inject = vmcs.inject \/ mode = "host"
  BY DEF ExitSourceMeasure, PrepareMeasure, PrepareMeasure2, AssertMeasure,
         AssertMeasure2, GetBlockingByNmi, SetState, AssertState, Inject, Iret, IretEnd,
         NoInject, StateWritten, TypeOK
<1> QED
  BY <1>1, <1>3, <1>4, <1>5, <1>6, OpKeeps

\* Handling an ordinary interrupt.
LEMMA IpiInterruptKeeps ==
  ASSUME TypeOK, Protocol, Timely, IpiInterrupt PROVE Protocol'
<1> DEFINE src == IF mode = "guest" THEN "TIMER_G" ELSE "TIMER_H"
<1>1. /\ mode' = mode /\ reason' = reason /\ vmcs' = vmcs
      /\ at' = [at EXCEPT ![mode] = IF @ = "hlt" THEN "woken" ELSE @]
      /\ l2_ready' = 0 /\ pend' = pend \ {"ipi"}
      /\ UNCHANGED <<block, vblock, inflight, count, lag>>
      /\ exit' = Recorded(src, Rip(at[mode]))
  BY DEF IpiInterrupt, Woken, handle_interrupt_cpu1, bsp
<1>2. "ipi" \in pend /\ ~NmiDeliverable
  BY DEF IpiInterrupt, IpiDeliverable
<1>3. Here = "hlt" /\ Waiting /\ ~Exiting
  BY <1>2 DEF Protocol, EventSide, Waiting, HostSide, Exiting, Here, TypeOK
<1>4. HostSide'
  BY <1>1 DEF HostSide, Exiting, Protocol, TypeOK
<1>5. ReadySide'
  <2>1. exit' = [exit EXCEPT !.source = src, !.rip = "hlt"]
    BY <1>1, <1>3 DEF Protocol, ReadySide, Here, Recorded, Rip
  <2>2. Recording'
    BY <2>1 DEF Recording, TypeOK
  <2>3. ~Exiting' /\ Here' \notin {"armed", "hlt"}
    BY <1>1, <1>3 DEF Exiting, Here, TypeOK
  <2> QED
    BY <1>1, <2>2, <2>3 DEF ReadySide, Exited
<1>6. EventSide'
  BY <1>1, <1>2, <1>3 DEF EventSide, Waiting, Exiting, Here, NmiDeliverable, WindowOpen,
     Protocol, TypeOK
<1>7. TickSide'
  <2>1. count = 0 \/ Left >= Lag
    BY <1>2, FarAfter DEF Protocol, Event
  <2> QED
    BY <1>1, <2>1 DEF TickSide, Left
<1> QED
  BY <1>4, <1>5, <1>6, <1>7 DEF Protocol

\* An NMI makes the guest exit, in the hlt of hlt_wait or elsewhere.
LEMMA NmiExitKeeps ==
  ASSUME TypeOK, Protocol, Timely, NmiExit PROVE Protocol'
<1>1. /\ mode = "guest" /\ mode' = "host" /\ reason' = "nmi"
      /\ at' = [at EXCEPT !.host = "vmexit_asm"]
      /\ vmcs' = [vmcs EXCEPT
                    !.blocking = Bit(IF vmcs.virtual_nmis = 1 THEN vblock ELSE block),
                    !.hlt = (at.guest = "hlt")]
      /\ pend' = pend \ {"nmi"}
      /\ UNCHANGED <<l2_ready, exit, vblock, inflight, count, lag>>
  BY DEF NmiExit, VmExit, bsp
<1>2. NmiDeliverable /\ ~WindowOpen
  BY DEF NmiExit
<1>3. vmcs'.inject = "none" /\ vmcs'.nmi_windowing = vmcs.nmi_windowing
      /\ vmcs'.virtual_nmis = vmcs.virtual_nmis
  BY <1>1 DEF TypeOK, Protocol, HostSide
<1>4. at'.guest = at.guest /\ at'.host = "vmexit_asm"
  BY <1>1 DEF TypeOK
<1>5. inflight = {} /\ "ipi" \notin pend /\ Here = at.guest /\ at.guest \notin {"armed", "woken"}
  BY <1>1, <1>2 DEF Protocol, EventSide, Here
<1>6. HostSide'
  BY <1>1, <1>3, <1>4, <1>5 DEF HostSide, Exiting
<1>7. CASE at.guest # "hlt"
  <2>1. ~Waiting /\ ~Exiting /\ ~Waiting' /\ ~Exiting'
    BY <1>1, <1>4, <1>5, <1>7 DEF Waiting, Exiting, Here
  <2> QED
    BY <1>1, <1>5, <1>6, <2>1, Calm, AwayKeeps
<1>8. CASE at.guest = "hlt"
  <2>1. l2_ready = 1 /\ exit.source = "MEASURE"
    BY <1>5, <1>8 DEF Protocol, ReadySide
  <2>2. Exited' /\ Exiting' /\ Here' = "vmexit_asm"
    BY <1>1, <1>4, <1>8 DEF Exited, Exiting, Here
  <2>3. ReadySide'
    BY <1>1, <2>1, <2>2 DEF ReadySide, Waiting
  <2>4. vmcs.nmi_windowing = 1 /\ vmcs.virtual_nmis = 1 => vmcs'.blocking = 1
    BY <1>1, <1>2 DEF WindowOpen, Bit, TypeOK
  <2>5. EventSide'
    BY <1>1, <1>3, <1>5, <2>2, <2>4 DEF EventSide, Waiting
  <2>6. TickSide'
    BY <1>1, <1>2, <2>1, <2>2 DEF TickSide, Left, Event, Protocol
  <2> QED
    BY <1>6, <2>3, <2>5, <2>6 DEF Protocol
<1> QED
  BY <1>7, <1>8

\* The NMI window opens: never in hlt_wait.
LEMMA WindowExitKeeps ==
  ASSUME TypeOK, Protocol, Timely, WindowExit PROVE Protocol'
<1>1. /\ mode = "guest" /\ mode' = "host" /\ reason' = "window"
      /\ at' = [at EXCEPT !.host = "vmexit_asm"]
      /\ vmcs' = [vmcs EXCEPT
                    !.blocking = Bit(IF vmcs.virtual_nmis = 1 THEN vblock ELSE block),
                    !.hlt = (at.guest = "hlt")]
      /\ UNCHANGED <<l2_ready, pend, inflight, count, lag>>
  BY DEF WindowExit, VmExit, bsp, cpu, WindowOpen
<1>2. ~Waiting /\ ~Exiting
  BY <1>1 DEF WindowExit, Protocol, EventSide, Exiting
<1>3. vmcs'.inject = "none" /\ at'.guest = at.guest /\ at'.host = "vmexit_asm"
  BY <1>1 DEF TypeOK, Protocol, HostSide
<1>4. ~Waiting' /\ ~Exiting'
  BY <1>1, <1>3 DEF Waiting, Exiting, Here
<1>5. HostSide'
  BY <1>1, <1>2, <1>3, <1>4 DEF HostSide, Exiting, Waiting, Here
<1> QED
  BY <1>1, <1>2, <1>4, <1>5, Calm, AwayKeeps

\* VM entry wakes a guest that exited from the hlt of hlt_wait.
LEMMA VmEntryKeeps ==
  ASSUME TypeOK, Protocol, Timely, VmEntry PROVE Protocol'
<1>1. /\ mode = "host" /\ mode' = "guest" /\ at.host = "vmresume"
      /\ at' = [at EXCEPT !.guest = IF vmcs.inject # "none" THEN vmcs.inject
                                    ELSE IF @ = "hlt" /\ ~ vmcs.hlt THEN "woken" ELSE @]
      /\ vmcs' = [vmcs EXCEPT !.inject = "none"]
      /\ UNCHANGED <<reason, l2_ready, exit, pend, inflight, count, lag>>
  BY DEF VmEntry, bsp
<1>2. vblock' = (vmcs.virtual_nmis = 1 /\ (vmcs.blocking = 1 \/ vmcs.inject = "nmi_stub"))
  BY DEF VmEntry
<1>3. HostSide'
  BY <1>1 DEF HostSide, Exiting, TypeOK
<1>4. ~Waiting
  BY <1>1 DEF Waiting, Here
<1>5. CASE ~Exiting
  <2>1. at.guest \notin {"armed", "hlt", "woken"}
    BY <1>1, <1>5 DEF Protocol, HostSide
  <2>2. ~Waiting' /\ ~Exiting'
    BY <1>1, <2>1 DEF Waiting, Exiting, Here, TypeOK
  <2>3. l2_ready = 0 /\ inflight = {} /\ "ipi" \notin pend
    BY <1>4, <1>5, Calm
  <2> QED
    BY <1>1, <1>3, <2>2, <2>3, AwayKeeps
<1>6. CASE Exiting
  <2>1. vmcs.inject = "none" /\ ~vmcs.hlt /\ at.guest = "hlt"
    BY <1>1, <1>6 DEF Protocol, HostSide, Exiting
  <2>2. Here' = "woken" /\ ~Exiting' /\ Waiting'
    BY <1>1, <2>1 DEF Here, Exiting, Waiting, TypeOK
  <2>3. ~Exited /\ l2_ready = 0 /\ Recording
    BY <1>1, <1>4, <1>6 DEF Exited, Protocol, ReadySide, TypeOK
  <2>4. inflight = {} /\ "ipi" \notin pend /\ "nmi" \notin pend
    BY <1>1, <1>6 DEF Protocol, EventSide, Here
  <2>5. ReadySide'
    BY <1>1, <2>2, <2>3 DEF ReadySide, Recording, Exited
  <2>6. ~WindowOpen'
    <3>1. vmcs'.nmi_windowing = vmcs.nmi_windowing /\ vmcs'.virtual_nmis = vmcs.virtual_nmis
      BY <1>1 DEF TypeOK
    <3> QED
      BY <1>2, <1>6, <3>1 DEF WindowOpen, Protocol, EventSide
  <2>7. EventSide'
    BY <1>1, <2>2, <2>4, <2>6 DEF EventSide, NmiDeliverable
  <2>8. TickSide'
    BY <1>1, <2>3 DEF TickSide, Left, Protocol
  <2> QED
    BY <1>3, <2>5, <2>7, <2>8 DEF Protocol
<1> QED
  BY <1>5, <1>6

\* The handler of an injected event.
LEMMA InjectedHandlerKeeps ==
  ASSUME TypeOK, Protocol, Timely, InjectedHandler PROVE Protocol'
<1>1. /\ mode = "guest" /\ at.guest \in {"nmi_stub", "kbd_stub"}
      /\ at' = [at EXCEPT !.guest = "vmcall"]
      /\ UNCHANGED <<mode, reason, vmcs, pend, inflight, count>>
  BY DEF InjectedHandler, cpu, bsp
<1>2. ~Waiting /\ ~Exiting /\ ~Waiting' /\ ~Exiting'
  BY <1>1 DEF Waiting, Exiting, Here, TypeOK
<1>3. HostSide'
  BY <1>1 DEF HostSide, Exiting, Protocol
<1>4. l2_ready = 0 /\ inflight = {} /\ "ipi" \notin pend
  BY <1>2, Calm
<1>5. l2_ready' = 0
  BY <1>4 DEF InjectedHandler, handle_interrupt_cpu1
<1> QED
  BY <1>1, <1>2, <1>3, <1>4, <1>5, AwayKeeps

\* shv_nmi_vmexit_handler for an NMI: what hit the hlt is recorded there.
LEMMA HandleNmiExitKeeps ==
  ASSUME TypeOK, Protocol, Timely, HandleNmiExit PROVE Protocol'
<1>1. /\ mode = "host" /\ at.host = "vmexit_asm" /\ reason = "nmi"
      /\ at' = [at EXCEPT !.host = "vmresume"]
      /\ vmcs' = [vmcs EXCEPT !.hlt = FALSE]
      /\ exit' = Recorded("VMEXIT", Rip(at.guest)) /\ l2_ready' = 0
      /\ UNCHANGED <<mode, reason, pend, inflight, count>>
  BY DEF HandleNmiExit, handle_interrupt_cpu1, ActivityWritten, cpu, bsp
<1>2. ~vmcs'.hlt /\ vmcs'.inject = vmcs.inject /\ vmcs'.nmi_windowing = vmcs.nmi_windowing
      /\ vmcs'.virtual_nmis = vmcs.virtual_nmis /\ vmcs'.blocking = vmcs.blocking
  BY <1>1 DEF TypeOK
<1>3. at'.guest = at.guest /\ Here' = "vmresume" /\ ~Waiting /\ ~Waiting'
  BY <1>1 DEF TypeOK, Here, Waiting
<1>4. HostSide'
  BY <1>1, <1>2, <1>3 DEF HostSide, Exiting, Protocol, TypeOK
<1>5. Exiting' <=> Exiting
  BY <1>1, <1>3 DEF Exiting
<1>6. CASE ~Exiting
  BY <1>1, <1>3, <1>4, <1>5, <1>6, Calm, AwayKeeps
<1>7. CASE Exiting
  <2>1. l2_ready = 1 /\ exit.source = "MEASURE" /\ at.guest = "hlt"
    BY <1>1, <1>7 DEF Exited, Exiting, Protocol, ReadySide
  <2>2. exit' = [exit EXCEPT !.source = "VMEXIT", !.rip = "hlt"]
    BY <1>1, <2>1 DEF Recorded, Rip
  <2>3. Recording'
    BY <2>2 DEF Recording, TypeOK
  <2>4. ReadySide'
    BY <1>1, <1>3, <2>3 DEF ReadySide, Exited, Waiting, TypeOK
  <2>5. EventSide'
    BY <1>1, <1>2, <1>3, <1>5, <1>7 DEF EventSide, Protocol, Here
  <2>6. TickSide'
    <3>1. count = 0 \/ Left >= Lag
      BY <1>7, FarAfter DEF Protocol, Event
    <3> QED
      BY <1>1, <3>1 DEF TickSide, Left
  <2> QED
    BY <1>4, <2>4, <2>5, <2>6 DEF Protocol
<1> QED
  BY <1>6, <1>7

\* The other exits and returns of the hypervisor.
LEMMA HypervisorKeeps ==
  ASSUME TypeOK, Protocol, Timely, HandleWindowExit \/ Dispatch \/ HandlerReturn
  PROVE  Protocol'
<1>1. /\ mode = "host" /\ at.host \in {"vmexit_asm", "op"}
      /\ \E x \in {"op", "vmresume"} : at' = [at EXCEPT !.host = x]
      /\ UNCHANGED <<mode, reason, pend, inflight, count>>
  BY DEF HandleWindowExit, Dispatch, HandlerReturn, cpu, bsp
<1>2. reason # "nmi" /\ (at'.host = "op" => reason = "vmcall")
  <2>1. CASE HandleWindowExit
    BY <2>1 DEF HandleWindowExit, TypeOK
  <2>2. CASE Dispatch
    BY <2>2 DEF Dispatch
  <2>3. CASE HandlerReturn
    BY <2>3 DEF HandlerReturn, Protocol, HostSide
  <2> QED
    BY <2>1, <2>2, <2>3
<1>3. vmcs'.inject = vmcs.inject
  BY DEF HandleWindowExit, Dispatch, HandlerReturn, TypeOK
<1>4. at'.guest = at.guest /\ at'.host \in {"op", "vmresume"}
  BY <1>1 DEF TypeOK
<1>5. ~Waiting /\ ~Exiting /\ ~Waiting' /\ ~Exiting'
  BY <1>1, <1>2, <1>4 DEF Waiting, Exiting, Here
<1>6. HostSide'
  BY <1>1, <1>2, <1>3, <1>4, <1>5 DEF HostSide, Protocol, Exiting
<1>7. l2_ready' = 0
  BY <1>5, Calm DEF HandleWindowExit, Dispatch, HandlerReturn, handle_interrupt_cpu1
<1> QED
  BY <1>1, <1>5, <1>6, <1>7, Calm, AwayKeeps

\* vmcall and the instruction after it.
LEMMA VmcallKeeps ==
  ASSUME TypeOK, Protocol, Timely, Vmcall \/ VmcallDone PROVE Protocol'
<1>1. CASE Vmcall
  <2>1. /\ at' = [guest |-> "vmcall", host |-> "vmexit_asm"]
        /\ mode' = "host" /\ reason' = "vmcall" /\ Here = "op"
        /\ UNCHANGED <<l2_ready, pend, inflight, count>>
    BY <1>1 DEF Vmcall, VmExit, AtOp, Here, cpu, bsp
  <2>2. ~Waiting /\ ~Exiting
    BY <2>1 DEF Waiting, Exiting, Protocol, HostSide, Here
  <2>3. ~Waiting' /\ ~Exiting'
    BY <2>1 DEF Waiting, Exiting, Here
  <2>4. HostSide'
    BY <2>1 DEF HostSide, Exiting
  <2> QED
    BY <2>1, <2>2, <2>3, <2>4, Calm, AwayKeeps
<1>2. CASE VmcallDone
  <2>1. /\ mode = "guest" /\ at.guest = "vmcall" /\ at' = [at EXCEPT ![mode] = "op"]
        /\ UNCHANGED <<mode, reason, vmcs, l2_ready, pend, inflight, count>>
    BY <1>2 DEF VmcallDone, Advance, cpu, bsp
  <2>2. ~Waiting /\ ~Exiting /\ ~Waiting' /\ ~Exiting'
    BY <2>1 DEF Waiting, Exiting, Here, TypeOK
  <2>3. HostSide'
    BY <2>1 DEF HostSide, Exiting, Protocol
  <2> QED
    BY <2>1, <2>2, <2>3, Calm, AwayKeeps
<1> QED
  BY <1>1, <1>2

\* shv_nmi_guest_main between the experiments.
LEMMA MainKeeps ==
  ASSUME TypeOK, Protocol, Timely, RunExperiment \/ AllTestPass PROVE Protocol'
<1>1. /\ mode = "guest" /\ at.guest = "op"
      /\ at'.guest \in {"op", "done"}
      /\ UNCHANGED <<mode, reason, vmcs, pend, inflight, count>>
  BY DEF RunExperiment, AllTestPass, AtEnd, cpu, bsp, TypeOK
<1>2. ~Waiting /\ ~Exiting /\ ~Waiting' /\ ~Exiting'
  BY <1>1 DEF Waiting, Exiting, Here
<1>3. HostSide'
  BY <1>1 DEF HostSide, Exiting, Protocol
<1>4. l2_ready' = 0
  BY <1>2, Calm DEF RunExperiment, AllTestPass
<1> QED
  BY <1>1, <1>2, <1>3, <1>4, Calm, AwayKeeps

\* hlt_wait, from one place to the next.
LEMMA HltKeeps ==
  ASSUME TypeOK, Protocol, Timely, ~failed',
         HltBegin \/ HltSleep \/ StrangeWakeup \/ HltAgain \/ HltEnd
  PROVE  Protocol'
<1>1. /\ UNCHANGED <<mode, reason, vmcs, block, vblock, pend, inflight, count, lag>>
      /\ \E x \in {"op", "armed", "hlt", "woken"} : at' = [at EXCEPT ![mode] = x]
  BY DEF HltBegin, HltSleep, StrangeWakeup, HltAgain, HltEnd, Advance, cpu, bsp
<1>2. Here \in {"op", "armed", "hlt", "woken"}
  BY DEF HltBegin, HltSleep, StrangeWakeup, HltAgain, HltEnd, AtOp, Here
<1>3. mode = "host" => reason = "vmcall"
  BY <1>2 DEF Protocol, HostSide, Here, TypeOK
<1>4. ~Exiting /\ ~Exiting'
  BY <1>1, <1>3 DEF Exiting
<1>5. HostSide'
  BY <1>1, <1>3 DEF HostSide, Exiting, Protocol, TypeOK
<1>6. ~NmiDeliverable /\ ~WindowOpen /\ ~NmiDeliverable' /\ ~WindowOpen'
  BY <1>1 DEF HltBegin, HltSleep, StrangeWakeup, HltAgain, HltEnd, Running, Quiet,
              NmiDeliverable, WindowOpen
<1>7. inflight = {} /\ "ipi" \notin pend
  <2>1. CASE StrangeWakeup
    BY <2>1 DEF StrangeWakeup, Running, Quiet, IpiDeliverable, InterruptFlag
  <2>2. CASE ~StrangeWakeup
    <3>1. Here # "hlt"
      BY <2>2 DEF HltBegin, HltSleep, HltAgain, HltEnd, AtOp, Here
    <3> QED
      BY <3>1 DEF Protocol, EventSide
  <2> QED
    BY <2>1, <2>2
<1>8. EventSide'
  BY <1>1, <1>4, <1>6, <1>7 DEF EventSide
<1>9. ~Event'
  BY <1>1, <1>4, <1>6, <1>7 DEF Event
<1>10. CASE HltBegin
  <2>1. Here = "op" /\ Here' = "armed" /\ exit' = exit
    BY <1>10, <1>1 DEF HltBegin, AtOp, Here, TypeOK
  <2>2. Prepared /\ l2_ready' = 1
    BY <1>10 DEF HltBegin, Bit
  <2>3. l2_ready = 0
    BY <1>4, <2>1, Calm DEF Waiting
  <2>4. ReadySide'
    BY <2>1, <2>2, <1>4 DEF ReadySide, Waiting, Prepared
  <2>5. count = 0 \/ Left >= Lag
    BY <2>3, FarAfter DEF Protocol
  <2>6. TickSide'
    BY <1>1, <1>9, <2>2, <2>5, LeftType DEF TickSide, Left
  <2> QED
    BY <1>5, <1>8, <2>4, <2>6 DEF Protocol
<1>11. CASE HltSleep
  <2>1. Here = "armed" /\ Here' = "hlt" /\ UNCHANGED <<exit, l2_ready>>
    BY <1>11, <1>1 DEF HltSleep, Here, TypeOK
  <2>2. l2_ready = 1
    BY <2>1 DEF Protocol, ReadySide
  <2>3. ReadySide'
    BY <2>1, <2>2, <1>4 DEF ReadySide, Waiting, Protocol
  <2>4. TickSide'
    BY <2>1, <2>2, <1>9 DEF TickSide
  <2> QED
    BY <1>5, <1>8, <2>3, <2>4 DEF Protocol
<1>12. CASE StrangeWakeup
  <2>1. Here = "hlt" /\ Here' = "woken" /\ UNCHANGED <<exit, l2_ready>> /\ l2_ready = 1
    BY <1>12, <1>1 DEF StrangeWakeup, Here, TypeOK
  <2>2. ReadySide'
    BY <2>1, <1>4 DEF ReadySide, Waiting, Protocol
  <2>3. TicksToSend > Lag
    BY <1>12 DEF StrangeWakeup
  <2>4. count = 0 \/ Left + lag >= Lag
    BY <2>3, TicksLeft, LeftType DEF TypeOK
  <2>5. TickSide'
    BY <2>1, <2>4, <1>1, <1>9 DEF TickSide, Left
  <2> QED
    BY <1>5, <1>8, <2>2, <2>5 DEF Protocol
<1>13. CASE HltAgain
  <2>1. Here = "woken" /\ Here' = "armed" /\ exit' = exit /\ l2_ready' = 1
        /\ exit.source = "MEASURE"
    BY <1>13, <1>1 DEF HltAgain, Here, TypeOK
  <2>2. l2_ready = 1
    BY <2>1 DEF Protocol, ReadySide, Waiting, Recording, TypeOK
  <2>3. ReadySide'
    BY <2>1, <1>4 DEF ReadySide, Waiting
  <2>4. TickSide'
    BY <2>1, <2>2, <1>1, <1>9 DEF TickSide, Left, Protocol
  <2> QED
    BY <1>5, <1>8, <2>3, <2>4 DEF Protocol
<1>14. CASE HltEnd
  <2>1. Here = "woken" /\ Here' = "op" /\ exit.source # "MEASURE"
    BY <1>14, <1>1 DEF HltEnd, Here, TypeOK, Advance
  <2>2. l2_ready = 0
    BY <2>1 DEF Protocol, ReadySide, TypeOK
  <2>3. l2_ready' = 0
    BY <1>14, <2>2 DEF HltEnd, TEST_ASSERT
  <2> QED
    BY <1>1, <1>4, <1>5, <1>7, <2>1, <2>2, <2>3, AwayKeeps DEF Waiting
<1> QED
  BY <1>10, <1>11, <1>12, <1>13, <1>14

\* The timer interrupt of the BSP: it sends only to a CPU that is at rest.
LEMMA TickKeeps ==
  ASSUME TypeOK, Protocol, Timely, Tick PROVE Protocol'
<1>1. /\ l2_ready = 1
      /\ UNCHANGED <<mode, reason, at, l2_ready, exit, vmcs, block, vblock, guestIF, pend>>
      /\ inflight' = inflight \cup Sent
      /\ count' = IF count = 2 * interrupt_period THEN 1 ELSE count + 1
      /\ lag' = IF AtRest THEN 0 ELSE lag + 1
      /\ AtRest \/ (lag < Lag /\ (count = 0 => ~ FirstTickInHlt))
  BY DEF Tick, where, cpu
<1>2. /\ Here' = Here /\ (Waiting' <=> Waiting) /\ (Exiting' <=> Exiting)
      /\ (Exited' <=> Exited) /\ (Recording' <=> Recording)
      /\ (NmiDeliverable' <=> NmiDeliverable) /\ (WindowOpen' <=> WindowOpen)
  BY <1>1 DEF Here, Waiting, Exiting, Exited, Recording, NmiDeliverable, WindowOpen
<1>3. HostSide'
  BY <1>1, <1>2 DEF HostSide, Protocol
<1>4. ReadySide'
  BY <1>1, <1>2 DEF ReadySide, Protocol
<1>5. CASE AtRest
  <2>1. Here = "hlt" /\ inflight = {} /\ ~NmiDeliverable /\ "ipi" \notin pend /\ ~Exiting
    BY <1>5 DEF AtRest, Here, Quiet, IpiDeliverable, InterruptFlag, Exiting, Protocol,
       HostSide, TypeOK
  <2>2. EventSide'
    BY <1>1, <1>2, <2>1, TicksLeft DEF EventSide, Protocol, TypeOK
  <2>3. TickSide'
    <3>1. Sent = {} => ~Event'
      BY <1>1, <1>2, <2>1 DEF Event
    <3>2. Sent # {} => count' # 0 /\ Left' >= interrupt_period - 1
      BY <1>1, TicksLeft, LeftType DEF Left, TypeOK
    <3>3. lag' = 0 /\ Left' \in Int
      BY <1>1, <1>5, LeftType DEF Left, TypeOK
    <3> QED
      BY <1>1, <1>2, <2>1, <3>1, <3>2, <3>3, LeftType DEF TickSide
  <2> QED
    BY <1>3, <1>4, <2>2, <2>3 DEF Protocol
<1>6. CASE ~AtRest
  <2>1. lag < Lag /\ count # 0 /\ lag' = lag + 1
    BY <1>1, <1>6 DEF Timely
  <2>2. Event \/ Here \in {"armed", "woken"}
    <3>1. Waiting \/ Exiting
      BY <1>1 DEF Protocol, ReadySide, Exited
    <3>2. CASE Here = "hlt" /\ ~Exiting
      BY <1>6, <3>2 DEF AtRest, Here, Quiet, Event, IpiDeliverable, Protocol, EventSide,
         Waiting
    <3> QED
      BY <3>1, <3>2 DEF Waiting, Event
  <2>3. Left + lag >= Lag
    BY <1>1, <2>1, <2>2, LeftType DEF Protocol, TickSide, Timely
  <2>4. Left >= 1 /\ Sent = {}
    BY <2>1, <2>3, LeftType, TicksLeft DEF TypeOK
  <2>5. inflight' = inflight /\ (Event' <=> Event)
    BY <1>1, <1>2, <2>4 DEF Event
  <2>6. EventSide'
    BY <1>1, <1>2, <2>5 DEF EventSide, Protocol
  <2>7. Left' = Left - 1 /\ count' # 0
    BY <1>1, <2>1, <2>4, LeftType DEF Left, TypeOK
  <2>8. TickSide'
    BY <1>1, <1>2, <2>1, <2>5, <2>7, LeftType DEF TickSide, Protocol
  <2> QED
    BY <1>3, <1>4, <2>6, <2>8 DEF Protocol
<1> QED
  BY <1>5, <1>6

\* The interrupt arrives where CPU 1 sleeps.
LEMMA ArriveKeeps ==
  ASSUME TypeOK, Protocol, Timely, Arrive \/ IdleTick PROVE Protocol'
<1>1. /\ UNCHANGED <<mode, reason, at, l2_ready, exit, vmcs, block, vblock, guestIF, count>>
  BY DEF Arrive, IdleTick, where, cpu
<1>2. /\ Here' = Here /\ (Waiting' <=> Waiting) /\ (Exiting' <=> Exiting)
      /\ (Exited' <=> Exited) /\ (Recording' <=> Recording) /\ (WindowOpen' <=> WindowOpen)
  BY <1>1 DEF Here, Waiting, Exiting, Exited, Recording, WindowOpen
<1>3. HostSide'
  BY <1>1, <1>2 DEF HostSide, Protocol
<1>4. ReadySide'
  BY <1>1, <1>2 DEF ReadySide, Protocol
<1>5. CASE Arrive
  <2>1. PICK i \in inflight : inflight' = inflight \ {i} /\ pend' = pend \cup {i} /\ lag' = lag
    BY <1>5 DEF Arrive
  <2>2. /\ Here = "hlt" /\ ~NmiDeliverable /\ "ipi" \notin pend /\ inflight # {}
        /\ inflight' = {} /\ i \in {"nmi", "ipi"}
    BY <2>1 DEF Protocol, EventSide
  <2>3. ~Exiting
    BY <2>2 DEF Exiting, Here, Protocol, HostSide, TypeOK
  <2>4. EventSide'
    BY <1>1, <1>2, <2>1, <2>2, <2>3 DEF EventSide, NmiDeliverable, Protocol
  <2>5. Event
    BY <2>2 DEF Event
  <2>6. TickSide'
    BY <1>1, <1>2, <2>1, <2>2, <2>5 DEF TickSide, Protocol, Left
  <2> QED
    BY <1>3, <1>4, <2>4, <2>6 DEF Protocol
<1>6. CASE IdleTick
  <2>1. l2_ready = 0 /\ inflight' = inflight /\ pend' = pend
    BY <1>6 DEF IdleTick, cpu
  <2>2. NmiDeliverable' <=> NmiDeliverable
    BY <1>1, <2>1 DEF NmiDeliverable
  <2>3. EventSide'
    BY <1>1, <1>2, <2>1, <2>2 DEF EventSide, Protocol
  <2>4. TickSide'
    BY <1>1, <2>1 DEF TickSide, Left, Protocol
  <2> QED
    BY <1>3, <1>4, <2>3, <2>4 DEF Protocol
<1> QED
  BY <1>5, <1>6

\* As long as no test has failed, every step keeps the protocol.
LEMMA NextProtocol ==
  ASSUME NmiInv, Timely, ~failed => Protocol, [Next]_vars
  PROVE  ~failed' => Protocol'
<1> SUFFICES ASSUME ~failed' PROVE Protocol'
  OBVIOUS
<1>1. ~failed
  BY DEF Next, Cpu1, NmiInterrupt, IpiInterrupt, NmiExit, WindowExit, VmEntry,
         InjectedHandler, HandleNmiExit, HandleWindowExit, Dispatch, HandlerReturn, Vmcall,
         VmcallDone, HltBegin, HltSleep, HltAgain, HltEnd, Iret, IretEnd, ExitSourceMeasure,
         PrepareMeasure, PrepareMeasure2, AssertMeasure, AssertMeasure2, GetBlockingByNmi,
         SetState, AssertState, Inject, RunExperiment, AllTestPass, StrangeWakeup, Tick,
         IdleTick, Arrive, Running, vars
<1>2. Protocol /\ TypeOK
  BY <1>1 DEF NmiInv
<1>3. CASE NmiInterrupt \/ IpiInterrupt \/ NmiExit \/ WindowExit
  BY <1>2, <1>3, NmiInterruptKeeps, IpiInterruptKeeps, NmiExitKeeps, WindowExitKeeps
<1>4. CASE VmEntry \/ InjectedHandler \/ HandleNmiExit
  BY <1>2, <1>4, VmEntryKeeps, InjectedHandlerKeeps, HandleNmiExitKeeps
<1>5. CASE HandleWindowExit \/ Dispatch \/ HandlerReturn
  BY <1>2, <1>5, HypervisorKeeps
<1>6. CASE Vmcall \/ VmcallDone
  BY <1>2, <1>6, VmcallKeeps
<1>7. CASE HltBegin \/ HltSleep \/ StrangeWakeup \/ HltAgain \/ HltEnd
  BY <1>2, <1>7, HltKeeps
<1>8. CASE \/ ExitSourceMeasure \/ PrepareMeasure \/ PrepareMeasure2 \/ AssertMeasure
           \/ AssertMeasure2 \/ GetBlockingByNmi \/ SetState \/ AssertState \/ Inject
           \/ Iret \/ IretEnd
  <2>1. NoInject
    BY <1>1, InjectsInHost
  <2> QED
    BY <1>2, <1>8, <2>1, OpsKeep
<1>9. CASE RunExperiment \/ AllTestPass
  BY <1>2, <1>9, MainKeeps
<1>10. CASE Tick \/ Arrive \/ IdleTick
  BY <1>2, <1>10, TickKeeps, ArriveKeeps
<1>11. CASE UNCHANGED vars
  BY <1>2, <1>11 DEF vars, where, cpu, bsp, Protocol, HostSide, ReadySide, EventSide,
     TickSide,
     Here, Waiting, Exiting, Exited, Event, Recording, Left, NmiDeliverable, WindowOpen
<1> QED
  BY <1>3, <1>4, <1>5, <1>6, <1>7, <1>8, <1>9, <1>10, <1>11 DEF Next, Cpu1

\* An IPI under way finds CPU 1 in the hlt, and is the only one.
SentToSleeper ==
  inflight # {} => /\ at[mode] = "hlt"
                   /\ inflight = {"nmi"} \/ inflight = {"ipi"}
                   /\ ~NmiDeliverable /\ "ipi" \notin pend

\* Between two experiments no IPI is under way, no ordinary interrupt pends,
\* l2_ready is clear and the VMCS has no event left to inject.
BoundaryQuiet ==
  AtEnd => /\ l2_ready = 0 /\ inflight = {} /\ "ipi" \notin pend
           /\ vmcs.inject = "none"

\* What the protocol implies.
LEMMA ProtocolHits == ASSUME TypeOK, Protocol PROVE InterruptHitsHlt
  BY DEF Protocol, ReadySide, InterruptHitsHlt, Waiting, Here, Recording, TypeOK

LEMMA ProtocolQuiet == ASSUME TypeOK, Protocol PROVE BoundaryQuiet
<1> SUFFICES ASSUME AtEnd
             PROVE  /\ l2_ready = 0 /\ inflight = {} /\ "ipi" \notin pend
                    /\ vmcs.inject = "none"
  BY DEF BoundaryQuiet
<1>1. ~Waiting /\ ~Exiting /\ mode = "guest"
  BY DEF AtEnd, Waiting, Here, Exiting
<1> QED
  BY <1>1, Calm DEF Protocol, HostSide

LEMMA ProtocolOnce == ASSUME TypeOK, Protocol PROVE SentToSleeper
  BY DEF Protocol, EventSide, SentToSleeper, Here

\* The protocol holds as long as no test has failed.
LEMMA ProtocolAlways == Timely => (Spec => [](NmiInv /\ (~failed => Protocol)))
<1> SUFFICES ASSUME Timely PROVE Spec => [](NmiInv /\ (~failed => Protocol))
  OBVIOUS
<1>1. Init => NmiInv /\ (~failed => Protocol)
  BY InitInv, InitProtocol
<1>2. NmiInv /\ (~failed => Protocol) /\ [Next]_vars => NmiInv' /\ (~failed' => Protocol')
  BY NextInv, NextProtocol
<1> QED
  BY <1>1, <1>2, PTL DEF Spec

\* An interrupt recorded while hlt_wait is under way hit the hlt, as hlt_wait
\* expects ("expect interrupt to hit on the instruction"), for every period and
\* lag with 2 * Lag < interrupt_period, as long as no test has failed.  Without
\* FirstTickInHlt it is false: run nmi_race.
THEOREM HitsHlt == Timely => (Spec => [](TestsPass => InterruptHitsHlt))
<1> SUFFICES ASSUME Timely PROVE Spec => [](TestsPass => InterruptHitsHlt)
  OBVIOUS
<1>1. NmiInv /\ (~failed => Protocol) => (TestsPass => InterruptHitsHlt)
  BY ProtocolHits DEF NmiInv, TestsPass
<1>2. Spec => [](NmiInv /\ (~failed => Protocol))
  BY ProtocolAlways
<1> QED
  BY <1>1, <1>2, PTL

\* Under the same condition the timer interrupt of the BSP
\* (shv_nmi_handle_timer_interrupt) sends an IPI only to a CPU 1 that sleeps in
\* hlt_wait and has accepted the one before, and an experiment ends with none
\* under way, l2_ready clear and no event left to inject.
THEOREM SendsToSleepers ==
  Timely => (Spec => [](TestsPass => SentToSleeper /\ BoundaryQuiet))
<1> SUFFICES ASSUME Timely
             PROVE  Spec => [](TestsPass => SentToSleeper /\ BoundaryQuiet)
  OBVIOUS
<1>1. NmiInv /\ (~failed => Protocol) => (TestsPass => SentToSleeper /\ BoundaryQuiet)
  BY ProtocolOnce, ProtocolQuiet DEF NmiInv, TestsPass
<1>2. Spec => [](NmiInv /\ (~failed => Protocol))
  BY ProtocolAlways
<1> QED
  BY <1>1, <1>2, PTL
=============================================================================
