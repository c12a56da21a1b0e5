------------------------------ MODULE UserMode ------------------------------
(***************************************************************************)
(* The part of the guest's main loop in which CPUs share state: the MSR test *)
(* and the user mode test with its pal_demo (shv_guest_main, shv-guest.c;    *)
(* shv-user.c; spinlock.c).                                                 *)
(*                                                                         *)
(* CPUs meet in three spin locks (the user page table, the semaphore of      *)
(* user_main, the barrier of iteration 3), in the semaphore that lets        *)
(* PalAvailable CPUs run a PAL at a time, and in the page table that the     *)
(* first of them builds.                                                    *)
(***************************************************************************)
EXTENDS Integers, FiniteSets

CONSTANTS
  Cpus,          \* the CPUs of g_midtable
  PalAvailable,  \* initial value of pal_available (3 in the code)
  Options,       \* the configurations to consider, records of AllOptions
  PalMayFail     \* the hypervisor under test may break a PAL

\* xmhf: in_xmhf; the rest are SHV_USE_MSR_LOAD, SHV_USER_MODE and
\* SHV_NESTED_USER_MODE.
AllOptions == [xmhf : BOOLEAN, msr : BOOLEAN, user : BOOLEAN, nested : BOOLEAN]

ASSUME UserModeAssumption ==
  /\ IsFiniteSet(Cpus)
  /\ Cpus # {}
  /\ PalAvailable \in Nat \ {0}
  /\ Options \subseteq AllOptions
  /\ PalMayFail \in BOOLEAN

VARIABLES
  opt,            \* the configuration
  pc,             \* program counter of each CPU
  iter,           \* iteration of each CPU's loop, 4 standing for 4 and more
  test,           \* which test entered user mode: "user" or "nested"
  saw,            \* CPUs that saw the lock free in spin_lock, before the xchg
  lock,           \* the three lock words
  arrived,        \* counter of the barrier of iteration 3
  table,          \* the user page table: "none", "building" or "complete"
  initialized,    \* static initialized of set_user_mode_page_table
  cr3,            \* <<CPU, test>>: the user page table is in that CPU's CR3 of
                  \* the host ("user") or of the guest ("nested")
  pal_available,
  demo            \* history: some CPU has run pal_demo in XMHF

vars == <<opt, pc, iter, test, saw, lock, arrived, table, initialized, cr3,
          pal_available, demo>>

\* The places where spin_lock is called: which lock, and what follows.
Lock == [barrier_lock |-> "barrier", pt_lock |-> "pt", sem_lock |-> "pal",
         rel_lock |-> "pal", freeze_lock |-> "pal"]
Locked == [barrier_lock |-> "barrier_count", pt_lock |-> "pt_check",
           sem_lock |-> "sem_check", rel_lock |-> "rel_count",
           freeze_lock |-> "freeze"]
Locks == {"barrier", "pt", "pal"}

\* Program counters inside the critical section of each lock.
Inside == [barrier |-> {"barrier_count"},
           pt |-> {"pt_check", "pt_build", "pt_cr3"},
           pal |-> {"sem_check", "rel_count", "freeze", "frozen"}]

Goto(c, l) == pc' = [pc EXCEPT ![c] = l]
Unlock(l) == lock' = [lock EXCEPT ![l] = 0]

Init ==
  /\ opt \in Options
  /\ pc = [c \in Cpus |-> "iter"]
  /\ iter = [c \in Cpus |-> 0]
  /\ test = [c \in Cpus |-> "user"]
  /\ saw = {}
  /\ lock = [l \in Locks |-> 0]
  /\ arrived = 0
  /\ table = "none"
  /\ initialized = FALSE
  /\ cr3 = {}
  /\ pal_available = PalAvailable
  /\ demo = FALSE

-----------------------------------------------------------------------------
(* spinlock.c. *)

\* The load of spin_lock; as long as the lock is taken it only repeats.
SpinTest(c) ==
  /\ pc[c] \in DOMAIN Lock
  /\ c \notin saw
  /\ lock[Lock[pc[c]]] = 0
  /\ saw' = saw \cup {c}
  /\ UNCHANGED <<opt, pc, iter, test, lock, arrived, table, initialized, cr3,
                 pal_available, demo>>

\* Whether the xchg returned 0; the mutant trusts the load.
WonBlind(c) == TRUE
Won(c) == lock[Lock[pc[c]]] = 0

\* The lock xchg of spin_lock: another CPU may have been faster.
SpinXchg(c) ==
  /\ pc[c] \in DOMAIN Lock
  /\ c \in saw
  /\ saw' = saw \ {c}
  /\ lock' = [lock EXCEPT ![Lock[pc[c]]] = 1]
  /\ Goto(c, IF Won(c) THEN Locked[pc[c]] ELSE pc[c])
  /\ UNCHANGED <<opt, iter, test, arrived, table, initialized, cr3,
                 pal_available, demo>>

-----------------------------------------------------------------------------
(* shv_guest_main. *)

\* In XMHF with both tests configured, iterations 1 and 2 run the MSR test,
\* 3 is a barrier and the later ones run the user mode tests.
Staged == opt.xmhf /\ opt.msr /\ opt.user

NextIter(c) ==
  /\ pc[c] = "iter"
  /\ LET i == IF iter[c] = 4 THEN 4 ELSE iter[c] + 1
     IN /\ iter' = [iter EXCEPT ![c] = i]
        /\ Goto(c, IF Staged THEN IF i < 3 THEN "msr_ls"
                                  ELSE IF i = 3 THEN "barrier_lock"
                                  ELSE "test_user"
                   ELSE IF opt.msr THEN "msr_ls" ELSE "test_user")
  /\ UNCHANGED <<opt, test, saw, lock, arrived, table, initialized, cr3,
                 pal_available, demo>>

\* shv_guest_test_msr_ls: VMCALL 12 writes MTRRs and other MSRs.
MsrSet(c) ==
  /\ pc[c] = "msr_ls"
  /\ Goto(c, "msr_changed")
  /\ UNCHANGED <<opt, iter, test, saw, lock, arrived, table, initialized, cr3,
                 pal_available, demo>>

\* VMCALL 16 checks them and writes the old values back.
MsrReset(c) ==
  /\ pc[c] = "msr_changed"
  /\ Goto(c, IF Staged THEN "iter" ELSE "test_user")
  /\ UNCHANGED <<opt, iter, test, saw, lock, arrived, table, initialized, cr3,
                 pal_available, demo>>

\* "Implement a barrier and make sure all CPUs arrive".
BarrierCount(c) ==
  /\ pc[c] = "barrier_count"
  /\ arrived' = arrived + 1
  /\ Unlock("barrier")
  /\ Goto(c, "barrier_spin")
  /\ UNCHANGED <<opt, iter, test, saw, table, initialized, cr3, pal_available,
                 demo>>

\* When the barrier opens; the mutant does not wait for the last CPU.
BarrierOpenEarly == arrived + 1 >= Cardinality(Cpus)
BarrierOpen == arrived >= Cardinality(Cpus)

BarrierLeave(c) ==
  /\ pc[c] = "barrier_spin"
  /\ BarrierOpen
  /\ Goto(c, "iter")
  /\ UNCHANGED <<opt, iter, test, saw, lock, arrived, table, initialized, cr3,
                 pal_available, demo>>

\* shv_guest_test_user enters user mode from the VMCALL handler.
TestUser(c) ==
  /\ pc[c] = "test_user"
  /\ IF opt.user
     THEN Goto(c, "pt_lock") /\ test' = [test EXCEPT ![c] = "user"]
     ELSE Goto(c, "test_nested") /\ UNCHANGED test
  /\ UNCHANGED <<opt, iter, saw, lock, arrived, table, initialized, cr3,
                 pal_available, demo>>

\* shv_guest_test_nested_user enters it in the guest.
TestNested(c) ==
  /\ pc[c] = "test_nested"
  /\ IF opt.nested
     THEN Goto(c, "pt_lock") /\ test' = [test EXCEPT ![c] = "nested"]
     ELSE Goto(c, "iter") /\ UNCHANGED test
  /\ UNCHANGED <<opt, iter, saw, lock, arrived, table, initialized, cr3,
                 pal_available, demo>>

-----------------------------------------------------------------------------
(* set_user_mode_page_table, called by enter_user_mode. *)

\* Whether the table has to be built; the mutant builds it every time.
MustBuildAlways == TRUE
MustBuild == ~ initialized

PtCheck(c) ==
  /\ pc[c] = "pt_check"
  /\ IF MustBuild
     THEN Goto(c, "pt_build") /\ table' = "building"
     ELSE Goto(c, "pt_cr3") /\ UNCHANGED table
  /\ UNCHANGED <<opt, iter, test, saw, lock, arrived, initialized, cr3,
                 pal_available, demo>>

\* The loops are done: initialized holds the address of the table.
PtBuilt(c) ==
  /\ pc[c] = "pt_build"
  /\ table' = "complete"
  /\ initialized' = TRUE
  /\ Goto(c, "pt_cr3")
  /\ UNCHANGED <<opt, iter, test, saw, lock, arrived, cr3, pal_available,
                 demo>>

\* write_cr3(initialized), spin_unlock(&lock), iret to user_main.
PtCr3(c) ==
  /\ pc[c] = "pt_cr3"
  /\ cr3' = cr3 \cup {<<c, test[c]>>}
  /\ Unlock("pt")
  /\ Goto(c, "sem_lock")
  /\ UNCHANGED <<opt, iter, test, saw, arrived, table, initialized,
                 pal_available, demo>>

-----------------------------------------------------------------------------
(* user_main. *)

\* if (pal_available); the mutants forget the test and the decrement.
FreeAlways == TRUE
Free == pal_available > 0
TakenNot == pal_available
Taken == pal_available - 1

\* Take a slot or look again later; both paths unlock.
SemCheck(c) ==
  /\ pc[c] = "sem_check"
  /\ IF Free
     THEN pal_available' = Taken /\ Goto(c, "pal")
     ELSE Goto(c, "sem_wait") /\ UNCHANGED pal_available
  /\ Unlock("pal")
  /\ UNCHANGED <<opt, iter, test, saw, arrived, table, initialized, cr3, demo>>

\* The 4096 rounds of cpu_relax end, early when a slot is free.
SemWait(c) ==
  /\ pc[c] = "sem_wait"
  /\ Goto(c, "sem_lock")
  /\ UNCHANGED <<opt, iter, test, saw, lock, arrived, table, initialized, cr3,
                 pal_available, demo>>

\* user_main_pal_demo in XMHF, a message otherwise.  A PAL that returns an
\* incorrect result makes its CPU keep pal_lock for ever.
Pal(c) ==
  /\ pc[c] = "pal"
  /\ \/ Goto(c, "rel_lock")
     \/ opt.xmhf /\ PalMayFail /\ Goto(c, "freeze_lock")
  /\ demo' = (demo \/ opt.xmhf)
  /\ UNCHANGED <<opt, iter, test, saw, lock, arrived, table, initialized, cr3,
                 pal_available>>

\* The lock while the CPU loops for ever; the mutant unlocks it.
FrozenUnlocked == [lock EXCEPT !["pal"] = 0]
FrozenLock == lock

\* "Locked pal_lock"; while (1) cpu_relax().
Freeze(c) ==
  /\ pc[c] = "freeze"
  /\ lock' = FrozenLock
  /\ Goto(c, "frozen")
  /\ UNCHANGED <<opt, iter, test, saw, arrived, table, initialized, cr3,
                 pal_available, demo>>

\* What the release path does to the lock; the mutant forgets to unlock.
ReleasedLeak == lock
Released == [lock EXCEPT !["pal"] = 0]

\* Release semaphore, leave_user_mode: int 0x23 returns to the caller of
\* enter_user_mode.  The VMCALL handler then resumes the guest, whose CR3 and
\* the host's next one come from the VMCS; the guest itself keeps the table.
Release(c) ==
  /\ pc[c] = "rel_count"
  /\ pal_available' = pal_available + 1
  /\ lock' = Released
  /\ cr3' = cr3 \ {<<c, "user">>}
  /\ Goto(c, IF test[c] = "user" THEN "test_nested" ELSE "iter")
  /\ UNCHANGED <<opt, iter, test, saw, arrived, table, initialized, demo>>

-----------------------------------------------------------------------------
CpuStep(c) ==
  \/ SpinTest(c) \/ SpinXchg(c)
  \/ NextIter(c) \/ MsrSet(c) \/ MsrReset(c)
  \/ BarrierCount(c) \/ BarrierLeave(c)
  \/ TestUser(c) \/ TestNested(c)
  \/ PtCheck(c) \/ PtBuilt(c) \/ PtCr3(c)
  \/ SemCheck(c) \/ SemWait(c) \/ Pal(c) \/ Freeze(c) \/ Release(c)

Next == \E c \in Cpus : CpuStep(c)

Spec == Init /\ [][Next]_vars

\* Every CPU runs, also the one that waits for a lock others take in between,
\* and a CPU whose xchg could win again and again wins once: the bus does not
\* always arbitrate against the same CPU.
FairSpec ==
  Spec /\ \A c \in Cpus : SF_vars(CpuStep(c)) /\ SF_vars(SpinXchg(c) /\ Won(c))
-----------------------------------------------------------------------------
(* Properties. *)

Location == {"iter", "msr_ls", "msr_changed", "barrier_lock", "barrier_count",
             "barrier_spin", "test_user", "test_nested", "pt_lock",
             "pt_check", "pt_build", "pt_cr3", "sem_lock", "sem_check",
             "sem_wait", "pal", "rel_lock", "rel_count", "freeze_lock",
             "freeze", "frozen"}

\* Every variable keeps its type; pal_available, a u32, never wraps below 0.
TypeOK ==
  /\ opt \in Options
  /\ pc \in [Cpus -> Location]
  /\ iter \in [Cpus -> 0..4]
  /\ test \in [Cpus -> {"user", "nested"}]
  /\ saw \subseteq Cpus
  /\ lock \in [Locks -> {0, 1}]
  /\ arrived \in Nat
  /\ table \in {"none", "building", "complete"}
  /\ initialized \in BOOLEAN
  /\ cr3 \subseteq Cpus \X {"user", "nested"}
  /\ pal_available \in Nat
  /\ demo \in BOOLEAN

\* spin_lock excludes: at most one CPU is in the critical section of a lock,
\* although the load and the xchg are two steps.
Exclusion ==
  \A l \in Locks : \A c, d \in Cpus :
    (pc[c] \in Inside[l] /\ pc[d] \in Inside[l]) => c = d

\* The CPUs that took a slot and have not given it back.
Holders == {c \in Cpus : pc[c] \in {"pal", "rel_lock", "rel_count",
                                    "freeze_lock", "freeze", "frozen"}}

\* user_main's semaphore implements a counting semaphore with PalAvailable
\* slots: no more CPUs than that run a PAL at a time.
Sem == INSTANCE Semaphore WITH Procs <- Cpus, Slots <- PalAvailable,
                               holders <- Holders
SemaphoreSpec == Sem!Spec

\* No CPU runs on the user page table while it is (re)built.
TableInUseComplete == cr3 # {} => table = "complete"

\* "cannot change MTRR after running pal_demo": once some CPU ran it, the MSR
\* test is not under way on any CPU and none is about to start it.
MtrrBeforePal == demo => \A c \in Cpus : pc[c] \notin {"msr_ls", "msr_changed"}

\* A CPU whose PAL returned an incorrect result stops all others: nobody takes
\* or gives back a slot any more.
FrozenStopsPals ==
  [][(\E c \in Cpus : pc[c] = "frozen") => pal_available' = pal_available]_vars

\* The tests go on: with user mode tests configured some CPU runs a PAL again
\* and again, unless one froze the others.
PalsGoOn ==
  (opt.user \/ opt.nested)
    => []<>(\E c \in Cpus : pc[c] \in {"pal", "frozen"})
=============================================================================
