--------------------------- MODULE UserModeProofs ---------------------------
(***************************************************************************)
(* Proofs about UserMode, for any number of CPUs, any number of slots and    *)
(* any configuration: spin_lock excludes, the semaphore of user_main          *)
(* implements a counting semaphore, no CPU runs on an unfinished page table,  *)
(* a failed PAL stops all others, and the barrier of iteration 3 separates    *)
(* the MSR test from pal_demo.                                               *)
(***************************************************************************)
EXTENDS UserMode, FiniteSetTheorems, TLAPS

\* Whoever is in a critical section has the lock.
LockInv ==
  \A l \in Locks : \A c \in Cpus : pc[c] \in Inside[l] => lock[l] = 1

\* Every slot is either free or held.
SlotInv == pal_available + Cardinality(Holders) = PalAvailable

\* The page table goes from none over building to complete, and no CR3 has
\* it before.
TableInv ==
  /\ initialized => table = "complete"
  /\ ~ initialized => cr3 = {}
  /\ \A c \in Cpus : pc[c] = "pt_build" => ~ initialized
  /\ \A c \in Cpus : pc[c] = "pt_cr3" => initialized

\* Only MSR_LOAD configurations run the MSR test; pal_demo runs in XMHF.
ConfigInv ==
  /\ \A c \in Cpus : pc[c] \in {"msr_ls", "msr_changed"} => opt.msr
  /\ demo => opt.xmhf

\* Where a CPU is in which iteration, when the tests are staged.
BarrierAt == {"barrier_lock", "barrier_count", "barrier_spin"}
StageOf(c) ==
  /\ pc[c] \in {"msr_ls", "msr_changed"} => iter[c] < 3
  /\ pc[c] \in BarrierAt => iter[c] = 3
  /\ pc[c] \in Location \ (BarrierAt \cup {"iter", "msr_ls", "msr_changed"})
       => iter[c] = 4

\* The CPUs that the barrier has counted, and the ones that have left it.
Counted == {c \in Cpus : iter[c] = 4
              \/ (iter[c] = 3 /\ pc[c] \in {"barrier_spin", "iter"})}
Beyond == {c \in Cpus : iter[c] = 4 \/ (iter[c] = 3 /\ pc[c] = "iter")}

BarrierInv ==
  Staged =>
    /\ \A c \in Cpus : StageOf(c)
    /\ arrived = Cardinality(Counted)
    /\ Beyond # {} => BarrierOpen
    /\ demo => BarrierOpen

IInv == /\ TypeOK /\ LockInv /\ Exclusion /\ SlotInv /\ TableInv /\ ConfigInv
        /\ BarrierInv

(* Type correctness. *)

\* The guests start with well-typed variables.
LEMMA TypeInit == Init => TypeOK
<1> SUFFICES ASSUME Init PROVE TypeOK
  OBVIOUS
<1>1. /\ opt \in Options
      /\ pc \in [Cpus -> Location]
      /\ iter \in [Cpus -> 0..4]
      /\ test \in [Cpus -> {"user", "nested"}]
      /\ saw \subseteq Cpus
      /\ lock \in [Locks -> {0, 1}]
      /\ arrived \in Nat
      /\ pal_available \in Nat
  BY UserModeAssumption DEF Init, Location
<1>2. /\ table \in {"none", "building", "complete"}
      /\ initialized \in BOOLEAN
      /\ cr3 \subseteq Cpus \X {"user", "nested"}
      /\ demo \in BOOLEAN
  BY Zenon DEF Init
<1> QED
  BY <1>1, <1>2, Zenon DEF TypeOK

\* Every step of a CPU keeps the types.
LEMMA TypeStep ==
  ASSUME TypeOK, NEW c \in Cpus, CpuStep(c)
  PROVE  TypeOK'
<1> USE DEF TypeOK, Goto, Location, Locks
<1>1. CASE SpinTest(c)
  BY <1>1 DEF SpinTest, Lock
<1>2. CASE SpinXchg(c)
  BY <1>2 DEF SpinXchg, Won, Lock, Locked
<1>3. CASE NextIter(c)
  BY <1>3 DEF NextIter, Staged
<1>4. CASE MsrSet(c)
  BY <1>4 DEF MsrSet
<1>5. CASE MsrReset(c)
  BY <1>5 DEF MsrReset, Staged
<1>6. CASE BarrierCount(c)
  BY <1>6 DEF BarrierCount, Unlock
<1>7. CASE BarrierLeave(c)
  BY <1>7 DEF BarrierLeave, BarrierOpen
<1>8. CASE TestUser(c)
  BY <1>8 DEF TestUser
<1>9. CASE TestNested(c)
  BY <1>9 DEF TestNested
<1>10. CASE PtCheck(c)
  BY <1>10 DEF PtCheck, MustBuild
<1>11. CASE PtBuilt(c)
  BY <1>11 DEF PtBuilt
<1>12. CASE PtCr3(c)
  BY <1>12 DEF PtCr3, Unlock
<1>13. CASE SemCheck(c)
  BY <1>13 DEF SemCheck, Free, Taken, Unlock
<1>14. CASE SemWait(c)
  BY <1>14 DEF SemWait
<1>15. CASE Pal(c)
  BY <1>15 DEF Pal
<1>16. CASE Freeze(c)
  BY <1>16 DEF Freeze, FrozenLock
<1>17. CASE Release(c)
  BY <1>17 DEF Release, Released
<1> QED
  BY <1>1, <1>2, <1>3, <1>4, <1>5, <1>6, <1>7, <1>8, <1>9, <1>10, <1>11, <1>12, <1>13, <1>14, <1>15, <1>16, <1>17 DEF CpuStep

-----------------------------------------------------------------------------
(* Spin locks. *)

\* A critical section belongs to one lock; spin_lock's xchg leads into it and
\* no other step does.
LEMMA Entered ==
  ASSUME TypeOK, NEW c \in Cpus, CpuStep(c)
  PROVE  /\ \A d \in Cpus \ {c} : pc'[d] = pc[d]
         /\ \A l \in Locks :
              \/ pc[c] \in Inside[l] /\ pc'[c] \in Inside[l] /\ lock'[l] = lock[l]
              \/ pc[c] \in Inside[l] /\ pc'[c] \notin Inside[l]
              \/ pc[c] \notin Inside[l] /\ pc'[c] \notin Inside[l]
                   /\ lock'[l] \in {lock[l], 1}
              \/ pc[c] \notin Inside[l] /\ lock[l] = 0 /\ lock'[l] = 1
<1> USE DEF TypeOK, Goto, Locks, Inside, Location
<1>1. CASE SpinTest(c)
  BY <1>1 DEF SpinTest, Lock
<1>2. CASE SpinXchg(c)
  BY <1>2 DEF SpinXchg, Won, Lock, Locked
<1>3. CASE NextIter(c)
  BY <1>3 DEF NextIter, Staged
<1>4. CASE MsrSet(c)
  BY <1>4 DEF MsrSet
<1>5. CASE MsrReset(c)
  BY <1>5 DEF MsrReset, Staged
<1>6. CASE BarrierCount(c)
  BY <1>6 DEF BarrierCount, Unlock
<1>7. CASE BarrierLeave(c)
  BY <1>7 DEF BarrierLeave, BarrierOpen
<1>8. CASE TestUser(c)
  BY <1>8 DEF TestUser
<1>9. CASE TestNested(c)
  BY <1>9 DEF TestNested
<1>10. CASE PtCheck(c)
  BY <1>10 DEF PtCheck, MustBuild
<1>11. CASE PtBuilt(c)
  BY <1>11 DEF PtBuilt
<1>12. CASE PtCr3(c)
  BY <1>12 DEF PtCr3, Unlock
<1>13. CASE SemCheck(c)
  BY <1>13 DEF SemCheck, Free, Taken, Unlock
<1>14. CASE SemWait(c)
  BY <1>14 DEF SemWait
<1>15. CASE Pal(c)
  BY <1>15 DEF Pal
<1>16. CASE Freeze(c)
  BY <1>16 DEF Freeze, FrozenLock
<1>17. CASE Release(c)
  BY <1>17 DEF Release, Released
<1> QED
  BY <1>1, <1>2, <1>3, <1>4, <1>5, <1>6, <1>7, <1>8, <1>9, <1>10, <1>11, <1>12, <1>13, <1>14, <1>15, <1>16, <1>17 DEF CpuStep

\* Whatever a CPU does, at most one is in a critical section, and the lock
\* word says so.
LEMMA LockStep ==
  ASSUME TypeOK, TypeOK', LockInv, Exclusion, NEW c \in Cpus, CpuStep(c)
  PROVE  LockInv' /\ Exclusion'
<1>1. \A d \in Cpus \ {c} : pc'[d] = pc[d]
  BY Entered
<1>2. SUFFICES ASSUME NEW l \in Locks
               PROVE  /\ \A d \in Cpus : pc'[d] \in Inside[l] => lock'[l] = 1
                      /\ \A d, e \in Cpus :
                           pc'[d] \in Inside[l] /\ pc'[e] \in Inside[l] => d = e
  BY DEF LockInv, Exclusion
<1>3. /\ \A d \in Cpus : pc[d] \in Inside[l] => lock[l] = 1
      /\ \A d, e \in Cpus : pc[d] \in Inside[l] /\ pc[e] \in Inside[l] => d = e
  BY DEF LockInv, Exclusion
<1>4. \/ pc[c] \in Inside[l] /\ pc'[c] \in Inside[l] /\ lock'[l] = lock[l]
      \/ pc[c] \in Inside[l] /\ pc'[c] \notin Inside[l]
      \/ pc[c] \notin Inside[l] /\ pc'[c] \notin Inside[l]
           /\ lock'[l] \in {lock[l], 1}
      \/ pc[c] \notin Inside[l] /\ lock[l] = 0 /\ lock'[l] = 1
  BY Entered
<1> HIDE DEF Inside
<1> QED
  BY <1>1, <1>3, <1>4

-----------------------------------------------------------------------------
(* The semaphore of user_main. *)

\* A step that neither takes nor gives back a slot keeps the holders; SemCheck
\* adds its CPU while a slot is free, Release takes its own away.
LEMMA HoldersStep ==
  ASSUME TypeOK, NEW c \in Cpus, CpuStep(c)
  PROVE  \/ Holders' = Holders /\ pal_available' = pal_available
         \/ /\ c \notin Holders /\ Holders' = Holders \cup {c}
            /\ pal_available > 0 /\ pal_available' = pal_available - 1
            /\ pc[c] = "sem_check"
         \/ /\ c \in Holders /\ Holders' = Holders \ {c}
            /\ pal_available' = pal_available + 1
            /\ pc[c] = "rel_count"
<1> USE DEF TypeOK, Goto, Location, Holders
<1>1. CASE SpinTest(c)
  BY <1>1 DEF SpinTest, Lock
<1>2. CASE SpinXchg(c)
  BY <1>2 DEF SpinXchg, Won, Lock, Locked
<1>3. CASE NextIter(c)
  BY <1>3 DEF NextIter, Staged
<1>4. CASE MsrSet(c)
  BY <1>4 DEF MsrSet
<1>5. CASE MsrReset(c)
  BY <1>5 DEF MsrReset, Staged
<1>6. CASE BarrierCount(c)
  BY <1>6 DEF BarrierCount, Unlock
<1>7. CASE BarrierLeave(c)
  BY <1>7 DEF BarrierLeave, BarrierOpen
<1>8. CASE TestUser(c)
  BY <1>8 DEF TestUser
<1>9. CASE TestNested(c)
  BY <1>9 DEF TestNested
<1>10. CASE PtCheck(c)
  BY <1>10 DEF PtCheck, MustBuild
<1>11. CASE PtBuilt(c)
  BY <1>11 DEF PtBuilt
<1>12. CASE PtCr3(c)
  BY <1>12 DEF PtCr3, Unlock
<1>13. CASE SemCheck(c)
  BY <1>13 DEF SemCheck, Free, Taken, Unlock
<1>14. CASE SemWait(c)
  BY <1>14 DEF SemWait
<1>15. CASE Pal(c)
  BY <1>15 DEF Pal
<1>16. CASE Freeze(c)
  BY <1>16 DEF Freeze, FrozenLock
<1>17. CASE Release(c)
  BY <1>17 DEF Release, Released
<1> QED
  BY <1>1, <1>2, <1>3, <1>4, <1>5, <1>6, <1>7, <1>8, <1>9, <1>10, <1>11, <1>12, <1>13, <1>14, <1>15, <1>16, <1>17 DEF CpuStep

\* Holders is finite.
LEMMA HoldersFinite == IsFiniteSet(Holders) /\ Cardinality(Holders) \in Nat
<1>1. Holders \in SUBSET Cpus
  BY DEF Holders
<1> QED
  BY <1>1, UserModeAssumption, FS_Subset, FS_CardinalityType

\* No slot is lost and none is given out twice.
LEMMA SlotStep ==
  ASSUME TypeOK, SlotInv, NEW c \in Cpus, CpuStep(c)
  PROVE  SlotInv'
<1>1. Cardinality(Holders \cup {c}) =
        IF c \in Holders THEN Cardinality(Holders) ELSE Cardinality(Holders) + 1
  BY HoldersFinite, FS_AddElement
<1>2. Cardinality(Holders \ {c}) =
        IF c \in Holders THEN Cardinality(Holders) - 1 ELSE Cardinality(Holders)
  BY HoldersFinite, FS_RemoveElement
<1>3. pal_available \in Nat
  BY DEF TypeOK
<1>4. \/ Holders' = Holders /\ pal_available' = pal_available
      \/ /\ c \notin Holders /\ Holders' = Holders \cup {c}
         /\ pal_available' = pal_available - 1
      \/ /\ c \in Holders /\ Holders' = Holders \ {c}
         /\ pal_available' = pal_available + 1
  BY HoldersStep
<1>5. Cardinality(Holders) \in Nat
  BY HoldersFinite
<1>6. pal_available + Cardinality(Holders) = PalAvailable
  BY DEF SlotInv
<1>7. pal_available' + Cardinality(Holders') = PalAvailable
  <2> HIDE DEF Holders
  <2>1. CASE Holders' = Holders /\ pal_available' = pal_available
    BY <2>1, <1>6
  <2>2. CASE /\ c \notin Holders /\ Holders' = Holders \cup {c}
             /\ pal_available' = pal_available - 1
    BY <2>2, <1>1, <1>3, <1>5, <1>6
  <2>3. CASE /\ c \in Holders /\ Holders' = Holders \ {c}
             /\ pal_available' = pal_available + 1
    BY <2>3, <1>2, <1>3, <1>5, <1>6
  <2> QED
    BY <1>4, <2>1, <2>2, <2>3
<1> QED
  BY <1>7, Zenon DEF SlotInv

-----------------------------------------------------------------------------
(* The user page table. *)

\* Only the first CPU builds it, and no CPU has it in CR3 before it is done.
LEMMA TableStep ==
  ASSUME TypeOK, Exclusion, TableInv, NEW c \in Cpus, CpuStep(c)
  PROVE  TableInv'
<1>0. \A d \in Cpus : pc[c] = "pt_build" /\ pc[d] = "pt_build" => c = d
  BY DEF Exclusion, Locks, Inside
<1> USE DEF TypeOK, Goto, Location, TableInv
<1>1. CASE SpinTest(c)
  BY <1>1, <1>0 DEF SpinTest, Lock
<1>2. CASE SpinXchg(c)
  BY <1>2, <1>0 DEF SpinXchg, Won, Lock, Locked
<1>3. CASE NextIter(c)
  BY <1>3, <1>0 DEF NextIter, Staged
<1>4. CASE MsrSet(c)
  BY <1>4, <1>0 DEF MsrSet
<1>5. CASE MsrReset(c)
  BY <1>5, <1>0 DEF MsrReset, Staged
<1>6. CASE BarrierCount(c)
  BY <1>6, <1>0 DEF BarrierCount, Unlock
<1>7. CASE BarrierLeave(c)
  BY <1>7, <1>0 DEF BarrierLeave, BarrierOpen
<1>8. CASE TestUser(c)
  BY <1>8, <1>0 DEF TestUser
<1>9. CASE TestNested(c)
  BY <1>9, <1>0 DEF TestNested
<1>10. CASE PtCheck(c)
  BY <1>10, <1>0 DEF PtCheck, MustBuild
<1>11. CASE PtBuilt(c)
  BY <1>11, <1>0 DEF PtBuilt
<1>12. CASE PtCr3(c)
  BY <1>12, <1>0 DEF PtCr3, Unlock
<1>13. CASE SemCheck(c)
  BY <1>13, <1>0 DEF SemCheck, Free, Taken, Unlock
<1>14. CASE SemWait(c)
  BY <1>14, <1>0 DEF SemWait
<1>15. CASE Pal(c)
  BY <1>15, <1>0 DEF Pal
<1>16. CASE Freeze(c)
  BY <1>16, <1>0 DEF Freeze, FrozenLock
<1>17. CASE Release(c)
  BY <1>17, <1>0 DEF Release, Released
<1> QED
  BY <1>1, <1>2, <1>3, <1>4, <1>5, <1>6, <1>7, <1>8, <1>9, <1>10, <1>11, <1>12, <1>13, <1>14, <1>15, <1>16, <1>17 DEF CpuStep

\* Only configurations with the MSR test run it, and only XMHF runs pal_demo.
LEMMA ConfigStep ==
  ASSUME TypeOK, ConfigInv, NEW c \in Cpus, CpuStep(c)
  PROVE  ConfigInv'
<1> USE DEF TypeOK, Goto, Location, ConfigInv
<1>1. CASE SpinTest(c)
  BY <1>1 DEF SpinTest, Lock
<1>2. CASE SpinXchg(c)
  BY <1>2 DEF SpinXchg, Won, Lock, Locked
<1>3. CASE NextIter(c)
  BY <1>3 DEF NextIter, Staged
<1>4. CASE MsrSet(c)
  BY <1>4 DEF MsrSet
<1>5. CASE MsrReset(c)
  BY <1>5 DEF MsrReset, Staged
<1>6. CASE BarrierCount(c)
  BY <1>6 DEF BarrierCount, Unlock
<1>7. CASE BarrierLeave(c)
  BY <1>7 DEF BarrierLeave, BarrierOpen
<1>8. CASE TestUser(c)
  BY <1>8 DEF TestUser
<1>9. CASE TestNested(c)
  BY <1>9 DEF TestNested
<1>10. CASE PtCheck(c)
  BY <1>10 DEF PtCheck, MustBuild
<1>11. CASE PtBuilt(c)
  BY <1>11 DEF PtBuilt
<1>12. CASE PtCr3(c)
  BY <1>12 DEF PtCr3, Unlock
<1>13. CASE SemCheck(c)
  BY <1>13 DEF SemCheck, Free, Taken, Unlock
<1>14. CASE SemWait(c)
  BY <1>14 DEF SemWait
<1>15. CASE Pal(c)
  BY <1>15 DEF Pal
<1>16. CASE Freeze(c)
  BY <1>16 DEF Freeze, FrozenLock
<1>17. CASE Release(c)
  BY <1>17 DEF Release, Released
<1> QED
  BY <1>1, <1>2, <1>3, <1>4, <1>5, <1>6, <1>7, <1>8, <1>9, <1>10, <1>11, <1>12, <1>13, <1>14, <1>15, <1>16, <1>17 DEF CpuStep

-----------------------------------------------------------------------------
(* The barrier of iteration 3. *)

\* A step counts a CPU in only when it adds it to the counter, lets one leave
\* only when the barrier is open, and no step goes back to the MSR test.
LEMMA CountedStep ==
  ASSUME TypeOK, Staged, \A d \in Cpus : StageOf(d), NEW c \in Cpus, CpuStep(c)
  PROVE  /\ \A d \in Cpus : StageOf(d)'
         /\ \/ Counted' = Counted /\ arrived' = arrived
            \/ /\ c \notin Counted /\ Counted' = Counted \cup {c}
               /\ arrived' = arrived + 1
         /\ Beyond' \subseteq Beyond \/ BarrierOpen
         /\ demo' => demo \/ c \in Beyond
<1> USE DEF TypeOK, Goto, Location, StageOf, BarrierAt, Counted, Beyond, Staged
<1>1. CASE SpinTest(c)
  BY <1>1 DEF SpinTest, Lock
<1>2. CASE SpinXchg(c)
  BY <1>2 DEF SpinXchg, Won, Lock, Locked
<1>3. CASE NextIter(c)
  BY <1>3 DEF NextIter
<1>4. CASE MsrSet(c)
  BY <1>4 DEF MsrSet
<1>5. CASE MsrReset(c)
  BY <1>5 DEF MsrReset
<1>6. CASE BarrierCount(c)
  BY <1>6 DEF BarrierCount, Unlock
<1>7. CASE BarrierLeave(c)
  BY <1>7 DEF BarrierLeave
<1>8. CASE TestUser(c)
  BY <1>8 DEF TestUser
<1>9. CASE TestNested(c)
  BY <1>9 DEF TestNested
<1>10. CASE PtCheck(c)
  BY <1>10 DEF PtCheck, MustBuild
<1>11. CASE PtBuilt(c)
  BY <1>11 DEF PtBuilt
<1>12. CASE PtCr3(c)
  BY <1>12 DEF PtCr3, Unlock
<1>13. CASE SemCheck(c)
  BY <1>13 DEF SemCheck, Free, Taken, Unlock
<1>14. CASE SemWait(c)
  BY <1>14 DEF SemWait
<1>15. CASE Pal(c)
  BY <1>15 DEF Pal
<1>16. CASE Freeze(c)
  BY <1>16 DEF Freeze, FrozenLock
<1>17. CASE Release(c)
  BY <1>17 DEF Release, Released
<1> QED
  BY <1>1, <1>2, <1>3, <1>4, <1>5, <1>6, <1>7, <1>8, <1>9, <1>10, <1>11, <1>12, <1>13, <1>14, <1>15, <1>16, <1>17 DEF CpuStep

\* Whoever is beyond the barrier of pal_demo found it open: the counter is the number
\* of CPUs that arrived, and it never decreases.
LEMMA BarrierStep ==
  ASSUME TypeOK, BarrierInv, NEW c \in Cpus, CpuStep(c)
  PROVE  BarrierInv'
<1>1. Staged' = Staged
  BY DEF Staged, CpuStep, SpinTest, SpinXchg, NextIter, MsrSet, MsrReset, BarrierCount,
         BarrierLeave, TestUser, TestNested, PtCheck, PtBuilt, PtCr3, SemCheck,
         SemWait, Pal, Freeze, Release
<1>2. SUFFICES ASSUME Staged
               PROVE  /\ \A d \in Cpus : StageOf(d)'
                      /\ arrived' = Cardinality(Counted')
                      /\ Beyond' # {} => BarrierOpen'
                      /\ demo' => BarrierOpen'
  BY <1>1 DEF BarrierInv
<1>3. /\ \A d \in Cpus : StageOf(d)
      /\ arrived = Cardinality(Counted)
      /\ Beyond # {} => BarrierOpen
      /\ demo => BarrierOpen
  BY <1>2 DEF BarrierInv
<1>4. /\ \A d \in Cpus : StageOf(d)'
      /\ \/ Counted' = Counted /\ arrived' = arrived
         \/ /\ c \notin Counted /\ Counted' = Counted \cup {c}
            /\ arrived' = arrived + 1
      /\ Beyond' \subseteq Beyond \/ BarrierOpen
      /\ demo' => demo \/ c \in Beyond
  BY <1>2, <1>3, CountedStep
<1>5. IsFiniteSet(Counted)
  <2>1. Counted \in SUBSET Cpus
    BY DEF Counted
  <2> QED
    BY <2>1, UserModeAssumption, FS_Subset
<1>6. Cardinality(Counted \cup {c}) =
        IF c \in Counted THEN Cardinality(Counted) ELSE Cardinality(Counted) + 1
  BY <1>5, FS_AddElement
<1>7. arrived \in Nat /\ Cardinality(Cpus) \in Nat
  BY UserModeAssumption, FS_CardinalityType DEF TypeOK
<1> HIDE DEF Counted, Beyond
<1>8. arrived' = Cardinality(Counted') /\ (BarrierOpen => BarrierOpen')
  BY <1>3, <1>4, <1>6, <1>7 DEF BarrierOpen
<1> QED
  BY <1>3, <1>4, <1>8

-----------------------------------------------------------------------------
(* The invariant. *)

\* At first all locks are free, all slots too, and nobody is at the barrier.
LEMMA InitIInv == Init => IInv
<1> SUFFICES ASSUME Init PROVE IInv
  OBVIOUS
<1>1. TypeOK
  BY TypeInit
<1>2. LockInv /\ Exclusion /\ TableInv /\ ConfigInv
  BY DEF Init, LockInv, Exclusion, TableInv, ConfigInv, Locks, Inside
<1>3. SlotInv
  <2>1. Holders = {}
    BY DEF Init, Holders
  <2> QED
    BY <2>1, FS_EmptySet, UserModeAssumption DEF SlotInv, Init
<1>4. BarrierInv
  <2>1. Counted = {} /\ Beyond = {}
    BY DEF Init, Counted, Beyond
  <2>2. \A c \in Cpus : StageOf(c)
    BY DEF Init, StageOf, BarrierAt
  <2> QED
    BY <2>1, <2>2, FS_EmptySet DEF BarrierInv, Init
<1> QED
  BY <1>1, <1>2, <1>3, <1>4 DEF IInv

\* No step breaks the invariant: each conjunct by its own lemma.
LEMMA NextIInv == IInv /\ [Next]_vars => IInv'
<1> SUFFICES ASSUME IInv, [Next]_vars PROVE IInv'
  OBVIOUS
<1>1. ASSUME NEW c \in Cpus, CpuStep(c) PROVE IInv'
  BY <1>1, TypeStep, LockStep, SlotStep, TableStep, ConfigStep, BarrierStep DEF IInv
<1>2. CASE UNCHANGED vars
  BY <1>2 DEF vars, IInv, TypeOK, LockInv, Exclusion, SlotInv, Holders, TableInv, ConfigInv,
              BarrierInv, Staged, StageOf, Counted, Beyond, BarrierOpen
<1> QED
  BY <1>1, <1>2 DEF Next

\* So it always holds.
LEMMA Inductive == Spec => []IInv
BY InitIInv, NextIInv, PTL DEF Spec

-----------------------------------------------------------------------------

\* Every variable keeps its type; in particular pal_available, an unsigned
\* integer, is never decremented below 0.
THEOREM TypeCorrect == Spec => []TypeOK
<1>1. IInv => TypeOK
  BY DEF IInv
<1> QED
  BY <1>1, Inductive, PTL

\* spin_lock excludes, however many CPUs contend: at most one of them is in
\* the critical section of a lock.
THEOREM LocksExclude == Spec => []Exclusion
<1>1. IInv => Exclusion
  BY DEF IInv
<1> QED
  BY <1>1, Inductive, PTL

\* No CPU ever has the user page table in CR3 while set_user_mode_page_table
\* is building it.
THEOREM TableComplete == Spec => []TableInUseComplete
<1>1. IInv => TableInUseComplete
  BY DEF IInv, TableInv, TableInUseComplete
<1> QED
  BY <1>1, Inductive, PTL

\* A PAL that failed stops all others: after its CPU keeps pal_lock nobody
\* takes or gives back a slot.
THEOREM FailedPalStopsAll == Spec => FrozenStopsPals
<1> DEFINE A == (\E c \in Cpus : pc[c] = "frozen") => pal_available' = pal_available
<1>1. IInv /\ [Next]_vars => [A]_vars
  <2> SUFFICES ASSUME IInv, NEW c \in Cpus, CpuStep(c), NEW d \in Cpus, pc[d] = "frozen"
               PROVE  pal_available' = pal_available
    BY DEF Next
  <2>1. pc[c] \notin {"sem_check", "rel_count"}
    BY DEF IInv, Exclusion, Locks, Inside
  <2> QED
    BY <2>1, HoldersStep DEF IInv
<1> QED
  BY <1>1, Inductive, PTL DEF Spec, FrozenStopsPals

\* user_main's pal_lock and pal_available implement a counting semaphore of
\* PalAvailable slots.
THEOREM ImplementsSemaphore == Spec => SemaphoreSpec
<1>1. Init => Sem!Init
  BY DEF Init, Sem!Init, Holders
<1>2. IInv /\ [Next]_vars => [Sem!Next]_Holders
  <2> SUFFICES ASSUME IInv, [Next]_vars PROVE [Sem!Next]_Holders
    OBVIOUS
  <2>1. CASE UNCHANGED vars
    BY <2>1 DEF vars, Holders
  <2>2. ASSUME NEW c \in Cpus, CpuStep(c) PROVE [Sem!Next]_Holders
    <3>1. \/ Holders' = Holders
          \/ c \notin Holders /\ Holders' = Holders \cup {c} /\ pal_available > 0
          \/ c \in Holders /\ Holders' = Holders \ {c}
      BY <2>2, HoldersStep DEF IInv
    <3>2. pal_available > 0 => Cardinality(Holders) < PalAvailable
      BY HoldersFinite, UserModeAssumption DEF IInv, SlotInv, TypeOK
    <3>3. Sem!Cardinality(Holders) = Cardinality(Holders)
      BY Zenon DEF Sem!Cardinality, Cardinality
    <3> HIDE DEF Holders
    <3> QED
      BY <3>1, <3>2, <3>3 DEF Sem!Next, Sem!Acquire, Sem!Release
  <2> QED
    BY <2>1, <2>2 DEF Next
<1> QED
  BY <1>1, <1>2, Inductive, PTL DEF Spec, SemaphoreSpec, Sem!Spec

\* "cannot change MTRR after running pal_demo": the barrier of iteration 3 keeps
\* this for any number of CPUs, in every configuration that does not run the
\* MSR test in XMHF without the user mode test of the host.
THEOREM MtrrOrder ==
  ASSUME \A o \in Options : (o.xmhf /\ o.msr) => o.user
  PROVE  Spec => []MtrrBeforePal
<1>1. IInv => MtrrBeforePal
  <2> SUFFICES ASSUME IInv, demo, NEW c \in Cpus, pc[c] \in {"msr_ls", "msr_changed"}
               PROVE  FALSE
    BY DEF MtrrBeforePal
  <2>1. Staged
    BY DEF IInv, ConfigInv, TypeOK, Staged
  <2>2. arrived = Cardinality(Counted) /\ arrived >= Cardinality(Cpus) /\ StageOf(c)
    BY <2>1 DEF IInv, BarrierInv, BarrierOpen
  <2>3. Counted \in SUBSET Cpus
    BY DEF Counted
  <2>4. Counted = Cpus
    <3>1. /\ Cardinality(Counted) <= Cardinality(Cpus)
          /\ Cardinality(Cpus) = Cardinality(Counted) => Cpus = Counted
      BY <2>3, UserModeAssumption, FS_Subset
    <3>2. Cardinality(Cpus) \in Nat /\ arrived \in Nat
      BY UserModeAssumption, FS_CardinalityType DEF IInv, TypeOK
    <3> QED
      BY <2>2, <3>1, <3>2
  <2> QED
    BY <2>2, <2>4 DEF Counted, StageOf, IInv, TypeOK
<1> QED
  BY <1>1, Inductive, PTL
=============================================================================
