-------------------------- MODULE SleepLockProofs --------------------------
(* Proofs about SleepLock for any set of processes and any number of CPUs.  *)
EXTENDS SleepLock, TLAPS

USE DEF Goto, Label, Preemptible, Spinning, HoldsSpin, HoldsPt

LEMMA InitIInv == Init => IInv
BY NoProcAssumption DEF Init, IInv, TypeOK, SpinlockOwners, SleepersSleepOnLk,
                        LockOwner, NoLostWakeup

(* A step of the scheduler or of kill() moves nobody: only p->state changes *)
(* and only a killed or woken process stops sleeping.                       *)
LEMMA SchedulingStep ==
    ASSUME IInv, NEW p \in Proc,
           Yield(p) \/ Dispatch(p) \/ \E q \in Proc : Kill(q, p)
    PROVE  IInv'
<1>1. PICK s \in {"RUNNABLE", "RUNNING"} :
        /\ state' = [state EXCEPT ![p] = s]
        /\ UNCHANGED <<pc, chan, spin, ptlock, locked, pid>>
  BY DEF Yield, Dispatch, Kill
<1>2. TypeOK' BY <1>1 DEF IInv, TypeOK
<1>3. SpinlockOwners' BY <1>1 DEF IInv, SpinlockOwners
<1>4. SleepersSleepOnLk' BY <1>1 DEF IInv, TypeOK, SleepersSleepOnLk
<1>5. LockOwner' BY <1>1 DEF IInv, LockOwner
<1>6. NoLostWakeup' BY <1>1 DEF IInv, TypeOK, NoLostWakeup
<1> QED BY <1>2, <1>3, <1>4, <1>5, <1>6 DEF IInv

LEMMA PushcliStep ==
    ASSUME IInv, NEW p \in Proc, Request(p) \/ Retry(p) \/ StartRelease(p)
    PROVE  IInv'
<1> USE DEF Request, Retry, StartRelease, Pushcli
<1>1. TypeOK' BY DEF IInv, TypeOK
<1>2. SpinlockOwners' BY DEF IInv, TypeOK, SpinlockOwners
<1>3. SleepersSleepOnLk' BY DEF IInv, TypeOK, SleepersSleepOnLk
<1>4. LockOwner' BY DEF IInv, TypeOK, LockOwner
<1>5. NoLostWakeup' BY DEF IInv, TypeOK, NoLostWakeup, SleepersSleepOnLk
<1> QED BY <1>1, <1>2, <1>3, <1>4, <1>5 DEF IInv

LEMMA AcquireStep ==
    ASSUME IInv, NEW p \in Proc, LockSpin(p) \/ TestLocked(p) \/ TakeLock(p)
    PROVE  IInv'
<1> USE DEF LockSpin, Xchg, TestLocked, TakeLock
<1>1. TypeOK' BY DEF IInv, TypeOK
<1>2. SpinlockOwners' BY NoProcAssumption DEF IInv, TypeOK, SpinlockOwners
<1>3. SleepersSleepOnLk' BY DEF IInv, TypeOK, SleepersSleepOnLk
<1>4. LockOwner' BY DEF IInv, TypeOK, LockOwner
<1>5. NoLostWakeup' BY DEF IInv, TypeOK, NoLostWakeup, SleepersSleepOnLk
<1> QED BY <1>1, <1>2, <1>3, <1>4, <1>5 DEF IInv

LEMMA SleepStep ==
    ASSUME IInv, NEW p \in Proc,
           \/ SleepAcquire(p) \/ SleepRelease(p) \/ SleepSched(p)
           \/ Resume(p) \/ SleepTidy(p)
    PROVE  IInv'
<1> USE DEF SleepAcquire, SleepRelease, SleepSched, Resume, SleepTidy
<1>1. TypeOK' BY DEF IInv, TypeOK
<1>2. SpinlockOwners' BY NoProcAssumption DEF IInv, TypeOK, SpinlockOwners
<1>3. SleepersSleepOnLk' BY DEF IInv, TypeOK, SleepersSleepOnLk
<1>4. LockOwner' BY DEF IInv, TypeOK, LockOwner
<1>5. NoLostWakeup' BY DEF IInv, TypeOK, NoLostWakeup, SleepersSleepOnLk
<1> QED BY <1>1, <1>2, <1>3, <1>4, <1>5 DEF IInv

(* The heart of the argument: when wakeup() runs it holds ptable.lock, so   *)
(* nobody is between testing lk->locked and being SLEEPING on the channel.  *)
LEMMA ReleaseStep ==
    ASSUME IInv, NEW p \in Proc, Unlock(p) \/ Wakeup(p) \/ ReleaseSpin(p)
    PROVE  IInv'
<1>1. CASE Unlock(p)
  <2> USE <1>1 DEF Unlock, Xchg
  <2>1. TypeOK' BY DEF IInv, TypeOK
  <2>2. SpinlockOwners' BY NoProcAssumption DEF IInv, TypeOK, SpinlockOwners
  <2>3. SleepersSleepOnLk' BY DEF IInv, TypeOK, SleepersSleepOnLk
  <2>4. LockOwner' BY DEF IInv, TypeOK, LockOwner
  <2>5. NoLostWakeup'
    <3>1. pc'[p] = "wakeup" BY DEF IInv, TypeOK
    <3> QED BY <3>1 DEF NoLostWakeup
  <2> QED BY <2>1, <2>2, <2>3, <2>4, <2>5 DEF IInv
<1>2. CASE Wakeup(p)
  <2> USE <1>2 DEF Wakeup
  <2>1. TypeOK' BY DEF IInv, TypeOK
  <2>2. SpinlockOwners' BY NoProcAssumption DEF IInv, TypeOK, SpinlockOwners
  <2>3. SleepersSleepOnLk' BY DEF IInv, TypeOK, SleepersSleepOnLk
  <2>4. LockOwner' BY DEF IInv, TypeOK, LockOwner
  <2>5. ASSUME NEW q \in Proc
        PROVE  pc'[q] \notin {"sleep", "unlk", "sched"} /\ state'[q] # "SLEEPING"
    <3>1. spin = p /\ ptlock = NoProc
      BY DEF IInv, SpinlockOwners
    <3>2. pc[q] \notin {"unlk", "sched"}
      BY <3>1, NoProcAssumption DEF IInv, SpinlockOwners
    <3>3. pc[q] = "sleep" => q = p
      BY <3>1 DEF IInv, SpinlockOwners
    <3>4. pc'[q] \notin {"sleep", "unlk", "sched"}
      BY <3>2, <3>3 DEF IInv, TypeOK
    <3>5. state'[q] # "SLEEPING"
      BY DEF IInv, SleepersSleepOnLk
    <3> QED BY <3>4, <3>5
  <2>6. NoLostWakeup' BY <2>5 DEF NoLostWakeup
  <2> QED BY <2>1, <2>2, <2>3, <2>4, <2>6 DEF IInv
<1>3. CASE ReleaseSpin(p)
  <2> USE <1>3 DEF ReleaseSpin
  <2>1. TypeOK' BY DEF IInv, TypeOK
  <2>2. SpinlockOwners' BY NoProcAssumption DEF IInv, TypeOK, SpinlockOwners
  <2>3. SleepersSleepOnLk' BY DEF IInv, TypeOK, SleepersSleepOnLk
  <2>4. LockOwner' BY DEF IInv, TypeOK, LockOwner
  <2>5. NoLostWakeup' BY DEF IInv, TypeOK, NoLostWakeup
  <2> QED BY <2>1, <2>2, <2>3, <2>4, <2>5 DEF IInv
<1> QED BY <1>1, <1>2, <1>3

LEMMA NextIInv == IInv /\ [Next]_vars => IInv'
<1> SUFFICES ASSUME IInv, [Next]_vars PROVE IInv'
  OBVIOUS
<1>1. CASE UNCHANGED vars
  BY <1>1 DEF vars, IInv, TypeOK, SpinlockOwners, SleepersSleepOnLk, LockOwner,
              NoLostWakeup
<1>2. ASSUME NEW p \in Proc, Request(p) \/ Retry(p) \/ StartRelease(p)
      PROVE  IInv'
  BY <1>2, PushcliStep
<1>3. ASSUME NEW p \in Proc, Step(p) \/ Resume(p)
      PROVE  IInv'
  BY <1>3, AcquireStep, SleepStep, ReleaseStep DEF Step
<1>4. ASSUME NEW p \in Proc, Yield(p) \/ Dispatch(p) \/ \E q \in Proc : Kill(q, p)
      PROVE  IInv'
  BY <1>4, SchedulingStep
<1> QED BY <1>1, <1>2, <1>3, <1>4 DEF Next

(* The inductive invariant holds in every reachable state. *)
THEOREM Inductive == Spec => []IInv
BY InitIInv, NextIInv, PTL DEF Spec

(* acquiresleep() admits one process at a time and lk->pid names it, for    *)
(* every number of processes and CPUs.                                      *)
THEOREM MutualExclusionHolds == Spec => []MutualExclusion
<1>1. IInv => MutualExclusion
  BY DEF IInv, LockOwner, MutualExclusion
<1> QED BY <1>1, Inductive, PTL

(* sleep() never misses the wakeup() of releasesleep(). *)
THEOREM NoLostWakeupHolds == Spec => []NoLostWakeup
<1>1. IInv => NoLostWakeup
  BY DEF IInv
<1> QED BY <1>1, Inductive, PTL

(* The panics of sched() about locks cannot fire from sleep(). *)
THEOREM SchedHoldsOnlyPtlockHolds == Spec => []SchedHoldsOnlyPtlock
<1>1. IInv => SchedHoldsOnlyPtlock
  BY DEF IInv, SpinlockOwners, SchedHoldsOnlyPtlock
<1> QED BY <1>1, Inductive, PTL

-----------------------------------------------------------------------------
(* The refinement: the abstract owner and waiting set change only in the    *)
(* steps Request, TakeLock and Unlock.                                      *)
owner == IF locked = 1 THEN pid ELSE NoProc
waiting == {p \in Proc : pc[p] \in InAcquire}

LEMMA StepRefines ==
    ASSUME IInv, [Next]_vars
    PROVE  [Service!Next]_<<owner, waiting>>
<1> USE DEF owner, waiting, InAcquire
<1>1. CASE UNCHANGED vars
  BY <1>1 DEF vars
<1>2. ASSUME NEW p \in Proc, Request(p) PROVE Service!Request(p)
  <2>1. p # owner /\ p \notin waiting
    BY <1>2, NoProcAssumption DEF IInv, LockOwner, TypeOK, Request, Pushcli
  <2>2. waiting' = waiting \cup {p}
    BY <1>2 DEF IInv, TypeOK, Request, Pushcli
  <2>3. UNCHANGED owner
    BY <1>2 DEF Request, Pushcli
  <2> QED BY <2>1, <2>2, <2>3 DEF Service!Request
<1>3. ASSUME NEW p \in Proc, TakeLock(p) PROVE Service!Grant(p)
  <2>1. owner = NoProc /\ p \in waiting /\ owner' = p
    BY <1>3 DEF TakeLock
  <2>2. waiting' = waiting \ {p}
    BY <1>3 DEF IInv, TypeOK, TakeLock
  <2> QED BY <2>1, <2>2 DEF Service!Grant
<1>4. ASSUME NEW p \in Proc, Unlock(p) PROVE Service!Release(p)
  <2>1. owner = p
    BY <1>4 DEF IInv, LockOwner, Unlock, Xchg
  <2>2. owner' = NoProc
    BY <1>4 DEF Unlock
  <2>3. UNCHANGED waiting
    BY <1>4 DEF IInv, TypeOK, Unlock, Xchg
  <2> QED BY <2>1, <2>2, <2>3 DEF Service!Release
<1>5. ASSUME NEW p \in Proc,
             \/ Retry(p) \/ StartRelease(p)
             \/ LockSpin(p) \/ TestLocked(p) \/ Wakeup(p) \/ ReleaseSpin(p)
             \/ SleepAcquire(p) \/ SleepRelease(p) \/ SleepSched(p) \/ SleepTidy(p)
             \/ Resume(p) \/ Yield(p) \/ Dispatch(p) \/ \E q \in Proc : Kill(q, p)
      PROVE  UNCHANGED <<owner, waiting>>
  <2>1. UNCHANGED owner
    BY <1>5 DEF Retry, StartRelease, Pushcli, LockSpin, Xchg, TestLocked, Wakeup,
                ReleaseSpin, SleepAcquire, SleepRelease, SleepSched, SleepTidy,
                Resume, Yield, Dispatch, Kill
  <2>2. UNCHANGED waiting
    BY <1>5 DEF IInv, TypeOK,
                Retry, StartRelease, Pushcli, LockSpin, Xchg, TestLocked, Wakeup,
                ReleaseSpin, SleepAcquire, SleepRelease, SleepSched, SleepTidy,
                Resume, Yield, Dispatch, Kill
  <2> QED BY <2>1, <2>2
<1> QED BY <1>1, <1>2, <1>3, <1>4, <1>5 DEF Next, Step, Service!Next

(* The sleep lock, with its two spinlocks, sleeping and waking, is the      *)
(* simple lock of LockService to its callers.                               *)
THEOREM Refinement == Spec => ImplementsLock
<1>1. Init => Service!Init
  BY DEF Init, Service!Init, InAcquire
<1>2. IInv /\ [Next]_vars => [Service!Next]_<<owner, waiting>>
  BY StepRefines
<1> QED BY <1>1, <1>2, Inductive, PTL
        DEF Spec, ImplementsLock, Service!Spec, owner, waiting
=============================================================================
