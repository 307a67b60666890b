----------------------------- MODULE SleepLock -----------------------------
(* One sleep lock (sleeplock.c) used by several processes, together with    *)
(* the sleep/wakeup protocol of proc.c it is built on, at the granularity   *)
(* of the two spinlocks involved: lk->lk, which guards the sleep lock, and  *)
(* ptable.lock, which guards p->state and p->chan.  The bodies that run     *)
(* under a spinlock are split wherever another CPU could observe the        *)
(* difference.                                                              *)
EXTENDS Integers, FiniteSets

CONSTANTS Proc,     \* processes that use the lock
          NoProc,   \* "no process": a free spinlock, lk->pid = 0
          NCPU      \* processors: at most NCPU processes are RUNNING

ASSUME NoProcAssumption == NoProc \notin Proc
ASSUME NCPUAssumption == NCPU \in Nat \ {0}

VARIABLES pc,       \* where each process is in acquiresleep()/releasesleep()
          state,    \* p->state
          chan,     \* p->chan: "lk" while sleeping on the lock, else "none"
          spin,     \* holder of lk->lk
          ptlock,   \* holder of ptable.lock
          locked,   \* lk->locked
          pid       \* lk->pid, the process itself standing for its pid

vars == <<pc, state, chan, spin, ptlock, locked, pid>>

(* Interrupts are enabled here: a clock tick may take the CPU away. *)
Preemptible == {"idle", "held", "retry"}

(* pushcli() has run: the CPU is spinning on lk->lk with interrupts off. *)
Spinning == {"acq", "rel", "relock"}

(* Positions that own lk->lk, and positions that own ptable.lock. *)
HoldsSpin == {"test", "sleep", "unlk", "wakeup", "relspin"}
HoldsPt == {"unlk", "sched", "wokeup"}

Label == Preemptible \cup Spinning \cup HoldsSpin \cup HoldsPt \cup {"asleep"}

Running == {p \in Proc : state[p] = "RUNNING"}

Goto(p, from, to) == pc[p] = from /\ pc' = [pc EXCEPT ![p] = to]

Init == /\ pc = [p \in Proc |-> "idle"]
        /\ state = [p \in Proc |-> "RUNNABLE"]
        /\ chan = [p \in Proc |-> "none"]
        /\ spin = NoProc
        /\ ptlock = NoProc
        /\ locked = 0
        /\ pid = NoProc

-----------------------------------------------------------------------------
(* spinlock.c *)

(* acquire(&lk->lk): pushcli(), then spin on xchg.  The first half turns    *)
(* interrupts off, the second succeeds once the lock is free.               *)
Pushcli(p, from, to) == /\ Goto(p, from, to)
                        /\ state[p] = "RUNNING"
                        /\ UNCHANGED <<state, chan, spin, ptlock, locked, pid>>

Xchg(p, from, to) == /\ Goto(p, from, to)
                     /\ spin = NoProc
                     /\ spin' = p

-----------------------------------------------------------------------------
(* acquiresleep() *)

Request(p) == Pushcli(p, "idle", "acq")

LockSpin(p) == /\ \/ Xchg(p, "acq", "test")
                  \/ Xchg(p, "relock", "test")    \* end of sleep()
               /\ UNCHANGED <<state, chan, ptlock, locked, pid>>

(* while (lk->locked) sleep(lk, &lk->lk); *)
TestLocked(p) == /\ Goto(p, "test", "sleep")
                 /\ locked = 1
                 /\ UNCHANGED <<state, chan, spin, ptlock, locked, pid>>

(* Variant with a bug: acquiresleep() tests lk->locked with "if".           *)
TakeLockUnchecked(p) == /\ Goto(p, "test", "held")
                        /\ locked' = 1
                        /\ pid' = p
                        /\ spin' = NoProc
                        /\ UNCHANGED <<state, chan, ptlock>>

TakeLock(p) == /\ Goto(p, "test", "held")
               /\ locked = 0
               /\ locked' = 1
               /\ pid' = p
               /\ spin' = NoProc
               /\ UNCHANGED <<state, chan, ptlock>>

-----------------------------------------------------------------------------
(* sleep(lk, &lk->lk) *)

(* Variant with a bug: lk is released before ptable.lock is taken. *)
SleepUnprotected(p) == /\ Goto(p, "sleep", "sched")
                       /\ spin' = NoProc
                       /\ UNCHANGED <<state, chan, ptlock, locked, pid>>

SleepAcquire(p) == /\ Goto(p, "sleep", "unlk")
                   /\ ptlock = NoProc
                   /\ ptlock' = p
                   /\ UNCHANGED <<state, chan, spin, locked, pid>>

SleepRelease(p) == /\ Goto(p, "unlk", "sched")
                   /\ spin' = NoProc
                   /\ UNCHANGED <<state, chan, ptlock, locked, pid>>

(* p->chan and p->state are set and sched() switches to the CPU's           *)
(* scheduler, which releases ptable.lock.                                   *)
SleepSched(p) == /\ Goto(p, "sched", "asleep")
                 /\ chan' = [chan EXCEPT ![p] = "lk"]
                 /\ state' = [state EXCEPT ![p] = "SLEEPING"]
                 /\ ptlock' = NoProc
                 /\ UNCHANGED <<spin, locked, pid>>

(* scheduler() picks a RUNNABLE process that slept, and the process comes   *)
(* back from sched() with ptable.lock held on its behalf.                   *)
Resume(p) == /\ Goto(p, "asleep", "wokeup")
             /\ state[p] = "RUNNABLE"
             /\ ptlock = NoProc
             /\ Cardinality(Running) < NCPU
             /\ state' = [state EXCEPT ![p] = "RUNNING"]
             /\ ptlock' = p
             /\ UNCHANGED <<chan, spin, locked, pid>>

SleepTidy(p) == /\ Goto(p, "wokeup", "retry")
                /\ chan' = [chan EXCEPT ![p] = "none"]
                /\ ptlock' = NoProc
                /\ UNCHANGED <<state, spin, locked, pid>>

Retry(p) == Pushcli(p, "retry", "relock")

-----------------------------------------------------------------------------
(* releasesleep() *)

StartRelease(p) == Pushcli(p, "held", "rel")

(* Variant with a bug: the call of wakeup() is missing. *)
UnlockSilently(p) == /\ Xchg(p, "rel", "relspin")
                     /\ locked' = 0
                     /\ pid' = NoProc
                     /\ UNCHANGED <<state, chan, ptlock>>

Unlock(p) == /\ Xchg(p, "rel", "wakeup")
             /\ locked' = 0
             /\ pid' = NoProc
             /\ UNCHANGED <<state, chan, ptlock>>

(* wakeup(lk): every process sleeping on the channel becomes RUNNABLE. *)
Wakeup(p) == /\ Goto(p, "wakeup", "relspin")
             /\ ptlock = NoProc
             /\ state' = [q \in Proc |-> IF state[q] = "SLEEPING" /\ chan[q] = "lk"
                                         THEN "RUNNABLE" ELSE state[q]]
             /\ UNCHANGED <<chan, spin, ptlock, locked, pid>>

ReleaseSpin(p) == /\ Goto(p, "relspin", "idle")
                  /\ spin' = NoProc
                  /\ UNCHANGED <<state, chan, ptlock, locked, pid>>

-----------------------------------------------------------------------------
(* The scheduler and the other system calls that touch p->state *)

(* A clock tick: yield() on behalf of the interrupted process. *)
Yield(p) == /\ pc[p] \in Preemptible
            /\ state[p] = "RUNNING"
            /\ ptlock = NoProc
            /\ state' = [state EXCEPT ![p] = "RUNNABLE"]
            /\ UNCHANGED <<pc, chan, spin, ptlock, locked, pid>>

(* scheduler() picks a process that yielded; the rest of yield() only       *)
(* releases ptable.lock.                                                    *)
Dispatch(p) == /\ pc[p] \in Preemptible
               /\ state[p] = "RUNNABLE"
               /\ ptlock = NoProc
               /\ Cardinality(Running) < NCPU
               /\ state' = [state EXCEPT ![p] = "RUNNING"]
               /\ UNCHANGED <<pc, chan, spin, ptlock, locked, pid>>

(* kill(p->pid), called by a running process q that is not using the lock,  *)
(* wakes a sleeping victim although nothing was released.                   *)
Kill(q, p) == /\ pc[q] = "idle"
              /\ state[q] = "RUNNING"
              /\ ptlock = NoProc
              /\ state[p] = "SLEEPING"
              /\ state' = [state EXCEPT ![p] = "RUNNABLE"]
              /\ UNCHANGED <<pc, chan, spin, ptlock, locked, pid>>

-----------------------------------------------------------------------------
Step(p) == \/ LockSpin(p) \/ TestLocked(p) \/ TakeLock(p)
           \/ SleepAcquire(p) \/ SleepRelease(p) \/ SleepSched(p) \/ SleepTidy(p)
           \/ Unlock(p) \/ Wakeup(p) \/ ReleaseSpin(p)

Next == \/ \E p \in Proc : \/ Request(p) \/ Retry(p) \/ StartRelease(p)
                           \/ Step(p)
                           \/ Yield(p) \/ Dispatch(p) \/ Resume(p)
        \/ \E p, q \in Proc : Kill(p, q)

(* A CPU keeps executing the instructions of the process it runs (weak      *)
(* fairness, also for a spin on a lock: xchg promises no more).  A process  *)
(* that is scheduled again and again executes something in its time slices, *)
(* and the random start of defaultScheduler() picks every process that      *)
(* stays RUNNABLE (strong fairness).  The timer keeps ticking.  Holders of  *)
(* a sleep lock release it; nothing obliges a process to ask for it.        *)
Fairness == \A p \in Proc : /\ WF_vars(Step(p)) /\ WF_vars(Yield(p))
                            /\ SF_vars(Retry(p)) /\ SF_vars(StartRelease(p))
                            /\ SF_vars(Dispatch(p)) /\ SF_vars(Resume(p))

Spec == Init /\ [][Next]_vars

FairSpec == Spec /\ Fairness

-----------------------------------------------------------------------------
(* Properties *)

TypeOK == /\ pc \in [Proc -> Label]
          /\ state \in [Proc -> {"RUNNABLE", "RUNNING", "SLEEPING"}]
          /\ chan \in [Proc -> {"none", "lk"}]
          /\ spin \in Proc \cup {NoProc}
          /\ ptlock \in Proc \cup {NoProc}
          /\ locked \in {0, 1}
          /\ pid \in Proc \cup {NoProc}

InAcquire == {"acq", "test", "sleep", "unlk", "sched", "asleep", "wokeup",
              "retry", "relock"}

(* Between acquiresleep() and the point where releasesleep() clears         *)
(* lk->locked there is one process, and lk->pid names it, whatever the      *)
(* order in which the wake-ups, ticks and kills arrive.                     *)
MutualExclusion ==
    \A p \in Proc : pc[p] \in {"held", "rel"} =>
        /\ locked = 1
        /\ pid = p
        /\ \A q \in Proc \ {p} : pc[q] \notin {"held", "rel"}

(* sleep() cannot miss a wakeup: a process that found the lock taken and    *)
(* went to sleep, or is on its way there, has a holder that will still wake *)
(* it, or a releasing process whose wakeup() has not run yet.               *)
NoLostWakeup ==
    \A p \in Proc :
        (pc[p] \in {"sleep", "unlk", "sched"} \/ state[p] = "SLEEPING")
        => locked = 1 \/ \E q \in Proc : pc[q] = "wakeup"

(* sched()'s panics cannot fire: a process that switches away holds         *)
(* ptable.lock and no other spinlock.                                       *)
SchedHoldsOnlyPtlock ==
    \A p \in Proc : pc[p] = "sched" => ptlock = p /\ spin # p

(* Whenever some process is inside acquiresleep(), the lock is eventually   *)
(* granted to somebody, although ticks keep coming and any number of        *)
(* sleepers may have been killed.  (An endless series of kills could keep   *)
(* lk->lk busy with woken sleepers, and xchg is not fair to the releaser.)  *)
Progress == <>[][~ \E p, q \in Proc : Kill(p, q)]_vars
                => ((\E p \in Proc : pc[p] \in InAcquire)
                        ~> (\E p \in Proc : pc[p] = "held"))

(* The inductive invariant: who is where determines who holds the two       *)
(* spinlocks and the sleep lock, sleepers sleep on this lock, and only a    *)
(* process with interrupts on or a sleeper can be off its CPU.              *)
SpinlockOwners ==
    \A p \in Proc : /\ spin = p <=> pc[p] \in HoldsSpin
                    /\ ptlock = p <=> pc[p] \in HoldsPt

SleepersSleepOnLk ==
    \A p \in Proc : state[p] = "SLEEPING" => pc[p] = "asleep" /\ chan[p] = "lk"

LockOwner ==
    /\ \A p \in Proc : pc[p] \in {"held", "rel"} => locked = 1 /\ pid = p
    /\ locked = 1 => pid \in Proc /\ pc[pid] \in {"held", "rel"}

IInv == /\ TypeOK
        /\ SpinlockOwners
        /\ SleepersSleepOnLk
        /\ LockOwner
        /\ NoLostWakeup

(* The sleep lock implements the lock its callers rely on. *)
Service == INSTANCE LockService
             WITH owner <- IF locked = 1 THEN pid ELSE NoProc,
                  waiting <- {p \in Proc : pc[p] \in InAcquire}

ImplementsLock == Service!Spec
=============================================================================
