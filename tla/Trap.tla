-------------------------------- MODULE Trap --------------------------------
(* trap(): system calls, the clock, the interrupts of the console and user  *)
(* faults, with the system calls that wait for the clock (sys_sleep) and    *)
(* for the console.  A process that is killed leaves when it next returns   *)
(* to user space.                                                           *)
EXTENDS Console

CONSTANTS Sleeps,  \* arguments of sleep(), besides -1
          Late     \* ticks within which the scheduler runs a process

ASSUME TrapAssumption == Sleeps \subseteq Nat /\ Late \in Nat

VARIABLES ticks,   \* the clock, modulo UINT
          job      \* what programs do in this behaviour: "read" or "sleep"

vars == <<conVars, k, killed, ticks, job>>

Call == [at |-> "user", n |-> 0, target |-> 0, ticks0 |-> 0, slept |-> 0]

Init == /\ ConInit
        /\ k = [p \in Proc |-> Call]
        /\ killed = [p \in Proc |-> FALSE]
        /\ ticks = 0
        /\ job \in {"read", "sleep"}

-----------------------------------------------------------------------------
(* T_SYSCALL: a killed process exits before the call and after it. *)
Syscall(p, r) == /\ k[p].at = "user"
                 /\ Goto(p, IF killed[p] THEN [Call EXCEPT !.at = "gone"] ELSE r)
                 /\ UNCHANGED <<conVars, killed, ticks, job>>

SysRead(p, n) == job = "read" /\ Syscall(p, [Call EXCEPT !.at = "read", !.n = n, !.target = n])

(* sys_sleep(): n is compared as an unsigned number. *)
SysSleep(p, n) ==
    job = "sleep" /\ Syscall(p, [Call EXCEPT !.at = "nap", !.target = n % UINT, !.ticks0 = ticks])

(* Variant with a bug: the end of the sleep is computed and may wrap. *)
TooEarlyWraps(p) == ticks < (k[p].ticks0 + k[p].target) % UINT

(* Variant with a bug: the clock is compared with an end it never reaches. *)
TooEarlyUnwrapped(p) == ticks < k[p].ticks0 + k[p].target

TooEarly(p) == (ticks - k[p].ticks0) % UINT < k[p].target

(* The loop of sys_sleep(), under tickslock. *)
Nap(p) == /\ k[p].at = "nap"
          /\ Goto(p, IF TooEarly(p) /\ ~killed[p] THEN [k[p] EXCEPT !.at = "napsleep"]
                     ELSE [Call EXCEPT !.at = "ret"])
          /\ UNCHANGED <<conVars, killed, ticks, job>>

Return(p) == /\ k[p].at = "ret"
             /\ Goto(p, IF killed[p] THEN [Call EXCEPT !.at = "gone"] ELSE Call)
             /\ UNCHANGED <<conVars, killed, ticks, job>>

-----------------------------------------------------------------------------
(* IRQ_TIMER on the first processor: ticks++ and wakeup(&ticks).  Every     *)
(* tick makes the running processes yield and the scheduler draw again, so  *)
(* a process that can run does within some time, Late.  A sleep is ordinary *)
(* when that is before the clock comes round to where the sleep began;      *)
(* sleep(-1) is not, and may miss its tick any number of times.             *)
Napping == {"nap", "napsleep"}

Ordinary(p) == k[p].target + Late < UINT

InTime(p) == k[p].at \in Napping /\ Ordinary(p) => k[p].slept < k[p].target + Late

(* slept counts up to one turn of the clock. *)
Ticked(p) == IF k[p].at \notin Napping THEN k[p]
             ELSE [k[p] EXCEPT !.at = "nap", !.slept = IF @ < UINT THEN @ + 1 ELSE @]

Timer == /\ job = "sleep" /\ \A p \in Proc : InTime(p)
         /\ ticks' = (ticks + 1) % UINT
         /\ k' = [p \in Proc |-> Ticked(p)]
         /\ UNCHANGED <<conVars, killed, job>>

(* An interrupt in user space, and a fault there, which kills. *)
UserTrap(p) == /\ k[p].at = "user" /\ killed[p]
               /\ Goto(p, [Call EXCEPT !.at = "gone"])
               /\ UNCHANGED <<conVars, killed, ticks, job>>

Fault(p) == /\ k[p].at = "user" /\ ~killed[p]
            /\ killed' = [killed EXCEPT ![p] = TRUE]
            /\ Goto(p, [Call EXCEPT !.at = "gone"])
            /\ UNCHANGED <<conVars, ticks, job>>

(* Variant with a bug: a sleeping process is not made runnable. *)
AwakeNever(r) == r

Awake(r) == IF r.at = "readsleep" THEN [r EXCEPT !.at = "read"]
            ELSE IF r.at = "napsleep" THEN [r EXCEPT !.at = "nap"] ELSE r

(* kill() *)
Kill(p) == /\ k[p].at # "gone" /\ ~killed[p]
           /\ killed' = [killed EXCEPT ![p] = TRUE]
           /\ Goto(p, Awake(k[p]))
           /\ UNCHANGED <<conVars, ticks, job>>

Irq == job = "read" /\ (Uartintr \/ Kbdintr) /\ UNCHANGED <<ticks, job>>

Step(p) == Nap(p) \/ Return(p) \/ UserTrap(p) \/ (ConsoleRead(p) /\ UNCHANGED <<ticks, job>>)

Next == \/ Irq \/ Timer
        \/ \E p \in Proc : \/ (\E n \in Counts : SysRead(p, n)) \/ (\E n \in Sleeps \cup {-1} : SysSleep(p, n))
                           \/ Fault(p) \/ Kill(p) \/ Step(p)

Spec == Init /\ [][Next]_vars

(* The clock runs, and a process that can run does. *)
FairSpec == Spec /\ WF_vars(Timer) /\ \A p \in Proc : WF_vars(Step(p))

-----------------------------------------------------------------------------
(* Properties *)

TypeOK ==
    /\ input \in [buf : [0..(INPUT_BUF - 1) -> {"nul", "x", "nl", "eof"}],
                  r : 0..(UINT - 1), w : 0..(UINT - 1), e : 0..(UINT - 1)]
    /\ k \in [Proc -> [at : {"user", "read", "readsleep", "nap", "napsleep", "ret", "gone"},
                       n : Nat, target : Nat, ticks0 : 0..(UINT - 1), slept : Nat]]
    /\ killed \in [Proc -> BOOLEAN] /\ ticks \in 0..(UINT - 1)

(* What sys_sleep() compares is the number of ticks it has slept, or it has *)
(* slept a turn of the clock.                                               *)
Counted(c) == c.target < UINT /\ (c.slept >= UINT \/ c.slept = (ticks - c.ticks0) % UINT)

SleepCounted == \A p \in Proc : k[p].at \in Napping => Counted(k[p])

(* consoleintr() and kbdgetc() as a whole: neither a reader nor a modifier  *)
(* is forgotten, whatever interrupts come in between, and ring and clock    *)
(* count right across their overflow.                                       *)
ConsoleInv == TypeOK /\ RingFits /\ NoStuckReader /\ NoStuckModifier /\ SleepCounted

(* sleep(n) returns early only for a killed process, also if the clock wraps *)
(* meanwhile: it lasts n clock ticks, n taken as unsigned.                   *)
SleptEnough ==
    [][\A p \in Proc : k[p].at = "nap" /\ k'[p].at = "ret" /\ ~killed[p] => k[p].slept >= k[p].target]_vars

(* Every sleep() of an ordinary length ends, also if the clock wraps. *)
SleepEnds == \A p \in Proc : k[p].at \in Napping /\ Ordinary(p) ~> k[p].at \in {"ret", "user", "gone"}

(* kill() of a process that runs in user space, or waits in consoleread()   *)
(* or sys_sleep(), gets it to exit: both loops look at p->killed, and       *)
(* trap() does before and after the call.                                   *)
KilledExits == \A p \in Proc : killed[p] ~> k[p].at = "gone"
=============================================================================
