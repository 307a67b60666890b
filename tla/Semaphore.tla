----------------------------- MODULE Semaphore -----------------------------
(* One entry of the semaphore table of proc.c and the processes that use    *)
(* it.  Every call runs under sema[sem].lock; sleep() releases it           *)
(* atomically (SleepLock shows that no wakeup is lost in between).          *)
EXTENDS Integers

CONSTANTS Proc,      \* processes
          Count,     \* counts passed to sem_wait() and sem_signal(): any int
          InitValue, \* values passed to sem_init(): any int
          HALF       \* an int is in -HALF .. HALF-1

Int32 == -HALF .. HALF - 1

ASSUME HalfAssumption == HALF \in Nat \ {0}
ASSUME CountAssumption == Count \subseteq Int32 /\ InitValue \subseteq Int32

VARIABLES active,    \* sema[sem].active
          value,     \* sema[sem].value
          held,      \* p->sem_held[sem]
          pc,        \* "user", in sem_wait(): "asleep" or "woken", or "gone"
          need,      \* the count a sem_wait() asks for
          killed,    \* p->killed
          orphan     \* history: the semaphore was destroyed under p's sleep

vars == <<active, value, held, pc, need, killed, orphan>>

(* Two's complement addition of ints. *)
Wrap(n) == ((n + HALF) % (2 * HALF)) - HALF

Init == /\ active = 0
        /\ value = 0
        /\ held = [p \in Proc |-> 0]
        /\ pc = [p \in Proc |-> "user"]
        /\ need = [p \in Proc |-> 0]
        /\ killed = [p \in Proc |-> FALSE]
        /\ orphan = [p \in Proc |-> FALSE]

(* A killed process executes no further user code: trap() calls exit(). *)
InUser(p) == pc[p] = "user" /\ ~killed[p]

(* wakeup(&sema[sem]) *)
Woken(f) == [p \in Proc |-> IF f[p] = "asleep" THEN "woken" ELSE f[p]]

-----------------------------------------------------------------------------
SemInit(p, v) ==
    /\ InUser(p)
    /\ active = 0
    /\ active' = 1
    /\ value' = v
    /\ UNCHANGED <<held, pc, need, killed, orphan>>

(* Nobody is woken. *)
SemDestroy(p) ==
    /\ InUser(p)
    /\ active = 1
    /\ active' = 0
    /\ value' = 0
    /\ orphan' = [q \in Proc |-> orphan[q] \/ pc[q] = "asleep"]
    /\ UNCHANGED <<held, pc, need, killed>>

(* The loop test of sem_wait(), and what follows it: the count is taken     *)
(* from the value and added back, sem_held is reduced, and everybody is     *)
(* woken.                                                                   *)
WaitLoop(p, c) ==
    \/ /\ value < c
       /\ pc' = [pc EXCEPT ![p] = "asleep"]
       /\ need' = [need EXCEPT ![p] = c]
       /\ orphan' = [orphan EXCEPT ![p] = FALSE]
       /\ UNCHANGED <<value, held>>
    \/ /\ value >= c
       /\ value' = Wrap(Wrap(value - c) + c)
       /\ held' = [held EXCEPT ![p] = IF @ >= c THEN Wrap(@ - c) ELSE 0]
       /\ pc' = Woken([pc EXCEPT ![p] = "user"])
       /\ need' = [need EXCEPT ![p] = 0]
       /\ orphan' = [orphan EXCEPT ![p] = FALSE]

SemWait(p, c) ==
    /\ InUser(p)
    /\ active = 1
    /\ WaitLoop(p, c)
    /\ UNCHANGED <<active, killed>>

(* Back from sleep(): -1 if the semaphore is not active, else test again. *)
SemWaitWoken(p) ==
    /\ pc[p] = "woken"
    /\ \/ /\ active = 0
          /\ pc' = [pc EXCEPT ![p] = "user"]
          /\ need' = [need EXCEPT ![p] = 0]
          /\ orphan' = [orphan EXCEPT ![p] = FALSE]
          /\ UNCHANGED <<value, held>>
       \/ /\ active = 1
          /\ WaitLoop(p, need[p])
    /\ UNCHANGED <<active, killed>>

(* Variant with a bug: nobody is woken. *)
SemSignalSilent(p, c) ==
    /\ InUser(p)
    /\ active = 1
    /\ value' = Wrap(value + c)
    /\ UNCHANGED <<active, held, pc, need, killed, orphan>>

SemSignal(p, c) ==
    /\ InUser(p)
    /\ active = 1
    /\ value' = Wrap(value + c)
    /\ pc' = Woken(pc)
    /\ UNCHANGED <<active, held, need, killed, orphan>>

(* Variant with a bug: exit() gives the units back without a wakeup. *)
ExitSilent(p) ==
    /\ pc[p] = "user"
    /\ value' = IF held[p] > 0 /\ active = 1 THEN Wrap(value + held[p]) ELSE value
    /\ pc' = [pc EXCEPT ![p] = "gone"]
    /\ held' = [held EXCEPT ![p] = IF @ > 0 THEN 0 ELSE @]
    /\ UNCHANGED <<active, need, killed, orphan>>

(* exit(), voluntary or after kill(): sem_signal(sem, held) if something is *)
(* recorded as held.                                                        *)
Exit(p) ==
    /\ pc[p] = "user"
    /\ LET gone == [pc EXCEPT ![p] = "gone"]
       IN  IF held[p] > 0 /\ active = 1
           THEN value' = Wrap(value + held[p]) /\ pc' = Woken(gone)
           ELSE pc' = gone /\ UNCHANGED value
    /\ held' = [held EXCEPT ![p] = IF @ > 0 THEN 0 ELSE @]
    /\ UNCHANGED <<active, need, killed, orphan>>

(* allocproc() hands the slot to a new process with sem_held cleared.       *)
(* p->killed is what kill() left in the free slot since wait() cleared it.  *)
Spawn(p) ==
    /\ pc[p] = "gone"
    /\ pc' = [pc EXCEPT ![p] = "user"]
    /\ held' = [held EXCEPT ![p] = 0]
    /\ \E b \in BOOLEAN : killed' = [killed EXCEPT ![p] = b]
    /\ UNCHANGED <<active, value, need, orphan>>

(* kill() wakes a sleeper, but sem_wait() does not look at p->killed. *)
Kill(p) ==
    /\ pc[p] # "gone"
    /\ killed' = [killed EXCEPT ![p] = TRUE]
    /\ pc' = [pc EXCEPT ![p] = IF @ = "asleep" THEN "woken" ELSE @]
    /\ UNCHANGED <<active, value, held, need, orphan>>

-----------------------------------------------------------------------------
Next == \E p \in Proc :
          \/ \E v \in InitValue : SemInit(p, v)
          \/ \E c \in Count : SemWait(p, c) \/ SemSignal(p, c)
          \/ SemDestroy(p) \/ SemWaitWoken(p) \/ Exit(p) \/ Spawn(p) \/ Kill(p)

Spec == Init /\ [][Next]_vars

(* A woken process is scheduled; user programs owe nothing. *)
FairSpec == Spec /\ \A p \in Proc : WF_vars(SemWaitWoken(p))

-----------------------------------------------------------------------------
(* Properties *)

TypeOK == /\ active \in {0, 1}
          /\ value \in Int32
          /\ held \in [Proc -> Int32]
          /\ pc \in [Proc -> {"user", "asleep", "woken", "gone"}]
          /\ need \in [Proc -> Int32]
          /\ killed \in [Proc -> BOOLEAN]
          /\ orphan \in [Proc -> BOOLEAN]

(* No process sleeps in sem_wait() while the semaphore has what it asks     *)
(* for, whatever the order of signals, exits and kills, unless the          *)
(* semaphore was destroyed under it.                                        *)
NoStuckWaiter ==
    \A p \in Proc : pc[p] = "asleep" /\ ~orphan[p] => active = 1 /\ value < need[p]

(* The semaphore stays an int and its sleepers are the processes it cannot  *)
(* serve, through negative counts, wrap-around, exits and destruction.      *)
SemInv == TypeOK /\ NoStuckWaiter

(* A waiter returns once the value stays high enough for it. *)
WaiterServed ==
    \A p \in Proc :
        <>[](pc[p] = "asleep" => ~orphan[p]) /\ <>[](active = 1 /\ \A c \in Count : value >= c)
            => []<>(pc[p] \notin {"asleep", "woken"})
=============================================================================
