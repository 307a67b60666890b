-------------------------- MODULE SemaphoreProofs --------------------------
(* The invariant of the semaphore table, for any number of processes and    *)
(* any width of int.                                                        *)
EXTENDS Semaphore, TLAPS

(* Two's complement arithmetic stays within an int, and an int is its own   *)
(* representation.                                                          *)
LEMMA WrapInt == ASSUME NEW n \in Int PROVE Wrap(n) \in Int32
BY HalfAssumption DEF Wrap, Int32

(* What sem_wait() takes it gives back: the value is as before. *)
LEMMA TakeAndGiveBack ==
    ASSUME NEW v \in Int32, NEW c \in Int32
    PROVE  Wrap(Wrap(v - c) + c) = v
BY HalfAssumption DEF Wrap, Int32

(* wakeup() leaves no process asleep. *)
LEMMA WokenNoneAsleep ==
    ASSUME NEW f \in [Proc -> {"user", "asleep", "woken", "gone"}]
    PROVE  /\ Woken(f) \in [Proc -> {"user", "asleep", "woken", "gone"}]
           /\ \A p \in Proc : Woken(f)[p] # "asleep"
BY DEF Woken

LEMMA InitSemInv == Init => SemInv
BY HalfAssumption DEF Init, SemInv, TypeOK, NoStuckWaiter, Int32

LEMMA InitDestroyStep ==
    ASSUME SemInv, NEW p \in Proc,
           SemDestroy(p) \/ \E v \in InitValue : SemInit(p, v)
    PROVE  SemInv'
<1>1. CASE SemDestroy(p)
  <2>1. TypeOK'
    BY <1>1, HalfAssumption DEF SemDestroy, SemInv, TypeOK, Int32
  <2>2. \A q \in Proc : pc'[q] = "asleep" => orphan'[q] = TRUE
    BY <1>1, Zenon DEF SemDestroy, SemInv, TypeOK
  <2> QED BY <2>1, <2>2 DEF SemInv, NoStuckWaiter
<1>2. CASE \E v \in InitValue : SemInit(p, v)
  <2>1. TypeOK'
    BY <1>2, CountAssumption DEF SemInit, SemInv, TypeOK
  <2>2. \A q \in Proc : pc[q] = "asleep" => orphan[q]
    BY <1>2 DEF SemInit, SemInv, TypeOK, NoStuckWaiter
  <2> QED BY <1>2, <2>1, <2>2 DEF SemInit, SemInv, NoStuckWaiter
<1> QED BY <1>1, <1>2

(* One round of the loop of sem_wait(), from the call or from the wake-up. *)
LEMMA WaitLoopStep ==
    ASSUME SemInv, NEW p \in Proc, NEW c \in Int32, pc[p] # "asleep", active = 1,
           WaitLoop(p, c), UNCHANGED <<active, killed>>
    PROVE  SemInv'
<1>1. CASE value < c /\ pc' = [pc EXCEPT ![p] = "asleep"] /\ need' = [need EXCEPT ![p] = c]
           /\ orphan' = [orphan EXCEPT ![p] = FALSE] /\ UNCHANGED <<value, held>>
  <2>1. TypeOK'
    BY <1>1 DEF SemInv, TypeOK
  <2>2. NoStuckWaiter'
    BY <1>1 DEF SemInv, TypeOK, NoStuckWaiter
  <2> QED BY <2>1, <2>2 DEF SemInv
<1>2. CASE /\ value >= c /\ value' = Wrap(Wrap(value - c) + c)
           /\ held' = [held EXCEPT ![p] = IF @ >= c THEN Wrap(@ - c) ELSE 0]
           /\ pc' = Woken([pc EXCEPT ![p] = "user"])
           /\ need' = [need EXCEPT ![p] = 0]
           /\ orphan' = [orphan EXCEPT ![p] = FALSE]
  <2>1. value \in Int32 /\ held[p] \in Int32 /\ Int32 \subseteq Int /\ 0 \in Int32
    BY HalfAssumption DEF SemInv, TypeOK, Int32
  <2>2. value' \in Int32
    BY <1>2, <2>1, TakeAndGiveBack
  <2>3. held' \in [Proc -> Int32]
    <3>1. held[p] - c \in Int BY <2>1
    <3>2. (IF held[p] >= c THEN Wrap(held[p] - c) ELSE 0) \in Int32
      BY <2>1, <3>1, WrapInt
    <3> QED BY <1>2, <3>2 DEF SemInv, TypeOK
  <2>4. /\ pc' \in [Proc -> {"user", "asleep", "woken", "gone"}]
        /\ \A q \in Proc : pc'[q] # "asleep"
    BY <1>2, WokenNoneAsleep DEF SemInv, TypeOK
  <2>5. need' \in [Proc -> Int32] /\ orphan' \in [Proc -> BOOLEAN]
    BY <1>2, <2>1 DEF SemInv, TypeOK
  <2>6. TypeOK'
    BY <2>2, <2>3, <2>4, <2>5 DEF SemInv, TypeOK
  <2> QED BY <2>4, <2>6 DEF SemInv, NoStuckWaiter
<1> QED BY <1>1, <1>2 DEF WaitLoop

LEMMA WaitStep ==
    ASSUME SemInv, NEW p \in Proc, SemWaitWoken(p) \/ \E c \in Count : SemWait(p, c)
    PROVE  SemInv'
<1>1. CASE \E c \in Count : SemWait(p, c)
  BY <1>1, WaitLoopStep, CountAssumption DEF SemWait, InUser
<1>2. CASE SemWaitWoken(p) /\ active = 1
  <2>1. need[p] \in Int32 BY DEF SemInv, TypeOK
  <2> QED BY <1>2, <2>1, WaitLoopStep DEF SemWaitWoken
<1>3. CASE SemWaitWoken(p) /\ active = 0
  <2>1. /\ pc' = [pc EXCEPT ![p] = "user"] /\ need' = [need EXCEPT ![p] = 0]
        /\ orphan' = [orphan EXCEPT ![p] = FALSE]
        /\ UNCHANGED <<value, held, active, killed>>
    BY <1>3 DEF SemWaitWoken
  <2>2. TypeOK'
    BY <2>1, HalfAssumption DEF SemInv, TypeOK, Int32
  <2>3. NoStuckWaiter'
    BY <2>1 DEF SemInv, TypeOK, NoStuckWaiter
  <2> QED BY <2>2, <2>3 DEF SemInv
<1> QED BY <1>1, <1>2, <1>3 DEF SemWaitWoken

(* Units that come back wake everybody. *)
LEMMA SignalStep ==
    ASSUME SemInv, NEW p \in Proc, Exit(p) \/ \E c \in Count : SemSignal(p, c)
    PROVE  SemInv'
<1>1. CASE \E c \in Count : SemSignal(p, c)
  <2>1. PICK c \in Count : SemSignal(p, c) BY <1>1
  <2>2. value + c \in Int
    BY CountAssumption, HalfAssumption DEF SemInv, TypeOK, Int32
  <2>3. value' \in Int32
    BY <2>1, <2>2, WrapInt DEF SemSignal
  <2>4. /\ pc' \in [Proc -> {"user", "asleep", "woken", "gone"}]
        /\ \A q \in Proc : pc'[q] # "asleep"
    BY <2>1, WokenNoneAsleep DEF SemSignal, SemInv, TypeOK
  <2> QED BY <2>1, <2>3, <2>4 DEF SemSignal, SemInv, TypeOK, NoStuckWaiter
<1>2. CASE Exit(p)
  <2> DEFINE gone == [pc EXCEPT ![p] = "gone"]
  <2>1. gone \in [Proc -> {"user", "asleep", "woken", "gone"}]
    BY DEF SemInv, TypeOK
  <2>2. held' \in [Proc -> Int32]
    BY <1>2, HalfAssumption DEF Exit, SemInv, TypeOK, Int32
  <2>3. CASE held[p] > 0 /\ active = 1
    <3>1. value' = Wrap(value + held[p]) /\ pc' = Woken(gone)
      BY <1>2, <2>3 DEF Exit
    <3>2. value + held[p] \in Int
      BY HalfAssumption DEF SemInv, TypeOK, Int32
    <3>3. value' \in Int32 /\ pc' \in [Proc -> {"user", "asleep", "woken", "gone"}]
          /\ \A q \in Proc : pc'[q] # "asleep"
      BY <2>1, <3>1, <3>2, WrapInt, WokenNoneAsleep
    <3> QED BY <1>2, <2>2, <3>3 DEF Exit, SemInv, TypeOK, NoStuckWaiter
  <2>4. CASE ~(held[p] > 0 /\ active = 1)
    <3>1. pc' = gone /\ UNCHANGED value
      BY <1>2, <2>4 DEF Exit
    <3> QED BY <1>2, <2>1, <2>2, <3>1 DEF Exit, SemInv, TypeOK, NoStuckWaiter
  <2> QED BY <2>3, <2>4
<1> QED BY <1>1, <1>2

LEMMA SpawnKillStep ==
    ASSUME SemInv, NEW p \in Proc, Spawn(p) \/ Kill(p)
    PROVE  SemInv'
<1>1. TypeOK'
  <2>1. killed' \in [Proc -> BOOLEAN]
    BY Zenon DEF Spawn, Kill, SemInv, TypeOK
  <2>2. pc' \in [Proc -> {"user", "asleep", "woken", "gone"}]
    BY DEF Spawn, Kill, SemInv, TypeOK
  <2>3. held' \in [Proc -> Int32]
    BY HalfAssumption DEF Spawn, Kill, SemInv, TypeOK, Int32
  <2> QED BY <2>1, <2>2, <2>3 DEF Spawn, Kill, SemInv, TypeOK
<1>2. NoStuckWaiter'
  BY DEF Spawn, Kill, SemInv, TypeOK, NoStuckWaiter
<1> QED BY <1>1, <1>2 DEF SemInv

LEMMA NextSemInv == SemInv /\ [Next]_vars => SemInv'
<1> SUFFICES ASSUME SemInv, [Next]_vars PROVE SemInv'
  OBVIOUS
<1>1. CASE UNCHANGED vars
  BY <1>1 DEF vars, SemInv, TypeOK, NoStuckWaiter
<1>2. CASE Next
  BY <1>2, InitDestroyStep, WaitStep, SignalStep, SpawnKillStep DEF Next
<1> QED BY <1>1, <1>2

(* The semaphore's value never leaves the range of an int, and a process    *)
(* that sleeps in sem_wait() asks for more than there is, unless the        *)
(* semaphore was destroyed under it: for any processes, counts and width.   *)
THEOREM SemInvHolds == Spec => []SemInv
BY InitSemInv, NextSemInv, PTL DEF Spec

(* The unit that sem_wait() takes it gives back at once: as long as nobody  *)
(* signals, exits, initialises or destroys, the value stays what it is.     *)
WaitTakesNothing ==
    [][\A p \in Proc : SemWaitWoken(p) \/ (\E c \in Count : SemWait(p, c)) => value' = value]_vars

(* sem_wait() changes nothing of the value, whatever it asks for. *)
THEOREM WaitTakesNothingHolds == Spec => WaitTakesNothing
<1>1. ASSUME SemInv, NEW p \in Proc, NEW c \in Int32, WaitLoop(p, c) PROVE value' = value
  BY <1>1, TakeAndGiveBack DEF WaitLoop, SemInv, TypeOK
<1>2. SemInv => [\A p \in Proc : SemWaitWoken(p) \/ (\E c \in Count : SemWait(p, c))
                    => value' = value]_vars
  BY <1>1, CountAssumption DEF SemWait, SemWaitWoken, SemInv, TypeOK
<1> QED BY <1>2, SemInvHolds, PTL DEF WaitTakesNothing
=============================================================================
