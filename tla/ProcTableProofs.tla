-------------------------- MODULE ProcTableProofs --------------------------
(* Proofs about ProcTable for tables of any size, with and without threads. *)
EXTENDS ProcTable, TLAPS

USE DEF Slot, initproc, Alive

LEMMA InitInSlot == initproc \in Slot
BY SizeAssumption

LEMMA InitTableInv == Init => TableInv
<1> SUFFICES ASSUME Init PROVE TableInv
  OBVIOUS
<1>1. TypeOK
  <2>1. 1 \in Space /\ 0 \in 0..MaxPid /\ 1 \in 0..MaxPid /\ 2 \in 0..MaxPid
    BY SizeAssumption DEF Space
  <2> QED BY <2>1 DEF Init, TypeOK
<1>2. PidsBelowNext BY DEF Init, PidsBelowNext
<1>3. OneBuilder BY DEF Init, OneBuilder, Builds
<1>4. FreeHasNoParent BY DEF Init, FreeHasNoParent
<1>5. InitAlive BY InitInSlot DEF Init, InitAlive
<1>6. PidUnique BY DEF Init, PidUnique
<1>7. ParentAlive BY DEF Init, ParentAlive
<1>8. NoMissedExit BY DEF Init, NoMissedExit
<1>9. NotOwnParent BY DEF Init, NotOwnParent
<1> QED BY <1>1, <1>2, <1>3, <1>4, <1>5, <1>6, <1>7, <1>8, <1>9 DEF TableInv

(* A slot is taken: it was nobody's parent, and its pid is new. *)
LEMMA AllocProcStep ==
    ASSUME TableInv, NEW s \in Slot, NEW n \in Slot, NEW call \in {"fork", "clone"},
           AllocProc(s, n, call)
    PROVE  TableInv'
<1> USE InitInSlot, SizeAssumption DEF TableInv, TypeOK, AllocProc, Calls, InUser
<1>1. TypeOK' OBVIOUS
<1>2. PidsBelowNext' BY DEF PidsBelowNext, OneBuilder, Builds
<1>3. OneBuilder' BY DEF OneBuilder, Builds, FreeHasNoParent
<1>4. FreeHasNoParent' BY DEF FreeHasNoParent, OneBuilder, Builds
<1>5. InitAlive' BY DEF InitAlive, OneBuilder, Builds
<1>6. PidUnique' BY DEF PidUnique, PidsBelowNext, OneBuilder, Builds
<1>7. ParentAlive' BY DEF ParentAlive, OneBuilder, Builds, InitAlive
<1>8. NoMissedExit' BY DEF NoMissedExit, Awaited, Kids, ThreadKids, OneBuilder, Builds
<1>9. NotOwnParent' BY DEF NotOwnParent, OneBuilder, Builds
<1> QED BY <1>1, <1>2, <1>3, <1>4, <1>5, <1>6, <1>7, <1>8, <1>9 DEF TableInv

(* A slot is given back before anybody can have it as a child or a parent. *)
LEMMA AllocFailsStep ==
    ASSUME TableInv, NEW s \in Slot, AllocFails(s)
    PROVE  TableInv'
<1> USE InitInSlot, SizeAssumption DEF TableInv, TypeOK, AllocFails
<1>1. TypeOK' OBVIOUS
<1>2. PidsBelowNext' BY DEF PidsBelowNext, OneBuilder, Builds
<1>3. OneBuilder' BY DEF OneBuilder, Builds, FreeHasNoParent
<1>4. FreeHasNoParent' BY DEF FreeHasNoParent, OneBuilder, Builds
<1>5. InitAlive' BY DEF InitAlive, OneBuilder, Builds
<1>6. PidUnique' BY DEF PidUnique, PidsBelowNext, OneBuilder, Builds
<1>7. ParentAlive' BY DEF ParentAlive, OneBuilder, Builds, InitAlive
<1>8. NoMissedExit' BY DEF NoMissedExit, Awaited, Kids, ThreadKids, OneBuilder, Builds
<1>9. NotOwnParent' BY DEF NotOwnParent, OneBuilder, Builds
<1> QED BY <1>1, <1>2, <1>3, <1>4, <1>5, <1>6, <1>7, <1>8, <1>9 DEF TableInv

(* The new slot becomes a child of the caller, which is awake. *)
LEMMA ForkCopyStep ==
    ASSUME TableInv, NEW s \in Slot, NEW a \in Space, ForkCopy(s, a)
    PROVE  TableInv'
<1> USE InitInSlot, SizeAssumption DEF TableInv, TypeOK, ForkCopy
<1>1. TypeOK' OBVIOUS
<1>2. PidsBelowNext' BY DEF PidsBelowNext, OneBuilder, Builds
<1>3. OneBuilder' BY DEF OneBuilder, Builds, FreeHasNoParent
<1>4. FreeHasNoParent' BY DEF FreeHasNoParent, OneBuilder, Builds
<1>5. InitAlive' BY DEF InitAlive, OneBuilder, Builds
<1>6. PidUnique' BY DEF PidUnique, PidsBelowNext, OneBuilder, Builds
<1>7. ParentAlive' BY DEF ParentAlive, OneBuilder, Builds, InitAlive
<1>8. NoMissedExit'
  <2> SUFFICES ASSUME NEW t \in Slot, state'[t] = "SLEEPING"
               PROVE  /\ Awaited(t)' # {}
                      /\ \A c \in Awaited(t)' : state'[c] # "ZOMBIE"
                      /\ ~killed'[t]
    BY DEF NoMissedExit
  <2>1. t # s /\ pc'[t] = pc[t] /\ state[t] = "SLEEPING" /\ np[s] \in Slot
    BY DEF OneBuilder, Builds
  <2>2. Kids(t)' = Kids(t) /\ ThreadKids(t)' = ThreadKids(t)
    BY <2>1 DEF Kids, ThreadKids, OneBuilder, Builds
  <2>3. Awaited(t)' = Awaited(t)
    BY <2>1, <2>2 DEF Awaited
  <2> QED BY <2>1, <2>3 DEF NoMissedExit
<1>9. NotOwnParent' BY DEF NotOwnParent, OneBuilder, Builds
<1> QED BY <1>1, <1>2, <1>3, <1>4, <1>5, <1>6, <1>7, <1>8, <1>9 DEF TableInv

(* The same for a thread. *)
LEMMA CloneShareStep ==
    ASSUME TableInv, NEW s \in Slot, CloneShare(s)
    PROVE  TableInv'
<1> USE InitInSlot, SizeAssumption DEF TableInv, TypeOK, CloneShare
<1>1. TypeOK' OBVIOUS
<1>2. PidsBelowNext' BY DEF PidsBelowNext, OneBuilder, Builds
<1>3. OneBuilder' BY DEF OneBuilder, Builds, FreeHasNoParent
<1>4. FreeHasNoParent' BY DEF FreeHasNoParent, OneBuilder, Builds
<1>5. InitAlive' BY DEF InitAlive, OneBuilder, Builds
<1>6. PidUnique' BY DEF PidUnique, PidsBelowNext, OneBuilder, Builds
<1>7. ParentAlive' BY DEF ParentAlive, OneBuilder, Builds, InitAlive
<1>8. NoMissedExit'
  <2> SUFFICES ASSUME NEW t \in Slot, state'[t] = "SLEEPING"
               PROVE  /\ Awaited(t)' # {}
                      /\ \A c \in Awaited(t)' : state'[c] # "ZOMBIE"
                      /\ ~killed'[t]
    BY DEF NoMissedExit
  <2>1. t # s /\ pc'[t] = pc[t] /\ state[t] = "SLEEPING" /\ np[s] \in Slot
    BY DEF OneBuilder, Builds
  <2>2. Kids(t)' = Kids(t) /\ ThreadKids(t)' = ThreadKids(t)
    BY <2>1 DEF Kids, ThreadKids, OneBuilder, Builds
  <2>3. Awaited(t)' = Awaited(t)
    BY <2>1, <2>2 DEF Awaited
  <2> QED BY <2>1, <2>3 DEF NoMissedExit
<1>9. NotOwnParent' BY DEF NotOwnParent, OneBuilder, Builds
<1> QED BY <1>1, <1>2, <1>3, <1>4, <1>5, <1>6, <1>7, <1>8, <1>9 DEF TableInv

(* The new process has the caller as its parent, and the caller is alive. *)
LEMMA PublishStep ==
    ASSUME TableInv, NEW s \in Slot, Publish(s)
    PROVE  TableInv'
<1> USE InitInSlot, SizeAssumption DEF TableInv, TypeOK, Publish
<1>1. TypeOK' OBVIOUS
<1>2. PidsBelowNext' BY DEF PidsBelowNext, OneBuilder, Builds
<1>3. OneBuilder'
  <2>1. /\ np[s] \in Slot /\ state[s] = "RUNNABLE" /\ state[np[s]] = "EMBRYO"
        /\ pc[s] = "publish" /\ np[s] # s
    BY DEF OneBuilder, Builds
  <2>2. \A t \in Slot : Builds(t)' => /\ t # s /\ t # np[s] /\ Builds(t)
                                       /\ pc'[t] = pc[t] /\ np'[t] = np[t]
    BY <2>1 DEF Builds
  <2>3. \A t \in Slot : Builds(t)' => /\ np'[t] \in Slot /\ np[t] # np[s]
                                       /\ state'[t] = state[t]
                                       /\ state'[np[t]] = state[np[t]]
    BY <2>1, <2>2 DEF OneBuilder, Builds
  <2>4. \A t \in Slot : Builds(t)' =>
          /\ np'[t] \in Slot
          /\ state'[t] = "RUNNABLE"
          /\ state'[np'[t]] = "EMBRYO"
          /\ parent'[np'[t]] = IF pc'[t] = "publish" THEN t ELSE 0
    BY <2>2, <2>3 DEF OneBuilder
  <2>5. \A t, u \in Slot : Builds(t)' /\ Builds(u)' /\ np'[t] = np'[u] => t = u
    BY <2>2 DEF OneBuilder
  <2> QED BY <2>4, <2>5 DEF OneBuilder
<1>4. FreeHasNoParent' BY DEF FreeHasNoParent, OneBuilder, Builds
<1>5. InitAlive' BY DEF InitAlive, OneBuilder, Builds
<1>6. PidUnique' BY DEF PidUnique, PidsBelowNext, OneBuilder, Builds
<1>7. ParentAlive' BY DEF ParentAlive, OneBuilder, Builds, InitAlive
<1>8. NoMissedExit' BY DEF NoMissedExit, Awaited, Kids, ThreadKids, OneBuilder, Builds
<1>9. NotOwnParent' BY DEF NotOwnParent, OneBuilder, Builds
<1> QED BY <1>1, <1>2, <1>3, <1>4, <1>5, <1>6, <1>7, <1>8, <1>9 DEF TableInv

(* Only address spaces change. *)
LEMMA ExecStep ==
    ASSUME TableInv, NEW s \in Slot, NEW a \in Space, Exec(s, a)
    PROVE  TableInv'
<1> USE InitInSlot, SizeAssumption DEF TableInv, TypeOK, Exec
<1>1. TypeOK' OBVIOUS
<1>2. PidsBelowNext' BY DEF PidsBelowNext, OneBuilder, Builds
<1>3. OneBuilder' BY DEF OneBuilder, Builds, FreeHasNoParent
<1>4. FreeHasNoParent' BY DEF FreeHasNoParent, OneBuilder, Builds
<1>5. InitAlive' BY DEF InitAlive, OneBuilder, Builds
<1>6. PidUnique' BY DEF PidUnique, PidsBelowNext, OneBuilder, Builds
<1>7. ParentAlive' BY DEF ParentAlive, OneBuilder, Builds, InitAlive
<1>8. NoMissedExit' BY DEF NoMissedExit, Awaited, Kids, ThreadKids, OneBuilder, Builds
<1>9. NotOwnParent' BY DEF NotOwnParent, OneBuilder, Builds
<1> QED BY <1>1, <1>2, <1>3, <1>4, <1>5, <1>6, <1>7, <1>8, <1>9 DEF TableInv

(* A zombie is nobody's parent, so its slot can be given back. *)
LEMMA WaitReapStep ==
    ASSUME TableInv, NEW s \in Slot, NEW c \in Slot, WaitReap(s, c)
    PROVE  TableInv'
<1> USE InitInSlot, SizeAssumption DEF TableInv, TypeOK, WaitReap, Scans, Calls, InUser, Reap
<1>1. TypeOK' OBVIOUS
<1>2. PidsBelowNext' BY DEF PidsBelowNext, OneBuilder, Builds
<1>3. OneBuilder' BY DEF OneBuilder, Builds, FreeHasNoParent
<1>4. FreeHasNoParent' BY DEF FreeHasNoParent, OneBuilder, Builds
<1>5. InitAlive' BY DEF InitAlive, OneBuilder, Builds
<1>6. PidUnique' BY DEF PidUnique, PidsBelowNext, OneBuilder, Builds
<1>7. ParentAlive' BY DEF ParentAlive, OneBuilder, Builds, InitAlive
<1>8. NoMissedExit' BY DEF NoMissedExit, Awaited, Kids, ThreadKids, OneBuilder, Builds
<1>9. NotOwnParent' BY DEF NotOwnParent, OneBuilder, Builds
<1> QED BY <1>1, <1>2, <1>3, <1>4, <1>5, <1>6, <1>7, <1>8, <1>9 DEF TableInv

(* The same for join(). *)
LEMMA JoinReapStep ==
    ASSUME TableInv, NEW s \in Slot, NEW c \in Slot, JoinReap(s, c)
    PROVE  TableInv'
<1> USE InitInSlot, SizeAssumption DEF TableInv, TypeOK, JoinReap, Scans, Calls, InUser, Reap
<1>1. TypeOK' OBVIOUS
<1>2. PidsBelowNext' BY DEF PidsBelowNext, OneBuilder, Builds
<1>3. OneBuilder' BY DEF OneBuilder, Builds, FreeHasNoParent
<1>4. FreeHasNoParent' BY DEF FreeHasNoParent, OneBuilder, Builds
<1>5. InitAlive' BY DEF InitAlive, OneBuilder, Builds
<1>6. PidUnique' BY DEF PidUnique, PidsBelowNext, OneBuilder, Builds
<1>7. ParentAlive' BY DEF ParentAlive, OneBuilder, Builds, InitAlive
<1>8. NoMissedExit' BY DEF NoMissedExit, Awaited, Kids, ThreadKids, OneBuilder, Builds
<1>9. NotOwnParent' BY DEF NotOwnParent, OneBuilder, Builds
<1> QED BY <1>1, <1>2, <1>3, <1>4, <1>5, <1>6, <1>7, <1>8, <1>9 DEF TableInv

(* A killed sleeper is awake. *)
LEMMA KillStep ==
    ASSUME TableInv, NEW s \in Slot, NEW v \in Victims, NEW c \in Slot, Kill(s, v, c)
    PROVE  TableInv'
<1> USE InitInSlot, SizeAssumption DEF TableInv, TypeOK, Kill
<1>1. TypeOK' OBVIOUS
<1>2. PidsBelowNext' BY DEF PidsBelowNext, OneBuilder, Builds
<1>3. OneBuilder' BY DEF OneBuilder, Builds, FreeHasNoParent
<1>4. FreeHasNoParent' BY DEF FreeHasNoParent, OneBuilder, Builds
<1>5. InitAlive' BY DEF InitAlive, OneBuilder, Builds
<1>6. PidUnique' BY DEF PidUnique, PidsBelowNext, OneBuilder, Builds
<1>7. ParentAlive' BY DEF ParentAlive, OneBuilder, Builds, InitAlive
<1>8. NoMissedExit' BY DEF NoMissedExit, Awaited, Kids, ThreadKids, OneBuilder, Builds
<1>9. NotOwnParent' BY DEF NotOwnParent, OneBuilder, Builds
<1> QED BY <1>1, <1>2, <1>3, <1>4, <1>5, <1>6, <1>7, <1>8, <1>9 DEF TableInv

(* Children go to init, which is alive; whoever sleeps for a new zombie is  *)
(* woken.                                                                   *)
LEMMA ExitStep ==
    ASSUME TableInv, NEW s \in Slot, Exit(s)
    PROVE  TableInv'
<1> USE InitInSlot DEF TableInv
<1>1. /\ s # initproc
      /\ state[s] = "RUNNABLE" /\ pc[s] = "user"
      /\ UNCHANGED <<pid, killed, isthread, pgdir, pc, np, nextpid, spaces, badfree>>
  BY DEF Exit, InUser
<1>2. /\ parent' \in [Slot -> Slot \cup {0}]
      /\ \A c \in Slot : parent'[c] = IF parent[c] = s THEN initproc ELSE parent[c]
  BY DEF Exit, Reparented, Kids, TypeOK
<1>3. ExitWakes(s) \in [Slot -> {"UNUSED", "EMBRYO", "RUNNABLE", "SLEEPING", "ZOMBIE"}]
  BY DEF ExitWakes, Wakeup1, TypeOK
<1>4. \A c \in Slot : \/ ExitWakes(s)[c] = state[c]
                      \/ state[c] = "SLEEPING" /\ ExitWakes(s)[c] = "RUNNABLE"
  BY DEF ExitWakes, Wakeup1, TypeOK
<1>5. parent[s] # 0 => ExitWakes(s)[parent[s]] # "SLEEPING"
  BY DEF ExitWakes, Wakeup1, TypeOK
<1>6. (\E c \in Slot : parent[c] = s /\ state[c] = "ZOMBIE")
        => ExitWakes(s)[initproc] # "SLEEPING"
  BY DEF ExitWakes, Wakeup1, TypeOK, Kids
<1>7. /\ state' \in [Slot -> {"UNUSED", "EMBRYO", "RUNNABLE", "SLEEPING", "ZOMBIE"}]
      /\ state'[s] = "ZOMBIE"
      /\ \A c \in Slot \ {s} : state'[c] = ExitWakes(s)[c]
  BY <1>3 DEF Exit
<1>8. \A c \in Slot \ {s} : \/ state'[c] = state[c]
                            \/ state[c] = "SLEEPING" /\ state'[c] = "RUNNABLE"
  BY <1>4, <1>7
<1>11. TypeOK' BY <1>1, <1>2, <1>7 DEF TypeOK
<1>12. PidsBelowNext' BY <1>1, <1>7, <1>8 DEF PidsBelowNext, TypeOK
<1>13. OneBuilder' BY <1>1, <1>2, <1>7, <1>8 DEF OneBuilder, Builds, TypeOK
<1>14. FreeHasNoParent' BY <1>2, <1>7, <1>8 DEF FreeHasNoParent
<1>15. InitAlive' BY <1>1, <1>8 DEF InitAlive
<1>16. PidUnique' BY <1>1, <1>7, <1>8 DEF PidUnique
<1>17. ParentAlive'
  <2> SUFFICES ASSUME NEW c \in Slot \ {initproc}, Alive(c)' \/ state'[c] = "ZOMBIE"
               PROVE  parent'[c] # 0 /\ Alive(parent[c])'
    BY DEF ParentAlive
  <2>1. parent[c] # 0 /\ Alive(parent[c])
    BY <1>1, <1>8 DEF ParentAlive
  <2>2. CASE parent[c] = s
    BY <1>2, <1>15, <2>2 DEF InitAlive
  <2>3. CASE parent[c] # s
    <3>1. parent[c] \in Slot \ {s} /\ parent'[c] = parent[c]
      BY <1>2, <2>1, <2>3 DEF TypeOK
    <3> QED BY <1>8, <2>1, <3>1
  <2> QED BY <2>2, <2>3
<1>18. NoMissedExit'
  <2> SUFFICES ASSUME NEW t \in Slot, state'[t] = "SLEEPING"
               PROVE  /\ Awaited(t)' # {}
                      /\ \A c \in Awaited(t)' : state'[c] # "ZOMBIE"
                      /\ ~killed'[t]
    BY DEF NoMissedExit
  <2>1. t # s /\ state[t] = "SLEEPING" /\ ExitWakes(s)[t] = "SLEEPING"
    BY <1>7, <1>8
  <2>2. ~killed'[t] /\ Awaited(t) # {} /\ \A c \in Awaited(t) : state[c] # "ZOMBIE"
    BY <1>1, <2>1 DEF NoMissedExit
  <2>3. \A c \in Awaited(t) : c \in Awaited(t)'
    BY <1>1, <1>2, <2>1 DEF Awaited, Kids, ThreadKids
  <2>4. ASSUME NEW c \in Awaited(t)' PROVE state'[c] # "ZOMBIE"
    <3>1. c \in Slot /\ parent'[c] = t
      BY DEF Awaited, Kids, ThreadKids
    <3>2. CASE parent[c] = s
      <4>1. t = initproc BY <1>2, <3>1, <3>2
      <4>2. state[c] # "ZOMBIE" BY <1>6, <2>1, <3>1, <3>2, <4>1
      <4>3. c # s BY <1>1, <3>2 DEF NotOwnParent
      <4> QED BY <1>8, <3>1, <4>2, <4>3
    <3>3. CASE parent[c] # s
      <4>1. parent[c] = t BY <1>2, <3>1, <3>3
      <4>2. c \in Awaited(t) BY <1>1, <3>1, <4>1 DEF Awaited, Kids, ThreadKids
      <4>3. c # s BY <1>5, <2>1, <4>1
      <4> QED BY <1>8, <2>2, <3>1, <4>2, <4>3
    <3> QED BY <3>2, <3>3
  <2> QED BY <2>2, <2>3, <2>4
<1>19. NotOwnParent' BY <1>2 DEF NotOwnParent
<1> QED BY <1>11, <1>12, <1>13, <1>14, <1>15, <1>16, <1>17, <1>18, <1>19 DEF TableInv

(* A process goes to sleep only after it saw that it has children to wait   *)
(* for and that none is a zombie.                                           *)
LEMMA SleepStep ==
    ASSUME TableInv, NEW s \in Slot, WaitSleep(s) \/ JoinSleep(s)
    PROVE  TableInv'
<1> USE InitInSlot DEF TableInv
<1>1. /\ state[s] = "RUNNABLE" /\ ~Builds(s)
      /\ UNCHANGED <<pid, parent, killed, isthread, pgdir, np, nextpid, spaces, badfree>>
  BY DEF WaitSleep, JoinSleep, Scans, Calls, InUser, NoZombie, Builds
<1>2. PICK call \in {"user", "wait", "join"} : pc' = [pc EXCEPT ![s] = call]
  BY DEF WaitSleep, JoinSleep, NoZombie
<1>3. /\ state' \in [Slot -> {"UNUSED", "EMBRYO", "RUNNABLE", "SLEEPING", "ZOMBIE"}]
      /\ state'[s] \in {"RUNNABLE", "SLEEPING"}
      /\ \A c \in Slot \ {s} : state'[c] = state[c]
  BY <1>1 DEF WaitSleep, JoinSleep, NoZombie, TypeOK
<1>4. TypeOK' BY <1>1, <1>2, <1>3 DEF TypeOK
<1>5. PidsBelowNext' BY <1>1, <1>3 DEF PidsBelowNext
<1>6. OneBuilder' BY <1>1, <1>2, <1>3 DEF OneBuilder, Builds, TypeOK
<1>7. FreeHasNoParent' BY <1>1, <1>3 DEF FreeHasNoParent
<1>8. InitAlive' BY <1>1, <1>3 DEF InitAlive
<1>9. PidUnique' BY <1>1, <1>3 DEF PidUnique
<1>10. ParentAlive'
  <2>1. \A c \in Slot : /\ Alive(c)' <=> Alive(c)
                        /\ state'[c] = "ZOMBIE" <=> state[c] = "ZOMBIE"
    BY <1>1, <1>3
  <2> QED BY <1>1, <2>1 DEF ParentAlive, TypeOK
<1>11. NoMissedExit'
  <2> SUFFICES ASSUME NEW t \in Slot, state'[t] = "SLEEPING"
               PROVE  /\ Awaited(t)' # {}
                      /\ \A c \in Awaited(t)' : state'[c] # "ZOMBIE"
                      /\ ~killed'[t]
    BY DEF NoMissedExit
  <2>1. Kids(t)' = Kids(t) /\ ThreadKids(t)' = ThreadKids(t)
    BY <1>1 DEF Kids, ThreadKids
  <2>2. \A c \in Slot : state'[c] = "ZOMBIE" <=> state[c] = "ZOMBIE"
    BY <1>1, <1>3
  <2>3. CASE t = s
    <3>1. CASE WaitSleep(s)
      <4>1. /\ Kids(s) # {} /\ ~killed[s] /\ pc' = [pc EXCEPT ![s] = "wait"]
            /\ \A c \in Kids(s) : state[c] # "ZOMBIE"
        BY <1>1, <2>3, <3>1 DEF WaitSleep, NoZombie
      <4>2. Awaited(t)' = Kids(s) BY <2>1, <2>3, <4>1 DEF Awaited, TypeOK
      <4> QED BY <1>1, <2>2, <2>3, <4>1, <4>2 DEF Kids
    <3>2. CASE JoinSleep(s)
      <4>1. /\ ThreadKids(s) # {} /\ ~killed[s] /\ pc' = [pc EXCEPT ![s] = "join"]
            /\ \A c \in ThreadKids(s) : state[c] # "ZOMBIE"
        BY <1>1, <2>3, <3>2 DEF JoinSleep, NoZombie
      <4>2. Awaited(t)' = ThreadKids(s) BY <2>1, <2>3, <4>1 DEF Awaited, TypeOK
      <4> QED BY <1>1, <2>2, <2>3, <4>1, <4>2 DEF Kids, ThreadKids
    <3> QED BY <3>1, <3>2
  <2>4. CASE t # s
    <3>1. state[t] = "SLEEPING" /\ pc'[t] = pc[t]
      BY <1>2, <1>3, <2>4 DEF TypeOK
    <3>2. Awaited(t)' = Awaited(t) BY <2>1, <3>1 DEF Awaited
    <3> QED BY <1>1, <2>2, <3>1, <3>2 DEF NoMissedExit, Awaited, Kids, ThreadKids
  <2> QED BY <2>3, <2>4
<1>12. NotOwnParent' BY <1>1 DEF NotOwnParent
<1> QED BY <1>4, <1>5, <1>6, <1>7, <1>8, <1>9, <1>10, <1>11, <1>12 DEF TableInv

LEMMA NextTableInv == TableInv /\ [Next]_vars => TableInv'
<1> SUFFICES ASSUME TableInv, [Next]_vars PROVE TableInv'
  OBVIOUS
<1>1. CASE UNCHANGED vars
  BY <1>1 DEF vars, TableInv, TypeOK, PidsBelowNext, OneBuilder, Builds,
              FreeHasNoParent, NotOwnParent, InitAlive, PidUnique, ParentAlive,
              NoMissedExit, Awaited, Kids, ThreadKids
<1>2. ASSUME NEW s \in Slot, Fork(s) \/ Clone(s) PROVE TableInv'
  BY <1>2, AllocProcStep, AllocFailsStep, ForkCopyStep, CloneShareStep, PublishStep
     DEF Fork, Clone
<1>3. ASSUME NEW s \in Slot, Wait(s) \/ Join(s) PROVE TableInv'
  BY <1>3, WaitReapStep, JoinReapStep, SleepStep DEF Wait, Join
<1>4. ASSUME NEW s \in Slot, NEW a \in Space, Exec(s, a) PROVE TableInv'
  BY <1>4, ExecStep
<1>5. ASSUME NEW s \in Slot, Exit(s) PROVE TableInv'
  BY <1>5, ExitStep
<1>6. ASSUME NEW s \in Slot, NEW v \in Victims, NEW c \in Slot, Kill(s, v, c)
      PROVE  TableInv'
  BY <1>6, KillStep
<1> QED BY <1>1, <1>2, <1>3, <1>4, <1>5, <1>6 DEF Next, Wait2

(* The inductive invariant holds in every reachable state. *)
THEOREM TableInductive == Spec => []TableInv
BY InitTableInv, NextTableInv, PTL DEF Spec

(* Two processes never have the same pid, whatever forks failed and         *)
(* whatever slots were reused.                                              *)
THEOREM PidUniqueHolds == Spec => []PidUnique
<1>1. TableInv => PidUnique
  BY DEF TableInv
<1> QED BY <1>1, TableInductive, PTL

(* exit() never leaves a child with a parent that cannot wait for it. *)
THEOREM ParentAliveHolds == Spec => []ParentAlive
<1>1. TableInv => ParentAlive
  BY DEF TableInv
<1> QED BY <1>1, TableInductive, PTL

(* A process asleep in wait() or join() has not missed an exit or a kill. *)
THEOREM NoMissedExitHolds == Spec => []NoMissedExit
<1>1. TableInv => NoMissedExit
  BY DEF TableInv
<1> QED BY <1>1, TableInductive, PTL
-----------------------------------------------------------------------------
(* Address spaces, as long as no program has made a thread. *)

SpaceInv == OneOwner /\ ~badfree

(* Steps that leave the owners and their page directories alone. *)
LEMMA SameOwners ==
    ASSUME SpaceInv, Owners' = Owners, \A s \in Owners : pgdir'[s] = pgdir[s],
           spaces' = spaces, badfree' = badfree
    PROVE  SpaceInv'
<1>1. {pgdir'[s] : s \in Owners'} = {pgdir[s] : s \in Owners}
  OBVIOUS
<1>2. OneOwner'
  BY <1>1 DEF SpaceInv, OneOwner
<1> QED BY <1>2 DEF SpaceInv

LEMMA BuildSpaces ==
    ASSUME TableInv, SpaceInv, NEW s \in Slot,
           \/ \E n \in Slot, call \in {"fork", "clone"} : AllocProc(s, n, call)
           \/ AllocFails(s)
           \/ Publish(s)
    PROVE  SpaceInv'
<1>1. UNCHANGED <<pgdir, spaces, badfree>>
  BY DEF AllocProc, AllocFails, Publish
<1>2. CASE \E n \in Slot, call \in {"fork", "clone"} : AllocProc(s, n, call)
  <2>1. PICK n \in Slot, call \in {"fork", "clone"} : AllocProc(s, n, call) BY <1>2
  <2>2. Owners' = Owners
    BY <2>1 DEF AllocProc, Calls, InUser, Owners, TableInv, TypeOK, OneBuilder, Builds
  <2> QED BY <1>1, <2>2, SameOwners
<1>3. CASE AllocFails(s)
  <2>1. pc[s] \in {"fork", "clone"} BY <1>3 DEF AllocFails
  <2>2. Owners' = Owners
    BY <1>3, <2>1 DEF AllocFails, Owners, TableInv, TypeOK, OneBuilder, Builds
  <2> QED BY <1>1, <2>2, SameOwners
<1>4. CASE Publish(s)
  <2>1. /\ np[s] \in Slot /\ state[np[s]] = "EMBRYO" /\ pc[s] = "publish"
        /\ state[s] = "RUNNABLE" /\ np[s] # s
    BY <1>4 DEF Publish, TableInv, OneBuilder, Builds
  <2>2. \A t \in Slot : pc[t] = "publish" => t # np[s] /\ (np[t] = np[s] => t = s)
    BY <2>1 DEF TableInv, OneBuilder, Builds
  <2>3. Owners' = Owners
    BY <1>4, <2>1, <2>2 DEF Publish, Owners, TableInv, TypeOK
  <2> QED BY <1>1, <2>3, SameOwners
<1> QED BY <1>2, <1>3, <1>4

(* The copy is a new address space, and the slot becomes its owner. *)
LEMMA ForkCopySpaces ==
    ASSUME TableInv, SpaceInv, NEW s \in Slot, NEW a \in Space, ForkCopy(s, a)
    PROVE  SpaceInv'
<1>1. /\ np[s] \in Slot /\ state[np[s]] = "EMBRYO" /\ pc[s] = "fork"
      /\ state[s] = "RUNNABLE" /\ np[s] # s
  BY DEF ForkCopy, TableInv, OneBuilder, Builds
<1>2. np[s] \notin Owners
  BY <1>1 DEF Owners, TableInv, OneBuilder, Builds
<1>3. Owners' = Owners \cup {np[s]}
  BY <1>1 DEF ForkCopy, Owners, TableInv, TypeOK
<1>4. /\ a \notin spaces /\ spaces' = spaces \cup {a} /\ badfree' = badfree
      /\ pgdir'[np[s]] = a /\ \A t \in Owners : pgdir'[t] = pgdir[t]
  BY <1>1, <1>2 DEF ForkCopy, Fresh, TableInv, TypeOK, Owners
<1>5. OneOwner'
  <2>1. spaces' = {pgdir'[t] : t \in Owners'}
    BY <1>3, <1>4 DEF SpaceInv, OneOwner
  <2>2. \A t, u \in Owners' : pgdir'[t] = pgdir'[u] => t = u
    BY <1>3, <1>4 DEF SpaceInv, OneOwner
  <2> QED BY <2>1, <2>2 DEF OneOwner
<1> QED BY <1>4, <1>5 DEF SpaceInv

(* The caller's address space is its own, so the old one can be freed. *)
LEMMA ExecSpaces ==
    ASSUME TableInv, SpaceInv, NEW s \in Slot, NEW a \in Space, Exec(s, a)
    PROVE  SpaceInv'
<1>1. s \in Owners /\ pgdir[s] \in spaces
  BY DEF Exec, Calls, InUser, Owners, SpaceInv, OneOwner
<1>2. Owners' = Owners
  BY DEF Exec, Owners
<1>3. /\ a \notin spaces /\ spaces' = (spaces \cup {a}) \ {pgdir[s]}
      /\ badfree' = badfree /\ pc' = pc
      /\ pgdir'[s] = a /\ \A t \in Owners \ {s} : pgdir'[t] = pgdir[t]
  BY <1>1 DEF Exec, Fresh, TableInv, TypeOK, Owners
<1>4. OneOwner'
  <2>1. \A t \in Owners \ {s} : pgdir[t] # pgdir[s] /\ pgdir[t] \in spaces
    BY <1>1 DEF SpaceInv, OneOwner
  <2>2. spaces' = {pgdir'[t] : t \in Owners'}
    <3>1. ASSUME NEW x \in spaces' PROVE \E t \in Owners' : x = pgdir'[t]
      <4>1. CASE x = a BY <1>1, <1>2, <1>3, <4>1
      <4>2. CASE x \in spaces \ {pgdir[s]}
        <5>1. PICK t \in Owners : x = pgdir[t] BY <4>2 DEF SpaceInv, OneOwner
        <5> QED BY <1>2, <1>3, <4>2, <5>1
      <4> QED BY <1>3, <3>1, <4>1, <4>2
    <3>2. ASSUME NEW t \in Owners' PROVE pgdir'[t] \in spaces'
      BY <1>1, <1>2, <1>3, <2>1
    <3> QED BY <3>1, <3>2
  <2>3. \A t, u \in Owners' : pgdir'[t] = pgdir'[u] => t = u
    BY <1>2, <1>3, <2>1 DEF SpaceInv, OneOwner
  <2> QED BY <2>2, <2>3 DEF OneOwner
<1> QED BY <1>3, <1>4 DEF SpaceInv

(* The zombie was the only owner of what wait() frees. *)
LEMMA WaitReapSpaces ==
    ASSUME TableInv, SpaceInv, NEW s \in Slot, NEW c \in Slot, WaitReap(s, c)
    PROVE  SpaceInv'
<1>1. state[c] = "ZOMBIE" /\ c \in Owners /\ pgdir[c] \in spaces
  BY DEF WaitReap, Reap, Owners, SpaceInv, OneOwner
<1>2. \A t \in Slot : pc[t] = "publish" => np[t] # c
  BY <1>1 DEF TableInv, OneBuilder, Builds
<1>3. s # c /\ pc[s] # "publish"
  BY <1>1 DEF WaitReap, Scans, Calls, InUser
<1>4. Owners' = Owners \ {c}
  BY <1>1, <1>2, <1>3 DEF WaitReap, Reap, Owners, TableInv, TypeOK
<1>5. spaces' = spaces \ {pgdir[c]} /\ badfree' = badfree /\ pgdir' = pgdir
  BY <1>1 DEF WaitReap, Reap, TableInv, TypeOK
<1>6. OneOwner'
  <2>1. spaces' = {pgdir'[t] : t \in Owners'}
    BY <1>1, <1>4, <1>5 DEF SpaceInv, OneOwner
  <2>2. \A t, u \in Owners' : pgdir'[t] = pgdir'[u] => t = u
    BY <1>4, <1>5 DEF SpaceInv, OneOwner
  <2> QED BY <2>1, <2>2 DEF OneOwner
<1> QED BY <1>5, <1>6 DEF SpaceInv

(* Steps that only move a process between the states of an owner. *)
LEMMA OtherSpaces ==
    ASSUME TableInv, SpaceInv, NEW s \in Slot,
           \/ Exit(s)
           \/ WaitSleep(s) \/ JoinSleep(s)
           \/ \E v \in Victims, c \in Slot : Kill(s, v, c)
    PROVE  SpaceInv'
<1> DEFINE Live(f, c) == f[c] \in {"RUNNABLE", "SLEEPING", "ZOMBIE"}
<1>1. /\ UNCHANGED <<pgdir, np, spaces, badfree>>
      /\ \A t \in Slot : pc'[t] = "publish" <=> pc[t] = "publish"
  BY DEF Exit, WaitSleep, JoinSleep, NoZombie, Kill, Scans, Calls, InUser, TableInv, TypeOK
<1>2. \A c \in Slot : Live(state', c) <=> Live(state, c)
  <2>1. CASE Exit(s)
    BY <2>1 DEF Exit, InUser, ExitWakes, Wakeup1, TableInv, TypeOK
  <2>2. CASE WaitSleep(s) \/ JoinSleep(s)
    BY <2>2 DEF WaitSleep, JoinSleep, NoZombie, Scans, Calls, InUser, TableInv, TypeOK
  <2>3. CASE \E v \in Victims, c \in Slot : Kill(s, v, c)
    BY <2>3 DEF Kill, TableInv, TypeOK
  <2> QED BY <2>1, <2>2, <2>3
<1>3. Owners' = Owners
  BY <1>1, <1>2 DEF Owners
<1> QED BY <1>1, <1>3, SameOwners

(* The first clone() marks a slot for good. *)
LEMMA ThreadsMarked ==
    ASSUME TableInv, [Next]_vars, Threadless'
    PROVE  Threadless /\ \A s \in Slot : ~CloneShare(s)
<1>1. \A s \in Slot : ~CloneShare(s)
  <2> SUFFICES ASSUME NEW s \in Slot, CloneShare(s) PROVE FALSE
    OBVIOUS
  <2>1. np[s] \in Slot
    BY DEF CloneShare, TableInv, OneBuilder, Builds
  <2>2. isthread'[np[s]] = TRUE
    <3>1. isthread' = [isthread EXCEPT ![np[s]] = TRUE] BY DEF CloneShare
    <3>2. isthread \in [Slot -> BOOLEAN] BY DEF TableInv, TypeOK
    <3> QED BY <2>1, <3>1, <3>2, Zenon
  <2>3. ~isthread'[np[s]]
    BY <2>1 DEF Threadless
  <2> QED BY <2>2, <2>3
<1>2. CASE UNCHANGED vars
  BY <1>1, <1>2 DEF vars, Threadless
<1>3. CASE Next
  <2>1. UNCHANGED isthread
    BY <1>1, <1>3 DEF Next, Fork, AllocProc, AllocFails, ForkCopy, Publish, Exec, Exit, Wait, Wait2, WaitSleep, WaitReap,
                      Clone, Join, JoinSleep, JoinReap, NoZombie, Reap, Kill
  <2> QED BY <1>1, <2>1 DEF Threadless
<1> QED BY <1>2, <1>3

(* As long as no program has made a thread, exactly the page directories of *)
(* processes and of children being built are allocated, each for one of     *)
(* them, and freevm() is never given one that is not.                       *)
THEOREM SpacesOwnedHolds == Spec => []SpacesOwned
<1> DEFINE Inv == Threadless => SpaceInv
<1>1. Init => Inv
  <2> SUFFICES ASSUME Init PROVE SpaceInv
    OBVIOUS
  <2>1. Owners = {initproc}
    BY InitInSlot DEF Init, Owners
  <2> QED BY <2>1, InitInSlot DEF Init, SpaceInv, OneOwner
<1>2. TableInv /\ Inv /\ [Next]_vars => Inv'
  <2> SUFFICES ASSUME TableInv, Inv, [Next]_vars, Threadless' PROVE SpaceInv'
    OBVIOUS
  <2>1. SpaceInv /\ Threadless /\ \A s \in Slot : ~CloneShare(s)
    BY ThreadsMarked
  <2>2. CASE UNCHANGED vars
    BY <2>1, <2>2 DEF vars, SpaceInv, OneOwner, Owners, Alive
  <2>3. ASSUME NEW s \in Slot, Fork(s) PROVE SpaceInv'
    BY <2>1, <2>3, BuildSpaces, ForkCopySpaces DEF Fork
  <2>4. ASSUME NEW s \in Slot, Wait(s) PROVE SpaceInv'
    BY <2>1, <2>4, OtherSpaces, WaitReapSpaces DEF Wait
  <2>5. ASSUME NEW s \in Slot, NEW a \in Space, Exec(s, a) PROVE SpaceInv'
    BY <2>1, <2>5, ExecSpaces
  <2>6. ASSUME NEW s \in Slot,
               Exit(s) \/ \E v \in Victims, c \in Slot : Kill(s, v, c)
        PROVE  SpaceInv'
    BY <2>1, <2>6, OtherSpaces
  <2>7. ASSUME NEW s \in Slot, Clone(s) PROVE SpaceInv'
    BY <2>1, <2>7, BuildSpaces DEF Clone
  <2>8. ASSUME NEW s \in Slot, Join(s) PROVE SpaceInv'
    <3>1. \A c \in Slot : ~JoinReap(s, c)
      BY <2>1 DEF JoinReap, Reap, ThreadKids, Threadless
    <3> QED BY <2>1, <2>8, <3>1, OtherSpaces DEF Join
  <2> QED BY <2>2, <2>3, <2>4, <2>5, <2>6, <2>7, <2>8 DEF Next, Wait2
<1>3. Inv => SpacesOwned
  BY DEF SpaceInv, SpacesOwned
<1> QED BY <1>1, <1>2, <1>3, TableInductive, PTL DEF Spec
=============================================================================
