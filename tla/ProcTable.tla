----------------------------- MODULE ProcTable -----------------------------
(* The process table of proc.c: fork, clone, exec, exit, wait, join and     *)
(* kill on the slots of ptable.proc[], with the page directory each slot    *)
(* points to.  What runs under ptable.lock is one action; fork() and        *)
(* clone(), which take and release it twice, are several.  RUNNING and      *)
(* RUNNABLE are one state here (the scheduler is in SleepLock), and the     *)
(* only sleeps are those of wait(), wait2() and join(), whose channel is    *)
(* the sleeper's own slot.                                                  *)
EXTENDS Integers, FiniteSets

CONSTANTS NPROC,     \* slots of the table
          MaxPid,    \* bound on nextpid
          Victims,   \* pids passed to kill()
          Threads    \* whether programs call clone() and join()

ASSUME SizeAssumption == NPROC \in Nat \ {0} /\ MaxPid \in Nat \ {0, 1}
ASSUME VictimsAssumption == Victims \subseteq Nat /\ Threads \in BOOLEAN

VARIABLES state,     \* p->state
          pid,       \* p->pid
          parent,    \* p->parent, 0 for none
          killed,    \* p->killed
          isthread,  \* p->isthread
          pgdir,     \* p->pgdir: the name of an address space
          pc,        \* what each process is doing in the kernel
          np,        \* the slot a fork() or clone() is filling, 0 for none
          nextpid,   \* nextpid
          spaces,    \* address spaces that are allocated
          badfree    \* freevm() was given an address space not allocated

vars == <<state, pid, parent, killed, isthread, pgdir, pc, np, nextpid, spaces, badfree>>

Slot == 1..NPROC
initproc == 1

(* Enough names for one address space per slot and one being built. *)
Space == 1..(NPROC + 1)

(* setupkvm() hands out one that is free. Which one makes no difference.    *)
Fresh(a) == a \notin spaces /\ \A b \in 1..(a - 1) : b \in spaces

(* userinit(): the first process, in the first slot. *)
Init == /\ state = [s \in Slot |-> IF s = initproc THEN "RUNNABLE" ELSE "UNUSED"]
        /\ pid = [s \in Slot |-> IF s = initproc THEN 1 ELSE 0]
        /\ parent = [s \in Slot |-> 0]
        /\ killed = [s \in Slot |-> FALSE]
        /\ isthread = [s \in Slot |-> FALSE]
        /\ pgdir = [s \in Slot |-> IF s = initproc THEN 1 ELSE 0]
        /\ pc = [s \in Slot |-> "user"]
        /\ np = [s \in Slot |-> 0]
        /\ nextpid = 2
        /\ spaces = {1}
        /\ badfree = FALSE

(* A process in user space; a killed one makes no further calls, since      *)
(* trap() sends it to exit().                                               *)
InUser(s) == state[s] = "RUNNABLE" /\ pc[s] = "user"
Calls(s) == InUser(s) /\ ~killed[s]

-----------------------------------------------------------------------------
(* fork() and clone() *)

(* allocproc(): the first UNUSED slot becomes EMBRYO.  p->killed and        *)
(* p->isthread keep what the slot's last user left.                         *)
AllocProc(s, n, call) ==
    /\ Calls(s)
    /\ state[n] = "UNUSED"
    /\ \A m \in 1..(n - 1) : state[m] # "UNUSED"
    /\ nextpid < MaxPid
    /\ state' = [state EXCEPT ![n] = "EMBRYO"]
    /\ pid' = [pid EXCEPT ![n] = nextpid]
    /\ nextpid' = nextpid + 1
    /\ pc' = [pc EXCEPT ![s] = call]
    /\ np' = [np EXCEPT ![s] = n]
    /\ UNCHANGED <<parent, killed, isthread, pgdir, spaces, badfree>>

(* kalloc() or copyuvm() fails: the slot is given back without the lock,    *)
(* with its pid still in it.                                                *)
AllocFails(s) ==
    /\ pc[s] \in {"fork", "clone"}
    /\ state' = [state EXCEPT ![np[s]] = "UNUSED"]
    /\ pc' = [pc EXCEPT ![s] = "user"]
    /\ np' = [np EXCEPT ![s] = 0]
    /\ UNCHANGED <<pid, parent, killed, isthread, pgdir, nextpid, spaces, badfree>>

(* fork(): the child gets a copy of the address space. *)
ForkCopy(s, a) ==
    /\ pc[s] = "fork"
    /\ Fresh(a)
    /\ spaces' = spaces \cup {a}
    /\ pgdir' = [pgdir EXCEPT ![np[s]] = a]
    /\ parent' = [parent EXCEPT ![np[s]] = s]
    /\ pc' = [pc EXCEPT ![s] = "publish"]
    /\ UNCHANGED <<state, pid, killed, isthread, np, nextpid, badfree>>

(* clone(): the child shares it and is marked as a thread. *)
CloneShare(s) ==
    /\ pc[s] = "clone"
    /\ pgdir' = [pgdir EXCEPT ![np[s]] = pgdir[s]]
    /\ parent' = [parent EXCEPT ![np[s]] = s]
    /\ isthread' = [isthread EXCEPT ![np[s]] = TRUE]
    /\ pc' = [pc EXCEPT ![s] = "publish"]
    /\ UNCHANGED <<state, pid, killed, np, nextpid, spaces, badfree>>

(* The end of both: np->state = RUNNABLE under ptable.lock.  The child      *)
(* starts in user space.                                                    *)
Publish(s) ==
    /\ pc[s] = "publish"
    /\ state' = [state EXCEPT ![np[s]] = "RUNNABLE"]
    /\ pc' = [pc EXCEPT ![s] = "user", ![np[s]] = "user"]
    /\ np' = [np EXCEPT ![s] = 0]
    /\ UNCHANGED <<pid, parent, killed, isthread, pgdir, nextpid, spaces, badfree>>

-----------------------------------------------------------------------------
(* Variant with a bug: the old address space is not freed. *)
ExecLeaks(s, a) ==
    /\ Calls(s)
    /\ Fresh(a)
    /\ pgdir' = [pgdir EXCEPT ![s] = a]
    /\ spaces' = spaces \cup {a}
    /\ UNCHANGED <<state, pid, parent, killed, isthread, pc, np, nextpid, badfree>>

(* exec() that succeeds: a new address space is built, then the old one is  *)
(* freed. A failing exec() frees what it built and changes nothing.         *)
Exec(s, a) ==
    /\ Calls(s)
    /\ Fresh(a)
    /\ pgdir' = [pgdir EXCEPT ![s] = a]
    /\ spaces' = (spaces \cup {a}) \ {pgdir[s]}
    /\ badfree' = (badfree \/ pgdir[s] \notin spaces)
    /\ UNCHANGED <<state, pid, parent, killed, isthread, pc, np, nextpid>>

(* wakeup1(q) on a table of states: q is the only process that sleeps on q. *)
Wakeup1(f, q) == IF q # 0 /\ f[q] = "SLEEPING" THEN [f EXCEPT ![q] = "RUNNABLE"] ELSE f

Kids(s) == {c \in Slot : parent[c] = s}

(* Variants with a bug: children are left behind; nobody is woken. *)
KeepChildren(s) == parent
WakeNobody(s) == state

(* Abandoned children pass to init. *)
Reparented(s) == [c \in Slot |-> IF c \in Kids(s) THEN initproc ELSE parent[c]]

(* The parent is woken, and init if it inherits a zombie. *)
ExitWakes(s) ==
    LET woken == Wakeup1(state, parent[s])
    IN  IF \E c \in Kids(s) : state[c] = "ZOMBIE" THEN Wakeup1(woken, initproc) ELSE woken

(* The part of exit() under ptable.lock.  init itself never exits ("init    *)
(* exiting" is a panic).                                                    *)
Exit(s) ==
    /\ InUser(s)
    /\ s # initproc
    /\ parent' = Reparented(s)
    /\ state' = [ExitWakes(s) EXCEPT ![s] = "ZOMBIE"]
    /\ UNCHANGED <<pid, killed, isthread, pgdir, pc, np, nextpid, spaces, badfree>>

-----------------------------------------------------------------------------
(* wait() and join() *)

ThreadKids(s) == {c \in Kids(s) : isthread[c]}

(* The process starts the call or comes back from its sleep. *)
Scans(s, call) == Calls(s) \/ (state[s] = "RUNNABLE" /\ pc[s] = call)

(* Variant with a bug: the scan ends at the first child. *)
ReapFirst(s, kids, c) ==
    /\ c \in kids /\ state[c] = "ZOMBIE"
    /\ \A d \in kids : c <= d
    /\ state' = [state EXCEPT ![c] = "UNUSED"]
    /\ pid' = [pid EXCEPT ![c] = 0]
    /\ parent' = [parent EXCEPT ![c] = 0]
    /\ killed' = [killed EXCEPT ![c] = FALSE]
    /\ pc' = [pc EXCEPT ![s] = "user"]
    /\ UNCHANGED <<isthread, pgdir, np, nextpid>>

(* The first zombie of the scan gives its slot back. *)
Reap(s, kids, c) ==
    /\ c \in kids /\ state[c] = "ZOMBIE"
    /\ \A d \in kids : state[d] = "ZOMBIE" => c <= d
    /\ state' = [state EXCEPT ![c] = "UNUSED"]
    /\ pid' = [pid EXCEPT ![c] = 0]
    /\ parent' = [parent EXCEPT ![c] = 0]
    /\ killed' = [killed EXCEPT ![c] = FALSE]
    /\ pc' = [pc EXCEPT ![s] = "user"]
    /\ UNCHANGED <<isthread, pgdir, np, nextpid>>

(* No zombie: return -1 without children or when killed, else sleep. *)
NoZombie(s, kids, call) ==
    /\ \A c \in kids : state[c] # "ZOMBIE"
    /\ IF kids = {} \/ killed[s]
       THEN pc' = [pc EXCEPT ![s] = "user"] /\ UNCHANGED state
       ELSE /\ pc' = [pc EXCEPT ![s] = call]
            /\ state' = [state EXCEPT ![s] = "SLEEPING"]
    /\ UNCHANGED <<pid, parent, killed, isthread, pgdir, np, nextpid, spaces, badfree>>

(* wait() frees the address space of whatever child it finds. *)
WaitReap(s, c) ==
    /\ Scans(s, "wait")
    /\ Reap(s, Kids(s), c)
    /\ spaces' = spaces \ {pgdir[c]}
    /\ badfree' = (badfree \/ pgdir[c] \notin spaces)

WaitSleep(s) == Scans(s, "wait") /\ NoZombie(s, Kids(s), "wait")

(* join() looks at threads only and leaves the address space alone. *)
JoinReap(s, c) ==
    /\ Scans(s, "join")
    /\ Reap(s, ThreadKids(s), c)
    /\ UNCHANGED <<spaces, badfree>>

JoinSleep(s) == Scans(s, "join") /\ NoZombie(s, ThreadKids(s), "join")

(* kill(v): the first slot with that pid, whatever its state. *)
Kill(s, v, c) ==
    /\ Calls(s)
    /\ pid[c] = v
    /\ \A d \in 1..(c - 1) : pid[d] # v
    /\ killed' = [killed EXCEPT ![c] = TRUE]
    /\ state' = [state EXCEPT ![c] = IF @ = "SLEEPING" THEN "RUNNABLE" ELSE @]
    /\ UNCHANGED <<pid, parent, isthread, pgdir, pc, np, nextpid, spaces, badfree>>

-----------------------------------------------------------------------------
Fork(s) == \/ \E n \in Slot : AllocProc(s, n, "fork")
           \/ AllocFails(s)
           \/ \E a \in Space : ForkCopy(s, a)
           \/ Publish(s)

Wait(s) == WaitSleep(s) \/ \E c \in Slot : WaitReap(s, c)

(* wait2() is wait() that also reports and clears the statistics.  The loop *)
(* and the channel are the same.                                            *)
Wait2(s) == Wait(s)

Clone(s) == CloneShare(s) \/ \E n \in Slot : AllocProc(s, n, "clone")

Join(s) == JoinSleep(s) \/ \E c \in Slot : JoinReap(s, c)

Next == \E s \in Slot :
          \/ Fork(s)
          \/ \E a \in Space : Exec(s, a)
          \/ Exit(s)
          \/ Wait(s) \/ Wait2(s)
          \/ \E v \in Victims, c \in Slot : Kill(s, v, c)
          \/ Threads /\ s # initproc /\ (Clone(s) \/ Join(s))   \* init.c uses neither

Spec == Init /\ [][Next]_vars

(* The part of a call that is left once it has begun. *)
Kernel(s) == pc[s] # "user" /\ (Fork(s) \/ Wait(s) \/ (Threads /\ (Clone(s) \/ Join(s))))

(* A call once begun goes on.  init loops in wait() (init.c).  A killed     *)
(* process is interrupted in user space and exits (trap()).                 *)
Fairness == /\ \A s \in Slot : WF_vars(Kernel(s)) /\ WF_vars(Exit(s) /\ killed[s])
            /\ SF_vars(Wait(initproc))

FairSpec == Spec /\ Fairness

-----------------------------------------------------------------------------
(* Properties *)

TypeOK ==
    /\ state \in [Slot -> {"UNUSED", "EMBRYO", "RUNNABLE", "SLEEPING", "ZOMBIE"}]
    /\ pid \in [Slot -> 0..MaxPid]
    /\ parent \in [Slot -> Slot \cup {0}]
    /\ killed \in [Slot -> BOOLEAN]
    /\ isthread \in [Slot -> BOOLEAN]
    /\ pgdir \in [Slot -> Space \cup {0}]
    /\ pc \in [Slot -> {"user", "fork", "clone", "publish", "wait", "join"}]
    /\ np \in [Slot -> Slot \cup {0}]
    /\ nextpid \in 0..MaxPid
    /\ spaces \subseteq Space
    /\ badfree \in BOOLEAN

Alive(s) == state[s] \in {"RUNNABLE", "SLEEPING"}

(* A pid names one process: no two slots in use have the same pid, although *)
(* failed forks leave pids in free slots and slots are reused.              *)
PidUnique ==
    \A s, t \in Slot : s # t /\ state[s] # "UNUSED" /\ state[t] # "UNUSED"
        => pid[s] # pid[t] /\ pid[s] # 0

(* Every process but init has a parent that can still wait for it: exit()   *)
(* leaves no child behind with a zombie, a free slot or a recycled one.     *)
ParentAlive ==
    \A c \in Slot \ {initproc} : Alive(c) \/ state[c] = "ZOMBIE"
        => parent[c] # 0 /\ Alive(parent[c])

(* The children a sleeping process waits for. *)
Awaited(s) == IF pc[s] = "wait" THEN Kids(s) ELSE ThreadKids(s)

(* No child's exit is missed: a process that sleeps in wait() or join() has *)
(* a child to wait for, none of those children is a zombie, and it was not  *)
(* killed.                                                                  *)
NoMissedExit ==
    \A s \in Slot : state[s] = "SLEEPING" =>
        /\ Awaited(s) # {}
        /\ \A c \in Awaited(s) : state[c] # "ZOMBIE"
        /\ ~killed[s]

(* No program has made a thread so far. *)
Threadless == \A s \in Slot : ~isthread[s]

Owners == {s \in Slot : \/ Alive(s) \/ state[s] = "ZOMBIE"
                        \/ \E t \in Slot : pc[t] = "publish" /\ np[t] = s}

OneOwner ==
    /\ spaces = {pgdir[s] : s \in Owners}
    /\ \A s, t \in Owners : pgdir[s] = pgdir[t] => s = t

(* As long as no program has made a thread each process has its own address *)
(* space, nothing is leaked and nothing is freed early: the allocated       *)
(* address spaces are exactly those of processes that are not yet reaped    *)
(* and of children being built, and freevm() is only given allocated ones.  *)
(* With threads, wait() frees the page directory that the parent uses too.  *)
SpacesOwned == Threadless => OneOwner /\ ~badfree

(* What the proofs add to make these inductive: pids are handed out in      *)
(* increasing order, a slot being filled is EMBRYO and filled by one        *)
(* running process, which becomes its parent before it is published, free   *)
(* slots have no parent, nobody is its own parent, and init never goes      *)
(* away.                                                                    *)
Builds(s) == pc[s] \in {"fork", "clone", "publish"}

PidsBelowNext ==
    /\ nextpid >= 2
    /\ \A s \in Slot : pid[s] < nextpid /\ (state[s] # "UNUSED" => pid[s] > 0)

OneBuilder ==
    /\ \A s \in Slot : Builds(s) => /\ np[s] \in Slot
                                    /\ state[s] = "RUNNABLE"
                                    /\ state[np[s]] = "EMBRYO"
                                    /\ parent[np[s]] = IF pc[s] = "publish" THEN s ELSE 0
    /\ \A s, t \in Slot : Builds(s) /\ Builds(t) /\ np[s] = np[t] => s = t

FreeHasNoParent == \A s \in Slot : state[s] = "UNUSED" => parent[s] = 0

NotOwnParent == \A s \in Slot \ {initproc} : parent[s] # s

InitAlive == Alive(initproc)

(* The table is sound: pids, parents and sleeping parents, together with    *)
(* what makes these inductive.                                              *)
TableInv == /\ TypeOK /\ PidsBelowNext /\ OneBuilder /\ FreeHasNoParent /\ NotOwnParent
            /\ InitAlive /\ PidUnique /\ ParentAlive /\ NoMissedExit

(* A zombie that was handed to init is reaped. *)
OrphansReaped ==
    \A c \in Slot : (state[c] = "ZOMBIE" /\ parent[c] = initproc)
                        ~> state[c] = "UNUSED"

=============================================================================
