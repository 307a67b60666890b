------------------------------- MODULE Memory -------------------------------
(* Physical pages and address spaces: kalloc.c, vm.c, and the calls that    *)
(* allocate from them, sbrk(), fork(), clone(), exec() and wait().  kmem.lock *)
(* is held for one page only, so the processes compete for the free list    *)
(* page by page, and any kalloc() may be the one that fails.  What pages    *)
(* hold is left out.  Addresses are unsigned and wrap at UINT.              *)
EXTENDS Integers, Sequences, FiniteSets, FiniteSetsExt

CONSTANTS NPROC,       \* processes; 1 is the first one
          NFRAMES,     \* pages kinit1() and kinit2() put on the free list
          PGSIZE, NPTENTRIES, KERNBASE, UINT,
          Incs,        \* arguments of sbrk()
          Programs,    \* the ends of the segments of the programs exec() loads
          Args,        \* bytes exec() pushes on the stack
          WORD,        \* bytes of an argument of a system call
          Ptrs,        \* user addresses in registers and arguments
          MaxCalls     \* bound: calls in a behaviour

ASSUME MemoryAssumption ==
    /\ NPROC \in Nat \ {0} /\ NFRAMES \in Nat /\ NFRAMES >= 5 /\ MaxCalls \in Nat
    /\ PGSIZE \in Nat \ {0} /\ NPTENTRIES \in Nat \ {0}
    /\ KERNBASE \in Nat /\ KERNBASE > PGSIZE /\ KERNBASE % (PGSIZE * NPTENTRIES) = 0
    /\ UINT = 2 * KERNBASE                      \* KERNBASE is half of the 32-bit addresses
    /\ Incs \subseteq -KERNBASE..(KERNBASE - 1)  \* an int
    /\ Programs \subseteq Seq(Nat) /\ Args \subseteq Nat
    /\ WORD \in Nat \ {0} /\ WORD <= KERNBASE /\ Ptrs \subseteq 0..(UINT - 1)

VARIABLES freelist,   \* kmem.freelist
          space,      \* what a page directory maps, by its number
          st,         \* state of a process: unused, run, zombie
          pgdir,      \* p->pgdir, as the number of the directory; 0 for none
          sz, kstack, \* p->sz, p->kstack
          op,         \* the call a process is in
          shared,     \* page directories that clone() ever shared
          isthread,   \* slots with p->isthread, which nothing clears again
          dangling,   \* page directories freed while another process has them
          lost,       \* pages nobody has a pointer to
          calls,      \* calls made, for the bound
          panicked    \* the process in panic(), 0 for none

procs == <<st, pgdir, sz, kstack>>
vars == <<freelist, space, procs, op, shared, isthread, dangling, lost, calls, panicked>>

Proc == 1..NPROC
Frame == 1..NFRAMES
Page == 0..(KERNBASE \div PGSIZE - 1)
Table == 0..(KERNBASE \div (PGSIZE * NPTENTRIES) - 1)

(* An address space: the page directory, the page tables of the kernel part *)
(* (one stands for all), those of the user part, the user pages, and those  *)
(* of them with PTE_U.                                                      *)
NoSpace == [dir |-> 0, kern |-> 0, pt |-> [t \in Table |-> 0], pte |-> [g \in Page |-> 0], user |-> {}]

User == [call |-> "none", at |-> "user", a |-> 0, lim |-> 0, mem |-> 0, new |-> NoSpace, kid |-> 0, segs |-> <<>>]

PGROUNDUP(n) == ((n + PGSIZE - 1) \div PGSIZE) * PGSIZE
PGOF(a) == a \div PGSIZE

(* kalloc(): which page it is does not matter, only that it was free. *)
Kalloc == Min(freelist)

(* The entries of an address space that refer to a page, and what is there. *)
Slot == {<<"dir", 0>>, <<"kern", 0>>} \cup {<<"pt", t>> : t \in Table} \cup {<<"pte", g>> : g \in Page}

Cell(sp, s) == CASE s[1] = "dir" -> sp.dir
                 [] s[1] = "kern" -> sp.kern
                 [] s[1] = "pt" -> sp.pt[s[2]]
                 [] s[1] = "pte" -> sp.pte[s[2]]

Used(sp) == {Cell(sp, s) : s \in Slot} \ {0}

-----------------------------------------------------------------------------
(* deallocuvm() *)

(* Variant with a bug: the last page stays if newsz is inside it. *)
DroppedPartial(sp, oldsz, newsz) == {g \in Page : g * PGSIZE > newsz + PGSIZE /\ g * PGSIZE < oldsz /\ sp.pte[g] # 0}

(* The pages it frees; a table that is not there has none. *)
Dropped(sp, oldsz, newsz) == {g \in Page : g * PGSIZE >= newsz /\ g * PGSIZE < oldsz /\ sp.pte[g] # 0}

Deallocuvm(sp, oldsz, newsz) ==
    [sp EXCEPT !.pte = [g \in Page |-> IF g \in Dropped(sp, oldsz, newsz) THEN 0 ELSE sp.pte[g]]]

Freed(sp, oldsz, newsz) == {sp.pte[g] : g \in Dropped(sp, oldsz, newsz)}

(* freevm(): every user page, every table, the directory. *)
Freevm(sp) == Used(sp)

-----------------------------------------------------------------------------
(* What kinit1() and kinit2() put on the free list: the whole pages of a    *)
(* range of memory.                                                         *)
Freerange(vstart, vend) == {f \in Frame : (f - 1) * PGSIZE >= vstart /\ f * PGSIZE <= vend}

(* The first process, as userinit() and inituvm() leave it; its pages are   *)
(* no longer free.                                                          *)
Init ==
    /\ space = [p \in Proc |->
                  IF p # 1 THEN NoSpace
                  ELSE [dir |-> 1, kern |-> 2, pt |-> [t \in Table |-> IF t = 0 THEN 3 ELSE 0],
                        pte |-> [g \in Page |-> IF g = 0 THEN 4 ELSE 0], user |-> {0}]]
    /\ st = [p \in Proc |-> IF p = 1 THEN "run" ELSE "unused"]
    /\ pgdir = [p \in Proc |-> IF p = 1 THEN 1 ELSE 0]
    /\ sz = [p \in Proc |-> IF p = 1 THEN PGSIZE ELSE 0]
    /\ kstack = [p \in Proc |-> IF p = 1 THEN 5 ELSE 0]
    /\ freelist = Freerange(0, NFRAMES * PGSIZE) \ (1..5)
    /\ op = [p \in Proc |-> User]
    /\ shared = {} /\ isthread = {} /\ dangling = {} /\ lost = {}
    /\ calls = 0 /\ panicked = 0

(* The process runs in user mode, and its code is there. *)
CanCall(p) == st[p] = "run" /\ op[p].at = "user" /\ space[pgdir[p]].pte[0] # 0

Begin(p) == /\ CanCall(p) /\ calls < MaxCalls
            /\ calls' = calls + 1

-----------------------------------------------------------------------------
(* The arguments of a system call: whether the call goes on.  esp is the    *)
(* saved stack pointer, i the argument, size the length the call needs, and *)
(* nul where the next zero byte is.                                         *)

Fetchint(p, addr) == addr < sz[p] /\ (addr + WORD) % UINT <= sz[p]

Argint(p, esp, n) == Fetchint(p, (esp + WORD + WORD * n) % UINT)

(* Variant with a bug: only the end of the block is compared. *)
ArgptrEnd(p, i, size) == size >= 0 /\ (i + size) % UINT <= sz[p]

Argptr(p, i, size) == /\ size >= 0
                      /\ i < sz[p]
                      /\ (i + size) % UINT <= sz[p]

Fetchstr(p, addr, nul) == addr < sz[p] /\ nul < sz[p]

Argstr(p, i, nul) == Fetchstr(p, i, nul)

-----------------------------------------------------------------------------
Goto(p, o) == op' = [op EXCEPT ![p] = o]

Alone(p) == \A q \in Proc \ {p} : st[q] # "unused" => pgdir[q] # pgdir[p]

Panic(p) == /\ panicked' = p
            /\ UNCHANGED <<freelist, space, procs, op, shared, isthread, dangling, lost, calls>>

-----------------------------------------------------------------------------
(* growproc() *)

Sum(m, n) == (m + n) % UINT

(* n > 0: allocuvm() refuses what the kernel uses, and goes page by page. *)
SbrkGrows(p, n) ==
    LET newsz == Sum(sz[p], n)
    IN  /\ n > 0 /\ Begin(p)
        /\ Goto(p, IF newsz >= KERNBASE THEN User
                   ELSE [User EXCEPT !.call = "sbrk", !.at = "page", !.a = PGROUNDUP(sz[p]), !.lim = newsz])
        /\ UNCHANGED <<freelist, space, procs, shared, isthread, dangling, lost, panicked>>

(* n < 0: deallocuvm().  A new size of 0 counts as failure, after the pages *)
(* are gone.                                                                *)
SbrkShrinks(p, n) ==
    LET newsz == Sum(sz[p], n)
        sp == space[pgdir[p]]
    IN  /\ n < 0 /\ Begin(p)
        /\ \/ newsz >= sz[p] /\ UNCHANGED <<space, freelist, sz>>
           \/ /\ newsz < sz[p]
              /\ space' = [space EXCEPT ![pgdir[p]] = Deallocuvm(sp, sz[p], newsz)]
              /\ freelist' = freelist \cup Freed(sp, sz[p], newsz)
              /\ sz' = IF newsz = 0 THEN sz ELSE [sz EXCEPT ![p] = newsz]
        /\ UNCHANGED <<st, pgdir, kstack, op, shared, isthread, dangling, lost, panicked>>

-----------------------------------------------------------------------------
(* allocproc() for fork() and clone(): a kernel stack for the slot q. *)
Fork(p, q) ==
    /\ Begin(p) /\ st[q] = "unused" /\ freelist # {}
    /\ kstack' = [kstack EXCEPT ![q] = Kalloc]
    /\ freelist' = freelist \ {Kalloc}
    /\ st' = [st EXCEPT ![q] = "embryo"]
    /\ Goto(p, [User EXCEPT !.call = "fork", !.at = "dir", !.lim = sz[p], !.kid = q])
    /\ UNCHANGED <<space, pgdir, sz, shared, isthread, dangling, lost, panicked>>

(* A thread has the directory of its maker, and a size of its own. *)
Clone(p, q) ==
    /\ Begin(p) /\ st[q] = "unused" /\ freelist # {}
    /\ kstack' = [kstack EXCEPT ![q] = Kalloc]
    /\ freelist' = freelist \ {Kalloc}
    /\ st' = [st EXCEPT ![q] = "run"]
    /\ pgdir' = [pgdir EXCEPT ![q] = pgdir[p]]
    /\ sz' = [sz EXCEPT ![q] = sz[p]]
    /\ shared' = shared \cup {pgdir[p]}
    /\ isthread' = isthread \cup {q}
    /\ UNCHANGED <<space, op, dangling, lost, panicked>>

(* exec() of a program, by a process or by a thread. *)
Exec(p, prog) ==
    /\ Begin(p)
    /\ Goto(p, [User EXCEPT !.call = "exec", !.at = "dir", !.segs = prog])
    /\ UNCHANGED <<freelist, space, procs, shared, isthread, dangling, lost, panicked>>

-----------------------------------------------------------------------------
(* How a call ends when a page is missing; mem is the page it holds.        *)

(* allocuvm() undoes its pages. *)
SbrkFails(p) ==
    LET sp == space[pgdir[p]]
    IN  /\ space' = [space EXCEPT ![pgdir[p]] = Deallocuvm(sp, op[p].lim, sz[p])]
        /\ freelist' = freelist \cup Freed(sp, op[p].lim, sz[p]) \cup ({op[p].mem} \ {0})
        /\ UNCHANGED <<procs, lost>>

(* Variant with a bug: the kernel stack of the child stays. *)
ForkFailsKeepsStack(p) ==
    /\ freelist' = freelist \cup Freevm(op[p].new)
    /\ lost' = lost \cup ({op[p].mem} \ {0})
    /\ kstack' = [kstack EXCEPT ![op[p].kid] = 0]
    /\ st' = [st EXCEPT ![op[p].kid] = "unused"]
    /\ UNCHANGED <<space, pgdir, sz>>

(* copyuvm() frees the new space but forgets mem; fork() frees the stack. *)
ForkFails(p) ==
    /\ freelist' = freelist \cup Freevm(op[p].new) \cup {kstack[op[p].kid]}
    /\ lost' = lost \cup ({op[p].mem} \ {0})
    /\ kstack' = [kstack EXCEPT ![op[p].kid] = 0]
    /\ st' = [st EXCEPT ![op[p].kid] = "unused"]
    /\ UNCHANGED <<space, pgdir, sz>>

(* exec() goes to bad. *)
ExecFails(p) ==
    /\ freelist' = freelist \cup Freevm(op[p].new) \cup ({op[p].mem} \ {0})
    /\ UNCHANGED <<space, procs, lost>>

Fail(p) == /\ CASE op[p].call = "sbrk" -> SbrkFails(p)
                [] op[p].call = "fork" -> ForkFails(p)
                [] op[p].call = "exec" -> ExecFails(p)
           /\ Goto(p, User)
           /\ UNCHANGED <<shared, isthread, dangling, calls, panicked>>

(* setupkvm(): the directory, then the tables of the kernel part. *)
Setupkvm(p) ==
    /\ op[p].at \in {"dir", "kern"}
    /\ IF freelist = {} THEN Fail(p)
       ELSE /\ freelist' = freelist \ {Kalloc}
            /\ Goto(p, IF op[p].at = "dir" THEN [op[p] EXCEPT !.new.dir = Kalloc, !.at = "kern"]
                       ELSE [op[p] EXCEPT !.new.kern = Kalloc,
                                          !.at = IF op[p].call = "fork" THEN "page" ELSE "segment"])
            /\ UNCHANGED <<space, procs, shared, isthread, dangling, lost, calls, panicked>>

-----------------------------------------------------------------------------
(* The loops of allocuvm() and copyuvm() *)

(* The space the call works on, and a step that makes it sp. *)
Sp(p) == IF op[p].call = "sbrk" THEN space[pgdir[p]] ELSE op[p].new
With(p, sp, o) == IF o.call = "sbrk" THEN /\ space' = [space EXCEPT ![pgdir[p]] = sp]
                                          /\ Goto(p, o)
                  ELSE /\ Goto(p, [o EXCEPT !.new = sp])
                       /\ UNCHANGED space

(* kalloc() of the next page.  copyuvm() insists on the page it copies. *)
AllocPage(p) ==
    LET o == op[p]
    IN  /\ o.at = "page" /\ o.a < o.lim
        /\ IF o.call = "fork" /\ space[pgdir[p]].pte[PGOF(o.a)] = 0 THEN Panic(p)
           ELSE IF freelist = {} THEN Fail(p)
           ELSE /\ freelist' = freelist \ {Kalloc}
                /\ Goto(p, [o EXCEPT !.mem = Kalloc, !.at = "map"])
                /\ UNCHANGED <<space, procs, shared, isthread, dangling, lost, calls, panicked>>

(* Variant with a bug: copyuvm() gives all pages PTE_U. *)
PermAll(p, g) == TRUE

(* The permission of a page: PTE_U, or that of the page copied. *)
Perm(p, g) == op[p].call = "fork" => g \in space[pgdir[p]].user

(* mappages(), with the table walkpgdir() may have to add. *)
MapPage(p) ==
    LET o == op[p]
        g == PGOF(o.a)
        t == g \div NPTENTRIES
        noTable == Sp(p).pt[t] = 0
        sp == [Sp(p) EXCEPT !.pte[g] = o.mem, !.pt[t] = IF noTable THEN Kalloc ELSE @,
                            !.user = IF Perm(p, g) THEN @ \cup {g} ELSE @ \ {g}]
    IN  /\ o.at = "map"
        /\ IF noTable /\ freelist = {} THEN Fail(p)
           ELSE IF Sp(p).pte[g] # 0 THEN Panic(p)
           ELSE /\ freelist' = IF noTable THEN freelist \ {Kalloc} ELSE freelist
                /\ With(p, sp, [o EXCEPT !.a = @ + PGSIZE, !.mem = 0, !.at = "page"])
                /\ UNCHANGED <<procs, shared, isthread, dangling, lost, calls, panicked>>

Looped(p, call) == op[p].call = call /\ op[p].at = "page" /\ op[p].a >= op[p].lim

SbrkDone(p) == /\ Looped(p, "sbrk")
               /\ sz' = [sz EXCEPT ![p] = op[p].lim]
               /\ Goto(p, User)
               /\ UNCHANGED <<freelist, space, st, pgdir, kstack, shared, isthread, dangling, lost, calls, panicked>>

(* A number for a new page directory: one that no process has. *)
Unclaimed(d) == \A r \in Proc : pgdir[r] # d
Fresh(d) == Unclaimed(d) /\ \A e \in Proc : Unclaimed(e) => d <= e

ForkDone(p) == LET q == op[p].kid
               IN  /\ Looped(p, "fork")
                   /\ \E d \in Proc : /\ Fresh(d)
                                      /\ space' = [space EXCEPT ![d] = op[p].new]
                                      /\ pgdir' = [pgdir EXCEPT ![q] = d]
                                      /\ shared' = shared \ {d}
                   /\ sz' = [sz EXCEPT ![q] = sz[p]]
                   /\ st' = [st EXCEPT ![q] = "run"]
                   /\ Goto(p, User)
                   /\ UNCHANGED <<freelist, kstack, isthread, dangling, lost, calls, panicked>>

-----------------------------------------------------------------------------
(* exec() at the head of its loop: the segment before it is loaded. *)
AtSegment(p) == op[p].at = "segment" \/ (Looped(p, "exec") /\ op[p].segs # <<-1>>)

(* A header or segment is bad, or a readi() of loaduvm() fails. *)
ExecBad(p) == /\ AtSegment(p)
              /\ ExecFails(p) /\ Goto(p, User)
              /\ UNCHANGED <<shared, isthread, dangling, calls, panicked>>

(* The next allocuvm(): up to the end of a segment, or, after the last, of  *)
(* two pages for the stack.                                                 *)
ExecSegment(p) ==
    LET o == op[p]
        newsz == IF o.segs = <<>> THEN PGROUNDUP(o.lim) + 2 * PGSIZE ELSE Head(o.segs)
    IN  /\ AtSegment(p)
        /\ \/ newsz >= KERNBASE /\ ExecFails(p) /\ Goto(p, User)
           \/ /\ newsz < KERNBASE
              /\ Goto(p, [o EXCEPT !.at = "page", !.a = PGROUNDUP(o.lim),
                                   !.segs = IF o.segs = <<>> THEN <<-1>> ELSE Tail(@),
                                   !.lim = IF newsz < o.lim THEN @ ELSE newsz])
              /\ UNCHANGED <<freelist, space, procs, lost>>
        /\ UNCHANGED <<shared, isthread, dangling, calls, panicked>>

(* copyout() of n bytes below the top: every page must have PTE_U. *)
Copyout(sp, top, n) == \A g \in PGOF(top - n)..PGOF(top - 1) : sp.pte[g] # 0 /\ g \in sp.user

Clearpteu(sp, a) == [sp EXCEPT !.user = @ \ {PGOF(a)}]

(* The change of image: the old directory is freed, whoever else has it. *)
Commit(p, sp) ==
    /\ freelist' = freelist \cup Freevm(space[pgdir[p]])
    /\ sz' = [sz EXCEPT ![p] = op[p].lim]
    /\ \/ /\ Alone(p)
          /\ space' = [space EXCEPT ![pgdir[p]] = sp]
          /\ shared' = shared \ {pgdir[p]}
          /\ UNCHANGED <<pgdir, dangling>>
       \/ /\ ~Alone(p)
          /\ \E d \in Proc : /\ Fresh(d)
                             /\ space' = [space EXCEPT ![d] = sp]
                             /\ pgdir' = [pgdir EXCEPT ![p] = d]
                             /\ shared' = shared \ {d}
          /\ dangling' = dangling \cup {pgdir[p]}
    /\ UNCHANGED <<st, kstack, isthread, lost>>

(* clearpteu() of the lower page, the arguments, and the change of image. *)
ExecCommit(p, n) ==
    LET o == op[p]
        sp == Clearpteu(o.new, o.lim - 2 * PGSIZE)
    IN  /\ Looped(p, "exec") /\ o.segs = <<-1>> /\ n <= o.lim
        /\ \/ Copyout(sp, o.lim, n) /\ Commit(p, sp)
           \/ ~Copyout(sp, o.lim, n) /\ ExecFails(p) /\ UNCHANGED <<shared, isthread, dangling>>
        /\ Goto(p, User)
        /\ UNCHANGED <<calls, panicked>>

-----------------------------------------------------------------------------
(* A process or a thread exits, or its code is gone and the page fault      *)
(* kills it; those that share its address space run on.                     *)
Exit(p) == /\ st[p] = "run" /\ op[p].at = "user" /\ p # 1
           /\ st' = [st EXCEPT ![p] = "zombie"]
           /\ UNCHANGED <<freelist, space, pgdir, sz, kstack, op, shared, isthread, dangling, lost, calls, panicked>>

(* What wait() and join() clear in the slot of a zombie. *)
Clear(p) == /\ st[p] = "zombie"
            /\ st' = [st EXCEPT ![p] = "unused"]
            /\ pgdir' = [pgdir EXCEPT ![p] = 0]
            /\ sz' = [sz EXCEPT ![p] = 0]
            /\ kstack' = [kstack EXCEPT ![p] = 0]

(* wait() and wait2() free the stack and the address space of any child,    *)
(* whether it is a thread or not and whoever else has the space.            *)
Wait(p) ==
    /\ Clear(p)
    /\ freelist' = freelist \cup {kstack[p]} \cup Freevm(space[pgdir[p]])
    /\ \/ Alone(p) /\ space' = [space EXCEPT ![pgdir[p]] = NoSpace] /\ UNCHANGED dangling
       \/ ~Alone(p) /\ dangling' = dangling \cup {pgdir[p]} /\ UNCHANGED space
    /\ UNCHANGED <<op, shared, isthread, lost, calls, panicked>>

(* join() takes what clone() made, or any process in a slot that clone()    *)
(* once used, and frees the stack: the last to have a space loses it.       *)
Join(p) ==
    /\ Clear(p) /\ p \in isthread
    /\ freelist' = freelist \cup {kstack[p]}
    /\ \/ /\ Alone(p)
          /\ lost' = lost \cup Used(space[pgdir[p]])
          /\ space' = [space EXCEPT ![pgdir[p]] = NoSpace]
       \/ ~Alone(p) /\ UNCHANGED <<lost, space>>
    /\ UNCHANGED <<op, shared, isthread, dangling, calls, panicked>>

(* A processor that walks freed page tables does anything: nothing is said  *)
(* of what follows.                                                         *)
Next == /\ panicked = 0 /\ dangling = {}
        /\ \E p \in Proc :
             \/ \E n \in Incs : SbrkGrows(p, n) \/ SbrkShrinks(p, n)
             \/ \E q \in Proc : Fork(p, q) \/ Clone(p, q)
             \/ \E prog \in Programs : Exec(p, prog)
             \/ Setupkvm(p) \/ AllocPage(p) \/ MapPage(p) \/ SbrkDone(p) \/ ForkDone(p)
             \/ ExecBad(p) \/ ExecSegment(p) \/ \E n \in Args : ExecCommit(p, n)
             \/ Exit(p) \/ Wait(p) \/ Join(p)

Spec == Init /\ [][Next]_vars

-----------------------------------------------------------------------------
(* Properties *)

Spaces == [dir : Frame \cup {0}, kern : Frame \cup {0}, pt : [Table -> Frame \cup {0}],
           pte : [Page -> Frame \cup {0}], user : SUBSET Page]

Ops == [call : {"none", "sbrk", "fork", "exec"}, at : {"user", "dir", "kern", "segment", "page", "map"},
        a : Nat, lim : 0..(KERNBASE - 1), mem : Frame \cup {0}, new : Spaces, kid : Proc \cup {0},
        segs : Seq(Nat) \cup {<<-1>>}]

TypeOK ==
    /\ freelist \subseteq Frame /\ lost \subseteq Frame
    /\ space \in [Proc -> Spaces] /\ op \in [Proc -> Ops]
    /\ st \in [Proc -> {"unused", "embryo", "run", "zombie"}]
    /\ pgdir \in [Proc -> Proc \cup {0}]
    /\ sz \in [Proc -> 0..(KERNBASE - 1)]
    /\ kstack \in [Proc -> Frame \cup {0}]
    /\ shared \subseteq Proc /\ isthread \subseteq Proc /\ dangling \subseteq Proc
    /\ calls \in Nat /\ panicked \in Proc \cup {0}

(* What may refer to a page: a kernel stack, a page that a call holds, an   *)
(* entry of an address space, or of one that is being made.                 *)
Place == {<<k, p, <<"none", 0>>>> : k \in {"stack", "mem"}, p \in Proc}
         \cup {<<k, p, s>> : k \in {"space", "new"}, p \in Proc, s \in Slot}

Holds(x) == CASE x[1] = "stack" -> kstack[x[2]]
              [] x[1] = "mem" -> op[x[2]].mem
              [] x[1] = "space" -> Cell(space[x[2]], x[3])
              [] x[1] = "new" -> Cell(op[x[2]].new, x[3])

(* A page of memory is in exactly one place, whichever kalloc() of whichever *)
(* call fails: no page is used twice, freed while in use, or forgotten,      *)
(* except by copyuvm() when mappages() fails and by join() of the last that  *)
(* has a space.  It ends where freevm() takes a directory that threads of    *)
(* clone() still have; NoDangling says that nothing else does.               *)
FramesOwned ==
    LET taken == {x \in Place : Holds(x) # 0}
    IN  dangling = {} =>
          /\ freelist \cap lost = {}
          /\ {Holds(x) : x \in taken} = Frame \ (freelist \cup lost)
          /\ \A x, y \in taken : Holds(x) = Holds(y) => x = y

(* The space of a process that no thread has ever shared. *)
Own(p) == pgdir[p] # 0 /\ pgdir[p] \notin shared

(* Who has which address space: a slot without a process has none, one that *)
(* nobody has is empty, and only clone() makes two processes have the same. *)
SpaceKept(p) ==
    /\ st[p] = "unused" <=> kstack[p] = 0
    /\ st[p] \in {"unused", "embryo"} <=> pgdir[p] = 0
    /\ Unclaimed(p) => space[p] = NoSpace
    /\ Own(p) => Alone(p)

(* What a call in progress has got so far. *)
CallKept(p) ==
    LET o == op[p]
    IN  /\ o.at = "user" => o = User
        /\ o.at # "user" => st[p] = "run" /\ o.call # "none"
        /\ o.at = "map" <=> o.mem # 0
        /\ o.at = "dir" => o.new.dir = 0
        /\ o.at \in {"dir", "kern"} => o.new.kern = 0 /\ o.call # "sbrk" /\ o.a = 0
        /\ o.at \in {"dir", "kern"} /\ o.call = "exec" => o.lim = 0
        /\ o.at = "segment" => o.call = "exec" /\ o.a = 0 /\ o.lim = 0
        /\ o.segs = <<-1>> => o.at \in {"page", "map"}
        /\ o.call = "sbrk" => o.new = NoSpace
        /\ o.call = "fork" => o.kid \in Proc /\ st[o.kid] = "embryo" /\ o.lim = sz[p]

(* No two calls of fork() have the same child. *)
KidsDiffer == \A p, q \in Proc : op[p].call = "fork" /\ op[q].call = "fork" /\ op[p].kid = op[q].kid => p = q

Aligned(n) == n % PGSIZE = 0

(* A space has the pages below n, and no others. *)
Mapped(sp, n) == \A g \in Page : sp.pte[g] # 0 <=> g * PGSIZE < n

(* Two spaces have PTE_U on the same pages below n. *)
SameUser(sp1, sp2, n) == \A g \in Page : g * PGSIZE < n => (g \in sp1.user <=> g \in sp2.user)

(* How far the loops of allocuvm() and copyuvm() are: the pages below a are *)
(* there, in the new space or, for sbrk(), in that of the process.  Threads *)
(* have sizes of their own, and nothing is said of the spaces they share.   *)
LoopKept(p) ==
    LET o == op[p]
    IN  /\ Aligned(o.a)
        /\ o.at # "user" => o.a < o.lim + PGSIZE
        /\ o.at = "map" => o.a < o.lim
        /\ o.call = "sbrk" => o.a >= sz[p]
        /\ o.call \in {"fork", "exec"} => Mapped(o.new, o.a)
        /\ Own(p) /\ o.call = "sbrk" => Mapped(space[pgdir[p]], o.a)
        /\ Own(p) /\ o.call \in {"fork", "exec"} => Mapped(space[pgdir[p]], sz[p])
        /\ Own(p) /\ o.call = "fork" => SameUser(o.new, space[pgdir[p]], o.a)

(* Below its size a process has every page, above it none, after any        *)
(* sequence of calls that succeed or fail; a process whose code is gone     *)
(* (sbrk() of minus its size) only gets to exit.                            *)
ImageMapped(p) == CanCall(p) /\ pgdir[p] \notin shared => Mapped(space[pgdir[p]], sz[p])

(* The bytes from a to before b are on pages the process has. *)
Backed(p, a, b) == \A x \in a..(b - 1) : PGOF(x) \in Page /\ space[pgdir[p]].pte[PGOF(x)] # 0

(* The kernel follows a user pointer without looking at the page tables: an *)
(* address a system call accepts, for a word, for a block or for a string,  *)
(* must be backed to its last byte, or the kernel itself faults.  The       *)
(* checks only know p->sz, which failed and shrinking calls change too.     *)
ArgsMapped ==
    \A p \in Proc : CanCall(p) /\ pgdir[p] \notin shared /\ dangling = {} =>
        \A i \in Ptrs :
          /\ \A n \in 0..1 : LET a == (i + WORD + WORD * n) % UINT IN Argint(p, i, n) => Backed(p, a, a + WORD)
          /\ \A size \in Incs : Argptr(p, i, size) => Backed(p, i, i + size)
          /\ \A nul \in Ptrs : nul >= i /\ Argstr(p, i, nul) => Backed(p, i, nul + 1)

(* A child starts with the image its parent has: the same size and pages,   *)
(* and PTE_U on the same ones, so that the page exec() left without it      *)
(* below the stack guards the child too.                                    *)
ChildCopies ==
    [][\A p, q \in Proc :
         Looped(p, "fork") /\ op[p].kid = q /\ st'[q] = "run" /\ pgdir[p] \notin shared
            => LET mine == space[pgdir[p]] IN LET its == space'[pgdir'[q]]
               IN  /\ sz'[q] = sz[p]
                   /\ \A g \in Page : /\ mine.pte[g] = 0 <=> its.pte[g] = 0
                                      /\ mine.pte[g] # 0 => (g \in mine.user <=> g \in its.user)]_vars

(* panic("remap"), panic("copyuvm: page not present"): only where threads   *)
(* shared the space and one of them has changed it.                         *)
NoPanic == panicked # 0 => pgdir[panicked] \in shared

(* freevm() takes a page directory that another process still has only if   *)
(* clone() shared it: fork(), exec() and wait() alone never do.             *)
NoDangling == dangling \subseteq shared

(* growproc(), fork() and exec() keep page table and size of a process in   *)
(* step, at every page of their loops and after every failure, so that      *)
(* neither mappages() nor copyuvm() meets a page it does not expect; and    *)
(* without clone() no page directory is freed while it is in use.           *)
ImageInv == /\ TypeOK /\ NoDangling
            /\ dangling = {} =>
                 /\ KidsDiffer /\ NoPanic
                 /\ \A p \in Proc : SpaceKept(p) /\ CallKept(p) /\ LoopKept(p) /\ ImageMapped(p)
=============================================================================
