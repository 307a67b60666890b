# A TLA+ model of the OS-EX kernel

OS-EX (`src/code/`) is a course fork of xv6 for x86: a multiprocessor Unix
kernel in C with a logging file system, extended with semaphores, threads
(`clone`/`join`), run-time statistics, replaceable scheduling policies and a
second shell. This directory holds TLA+ modules that model its concurrency, its
behaviour when something fails, and its crash recovery, TLC configurations that
check them on small instances, and TLAPS proofs of some of the results. Every
definition that models code is mapped to its lines in `PROJECT.json` ("map").

## The system: inventory

| component | state | operations | hard behaviour | what makes it correct |
|---|---|---|---|---|
| spinlocks (`spinlock.c`) | holder, per-CPU `ncli` | acquire, release, pushcli, popcli | interrupts while spinning | exclusion, interrupts off while held |
| sleep/wakeup (`proc.c`) | `p->state`, `p->chan`, `ptable.lock` | sleep, wakeup, sched, yield, scheduler | wake-up between unlock and sleep | no lost wakeup, only `ptable.lock` across a switch |
| sleep locks (`sleeplock.c`) | `locked`, `pid` | acquiresleep, releasesleep | barging, kills of sleepers | mutual exclusion, progress |
| process table (`proc.c`) | slots: state, pid, parent, killed, pgdir | allocproc, fork, exit, wait, kill | exit racing wait, failing forks, slot reuse | unique pids, live parents, zombies reaped |
| threads (`proc.c`) | `isthread`, shared `pgdir` | clone, join | sharing without reference counts | an address space outlives its users |
| semaphores (`proc.c`) | `value`, `active`, `sem_held` | sem_init, sem_destroy, sem_wait, sem_signal, exit | destroy under waiters, negative counts, wrap | no stuck waiter, units conserved |
| log (`log.c`) | header in memory and on disk, `outstanding`, `committing` | begin_op, log_write, end_op, commit, recovery | crash anywhere, group commit, full log | atomicity, durability, reservation |
| buffer cache (`bio.c`) | LRU list, `refcnt`, `B_VALID`, `B_DIRTY` | bget, bread, bwrite, brelse | recycling, two users of a block | one buffer per block, dirty buffers pinned |
| disk drivers (`ide.c`, `memide.c`) | `idequeue`, flags | iderw, ideintr | interrupt against callers, failed reads | requests complete once, in order |
| file system (`fs.c`, `mkfs.c`) | bitmap, inodes, inode cache, directories | balloc, iget, ilock, iput, bmap, namex, ... | iput against lookup, lock order, indirect blocks | reference and link counts, one owner per block |
| files (`file.c`, `sysfile.c`) | file table, `ref`, descriptors | filealloc, filedup, fileclose, open, link, unlink, ... | close against dup, calls failing half-way | reference counts |
| pipes (`pipe.c`) | ring, `nread`, `nwrite`, open ends | pipewrite, piperead, pipeclose | blocking both ways, close | bounded FIFO, nobody stuck |
| console (`console.c`, `kbd.c`, `uart.c`) | input ring `r`, `w`, `e`; `shift` | consoleintr, consoleread, kbdgetc | interrupt against reader, wrap | lines delivered once, in order |
| memory (`kalloc.c`, `vm.c`, `exec.c`) | free list, page tables, `sz` | kalloc, kfree, allocuvm, copyuvm, freevm, exec | any allocation fails | a page has one owner, `sz` says what is mapped |
| traps (`trap.c`, `syscall.c`, `sysproc.c`) | `ticks`, `killed` | trap, sys_sleep, argument checks | kill, clock wrap, user pointers | killed processes leave, sleeps end |
| shells (`sh.c`, `lsh.c`, `init.c`) | command tree, descriptors, children | parse, runcmd, lsh_execute | failing forks and pipes, pipe ends left open | every program has its descriptors, the prompt returns |
| scheduler policies (`proc.c`) | policy table | setscheduler | index at the limit | see "Not modelled" |

The components interact through calls under spinlocks (`ptable.lock`,
`log.lock`, `bcache.lock`, `icache.lock`, `ftable.lock`, ...), through
sleep/wakeup on channels, and through the shared buffer cache and page pool.
What a test hardly reaches is listed with its line under "hazards" in
`PROJECT.json`.

## Modules

How they fit together. SleepLock justifies what every other module takes for
granted: sleep() under a spinlock is one step with respect to wakeup(), and a
sleep lock is a holder. BufCache justifies that Log may see the disk as blocks,
and Log that a file system call is atomic on the disk, which Fs uses. Console
is composed with the clock and the traps in Trap, Pipe with descriptors and
files in FileTable. Where a component makes a promise, there is an abstract
module for it, and the detailed one is shown to implement it:

| abstract | detailed | refinement |
|---|---|---|
| LockService: an owner, processes that wait | SleepLock | `ImplementsLock` |
| AtomicDisk: whole commits, a crash goes back to the last one | Log | `CrashAtomic` |
| BlockStore: blocks with an owner each | BufCache | `ImplementsStore` |
| PipeService: bounded queues of bytes | FileTable (Pipe) | `ImplementsFifo` |
| TtyService: a line being edited and lines ready to read | Trap (Console) | `ImplementsTty` |

**SleepLock** models one sleep lock and the sleep/wakeup protocol under it, at
the granularity of the two spinlocks `lk->lk` (`spin`) and `ptable.lock`
(`ptlock`). `pc[p]` is the position of process `p` in `acquiresleep()` or
`releasesleep()`; the sets `HoldsSpin` and `HoldsPt` say which positions own
which spinlock. `Pushcli` is the start of `acquire()` (interrupts go off) and
`Xchg` its end. `SleepAcquire`, `SleepRelease`, `SleepSched`, `Resume`,
`SleepTidy` are `sleep()` in order; `Unlock`, `Wakeup`, `ReleaseSpin` are
`releasesleep()`. `Yield` and `Dispatch` are the clock tick and the scheduler's
choice, `Kill` is the spurious wake-up by `kill()`. At most `NCPU` processes
are RUNNING.

**Log** models `log.c` and the part of `bio.c` it depends on. `disk`,
`logdata`, `dhead` survive a crash, everything else is lost. A call goes
through `BeginOp` (or sleeps), then any number of updates `Modify` (bread,
change the data), `LogCheck` (the unlocked tests of `log_write()`),
`LogAppend` (its locked part), and `EndOp`. The last `end_op()` runs `commit()`
as the phases `write_log`, `write_head`, `install`, `clear`, `end`, one disk
write per step. `Crash` may happen at any step and recovery (`ReadHead`, then
the same `InstallTrans` and `ClearHead`) may crash again. `Evict` recycles
clean buffers. A call may log any number of blocks (`OpBlocks` only bounds the
instance), also more than the `MAXOPBLOCKS` that `begin_op()` reserved for it;
the history variable `over` says that some call of the transaction used up its
reservation. A panic in `log_write()` stops one CPU; the call stays in `"panic"`
with its buffer locked. When the header has more entries than the array or the
log area (`Fits`), what the code overwrites is outside the model: nothing but a
crash happens after it.

**BufCache** models `bio.c` over the driver. `Bget` is the section under
`bcache.lock` (`Hit` or `Recycle`, from the end of the list), `Bread` takes the
buffer's lock, `Bwrite` and `LogWrite` set B_DIRTY, `BrelseUnlock` and `Brelse`
are the two halves of `brelse()`. `Iderw` puts a request on `idequeue`, `cmd` is
what the drive works on, `Ideintr` completes the head and starts the next one; a
read may fail, in which case the buffer becomes valid with what it had (`bad`
remembers the block). `memdisk` selects `memide.c`. A process has two hands
(`Hand`), because the code holds a second buffer where it copies to or from the
log and where it looks up an indirect block; `Nested` says of which blocks the
second is read while the first is held. When no buffer can be recycled `Bget`
panics, and the kernel stops (`panicked`, `Halted`).

**Fs** models `fs.c`, the calls of `sysfile.c` on paths and the inode files of
`file.c`. `dino`, `ents`, `ind`, `used` are the disk: inodes, directories,
indirect blocks, bitmap. `ic` is the inode cache, `k[p]` the call process `p`
is in: where it stands (`at`), what is left of its path, the inodes it points
to (`dp`, `ip`), and the inodes it still has to `iput()` (`put`), after which it
goes on at `ret`. A step lasts from one point where the call can meet another
process to the next: `WalkStep` is one round of `namex()`; `PutCheck` and
`PutDrop` are the two halves of `iput()`; `CreateFinds`/`Exists`,
`CreateNew`/`Created`, `UnlinkFinds`/`UnlinkErases`/`Unlinked`,
`LinkCounts`/`LinkEnters`/`LinkBad` are the parts of the calls between taking
and giving up locks. The initial states are images as `mkfs.c` writes them
(`Mkfs`, with its own allocation of inodes and blocks) and images earlier calls
leave, one of them with a removed directory that is somebody's current
directory. A file is measured in blocks and a directory has one. A write goes in
chunks of `CHUNK` blocks, a transaction each, as in `filewrite()` (13 blocks in
the code); `Writei` refuses a chunk that would pass MAXFILE as a whole. A panic
is recorded with the process it stops; `iget: no inodes` is one wherever the
code calls `iget()`. The cache has one of `CacheSizes` entries (NINODE in the
code), chosen at the start. `up` in `k[p]` remembers that the inode the process
stands at was reached through the `..` of a directory without links.

**Semaphore** models one entry of `sema[]`: every call is one action because
it runs under `sema[sem].lock`. Ints wrap at `HALF`. `sem_wait()` is modelled
as written: it subtracts `count`, adds it back, and reduces `sem_held`.
`orphan` is a history variable: the semaphore was destroyed while the process
slept. A slot that is allocated again may have `killed` set, left there by a
`kill()` of the free slot. **SemTest** is `sem_test.c` running on it.

**ProcTable** models `ptable.proc[]`. `AllocProc`, `AllocFails`, `ForkCopy`,
`CloneShare`, `Publish` are the steps of `fork()` and `clone()`; `Exit`,
`WaitReap`/`WaitSleep` (also as `Wait2`), `JoinReap`/`JoinSleep`, `Kill` are the
sections under `ptable.lock`; `Exec` swaps the address space. `spaces` is the
set of allocated page directories, `badfree` records a `freevm()` of one that is
not allocated. RUNNING and RUNNABLE are one state. `Threads` says whether
programs use `clone()`.

**Memory** models `kalloc.c`, `vm.c`, `growproc()`, `exec()`'s use of pages and
the argument checks of `syscall.c`. A space is a page directory, the page tables
of the kernel part (one stands for all), those of the user part, the user pages
and those of them with PTE_U. `Setupkvm`, `AllocPage` and `MapPage` each take at
most one page from the free list, since `kmem.lock` is released in between, and
each may be the one that fails (`Fail`). `lost` holds pages nobody points to any
more. Threads are treated as in the code: `exec()` and `exit()` do not look for
them, `wait()` calls `freevm()` for any zombie, and `join()` frees the stack
only. A page directory that is freed while another process has it goes to
`dangling`; from then on pages are in use and free at once, and the model stops
there. `join()` of the last process of a space loses its pages. `Slot` and
`Cell` are the entries of a space that refer to a page, `Holds` what is in any
place that may refer to one. `Fetchint`, `Argint`, `Argptr`, `Fetchstr`,
`Argstr` are predicates: whether a call with these arguments goes on.

**Pipe** models `pipe.c`: `PipeWrite` and `PipeRead` run from the start of the
call or a wake-up to the return or the next sleep, which is what `p->lock`
makes atomic. `nread` and `nwrite` wrap at `UINT`; `Room` is the number of
increments until the test of `pipewrite()` finds the pipe full. A pipe is named
by its page; `Kfree` fills it with junk and `kalloc()` may hand it out again.
`cut` is a history variable (see below). **FileTable** composes it with
`file.c`, the descriptors of `sysfile.c` and what `fork()` and `exit()` do with
them. `held[p]` are the two local variables in which a call keeps files it has
allocated or is going to close, `ff[p]` is the copy `fileclose()` works on after
it released `ftable.lock`. A failing `pipe()` goes through the same `FileClose`
as `close()`, and `exit()` closes its descriptors by it, the lowest first.

**Console** models the input side of `console.c` with its two sources, the
serial line (`Uartintr`) and the keyboard (`Kbdintr`: a plain key, and the
right control key, whose codes come after 0xE0 in a separate interrupt).
**Trap** composes it with `trap()`: system calls, the clock and `sys_sleep()`,
user faults, `kill()` and the checks of `p->killed`. `slept` counts the ticks of
a sleep up to one turn of the clock. `job` says whether
programs read or sleep in a behaviour, because the two share no state.

**Shell** models both shells. The first half are functions: the recursive
descent parser of `sh.c` on tokens, the token loop of `lsh.c`, and `Written`,
how a user writes a command, against which both are checked. The second half
runs the command: `RunCmd` and `LshExecute` give the calls of each process of
the shell, one step each; `fork()`, `pipe()`, `open()` and `exec()` may fail,
each as its callers handle it; a program reads its input to the end if that is
a pipe. `init` starts lsh, starts it again when it ends (by its built-in `exit`
or a panic), and when its own `fork()` fails it exits, which stops the kernel
(`down`). A `sh` that lsh runs gives the terminal back to it. A line of more
words than the arrays `left` and `right` hold runs over from the one into the
other. The calls do what their callers expect; the kernel's side of them is in
ProcTable and FileTable. Words are only counted.

Definitions introduced by "Variant with a bug" are not part of the
specifications: each replaces one definition by a plausible mistake to make
sure that a property would notice it (`PROJECT.json`, "mutants").

## Runs

| run | instance | shows |
|---|---|---|
| `sleeplock` | 3 processes, 2 CPUs | exclusion, no lost wakeup, refinement of LockService, progress |
| `log` | 3 calls, 2 blocks and 2 values, or up to 4 blocks of which one call may log 3 | refinement of AtomicDisk across crashes, commits exclude calls, log, cache and disk agree, a panic or an overrun of the log needs a call that used up its reservation, no needless sleep, sleepers are woken |
| `buffers` | 2 processes with two hands, 3 blocks, 2 buffers, both drivers | refinement of BlockStore, one buffer per block, references counted, `bget()` panics only when all buffers are held or pinned, no forgotten request |
| `fs` | 2 processes, 2 calls of 13, 3 inodes, 5 blocks, 2 or 3 entries of the inode cache | inode references, write-through cache, sound tree, one owner per block, the panics and deadlocks that are left |
| `fs_leak` | as `fs` | **violated**: a removed file or directory is never freed |
| `semaphore` | 3 processes, counts -1 and 1, ints -2..1 | no stuck waiter, waiters are served |
| `sem_test` | 2 children, 1 iteration | **violated**: an increment is lost |
| `proc` | 3 slots, 3 forks or clones | unique pids, live parents, no missed exit, address spaces owned once and never freed twice (without threads), orphans reaped |
| `memory` | 3 processes, 13 pages, 3 calls | only threads make a page directory freed in use; up to then every page in one place, `sz` and page table agree, accepted pointers are backed, a child gets its parent's image, no panic without threads |
| `pipe` | 2 processes, 2-byte ring, counters modulo 4, 2 files, 2 descriptors | refinement of PipeService, references counted, nobody stuck or using a freed pipe, EOF only without writers, hang-ups noticed |
| `trap` | 2 processes, 2-character ring, counters modulo 6 | refinement of TtyService, no reader asleep beside input, no stuck control key, sleep() long enough and ending, processes killed in user space, in `sleep()` or at the console leave |
| `shell` | all commands of depth two parsed, 17 run by sh and those of one operator by lsh, two failing calls | parsed as written, descriptors of every program, prompt after the foreground, always a prompt unless init cannot fork |

Most modules have one invariant that conjoins the named facts about the
component's own bookkeeping, its type invariant first: `LogInv`, `SemInv`,
`TableInv`, `FilesInv`, `IcacheInv`, `CacheInv`, `ImageInv`, `ConsoleInv`. The
names used in this text (`InodeRefs`, `PipeLives`, `ParentAlive`, ...) are their
parts.

Bounds. Three processes are enough for the sleep lock to have a holder, a
sleeper and a barger at once (the proofs cover every number). Two blocks and
two values distinguish torn from whole transactions, and three calls against
room for two (`LOGSIZE` 4, `MAXOPBLOCKS` 2) make one wait. The run has two
loads (`MCLog`): one with these values and small calls, one in which only the
number of blocks matters, with a call that may log one block more than was
reserved for it; both the panic of `log_write()` and the overrun of the log area
are reached. Two-bit ints make the semaphore value wrap. Three slots and three forks reuse slots that were
reaped or whose fork failed, and let init inherit a zombie. `Victims` contains 0
and pids that are live, dead or left in a free slot by a failed fork. init
itself uses neither `clone()` nor `join()` (`init.c`). Killing init is left out:
it ends in the panic of `exit()`.

`buffers` has three blocks and two buffers, one of which may be pinned, so that
buffers are recycled all the time and the panic of `bget()` is reached; more
buffers are a matter of the proof. One block (`Outer`) is the one that is held
while another is read, as an indirect block or a log block is. `fs` bounds the
calls (`MaxCalls`) and starts from several images so that two calls are enough:
every pair of calls on the same few names is interleaved at every lock, and a
walk through the `..` of the removed directory meets the removal of the
directory above. One direct and two indirect blocks put every file at the
boundary; a write of three blocks in chunks of two crosses it and takes two
transactions, and after a read a chunk would pass MAXFILE and is refused. All four panics (no
inode, no block, no cache entry, no type) are reached. In `memory`, pages have
two bytes and page tables two entries, so that sizes inside a page, tables that
have to be added and arithmetic that wraps all occur within a few pages;
thirteen frames run out in the middle of the second fork or of an exec. For
pipes, a 2-byte ring shows reordering, a write of three bytes has to sleep, and
counters modulo 4 wrap after two fills; with one page, two files and two
descriptors every allocation can fail. `trap` has the same ring, and counters
modulo 6 to have room for a sleep of two ticks, a late process and one turn of
the clock.

`fs`, `memory`, `pipe` and `shell` do not check for deadlock: their calls are
bounded, or programs may stop for good (a process that reads from a pipe only it
could write to sleeps forever). `OnlyIputDeadlocks`, `NoStuckEnd`
and `ShellReturns` say what may not get stuck.

Fairness. A CPU executes the process it runs: weak fairness for every step,
including a spin on a lock. Strong fairness is used where the code loops over a
chance that comes back: a process that is dispatched again and again executes
something in its slices, and `defaultScheduler()` starts its scan at a random
slot, so a process that stays RUNNABLE is picked. A file system call ends after
finitely many updates. `init` loops in `wait()`, and starts a shell when one
ends. The clock runs, and a process that can run does so within `Late` ticks
(`InTime`): at every tick the running processes yield and the scheduler draws
again among NPROC slots. This is assumed only of sleeps for which the clock has
not come round by then (`Ordinary`): it takes more than a year to come round,
which leaves the process 2^32 draws less the ticks it asked for. sleep(-1) is
not ordinary: it can end at a single tick only, the process may miss that again
and again, and neither `InTime` nor `SleepEnds` says anything about it. A
program run by a shell ends once its input does. Nothing is assumed
about other user programs, kills, crashes, evictions or input; `Progress` is
stated for behaviours with finitely many kills, because an endless series of
kills can keep `lk->lk` busy and `xchg` is not fair.

## What the violations say

- `fs_leak`: `iput()` looks at `ip->ref` under the inode's lock, lets go, and
  decrements the count later under `icache.lock`. When two processes give up a
  removed file or directory at once (two closes, two exits from a removed current
  directory, or a close and a lookup that is ending),
  both see a count of two, neither frees the inode, and it stays allocated with
  its blocks until the disk is made anew.
- `sem_test`: sem_wait() adds the count back, so the semaphore excludes nobody
  and sem_test.c loses updates. For the same reason `sem_held` never records
  anything and the release in exit() has nothing to do.

Also seen while modelling, without a run of their own. Where a property would
be broken by one, it names the case as an exception, and nothing wider:

- a process in a removed directory that follows `..` can reach an inode that was
  freed, and `ilock()` panics (exception in `NoPanic` of Fs, for the process that
  did so and no other); or one that was freed and reused, which nobody notices;
- `iget()` panics when all NINODE entries of the inode cache are in use: 50, for
  100 open files, 64 current directories and the calls at work (exception in
  `NoPanic`, exactly for a cache that is full);
- `bget()` panics when all buffers are held or pinned: NBUF is 30, LOGSIZE is 30
  too, and each of 64 processes holds up to two (exception in `CacheInv`, exactly
  for that case; theorem `EnoughBuffers` says how many would do);
- `create()` puts the parent while it holds the new inode, `unlink()` of the new
  name holds the parent and waits for the inode: both wait forever (what
  `OnlyIputDeadlocks` leaves);
- `copyuvm()` forgets a page when `mappages()` fails (`lost` in `FramesOwned`);
- `sbrk()` of minus the size frees every page, reports failure and keeps `sz`
  (exception in `ImageMapped`: the process cannot execute any more);
- clone() shares the page directory without counting users, and `sz` is per
  thread: exec(), and wait() for a thread or for the process that made it, free a
  directory that others still use (`dangling` in Memory), and a stale `sz` leads
  to the panics of `mappages()` and `copyuvm()` (exceptions `Threadless` in
  ProcTable and `shared` in Memory). join() frees no page directory at all, so
  the space is lost when it takes the last process of it;
- kill() matches free slots (pid 0, or the pid left by a failed fork), and
  allocproc() does not clear `killed`;
- a kill does not end a wait in sem_wait(), acquiresleep(), begin_op() or iderw():
  none of them looks at `p->killed`, and the process goes on sleeping. `KilledExits`
  is about user space, the console and the clock, `HangupNoticed` about pipes,
  `NoMissedExit` about wait() and join();
- `filewrite()` cuts a write into chunks of 13 blocks (it divides LOGSIZE, not
  MAXOPBLOCKS). With one block more when the data is not aligned, the inode, the
  indirect block and the bitmap a transaction logs up to 17, where `begin_op()`
  reserved 10; two such writes at once need 34 of the log's 29 blocks and
  `log_write()` panics. Even calls that write exactly MAXOPBLOCKS blocks can pass
  its unlocked test together, and the transaction becomes one block longer than
  the log area, whose size includes the header (exception `over` in `SpaceEnough`,
  a part of `LogInv`);
- a disk read that fails makes the buffer valid (`Fault` in BlockStore);
- sem_destroy() wakes nobody, so processes asleep in sem_wait() stay there (the
  exception in `NoStuckWaiter`);
- pipewrite() of a killed process that has just filled the pipe returns without
  `wakeup(&p->nread)`, so a reader can stay asleep beside a full pipe as long as
  somebody keeps the write end open and does not write (the exception `cut` in
  `NoStuckReader`);
- in sh, a fork1() that fails for the second program of a pipe or a list ends the
  process that was to wait, and the first program runs on beside the next prompt
  (`PromptLast` covers failing calls of lsh only);
- a fork() that fails in init ends init, and exit() panics (`down`, the exception
  in `ShellReturns`);
- lsh does not count the words of a line: the 65th goes over the end of `left`
  into `right`, and a missing file or program is not noticed (exception in
  `ParsedRight`);
- lsh keeps the last operator of a line only, and its `cd` shows the first
  component of a path only;
- setscheduler() accepts an index one past the table of policies, and wait()
  leaves the run-time statistics of a slot to its next process.

## Proofs

`SleepLockProofs` proves for every set of processes and every number of CPUs:
mutual exclusion, no lost wakeup, the conditions of `sched()`, and the
refinement of LockService. The inductive invariant `IInv` ties the position of
each process to the ownership of both spinlocks (`SpinlockOwners`), says that
sleepers sleep on this lock's channel (`SleepersSleepOnLk`) and that
`locked`/`pid` name the process between acquire and release (`LockOwner`).
`NoLostWakeup` alone is not inductive: that `wakeup()` reaches every sleeper
needs the fact that nobody is between testing `locked` and being SLEEPING
while `wakeup()` holds both spinlocks, which is what `SpinlockOwners` gives
(lemma `ReleaseStep`). The only assumption is `NoProc \notin Proc`.

`ProcTableProofs` proves for tables of any size, with and without threads:
unique pids, live parents, and that `wait()` and `join()` miss neither an exit
nor a kill; and that as long as no program made a thread, page directories are
owned once and never freed twice. The inductive invariant is `TableInv`. What it
adds to the three properties: pids in use are below `nextpid` (`PidsBelowNext`),
so a new one is unique although failed forks leave theirs behind; a slot being
filled is EMBRYO, has one builder, which is running, and no other parent
(`OneBuilder`), so `fork()` may write to it without `ptable.lock`; a free slot
has no parent (`FreeHasNoParent`), so a slot that is reused is nobody's child
yet; nobody but possibly init is its own parent (`NotOwnParent`), which is
needed when the exiting process's children pass to init; and init is there to
receive them (`InitAlive`). The last theorem rests on `SpaceInv` (one owner, no
bad free, and nobody about to publish a thread), which holds while `Threadless`
does; lemma `ThreadsMarked` shows that a slot once marked as a thread's stays
marked, so the premise cannot become true again after a thread has spoilt the
rest. The assumptions on the constants are that the table has a slot and that
`userinit()`'s pid fits (`SizeAssumption`).

`SemaphoreProofs` proves `SemInv` for every number of processes, every set of
counts and every width of int; it is inductive as it stands. A theorem of its
own states what the run `sem_test` shows on an instance: no `sem_wait()`, first
or woken, ever changes the value.

`BufCacheProofs` proves for any number of buffers, blocks and processes, and
both drivers, that `CacheInv` and `NoStuckIo` hold and that the cache with its
queue implements BlockStore. `CacheInv` is the inductive invariant. Besides the
properties (one copy, exact counts, no forgotten request) it says who holds
which buffer's lock (`LocksHeld`), which flags a buffer may have where its
holder stands (`FlagsRight`), that a buffer is queued once and exactly while its
holder waits (`QueueRight`), that the log pins at most `MaxPinned` buffers, that
`bget()` panics only when each buffer is in somebody's hand or pinned, and that
clean buffers agree with the disk (`CleanIsDisk`). Nothing is assumed about the
number of buffers. `EnoughBuffers` turns this into a count: the hands and the
log occupy at most `Cardinality(Hand) + MaxPinned` buffers, so with that many
there is no panic. The constants of the code (30 buffers, a log of 30, 64
processes with two hands) do not reach it. For the refinement, `bad` needs care:
recycling a buffer whose read failed brings the block's old contents back, which
BlockStore allows as a `Fault` and nothing else.

`LogProofs` proves `NoMissedLogSpace`, `LogInv` and the refinement of AtomicDisk
for calls that log any number of blocks, and `SpaceEnough`: log_write() does not
panic and the log area is not overrun as long as every call of the transaction
logs fewer blocks than `MAXOPBLOCKS`. "Fewer" is what the code needs:
`log_write()` panics at `log.size - 1` blocks while `begin_op()` lets
reservations add up to LOGSIZE, and `mkfs` makes the two equal, so calls that
use all of `MAXOPBLOCKS` can fill the log one block too far, which the run `log`
reaches. The constants' own assumption is `MAXOPBLOCKS < LOGSIZE <= NLOG`. The
inductive invariant is `LogInv`. `OneAtWork` ties the phase to `committing` and
to the call that commits; `Reserve` is the argument about space: while no call
has used up its reservation (`~over`), the blocks that are logged or about to
be, plus what is reserved, never exceed the log plus what the calls at work have
already changed, and when one call is left some reservation has been given back;
`Pinned` says that a cached block differs from its home block only while the log
pins it or a call holds it; `Journal` says, phase by phase, how far the
transaction has got from the cache over the log to its home blocks. The
refinement maps the durable contents of a block to "its copy in the log if the
header on disk names it, else its home block" (`Recovered`), so the one step at
which a commit happens is the write of the header, and a crash anywhere is
either before or after it.

`FileTableProofs` proves for any finite set of processes, any pages and any
numbers of files and descriptors that `FilesInv` and `NoStuckEnd` hold, that end
of file means no writer, and that the rings implement PipeService. It is built
in layers: `Table` (counts of references, and what a process has in hand where
it stands), `Lives` (a page is allocated while an end is open, and an end is
open while exactly one file refers to it or exactly one process is closing it),
`Used` (who reads or writes has a descriptor for that end); each layer is
preserved by every action given the ones below. The counts are cardinalities of
sets of descriptors and of local variables, so that each action needs one lemma
about adding or removing an element; `fork()`, which adds a whole row at once,
needs the disjointness of rows. `NoStuckEnd` is preserved relative to these. For
the refinement the counters are compared modulo `UINT`: `Unread` never exceeds
PIPESIZE, and two different unread positions lie in different slots because
PIPESIZE divides UINT (`RingAssumption`; 512 and 2^32 in the code). Without that
the slots would jump when a counter overflows.

`TrapProofs` proves `ConsoleInv`, `SleptEnough` and the refinement of TtyService
for any processes, any characters and any sizes of the ring and the counters
with INPUT_BUF a divisor of UINT (`ConsoleAssumption`; 128 and 2^32 in the
code). `ConsoleInv` is inductive with two more parts: `RingFits`, since the
distances between the indices say what is committed and what is being edited
only as long as together they fit the ring, and `SleepCounted`, that the
difference `sys_sleep()` computes modulo UINT is the number of ticks it slept.
The latter counts up to one turn of the clock, so that it needs no assumption on
when a process runs; a process that missed its tick has slept longer, not
shorter. That nobody sleeps beside input rests on what the inner loop of
`consoleread()` stops at (lemma `CopiedIs`): it goes to sleep only when it has
taken everything.

`MemoryProofs` proves for any processes, any number of free pages, any page
size, any programs and any bound on the calls: `ImageInv`, `FramesOwned`,
`ArgsMapped` and `ChildCopies`. Programs may make threads, and these may be
waited for, exec and exit in any order. The inductive invariant `Inv` is
`ImageInv` together with `FramesOwned` as long as no page directory was freed in
use; the step that frees one leads to `Ended`, and theorem `InvHolds` says that
the model is always in one or the other, and in the second only through a space
that clone() shared (`NoDangling`). `FramesOwned` and the parts of `ImageInv`
about page tables are stated up to that point. Three facts in `ImageInv` are
there for the induction. `SpaceKept`: a space that nobody has is empty, and one
that was never shared has one process, so a change of one space leaves the
others' alone and only a shared one can be freed in use. `CallKept`: what a call
holds follows from where it is, so that a failing call frees exactly that.
`LoopKept`: in the loops of `allocuvm()` and `copyuvm()` the pages below `a` are
mapped, also where the size `p->sz` has not followed yet; this is what rules out
the two panics. `FramesOwned` is treated as a function from places (a stack, the
page in a call's hands, an entry of a page table) to frames, and each step is
one of a few operations on such functions: take a free frame, free what a set of
places holds, lose a frame, or exchange the contents of places in pairs
(`AllocSound`, `FreeSound`, `LoseSound`, `SwapSound`); the last of these is how
`fork()` and `exec()` install a new space. `MemoryAssumption` asks for what the
code has: a user part that consists of whole page tables and is half of the
32-bit addresses, increments that are ints, words no larger than the user part,
and the five pages of the first process.

Model-checked only: liveness (`Progress`, `SleepersWoken`, `WaiterServed`,
`OrphansReaped`, `HangupNoticed`, `KilledExits`, `SleepEnds`, `ShellReturns`),
because fairness and ENABLED are outside the prover's reach; everything about
Shell, whose parser is recursive, since neither RECURSIVE operators nor
induction over data can be used in a proof here; and the invariants of Fs.

## Not modelled

- Boot code, interrupt controllers, assembly stubs and device registers: set up
  once before there is a process, or a single command to a device.
- The scheduler policies 1-4, which have no body, and `setscheduler()`; the
  run-time statistics (`wait2()` is there, what it reports is not) and
  `setpriority()`, which nothing reads that affects another component.
- Calls that only read: `procdump`, `getptable`, `getppid`, `fstat`,
  `holdingsleep`.
- The output side of the console, and the keyboard tables.
- ELF headers and the argument vector of `exec()` beyond the pages they use.
- The built-in commands `cd`, `pwd` and `help` of lsh and its path strings; the
  small user programs; `ulib.c`, `printf.c` and `umalloc.c`, which are
  sequential; the test programs other than `sem_test.c`, which exercise calls
  that are modelled.

## Plan

What is left are proofs about Fs. Its invariants describe the disk and the inode
cache; an inductive one would also have to say, for every position of every
call, which inodes it has locked and what it has read under those locks.
