------------------------------ MODULE BufCache ------------------------------
(* The buffer cache (bio.c) over the disk driver (ide.c, or memide.c in a   *)
(* kernel built with the memory disk).  What runs under bcache.lock or      *)
(* idelock is one action; the sleep lock of a buffer is its holder.  A      *)
(* process reads a block, writes it any number of times with bwrite() or    *)
(* log_write(), and releases it; while it holds a log block or an indirect  *)
(* block it may read a second one, the way write_log(), install_trans(),    *)
(* bmap() and itrunc() do.  A process has two hands for this.               *)
EXTENDS Integers, Sequences, FiniteSets, TLC

CONSTANTS Proc, NoProc,
          Block, NoBlock,
          Val, Zero,  \* contents of a block, and the initial one
          NBUF,       \* buffers
          Nested,     \* the pairs of blocks of which the second is read while the first is held
          MaxPinned,  \* bound: dirty buffers the log keeps in the cache
          MaxErrors,  \* bound: blocks in the cache whose read failed
          MaxWrites   \* bound: changes of a block

Hand == Proc \X {1, 2}

ASSUME NamesAssumption == /\ IsFiniteSet(Proc) /\ NoProc \notin Hand
                          /\ NoBlock \notin Block /\ Zero \in Val

ASSUME CacheAssumption == NBUF \in Nat /\ MaxPinned \in Nat /\ MaxErrors \in Nat /\ MaxWrites \in Nat

VARIABLES blockno, valid, dirty, refcnt, data,  \* struct buf
          lock,       \* holder of b->lock
          lru,        \* bcache.head: the list of buffers, most recent first
          idequeue,   \* idequeue: the first is at work
          cmd,        \* the command the drive is working on
          disk,       \* the blocks on the disk
          memdisk,    \* whether memide.c is linked in
          pc, buf,    \* what each hand does, with which buffer
          asleep,     \* hands whose process is asleep in iderw()
          bad,        \* history: blocks cached by a read that failed
          writes,     \* changes of blocks so far, for the bound
          panicked    \* the message of panic() that stopped the kernel, or "none"

cache == <<blockno, valid, dirty, refcnt, data, lock, lru>>
drive == <<idequeue, cmd, disk, bad>>
vars == <<cache, drive, memdisk, pc, buf, asleep, writes, panicked>>

Buf == 1..NBUF

(* A command the drive is working on. *)
NoCmd == [block |-> NoBlock, write |-> FALSE, data |-> Zero]

(* binit() and ideinit(). *)
Init == /\ blockno = [b \in Buf |-> NoBlock]
        /\ valid = [b \in Buf |-> FALSE] /\ dirty = [b \in Buf |-> FALSE]
        /\ refcnt = [b \in Buf |-> 0]
        /\ lock = [b \in Buf |-> NoProc]
        /\ lru = [i \in Buf |-> NBUF + 1 - i]
        /\ idequeue = <<>>
        /\ bad = {}
        /\ cmd = NoCmd /\ data = [b \in Buf |-> Zero] /\ disk = [n \in Block |-> Zero]
        /\ memdisk \in BOOLEAN
        /\ pc = [h \in Hand |-> "idle"] /\ buf = [h \in Hand |-> 0]
        /\ asleep = {}
        /\ writes = 0
        /\ panicked = "none"

Goto(h, where) == pc' = [pc EXCEPT ![h] = where]

Panic(message) == /\ panicked' = message
                  /\ UNCHANGED <<cache, drive, memdisk, pc, buf, asleep, writes>>

-----------------------------------------------------------------------------
(* Variant with a bug: buffers pinned by the log are taken. *)
ReusableDirty(b) == refcnt[b] = 0

Reusable(b) == refcnt[b] = 0 /\ ~dirty[b]

(* bget() under bcache.lock. *)
Hit(h, n, b) == /\ blockno[b] = n
                /\ refcnt' = [refcnt EXCEPT ![b] = @ + 1]
                /\ UNCHANGED <<blockno, valid, dirty, bad>>

(* The last reusable buffer of the list. *)
Recycle(h, n, b) ==
    /\ Reusable(b)
    /\ \E i \in Buf : lru[i] = b /\ \A j \in (i + 1)..NBUF : ~Reusable(lru[j])
    /\ blockno' = [blockno EXCEPT ![b] = n]
    /\ valid' = [valid EXCEPT ![b] = FALSE] /\ dirty' = [dirty EXCEPT ![b] = FALSE]
    /\ refcnt' = [refcnt EXCEPT ![b] = 1]
    /\ bad' = bad \ {blockno[b]}

(* Variant with a bug: a block that is still being read counts as missing. *)
CachedValid(n) == \E b \in Buf : blockno[b] = n /\ valid[b]

Cached(n) == \E b \in Buf : blockno[b] = n

Other(h) == <<h[1], 3 - h[2]>>

(* A process does one thing at a time. *)
Calm(h) == pc[Other(h)] \in {"idle", "held"}

(* The second block is read while the first is held. *)
MayRead(h, n) == IF h[2] = 1 THEN pc[Other(h)] = "idle"
                 ELSE pc[Other(h)] = "held" /\ <<blockno[buf[Other(h)]], n>> \in Nested

Bget(h, n) ==
    /\ pc[h] = "idle" /\ MayRead(h, n)
    /\ IF ~Cached(n) /\ \A b \in Buf : ~Reusable(b)
       THEN Panic("bget: no buffers")
       ELSE /\ \E b \in Buf : /\ IF Cached(n) THEN Hit(h, n, b) ELSE Recycle(h, n, b)
                              /\ buf' = [buf EXCEPT ![h] = b]
            /\ Goto(h, "lock")
            /\ UNCHANGED <<data, lock, lru, idequeue, cmd, disk, memdisk, asleep, writes, panicked>>

(* acquiresleep(), and bread()'s look at B_VALID. *)
Bread(h) ==
    LET b == buf[h]
    IN  /\ pc[h] = "lock"
        /\ lock[b] = NoProc
        /\ lock' = [lock EXCEPT ![b] = h]
        /\ Goto(h, IF valid[b] THEN "held" ELSE "rw")
        /\ UNCHANGED <<blockno, valid, dirty, refcnt, data, lru, drive, memdisk, buf, asleep, writes, panicked>>

Counted(h, v) == /\ writes' = IF v = data[buf[h]] THEN writes ELSE writes + 1
                 /\ writes' <= MaxWrites

(* New contents go to the buffer and B_DIRTY is set: bwrite() continues in  *)
(* iderw(), log_write() leaves the block to a later commit.                 *)
Bwrite(h, v) == /\ pc[h] = "held" /\ Calm(h)
                /\ Counted(h, v)
                /\ data' = [data EXCEPT ![buf[h]] = v]
                /\ dirty' = [dirty EXCEPT ![buf[h]] = TRUE]
                /\ Goto(h, "rw")
                /\ UNCHANGED <<blockno, valid, refcnt, lock, lru, drive, memdisk, buf, asleep, panicked>>

LogWrite(h, v) == /\ pc[h] = "held" /\ Calm(h)
                  /\ Counted(h, v)
                  /\ Cardinality({b \in Buf : dirty[b]} \cup {buf[h]}) <= MaxPinned
                  /\ data' = [data EXCEPT ![buf[h]] = v]
                  /\ dirty' = [dirty EXCEPT ![buf[h]] = TRUE]
                  /\ UNCHANGED <<blockno, valid, refcnt, lock, lru, drive, memdisk, pc, buf, asleep, panicked>>

(* brelse(): the lock goes first, the reference later. *)
BrelseUnlock(h) == /\ pc[h] = "held" /\ Calm(h)
                   /\ lock' = [lock EXCEPT ![buf[h]] = NoProc]
                   /\ Goto(h, "rel")
                   /\ UNCHANGED <<blockno, valid, dirty, refcnt, data, lru, drive, memdisk, buf, asleep, writes, panicked>>

(* The list with b in front. *)
ToFront(b) == [i \in Buf |-> IF i = 1 THEN b
                            ELSE IF \E j \in 1..(i - 1) : lru[j] = b THEN lru[i] ELSE lru[i - 1]]

Brelse(h) ==
    LET b == buf[h]
    IN  /\ pc[h] = "rel"
        /\ refcnt' = [refcnt EXCEPT ![b] = @ - 1]
        /\ lru' = IF refcnt[b] = 1 THEN ToFront(b) ELSE lru
        /\ buf' = [buf EXCEPT ![h] = 0]
        /\ Goto(h, "idle")
        /\ UNCHANGED <<blockno, valid, dirty, data, lock, drive, memdisk, asleep, writes, panicked>>

-----------------------------------------------------------------------------
(* idestart(): a write command carries the data with it. *)
Idestart(b) == cmd' = [block |-> blockno[b], write |-> dirty[b],
                       data |-> IF dirty[b] THEN data[b] ELSE Zero]

NothingToDo(b) == valid[b] /\ ~dirty[b]

(* iderw() of ide.c up to its first sleep. *)
Iderw(h) ==
    LET b == buf[h]
    IN  /\ pc[h] = "rw" /\ ~memdisk
        /\ IF NothingToDo(b)
           THEN Panic("iderw: nothing to do")
           ELSE /\ idequeue' = Append(idequeue, b)
                /\ IF idequeue = <<>> THEN Idestart(b) ELSE UNCHANGED cmd
                /\ asleep' = asleep \cup {h}
                /\ Goto(h, "wait")
                /\ UNCHANGED <<cache, disk, bad, memdisk, buf, writes, panicked>>

(* The loop of iderw(), after a wakeup(). *)
IderwWoken(h) == /\ pc[h] = "wait" /\ h \notin asleep
                 /\ IF NothingToDo(buf[h]) THEN Goto(h, "held") /\ UNCHANGED asleep
                                           ELSE asleep' = asleep \cup {h} /\ UNCHANGED pc
                 /\ UNCHANGED <<cache, drive, memdisk, buf, writes, panicked>>

(* iderw() of memide.c. *)
MemIderw(h) ==
    LET b == buf[h]
    IN  /\ pc[h] = "rw" /\ memdisk
        /\ IF NothingToDo(b)
           THEN Panic("iderw: nothing to do")
           ELSE /\ IF dirty[b] THEN disk' = [disk EXCEPT ![blockno[b]] = data[b]] /\ UNCHANGED data
                               ELSE data' = [data EXCEPT ![b] = disk[blockno[b]]] /\ UNCHANGED disk
                /\ valid' = [valid EXCEPT ![b] = TRUE] /\ dirty' = [dirty EXCEPT ![b] = FALSE]
                /\ Goto(h, "held")
                /\ UNCHANGED <<blockno, refcnt, lock, lru, idequeue, cmd, bad, memdisk, buf, asleep, writes, panicked>>

(* Variant with a bug: the next request is not started. *)
StartNextNever == cmd' = NoCmd

StartNext == IF Len(idequeue) > 1 THEN Idestart(idequeue[2]) ELSE cmd' = NoCmd

(* Who sleeps on b. *)
Wakes(b) == {h \in asleep : buf[h] = b}

(* The drive has finished the first request and interrupts: ideintr().  A   *)
(* failed read leaves the buffer as it was, and it becomes valid            *)
(* nevertheless.                                                            *)
Ideintr ==
    LET b == Head(idequeue)
    IN  /\ cmd # NoCmd
        /\ idequeue' = Tail(idequeue)
        /\ disk' = IF cmd.write THEN [disk EXCEPT ![cmd.block] = cmd.data] ELSE disk
        /\ \/ /\ dirty[b]
              /\ UNCHANGED <<data, bad>>
           \/ /\ ~dirty[b]
              /\ data' = [data EXCEPT ![b] = disk[cmd.block]]
              /\ UNCHANGED bad
           \/ /\ ~dirty[b] /\ Cardinality(bad) < MaxErrors
              /\ bad' = bad \cup {blockno[b]}
              /\ UNCHANGED data
        /\ valid' = [valid EXCEPT ![b] = TRUE] /\ dirty' = [dirty EXCEPT ![b] = FALSE]
        /\ asleep' = asleep \ Wakes(b)
        /\ StartNext
        /\ UNCHANGED <<blockno, refcnt, lock, lru, memdisk, pc, buf, writes, panicked>>

(* kill() wakes a sleeper. *)
Kill(h) == /\ h \in asleep
           /\ asleep' = asleep \ {h}
           /\ UNCHANGED <<cache, drive, memdisk, pc, buf, writes, panicked>>

-----------------------------------------------------------------------------
Step(h) == \/ \E n \in Block : Bget(h, n)
           \/ Bread(h)
           \/ \E v \in Val : Bwrite(h, v) \/ LogWrite(h, v)
           \/ BrelseUnlock(h) \/ Brelse(h)
           \/ Iderw(h) \/ IderwWoken(h) \/ MemIderw(h)
           \/ Kill(h)

(* panic() does not return. *)
Halted == panicked # "none" /\ UNCHANGED vars

Next == \/ Halted
        \/ panicked = "none" /\ (Ideintr \/ \E h \in Hand : Step(h))

Spec == Init /\ [][Next]_vars

-----------------------------------------------------------------------------
(* Properties *)

TypeOK ==
    /\ blockno \in [Buf -> Block \cup {NoBlock}]
    /\ valid \in [Buf -> BOOLEAN] /\ dirty \in [Buf -> BOOLEAN]
    /\ refcnt \in [Buf -> 0..Cardinality(Hand)]
    /\ data \in [Buf -> Val] /\ disk \in [Block -> Val] /\ cmd \in [block : Block \cup {NoBlock}, write : BOOLEAN, data : Val]
    /\ lock \in [Buf -> Hand \cup {NoProc}]
    /\ lru \in [Buf -> Buf] /\ \A b \in Buf : \E i \in Buf : lru[i] = b
    /\ idequeue \in Seq(Buf)
    /\ pc \in [Hand -> {"idle", "lock", "held", "rw", "wait", "rel"}]
    /\ buf \in [Hand -> Buf \cup {0}]
    /\ asleep \subseteq Hand /\ bad \subseteq Block

(* No block is cached twice: two processes that read the same block at once *)
(* share one buffer, also when it is being recycled.                        *)
OneCopy == \A b, c \in Buf : blockno[b] = blockno[c] /\ blockno[b] # NoBlock => b = c

(* A buffer is referenced by exactly the processes that wait for it, hold   *)
(* it or are about to drop it, so none is recycled under a process and none *)
(* is lost for good.                                                        *)
RefsCounted == \A b \in Buf : refcnt[b] = Cardinality({h \in Hand : buf[h] = b})


(* No request is forgotten: the drive always works on the first request of  *)
(* the queue, and a process sleeps in iderw() only while its buffer is      *)
(* queued and not done, in whatever order requests are made and kills       *)
(* arrive.                                                                  *)
NoStuckIo ==
    /\ idequeue # <<>> <=> cmd # NoCmd
    /\ idequeue # <<>> => blockno[Head(idequeue)] = cmd.block /\ dirty[Head(idequeue)] = cmd.write
    /\ \A h \in asleep : \E i \in DOMAIN idequeue : idequeue[i] = buf[h] /\ ~NothingToDo(buf[h])

(* What makes these inductive.  A buffer's lock is held by the process that *)
(* works on it.                                                             *)
HasLock(h) == pc[h] \in {"held", "rw", "wait"}

LocksHeld ==
    /\ \A h \in Hand : /\ pc[h] = "idle" <=> buf[h] = 0
                       /\ HasLock(h) => lock[buf[h]] = h
    /\ \A b \in Buf : lock[b] # NoProc => buf[lock[b]] = b /\ HasLock(lock[b])

(* Whoever refers to a buffer refers to a block; it is valid for those who  *)
(* hold it, and iderw() is only called with something to do.                *)
FlagsRight ==
    /\ \A b \in Buf : /\ valid[b] \/ refcnt[b] > 0 => blockno[b] \in Block
                      /\ dirty[b] => valid[b]
    /\ \A h \in Hand : /\ pc[h] = "held" => valid[buf[h]]
                       /\ pc[h] = "rw" => ~NothingToDo(buf[h])

(* A buffer is queued once, from iderw() until ideintr() completes it, and  *)
(* its holder waits for that.                                               *)
QueueRight ==
    /\ \A i, j \in DOMAIN idequeue : idequeue[i] = idequeue[j] => i = j
    /\ \A i \in DOMAIN idequeue : LET b == idequeue[i]
                                 IN  /\ ~NothingToDo(b)
                                     /\ lock[b] # NoProc /\ pc[lock[b]] = "wait"
    /\ \A h \in Hand : /\ h \in asleep => pc[h] = "wait" /\ ~NothingToDo(buf[h])
                       /\ pc[h] = "wait" => \/ NothingToDo(buf[h])
                                            \/ \E i \in DOMAIN idequeue : idequeue[i] = buf[h]
    /\ cmd.write => cmd.data = data[Head(idequeue)]
    /\ memdisk => idequeue = <<>>

(* The dirty buffers nobody is writing back: the log's. *)
Pinned == {b \in Buf : dirty[b] /\ \A h \in Hand : buf[h] = b => pc[h] \notin {"rw", "wait"}}

PinsBounded == Cardinality(Pinned) <= MaxPinned

(* iderw() never panics with "nothing to do", and bget() with "no buffers"  *)
(* only when each of the NBUF buffers is in somebody's hand or pinned by    *)
(* the log: none is lost, however buffers are shared, released and written. *)
NoPanic == /\ panicked # "iderw: nothing to do"
           /\ panicked = "bget: no buffers" => \A b \in Buf : b \in Pinned \/ \E h \in Hand : buf[h] = b

(* A clean buffer holds what the disk holds, unless its read failed. *)
CleanIsDisk ==
    /\ \A b \in Buf : valid[b] /\ ~dirty[b] /\ blockno[b] \notin bad => data[b] = disk[blockno[b]]
    /\ \A n \in bad : \E b \in Buf : blockno[b] = n /\ valid[b]

(* The buffer cache as a whole: bget() and brelse() keep one counted buffer *)
(* per block and find one to recycle while any is neither in use nor        *)
(* pinned, and a clean buffer agrees with the disk, whatever is queued,     *)
(* pinned or being recycled.                                                *)
CacheInv == /\ TypeOK /\ OneCopy /\ RefsCounted /\ NoPanic
            /\ LocksHeld /\ FlagsRight /\ QueueRight /\ NoStuckIo /\ PinsBounded /\ CleanIsDisk

(* The cache, the queue and the drive behave as one store of blocks: what   *)
(* one process wrote is what the next one reads, whether the block was      *)
(* cached, pinned, queued or evicted in between; only a block whose read    *)
(* failed changes behind its owner's back.                                  *)
Home(n) == {b \in Buf : blockno[b] = n}
Content == [n \in Block |-> IF \E b \in Home(n) : valid[b]
                            THEN data[CHOOSE b \in Home(n) : valid[b]] ELSE disk[n]]
Owner == [n \in Block |-> IF Home(n) = {} THEN NoProc ELSE lock[CHOOSE b \in Home(n) : TRUE]]

Store == INSTANCE BlockStore WITH Proc <- Hand, content <- Content, owner <- Owner

ImplementsStore == Store!Spec
=============================================================================
