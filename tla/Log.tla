-------------------------------- MODULE Log --------------------------------
(* The redo log of log.c with the part of the buffer cache it relies on:    *)
(* concurrent file system calls, group commit, power failure at any disk    *)
(* write, and recovery, itself interruptible.                               *)
(*                                                                          *)
(* A disk write of one block is atomic (BSIZE is one 512-byte sector).      *)
(* sleep(&log, &log.lock) is atomic here: SleepLock shows that no wakeup    *)
(* falls between releasing the spinlock and sleeping.                       *)
EXTENDS Integers, Sequences, FiniteSets

CONSTANTS Block,        \* home blocks of the file system
          Val,          \* block contents
          Op,           \* processes making file system calls
          Zero,         \* contents of the blocks mkfs leaves empty
          None,         \* "no buffer"
          LOGSIZE,      \* entries of struct logheader
          NLOG,         \* log.size = sb.nlog: blocks of the log, header included
          MAXOPBLOCKS,  \* blocks begin_op() reserves for a call
          OpBlocks      \* bound: blocks a call changes, at most

ASSUME SizeAssumption == /\ {LOGSIZE, NLOG, MAXOPBLOCKS, OpBlocks} \subseteq Nat \ {0}
                         /\ MAXOPBLOCKS < LOGSIZE /\ LOGSIZE <= NLOG
ASSUME NoneAssumption == Zero \in Val /\ None \notin Val \cup Block /\ IsFiniteSet(Op)

VARIABLES disk,         \* home blocks on disk
          logdata,      \* log blocks on disk: log.start+1, log.start+2, ...
          dhead,        \* the header block on disk
          cache,        \* buffer cache: block contents or None
          dirty,        \* buffers with B_DIRTY
          lh,           \* log.lh.block[0..log.lh.n-1]
          outstanding,  \* log.outstanding
          committing,   \* log.committing
          phase,        \* which disk procedure runs: commit() or recovery
          tail,         \* its loop variable, 0 outside loops
          pc,           \* where each call is
          buf,          \* buffer each call has locked, or None
          wrote,        \* blocks each running call has modified
          over          \* history: a call of the open transaction has changed
                        \* MAXOPBLOCKS blocks or more

diskVars == <<disk, logdata, dhead>>
logVars == <<lh, outstanding, committing>>
opVars == <<pc, buf, wrote, over>>
vars == <<diskVars, cache, dirty, logVars, phase, tail, opVars>>

(* Calls between begin_op() and end_op(). *)
InOp == {"op", "check", "append", "panic"}

Label == InOp \cup {"idle", "begin", "asleep", "commit"}

Phase == {"run", "write_log", "write_head", "install", "clear", "end", "read_head"}

(* bread(): the cached copy if there is one. *)
Content(b) == IF cache[b] # None THEN cache[b] ELSE disk[b]

Logged(s) == {s[i] : i \in 1..Len(s)}

(* The entries fit struct logheader and the log area. *)
Fits(s) == Len(s) <= LOGSIZE /\ Len(s) <= NLOG - 1

Init == /\ disk = [b \in Block |-> Zero]
        /\ logdata = [i \in 1..LOGSIZE |-> Zero]
        /\ dhead = <<>>
        /\ cache = [b \in Block |-> None]
        /\ dirty = {}
        /\ lh = <<>>
        /\ outstanding = 0
        /\ committing = 0
        /\ phase = "read_head"
        /\ tail = 0
        /\ pc = [o \in Op |-> "idle"]
        /\ buf = [o \in Op |-> None]
        /\ wrote = [o \in Op |-> {}]
        /\ over = FALSE

Goto(o, from, to) == pc[o] = from /\ pc' = [pc EXCEPT ![o] = to]

-----------------------------------------------------------------------------
(* begin_op() *)

(* Variant with a bug: begin_op() does not look at log.committing. *)
IgnoreCommitting == Len(lh) + (outstanding + 1) * MAXOPBLOCKS > LOGSIZE

(* Variant with a bug: the reservation of the new call is not counted. *)
ForgetSelf == committing = 1 \/ Len(lh) + outstanding * MAXOPBLOCKS > LOGSIZE

MustWait == committing = 1 \/ Len(lh) + (outstanding + 1) * MAXOPBLOCKS > LOGSIZE

(* initlog() has returned before the first user process runs. *)
Booted == phase # "read_head" /\ (committing = 0 => phase = "run")

BeginOp(o) ==
    /\ Booted
    /\ pc[o] \in {"idle", "begin"}
    /\ IF MustWait
       THEN /\ pc' = [pc EXCEPT ![o] = "asleep"]
            /\ UNCHANGED outstanding
       ELSE /\ pc' = [pc EXCEPT ![o] = "op"]
            /\ outstanding' = outstanding + 1
    /\ UNCHANGED <<diskVars, cache, dirty, lh, committing, phase, tail, buf, wrote, over>>

(* wakeup(&log) *)
Woken(f) == [o \in Op |-> IF f[o] = "asleep" THEN "begin" ELSE f[o]]

(* kill() of a call that sleeps in begin_op(): the loop tests again. *)
Kill(o) == /\ Goto(o, "asleep", "begin")
           /\ UNCHANGED <<diskVars, cache, dirty, logVars, phase, tail, buf, wrote, over>>

-----------------------------------------------------------------------------
(* A block update: bp = bread(b); change bp->data; log_write(bp);           *)
(* brelse(bp).  The buffer is locked throughout.  Nothing in the code       *)
(* limits the blocks of a call: filewrite() puts up to (LOGSIZE-4)/2 data   *)
(* blocks into one transaction, whatever MAXOPBLOCKS is.                    *)

Modify(o, b, v) ==
    /\ Goto(o, "op", "check")
    /\ \A q \in Op : buf[q] # b
    /\ b \in wrote[o] \/ Cardinality(wrote[o]) < OpBlocks
    /\ cache' = [cache EXCEPT ![b] = v]
    /\ buf' = [buf EXCEPT ![o] = b]
    /\ wrote' = [wrote EXCEPT ![o] = @ \cup {b}]
    /\ over' = (over \/ Cardinality(wrote'[o]) >= MAXOPBLOCKS)
    /\ UNCHANGED <<diskVars, dirty, logVars, phase, tail>>

(* log_write() reads log.lh.n and log.outstanding before it takes log.lock; *)
(* a panic stops this CPU only.                                             *)
LogCheck(o) ==
    /\ Goto(o, "check", IF \/ Len(lh) >= LOGSIZE
                           \/ Len(lh) >= NLOG - 1
                           \/ outstanding < 1
                        THEN "panic" ELSE "append")
    /\ UNCHANGED <<diskVars, cache, dirty, logVars, phase, tail, buf, wrote, over>>

(* The locked part of log_write(), then brelse(). *)
LogAppend(o) ==
    /\ Goto(o, "append", "op")
    /\ lh' = IF buf[o] \in Logged(lh) THEN lh ELSE Append(lh, buf[o])
    /\ dirty' = dirty \cup {buf[o]}
    /\ buf' = [buf EXCEPT ![o] = None]
    /\ UNCHANGED <<diskVars, cache, outstanding, committing, phase, tail, wrote, over>>

-----------------------------------------------------------------------------
(* end_op() and commit() *)

(* Variant with a bug: an end_op() that does not commit wakes nobody. *)
EndOpSilent(o) ==
    /\ pc[o] = "op"
    /\ outstanding' = outstanding - 1
    /\ IF outstanding' = 0
       THEN /\ pc' = [pc EXCEPT ![o] = "commit"]
            /\ committing' = 1
            /\ phase' = IF lh # <<>> THEN "write_log" ELSE "end"
       ELSE /\ pc' = [pc EXCEPT ![o] = "idle"]
            /\ UNCHANGED <<committing, phase>>
    /\ tail' = 0
    /\ wrote' = [wrote EXCEPT ![o] = {}]
    /\ UNCHANGED <<diskVars, cache, dirty, lh, buf, over>>

EndOp(o) ==
    /\ pc[o] = "op"
    /\ outstanding' = outstanding - 1
    /\ IF committing = 1
       THEN /\ pc' = [pc EXCEPT ![o] = "panic"]      \* "log.committing"
            /\ UNCHANGED <<committing, phase>>
       ELSE IF outstanding' = 0
       THEN /\ pc' = [pc EXCEPT ![o] = "commit"]
            /\ committing' = 1
            /\ phase' = IF lh # <<>> THEN "write_log" ELSE "end"
       ELSE /\ pc' = Woken([pc EXCEPT ![o] = "idle"])
            /\ UNCHANGED <<committing, phase>>
    /\ tail' = 0
    /\ wrote' = [wrote EXCEPT ![o] = {}]
    /\ UNCHANGED <<diskVars, cache, dirty, lh, buf, over>>

(* One iteration of write_log(): cache block to log block. *)
WriteLog ==
    /\ phase = "write_log"
    /\ IF tail < Len(lh)
       THEN /\ logdata' = [logdata EXCEPT ![tail + 1] = Content(lh[tail + 1])]
            /\ cache' = [cache EXCEPT ![lh[tail + 1]] = Content(lh[tail + 1])]
            /\ tail' = tail + 1
            /\ UNCHANGED phase
       ELSE /\ phase' = "write_head"
            /\ UNCHANGED <<logdata, cache, tail>>
    /\ UNCHANGED <<disk, dhead, dirty, logVars, opVars>>

(* write_head(): the commit point. *)
WriteHead ==
    /\ phase = "write_head"
    /\ dhead' = lh
    /\ phase' = "install"
    /\ tail' = 0
    /\ UNCHANGED <<disk, logdata, cache, dirty, logVars, opVars>>

(* One iteration of install_trans(): log block to home block, through the   *)
(* home block's buffer, which the disk driver marks clean.  The loop is     *)
(* left with log.lh.n = 0.                                                  *)
InstallTrans ==
    /\ phase = "install"
    /\ IF tail < Len(lh)
       THEN /\ disk' = [disk EXCEPT ![lh[tail + 1]] = logdata[tail + 1]]
            /\ cache' = [cache EXCEPT ![lh[tail + 1]] = logdata[tail + 1]]
            /\ dirty' = dirty \ {lh[tail + 1]}
            /\ tail' = tail + 1
            /\ UNCHANGED <<lh, phase>>
       ELSE /\ lh' = <<>>
            /\ phase' = "clear"
            /\ tail' = 0
            /\ UNCHANGED <<disk, cache, dirty>>
    /\ UNCHANGED <<logdata, dhead, outstanding, committing, opVars>>

(* write_head() with n = 0: the transaction is erased from the log. *)
ClearHead ==
    /\ phase = "clear"
    /\ dhead' = lh
    /\ phase' = IF committing = 1 THEN "end" ELSE "run"
    /\ UNCHANGED <<disk, logdata, cache, dirty, logVars, tail, opVars>>

(* The rest of end_op(), after commit(). *)
(* Variant with a bug: the wakeup() after commit() is missing. *)
EndCommitSilent(o) ==
    /\ phase = "end"
    /\ pc[o] = "commit"
    /\ committing' = 0
    /\ pc' = [pc EXCEPT ![o] = "idle"]
    /\ phase' = "run"
    /\ over' = FALSE
    /\ UNCHANGED <<diskVars, cache, dirty, lh, outstanding, tail, buf, wrote>>

EndCommit(o) ==
    /\ phase = "end"
    /\ pc[o] = "commit"
    /\ committing' = 0
    /\ pc' = Woken([pc EXCEPT ![o] = "idle"])
    /\ phase' = "run"
    /\ over' = FALSE
    /\ UNCHANGED <<diskVars, cache, dirty, lh, outstanding, tail, buf, wrote>>

-----------------------------------------------------------------------------
(* Variant with a bug: bget() looks at refcnt only. *)
EvictDirty(b) ==
    /\ cache[b] # None
    /\ \A o \in Op : buf[o] # b
    /\ cache' = [cache EXCEPT ![b] = None]
    /\ UNCHANGED <<diskVars, dirty, logVars, phase, tail, opVars>>

(* bget() recycles a buffer nobody uses and that is not dirty. *)
Evict(b) ==
    /\ cache[b] # None
    /\ b \notin dirty
    /\ \A o \in Op : buf[o] # b
    /\ cache' = [cache EXCEPT ![b] = None]
    /\ UNCHANGED <<diskVars, dirty, logVars, phase, tail, opVars>>

(* Power fails: memory is lost, the disk stays. *)
Crash ==
    /\ cache' = [b \in Block |-> None]
    /\ dirty' = {}
    /\ lh' = <<>>
    /\ outstanding' = 0
    /\ committing' = 0
    /\ phase' = "read_head"
    /\ tail' = 0
    /\ pc' = [o \in Op |-> "idle"]
    /\ buf' = [o \in Op |-> None]
    /\ wrote' = [o \in Op |-> {}]
    /\ over' = FALSE
    /\ UNCHANGED diskVars

(* initlog(): recover_from_log() reads the header and goes on with          *)
(* install_trans().                                                         *)
ReadHead ==
    /\ phase = "read_head"
    /\ lh' = dhead
    /\ phase' = "install"
    /\ tail' = 0
    /\ UNCHANGED <<diskVars, cache, dirty, outstanding, committing, opVars>>

-----------------------------------------------------------------------------
OpStep(o) == BeginOp(o) \/ LogCheck(o) \/ LogAppend(o) \/ EndCommit(o)

DiskStep == WriteLog \/ WriteHead \/ InstallTrans \/ ClearHead \/ ReadHead

(* Two calls that pass the unlocked test of log_write() together can append *)
(* past the end of the array or of the log area.  What the machine does     *)
(* then is not modelled: it is turned off.                                  *)
Next == \/ /\ Fits(lh)
           /\ \/ \E o \in Op : \/ OpStep(o) \/ EndOp(o) \/ Kill(o)
                               \/ \E b \in Block, v \in Val : Modify(o, b, v)
              \/ DiskStep
              \/ \E b \in Block : Evict(b)
        \/ Crash

Spec == Init /\ [][Next]_vars

(* Started calls keep running and end after finitely many writes; the disk  *)
(* answers.  Nothing obliges the machine to crash or the cache to evict.    *)
Fairness == /\ \A o \in Op : /\ WF_vars(Fits(lh) /\ OpStep(o) /\ pc[o] # "idle")
                             /\ SF_vars(Fits(lh) /\ EndOp(o))
            /\ WF_vars(DiskStep)

FairSpec == Spec /\ Fairness

-----------------------------------------------------------------------------
(* Properties *)

TypeOK == /\ disk \in [Block -> Val]
          /\ logdata \in [1..LOGSIZE -> Val]
          /\ dhead \in Seq(Block) /\ lh \in Seq(Block)
          /\ cache \in [Block -> Val \cup {None}]
          /\ dirty \subseteq Block
          /\ outstanding \in Nat
          /\ committing \in {0, 1}
          /\ phase \in Phase
          /\ tail \in 0..LOGSIZE
          /\ pc \in [Op -> Label]
          /\ buf \in [Op -> Block \cup {None}]
          /\ wrote \in [Op -> SUBSET Block]
          /\ over \in BOOLEAN

Panicked == \E o \in Op : pc[o] = "panic"

(* begin_op()'s reservation is enough for the calls that leave a block of   *)
(* it: log_write() and end_op() panic, and the transaction outgrows the     *)
(* array or the log area, only when some call of it used up its             *)
(* MAXOPBLOCKS.                                                             *)
SpaceEnough == Panicked \/ ~Fits(lh) => over

(* A commit excludes file system calls: nobody is between begin_op() and    *)
(* end_op(), and log.outstanding counts exactly the calls that are.         *)
CommitExcludesOps ==
    /\ outstanding = Cardinality({o \in Op : pc[o] \in InOp})
    /\ committing = 1 => outstanding = 0

Recovering == committing = 0 /\ phase # "run"

(* What makes these inductive.  A commit is the work of one call, and       *)
(* nothing but recovery runs before the log is recovered.                   *)
OneAtWork ==
    /\ committing = 1 => phase \in {"write_log", "write_head", "install", "clear", "end"}
    /\ committing = 0 => phase \in {"run", "read_head", "install", "clear"}
    /\ \A o \in Op : pc[o] = "commit" => committing = 1 /\ \A q \in Op : pc[q] = "commit" => q = o
    /\ Recovering => \A o \in Op : pc[o] = "idle"

(* Blocks that are logged or about to be. *)
Claimed == {b \in Block : b \in Logged(lh) \/ \E o \in Op : buf[o] = b}

(* Who changed which block. *)
Changes == {x \in Op \X Block : x[2] \in wrote[x[1]]}

(* Each call accounts for the blocks it changed. *)
Accounts ==
    \A o \in Op : /\ IsFiniteSet(wrote[o]) /\ (~over => Cardinality(wrote[o]) < MAXOPBLOCKS)
                  /\ wrote[o] \subseteq Claimed /\ (buf[o] # None => buf[o] \in wrote[o])
                  /\ pc[o] \notin InOp => wrote[o] = {}

(* What is claimed and what is still reserved fits the log; when a single   *)
(* call is left, a call that ended has returned part of its reservation.    *)
Budget ==
    /\ Cardinality(Claimed) + outstanding * MAXOPBLOCKS <= LOGSIZE + Cardinality(Changes)
    /\ outstanding = 1 => \/ Cardinality(Claimed) <= Cardinality(Changes)
                          \/ Cardinality(Claimed) + MAXOPBLOCKS < LOGSIZE + Cardinality(Changes)

Reserve == Accounts /\ (~over => Budget)

Distinct(s) == \A i, j \in 1..Len(s) : s[i] = s[j] => i = j

(* A buffer differs from its home block only while somebody changes it or   *)
(* the log pins it.                                                         *)
Pinned ==
    /\ dirty \subseteq Logged(lh)
    /\ \A o \in Op : buf[o] # None <=> pc[o] \in {"check", "append", "panic"}
    /\ \A b \in Block : /\ cache[b] # None => cache[b] = disk[b] \/ b \in dirty \/ \E o \in Op : buf[o] = b
                        /\ b \in dirty \/ (\E o \in Op : buf[o] = b) => cache[b] # None
    /\ Recovering => dirty = {}

(* How far the transaction has got on its way from the cache over the log   *)
(* to the home blocks.                                                      *)
Journal ==
    /\ Distinct(lh) /\ (phase # "run" => Fits(lh))
    /\ Distinct(dhead) /\ Fits(dhead)
    /\ phase \in {"run", "write_log", "write_head"} => Logged(lh) \subseteq dirty /\ dhead = <<>>
    /\ phase = "run" /\ outstanding = 0 => lh = <<>>
    /\ phase = "write_log" => tail <= Len(lh) /\ \A i \in 1..tail : logdata[i] = cache[lh[i]]
    /\ phase = "write_head" => \A i \in 1..Len(lh) : logdata[i] = cache[lh[i]]
    /\ phase = "install" =>
           /\ lh = dhead /\ tail <= Len(lh)
           /\ \A i \in 1..tail : disk[lh[i]] = logdata[i] /\ lh[i] \notin dirty
           /\ committing = 1 => \A i \in (tail + 1)..Len(lh) : lh[i] \in dirty /\ cache[lh[i]] = logdata[i]
    /\ phase = "clear" => lh = <<>> /\ \A i \in 1..Len(dhead) : disk[dhead[i]] = logdata[i]
    /\ phase = "end" => lh = <<>> /\ dhead = <<>>
    /\ phase = "read_head" => lh = <<>>

(* log.c's bookkeeping as a whole: the header in memory and log.outstanding *)
(* agree with the calls at work, and log, cache and home blocks with each   *)
(* other, whatever was committed, crashed and recovered meanwhile.          *)
LogInv == /\ TypeOK /\ CommitExcludesOps /\ SpaceEnough
          /\ OneAtWork /\ Reserve /\ Pinned /\ Journal

(* No call sleeps in begin_op() when it could run: the wake-ups of end_op() *)
(* are issued whenever space may have become free.                          *)
NoMissedLogSpace == (\E o \in Op : pc[o] = "asleep") => MustWait

(* Every call that sleeps in begin_op() is woken, unless the transaction    *)
(* outgrew the log.                                                         *)
SleepersWoken == \A o \in Op : pc[o] = "asleep" ~> pc[o] # "asleep" \/ Panicked \/ ~Fits(lh)

(* Blocks as a reboot would find them: the log, if the header names it,     *)
(* over the home blocks.                                                    *)
Recovered == [b \in Block |->
                IF b \in Logged(dhead)
                THEN logdata[CHOOSE i \in 1..Len(dhead) : dhead[i] = b]
                ELSE disk[b]]

(* Blocks as bread() would give them, once recovery is done. *)
Current == IF Recovering THEN Recovered ELSE [b \in Block |-> Content(b)]

Active == {o \in Op : pc[o] \in InOp}

(* The log implements atomic transactions across crashes. *)
Atomic == INSTANCE AtomicDisk WITH current <- Current, durable <- Recovered, active <- Active

CrashAtomic == Atomic!Spec
=============================================================================
