--------------------------- MODULE BufCacheProofs ---------------------------
(* The invariant of the buffer cache and its refinement of a store of       *)
(* blocks, for any number of processes, blocks and buffers.                 *)
EXTENDS BufCache, FiniteSetTheorems, SequenceTheorems, TLAPS

-----------------------------------------------------------------------------
(* Counting *)

LEMMA BufFinite == IsFiniteSet(Buf) /\ Cardinality(Buf) = NBUF
BY CacheAssumption, FS_Interval DEF Buf

LEMMA HandsFinite == IsFiniteSet(Hand) /\ Cardinality(Hand) \in Nat
<1>1. 1 \in Int /\ 2 \in Int /\ {1, 2} = 1..2 OBVIOUS
<1>2. IsFiniteSet({1, 2}) BY <1>1, FS_Interval
<1>3. IsFiniteSet(Proc \X {1, 2}) BY <1>2, NamesAssumption, FS_Product
<1> QED BY <1>3, FS_CardinalityType DEF Hand

(* A set of hands is finite and not larger than Hand. *)
LEMMA HandSubset ==
    ASSUME NEW S \in SUBSET Hand
    PROVE  IsFiniteSet(S) /\ Cardinality(S) \in 0..Cardinality(Hand)
BY HandsFinite, FS_Subset, FS_CardinalityType

(* The processes that refer to a buffer, when p takes or drops one. *)
LEMMA OneMore ==
    ASSUME NEW S \in SUBSET Hand, NEW p \in Hand \ S
    PROVE  Cardinality(S \cup {p}) = Cardinality(S) + 1
BY HandSubset, FS_AddElement

LEMMA OneLess ==
    ASSUME NEW S \in SUBSET Hand, NEW p \in S
    PROVE  Cardinality(S \ {p}) = Cardinality(S) - 1
BY HandSubset, FS_RemoveElement

LEMMA RefTaken ==
    ASSUME CacheInv, NEW p \in Hand, buf[p] = 0, NEW b \in Buf,
           buf' = [buf EXCEPT ![p] = b], refcnt' = [refcnt EXCEPT ![b] = @ + 1]
    PROVE  RefsCounted' /\ refcnt' \in [Buf -> 0..Cardinality(Hand)]
<1> DEFINE refs(c) == {q \in Hand : buf[q] = c}
           new(c) == {q \in Hand : buf'[q] = c}
<1>1. refcnt \in [Buf -> 0..Cardinality(Hand)] /\ buf \in [Hand -> Buf \cup {0}] /\ 0 \notin Buf
  BY DEF CacheInv, TypeOK, Buf
<1>2. \A c \in Buf : refcnt'[c] = Cardinality(new(c))
  <2> TAKE c \in Buf
  <2>1. refcnt[c] = Cardinality(refs(c)) BY DEF CacheInv, RefsCounted
  <2>2. CASE c = b
    <3>1. new(c) = refs(c) \cup {p} /\ p \in Hand \ refs(c) BY <1>1, <2>2
    <3> QED BY <1>1, <2>1, <2>2, <3>1, OneMore
  <2>3. CASE c # b
    <3>1. new(c) = refs(c) BY <1>1, <2>3
    <3> QED BY <1>1, <2>1, <2>3, <3>1
  <2> QED BY <2>2, <2>3
<1>3. refcnt' \in [Buf -> 0..Cardinality(Hand)]
  <2>1. \A c \in Buf : Cardinality(new(c)) \in 0..Cardinality(Hand) BY HandSubset
  <2> QED BY <1>1, <1>2, <2>1
<1> QED BY <1>2, <1>3 DEF RefsCounted

LEMMA RefDropped ==
    ASSUME CacheInv, NEW p \in Hand, buf[p] # 0,
           buf' = [buf EXCEPT ![p] = 0], refcnt' = [refcnt EXCEPT ![buf[p]] = @ - 1]
    PROVE  RefsCounted' /\ refcnt' \in [Buf -> 0..Cardinality(Hand)]
<1> DEFINE refs(c) == {q \in Hand : buf[q] = c}
           new(c) == {q \in Hand : buf'[q] = c}
<1>1. refcnt \in [Buf -> 0..Cardinality(Hand)] /\ buf \in [Hand -> Buf \cup {0}] /\ 0 \notin Buf
  BY DEF CacheInv, TypeOK, Buf
<1>2. \A c \in Buf : refcnt'[c] = Cardinality(new(c))
  <2> TAKE c \in Buf
  <2>1. refcnt[c] = Cardinality(refs(c)) BY DEF CacheInv, RefsCounted
  <2>2. CASE c = buf[p]
    <3>1. new(c) = refs(c) \ {p} /\ p \in refs(c) BY <1>1, <2>2
    <3> QED BY <1>1, <2>1, <2>2, <3>1, OneLess
  <2>3. CASE c # buf[p]
    <3>1. new(c) = refs(c) BY <1>1, <2>3
    <3> QED BY <1>1, <2>1, <2>3, <3>1
  <2> QED BY <2>2, <2>3
<1>3. refcnt' \in [Buf -> 0..Cardinality(Hand)]
  <2>1. \A c \in Buf : Cardinality(new(c)) \in 0..Cardinality(Hand) BY HandSubset
  <2> QED BY <1>1, <1>2, <2>1
<1> QED BY <1>2, <1>3 DEF RefsCounted

(* The bound on pinned buffers carries over to what is contained in them. *)
LEMMA FewerPinned ==
    ASSUME CacheInv, Pinned' \subseteq Pinned
    PROVE  PinsBounded'
<1>1. IsFiniteSet(Pinned)
  BY BufFinite, FS_Subset DEF Pinned
<1>2. Cardinality(Pinned') <= Cardinality(Pinned) /\ Cardinality(Pinned) \in Nat /\ Cardinality(Pinned') \in Nat
  BY <1>1, FS_Subset, FS_CardinalityType
<1> QED BY <1>2, CacheAssumption DEF CacheInv, PinsBounded

(* bget() gives up only when every buffer is in a hand or the log's. *)
LEMMA NoneReusable ==
    ASSUME CacheInv, \A b \in Buf : ~Reusable(b), NEW b \in Buf, b \notin Pinned
    PROVE  \E h \in Hand : buf[h] = b
<1> SUFFICES ASSUME ~\E h \in Hand : buf[h] = b PROVE FALSE
  OBVIOUS
<1>1. {h \in Hand : buf[h] = b} = {} OBVIOUS
<1>2. refcnt[b] = 0 BY <1>1, FS_EmptySet DEF CacheInv, RefsCounted
<1> QED BY <1>2 DEF Reusable, Pinned, CacheInv, TypeOK

-----------------------------------------------------------------------------
LEMMA InitCacheInv == Init => CacheInv
<1> SUFFICES ASSUME Init PROVE CacheInv
  OBVIOUS
<1>1. TypeOK
  <2>1. Cardinality(Hand) \in Nat
    BY HandsFinite
  <2>2. lru \in [Buf -> Buf] /\ \A b \in Buf : \E i \in Buf : lru[i] = b
    <3>1. \A i \in Buf : NBUF + 1 - i \in Buf BY CacheAssumption DEF Buf
    <3>2. \A b \in Buf : NBUF + 1 - (NBUF + 1 - b) = b BY CacheAssumption DEF Buf
    <3> QED BY <3>1, <3>2 DEF Init
  <2> QED BY <2>1, <2>2, NamesAssumption DEF Init, TypeOK, NoCmd
<1>2. RefsCounted
  <2>1. \A b \in Buf : {p \in Hand : buf[p] = b} = {}
    BY CacheAssumption DEF Init, Buf
  <2> QED BY <2>1, FS_EmptySet DEF Init, RefsCounted
<1>3. OneCopy /\ NoPanic /\ LocksHeld /\ FlagsRight
  BY CacheAssumption DEF Init, OneCopy, NoPanic, LocksHeld, HasLock, FlagsRight, Buf
<1>4. QueueRight /\ NoStuckIo /\ CleanIsDisk
  BY DEF Init, QueueRight, NoStuckIo, CleanIsDisk, NoCmd
<1>5. PinsBounded
  <2>1. Pinned = {} BY DEF Init, Pinned
  <2> QED BY <2>1, FS_EmptySet, CacheAssumption DEF PinsBounded
<1> QED BY <1>1, <1>2, <1>3, <1>4, <1>5 DEF CacheInv
-----------------------------------------------------------------------------
LEMMA FirstQueued ==
    ASSUME NEW s \in Seq(Buf), s # <<>>
    PROVE  1 \in DOMAIN s /\ s[1] = Head(s) /\ Head(s) \in Buf
BY EmptySeq, LenProperties, HeadTailProperties

(* The queue of the drive does not see a step of a process that does not    *)
(* wait for it, on a buffer that is not queued.                             *)
LEMMA QueueKept ==
    ASSUME CacheInv, NEW p \in Hand, pc[p] # "wait",
           \A q \in Hand \ {p} : buf'[q] = buf[q] /\ pc'[q] = pc[q],
           pc'[p] # "wait",
           UNCHANGED <<idequeue, cmd, memdisk, asleep>>,
           \A c \in Buf : lock[c] # NoProc /\ pc[lock[c]] = "wait" =>
               /\ valid'[c] = valid[c] /\ dirty'[c] = dirty[c] /\ data'[c] = data[c]
               /\ lock'[c] = lock[c] /\ blockno'[c] = blockno[c]
    PROVE  QueueRight' /\ NoStuckIo'
<1> DEFINE queued(c) == \E i \in DOMAIN idequeue : idequeue[i] = c
<1>1. \A c : queued(c) => /\ c \in Buf /\ ~NothingToDo(c) /\ lock[c] # NoProc
                          /\ lock[c] \in Hand /\ pc[lock[c]] = "wait"
  <2>1. \A i \in DOMAIN idequeue : idequeue[i] \in Buf
    BY DEF CacheInv, TypeOK
  <2> QED BY <2>1 DEF CacheInv, TypeOK, QueueRight
<1>2. \A c : queued(c) => /\ valid'[c] = valid[c] /\ dirty'[c] = dirty[c] /\ data'[c] = data[c]
                          /\ lock'[c] = lock[c] /\ blockno'[c] = blockno[c] /\ lock[c] # p
  BY <1>1
<1>3. \A c : queued(c) => (NothingToDo(c)' <=> NothingToDo(c))
  BY <1>2 DEF NothingToDo
<1>4. p \notin asleep
  BY DEF CacheInv, QueueRight
<1>5. \A q \in Hand : pc[q] = "wait" => /\ buf[q] \in Buf /\ lock[buf[q]] = q /\ q # NoProc
                                        /\ valid'[buf[q]] = valid[buf[q]] /\ dirty'[buf[q]] = dirty[buf[q]]
  <2>1. \A q \in Hand : pc[q] = "wait" => buf[q] \in Buf /\ lock[buf[q]] = q /\ q # NoProc
    BY NamesAssumption DEF CacheInv, TypeOK, LocksHeld, HasLock
  <2> QED BY <2>1
<1>6. idequeue # <<>> => queued(Head(idequeue))
  BY FirstQueued DEF CacheInv, TypeOK
<1>7. NoStuckIo'
  <2>1. idequeue' # <<>> => blockno'[Head(idequeue)] = cmd'.block /\ dirty'[Head(idequeue)] = cmd'.write
    BY <1>2, <1>6 DEF CacheInv, NoStuckIo
  <2>2. \A q \in asleep' : \E i \in DOMAIN idequeue : idequeue[i] = buf'[q] /\ ~NothingToDo(buf[q])'
    <3> TAKE q \in asleep'
    <3>1. q \in asleep /\ q \in Hand /\ buf'[q] = buf[q]
      BY <1>4 DEF CacheInv, TypeOK
    <3>2. PICK i \in DOMAIN idequeue : idequeue[i] = buf[q] /\ ~NothingToDo(buf[q])
      BY <3>1 DEF CacheInv, NoStuckIo
    <3> QED BY <1>2, <3>1, <3>2 DEF NothingToDo
  <2> QED BY <2>1, <2>2 DEF CacheInv, NoStuckIo
<1>8. QueueRight'
  <2>1. \A i \in DOMAIN idequeue : LET c == idequeue[i]
                                  IN  ~NothingToDo(c)' /\ lock'[c] # NoProc /\ pc'[lock'[c]] = "wait"
    BY <1>1, <1>2, <1>3
  <2>2. \A q \in Hand : q \in asleep' => pc'[q] = "wait" /\ ~NothingToDo(buf[q])'
    BY <1>4, <1>5 DEF CacheInv, QueueRight, NothingToDo
  <2>3. \A q \in Hand : pc'[q] = "wait" => NothingToDo(buf[q])' \/ queued(buf'[q])
    BY <1>5 DEF CacheInv, QueueRight, NothingToDo
  <2>4. cmd'.write => cmd'.data = data'[Head(idequeue')]
    <3>1. cmd.write => idequeue # <<>>
      BY DEF CacheInv, NoStuckIo, NoCmd
    <3> QED BY <1>2, <1>6, <3>1 DEF CacheInv, QueueRight
  <2> QED BY <2>1, <2>2, <2>3, <2>4 DEF CacheInv, QueueRight
<1> QED BY <1>7, <1>8

(* bget(): the buffer it takes is the block's, or was nobody's. *)
LEMMA HitStep ==
    ASSUME CacheInv, panicked = "none", NEW p \in Hand, pc[p] = "idle", NEW n \in Block, NEW b \in Buf,
           Hit(p, n, b), buf' = [buf EXCEPT ![p] = b], Goto(p, "lock"),
           UNCHANGED <<data, lock, lru, idequeue, cmd, disk, memdisk, asleep, writes, panicked>>
    PROVE  CacheInv'
<1>1. /\ blockno[b] = n /\ refcnt' = [refcnt EXCEPT ![b] = @ + 1] /\ pc' = [pc EXCEPT ![p] = "lock"]
      /\ UNCHANGED <<blockno, valid, dirty, data, lock, lru, idequeue, cmd, disk, bad, memdisk, asleep, panicked>>
  BY DEF Hit, Goto
<1>2. buf[p] = 0 /\ 0 \notin Buf /\ \A c \in Buf : lock[c] # p
  BY NamesAssumption DEF CacheInv, LocksHeld, HasLock, Buf
<1>3. RefsCounted' /\ refcnt' \in [Buf -> 0..Cardinality(Hand)]
  BY <1>1, <1>2, RefTaken
<1>4. TypeOK'
  BY <1>1, <1>3 DEF CacheInv, TypeOK
<1>5. LocksHeld'
  BY <1>1, <1>2 DEF CacheInv, TypeOK, LocksHeld, HasLock
<1>6. FlagsRight'
  BY <1>1, <1>2 DEF CacheInv, TypeOK, FlagsRight, NothingToDo
<1>7. QueueRight' /\ NoStuckIo'
  BY <1>1, QueueKept DEF CacheInv, TypeOK
<1>8. PinsBounded'
  BY <1>1, <1>2, FewerPinned DEF CacheInv, TypeOK, Pinned
<1> QED BY <1>1, <1>3, <1>4, <1>5, <1>6, <1>7, <1>8
        DEF CacheInv, OneCopy, NoPanic, CleanIsDisk

LEMMA RecycleStep ==
    ASSUME CacheInv, panicked = "none", NEW p \in Hand, pc[p] = "idle", NEW n \in Block, NEW b \in Buf,
           ~Cached(n), Recycle(p, n, b), buf' = [buf EXCEPT ![p] = b], Goto(p, "lock"),
           UNCHANGED <<data, lock, lru, idequeue, cmd, disk, memdisk, asleep, writes, panicked>>
    PROVE  CacheInv'
<1>1. /\ refcnt[b] = 0 /\ ~dirty[b] /\ \A c \in Buf : blockno[c] # n
      /\ blockno' = [blockno EXCEPT ![b] = n]
      /\ valid' = [valid EXCEPT ![b] = FALSE] /\ dirty' = [dirty EXCEPT ![b] = FALSE]
      /\ refcnt' = [refcnt EXCEPT ![b] = 1] /\ bad' = bad \ {blockno[b]}
      /\ pc' = [pc EXCEPT ![p] = "lock"]
      /\ UNCHANGED <<data, lock, lru, idequeue, cmd, disk, memdisk, asleep, panicked>>
  BY DEF Cached, Recycle, Reusable, Goto
<1>2. buf[p] = 0 /\ 0 \notin Buf /\ \A c \in Buf : lock[c] # p
  BY NamesAssumption DEF CacheInv, LocksHeld, HasLock, Buf
<1>3. \A q \in Hand : buf[q] # b
  <2>1. IsFiniteSet({q \in Hand : buf[q] = b}) BY HandSubset
  <2>2. {q \in Hand : buf[q] = b} = {}
    BY <1>1, <2>1, FS_EmptySet DEF CacheInv, RefsCounted
  <2> QED BY <2>2
<1>4. lock[b] = NoProc
  BY <1>3 DEF CacheInv, TypeOK, LocksHeld
<1>5. RefsCounted' /\ refcnt' \in [Buf -> 0..Cardinality(Hand)]
  <2>1. refcnt' = [refcnt EXCEPT ![b] = @ + 1] BY <1>1
  <2> QED BY <1>2, <2>1, RefTaken
<1>6. TypeOK'
  BY <1>1, <1>5 DEF CacheInv, TypeOK
<1>7. OneCopy'
  BY <1>1, NamesAssumption DEF CacheInv, TypeOK, OneCopy
<1>8. LocksHeld'
  BY <1>1, <1>2 DEF CacheInv, TypeOK, LocksHeld, HasLock
<1>9. FlagsRight'
  BY <1>1, <1>2, <1>3 DEF CacheInv, TypeOK, FlagsRight, NothingToDo, LocksHeld
<1>10. QueueRight' /\ NoStuckIo'
  BY <1>1, <1>4, QueueKept DEF CacheInv, TypeOK
<1>11. PinsBounded'
  BY <1>1, <1>2, FewerPinned DEF CacheInv, TypeOK, Pinned
<1>12. CleanIsDisk'
  BY <1>1, NamesAssumption DEF CacheInv, TypeOK, CleanIsDisk, FlagsRight, OneCopy
<1> QED BY <1>1, <1>5, <1>6, <1>7, <1>8, <1>9, <1>10, <1>11, <1>12 DEF CacheInv, NoPanic

(* A step that changes none of what the invariant is about. *)
LEMMA SameKeeps ==
    ASSUME CacheInv, NoPanic', UNCHANGED <<cache, drive, memdisk, pc, buf, asleep>>
    PROVE  CacheInv'
<1>1. UNCHANGED <<blockno, valid, dirty, refcnt, data, lock, lru, idequeue, cmd, disk, bad>>
  BY DEF cache, drive
<1>2. TypeOK' BY <1>1 DEF CacheInv, TypeOK
<1>3. OneCopy' /\ RefsCounted' /\ LocksHeld' /\ CleanIsDisk'
  BY <1>1 DEF CacheInv, OneCopy, RefsCounted, LocksHeld, HasLock, CleanIsDisk
<1>4. FlagsRight' BY <1>1 DEF CacheInv, FlagsRight, NothingToDo
<1>5. QueueRight' BY <1>1 DEF CacheInv, QueueRight, NothingToDo
<1>6. NoStuckIo' BY <1>1 DEF CacheInv, NoStuckIo, NothingToDo
<1>7. PinsBounded' BY <1>1 DEF CacheInv, PinsBounded, Pinned
<1> QED BY <1>2, <1>3, <1>4, <1>5, <1>6, <1>7 DEF CacheInv

LEMMA BgetStep ==
    ASSUME CacheInv, panicked = "none", NEW p \in Hand, NEW n \in Block, Bget(p, n)
    PROVE  CacheInv'
<1>1. pc[p] = "idle" BY DEF Bget
<1>2. CASE Panic("bget: no buffers") /\ \A b \in Buf : ~Reusable(b)
  <2>1. /\ panicked' = "bget: no buffers"
        /\ UNCHANGED <<cache, drive, memdisk, pc, buf, asleep>>
    BY <1>2 DEF Panic
  <2>2. Pinned' = Pinned BY <2>1 DEF Pinned, cache
  <2>3. NoPanic' BY <1>2, <2>1, <2>2, NoneReusable DEF NoPanic
  <2> QED BY <2>1, <2>3, SameKeeps
<1>3. CASE ~Panic("bget: no buffers") \/ \E b \in Buf : Reusable(b)
  <2>1. PICK b \in Buf : /\ IF Cached(n) THEN Hit(p, n, b) ELSE Recycle(p, n, b)
                         /\ buf' = [buf EXCEPT ![p] = b] /\ Goto(p, "lock")
                         /\ UNCHANGED <<data, lock, lru, idequeue, cmd, disk, memdisk, asleep, writes, panicked>>
    BY <1>3 DEF Bget
  <2> QED BY <1>1, <2>1, HitStep, RecycleStep
<1> QED BY <1>2, <1>3

-----------------------------------------------------------------------------
LEMMA BreadStep ==
    ASSUME CacheInv, panicked = "none", NEW p \in Hand, Bread(p)
    PROVE  CacheInv'
<1> DEFINE b == buf[p]
<1>1. /\ pc[p] = "lock" /\ b \in Buf /\ lock[b] = NoProc /\ lock' = [lock EXCEPT ![b] = p]
      /\ pc' = [pc EXCEPT ![p] = IF valid[b] THEN "held" ELSE "rw"]
      /\ UNCHANGED <<blockno, valid, dirty, refcnt, data, lru, drive, memdisk, buf, asleep, panicked>>
  BY DEF Bread, Goto, CacheInv, TypeOK, LocksHeld
<1>2. TypeOK'
  BY <1>1 DEF CacheInv, TypeOK, drive
<1>3. LocksHeld'
  BY <1>1, NamesAssumption DEF CacheInv, TypeOK, LocksHeld, HasLock
<1>4. FlagsRight'
  BY <1>1 DEF CacheInv, TypeOK, FlagsRight, NothingToDo, LocksHeld
<1>5. QueueRight' /\ NoStuckIo'
  BY <1>1, QueueKept DEF CacheInv, TypeOK, drive
<1>6. PinsBounded'
  <2>1. Pinned' \subseteq Pinned
    BY <1>1 DEF CacheInv, TypeOK, FlagsRight, Pinned
  <2> QED BY <2>1, FewerPinned
<1> QED BY <1>1, <1>2, <1>3, <1>4, <1>5, <1>6
        DEF CacheInv, OneCopy, RefsCounted, NoPanic, CleanIsDisk, drive

(* bwrite() and log_write(): the new contents are the buffer's alone. *)
LEMMA WriteStep ==
    ASSUME CacheInv, panicked = "none", NEW p \in Hand, NEW v \in Val, Bwrite(p, v) \/ LogWrite(p, v)
    PROVE  CacheInv'
<1> DEFINE b == buf[p]
<1>1. /\ pc[p] = "held" /\ b \in Buf /\ lock[b] = p /\ valid[b]
      /\ data' = [data EXCEPT ![b] = v] /\ dirty' = [dirty EXCEPT ![b] = TRUE]
      /\ UNCHANGED <<blockno, valid, refcnt, lock, lru, drive, memdisk, buf, asleep, panicked>>
  BY DEF Bwrite, LogWrite, CacheInv, TypeOK, LocksHeld, HasLock, FlagsRight
<1>2. /\ pc' \in [Hand -> {"idle", "lock", "held", "rw", "wait", "rel"}]
      /\ \A q \in Hand \ {p} : pc'[q] = pc[q]
      /\ pc'[p] \in {"held", "rw"}
  <2>1. pc' = [pc EXCEPT ![p] = "rw"] \/ pc' = pc
    BY DEF Bwrite, LogWrite, Goto
  <2>2. pc \in [Hand -> {"idle", "lock", "held", "rw", "wait", "rel"}] /\ pc[p] = "held"
    BY <1>1 DEF CacheInv, TypeOK
  <2> QED BY <2>1, <2>2
<1>3. TypeOK'
  BY <1>1, <1>2 DEF CacheInv, TypeOK, drive
<1>4. LocksHeld'
  <2>1. \A q \in Hand : /\ pc'[q] \in {"held", "rw", "wait"} <=> pc[q] \in {"held", "rw", "wait"}
                        /\ pc'[q] = "idle" <=> pc[q] = "idle"
    BY <1>1, <1>2
  <2>2. lock' = lock /\ buf' = buf /\ lock \in [Buf -> Hand \cup {NoProc}]
    BY <1>1 DEF CacheInv, TypeOK
  <2>3. \A q \in Hand : /\ pc'[q] = "idle" <=> buf[q] = 0
                        /\ pc'[q] \in {"held", "rw", "wait"} => lock[buf[q]] = q
    BY <2>1 DEF CacheInv, LocksHeld, HasLock
  <2>4. \A c \in Buf : lock[c] # NoProc => buf[lock[c]] = c /\ pc'[lock[c]] \in {"held", "rw", "wait"}
    BY <2>1, <2>2 DEF CacheInv, LocksHeld, HasLock
  <2> QED BY <2>2, <2>3, <2>4 DEF LocksHeld, HasLock
<1>5. FlagsRight'
  BY <1>1, <1>2 DEF CacheInv, TypeOK, FlagsRight, NothingToDo, LocksHeld
<1>6. QueueRight' /\ NoStuckIo'
  BY <1>1, <1>2, QueueKept DEF CacheInv, TypeOK, drive
<1>7. PinsBounded'
  <2>1. CASE Bwrite(p, v)
    <3>1. pc'[p] = "rw" BY <2>1 DEF Bwrite, Goto, CacheInv, TypeOK
    <3>2. Pinned' \subseteq Pinned
      BY <1>1, <1>2, <3>1 DEF CacheInv, TypeOK, Pinned
    <3> QED BY <3>2, FewerPinned
  <2>2. CASE LogWrite(p, v)
    <3> DEFINE D == {c \in Buf : dirty[c]} \cup {b}
    <3>1. D \in SUBSET Buf /\ Pinned' \in SUBSET D
      BY <1>1 DEF CacheInv, TypeOK, Pinned
    <3>2. IsFiniteSet(D) BY <3>1, BufFinite, FS_Subset
    <3>3. Cardinality(D) <= MaxPinned /\ Cardinality(D) \in Nat
      BY <2>2, <3>2, FS_CardinalityType DEF LogWrite
    <3>4. Cardinality(Pinned') <= Cardinality(D) /\ Cardinality(Pinned') \in Nat
      BY <3>1, <3>2, FS_Subset, FS_CardinalityType
    <3> HIDE DEF D
    <3> QED BY <3>3, <3>4, CacheAssumption DEF PinsBounded
  <2> QED BY <2>1, <2>2
<1>8. CleanIsDisk'
  BY <1>1 DEF CacheInv, TypeOK, CleanIsDisk, drive
<1> QED BY <1>1, <1>3, <1>4, <1>5, <1>6, <1>7, <1>8
        DEF CacheInv, OneCopy, RefsCounted, NoPanic, drive

-----------------------------------------------------------------------------
LEMMA BrelseUnlockStep ==
    ASSUME CacheInv, panicked = "none", NEW p \in Hand, BrelseUnlock(p)
    PROVE  CacheInv'
<1> DEFINE b == buf[p]
<1>1. /\ pc[p] = "held" /\ b \in Buf /\ lock[b] = p /\ lock' = [lock EXCEPT ![b] = NoProc]
      /\ pc' = [pc EXCEPT ![p] = "rel"]
      /\ UNCHANGED <<blockno, valid, dirty, refcnt, data, lru, drive, memdisk, buf, asleep, panicked>>
  BY DEF BrelseUnlock, Goto, CacheInv, TypeOK, LocksHeld, HasLock
<1>2. TypeOK'
  BY <1>1 DEF CacheInv, TypeOK, drive
<1>3. LocksHeld'
  BY <1>1, NamesAssumption DEF CacheInv, TypeOK, LocksHeld, HasLock
<1>4. FlagsRight'
  BY <1>1 DEF CacheInv, TypeOK, FlagsRight, NothingToDo
<1>5. QueueRight' /\ NoStuckIo'
  BY <1>1, QueueKept DEF CacheInv, TypeOK, drive
<1>6. PinsBounded'
  <2>1. Pinned' \subseteq Pinned
    BY <1>1 DEF CacheInv, TypeOK, Pinned
  <2> QED BY <2>1, FewerPinned
<1> QED BY <1>1, <1>2, <1>3, <1>4, <1>5, <1>6
        DEF CacheInv, OneCopy, RefsCounted, NoPanic, CleanIsDisk, drive

(* Moving a buffer to the front loses none. *)
LEMMA ToFrontKeepsAll ==
    ASSUME TypeOK, NEW b \in Buf
    PROVE  ToFront(b) \in [Buf -> Buf] /\ \A c \in Buf : \E i \in Buf : ToFront(b)[i] = c
<1>1. lru \in [Buf -> Buf] /\ \A c \in Buf : \E i \in Buf : lru[i] = c
  BY DEF TypeOK
<1>2. ToFront(b) \in [Buf -> Buf]
  <2>1. \A i \in Buf : i # 1 => i - 1 \in Buf BY CacheAssumption DEF Buf
  <2> QED BY <1>1, <2>1 DEF ToFront
<1>3. ASSUME NEW c \in Buf PROVE \E i \in Buf : ToFront(b)[i] = c
  <2>1. CASE c = b
    BY <2>1, CacheAssumption DEF ToFront, Buf
  <2>2. CASE c # b
    <3>1. PICK k \in Buf : lru[k] = c BY <1>1
    <3>2. CASE \E j \in 1..(k - 1) : lru[j] = b
      BY <3>1, <3>2 DEF ToFront, Buf
    <3>3. CASE ~\E j \in 1..(k - 1) : lru[j] = b
      <4>1. PICK l \in Buf : lru[l] = b BY <1>1
      <4>2. k + 1 \in Buf
        BY <2>2, <3>1, <3>3, <4>1, CacheAssumption DEF Buf
      <4>3. ~\E j \in 1..((k + 1) - 1) : lru[j] = b
        BY <2>2, <3>1, <3>3, CacheAssumption DEF Buf
      <4>4. ToFront(b)[k + 1] = lru[(k + 1) - 1]
        BY <4>2, <4>3, CacheAssumption DEF ToFront, Buf
      <4> QED BY <3>1, <4>2, <4>4, CacheAssumption DEF Buf
    <3> QED BY <3>2, <3>3
  <2> QED BY <2>1, <2>2
<1> QED BY <1>2, <1>3

LEMMA BrelseStep ==
    ASSUME CacheInv, panicked = "none", NEW p \in Hand, Brelse(p)
    PROVE  CacheInv'
<1> DEFINE b == buf[p]
<1>1. /\ pc[p] = "rel" /\ b \in Buf /\ b # 0 /\ refcnt' = [refcnt EXCEPT ![b] = @ - 1]
      /\ lru' = (IF refcnt[b] = 1 THEN ToFront(b) ELSE lru)
      /\ buf' = [buf EXCEPT ![p] = 0] /\ pc' = [pc EXCEPT ![p] = "idle"]
      /\ UNCHANGED <<blockno, valid, dirty, data, lock, drive, memdisk, asleep, panicked>>
  BY DEF Brelse, Goto, CacheInv, TypeOK, LocksHeld
<1>2. RefsCounted' /\ refcnt' \in [Buf -> 0..Cardinality(Hand)]
  BY <1>1, RefDropped
<1>3. lru' \in [Buf -> Buf] /\ \A c \in Buf : \E i \in Buf : lru'[i] = c
  <2>1. TypeOK /\ lru \in [Buf -> Buf] /\ \A c \in Buf : \E i \in Buf : lru[i] = c
    BY DEF CacheInv, TypeOK
  <2>2. CASE refcnt[b] = 1 BY <1>1, <2>1, <2>2, ToFrontKeepsAll
  <2>3. CASE refcnt[b] # 1 BY <1>1, <2>1, <2>3
  <2> QED BY <2>2, <2>3
<1>4. TypeOK'
  BY <1>1, <1>2, <1>3 DEF CacheInv, TypeOK, drive
<1>5. LocksHeld'
  <2>1. \A c \in Buf : lock[c] # p
    BY <1>1, NamesAssumption DEF CacheInv, LocksHeld, HasLock
  <2> QED BY <1>1, <2>1 DEF CacheInv, TypeOK, LocksHeld, HasLock
<1>6. FlagsRight'
  BY <1>1, CacheAssumption DEF CacheInv, TypeOK, FlagsRight, NothingToDo
<1>7. QueueRight' /\ NoStuckIo'
  BY <1>1, QueueKept DEF CacheInv, TypeOK, drive
<1>8. PinsBounded'
  <2>1. Pinned' \subseteq Pinned
    BY <1>1 DEF CacheInv, TypeOK, Pinned, Buf
  <2> QED BY <2>1, FewerPinned
<1> QED BY <1>1, <1>2, <1>4, <1>5, <1>6, <1>7, <1>8
        DEF CacheInv, OneCopy, NoPanic, CleanIsDisk, drive
-----------------------------------------------------------------------------
(* The drive.  A buffer somebody refers to is a buffer of a block. *)
LEMMA HeldBlock ==
    ASSUME CacheInv, NEW p \in Hand, buf[p] \in Buf
    PROVE  blockno[buf[p]] \in Block /\ blockno[buf[p]] # NoBlock
<1> DEFINE refs == {q \in Hand : buf[q] = buf[p]}
<1>1. refcnt[buf[p]] = Cardinality(refs) /\ IsFiniteSet(refs) /\ refs # {}
  BY HandSubset DEF CacheInv, RefsCounted
<1>2. Cardinality(refs) \in Nat /\ Cardinality(refs) # 0
  BY <1>1, FS_EmptySet, FS_CardinalityType
<1>3. refcnt[buf[p]] > 0 BY <1>1, <1>2
<1> QED BY <1>3, NamesAssumption DEF CacheInv, FlagsRight

(* The command for a buffer is not the idle one, and says what to write. *)
LEMMA IdestartCmd ==
    ASSUME CacheInv, NEW b \in Buf, blockno[b] \in Block, blockno[b] # NoBlock, Idestart(b)
    PROVE  /\ cmd' \in [block : Block \cup {NoBlock}, write : BOOLEAN, data : Val]
           /\ cmd' # NoCmd /\ cmd'.block = blockno[b] /\ cmd'.write = dirty[b]
           /\ dirty[b] => cmd'.data = data[b]
<1>1. dirty[b] \in BOOLEAN /\ data[b] \in Val
  BY DEF CacheInv, TypeOK
<1> QED BY <1>1, NamesAssumption DEF Idestart, NoCmd

LEMMA IderwStep ==
    ASSUME CacheInv, panicked = "none", NEW p \in Hand, Iderw(p)
    PROVE  CacheInv'
<1> DEFINE b == buf[p]
           n == Len(idequeue)
<1>1. /\ pc[p] = "rw" /\ ~memdisk /\ b \in Buf /\ lock[b] = p /\ ~NothingToDo(b) /\ p # NoProc
      /\ blockno[b] \in Block /\ blockno[b] # NoBlock
  <2>1. pc[p] = "rw" /\ ~memdisk BY DEF Iderw
  <2>2. b \in Buf /\ lock[b] = p BY <2>1 DEF CacheInv, TypeOK, LocksHeld, HasLock
  <2>3. ~NothingToDo(b) BY <2>1 DEF CacheInv, FlagsRight
  <2>4. p # NoProc BY NamesAssumption
  <2> QED BY <2>1, <2>2, <2>3, <2>4, HeldBlock
<1>2. /\ idequeue' = Append(idequeue, b)
      /\ IF idequeue = <<>> THEN Idestart(b) ELSE UNCHANGED cmd
      /\ asleep' = asleep \cup {p} /\ pc' = [pc EXCEPT ![p] = "wait"]
      /\ UNCHANGED <<cache, disk, bad, memdisk, buf, panicked>>
  BY <1>1 DEF Iderw, Goto
<1>3. /\ idequeue \in Seq(Buf) /\ n \in Nat /\ DOMAIN idequeue = 1..n
      /\ idequeue' \in Seq(Buf) /\ idequeue' # <<>> /\ DOMAIN idequeue' = 1..(n + 1)
      /\ \A i \in 1..n : idequeue'[i] = idequeue[i]
      /\ idequeue'[n + 1] = b
      /\ Head(idequeue') = IF idequeue = <<>> THEN b ELSE Head(idequeue)
  <2>1. idequeue \in Seq(Buf) /\ b \in Buf BY <1>1 DEF CacheInv, TypeOK
  <2>2. n \in Nat /\ DOMAIN idequeue = 1..n BY <2>1, LenProperties
  <2>3. /\ idequeue' \in Seq(Buf) /\ idequeue' # <<>> /\ Len(idequeue') = n + 1
        /\ \A i \in 1..n : idequeue'[i] = idequeue[i]
        /\ idequeue'[n + 1] = b
    BY <1>2, <2>1, AppendProperties
  <2>4. DOMAIN idequeue' = 1..(n + 1) BY <2>3, LenProperties
  <2>5. Head(idequeue') = IF idequeue = <<>> THEN b ELSE Head(idequeue)
    BY <1>2, <2>1, HeadTailAppend
  <2> QED BY <2>1, <2>2, <2>3, <2>4, <2>5
<1>4. \A i \in 1..n : idequeue[i] # b /\ idequeue[i] \in Buf /\ lock[idequeue[i]] # p
  <2>1. \A i \in 1..n : pc[lock[idequeue[i]]] = "wait" /\ idequeue[i] \in Buf
    BY <1>3, ElementOfSeq DEF CacheInv, QueueRight
  <2> QED BY <1>1, <2>1
<1>5. /\ cmd' \in [block : Block \cup {NoBlock}, write : BOOLEAN, data : Val] /\ cmd' # NoCmd
      /\ blockno[Head(idequeue')] = cmd'.block /\ dirty[Head(idequeue')] = cmd'.write
      /\ cmd'.write => cmd'.data = data[Head(idequeue')]
  <2>1. CASE idequeue = <<>>
    BY <1>1, <1>2, <1>3, <2>1, IdestartCmd
  <2>2. CASE idequeue # <<>>
    BY <1>2, <1>3, <2>2 DEF CacheInv, TypeOK, NoStuckIo, QueueRight
  <2> QED BY <2>1, <2>2
<1>6. TypeOK'
  BY <1>1, <1>2, <1>3, <1>5 DEF CacheInv, TypeOK, cache
<1>7. LocksHeld'
  BY <1>1, <1>2 DEF CacheInv, TypeOK, LocksHeld, HasLock, cache
<1>8. FlagsRight'
  BY <1>1, <1>2 DEF CacheInv, TypeOK, FlagsRight, NothingToDo, cache
<1>9. QueueRight'
  <2>1. \A i, j \in DOMAIN idequeue' : idequeue'[i] = idequeue'[j] => i = j
    BY <1>3, <1>4 DEF CacheInv, QueueRight
  <2>2. \A i \in DOMAIN idequeue' : LET c == idequeue'[i]
                                    IN  ~(valid[c] /\ ~dirty[c]) /\ lock[c] # NoProc /\ pc'[lock[c]] = "wait"
    <3> TAKE i \in DOMAIN idequeue'
    <3>1. CASE i = n + 1
      BY <1>1, <1>2, <1>3, <3>1 DEF CacheInv, TypeOK, NothingToDo
    <3>2. CASE i \in 1..n
      <4>1. /\ ~NothingToDo(idequeue[i]) /\ lock[idequeue[i]] # NoProc
            /\ pc[lock[idequeue[i]]] = "wait" /\ lock[idequeue[i]] \in Hand
        BY <1>3, <1>4, <3>2 DEF CacheInv, TypeOK, QueueRight
      <4> QED BY <1>2, <1>3, <1>4, <3>2, <4>1 DEF CacheInv, TypeOK, NothingToDo
    <3> QED BY <1>3, <3>1, <3>2
  <2>3. \A q \in Hand : q \in asleep' => pc'[q] = "wait" /\ ~(valid[buf[q]] /\ ~dirty[buf[q]])
    BY <1>1, <1>2 DEF CacheInv, TypeOK, QueueRight, NothingToDo
  <2>4. \A q \in Hand : pc'[q] = "wait" => \/ valid[buf[q]] /\ ~dirty[buf[q]]
                                           \/ \E i \in DOMAIN idequeue' : idequeue'[i] = buf[q]
    <3>1. n + 1 \in DOMAIN idequeue' BY <1>3
    <3>2. \A q \in Hand \ {p} : pc'[q] = pc[q] BY <1>2 DEF CacheInv, TypeOK
    <3>3. \A q \in Hand \ {p} : pc[q] = "wait" => \/ valid[buf[q]] /\ ~dirty[buf[q]]
                                                  \/ \E i \in 1..n : idequeue[i] = buf[q]
      BY <1>3 DEF CacheInv, QueueRight, NothingToDo
    <3> QED BY <1>3, <3>1, <3>2, <3>3
  <2> QED BY <1>1, <1>2, <1>5, <2>1, <2>2, <2>3, <2>4 DEF QueueRight, NothingToDo, cache
<1>10. NoStuckIo'
  <2>1. \A q \in asleep' : \E i \in DOMAIN idequeue' : idequeue'[i] = buf[q] /\ ~(valid[buf[q]] /\ ~dirty[buf[q]])
    <3> TAKE q \in asleep'
    <3>1. CASE q = p
      BY <1>1, <1>3, <3>1 DEF NothingToDo
    <3>2. CASE q # p
      <4>1. PICK i \in 1..n : idequeue[i] = buf[q] /\ ~NothingToDo(buf[q])
        BY <1>2, <1>3, <3>2 DEF CacheInv, NoStuckIo
      <4> QED BY <1>3, <4>1 DEF NothingToDo
    <3> QED BY <3>1, <3>2
  <2> QED BY <1>2, <1>3, <1>5, <2>1 DEF NoStuckIo, NothingToDo, cache
<1>11. PinsBounded'
  <2>1. Pinned' \subseteq Pinned
    BY <1>1, <1>2 DEF CacheInv, TypeOK, Pinned, cache
  <2> QED BY <2>1, FewerPinned
<1> QED BY <1>2, <1>6, <1>7, <1>8, <1>9, <1>10, <1>11
        DEF CacheInv, OneCopy, RefsCounted, NoPanic, CleanIsDisk, cache

(* A process that finds its buffer done leaves; else it sleeps again while  *)
(* the buffer is still queued.                                              *)
LEMMA WokenStep ==
    ASSUME CacheInv, panicked = "none", NEW p \in Hand, IderwWoken(p)
    PROVE  CacheInv'
<1> DEFINE b == buf[p]
<1>1. pc[p] = "wait" /\ p \notin asleep /\ b \in Buf /\ lock[b] = p
      /\ UNCHANGED <<cache, drive, memdisk, buf, panicked>>
  BY DEF IderwWoken, CacheInv, TypeOK, LocksHeld, HasLock
<1>2. CASE NothingToDo(b) /\ pc' = [pc EXCEPT ![p] = "held"] /\ UNCHANGED asleep
  <2>1. TypeOK'
    BY <1>1, <1>2 DEF CacheInv, TypeOK, cache, drive
  <2>2. LocksHeld'
    BY <1>1, <1>2 DEF CacheInv, TypeOK, LocksHeld, HasLock, cache
  <2>3. FlagsRight'
    BY <1>1, <1>2 DEF CacheInv, TypeOK, FlagsRight, NothingToDo, cache
  <2>4. QueueRight'
    <3>1. \A i \in DOMAIN idequeue : lock[idequeue[i]] # p
      <4> TAKE i \in DOMAIN idequeue
      <4>1. idequeue[i] \in Buf /\ ~NothingToDo(idequeue[i]) /\ lock[idequeue[i]] # NoProc
        BY DEF CacheInv, TypeOK, QueueRight
      <4> QED BY <1>2, <4>1 DEF CacheInv, LocksHeld
    <3>2. \A i \in DOMAIN idequeue : pc'[lock[idequeue[i]]] = pc[lock[idequeue[i]]]
      <4> TAKE i \in DOMAIN idequeue
      <4>1. lock[idequeue[i]] \in Hand
        BY DEF CacheInv, TypeOK, QueueRight
      <4> QED BY <1>2, <3>1, <4>1 DEF CacheInv, TypeOK
    <3>3. \A q \in Hand \ {p} : pc'[q] = pc[q]
      BY <1>2 DEF CacheInv, TypeOK
    <3>4. pc'[p] = "held"
      BY <1>2 DEF CacheInv, TypeOK
    <3> QED BY <1>1, <1>2, <3>2, <3>3, <3>4 DEF CacheInv, QueueRight, NothingToDo, cache, drive
  <2>5. PinsBounded'
    <3>1. Pinned' \subseteq Pinned
      BY <1>1, <1>2 DEF CacheInv, TypeOK, Pinned, NothingToDo, cache
    <3> QED BY <3>1, FewerPinned
  <2> QED BY <1>1, <1>2, <2>1, <2>2, <2>3, <2>4, <2>5
          DEF CacheInv, OneCopy, RefsCounted, NoPanic, CleanIsDisk, NoStuckIo, NothingToDo, cache, drive
<1>3. CASE ~NothingToDo(b) /\ asleep' = asleep \cup {p} /\ UNCHANGED pc
  <2>1. TypeOK'
    BY <1>1, <1>3 DEF CacheInv, TypeOK, cache, drive
  <2>2. \A q \in asleep' : q \in asleep \/ q = p
    BY <1>3
  <2>3. QueueRight'
    <3>1. \A q \in Hand : q \in asleep' => pc[q] = "wait" /\ ~NothingToDo(buf[q])
      BY <1>1, <1>3, <2>2 DEF CacheInv, QueueRight
    <3>2. UNCHANGED <<valid, dirty, data, lock, idequeue, cmd, memdisk, buf, pc>>
      BY <1>1, <1>3 DEF cache, drive
    <3> QED BY <3>1, <3>2 DEF CacheInv, QueueRight, NothingToDo
  <2>4. NoStuckIo'
    <3>1. \A q \in asleep' : \E i \in DOMAIN idequeue : idequeue[i] = buf[q] /\ ~NothingToDo(buf[q])
      BY <1>1, <1>3, <2>2 DEF CacheInv, QueueRight, NoStuckIo
    <3>2. UNCHANGED <<blockno, valid, dirty, idequeue, cmd, buf>>
      BY <1>1, <1>3 DEF cache, drive
    <3> QED BY <3>1, <3>2 DEF CacheInv, NoStuckIo, NothingToDo
  <2> QED BY <1>1, <1>3, <2>1, <2>3, <2>4
          DEF CacheInv, OneCopy, RefsCounted, NoPanic, LocksHeld, HasLock, FlagsRight, CleanIsDisk,
              PinsBounded, Pinned, NothingToDo, cache, drive
<1> QED BY <1>2, <1>3 DEF IderwWoken, Goto

(* The memory disk: read or written at once. *)
LEMMA MemIderwStep ==
    ASSUME CacheInv, panicked = "none", NEW p \in Hand, MemIderw(p)
    PROVE  CacheInv'
<1> DEFINE b == buf[p]
<1>1. /\ pc[p] = "rw" /\ b \in Buf /\ lock[b] = p /\ ~NothingToDo(b)
      /\ blockno[b] \in Block
  BY HeldBlock DEF MemIderw, CacheInv, TypeOK, LocksHeld, HasLock, FlagsRight
<1>2. /\ IF dirty[b] THEN disk' = [disk EXCEPT ![blockno[b]] = data[b]] /\ UNCHANGED data
                     ELSE data' = [data EXCEPT ![b] = disk[blockno[b]]] /\ UNCHANGED disk
      /\ valid' = [valid EXCEPT ![b] = TRUE] /\ dirty' = [dirty EXCEPT ![b] = FALSE]
      /\ pc' = [pc EXCEPT ![p] = "held"]
      /\ UNCHANGED <<blockno, refcnt, lock, lru, idequeue, cmd, bad, memdisk, buf, asleep, panicked>>
  BY <1>1 DEF MemIderw, Goto
<1>3. disk' \in [Block -> Val] /\ data' \in [Buf -> Val]
  <2>1. \/ disk' = [disk EXCEPT ![blockno[b]] = data[b]] /\ data' = data
        \/ data' = [data EXCEPT ![b] = disk[blockno[b]]] /\ disk' = disk
    BY <1>2
  <2>2. disk \in [Block -> Val] /\ data \in [Buf -> Val]
    BY DEF CacheInv, TypeOK
  <2> QED BY <1>1, <2>1, <2>2
<1>4. TypeOK'
  BY <1>1, <1>2, <1>3 DEF CacheInv, TypeOK
<1>5. LocksHeld'
  BY <1>1, <1>2 DEF CacheInv, TypeOK, LocksHeld, HasLock
<1>6. FlagsRight'
  BY <1>1, <1>2 DEF CacheInv, TypeOK, FlagsRight, NothingToDo, LocksHeld, HasLock
<1>7. QueueRight' /\ NoStuckIo'
  <2>1. \A c \in Buf : c # b => valid'[c] = valid[c] /\ dirty'[c] = dirty[c] /\ data'[c] = data[c]
    BY <1>1, <1>2 DEF CacheInv, TypeOK
  <2>2. \A q \in Hand \ {p} : buf'[q] = buf[q] /\ pc'[q] = pc[q]
    BY <1>2 DEF CacheInv, TypeOK
  <2>3. pc'[p] = "held"
    BY <1>2 DEF CacheInv, TypeOK
  <2> QED BY <1>1, <1>2, <2>1, <2>2, <2>3, QueueKept
<1>8. PinsBounded'
  <2>1. Pinned' \subseteq Pinned
    BY <1>1, <1>2 DEF CacheInv, TypeOK, Pinned
  <2> QED BY <2>1, FewerPinned
<1>9. CleanIsDisk'
  <2>1. \A c \in Buf : valid'[c] /\ ~dirty'[c] /\ blockno[c] \notin bad => data'[c] = disk'[blockno[c]]
    <3> TAKE c \in Buf
    <3>1. CASE c = b
      <4>1. CASE dirty[b] BY <1>1, <1>2, <3>1, <4>1 DEF CacheInv, TypeOK
      <4>2. CASE ~dirty[b] BY <1>1, <1>2, <3>1, <4>2 DEF CacheInv, TypeOK
      <4> QED BY <4>1, <4>2
    <3>2. CASE c # b
      <4>1. valid'[c] = valid[c] /\ dirty'[c] = dirty[c] /\ data'[c] = data[c]
        BY <1>1, <1>2, <3>2 DEF CacheInv, TypeOK
      <4>2. valid[c] => blockno[c] \in Block /\ disk'[blockno[c]] = disk[blockno[c]]
        BY <1>1, <1>2, <3>2, NamesAssumption DEF CacheInv, TypeOK, OneCopy, FlagsRight
      <4> QED BY <4>1, <4>2 DEF CacheInv, CleanIsDisk
    <3> QED BY <3>1, <3>2
  <2>2. \A c \in Buf : valid[c] => valid'[c]
    BY <1>2 DEF CacheInv, TypeOK
  <2> QED BY <1>2, <2>1, <2>2 DEF CacheInv, CleanIsDisk
<1> QED BY <1>2, <1>4, <1>5, <1>6, <1>7, <1>8, <1>9
        DEF CacheInv, OneCopy, RefsCounted, NoPanic

LEMMA KillStep ==
    ASSUME CacheInv, panicked = "none", NEW p \in Hand, Kill(p)
    PROVE  CacheInv'
<1>1. asleep' = asleep \ {p} /\ UNCHANGED <<cache, drive, memdisk, pc, buf, panicked>>
  BY DEF Kill
<1>2. TypeOK'
  BY <1>1 DEF CacheInv, TypeOK, cache, drive
<1>3. QueueRight'
  BY <1>1 DEF CacheInv, QueueRight, NothingToDo, cache, drive
<1>4. NoStuckIo'
  BY <1>1 DEF CacheInv, NoStuckIo, NothingToDo, cache, drive
<1> QED BY <1>1, <1>2, <1>3, <1>4
        DEF CacheInv, OneCopy, RefsCounted, NoPanic, LocksHeld, HasLock, FlagsRight, CleanIsDisk,
            PinsBounded, Pinned, NothingToDo, cache, drive

-----------------------------------------------------------------------------
(* ideintr(): the first buffer of the queue, whose holder waits for it, is  *)
(* done, and the second one is the drive's next.                            *)
LEMMA IdeintrFacts ==
    ASSUME CacheInv, Ideintr
    PROVE  LET b == Head(idequeue)
               n == Len(idequeue)
           IN  /\ b \in Buf /\ n \in Nat \ {0} /\ idequeue[1] = b /\ DOMAIN idequeue = 1..n
               /\ \A i \in 1..n : idequeue[i] \in Buf /\ (idequeue[i] = b => i = 1)
               /\ \A i \in 1..n : /\ lock[idequeue[i]] \in Hand /\ pc[lock[idequeue[i]]] = "wait"
                                  /\ blockno[idequeue[i]] \in Block /\ blockno[idequeue[i]] # NoBlock
               /\ ~NothingToDo(b) /\ cmd.block = blockno[b] /\ cmd.write = dirty[b]
               /\ cmd.write => cmd.data = data[b]
               /\ idequeue' \in Seq(Buf) /\ DOMAIN idequeue' = 1..(n - 1)
               /\ \A i \in 1..(n - 1) : idequeue'[i] = idequeue[i + 1]
               /\ n > 1 => Head(idequeue') = idequeue[2]
               /\ idequeue' = <<>> <=> n = 1
<1> DEFINE b == Head(idequeue)
           n == Len(idequeue)
<1>1. idequeue \in Seq(Buf) /\ idequeue # <<>> /\ idequeue' = Tail(idequeue)
  BY DEF Ideintr, CacheInv, TypeOK, NoStuckIo
<1>2. b \in Buf /\ n \in Nat \ {0} /\ idequeue[1] = b /\ DOMAIN idequeue = 1..n
  BY <1>1, EmptySeq, LenProperties, HeadTailProperties
<1>3. \A i \in 1..n : idequeue[i] \in Buf
  BY <1>1, ElementOfSeq
<1>4. \A i \in 1..n : idequeue[i] = b => i = 1
  BY <1>2 DEF CacheInv, QueueRight
<1>5. \A i \in 1..n : /\ lock[idequeue[i]] \in Hand /\ pc[lock[idequeue[i]]] = "wait"
                      /\ blockno[idequeue[i]] \in Block /\ blockno[idequeue[i]] # NoBlock
  <2> TAKE i \in 1..n
  <2>1. lock[idequeue[i]] \in Hand /\ pc[lock[idequeue[i]]] = "wait" /\ lock[idequeue[i]] # NoProc
    <3>1. i \in DOMAIN idequeue BY <1>2
    <3>2. pc[lock[idequeue[i]]] = "wait" /\ lock[idequeue[i]] # NoProc
      BY <3>1 DEF CacheInv, QueueRight
    <3> QED BY <1>3, <3>2 DEF CacheInv, TypeOK
  <2>2. buf[lock[idequeue[i]]] = idequeue[i]
    BY <1>3, <2>1 DEF CacheInv, LocksHeld
  <2> QED BY <1>3, <2>1, <2>2, HeldBlock
<1>6. ~NothingToDo(b)
  BY <1>2 DEF CacheInv, QueueRight
<1>7. cmd.block = blockno[b] /\ cmd.write = dirty[b] /\ (cmd.write => cmd.data = data[b])
  BY <1>1 DEF CacheInv, NoStuckIo, QueueRight
<1>8. /\ idequeue' \in Seq(Buf) /\ Len(idequeue') = n - 1
      /\ \A i \in 1..(n - 1) : idequeue'[i] = idequeue[i + 1]
  BY <1>1, HeadTailProperties
<1>9. DOMAIN idequeue' = 1..(n - 1)
  BY <1>8, LenProperties
<1>10. idequeue' = <<>> <=> n = 1
  BY <1>2, <1>8, EmptySeq
<1>11. n > 1 => Head(idequeue') = idequeue[2]
  BY <1>2, <1>8, <1>10, FirstQueued
<1> QED BY <1>2, <1>3, <1>4, <1>5, <1>6, <1>7, <1>8, <1>9, <1>10, <1>11

LEMMA IdeintrStep ==
    ASSUME CacheInv, panicked = "none", Ideintr
    PROVE  CacheInv'
<1> DEFINE b == Head(idequeue)
           n == Len(idequeue)
<1>1. /\ b \in Buf /\ n \in Nat \ {0} /\ idequeue[1] = b /\ DOMAIN idequeue = 1..n
      /\ \A i \in 1..n : idequeue[i] \in Buf /\ (idequeue[i] = b => i = 1)
      /\ \A i \in 1..n : /\ lock[idequeue[i]] \in Hand /\ pc[lock[idequeue[i]]] = "wait"
                         /\ blockno[idequeue[i]] \in Block /\ blockno[idequeue[i]] # NoBlock
      /\ ~NothingToDo(b) /\ cmd.block = blockno[b] /\ cmd.write = dirty[b]
      /\ cmd.write => cmd.data = data[b]
  BY IdeintrFacts
<1>2. /\ idequeue' \in Seq(Buf) /\ DOMAIN idequeue' = 1..(n - 1)
      /\ \A i \in 1..(n - 1) : idequeue'[i] = idequeue[i + 1]
      /\ n > 1 => Head(idequeue') = idequeue[2]
      /\ idequeue' = <<>> <=> n = 1
  BY IdeintrFacts
<1>3. /\ valid' = [valid EXCEPT ![b] = TRUE] /\ dirty' = [dirty EXCEPT ![b] = FALSE]
      /\ disk' = (IF dirty[b] THEN [disk EXCEPT ![blockno[b]] = data[b]] ELSE disk)
      /\ asleep' = asleep \ {q \in asleep : buf[q] = b}
      /\ UNCHANGED <<blockno, refcnt, lock, lru, memdisk, pc, buf, panicked>>
  BY <1>1 DEF Ideintr, Wakes
<1>4. \/ dirty[b] /\ data' = data /\ bad' = bad
      \/ ~dirty[b] /\ data' = [data EXCEPT ![b] = disk[blockno[b]]] /\ bad' = bad
      \/ ~dirty[b] /\ data' = data /\ bad' = bad \cup {blockno[b]}
  BY <1>1 DEF Ideintr
<1>5. blockno[b] \in Block /\ blockno[b] # NoBlock /\ lock[b] \in Hand /\ pc[lock[b]] = "wait"
  BY <1>1
<1>6. /\ valid'[b] = TRUE /\ dirty'[b] = FALSE /\ data' \in [Buf -> Val]
      /\ \A c \in Buf \ {b} : valid'[c] = valid[c] /\ dirty'[c] = dirty[c] /\ data'[c] = data[c]
  <2>1. valid'[b] = TRUE /\ dirty'[b] = FALSE
    BY <1>1, <1>3 DEF CacheInv, TypeOK
  <2>2. \A c \in Buf \ {b} : valid'[c] = valid[c] /\ dirty'[c] = dirty[c]
    BY <1>1, <1>3 DEF CacheInv, TypeOK
  <2>3. data' \in [Buf -> Val] /\ \A c \in Buf \ {b} : data'[c] = data[c]
    <3>1. data \in [Buf -> Val] /\ disk[blockno[b]] \in Val
      BY <1>5 DEF CacheInv, TypeOK
    <3>2. data' = data \/ data' = [data EXCEPT ![b] = disk[blockno[b]]] BY <1>4
    <3> QED BY <1>1, <3>1, <3>2
  <2> QED BY <2>1, <2>2, <2>3
<1>7. /\ cmd' \in [block : Block \cup {NoBlock}, write : BOOLEAN, data : Val]
      /\ idequeue' # <<>> <=> cmd' # NoCmd
      /\ idequeue' # <<>> => /\ blockno[Head(idequeue')] = cmd'.block
                             /\ dirty'[Head(idequeue')] = cmd'.write
      /\ cmd'.write => cmd'.data = data'[Head(idequeue')]
  <2>1. CASE n = 1
    <3>1. cmd' = NoCmd /\ idequeue' = <<>> BY <1>2, <2>1 DEF Ideintr, StartNext
    <3> QED BY <3>1, NamesAssumption DEF NoCmd
  <2>2. CASE n # 1
    <3>1. 2 \in 1..n /\ n > 1 BY <1>1, <2>2
    <3>2. idequeue[2] \in Buf \ {b} /\ blockno[idequeue[2]] \in Block /\ blockno[idequeue[2]] # NoBlock
      BY <1>1, <3>1
    <3>3. Idestart(idequeue[2]) BY <3>1 DEF Ideintr, StartNext
    <3>4. Head(idequeue') = idequeue[2] /\ idequeue' # <<>> BY <1>2, <3>1
    <3> QED BY <1>6, <3>2, <3>3, <3>4, IdestartCmd
  <2> QED BY <2>1, <2>2
<1>8. TypeOK'
  <2>1. disk' \in [Block -> Val]
    <3>1. disk \in [Block -> Val] /\ data[b] \in Val BY <1>1 DEF CacheInv, TypeOK
    <3> QED BY <1>3, <1>5, <3>1
  <2>2. valid' \in [Buf -> BOOLEAN] /\ dirty' \in [Buf -> BOOLEAN]
    BY <1>3 DEF CacheInv, TypeOK
  <2>3. asleep' \subseteq Hand /\ bad' \subseteq Block
    BY <1>3, <1>4, <1>5 DEF CacheInv, TypeOK
  <2> QED BY <1>2, <1>3, <1>6, <1>7, <2>1, <2>2, <2>3 DEF CacheInv, TypeOK
<1>9. \A q \in Hand : HasLock(q) /\ buf[q] = b => pc[q] = "wait"
  BY <1>5 DEF CacheInv, LocksHeld
<1>10. FlagsRight'
  <2>1. \A c \in Buf : /\ valid'[c] \/ refcnt[c] > 0 => blockno[c] \in Block
                       /\ dirty'[c] => valid'[c]
    BY <1>5, <1>6 DEF CacheInv, FlagsRight
  <2>2. \A q \in Hand : /\ pc[q] = "held" => valid'[buf[q]]
                        /\ pc[q] = "rw" => ~(valid'[buf[q]] /\ ~dirty'[buf[q]])
    <3>1. \A q \in Hand : pc[q] \in {"held", "rw"} => buf[q] \in Buf \ {b}
      BY <1>9 DEF HasLock, CacheInv, TypeOK, LocksHeld
    <3> QED BY <1>6, <3>1 DEF CacheInv, FlagsRight, NothingToDo
  <2> QED BY <1>3, <2>1, <2>2 DEF FlagsRight, NothingToDo
<1>11. \A i \in 1..(n - 1) : /\ i + 1 \in 1..n /\ idequeue[i + 1] \in Buf \ {b}
                             /\ idequeue'[i] = idequeue[i + 1]
  <2> TAKE i \in 1..(n - 1)
  <2>1. i + 1 \in 1..n /\ i + 1 # 1 BY <1>1
  <2> QED BY <1>1, <1>2, <2>1
<1>12. \A q \in asleep' : q \in asleep /\ q \in Hand /\ buf[q] \in Buf \ {b}
  <2> TAKE q \in asleep'
  <2>1. q \in asleep /\ q \in Hand /\ buf[q] # b BY <1>3 DEF CacheInv, TypeOK
  <2>2. pc[q] = "wait" BY <2>1 DEF CacheInv, QueueRight
  <2>3. buf[q] \in Buf BY <2>1, <2>2 DEF CacheInv, TypeOK, LocksHeld
  <2> QED BY <2>1, <2>3
<1>13. \A c \in Buf \ {b} : (\E i \in DOMAIN idequeue : idequeue[i] = c) =>
                            \E i \in DOMAIN idequeue' : idequeue'[i] = c
  <2> TAKE c \in Buf \ {b}
  <2> SUFFICES ASSUME NEW i \in DOMAIN idequeue, idequeue[i] = c
               PROVE  \E j \in DOMAIN idequeue' : idequeue'[j] = c
    OBVIOUS
  <2>1. i \in 1..n /\ i # 1 BY <1>1
  <2>2. i - 1 \in 1..(n - 1) /\ (i - 1) + 1 = i BY <1>1, <2>1
  <2> QED BY <1>2, <2>2
<1>14. QueueRight'
  <2>1. \A i, j \in DOMAIN idequeue' : idequeue'[i] = idequeue'[j] => i = j
    <3> TAKE i, j \in DOMAIN idequeue'
    <3>1. i \in 1..(n - 1) /\ j \in 1..(n - 1) BY <1>2
    <3>2. idequeue[i + 1] = idequeue[j + 1] => i + 1 = j + 1
      BY <1>1, <1>11, <3>1 DEF CacheInv, QueueRight
    <3> QED BY <1>1, <1>11, <3>1, <3>2
  <2>2. \A i \in DOMAIN idequeue' : LET c == idequeue'[i]
                                    IN  ~(valid'[c] /\ ~dirty'[c]) /\ lock[c] # NoProc /\ pc[lock[c]] = "wait"
    <3> TAKE i \in DOMAIN idequeue'
    <3>1. i + 1 \in DOMAIN idequeue /\ idequeue[i + 1] \in Buf \ {b} /\ idequeue'[i] = idequeue[i + 1]
      BY <1>1, <1>2, <1>11
    <3>2. /\ ~NothingToDo(idequeue[i + 1]) /\ lock[idequeue[i + 1]] # NoProc
          /\ pc[lock[idequeue[i + 1]]] = "wait"
      BY <3>1 DEF CacheInv, QueueRight
    <3> QED BY <1>6, <3>1, <3>2 DEF NothingToDo
  <2>3. \A q \in Hand : q \in asleep' => pc[q] = "wait" /\ ~(valid'[buf[q]] /\ ~dirty'[buf[q]])
    BY <1>6, <1>12 DEF CacheInv, QueueRight, NothingToDo
  <2>4. \A q \in Hand : pc[q] = "wait" => \/ valid'[buf[q]] /\ ~dirty'[buf[q]]
                                          \/ \E i \in DOMAIN idequeue' : idequeue'[i] = buf[q]
    <3> SUFFICES ASSUME NEW q \in Hand, pc[q] = "wait"
                 PROVE  \/ valid'[buf[q]] /\ ~dirty'[buf[q]]
                        \/ \E i \in DOMAIN idequeue' : idequeue'[i] = buf[q]
      OBVIOUS
    <3>1. buf[q] \in Buf BY DEF CacheInv, TypeOK, LocksHeld
    <3>2. CASE buf[q] = b BY <1>6, <3>2
    <3>3. CASE buf[q] # b
      <4>1. NothingToDo(buf[q]) \/ \E i \in DOMAIN idequeue : idequeue[i] = buf[q]
        BY DEF CacheInv, QueueRight
      <4> QED BY <1>6, <1>13, <3>1, <3>3, <4>1 DEF NothingToDo
    <3> QED BY <3>2, <3>3
  <2>5. ~memdisk
    BY <1>1 DEF CacheInv, QueueRight, Ideintr, NoStuckIo
  <2> QED BY <1>3, <1>7, <2>1, <2>2, <2>3, <2>4, <2>5 DEF QueueRight, NothingToDo
<1>15. NoStuckIo'
  <2>1. \A q \in asleep' : \E i \in DOMAIN idequeue' : idequeue'[i] = buf[q] /\ ~(valid'[buf[q]] /\ ~dirty'[buf[q]])
    <3> TAKE q \in asleep'
    <3>1. (\E i \in DOMAIN idequeue : idequeue[i] = buf[q]) /\ ~NothingToDo(buf[q])
      BY <1>12 DEF CacheInv, NoStuckIo
    <3> QED BY <1>6, <1>12, <1>13, <3>1 DEF NothingToDo
  <2> QED BY <1>3, <1>7, <2>1 DEF NoStuckIo, NothingToDo
<1>16. PinsBounded'
  <2>1. Pinned' \subseteq Pinned
    BY <1>3, <1>6 DEF Pinned
  <2> QED BY <2>1, FewerPinned
<1>17. CleanIsDisk'
  <2>1. \A c \in Buf : valid'[c] /\ ~dirty'[c] /\ blockno[c] \notin bad' => data'[c] = disk'[blockno[c]]
    <3> TAKE c \in Buf
    <3>1. CASE c = b
      <4>1. blockno[b] \in bad' \/ data'[b] = disk'[blockno[b]]
        BY <1>1, <1>3, <1>4, <1>5 DEF CacheInv, TypeOK
      <4> QED BY <3>1, <4>1
    <3>2. CASE c # b
      <4>1. valid[c] => blockno[c] \in Block /\ blockno[c] # blockno[b]
        BY <1>1, <1>5, <3>2 DEF CacheInv, OneCopy, FlagsRight
      <4>2. valid[c] => disk'[blockno[c]] = disk[blockno[c]]
        BY <1>3, <1>5, <4>1 DEF CacheInv, TypeOK
      <4> QED BY <1>4, <1>6, <3>2, <4>1, <4>2 DEF CacheInv, CleanIsDisk
    <3> QED BY <3>1, <3>2
  <2>2. \A m \in bad' : \E c \in Buf : blockno[c] = m /\ valid'[c]
    BY <1>1, <1>4, <1>6 DEF CacheInv, CleanIsDisk
  <2> QED BY <1>3, <2>1, <2>2 DEF CleanIsDisk
<1> QED BY <1>3, <1>8, <1>10, <1>14, <1>15, <1>16, <1>17
        DEF CacheInv, OneCopy, RefsCounted, NoPanic, LocksHeld, HasLock

-----------------------------------------------------------------------------
LEMMA StutterStep == ASSUME CacheInv, UNCHANGED vars PROVE CacheInv'
<1>1. UNCHANGED <<cache, drive, memdisk, pc, buf, asleep, panicked>> BY DEF vars
<1>2. Pinned' = Pinned BY <1>1 DEF Pinned, cache
<1>3. NoPanic' BY <1>1, <1>2 DEF CacheInv, NoPanic
<1> QED BY <1>1, <1>3, SameKeeps

LEMMA HaltedStep == ASSUME CacheInv, Halted PROVE CacheInv'
BY StutterStep DEF Halted

LEMMA NextCacheInv == CacheInv /\ [Next]_vars => CacheInv'
<1> SUFFICES ASSUME CacheInv, [Next]_vars PROVE CacheInv'
  OBVIOUS
<1>1. CASE Next
  BY <1>1, BgetStep, BreadStep, WriteStep, BrelseUnlockStep, BrelseStep, IderwStep, WokenStep,
     MemIderwStep, KillStep, IdeintrStep, HaltedStep DEF Next, Step
<1>2. CASE UNCHANGED vars
  BY <1>2, StutterStep
<1> QED BY <1>1, <1>2

(* Whatever the processes read, write, pin and release, and in whatever     *)
(* order the drive answers and kills arrive: no block is cached twice, the  *)
(* reference counts of bget() and brelse() are exact, bget() finds a buffer *)
(* unless every one is in somebody's hand or pinned by the log, iderw()     *)
(* finds something to do, and a clean buffer holds what is on the disk.     *)
THEOREM CacheInvHolds == Spec => []CacheInv
BY InitCacheInv, NextCacheInv, PTL DEF Spec

(* No request is forgotten: iderw() and ideintr() keep the drive at work on *)
(* the first request of the queue, and nobody sleeps on a buffer that is    *)
(* done or not queued.                                                      *)
THEOREM NoStuckIoHolds == Spec => []NoStuckIo
<1>1. CacheInv => NoStuckIo BY DEF CacheInv
<1> QED BY <1>1, CacheInvHolds, PTL

-----------------------------------------------------------------------------
(* With a buffer for every pinned block and every hand, bget() never runs   *)
(* out: the other hands refer to at most one each, and an unreferenced      *)
(* buffer that cannot be recycled is one of the log's.                      *)
LEMMA AlwaysReusable ==
    ASSUME NBUF >= MaxPinned + Cardinality(Hand), CacheInv, NEW p \in Hand, pc[p] = "idle"
    PROVE  \E b \in Buf : Reusable(b)
<1> SUFFICES ASSUME \A b \in Buf : ~Reusable(b) PROVE FALSE
  OBVIOUS
<1> DEFINE Q == {q \in Hand : buf[q] # 0}
           R == {b \in Buf : refcnt[b] # 0}
           f == [q \in Q |-> buf[q]]
           refs(b) == {q \in Hand : buf[q] = b}
<1>0. Cardinality(Hand) \in Nat
  BY HandsFinite
<1>1. IsFiniteSet(Q) /\ Cardinality(Q) <= Cardinality(Hand) - 1
  <2>1. Q \in SUBSET (Hand \ {p})
    <3>1. buf[p] = 0 BY DEF CacheInv, LocksHeld
    <3> QED BY <3>1
  <2>2. IsFiniteSet(Hand \ {p}) /\ Cardinality(Hand \ {p}) = Cardinality(Hand) - 1
    BY HandsFinite, FS_RemoveElement
  <2> QED BY <1>0, <2>1, <2>2, FS_Subset, FS_CardinalityType
<1>2. \A b \in Buf : refcnt[b] # 0 <=> refs(b) # {}
  <2> TAKE b \in Buf
  <2>1. refcnt[b] = Cardinality(refs(b)) BY DEF CacheInv, RefsCounted
  <2>2. IsFiniteSet(refs(b)) BY HandSubset
  <2> QED BY <2>1, <2>2, FS_EmptySet
<1>3. f \in Surjection(Q, R)
  <2>1. \A q \in Q : f[q] \in R
    BY <1>2 DEF CacheInv, TypeOK
  <2>2. \A b \in R : \E q \in Q : f[q] = b
    BY <1>2, CacheAssumption DEF Buf
  <2> QED BY <2>1, <2>2 DEF Surjection
<1>4. IsFiniteSet(R) /\ Cardinality(R) <= Cardinality(Hand) - 1 /\ Cardinality(R) \in Nat
  <2> HIDE DEF Q, R, f
  <2>1. IsFiniteSet(R) /\ Cardinality(R) <= Cardinality(Q)
    BY <1>1, <1>3, FS_Surjection
  <2>2. Cardinality(R) \in Nat /\ Cardinality(Q) \in Nat /\ Cardinality(Hand) \in Nat
    BY <1>1, <2>1, HandsFinite, FS_CardinalityType
  <2> QED BY <1>1, <2>1, <2>2
<1>5. IsFiniteSet(Pinned) /\ Cardinality(Pinned) \in Nat /\ Cardinality(Pinned) <= MaxPinned
  BY BufFinite, FS_Subset, FS_CardinalityType DEF Pinned, CacheInv, PinsBounded
<1>6. Buf = R \cup Pinned
  BY <1>2 DEF Reusable, Pinned, CacheInv, TypeOK
<1>7. Cardinality(R \cup Pinned) <= Cardinality(R) + Cardinality(Pinned)
  <2> HIDE DEF R
  <2>1. Cardinality(R \cup Pinned) = Cardinality(R) + Cardinality(Pinned) - Cardinality(R \cap Pinned)
    BY <1>4, <1>5, FS_Union
  <2>2. Cardinality(R \cap Pinned) \in Nat
    BY <1>4, FS_Intersection, FS_CardinalityType
  <2> QED BY <1>4, <1>5, <2>1, <2>2
<1>8. Cardinality(R \cup Pinned) = NBUF
  BY <1>6, BufFinite
<1> HIDE DEF R
<1> QED BY <1>0, <1>4, <1>5, <1>7, <1>8, CacheAssumption

(* NBUF buffers are enough when they cover what the log pins and two for    *)
(* every process: then neither bget() nor iderw() panics.                   *)
THEOREM EnoughBuffers == Spec => [](NBUF >= MaxPinned + Cardinality(Hand) => panicked = "none")
<1> DEFINE Enough == NBUF >= MaxPinned + Cardinality(Hand)
<1>1. Init => (Enough => panicked = "none") BY DEF Init
<1>2. CacheInv /\ (Enough => panicked = "none") /\ [Next]_vars => (Enough => panicked = "none")'
  <2> SUFFICES ASSUME Enough, CacheInv, panicked = "none", [Next]_vars PROVE panicked' = "none"
    OBVIOUS
  <2>1. ASSUME NEW h \in Hand, NEW n \in Block, Bget(h, n) PROVE panicked' = "none"
    <3>1. pc[h] = "idle" BY <2>1 DEF Bget
    <3>2. \E b \in Buf : Reusable(b) BY <3>1, AlwaysReusable
    <3> QED BY <2>1, <3>2 DEF Bget
  <2>2. ASSUME NEW h \in Hand, Iderw(h) \/ MemIderw(h) PROVE panicked' = "none"
    <3>1. ~NothingToDo(buf[h]) BY <2>2 DEF Iderw, MemIderw, CacheInv, FlagsRight
    <3> QED BY <2>2, <3>1 DEF Iderw, MemIderw
  <2>3. ASSUME NEW h \in Hand, NEW v \in Val, Bwrite(h, v) \/ LogWrite(h, v) PROVE panicked' = "none"
    BY <2>3 DEF Bwrite, LogWrite
  <2>4. ASSUME NEW h \in Hand, Bread(h) \/ BrelseUnlock(h) \/ Brelse(h) \/ IderwWoken(h) \/ Kill(h)
        PROVE  panicked' = "none"
    BY <2>4 DEF Bread, BrelseUnlock, Brelse, IderwWoken, Kill
  <2>5. CASE Ideintr BY <2>5 DEF Ideintr
  <2>6. CASE UNCHANGED vars BY <2>6 DEF vars
  <2> QED BY <2>1, <2>2, <2>3, <2>4, <2>5, <2>6 DEF Next, Step, Halted
<1> QED BY <1>1, <1>2, CacheInvHolds, PTL DEF Spec

-----------------------------------------------------------------------------
(* The cache implements a store of blocks.  What a block holds and who owns *)
(* it can be read off its buffer, the only one it has.                      *)
Mapped ==
    /\ \A b \in Buf, n \in Block :
           blockno[b] = n => /\ Content[n] = IF valid[b] THEN data[b] ELSE disk[n]
                             /\ Owner[n] = lock[b]
    /\ \A n \in Block : (\A b \in Buf : blockno[b] # n) => Content[n] = disk[n] /\ Owner[n] = NoProc
    /\ DOMAIN Content = Block /\ DOMAIN Owner = Block
    /\ Content = [n \in Block |-> Content[n]] /\ Owner = [n \in Block |-> Owner[n]]

LEMMA CacheMapped == CacheInv => Mapped
<1> SUFFICES ASSUME CacheInv PROVE Mapped
  OBVIOUS
<1>1. ASSUME NEW b \in Buf, NEW n \in Block, blockno[b] = n
      PROVE  Content[n] = (IF valid[b] THEN data[b] ELSE disk[n]) /\ Owner[n] = lock[b]
  <2>1. Home(n) = {b}
    BY <1>1, NamesAssumption DEF CacheInv, OneCopy, Home
  <2>2. (CHOOSE c \in Home(n) : TRUE) = b
    BY <2>1
  <2>3. CASE valid[b]
    <3>1. (CHOOSE c \in Home(n) : valid[c]) = b /\ \E c \in Home(n) : valid[c]
      BY <2>1, <2>3
    <3> QED BY <2>1, <2>2, <2>3, <3>1 DEF Content, Owner
  <2>4. CASE ~valid[b]
    <3>1. ~\E c \in Home(n) : valid[c] BY <2>1, <2>4
    <3> QED BY <2>1, <2>2, <2>4, <3>1 DEF Content, Owner
  <2> QED BY <2>3, <2>4
<1>2. ASSUME NEW n \in Block, \A b \in Buf : blockno[b] # n
      PROVE  Content[n] = disk[n] /\ Owner[n] = NoProc
  BY <1>2 DEF Content, Owner, Home
<1> QED BY <1>1, <1>2 DEF Mapped, Content, Owner

LEMMA CacheMappedNext == CacheInv' => Mapped'
BY CacheMapped, PTL

LEMMA InitStore == Init => Store!Init
<1> SUFFICES ASSUME Init PROVE Store!Init
  OBVIOUS
<1>1. Content = [n \in Block |-> Zero]
  BY DEF Init, Content, Home
<1>2. Owner = [n \in Block |-> NoProc]
  <2>1. \A n \in Block : Home(n) = {}
    BY NamesAssumption DEF Init, Home
  <2> QED BY <2>1 DEF Owner
<1> QED BY <1>1, <1>2, NamesAssumption DEF Store!Init, Init

LEMMA SameStore ==
    ASSUME UNCHANGED <<blockno, valid, data, disk, lock>>
    PROVE  UNCHANGED <<Content, Owner>>
BY DEF Content, Owner, Home

(* A step on one buffer leaves the other blocks alone. *)
LEMMA OtherBlocks ==
    ASSUME Mapped, Mapped', NEW b \in Buf, UNCHANGED blockno,
           \A c \in Buf \ {b} : valid'[c] = valid[c] /\ data'[c] = data[c] /\ lock'[c] = lock[c],
           \A m \in Block \ {blockno[b]} : disk'[m] = disk[m],
           NEW m \in Block \ {blockno[b]}
    PROVE  Content'[m] = Content[m] /\ Owner'[m] = Owner[m]
<1>1. CASE \E c \in Buf : blockno[c] = m
  <2>1. PICK c \in Buf : blockno[c] = m BY <1>1
  <2> QED BY <2>1 DEF Mapped
<1>2. CASE ~\E c \in Buf : blockno[c] = m
  BY <1>2 DEF Mapped
<1> QED BY <1>1, <1>2

LEMMA RecycleStores ==
    ASSUME CacheInv, CacheInv', NEW p \in Hand, NEW n \in Block, NEW b \in Buf,
           ~Cached(n), Recycle(p, n, b), UNCHANGED <<data, disk, lock>>
    PROVE  Store!Next \/ UNCHANGED <<Content, Owner, bad>>
<1> DEFINE m == blockno[b]
<1>1. Mapped /\ Mapped' BY CacheMapped, CacheMappedNext
<1>2. /\ refcnt[b] = 0 /\ ~dirty[b] /\ \A c \in Buf : blockno[c] # n
      /\ blockno' = [blockno EXCEPT ![b] = n] /\ valid' = [valid EXCEPT ![b] = FALSE]
      /\ bad' = bad \ {m}
  BY DEF Cached, Recycle, Reusable
<1>3. /\ blockno'[b] = n /\ ~valid'[b]
      /\ \A c \in Buf \ {b} : blockno'[c] = blockno[c] /\ valid'[c] = valid[c]
  BY <1>2 DEF CacheInv, TypeOK
<1>4. lock[b] = NoProc
  <2>1. IsFiniteSet({q \in Hand : buf[q] = b}) BY HandSubset
  <2>2. {q \in Hand : buf[q] = b} = {}
    BY <1>2, <2>1, FS_EmptySet DEF CacheInv, RefsCounted
  <2> QED BY <2>2 DEF CacheInv, TypeOK, LocksHeld
<1>5. Content'[n] = Content[n] /\ Owner'[n] = Owner[n]
  BY <1>1, <1>2, <1>3, <1>4 DEF Mapped
<1>6. ASSUME NEW l \in Block \ {n, m} PROVE Content'[l] = Content[l] /\ Owner'[l] = Owner[l]
  <2>1. CASE \E c \in Buf : blockno[c] = l
    <3>1. PICK c \in Buf \ {b} : blockno[c] = l BY <2>1
    <3>2. blockno'[c] = l BY <1>3, <3>1
    <3> QED BY <1>1, <1>3, <3>1, <3>2 DEF Mapped
  <2>2. CASE ~\E c \in Buf : blockno[c] = l
    <3>1. \A c \in Buf : blockno'[c] # l BY <1>3, <2>2
    <3> QED BY <1>1, <2>2, <3>1 DEF Mapped
  <2> QED BY <2>1, <2>2
<1>7. CASE m \notin Block
  <2>1. bad' = bad
    <3>1. bad \subseteq Block BY DEF CacheInv, TypeOK
    <3> QED BY <1>2, <1>7, <3>1
  <2>2. \A l \in Block : Content'[l] = Content[l] /\ Owner'[l] = Owner[l]
    BY <1>5, <1>6, <1>7
  <2> QED BY <1>1, <2>1, <2>2 DEF Mapped
<1>8. CASE m \in Block
  <2>1. \A c \in Buf : blockno'[c] # m
    BY <1>2, <1>3, <1>8, NamesAssumption DEF CacheInv, OneCopy
  <2>2. Content'[m] = disk[m] /\ Owner'[m] = Owner[m]
    BY <1>1, <1>4, <1>8, <2>1 DEF Mapped
  <2>3. \A l \in Block : (l # m => Content'[l] = Content[l]) /\ Owner'[l] = Owner[l]
    BY <1>5, <1>6, <2>2
  <2>4. Owner' = Owner
    BY <1>1, <2>3 DEF Mapped
  <2>5. CASE m \in bad
    <3>1. Content' = [Content EXCEPT ![m] = disk[m]]
      BY <1>1, <1>8, <2>2, <2>3 DEF Mapped
    <3>2. disk[m] \in Val BY <1>8 DEF CacheInv, TypeOK
    <3>3. Store!Reread(m, disk[m])
      BY <1>2, <2>4, <2>5, <3>1 DEF Store!Reread
    <3> QED BY <1>8, <3>2, <3>3 DEF Store!Next
  <2>6. CASE m \notin bad
    <3>1. bad' = bad BY <1>2, <2>6
    <3>2. Content[m] = disk[m]
      BY <1>1, <1>2, <1>8, <2>6 DEF Mapped, CacheInv, CleanIsDisk
    <3>3. Content' = Content
      BY <1>1, <2>2, <2>3, <3>2 DEF Mapped
    <3> QED BY <2>4, <3>1, <3>3
  <2> QED BY <2>5, <2>6
<1> QED BY <1>7, <1>8

LEMMA LockStores ==
    ASSUME CacheInv, CacheInv', NEW p \in Hand, Bread(p) \/ BrelseUnlock(p)
    PROVE  Store!Next
<1> DEFINE b == buf[p]
           n == blockno[b]
<1>1. Mapped /\ Mapped' BY CacheMapped, CacheMappedNext
<1>2. /\ b \in Buf /\ UNCHANGED <<blockno, valid, data, disk, bad>>
      /\ \/ lock[b] = NoProc /\ lock' = [lock EXCEPT ![b] = p]
         \/ lock[b] = p /\ lock' = [lock EXCEPT ![b] = NoProc]
  BY DEF Bread, BrelseUnlock, CacheInv, TypeOK, LocksHeld, HasLock, drive
<1>3. n \in Block BY <1>2, HeldBlock
<1>4. /\ \A m \in Block \ {n} : Content'[m] = Content[m] /\ Owner'[m] = Owner[m]
      /\ Content'[n] = Content[n] /\ Owner[n] = lock[b] /\ Owner'[n] = lock'[b]
  <2>1. \A c \in Buf \ {b} : valid'[c] = valid[c] /\ data'[c] = data[c] /\ lock'[c] = lock[c]
    BY <1>2 DEF CacheInv, TypeOK
  <2>2. \A m \in Block \ {n} : Content'[m] = Content[m] /\ Owner'[m] = Owner[m]
    BY <1>1, <1>2, <2>1, OtherBlocks
  <2>3. Content'[n] = Content[n] /\ Owner[n] = lock[b] /\ Owner'[n] = lock'[b]
    BY <1>1, <1>2, <1>3 DEF Mapped
  <2> QED BY <2>2, <2>3
<1>5. Content' = Content /\ Owner' = [Owner EXCEPT ![n] = lock'[b]]
  BY <1>1, <1>3, <1>4 DEF Mapped
<1>6. CASE lock[b] = NoProc /\ lock'[b] = p
  <2>1. Store!Acquire(p, n) BY <1>2, <1>4, <1>5, <1>6 DEF Store!Acquire
  <2> QED BY <1>3, <2>1 DEF Store!Next
<1>7. CASE lock[b] = p /\ lock'[b] = NoProc
  <2>1. Store!Release(p, n) BY <1>2, <1>4, <1>5, <1>7 DEF Store!Release
  <2> QED BY <1>3, <2>1 DEF Store!Next
<1> QED BY <1>2, <1>6, <1>7 DEF CacheInv, TypeOK

LEMMA WriteStores ==
    ASSUME CacheInv, CacheInv', NEW p \in Hand, NEW v \in Val, Bwrite(p, v) \/ LogWrite(p, v)
    PROVE  Store!Next
<1> DEFINE b == buf[p]
           n == blockno[b]
<1>1. Mapped /\ Mapped' BY CacheMapped, CacheMappedNext
<1>2. /\ b \in Buf /\ valid[b] /\ lock[b] = p /\ UNCHANGED <<blockno, valid, lock, disk, bad>>
      /\ data' = [data EXCEPT ![b] = v]
  BY DEF Bwrite, LogWrite, CacheInv, TypeOK, LocksHeld, HasLock, FlagsRight, drive
<1>3. n \in Block BY <1>2, HeldBlock
<1>4. \A c \in Buf \ {b} : valid'[c] = valid[c] /\ data'[c] = data[c] /\ lock'[c] = lock[c]
  BY <1>2 DEF CacheInv, TypeOK
<1>5. \A m \in Block \ {n} : Content'[m] = Content[m] /\ Owner'[m] = Owner[m]
  BY <1>1, <1>2, <1>4, OtherBlocks
<1>6. Content'[n] = v /\ Owner[n] = p /\ Owner'[n] = p
  <2>1. data'[b] = v BY <1>2 DEF CacheInv, TypeOK
  <2> QED BY <1>1, <1>2, <1>3, <2>1 DEF Mapped
<1>7. Content' = [Content EXCEPT ![n] = v] /\ Owner' = Owner
  BY <1>1, <1>3, <1>5, <1>6 DEF Mapped
<1>8. Store!Store(p, n, v)
  BY <1>2, <1>6, <1>7 DEF Store!Store
<1> QED BY <1>3, <1>8 DEF Store!Next

LEMMA MemIderwStores ==
    ASSUME CacheInv, CacheInv', NEW p \in Hand, MemIderw(p)
    PROVE  UNCHANGED <<Content, Owner, bad>>
<1> DEFINE b == buf[p]
           n == blockno[b]
<1>1. Mapped /\ Mapped' BY CacheMapped, CacheMappedNext
<1>2. b \in Buf /\ ~NothingToDo(b) /\ n \in Block
  BY HeldBlock DEF MemIderw, CacheInv, TypeOK, LocksHeld, HasLock, FlagsRight
<1>3. /\ \/ dirty[b] /\ disk' = [disk EXCEPT ![n] = data[b]] /\ data' = data
         \/ ~dirty[b] /\ data' = [data EXCEPT ![b] = disk[n]] /\ disk' = disk
      /\ valid' = [valid EXCEPT ![b] = TRUE] /\ UNCHANGED <<blockno, lock, bad>>
  BY <1>2 DEF MemIderw
<1>4. \A c \in Buf \ {b} : valid'[c] = valid[c] /\ data'[c] = data[c] /\ lock'[c] = lock[c]
  <2>1. \A c \in Buf \ {b} : valid'[c] = valid[c]
    BY <1>2, <1>3 DEF CacheInv, TypeOK
  <2>2. data' = data \/ data' = [data EXCEPT ![b] = disk[n]] BY <1>3
  <2>3. data \in [Buf -> Val] BY DEF CacheInv, TypeOK
  <2>4. \A c \in Buf \ {b} : data'[c] = data[c] BY <2>2, <2>3
  <2> QED BY <1>3, <2>1, <2>4
<1>5. \A m \in Block \ {n} : disk'[m] = disk[m]
  BY <1>2, <1>3 DEF CacheInv, TypeOK
<1>6. \A m \in Block \ {n} : Content'[m] = Content[m] /\ Owner'[m] = Owner[m]
  BY <1>1, <1>2, <1>3, <1>4, <1>5, OtherBlocks
<1>7. Content'[n] = Content[n] /\ Owner'[n] = Owner[n]
  <2>1. valid'[b] = TRUE /\ (valid[b] <=> dirty[b])
    BY <1>2, <1>3 DEF CacheInv, TypeOK, FlagsRight, NothingToDo
  <2>2. Content'[n] = data'[b] /\ Owner'[n] = Owner[n]
    BY <1>1, <1>2, <1>3, <2>1 DEF Mapped
  <2>3. Content[n] = IF dirty[b] THEN data[b] ELSE disk[n]
    BY <1>1, <1>2, <2>1 DEF Mapped
  <2>4. ~dirty[b] => data'[b] = disk[n]
    BY <1>2, <1>3 DEF CacheInv, TypeOK
  <2> QED BY <1>3, <2>2, <2>3, <2>4
<1> QED BY <1>1, <1>3, <1>6, <1>7 DEF Mapped

(* An answer of the drive changes nothing, unless it is an error. *)
LEMMA IdeintrStores ==
    ASSUME CacheInv, CacheInv', Ideintr
    PROVE  Store!Next \/ UNCHANGED <<Content, Owner, bad>>
<1> DEFINE b == Head(idequeue)
           n == blockno[b]
<1>1. Mapped /\ Mapped' BY CacheMapped, CacheMappedNext
<1>2. b \in Buf /\ ~NothingToDo(b) /\ n \in Block /\ n # NoBlock
  <2>1. b \in Buf /\ ~NothingToDo(b) /\ 1 \in 1..Len(idequeue) /\ idequeue[1] = b
    BY IdeintrFacts
  <2>2. blockno[idequeue[1]] \in Block /\ blockno[idequeue[1]] # NoBlock
    BY <2>1, IdeintrFacts
  <2> QED BY <2>1, <2>2
<1>3. /\ disk' = (IF dirty[b] THEN [disk EXCEPT ![n] = data[b]] ELSE disk)
      /\ valid' = [valid EXCEPT ![b] = TRUE] /\ UNCHANGED <<blockno, lock>>
  BY IdeintrFacts DEF Ideintr
<1>4. \/ dirty[b] /\ data' = data /\ bad' = bad
      \/ ~dirty[b] /\ data' = [data EXCEPT ![b] = disk[n]] /\ bad' = bad
      \/ ~dirty[b] /\ data' = data /\ bad' = bad \cup {n}
  BY IdeintrFacts DEF Ideintr
<1>5. \A c \in Buf \ {b} : valid'[c] = valid[c] /\ data'[c] = data[c] /\ lock'[c] = lock[c]
  BY <1>2, <1>3, <1>4 DEF CacheInv, TypeOK
<1>6. \A m \in Block \ {n} : disk'[m] = disk[m]
  BY <1>2, <1>3 DEF CacheInv, TypeOK
<1>7. \A m \in Block \ {n} : Content'[m] = Content[m] /\ Owner'[m] = Owner[m]
  BY <1>1, <1>2, <1>3, <1>5, <1>6, OtherBlocks
<1>8. valid'[b] = TRUE /\ (valid[b] <=> dirty[b])
  <2>1. valid'[b] = TRUE BY <1>2, <1>3 DEF CacheInv, TypeOK
  <2>2. valid[b] <=> dirty[b] BY <1>2 DEF CacheInv, TypeOK, FlagsRight, NothingToDo
  <2> QED BY <2>1, <2>2
<1>9. Content'[n] = data'[b] /\ Owner'[n] = Owner[n]
  BY <1>1, <1>2, <1>3, <1>8 DEF Mapped
<1>10. Content[n] = IF dirty[b] THEN data[b] ELSE disk[n]
  BY <1>1, <1>2, <1>8 DEF Mapped
<1>11. Owner' = Owner
  BY <1>1, <1>7, <1>9 DEF Mapped
<1>12. CASE bad' = bad
  <2>1. ~dirty[b] /\ data' = [data EXCEPT ![b] = disk[n]] => data'[b] = disk[n]
    BY <1>2 DEF CacheInv, TypeOK
  <2>2. CASE Content'[n] = Content[n]
    <3>1. Content' = Content BY <1>1, <1>7, <2>2 DEF Mapped
    <3> QED BY <1>11, <1>12, <3>1
  <2>3. CASE Content'[n] # Content[n]
    <3>1. ~dirty[b] /\ data' = data /\ bad' = bad \cup {n}
      BY <1>4, <1>9, <1>10, <2>1, <2>3
    <3>2. n \notin bad
      BY <1>2, <1>8, <3>1 DEF CacheInv, CleanIsDisk, OneCopy
    <3> QED BY <1>12, <3>1, <3>2
  <2> QED BY <2>2, <2>3
<1>13. CASE bad' # bad
  <2>1. ~dirty[b] /\ data' = data /\ bad' = bad \cup {n} BY <1>4, <1>13
  <2>2. n \notin bad BY <1>13, <2>1
  <2>3. Content' = [Content EXCEPT ![n] = data[b]]
    BY <1>1, <1>2, <1>7, <1>9, <2>1 DEF Mapped
  <2>4. Store!Fault(n, data[b])
    BY <1>11, <2>1, <2>2, <2>3 DEF Store!Fault
  <2>5. data[b] \in Val BY <1>2 DEF CacheInv, TypeOK
  <2> QED BY <1>2, <2>4, <2>5 DEF Store!Next
<1> QED BY <1>12, <1>13

LEMMA NextStores ==
    ASSUME CacheInv, CacheInv', [Next]_vars
    PROVE  [Store!Next]_<<Content, Owner, bad>>
<1>1. CASE Ideintr BY <1>1, IdeintrStores
<1>2. ASSUME NEW p \in Hand, NEW n \in Block, Bget(p, n)
      PROVE  Store!Next \/ UNCHANGED <<Content, Owner, bad>>
  <2>1. CASE Panic("bget: no buffers")
    <3>1. UNCHANGED <<blockno, valid, data, disk, lock, bad>> BY <2>1 DEF Panic, cache, drive
    <3> QED BY <3>1, SameStore
  <2> SUFFICES ASSUME ~Panic("bget: no buffers") PROVE Store!Next \/ UNCHANGED <<Content, Owner, bad>>
    BY <2>1
  <2>2. PICK b \in Buf : /\ IF Cached(n) THEN Hit(p, n, b) ELSE Recycle(p, n, b)
                         /\ UNCHANGED <<data, lock, disk>>
    BY <1>2 DEF Bget
  <2>3. CASE Cached(n)
    <3>1. UNCHANGED <<blockno, valid, data, disk, lock, bad>> BY <2>2, <2>3 DEF Hit
    <3> QED BY <3>1, SameStore
  <2>4. CASE ~Cached(n)
    BY <2>2, <2>4, RecycleStores
  <2> QED BY <2>3, <2>4
<1>3. ASSUME NEW p \in Hand, Brelse(p) \/ Iderw(p) \/ IderwWoken(p) \/ Kill(p)
      PROVE  UNCHANGED <<Content, Owner, bad>>
  <2>1. UNCHANGED <<blockno, valid, data, disk, lock, bad>>
    BY <1>3 DEF Brelse, Iderw, IderwWoken, Kill, Panic, cache, drive
  <2> QED BY <2>1, SameStore
<1>4. CASE Halted \/ UNCHANGED vars
  <2>1. UNCHANGED <<blockno, valid, data, disk, lock, bad>>
    BY <1>4 DEF Halted, vars, cache, drive
  <2> QED BY <2>1, SameStore
<1> QED BY <1>1, <1>2, <1>3, <1>4, LockStores, WriteStores, MemIderwStores DEF Next, Step

(* The cache, the queue and the drive refine one store of blocks: every     *)
(* step of bio.c and ide.c is one of its steps or invisible, so a block is  *)
(* owned by one process at a time and reads back what was last written.     *)
THEOREM ImplementsStoreHolds == Spec => ImplementsStore
<1>1. Init => Store!Init BY InitStore
<1>2. CacheInv /\ CacheInv' /\ [Next]_vars => [Store!Next]_<<Content, Owner, bad>>
  BY NextStores
<1> QED BY <1>1, <1>2, CacheInvHolds, PTL DEF Spec, ImplementsStore, Store!Spec
=============================================================================
