--------------------------------- MODULE Fs ---------------------------------
(* Inodes, directories and files: fs.c, the file system calls of            *)
(* sysfile.c and the inode files of file.c.  Each call is a sequence of     *)
(* steps between the points where it can meet other processes: taking and   *)
(* giving up the sleep lock of an inode, and reading or changing a          *)
(* reference count under icache.lock.  A lock that is taken, used for one   *)
(* look-up or change and given back is one step.  The log makes each call   *)
(* atomic on the disk (Log); blocks are read and written in place here.     *)
(* A file is measured in blocks, and the entries of a directory fit in one. *)
EXTENDS Integers, Sequences, FiniteSets, FiniteSetsExt, SequencesExt

CONSTANTS Proc,
          CacheSizes, \* entries of icache, NINODE in the code: a kernel has one of these
          NBLOCKS,    \* data blocks, those the bitmap covers
          NDIRECT, NINDIRECT,
          NFILE,      \* entries of ftable
          Name,       \* names in directories
          Path,       \* paths programs use: sequences of names, "/" first if absolute
          Links,      \* pairs of them passed to link()
          CHUNK,      \* blocks filewrite() writes in one transaction
          Sizes,      \* blocks passed to read() and write()
          SysCalls,   \* calls programs make
          MaxCalls    \* bound: calls in a behaviour

Inum == 1..3
Block == 1..NBLOCKS

ASSUME FsAssumption == /\ NBLOCKS \in Nat \ {0}
                       /\ CacheSizes \subseteq Nat \ {0} /\ CHUNK \in Nat \ {0} /\ NFILE \in Nat /\ MaxCalls \in Nat
                       /\ NDIRECT \in Nat \ {0} /\ NINDIRECT \in Nat

VARIABLES dino,      \* inodes on disk: type, nlink, size, addrs
          ents,      \* contents of directories, by inode
          ind,       \* contents of indirect blocks
          used,      \* blocks marked in the bitmap
          ic,        \* icache.inode[]: inum, ref, valid, lock holder, copy of the inode
          cwd,       \* p->cwd, 0 where there is no process
          file,      \* ftable.file[]: ref, ip, off, writable
          ofile,     \* the open file of each process, 0 for none
          k,         \* the call each process is in
          calls,     \* calls made, for the bound
          panicked   \* the message of panic(), and whose it is

disk == <<dino, ents, ind, used>>
vars == <<disk, ic, cwd, file, ofile, k, calls, panicked>>

ROOTINO == 1
Slot == DOMAIN ic
File == 1..NFILE
Addr == 0..NDIRECT
MAXFILE == NDIRECT + NINDIRECT

NoAddrs == [a \in Addr |-> 0]
FreeInode == [type |-> "free", nlink |-> 0, size |-> 0, addrs |-> NoAddrs]
NoFile == [ref |-> 0, ip |-> 0, off |-> 0, writable |-> FALSE]
NoEnts == [n \in Name \cup {".."} |-> 0]
NoIndir == [a \in 0..(NINDIRECT - 1) |-> 0]
EmptySlot == [inum |-> 0, ref |-> 0, valid |-> FALSE, lk |-> 0, di |-> FreeInode]
User == [call |-> "none", at |-> "user", path |-> <<>>, new |-> <<>>, ip |-> 0, dp |-> 0,
         up |-> FALSE, put |-> <<>>, ret |-> "user", n |-> 0]
Gone == [User EXCEPT !.at = "gone"]

-----------------------------------------------------------------------------
(* The inode cache, as functions of a table f *)

Hits(f, i) == {s \in Slot : f[s].ref > 0 /\ f[s].inum = i}

(* Variant with a bug: the last entry is not looked at. *)
NoSlotShort(f, i) == Hits(f, i) = {} /\ \A s \in Slot : s + 1 \in Slot => f[s].ref > 0

(* iget(): the entry of the inode, or the first empty one, if there is one. *)
NoSlot(f, i) == Hits(f, i) = {} /\ \A s \in Slot : f[s].ref > 0
IgetSlot(f, i) == IF Hits(f, i) # {} THEN Min(Hits(f, i)) ELSE Min({s \in Slot : f[s].ref = 0})
Iget(f, i) == LET s == IgetSlot(f, i)
              IN  IF f[s].ref > 0 THEN [f EXCEPT ![s].ref = @ + 1]
                                  ELSE [f EXCEPT ![s] = [EmptySlot EXCEPT !.inum = i, !.ref = 1]]

(* What ilock() makes of an entry whose lock is free. *)
Free(s) == ic[s].lk = 0
Ilock(f, s) == IF f[s].valid THEN f
               ELSE [f EXCEPT ![s].valid = TRUE, ![s].di = dino[f[s].inum]]
NoType(s) == ~ic[s].valid /\ dino[ic[s].inum].type = "free"
Type(s) == Ilock(ic, s)[s].di.type

(* iupdate(): a change of the copy goes to the disk too. *)
Iupdate(f, d, s) == [d EXCEPT ![f[s].inum] = f[s].di]

(* dirlookup() without its iget(). *)
Lookup(s, n) == IF n = "." THEN ic[s].inum ELSE ents[ic[s].inum][n]
Dirlink(e, dir, n, i) == [e EXCEPT ![dir][n] = i]
IsDirEmpty(s) == \A n \in Name : ents[ic[s].inum][n] = 0

-----------------------------------------------------------------------------
(* Blocks *)

(* What an indirect block lists. *)
Listed(b) == IF b = 0 THEN {} ELSE {ind[b][a] : a \in DOMAIN NoIndir}

(* The blocks of an inode, the indirect block among them. *)
BlocksOf(di) == ({di.addrs[a] : a \in Addr} \cup Listed(di.addrs[NDIRECT])) \ {0}

(* Variant with a bug: the indirect block itself is not freed. *)
ItruncKeepsIndirect(di) ==
    ({di.addrs[a] : a \in 0..(NDIRECT - 1)} \cup Listed(di.addrs[NDIRECT])) \ {0}

(* The blocks itrunc() gives back with bfree(). *)
Itrunc(di) == BlocksOf(di)

(* balloc(): the first free block, zeroed.  bfree() of some. *)
Balloc(u) == Min(Block \ u)
Bfree(u, blocks) == u \ blocks

(* bmap() on r: an inode, the bitmap and the indirect blocks. *)
BmapDirect(r, bn) ==
    IF r.di.addrs[bn] # 0 THEN r
    ELSE LET b == Balloc(r.used)
         IN  [r EXCEPT !.di.addrs[bn] = b, !.used = @ \cup {b}, !.ind[b] = NoIndir]

BmapIndirect(r, bn) ==
    LET b == r.di.addrs[NDIRECT]
        c == Balloc(r.used)
    IN  IF r.ind[b][bn] # 0 THEN r
        ELSE [r EXCEPT !.used = @ \cup {c}, !.ind[b][bn] = c, !.ind[c] = NoIndir]

Bmap(r, bn) == IF bn < NDIRECT THEN BmapDirect(r, bn)
               ELSE BmapIndirect(BmapDirect(r, NDIRECT), bn - NDIRECT)

(* How many blocks bmap() allocates for n blocks at off. *)
Wants(di, off, n) == Cardinality({bn \in off..(off + n - 1) : bn >= di.size})
                     + IF off + n > NDIRECT /\ di.addrs[NDIRECT] = 0 THEN 1 ELSE 0
OutOfBlocks(n) == Cardinality(Block \ used) < n

-----------------------------------------------------------------------------
(* mkfs.c writes the first file system.  An image is the disk and the first *)
(* block not yet given out.                                                 *)
NoImage == [dino |-> [i \in Inum |-> FreeInode], ents |-> [i \in Inum |-> NoEnts],
            ind |-> [b \in Block |-> NoIndir], freeblock |-> 1]

MkIalloc(m, i, type) == [m EXCEPT !.dino[i] = [FreeInode EXCEPT !.type = type, !.nlink = 1]]

(* One more block for inode i. *)
MkIappend(m, i) ==
    LET fbn == m.dino[i].size
        indirect == m.dino[i].addrs[NDIRECT]
        x == m.freeblock
        grown == [m EXCEPT !.dino[i].size = @ + 1]
    IN  IF fbn < NDIRECT THEN [grown EXCEPT !.dino[i].addrs[fbn] = x, !.freeblock = x + 1]
        ELSE IF indirect # 0 THEN [grown EXCEPT !.ind[indirect][fbn - NDIRECT] = x, !.freeblock = x + 1]
        ELSE [grown EXCEPT !.dino[i].addrs[NDIRECT] = x, !.ind[x][fbn - NDIRECT] = x + 1, !.freeblock = x + 2]

MkEntry(m, n, i) == [m EXCEPT !.ents[ROOTINO][n] = i]

(* A file f given on the command line, the next inode for it. *)
MkFile(m, f) ==
    LET i == Min({j \in Inum : m.dino[j].type = "free"})
    IN  FoldLeft(LAMBDA x, n : MkIappend(x, i), MkEntry(MkIalloc(m, i, "file"), f.name, i), [n \in 1..f.size |-> n])

Mkfs(files) == FoldLeft(MkFile, MkIappend(MkEntry(MkIalloc(NoImage, ROOTINO, "dir"), "..", ROOTINO), ROOTINO), files)

(* balloc() of mkfs.c: the blocks given out are the first ones. *)
MkBalloc(m) == 1..(m.freeblock - 1)

(* What earlier calls made of it: a file with a second name, a file in a    *)
(* directory, a directory in a directory; blocks from the end of the disk.  *)
At(n, i, e) == [e EXCEPT ![n] = i]
Root == At("..", 1, NoEnts)
Entries(e, i) == {x \in Inum \X (Name \cup {".."}) : e[x[1]][x[2]] = i}
Place(i, a) == Max(Block) + 1 - i - a * Cardinality(Inum)

Linked == LET m == MkEntry(Mkfs(<<[name |-> "a", size |-> 1]>>), "b", 2) IN [m EXCEPT !.dino[2].nlink = 2]

Laid(kind, size, e) ==
    [NoImage EXCEPT
        !.ents = e,
        !.dino = [i \in Inum |-> [type |-> kind[i], nlink |-> Cardinality(Entries(e, i)), size |-> size[i],
                                  addrs |-> [a \in Addr |-> IF a < size[i] /\ a < NDIRECT THEN Place(i, a)
                                                            ELSE IF size[i] > NDIRECT THEN Min(Block) ELSE 0]]],
        !.ind = [b \in Block |-> IF b = Min(Block) /\ \E i \in Inum : size[i] > NDIRECT
                                 THEN [NoIndir EXCEPT ![0] = b + 1] ELSE NoIndir]]

(* A directory removed while it is a current directory: its ".." stays. *)
Removed == LET m == Laid(<<"dir", "dir", "dir">>, <<1, 1, 1>>, <<At("a", 2, Root), Root, At("..", 2, NoEnts)>>)
           IN  [m EXCEPT !.dino[2].nlink = @ - 1]

Older == { Laid(<<"dir", "dir", "file">>, <<1, 1, NDIRECT + 1>>, <<At("a", 2, Root), At("a", 3, Root), NoEnts>>),
           Laid(<<"dir", "dir", "dir">>, <<1, 1, 1>>, <<At("a", 2, Root), At("a", 3, Root), At("..", 2, NoEnts)>>),
           Removed }

(* Programs start in any directory, a removed one among them as long as     *)
(* somebody is in it (its entry is valid since unlink() locked it), and may *)
(* share an open file.                                                      *)
Init ==
    /\ \E m \in {Mkfs(<<>>), Linked} \cup Older :
         /\ dino = m.dino /\ ents = m.ents /\ ind = m.ind
         /\ used = IF m \in Older THEN UNION {BlocksOf(dino[i]) : i \in Inum} ELSE MkBalloc(m)
    /\ \E dir \in [Proc -> {i \in Inum : dino[i].type = "dir"}], w \in {{}, Proc}, i \in Inum, NINODE \in CacheSizes :
         LET held == {dir[p] : p \in Proc} \cup (IF w = {} THEN {} ELSE {i})
             slot(x) == Cardinality({y \in held : y <= x})
             refs(x) == Cardinality({p \in Proc : dir[p] = x}) + (IF w # {} /\ x = i THEN 1 ELSE 0)
         IN  /\ IF w = {} THEN i = ROOTINO ELSE dino[i].type = "file"
             /\ Cardinality(held) <= NINODE
             /\ \A x \in Inum : dino[x].type # "free" /\ dino[x].nlink = 0 => x \in held
             /\ cwd = [p \in Proc |-> slot(dir[p])]
             /\ ofile = [p \in Proc |-> IF p \in w THEN 1 ELSE 0]
             /\ file = [f \in File |->
                          IF w = {} \/ f > 1 THEN NoFile
                          ELSE [ref |-> Cardinality(w), ip |-> slot(i), off |-> 0, writable |-> TRUE]]
             /\ ic = [s \in 1..NINODE |->
                        IF s > Cardinality(held) THEN EmptySlot
                        ELSE LET x == CHOOSE x \in held : slot(x) = s
                                 e == [EmptySlot EXCEPT !.inum = x, !.ref = refs(x)]
                             IN  IF dino[x].nlink > 0 THEN e ELSE [e EXCEPT !.valid = TRUE, !.di = dino[x]]]
    /\ k = [p \in Proc |-> User]
    /\ calls = 0
    /\ panicked = [msg |-> "", who |-> 0]

-----------------------------------------------------------------------------
Goto(p, r) == k' = [k EXCEPT ![p] = r]

Panic(p, msg) == /\ panicked' = [msg |-> msg, who |-> p]
                 /\ UNCHANGED <<disk, ic, cwd, file, ofile, k, calls>>

(* The rest of a call: iput() each of these, then go on at ret. *)
PutThen(c, slots, ret) == [c EXCEPT !.at = "put", !.put = slots, !.ret = ret]

MayBegin(p, call) == call \in SysCalls /\ k[p].at = "user" /\ calls < MaxCalls

Begin(p, call) == MayBegin(p, call) /\ calls' = calls + 1

-----------------------------------------------------------------------------
(* namex() *)

StartInum(p, path) == IF path[1] = "/" THEN ROOTINO ELSE ic[cwd[p]].inum
Names(path) == IF path[1] = "/" THEN Tail(path) ELSE path

(* The call begins to walk its (first) path.  The current inode is dp, and  *)
(* up tells whether it is the ".." of a removed directory.                  *)
BeginPath(p, call, path, new) ==
    /\ Begin(p, call) /\ ~NoSlot(ic, StartInum(p, path))
    /\ ic' = Iget(ic, StartInum(p, path))
    /\ Goto(p, [User EXCEPT !.call = call, !.at = "walk", !.path = Names(path), !.new = new,
                            !.dp = IgetSlot(ic, StartInum(p, path))])
    /\ UNCHANGED <<disk, cwd, file, ofile, panicked>>

(* Not even the root has an entry, and there is none for it. *)
BeginFull(p, call, path) == MayBegin(p, call) /\ NoSlot(ic, StartInum(p, path)) /\ Panic(p, "iget: no inodes")

(* Whether name leads up from a directory that has no name any more. *)
UpFrom(f, s, name) == name = ".." /\ f[s].di.nlink = 0

(* Whether the walk is nameiparent(); where the call goes when it fails. *)
Parent(c) == c.call \in {"create", "mkdir", "mknod", "unlink"} \/ c.ip # 0
Failed(c) == PutThen(c, <<c.dp>>, IF c.ip # 0 THEN "linkbad" ELSE "user")

(* No more elements: namei() has its inode, nameiparent() has no parent. *)
WalkEnd(p) ==
    LET c == k[p]
    IN  /\ c.at = "walk" /\ c.path = <<>>
        /\ Goto(p, IF Parent(c) THEN Failed(c) ELSE [c EXCEPT !.at = "found", !.ip = c.dp, !.dp = 0])
        /\ UNCHANGED <<disk, ic, cwd, file, ofile, calls, panicked>>

(* One element: ilock(), dirlookup() with its iget(), iunlock(). *)
WalkStep(p) ==
    LET c == k[p]
        name == Head(c.path)
        next == Lookup(c.dp, name)
        last == Parent(c) /\ Len(c.path) = 1
    IN  /\ c.at = "walk" /\ c.path # <<>>
        /\ Free(c.dp)
        /\ IF NoType(c.dp) THEN Panic(p, "ilock: no type")
           ELSE IF Type(c.dp) = "dir" /\ next # 0 /\ ~last /\ NoSlot(ic, next) THEN Panic(p, "iget: no inodes")
           ELSE
              /\ \/ /\ Type(c.dp) # "dir" \/ (next = 0 /\ ~last)
                    /\ Goto(p, Failed(c))
                    /\ ic' = Ilock(ic, c.dp)
                 \/ /\ Type(c.dp) = "dir" /\ last
                    /\ Goto(p, [c EXCEPT !.at = "found"])
                    /\ ic' = Ilock(ic, c.dp)
                 \/ /\ Type(c.dp) = "dir" /\ next # 0 /\ ~last
                    /\ ic' = Iget(Ilock(ic, c.dp), next)
                    /\ Goto(p, PutThen([c EXCEPT !.path = Tail(@), !.dp = IgetSlot(ic, next),
                                                 !.up = UpFrom(Ilock(ic, c.dp), c.dp, name)], <<c.dp>>, "walk"))
              /\ UNCHANGED <<disk, cwd, file, ofile, calls, panicked>>

-----------------------------------------------------------------------------
(* iput() *)

(* Variant with a bug: the count is not looked at. *)
LastRefAny(s) == ic[s].valid /\ ic[s].di.nlink = 0

LastRef(s) == ic[s].valid /\ ic[s].di.nlink = 0 /\ ic[s].ref = 1

(* Under the inode's lock: free an inode without links or other references. *)
PutCheck(p) ==
    LET s == Head(k[p].put)
        i == ic[s].inum
    IN  /\ k[p].at = "put"
        /\ Free(s)
        /\ IF LastRef(s) /\ ~(Itrunc(ic[s].di) \subseteq used) THEN Panic(p, "freeing free block")
           ELSE /\ \/ ~LastRef(s) /\ UNCHANGED <<disk, ic>>
                   \/ /\ LastRef(s)
                      /\ used' = Bfree(used, Itrunc(ic[s].di))
                      /\ dino' = [dino EXCEPT ![i] = FreeInode]
                      /\ ents' = [ents EXCEPT ![i] = NoEnts]
                      /\ ic' = [ic EXCEPT ![s].valid = FALSE, ![s].di = FreeInode]
                      /\ UNCHANGED ind
                /\ Goto(p, [k[p] EXCEPT !.at = "drop"])
                /\ UNCHANGED <<cwd, file, ofile, calls, panicked>>

(* Where a call goes after its last iput(). *)
After(c) == IF c.ret = "user" THEN User ELSE IF c.ret = "gone" THEN Gone
            ELSE [c EXCEPT !.at = c.ret, !.put = <<>>, !.ret = "user"]

(* ref-- under icache.lock.  An entry without references is empty. *)
PutDrop(p) ==
    LET s == Head(k[p].put)
    IN  /\ k[p].at = "drop"
        /\ ic' = [ic EXCEPT ![s] = IF @.ref = 1 THEN EmptySlot ELSE [@ EXCEPT !.ref = @ - 1]]
        /\ Goto(p, IF Len(k[p].put) > 1 THEN [k[p] EXCEPT !.at = "put", !.put = Tail(@)] ELSE After(k[p]))
        /\ UNCHANGED <<disk, cwd, file, ofile, calls, panicked>>

-----------------------------------------------------------------------------
(* sys_open(), create(), sys_mkdir(), sys_mknod() *)

FileFree(f) == file[f].ref = 0 /\ \A e \in 1..(f - 1) : file[e].ref # 0

(* filealloc() and fdalloc(), with the inode s locked in the table t: the   *)
(* reference to s goes to the file or is given up.                          *)
OpenFile(p, t, s) ==
    /\ ic' = [t EXCEPT ![s].lk = 0]
    /\ \/ /\ ofile[p] = 0
          /\ \E f \in File : /\ FileFree(f)
                             /\ file' = [file EXCEPT ![f] = [ref |-> 1, ip |-> s, off |-> 0, writable |-> k[p].call # "open_rd"]]
                             /\ ofile' = [ofile EXCEPT ![p] = f]
          /\ Goto(p, User)
       \/ /\ ofile[p] # 0 \/ \A f \in File : file[f].ref # 0
          /\ Goto(p, PutThen(k[p], <<s>>, "user"))
          /\ UNCHANGED <<file, ofile>>
    /\ UNCHANGED <<disk, cwd, calls, panicked>>

(* ilock(ip) and then iunlockput(ip), for a call that fails. *)
Reject(p, s) == /\ ic' = Ilock(ic, s)
                /\ Goto(p, PutThen(k[p], <<s>>, "user"))
                /\ UNCHANGED <<disk, cwd, file, ofile, calls, panicked>>

(* A process that has its inode and can lock it. *)
Found(p, calls_) == k[p].at = "found" /\ k[p].call \in calls_

Open(p) ==
    LET s == k[p].ip
    IN  /\ Found(p, {"open_rd", "open_rw"}) /\ Free(s)
        /\ IF NoType(s) THEN Panic(p, "ilock: no type")
           ELSE \/ Type(s) = "dir" /\ k[p].call = "open_rw" /\ Reject(p, s)
                \/ ~(Type(s) = "dir" /\ k[p].call = "open_rw") /\ OpenFile(p, Ilock(ic, s), s)

(* ialloc(): the first free inode on the disk. *)
Ialloc == Min({j \in Inum : dino[j].type = "free"})

Creating == {"create", "mkdir", "mknod"}
Made(call) == CASE call = "create" -> "file" [] call = "mkdir" -> "dir" [] call = "mknod" -> "dev"

(* Variant with a bug: it keeps the parent's lock until it has the inode. *)
CreateFindsHolding(p) ==
    LET c == k[p]
        i == Lookup(c.dp, Head(c.path))
    IN  /\ Found(p, Creating) /\ Free(c.dp) /\ i # 0 /\ ~NoSlot(ic, i)
        /\ ic' = [Iget(ic, i) EXCEPT ![c.dp].lk = p]
        /\ Goto(p, [c EXCEPT !.ip = IgetSlot(ic, i), !.at = "exists", !.put = <<c.dp>>])
        /\ UNCHANGED <<disk, cwd, file, ofile, calls, panicked>>

(* create() finds the name: it gives up the parent and locks the inode. *)
CreateFinds(p) ==
    LET c == k[p]
        i == Lookup(c.dp, Head(c.path))
    IN  /\ Found(p, Creating) /\ Free(c.dp) /\ i # 0
        /\ IF NoSlot(ic, i) THEN Panic(p, "iget: no inodes")
           ELSE /\ ic' = Iget(ic, i)
                /\ Goto(p, PutThen([c EXCEPT !.ip = IgetSlot(ic, i), !.up = UpFrom(ic, c.dp, Head(c.path))],
                                   <<c.dp>>, "exists"))
                /\ UNCHANGED <<disk, cwd, file, ofile, calls, panicked>>

Exists(p) ==
    LET s == k[p].ip
    IN  /\ k[p].at = "exists" /\ Free(s)
        /\ IF NoType(s) THEN Panic(p, "ilock: no type")
           ELSE \/ Type(s) = "file" /\ k[p].call = "create" /\ OpenFile(p, Ilock(ic, s), s)
                \/ ~(Type(s) = "file" /\ k[p].call = "create") /\ Reject(p, s)

(* Variant with a bug: no link is counted for "..". *)
DotDotUncounted(f, s, type) == f

(* dp->nlink++ for the ".." of a new directory. *)
DotDot(f, s, type) == IF type = "dir" THEN [f EXCEPT ![s].di.nlink = @ + 1] ELSE f

(* Otherwise it allocates an inode and enters it.  The inode stays locked   *)
(* while the parent is given up.                                            *)
CreateNew(p) ==
    LET c == k[p]
        type == Made(c.call)
        i == Ialloc
        s == IgetSlot(ic, i)
        b == Balloc(used)
        di == [type |-> type, nlink |-> 1, size |-> IF type = "dir" THEN 1 ELSE 0,
               addrs |-> IF type = "dir" THEN [NoAddrs EXCEPT ![0] = b] ELSE NoAddrs]
        t == DotDot([Iget(ic, i) EXCEPT ![s].lk = p, ![s].valid = TRUE, ![s].di = di], c.dp, type)
    IN  /\ Found(p, Creating) /\ Free(c.dp) /\ Lookup(c.dp, Head(c.path)) = 0
        /\ IF \A j \in Inum : dino[j].type # "free" THEN Panic(p, "ialloc: no inodes")
           ELSE IF NoSlot(ic, i) THEN Panic(p, "iget: no inodes")
           ELSE IF type = "dir" /\ OutOfBlocks(1) THEN Panic(p, "balloc: out of blocks")
           ELSE /\ ic[s].lk = 0
                /\ ic' = t
                /\ dino' = Iupdate(t, Iupdate(t, dino, s), c.dp)
                /\ LET e == [Dirlink(ents, ic[c.dp].inum, Head(c.path), i) EXCEPT ![i] = NoEnts]
                   IN  ents' = IF type = "dir" THEN Dirlink(e, i, "..", ic[c.dp].inum) ELSE e
                /\ used' = IF type = "dir" THEN used \cup {b} ELSE used
                /\ Goto(p, PutThen([c EXCEPT !.ip = s], <<c.dp>>, "created"))
                /\ UNCHANGED <<ind, cwd, file, ofile, calls, panicked>>

Created(p) == /\ k[p].at = "created"
              /\ \/ k[p].call = "create" /\ OpenFile(p, ic, k[p].ip)
                 \/ /\ k[p].call # "create"
                    /\ ic' = [ic EXCEPT ![k[p].ip].lk = 0]
                    /\ Goto(p, PutThen(k[p], <<k[p].ip>>, "user"))
                    /\ UNCHANGED <<disk, cwd, file, ofile, calls, panicked>>

-----------------------------------------------------------------------------
(* sys_unlink() *)

(* The parent is locked and stays locked. *)
UnlinkFinds(p) ==
    LET c == k[p]
        i == Lookup(c.dp, Head(c.path))
    IN  /\ Found(p, {"unlink"}) /\ Free(c.dp)
        /\ \/ /\ Head(c.path) \in {".", ".."} \/ i = 0
              /\ ic' = Ilock(ic, c.dp)
              /\ Goto(p, PutThen(c, <<c.dp>>, "user"))
              /\ UNCHANGED <<disk, cwd, file, ofile, calls, panicked>>
           \/ /\ Head(c.path) \notin {".", ".."} /\ i # 0
              /\ IF NoSlot(ic, i) THEN Panic(p, "iget: no inodes")
                 ELSE /\ ic' = [Iget(Ilock(ic, c.dp), i) EXCEPT ![c.dp].lk = p]
                      /\ Goto(p, [c EXCEPT !.at = "unlinkip", !.ip = IgetSlot(ic, i), !.up = FALSE])
                      /\ UNCHANGED <<disk, cwd, file, ofile, calls, panicked>>

(* The inode is locked too.  The entry goes, and the parent is unlocked. *)
UnlinkErases(p) ==
    LET c == k[p]
        s == c.ip
        t == [Ilock(ic, s) EXCEPT ![s].lk = p, ![c.dp].lk = 0,
                                  ![c.dp].di.nlink = IF Type(s) = "dir" THEN @ - 1 ELSE @]
    IN  /\ c.at = "unlinkip" /\ Free(s)
        /\ IF NoType(s) THEN Panic(p, "ilock: no type")
           ELSE IF Ilock(ic, s)[s].di.nlink < 1 THEN Panic(p, "unlink: nlink < 1")
           ELSE \/ /\ Type(s) = "dir" /\ ~IsDirEmpty(s)
                   /\ ic' = Ilock(ic, s)
                   /\ Goto(p, PutThen(c, <<s>>, "unlinkbad"))
                   /\ UNCHANGED <<disk, cwd, file, ofile, calls, panicked>>
                \/ /\ Type(s) # "dir" \/ IsDirEmpty(s)
                   /\ ic' = t
                   /\ dino' = Iupdate(t, dino, c.dp)
                   /\ ents' = [ents EXCEPT ![ic[c.dp].inum][Head(c.path)] = 0]
                   /\ Goto(p, PutThen(c, <<c.dp>>, "unlinked"))
                   /\ UNCHANGED <<ind, used, cwd, file, ofile, calls, panicked>>

UnlinkBad(p) == /\ k[p].at = "unlinkbad"
                /\ ic' = [ic EXCEPT ![k[p].dp].lk = 0]
                /\ Goto(p, PutThen(k[p], <<k[p].dp>>, "user"))
                /\ UNCHANGED <<disk, cwd, file, ofile, calls, panicked>>

Unlinked(p) ==
    LET t == [ic EXCEPT ![k[p].ip].di.nlink = @ - 1, ![k[p].ip].lk = 0]
    IN  /\ k[p].at = "unlinked"
        /\ ic' = t
        /\ dino' = Iupdate(t, dino, k[p].ip)
        /\ Goto(p, PutThen(k[p], <<k[p].ip>>, "user"))
        /\ UNCHANGED <<ents, ind, used, cwd, file, ofile, calls, panicked>>

-----------------------------------------------------------------------------
(* sys_link() *)

(* The old path is found: one more link, then the walk to the new parent. *)
LinkCounts(p) ==
    LET c == k[p]
        s == c.ip
        t == [Ilock(ic, s) EXCEPT ![s].di.nlink = @ + 1]
    IN  /\ Found(p, {"link"}) /\ c.dp = 0 /\ Free(s)
        /\ IF NoType(s) THEN Panic(p, "ilock: no type")
           ELSE \/ Type(s) = "dir" /\ Reject(p, s)
                \/ /\ Type(s) # "dir"
                   /\ IF NoSlot(ic, StartInum(p, c.new)) THEN Panic(p, "iget: no inodes")
                      ELSE /\ ic' = Iget(t, StartInum(p, c.new))
                           /\ dino' = Iupdate(t, dino, s)
                           /\ Goto(p, [c EXCEPT !.at = "walk", !.path = Names(c.new), !.new = <<>>, !.up = FALSE,
                                                !.dp = IgetSlot(ic, StartInum(p, c.new))])
                           /\ UNCHANGED <<ents, ind, used, cwd, file, ofile, calls, panicked>>

(* dirlink(): a name that exists is looked up and put under the parent's    *)
(* lock.                                                                    *)
LinkEnters(p) ==
    LET c == k[p]
        i == Lookup(c.dp, Head(c.path))
    IN  /\ Found(p, {"link"}) /\ c.dp # 0 /\ Free(c.dp)
        /\ IF NoSlot(ic, i) /\ i # 0 THEN Panic(p, "iget: no inodes")
           ELSE /\ \/ /\ i # 0
                      /\ ic' = [Iget(ic, i) EXCEPT ![c.dp].lk = p]
                      /\ Goto(p, PutThen(c, <<IgetSlot(ic, i)>>, "linkexists"))
                      /\ UNCHANGED ents
                   \/ /\ i = 0
                      /\ ents' = Dirlink(ents, ic[c.dp].inum, Head(c.path), ic[c.ip].inum)
                      /\ Goto(p, PutThen(c, <<c.dp, c.ip>>, "user"))
                      /\ UNCHANGED ic
                /\ UNCHANGED <<dino, ind, used, cwd, file, ofile, calls, panicked>>

LinkExists(p) == /\ k[p].at = "linkexists"
                 /\ ic' = [ic EXCEPT ![k[p].dp].lk = 0]
                 /\ Goto(p, PutThen(k[p], <<k[p].dp>>, "linkbad"))
                 /\ UNCHANGED <<disk, cwd, file, ofile, calls, panicked>>

LinkBad(p) ==
    LET s == k[p].ip
        t == [ic EXCEPT ![s].di.nlink = @ - 1]
    IN  /\ k[p].at = "linkbad" /\ Free(s)
        /\ ic' = t
        /\ dino' = Iupdate(t, dino, s)
        /\ Goto(p, PutThen(k[p], <<s>>, "user"))
        /\ UNCHANGED <<ents, ind, used, cwd, file, ofile, calls, panicked>>

-----------------------------------------------------------------------------
(* sys_chdir(): the old directory is given up, then the new one set. *)
Chdir(p) ==
    LET s == k[p].ip
    IN  /\ Found(p, {"chdir"}) /\ Free(s)
        /\ IF NoType(s) THEN Panic(p, "ilock: no type")
           ELSE \/ Type(s) # "dir" /\ Reject(p, s)
                \/ /\ Type(s) = "dir"
                   /\ ic' = Ilock(ic, s)
                   /\ cwd' = [cwd EXCEPT ![p] = 0]
                   /\ Goto(p, PutThen(k[p], <<cwd[p]>>, "chdir"))
                   /\ UNCHANGED <<disk, file, ofile, calls, panicked>>

ChdirSets(p) == /\ k[p].at = "chdir"
                /\ cwd' = [cwd EXCEPT ![p] = k[p].ip]
                /\ Goto(p, User)
                /\ UNCHANGED <<disk, ic, file, ofile, calls, panicked>>

-----------------------------------------------------------------------------
(* fileread(), filewrite() and fileclose() of inode files *)

(* The blocks readi() finds from off on, and the inode, the bitmap and the  *)
(* indirect blocks after writei() of n blocks there.                        *)
Readi(di, off, n) == IF off + n > di.size THEN di.size - off ELSE n

Writei(di, off, n) ==
    LET r == FoldLeft(Bmap, [di |-> di, used |-> used, ind |-> ind], [j \in 1..n |-> off + j - 1])
    IN  [r EXCEPT !.di.size = IF off + n > @ THEN off + n ELSE @]

Read(p, n) ==
    LET f == ofile[p]
        s == file[f].ip
    IN  /\ Begin(p, "read") /\ f # 0 /\ Free(s) /\ Type(s) \in {"file", "dir"}
        /\ ic' = Ilock(ic, s)
        /\ file' = [file EXCEPT ![f].off = @ + Readi(Ilock(ic, s)[s].di, @, n)]
        /\ UNCHANGED <<disk, cwd, ofile, k, panicked>>

Write(p, n) ==
    /\ Begin(p, "write") /\ ofile[p] # 0 /\ file[ofile[p]].writable
    /\ Goto(p, [User EXCEPT !.call = "write", !.at = "write", !.n = n])
    /\ UNCHANGED <<disk, ic, cwd, file, ofile, panicked>>

(* One round of filewrite(): writei() of a chunk at f->off under the lock.  *)
(* A chunk that does not fit a file ends the call, and a device has its own *)
(* write().                                                                 *)
WriteChunk(p) ==
    LET f == ofile[p]
        s == file[f].ip
        off == file[f].off
        di == Ilock(ic, s)[s].di
        n1 == Min({CHUNK, k[p].n})
        r == Writei(di, off, n1)
        t == [Ilock(ic, s) EXCEPT ![s].di = r.di]
    IN  /\ k[p].at = "write" /\ Free(s)
        /\ \/ /\ di.type # "file" \/ off + n1 > MAXFILE
              /\ Goto(p, User)
              /\ ic' = Ilock(ic, s)
              /\ UNCHANGED <<disk, cwd, file, ofile, calls, panicked>>
           \/ /\ di.type = "file" /\ off + n1 <= MAXFILE
              /\ IF OutOfBlocks(Wants(di, off, n1)) THEN Panic(p, "balloc: out of blocks")
                 ELSE /\ ic' = t
                      /\ dino' = Iupdate(t, dino, s)
                      /\ used' = r.used /\ ind' = r.ind
                      /\ file' = [file EXCEPT ![f].off = off + n1]
                      /\ Goto(p, IF k[p].n = n1 THEN User ELSE [k[p] EXCEPT !.n = @ - n1])
                      /\ UNCHANGED <<ents, cwd, ofile, calls, panicked>>

(* Variant with a bug: every fileclose() does. *)
ClosingAlways(p) == IF ofile[p] # 0 THEN <<file[ofile[p]].ip>> ELSE <<>>

(* The last fileclose() of a file gives its inode to iput(). *)
Closing(p) == IF ofile[p] # 0 /\ file[ofile[p]].ref = 1 THEN <<file[ofile[p]].ip>> ELSE <<>>
Filecloses(p) ==
    file' = [f \in File |-> IF f # ofile[p] THEN file[f]
                            ELSE IF file[f].ref = 1 THEN NoFile
                            ELSE [file[f] EXCEPT !.ref = @ - 1]]

Close(p) == /\ Begin(p, "close") /\ ofile[p] # 0
            /\ Filecloses(p)
            /\ ofile' = [ofile EXCEPT ![p] = 0]
            /\ Goto(p, IF Closing(p) = <<>> THEN User ELSE PutThen(User, Closing(p), "user"))
            /\ UNCHANGED <<disk, ic, cwd, panicked>>

-----------------------------------------------------------------------------
(* What exit() and fork() do with files and directories. *)
Exit(p) == /\ Begin(p, "exit")
           /\ Filecloses(p)
           /\ ofile' = [ofile EXCEPT ![p] = 0]
           /\ cwd' = [cwd EXCEPT ![p] = 0]
           /\ Goto(p, PutThen(User, Closing(p) \o <<cwd[p]>>, "gone"))
           /\ UNCHANGED <<disk, ic, panicked>>

Fork(p, q) == /\ Begin(p, "fork") /\ k[q].at = "gone"
              /\ cwd' = [cwd EXCEPT ![q] = cwd[p]]
              /\ ic' = [ic EXCEPT ![cwd[p]].ref = @ + 1]
              /\ ofile' = [ofile EXCEPT ![q] = ofile[p]]
              /\ file' = [f \in File |-> IF f = ofile[p] THEN [file[f] EXCEPT !.ref = @ + 1] ELSE file[f]]
              /\ Goto(q, User)
              /\ UNCHANGED <<disk, panicked>>

-----------------------------------------------------------------------------
PathCalls == {"open_rd", "open_rw", "create", "mkdir", "mknod", "unlink", "chdir"}

Namex(p) == WalkEnd(p) \/ WalkStep(p)
Iput(p) == PutCheck(p) \/ PutDrop(p)
SysOpen(p) == Open(p) \/ CreateFinds(p) \/ Exists(p) \/ CreateNew(p) \/ Created(p)
SysUnlink(p) == UnlinkFinds(p) \/ UnlinkErases(p) \/ UnlinkBad(p) \/ Unlinked(p)
SysLink(p) == LinkCounts(p) \/ LinkEnters(p) \/ LinkExists(p) \/ LinkBad(p)
SysChdir(p) == Chdir(p) \/ ChdirSets(p)

Next == /\ panicked.msg = ""
        /\ \E p \in Proc :
             \/ \E call \in PathCalls, path \in Path :
                   BeginPath(p, call, path, <<>>) \/ BeginFull(p, call, path)
             \/ \E l \in Links : BeginPath(p, "link", l[1], l[2]) \/ BeginFull(p, "link", l[1])
             \/ \E n \in Sizes : Read(p, n) \/ Write(p, n)
             \/ Close(p) \/ Exit(p) \/ \E q \in Proc : Fork(p, q)
             \/ Namex(p) \/ Iput(p) \/ SysOpen(p) \/ SysUnlink(p) \/ SysLink(p) \/ SysChdir(p)
             \/ WriteChunk(p)

Spec == Init /\ [][Next]_vars

-----------------------------------------------------------------------------
(* Properties *)

Stages == {"user", "gone", "walk", "found", "put", "drop", "exists", "created", "unlinkip",
           "unlinkbad", "unlinked", "linkexists", "linkbad", "chdir", "write"}

TypeOK ==
    /\ \A i \in Inum : /\ dino[i].type \in {"free", "dir", "file", "dev"}
                       /\ dino[i].nlink \in Nat /\ dino[i].size \in 0..MAXFILE
                       /\ dino[i].addrs \in [Addr -> Block \cup {0}]
    /\ ents \in [Inum -> [Name \cup {".."} -> Inum \cup {0}]]
    /\ used \subseteq Block
    /\ \A s \in Slot : ic[s].inum \in Inum \cup {0} /\ ic[s].ref \in Nat /\ ic[s].lk \in Proc \cup {0}
    /\ cwd \in [Proc -> Slot \cup {0}] /\ ofile \in [Proc -> File \cup {0}]
    /\ \A p \in Proc : k[p].at \in Stages

(* Where a call stands, or will stand after its iput()s. *)
Stage(c) == IF c.at \in {"put", "drop"} THEN c.ret ELSE c.at

(* The inodes a call points to. *)
HasDp(c) == c.dp # 0 /\ Stage(c) \in {"walk", "found", "unlinkip", "unlinkbad", "linkexists"}
HasIp(c) == c.ip # 0 /\ Stage(c) \notin {"user", "gone", "unlinkbad"}

(* ip->ref counts the pointers to the entry, "open files and current        *)
(* directories", and those of calls at work: no entry is recycled while in  *)
(* use, and none is lost.                                                   *)
InodeRefs ==
    \A s \in Slot :
        ic[s].ref = Cardinality({p \in Proc : cwd[p] = s})
                    + Cardinality({f \in File : file[f].ref > 0 /\ file[f].ip = s})
                    + Cardinality({p \in Proc : HasDp(k[p]) /\ k[p].dp = s})
                    + Cardinality({p \in Proc : HasIp(k[p]) /\ k[p].ip = s})
                    + Cardinality({x \in Proc \X (1..2) : x[2] \in DOMAIN k[x[1]].put
                                                          /\ k[x[1]].put[x[2]] = s})

(* The cache has one entry per inode, and it is write-through: a valid      *)
(* entry agrees with the disk.                                              *)
CacheCoherent ==
    /\ \A s, t \in Slot : ic[s].ref > 0 /\ ic[t].ref > 0 /\ ic[s].inum = ic[t].inum => s = t
    /\ \A s \in Slot : ic[s].valid => ic[s].di = dino[ic[s].inum]

(* The inode cache as a whole: iget(), iput() and iupdate() keep it in step *)
(* with the pointers into it and with the disk between any two steps.       *)
IcacheInv == TypeOK /\ InodeRefs /\ CacheCoherent

(* What can be reached from the root within n names. *)
reach[n \in 0..Cardinality(Inum)] ==
    IF n = 0 THEN {ROOTINO}
    ELSE (reach[n - 1] \cup {ents[x[1]][x[2]] : x \in reach[n - 1] \X Name}) \ {0}

Reachable == reach[Cardinality(Inum)]

(* Links counted for an entry that is not there yet or not there any more. *)
Pending(i) ==
    {p \in Proc : LET c == k[p]
                  IN  /\ HasIp(c) /\ ic[c.ip].inum = i
                      /\ \/ Stage(c) = "unlinked"
                         \/ c.call = "link" /\ ~(c.at = "found" /\ c.dp = 0)}

(* The tree below the root is sound: every name leads to an allocated       *)
(* inode, whose link count covers the names that lead to it, ".." included, *)
(* in the middle of calls too.  So nothing that can be named is freed.      *)
TreeSound ==
    \A i \in Reachable :
        /\ dino[i].type # "free"
        /\ dino[i].nlink >= Cardinality({x \in Entries(ents, i) : x[1] \in Reachable})
                            + Cardinality(Pending(i))

(* A block is marked in the bitmap exactly if one inode uses it, at one     *)
(* place, and every block below the size of a file is there.                *)
BlocksOwned ==
    /\ used = UNION {BlocksOf(dino[i]) : i \in Inum}
    /\ \A i, j \in Inum : i # j => BlocksOf(dino[i]) \cap BlocksOf(dino[j]) = {}
    /\ \A i \in Inum : LET di == dino[i]
                           b == di.addrs[NDIRECT]
                       IN  /\ Cardinality(BlocksOf(di)) = di.size + (IF b = 0 THEN 0 ELSE 1)
                           /\ \A bn \in 0..(di.size - 1) :
                                IF bn < NDIRECT THEN di.addrs[bn] # 0
                                                ELSE b # 0 /\ ind[b][bn - NDIRECT] # 0

(* The kernel panics when the disk has no inode or block left; when every   *)
(* entry of icache is held for another inode; and when the process that     *)
(* panics followed the ".." of a removed directory to an inode that was     *)
(* freed meanwhile.  It does not otherwise.                                 *)
NoPanic ==
    panicked.msg # "" =>
        \/ panicked.msg \in {"ialloc: no inodes", "balloc: out of blocks"}
        \/ panicked.msg = "iget: no inodes" /\ Cardinality({ic[s].inum : s \in {t \in Slot : ic[t].ref > 0}}) = Cardinality(Slot)
        \/ panicked.msg = "ilock: no type" /\ k[panicked.who].up

(* Inodes are locked parents first, and no lookup holds one while it waits  *)
(* for the next.  What is left is iput(), which takes the lock of its inode *)
(* whoever else is locked: all processes in calls wait for one another only *)
(* if one of them waits there with an inode locked, as create() does for    *)
(* the parent while an unlink() of the new name waits for the new inode.    *)
Needs(c) == CASE c.at = "put" -> Head(c.put)
              [] c.at \in {"exists", "unlinkip", "linkbad"} -> c.ip
              [] c.at = "walk" -> IF c.path = <<>> THEN 0 ELSE c.dp
              [] c.at = "found" -> IF c.dp # 0 THEN c.dp ELSE c.ip
              [] OTHER -> 0
Waits(p) == Needs(k[p]) # 0 /\ ~Free(Needs(k[p]))

Busy(p) == k[p].at \notin {"user", "gone"}

OnlyIputDeadlocks ==
    (\E p \in Proc : Busy(p)) /\ (\A p \in Proc : Busy(p) => Waits(p))
        => \E p \in Proc : k[p].at = "put" /\ \E s \in Slot : ic[s].lk = p

(* "If that was the last reference and the inode has no links to it, free   *)
(* the inode" (fs.c): an inode without links is somebody's.                 *)
RemovedFreed == \A i \in Inum : dino[i].type # "free" /\ dino[i].nlink = 0 => Hits(ic, i) # {}
=============================================================================
