----------------------------- MODULE FileTable -----------------------------
(* file.c and the descriptor calls of sysfile.c over the pipes of Pipe:     *)
(* ftable.file[] with its reference counts, the descriptors of each         *)
(* process, and what fork() and exit() do with them.  fileclose() drops     *)
(* ftable.lock before it closes the object, so that is a step of its own.   *)
(* Files that are inodes are in Fs.                                         *)
EXTENDS Pipe

CONSTANTS NFILE,     \* entries of ftable.file[]
          NOFILE,    \* descriptors of a process
          ReadSizes, \* byte counts passed to read()
          WriteSizes \* byte counts passed to write()

ASSUME TableAssumption == /\ NFILE \in Nat \ {0} /\ NOFILE \in Nat \ {0}
                          /\ ReadSizes \cup WriteSizes \subseteq Nat \ {0}
                          /\ Proc \subseteq Nat /\ IsFiniteSet(Proc)

VARIABLES ref,       \* f->ref
          obj,       \* f->type with f->pipe and f->writable
          ofile,     \* p->ofile, 0 for a free descriptor
          held,      \* rf and wf of pipe(), or the file close() closes; 0: none
          ff         \* the object fileclose() is closing

vars == <<ring, pc, arg, chan, killed, ref, obj, ofile, held, ff>>
files == <<ref, obj, ofile, held, ff>>

File == 1..NFILE
Fd == 0..(NOFILE - 1)
Local == {1, 2}

None == <<>>                               \* FD_NONE
PipeEnd(g, writable) == <<"pipe", g, writable>>
Ends == {"pipe"} \X Page \X BOOLEAN

Init == /\ PipeInit
        /\ pc = [p \in Proc |-> IF \A q \in Proc : p <= q THEN "user" ELSE "none"]
        /\ ref = [f \in File |-> 0]
        /\ obj = [f \in File |-> None]
        /\ ofile = [p \in Proc |-> [d \in Fd |-> 0]]
        /\ held = [p \in Proc |-> [i \in Local |-> 0]]
        /\ ff = [p \in Proc |-> None]

(* A killed process makes no more calls. *)
Calls(p) == pc[p] = "user" /\ ~killed[p]

(* A call with the descriptor d, which must be open. *)
Argfd(p, d) == Calls(p) /\ ofile[p][d] # 0

Goto(p, where) == pc' = [pc EXCEPT ![p] = where]

(* filealloc(): the first entry without references.  filedup(): one         *)
(* reference more.  fdalloc(): the first free descriptor.                   *)
FileFree(f) == ref[f] = 0 /\ \A e \in 1..(f - 1) : ref[e] # 0
Filedup(f) == [ref EXCEPT ![f] = @ + 1]
FreeFds(p) == {d \in Fd : ofile[p][d] = 0}

-----------------------------------------------------------------------------
(* sys_pipe() *)

PipeFirst(p, f) == /\ Calls(p)
                   /\ FileFree(f)
                   /\ ref' = [ref EXCEPT ![f] = 1]
                   /\ held' = [held EXCEPT ![p][1] = f]
                   /\ Goto(p, "pipe")
                   /\ UNCHANGED <<ring, arg, chan, killed, obj, ofile, ff>>

PipeSecond(p) ==
    /\ pc[p] = "pipe" /\ held[p][2] = 0
    /\ \/ \E f \in File : /\ FileFree(f)
                          /\ ref' = [ref EXCEPT ![f] = 1]
                          /\ held' = [held EXCEPT ![p][2] = f]
                          /\ UNCHANGED pc
       \/ /\ \A f \in File : ref[f] # 0
          /\ Goto(p, "close")
          /\ UNCHANGED <<ref, held>>
    /\ UNCHANGED <<ring, arg, chan, killed, obj, ofile, ff>>

(* kalloc() fails: the two files are closed again. *)
PipeNoMemory(p) == /\ pc[p] = "pipe" /\ held[p][2] # 0
                   /\ Goto(p, "close")
                   /\ UNCHANGED <<ring, arg, chan, killed, files>>

(* The pipe is set up.  With fewer than two free descriptors both files are *)
(* closed again.                                                            *)
PipeCreate(p, g) ==
    LET rf == held[p][1]
        wf == held[p][2]
    IN  /\ pc[p] = "pipe" /\ held[p][2] # 0
        /\ g \notin live
        /\ PipeSetup(g)
        /\ obj' = [obj EXCEPT ![rf] = PipeEnd(g, FALSE), ![wf] = PipeEnd(g, TRUE)]
        /\ \/ \E d, e \in FreeFds(p) :
                /\ d < e /\ \A c \in FreeFds(p) : c < e => c = d
                /\ ofile' = [ofile EXCEPT ![p][d] = rf, ![p][e] = wf]
                /\ held' = [held EXCEPT ![p][1] = 0, ![p][2] = 0]
                /\ Goto(p, "user")
           \/ /\ Cardinality(FreeFds(p)) < 2
              /\ Goto(p, "close")
              /\ UNCHANGED <<ofile, held>>
        /\ UNCHANGED <<arg, chan, killed, ref, ff>>

-----------------------------------------------------------------------------
(* sys_dup(), sys_close(), fork(), exit() *)

(* Variant with a bug: the reference is not counted. *)
DupUncounted(p, d) ==
    /\ Argfd(p, d)
    /\ \E e \in FreeFds(p) : /\ \A c \in FreeFds(p) : e <= c
                             /\ ofile' = [ofile EXCEPT ![p][e] = ofile[p][d]]
    /\ UNCHANGED <<ring, pc, arg, chan, killed, ref, obj, held, ff>>

Dup(p, d) ==
    /\ Argfd(p, d)
    /\ \E e \in FreeFds(p) : /\ \A c \in FreeFds(p) : e <= c
                             /\ ofile' = [ofile EXCEPT ![p][e] = ofile[p][d]]
    /\ ref' = Filedup(ofile[p][d])
    /\ UNCHANGED <<ring, pc, arg, chan, killed, obj, held, ff>>

Close(p, d) == /\ Argfd(p, d)
               /\ ofile' = [ofile EXCEPT ![p][d] = 0]
               /\ held' = [held EXCEPT ![p][1] = ofile[p][d]]
               /\ Goto(p, "close")
               /\ UNCHANGED <<ring, arg, chan, killed, ref, obj, ff>>

(* fork() and clone() give the child every open file. *)
Fork(p, q) ==
    /\ Calls(p)
    /\ pc[q] = "none"
    /\ ofile' = [ofile EXCEPT ![q] = ofile[p]]
    /\ ref' = [f \in File |-> ref[f] + Cardinality({d \in Fd : ofile[p][d] = f})]
    /\ Goto(q, "user")
    /\ UNCHANGED <<ring, arg, chan, killed, obj, held, ff>>

(* exit(), up to the part of ProcTable: it closes every open descriptor. *)
Exit(p) == LET open == \E d \in Fd : ofile[p][d] # 0
           IN  /\ pc[p] = "user"
               /\ Goto(p, IF open THEN "exit" ELSE "none")
               /\ killed' = [killed EXCEPT ![p] = @ /\ open]
               /\ UNCHANGED <<ring, arg, chan, files>>

(* Where a process goes after it has closed a file. *)
Closed(p) ==
    LET more == \/ ff'[p] # None
                \/ \E i \in Local : held'[p][i] # 0
                \/ pc[p] = "exit" /\ \E d \in Fd : ofile'[p][d] # 0
    IN  /\ Goto(p, IF more THEN pc[p] ELSE IF pc[p] = "exit" THEN "none" ELSE "user")
        /\ killed' = [killed EXCEPT ![p] = @ /\ (more \/ pc[p] # "exit")]

(* fileclose() under ftable.lock: the last reference frees the entry after  *)
(* its contents were copied to ff.                                          *)
FileUnref(p, f) ==
    LET last == ref[f] = 1
    IN  /\ ref' = [ref EXCEPT ![f] = @ - 1]
        /\ ff' = [ff EXCEPT ![p] = IF last THEN obj[f] ELSE None]
        /\ obj' = [obj EXCEPT ![f] = IF last THEN None ELSE @]

FileClose(p) ==
    /\ ff[p] = None
    /\ \/ /\ pc[p] = "close"
          /\ \E i \in Local : /\ held[p][i] # 0 /\ \A j \in Local : j < i => held[p][j] = 0
                              /\ FileUnref(p, held[p][i])
                              /\ held' = [held EXCEPT ![p][i] = 0]
          /\ UNCHANGED ofile
       \/ /\ pc[p] = "exit"
          /\ \E d \in Fd : /\ ofile[p][d] # 0 /\ \A e \in Fd : e < d => ofile[p][e] = 0
                           /\ FileUnref(p, ofile[p][d])
                           /\ ofile' = [ofile EXCEPT ![p][d] = 0]
          /\ UNCHANGED held
    /\ Closed(p)
    /\ UNCHANGED <<ring, arg, chan>>

(* The rest of fileclose(), without the lock. *)
CloseObject(p) ==
    /\ ff[p] # None
    /\ PipeClose(ff[p][2], ff[p][3])
    /\ ff' = [ff EXCEPT ![p] = None]
    /\ UNCHANGED <<arg, ref, obj, ofile, held>>
    /\ Closed(p)

-----------------------------------------------------------------------------
(* sys_read() and sys_write() on a pipe.  The other end's flag is refused   *)
(* by fileread() and filewrite().                                           *)
Enter(p, d, writable, call, n, b) ==
    /\ Argfd(p, d)
    /\ \E g \in Page : /\ obj[ofile[p][d]] = PipeEnd(g, writable)
                       /\ arg' = [arg EXCEPT ![p] = [pipe |-> g, n |-> n, byte |-> b]]
    /\ Goto(p, call)
    /\ UNCHANGED <<ring, chan, killed, files>>

Read(p) == \/ \E d \in Fd, n \in ReadSizes : Enter(p, d, FALSE, "read", n, 0)
           \/ PipeRead(p) /\ UNCHANGED files

Write(p) == \/ \E d \in Fd, n \in WriteSizes, b \in Byte : Enter(p, d, TRUE, "write", n, b)
            \/ PipeWrite(p) /\ UNCHANGED files

(* kill(p), called by a process that runs. *)
Kill(p) == /\ pc[p] # "none" /\ ~killed[p]
           /\ \E q \in Proc : Calls(q)
           /\ killed' = [killed EXCEPT ![p] = TRUE]
           /\ chan' = [chan EXCEPT ![p] = Awake]
           /\ UNCHANGED <<ring, pc, arg, files>>

-----------------------------------------------------------------------------
SysPipe(p) == \/ \E f \in File : PipeFirst(p, f)
              \/ PipeSecond(p)
              \/ PipeNoMemory(p)
              \/ \E g \in Page : PipeCreate(p, g)

Next == \E p \in Proc :
          \/ SysPipe(p)
          \/ \E d \in Fd : Close(p, d) \/ Dup(p, d)
          \/ \E q \in Proc : Fork(p, q)
          \/ Exit(p)
          \/ FileClose(p)
          \/ CloseObject(p)
          \/ Read(p)
          \/ Write(p)
          \/ Kill(p)

Spec == Init /\ [][Next]_vars

(* A read() or write() goes on while it is not asleep. *)
Fairness == \A p \in Proc : WF_vars((PipeRead(p) \/ PipeWrite(p)) /\ UNCHANGED files)

FairSpec == Spec /\ Fairness

-----------------------------------------------------------------------------
(* Properties *)

TypeOK ==
    /\ live \subseteq Page /\ cut \in [Page -> BOOLEAN]
    /\ nread \in [Page -> 0..(UINT - 1)] /\ nwrite \in [Page -> 0..(UINT - 1)]
    /\ readopen \in [Page -> BOOLEAN] /\ writeopen \in [Page -> BOOLEAN]
    /\ pc \in [Proc -> {"none", "user", "pipe", "close", "exit", "read", "write"}]
    /\ arg \in [Proc -> [pipe : Page \cup {0}, n : Nat, byte : Byte \cup {0}]]
    /\ chan \in [Proc -> {Awake} \cup ({"nread", "nwrite"} \X Page)]
    /\ killed \in [Proc -> BOOLEAN]
    /\ ref \in [File -> Nat]
    /\ obj \in [File -> {None} \cup Ends]
    /\ ff \in [Proc -> {None} \cup Ends]
    /\ ofile \in [Proc -> [Fd -> File \cup {0}]]
    /\ held \in [Proc -> [Local -> File \cup {0}]]

(* How often f is in a table of processes. *)
Count(t, S, f) == Cardinality({x \in Proc \X S : t[x[1]][x[2]] = f})

(* Every reference to a file is counted: one for each descriptor and for    *)
(* each file a call has allocated or is still to close.  So filedup() and   *)
(* fileclose() never panic and no entry of ftable leaks.                    *)
FileRefs == \A f \in File : ref[f] = Count(ofile, Fd, f) + Count(held, Local, f)

(* Which files a process has in hand where, and that those of an unfinished *)
(* pipe() are its own; a file without references is empty.                  *)
InHand ==
    /\ \A p \in Proc :
         /\ pc[p] \notin {"pipe", "close"} => \A i \in Local : held[p][i] = 0
         /\ pc[p] \notin {"close", "exit"} => ff[p] = None
         /\ pc[p] = "none" => \A d \in Fd : ofile[p][d] = 0
         /\ pc[p] = "pipe" => /\ held[p][1] # 0 /\ held[p][1] # held[p][2]
                              /\ \A i \in Local : held[p][i] # 0 => ref[held[p][i]] = 1 /\ obj[held[p][i]] = None
    /\ \A f \in File : ref[f] = 0 => obj[f] = None

(* What an end of a pipe is referred to by. *)
Refers(o) == {f \in File : ref[f] > 0 /\ obj[f] = o}
Closing(o) == {p \in Proc : ff[p] = o}

(* A pipe's page is allocated exactly as long as one of its ends is open,   *)
(* and an end is open exactly as long as one file refers to it or a         *)
(* process is closing it: no page is leaked, freed twice or freed early,    *)
(* although entries and pages are reused at once.                           *)
PipeLives ==
    \A g \in Page :
        /\ g \in live <=> readopen[g] \/ writeopen[g]
        /\ \A w \in BOOLEAN :
             Cardinality(Refers(PipeEnd(g, w))) + Cardinality(Closing(PipeEnd(g, w)))
                 = IF (IF w THEN writeopen[g] ELSE readopen[g]) THEN 1 ELSE 0

(* A process that reads or writes a pipe has a descriptor for that end; it  *)
(* sleeps only there.                                                       *)
InUse ==
    \A p \in Proc :
        /\ pc[p] \in {"read", "write"} =>
             /\ arg[p].n > 0
             /\ \E d \in Fd : ofile[p][d] # 0 /\ obj[ofile[p][d]] = PipeEnd(arg[p].pipe, pc[p] = "write")
        /\ \A g \in Page : /\ chan[p] = <<"nread", g>> => pc[p] = "read" /\ arg[p].pipe = g
                           /\ chan[p] = <<"nwrite", g>> => pc[p] = "write" /\ arg[p].pipe = g

(* The file table as a whole: filealloc(), filedup(), fileclose() and a     *)
(* failing pipe() keep every count right, so that no process is in          *)
(* piperead() or pipewrite() of a page that was freed.                      *)
FilesInv == TypeOK /\ FileRefs /\ InHand /\ PipeLives /\ InUse /\ NoUseAfterFree

(* A read() that is not killed returns without a byte only when the pipe is *)
(* empty and no process has a descriptor left to write to it.               *)
EofMeansNoWriter ==
    [][\A p \in Proc :
         pc[p] = "read" /\ pc'[p] = "user" /\ nread' = nread /\ ~killed[p]
           => /\ Contents(arg[p].pipe) = <<>>
              /\ \A q \in Proc, d \in Fd :
                   ofile[q][d] # 0 => obj[ofile[q][d]] # PipeEnd(arg[p].pipe, TRUE)]_vars

(* A process in read() or write() whose other side is gone, or that was     *)
(* killed, leaves the call.                                                 *)
Doomed(p) == \/ pc[p] = "read" /\ (killed[p] \/ ~writeopen[arg[p].pipe])
             \/ pc[p] = "write" /\ (killed[p] \/ ~readopen[arg[p].pipe])

HangupNoticed == \A p \in Proc : Doomed(p) ~> pc[p] \notin {"read", "write"}
=============================================================================
