-------------------------------- MODULE Pipe --------------------------------
(* pipe.c: the ring buffer of a pipe, its two open flags and the processes  *)
(* that sleep in piperead() and pipewrite().  What happens between          *)
(* acquiring and releasing p->lock, or sleeping, is one action.  A pipe is  *)
(* named by its page, which kalloc() may hand out again after kfree().      *)
EXTENDS Integers, Sequences, FiniteSets

CONSTANTS Proc,      \* slots for processes
          Page,      \* pages kalloc() has for pipes
          PIPESIZE,  \* PIPESIZE
          UINT,      \* nread and nwrite count modulo UINT (2^32 in the kernel)
          Byte       \* contents of a byte

(* PIPESIZE divides 2^32: the slot of a byte does not jump on overflow. *)
ASSUME RingAssumption == /\ PIPESIZE \in Nat \ {0} /\ UINT \in Nat
                         /\ UINT > PIPESIZE /\ UINT % PIPESIZE = 0

VARIABLES live,       \* pages that hold a pipe
          nread, nwrite, data, readopen, writeopen,   \* struct pipe, by page
          pc,         \* what each process is doing
          arg,        \* the pipe, byte count and byte of its read() or write()
          chan,       \* p->chan
          killed,     \* p->killed
          cut         \* history: a killed writer left without waking readers

ring == <<live, nread, nwrite, data, readopen, writeopen, cut>>

NoArg == [pipe |-> 0, n |-> 0, byte |-> 0]
Awake == <<>>

(* kfree() fills the page with junk. *)
Junk == [i \in 0..(PIPESIZE - 1) |-> 0]

PipeInit == /\ live = {}
            /\ nread = [g \in Page |-> 0]
            /\ nwrite = [g \in Page |-> 0]
            /\ data = [g \in Page |-> Junk]
            /\ readopen = [g \in Page |-> FALSE]
            /\ writeopen = [g \in Page |-> FALSE]
            /\ arg = [p \in Proc |-> NoArg]
            /\ chan = [p \in Proc |-> Awake]
            /\ killed = [p \in Proc |-> FALSE]
            /\ cut = [g \in Page |-> FALSE]

(* wakeup() on a channel, applied to a table of channels. *)
Wakeup(c, f) == [p \in Proc |-> IF f[p] = c THEN Awake ELSE f[p]]

-----------------------------------------------------------------------------
(* The part of pipealloc() that sets up the page. *)
PipeSetup(g) == /\ live' = live \cup {g}
                /\ nread' = [nread EXCEPT ![g] = 0]
                /\ nwrite' = [nwrite EXCEPT ![g] = 0]
                /\ readopen' = [readopen EXCEPT ![g] = TRUE]
                /\ writeopen' = [writeopen EXCEPT ![g] = TRUE]
                /\ cut' = [cut EXCEPT ![g] = FALSE]
                /\ UNCHANGED data

Kfree(g, last) == IF last THEN /\ live' = live \ {g}
                               /\ nread' = [nread EXCEPT ![g] = 0]
                               /\ nwrite' = [nwrite EXCEPT ![g] = 0]
                               /\ data' = [data EXCEPT ![g] = Junk]
                               /\ cut' = [cut EXCEPT ![g] = FALSE]
                          ELSE UNCHANGED <<live, nread, nwrite, data, cut>>

(* Variant with a bug: the other side is not told. *)
PipeCloseSilently(g, writable) ==
    /\ IF writable THEN writeopen' = [writeopen EXCEPT ![g] = FALSE] /\ UNCHANGED readopen
                   ELSE readopen' = [readopen EXCEPT ![g] = FALSE] /\ UNCHANGED writeopen
    /\ Kfree(g, ~readopen'[g] /\ ~writeopen'[g])
    /\ UNCHANGED chan

(* pipeclose(): the other side is woken, and the page freed with its last   *)
(* end.                                                                     *)
PipeClose(g, writable) ==
    /\ IF writable THEN writeopen' = [writeopen EXCEPT ![g] = FALSE] /\ UNCHANGED readopen
                   ELSE readopen' = [readopen EXCEPT ![g] = FALSE] /\ UNCHANGED writeopen
    /\ chan' = Wakeup(<<IF writable THEN "nread" ELSE "nwrite", g>>, chan)
    /\ Kfree(g, ~readopen'[g] /\ ~writeopen'[g])

-----------------------------------------------------------------------------
Return(p) == /\ pc' = [pc EXCEPT ![p] = "user"]
             /\ arg' = [arg EXCEPT ![p] = NoArg]

(* Variant with a bug: off by one. *)
RoomBeyond(g) == (nread[g] + PIPESIZE + 1 - nwrite[g]) % UINT

(* Bytes until nwrite reaches nread + PIPESIZE, and bytes to read. *)
Room(g) == (nread[g] + PIPESIZE - nwrite[g]) % UINT
Unread(g) == (nwrite[g] - nread[g]) % UINT

Least(m, n) == IF m <= n THEN m ELSE n

(* k bytes b go to the ring. *)
Put(g, k, b) ==
    /\ nwrite' = [nwrite EXCEPT ![g] = (@ + k) % UINT]
    /\ data' = [data EXCEPT ![g] =
                  [i \in DOMAIN @ |->
                     IF \E j \in 0..(k - 1) : ((nwrite[g] + j) % UINT) % PIPESIZE = i
                     THEN b ELSE @[i]]]

(* No room for the rest: give up without a reader or when killed, else wake *)
(* the readers and sleep.                                                   *)
WriteFull(p, g) ==
    IF ~readopen[g] \/ killed[p]
    THEN /\ Return(p)
         /\ cut' = [cut EXCEPT ![g] = TRUE]
         /\ UNCHANGED chan
    ELSE /\ chan' = [Wakeup(<<"nread", g>>, chan) EXCEPT ![p] = <<"nwrite", g>>]
         /\ arg' = [arg EXCEPT ![p].n = @ - Room(g)]
         /\ cut' = [cut EXCEPT ![g] = FALSE]
         /\ UNCHANGED pc

(* pipewrite(), from its start or a wake-up to its return or next sleep. *)
PipeWrite(p) ==
    LET g == arg[p].pipe
    IN  /\ pc[p] = "write" /\ chan[p] = Awake
        /\ Put(g, Least(arg[p].n, Room(g)), arg[p].byte)
        /\ IF arg[p].n <= Room(g)
           THEN /\ Return(p)
                /\ chan' = Wakeup(<<"nread", g>>, chan)
                /\ cut' = [cut EXCEPT ![g] = FALSE]
           ELSE WriteFull(p, g)
        /\ UNCHANGED <<live, nread, readopen, writeopen, killed>>

(* The k oldest bytes leave the ring.  The code leaves them in place, where *)
(* nobody looks at them again.                                              *)
Drop(g, k) ==
    /\ nread' = [nread EXCEPT ![g] = (@ + k) % UINT]
    /\ data' = [data EXCEPT ![g] =
                  [i \in DOMAIN @ |->
                     IF \E j \in 0..(k - 1) : ((nread[g] + j) % UINT) % PIPESIZE = i
                     THEN 0 ELSE @[i]]]

(* Variant with a bug: the writers are not woken. *)
TakeSilently(p, g) == Drop(g, Least(arg[p].n, Unread(g))) /\ UNCHANGED chan

(* The copy loop of piperead() and its wakeup(). *)
Take(p, g) == Drop(g, Least(arg[p].n, Unread(g))) /\ chan' = Wakeup(<<"nwrite", g>>, chan)

(* Variant with a bug: an empty pipe is taken for the end of the file. *)
PipeReadImpatient(p) ==
    LET g == arg[p].pipe
    IN  /\ pc[p] = "read" /\ chan[p] = Awake
        /\ Take(p, g)
        /\ Return(p)
        /\ UNCHANGED <<live, nwrite, readopen, writeopen, cut, killed>>

(* piperead(), likewise. *)
PipeRead(p) ==
    LET g == arg[p].pipe
    IN  /\ pc[p] = "read" /\ chan[p] = Awake
        /\ \/ /\ nread[g] = nwrite[g] /\ writeopen[g]
              /\ IF killed[p] THEN Return(p) /\ UNCHANGED chan
                              ELSE /\ chan' = [chan EXCEPT ![p] = <<"nread", g>>]
                                   /\ UNCHANGED <<pc, arg>>
              /\ UNCHANGED <<nread, data>>
           \/ /\ nread[g] # nwrite[g] \/ ~writeopen[g]
              /\ Take(p, g)
              /\ Return(p)
        /\ UNCHANGED <<live, nwrite, readopen, writeopen, cut, killed>>

-----------------------------------------------------------------------------
(* Properties *)

(* The bytes in the ring, oldest first. *)
Contents(g) == IF g \in live
               THEN [j \in 1..Unread(g) |-> data[g][((nread[g] + j - 1) % UINT) % PIPESIZE]]
               ELSE <<>>

Fifo == INSTANCE PipeService WITH Pipe <- Page, Capacity <- PIPESIZE,
                                  queue <- [g \in Page |-> Contents(g)], exists <- live

(* The ring, its wrapping counters and the reuse of pages implement bounded *)
(* byte queues: no byte is lost, overwritten, repeated or reordered.        *)
ImplementsFifo == Fifo!Spec

(* No reader sleeps beside bytes it could read or after the last writer     *)
(* left.  The exception is in the code: a killed writer that filled the     *)
(* pipe returns without waking the readers.                                 *)
NoStuckReader ==
    \A p \in Proc, g \in Page : chan[p] = <<"nread", g>> =>
        writeopen[g] /\ (nread[g] = nwrite[g] \/ cut[g])

(* No writer sleeps while there is room or after the last reader left. *)
NoStuckWriter ==
    \A p \in Proc, g \in Page : chan[p] = <<"nwrite", g>> =>
        readopen[g] /\ Room(g) = 0

(* Nobody sleeps in piperead() or pipewrite() beside work: each wakeup() of *)
(* pipe.c comes whenever the condition it announces may have become true.   *)
NoStuckEnd == NoStuckReader /\ NoStuckWriter

(* Nobody works on a pipe whose page was freed, or through an end that was  *)
(* closed under it.                                                         *)
NoUseAfterFree ==
    \A p \in Proc :
        /\ pc[p] = "read" => arg[p].pipe \in live /\ readopen[arg[p].pipe]
        /\ pc[p] = "write" => arg[p].pipe \in live /\ writeopen[arg[p].pipe]
=============================================================================
