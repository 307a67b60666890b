----------------------------- MODULE BlockStore -----------------------------
(* What the buffer cache and the disk driver promise together (the comments *)
(* at the top of bio.c): a block is in the hands of one process at a time,  *)
(* and it keeps what its last owner stored until somebody else owns it.  A  *)
(* disk that fails to deliver a block may put anything in its place, until  *)
(* the block is read again.                                                 *)
EXTENDS Naturals

CONSTANTS Proc, Block, Val, NoProc

VARIABLES content,   \* what a block holds, wherever that is kept
          owner,     \* who has it
          bad        \* blocks whose last read failed

Acquire(p, n) == /\ owner[n] = NoProc
                 /\ owner' = [owner EXCEPT ![n] = p]
                 /\ UNCHANGED <<content, bad>>

Store(p, n, v) == /\ owner[n] = p
                  /\ content' = [content EXCEPT ![n] = v]
                  /\ UNCHANGED <<owner, bad>>

Release(p, n) == /\ owner[n] = p
                 /\ owner' = [owner EXCEPT ![n] = NoProc]
                 /\ UNCHANGED <<content, bad>>

Fault(n, v) == /\ n \notin bad /\ bad' = bad \cup {n}
               /\ content' = [content EXCEPT ![n] = v]
               /\ UNCHANGED owner

Reread(n, v) == /\ n \in bad /\ bad' = bad \ {n}
                /\ content' = [content EXCEPT ![n] = v]
                /\ UNCHANGED owner

Init == content \in [Block -> Val] /\ owner = [n \in Block |-> NoProc] /\ bad = {}

Next == \E n \in Block : \/ \E p \in Proc : Acquire(p, n) \/ Release(p, n)
                         \/ \E p \in Proc, v \in Val : Store(p, n, v)
                         \/ \E v \in Val : Fault(n, v) \/ Reread(n, v)

Spec == Init /\ [][Next]_<<content, owner, bad>>
=============================================================================
