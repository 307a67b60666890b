---------------------------- MODULE PipeService ----------------------------
(* What pipe() promises: each pipe is a bounded queue of bytes that starts  *)
(* empty, is written at one end and read at the other, in order, and is     *)
(* gone when both ends are closed.                                          *)
EXTENDS Integers, Sequences

CONSTANTS Pipe, Byte, Capacity

VARIABLES queue,     \* the bytes written and not yet read
          exists     \* the pipes with an open end

Init == /\ queue = [g \in Pipe |-> <<>>]
        /\ exists = {}

Create(g) == /\ g \notin exists
             /\ exists' = exists \cup {g}
             /\ UNCHANGED queue

Write(g, n, b) == /\ g \in exists
                  /\ Len(queue[g]) + n <= Capacity
                  /\ queue' = [queue EXCEPT ![g] = @ \o [i \in 1..n |-> b]]
                  /\ UNCHANGED exists

Read(g, n) == /\ g \in exists
              /\ n <= Len(queue[g])
              /\ queue' = [queue EXCEPT ![g] = SubSeq(@, n + 1, Len(@))]
              /\ UNCHANGED exists

Destroy(g) == /\ g \in exists
              /\ exists' = exists \ {g}
              /\ queue' = [queue EXCEPT ![g] = <<>>]

Next == \E g \in Pipe :
          \/ Create(g)
          \/ Destroy(g)
          \/ \E n \in 1..Capacity : Read(g, n) \/ \E b \in Byte : Write(g, n, b)

Spec == Init /\ [][Next]_<<queue, exists>>
=============================================================================
