----------------------------- MODULE TtyService -----------------------------
(* What a terminal promises: what is typed can be edited until a line, an   *)
(* end of file or a full buffer commits it; what is committed is delivered  *)
(* once, in order.                                                          *)
EXTENDS Integers, Sequences

CONSTANTS Size    \* characters it holds

VARIABLES lines,  \* committed, not yet delivered
          edit    \* not yet committed

Init == lines = <<>> /\ edit = <<>>

Type(c) == /\ c \notin {"nl", "eof"} /\ Len(lines) + Len(edit) + 1 < Size
           /\ edit' = Append(edit, c)
           /\ UNCHANGED lines

Commit(c) == /\ c \in {"nl", "eof"} \/ Len(lines) + Len(edit) + 1 = Size
             /\ Len(lines) + Len(edit) < Size
             /\ lines' = lines \o Append(edit, c)
             /\ edit' = <<>>

Erase == /\ \E n \in 0..(Len(edit) - 1) : edit' = SubSeq(edit, 1, n)
         /\ UNCHANGED lines

Deliver == /\ \E n \in 1..Len(lines) : lines' = SubSeq(lines, n + 1, Len(lines))
           /\ UNCHANGED edit

Next == (\E c \in {"x", "nl", "eof"} : Type(c) \/ Commit(c)) \/ Erase \/ Deliver

Spec == Init /\ [][Next]_<<lines, edit>>
=============================================================================
