----------------------------- MODULE AtomicDisk -----------------------------
(* What the log promises to the file system calls: their writes reach the   *)
(* disk in whole transactions.  A crash brings back the last committed      *)
(* state, commits happen only when no call is under way, and a new          *)
(* transaction never starts on top of one that is not yet on disk.          *)
CONSTANTS Block, Val, Op

VARIABLES current,   \* block contents as the running kernel sees them
          durable,   \* block contents a reboot would bring back
          active     \* calls between begin_op() and end_op()

Init == /\ current \in [Block -> Val]
        /\ durable = current
        /\ active = {}

Begin(o) == /\ o \notin active
            /\ active # {} \/ current = durable
            /\ active' = active \cup {o}
            /\ UNCHANGED <<current, durable>>

Write(o, b, v) == /\ o \in active
                  /\ current' = [current EXCEPT ![b] = v]
                  /\ UNCHANGED <<durable, active>>

End(o) == /\ o \in active
          /\ active' = active \ {o}
          /\ UNCHANGED <<current, durable>>

Commit == /\ active = {}
          /\ durable' = current
          /\ UNCHANGED <<current, active>>

Crash == /\ current' = durable
         /\ active' = {}
         /\ UNCHANGED durable

Next == \/ \E o \in Op : \/ Begin(o)
                         \/ End(o)
                         \/ \E b \in Block, v \in Val : Write(o, b, v)
        \/ Commit
        \/ Crash

Spec == Init /\ [][Next]_<<current, durable, active>>
=============================================================================
