---------------------------- MODULE LockService ----------------------------
(* What acquiresleep() and releasesleep() promise to the rest of the        *)
(* kernel: a lock with at most one owner, granted only to a process that    *)
(* asked for it and given up only by its owner.  SleepLock implements it.   *)
CONSTANTS Proc, NoProc

VARIABLES owner,    \* the process between acquiresleep() and releasesleep()
          waiting   \* the processes inside acquiresleep()

Init == owner = NoProc /\ waiting = {}

Request(p) == /\ p # owner
              /\ p \notin waiting
              /\ waiting' = waiting \cup {p}
              /\ UNCHANGED owner

Grant(p) == /\ owner = NoProc
            /\ p \in waiting
            /\ owner' = p
            /\ waiting' = waiting \ {p}

Release(p) == /\ owner = p
              /\ owner' = NoProc
              /\ UNCHANGED waiting

Next == \E p \in Proc : Request(p) \/ Grant(p) \/ Release(p)

Spec == Init /\ [][Next]_<<owner, waiting>>
=============================================================================
