------------------------------ MODULE SemTest ------------------------------
(* The test program sem_test.c on top of Semaphore: each child increments a *)
(* counter kept in a file, between sem_wait(SEM_ID, 1) and                  *)
(* sem_signal(SEM_ID, 1) on a semaphore initialised to 1.                   *)
EXTENDS Semaphore, FiniteSets

CONSTANT TargetCount     \* TARGET_COUNT_PER_CHILD

VARIABLES stage,         \* where each child is in its loop body
          left,          \* iterations each child has to do
          counter,       \* contents of the counter file
          val            \* each child's local copy

testVars == <<stage, left, counter, val>>

TestInit == /\ active = 1
            /\ value = 1
            /\ held = [p \in Proc |-> 0]
            /\ pc = [p \in Proc |-> "user"]
            /\ need = [p \in Proc |-> 0]
            /\ killed = [p \in Proc |-> FALSE]
            /\ orphan = [p \in Proc |-> FALSE]
            /\ stage = [p \in Proc |-> "P"]
            /\ left = [p \in Proc |-> TargetCount]
            /\ counter = 0
            /\ val = [p \in Proc |-> 0]

(* sem_wait(SEM_ID, 1): the child is at "read" when the call returns. *)
P(p) == /\ stage[p] = "P"
        /\ left[p] > 0
        /\ SemWait(p, 1)
        /\ stage' = [stage EXCEPT ![p] = "read"]
        /\ UNCHANGED <<left, counter, val>>

Resume(p) == SemWaitWoken(p) /\ UNCHANGED testVars

ReadCounter(p) == /\ stage[p] = "read"
                  /\ InUser(p)
                  /\ val' = [val EXCEPT ![p] = counter]
                  /\ stage' = [stage EXCEPT ![p] = "write"]
                  /\ UNCHANGED <<vars, left, counter>>

WriteCounter(p) == /\ stage[p] = "write"
                   /\ counter' = val[p] + 1
                   /\ stage' = [stage EXCEPT ![p] = "V"]
                   /\ UNCHANGED <<vars, left, val>>

V(p) == /\ stage[p] = "V"
        /\ SemSignal(p, 1)
        /\ stage' = [stage EXCEPT ![p] = "P"]
        /\ left' = [left EXCEPT ![p] = @ - 1]
        /\ UNCHANGED <<counter, val>>

Leave(p) == /\ stage[p] = "P"
            /\ left[p] = 0
            /\ Exit(p)
            /\ UNCHANGED testVars

TestNext == \E p \in Proc : \/ P(p) \/ Resume(p) \/ ReadCounter(p)
                            \/ WriteCounter(p) \/ V(p) \/ Leave(p)

TestSpec == TestInit /\ [][TestNext]_<<vars, testVars>>

(* The result the test expects when the parent has waited for all children. *)
FinalCount == (\A p \in Proc : pc[p] = "gone")
                => counter = Cardinality(Proc) * TargetCount
=============================================================================
