----------------------------- MODULE LogProofs -----------------------------
(* The log: the gate that begin_op() and end_op() keep, the reservation and *)
(* the journal, and the atomicity of transactions across crashes, whatever  *)
(* the calls write.                                                         *)
EXTENDS Log, FiniteSetTheorems, FunctionTheorems, SequenceTheorems, TLAPS

-----------------------------------------------------------------------------
(* The gate. *)

GateTypes == /\ outstanding \in Nat /\ committing \in {0, 1} /\ pc \in [Op -> Label]
             /\ buf \in [Op -> Block \cup {None}]
             /\ lh \in Seq(Block \cup {None}) /\ dhead \in Seq(Block \cup {None})

Gate == GateTypes /\ CommitExcludesOps /\ OneAtWork /\ NoMissedLogSpace

LEMMA OpSubset ==
    ASSUME NEW S \in SUBSET Op
    PROVE  IsFiniteSet(S) /\ Cardinality(S) \in Nat
BY NoneAssumption, FS_Subset, FS_CardinalityType

(* log.outstanding after a call has come or gone. *)
LEMMA ActiveSame ==
    ASSUME Gate, UNCHANGED outstanding, \A o \in Op : pc'[o] \in InOp <=> pc[o] \in InOp
    PROVE  outstanding' = Cardinality(Active')
<1>1. Active' = Active BY DEF Active
<1> QED BY <1>1 DEF Gate, CommitExcludesOps, Active

LEMMA ActiveMore ==
    ASSUME Gate, NEW p \in Op, pc[p] \notin InOp, pc'[p] \in InOp, outstanding' = outstanding + 1,
           \A o \in Op \ {p} : pc'[o] \in InOp <=> pc[o] \in InOp
    PROVE  outstanding' = Cardinality(Active')
<1>1. Active' = Active \cup {p} /\ p \notin Active BY DEF Active
<1>2. IsFiniteSet(Active) BY OpSubset DEF Active
<1>3. outstanding = Cardinality(Active) BY DEF Gate, CommitExcludesOps, Active
<1> QED BY <1>1, <1>2, <1>3, FS_AddElement

LEMMA ActiveLess ==
    ASSUME Gate, NEW p \in Op, pc[p] \in InOp, pc'[p] \notin InOp, outstanding' = outstanding - 1,
           \A o \in Op \ {p} : pc'[o] \in InOp <=> pc[o] \in InOp
    PROVE  outstanding' = Cardinality(Active')
<1>1. Active' = Active \ {p} /\ p \in Active BY DEF Active
<1>2. IsFiniteSet(Active) BY OpSubset DEF Active
<1>3. outstanding = Cardinality(Active) BY DEF Gate, CommitExcludesOps, Active
<1> QED BY <1>1, <1>2, <1>3, FS_RemoveElement

(* While a call is at work nothing is committed or recovered. *)
LEMMA CallAtWork ==
    ASSUME Gate, NEW p \in Op, pc[p] \in InOp
    PROVE  outstanding > 0 /\ committing = 0 /\ phase = "run"
<1>1. IsFiniteSet(Active) /\ Active # {} /\ Cardinality(Active) \in Nat
  BY OpSubset DEF Active
<1>2. outstanding = Cardinality(Active) BY DEF Gate, CommitExcludesOps, Active
<1>3. outstanding > 0 BY <1>1, <1>2, FS_EmptySet
<1>4. committing = 0 BY <1>3 DEF Gate, GateTypes, CommitExcludesOps
<1>5. pc[p] # "idle" BY DEF InOp
<1> QED BY <1>3, <1>4, <1>5 DEF Gate, OneAtWork, Recovering

LEMMA InitGate == Init => Gate
<1> SUFFICES ASSUME Init PROVE Gate
  OBVIOUS
<1>1. GateTypes
  BY DEF Init, GateTypes, Label
<1>2. {o \in Op : pc[o] \in InOp} = {}
  BY DEF Init, InOp
<1>3. CommitExcludesOps
  BY <1>2, FS_EmptySet DEF Init, CommitExcludesOps
<1> QED BY <1>1, <1>3 DEF Init, Gate, OneAtWork, NoMissedLogSpace

LEMMA BeginKillGate ==
    ASSUME Gate, NEW p \in Op, BeginOp(p) \/ Kill(p)
    PROVE  Gate'
<1>1. UNCHANGED <<lh, dhead, committing, phase, buf>>
  BY DEF BeginOp, Kill, diskVars, logVars
<1>2. CASE Kill(p) \/ (BeginOp(p) /\ MustWait)
  <2>1. /\ pc[p] \in {"idle", "begin", "asleep"} /\ outstanding' = outstanding
        /\ \/ pc' = [pc EXCEPT ![p] = "begin"]
           \/ MustWait /\ pc' = [pc EXCEPT ![p] = "asleep"]
        /\ ~Recovering
    <3>1. CASE Kill(p)
      BY <3>1 DEF Kill, Goto, logVars, Gate, OneAtWork
    <3>2. CASE BeginOp(p) /\ MustWait
      BY <3>2 DEF BeginOp, Booted, Recovering
    <3> QED BY <1>2, <3>1, <3>2
  <2>2. GateTypes'
    BY <1>1, <2>1 DEF Gate, GateTypes, Label
  <2>3. \A o \in Op : pc'[o] \in InOp <=> pc[o] \in InOp
    BY <2>1 DEF Gate, GateTypes, InOp
  <2>4. CommitExcludesOps'
    BY <1>1, <2>1, <2>3, ActiveSame DEF Gate, CommitExcludesOps, Active
  <2>5. OneAtWork'
    BY <1>1, <2>1 DEF Gate, GateTypes, OneAtWork, Recovering
  <2>6. NoMissedLogSpace'
    BY <1>1, <2>1 DEF Gate, GateTypes, NoMissedLogSpace, MustWait
  <2> QED BY <2>2, <2>4, <2>5, <2>6 DEF Gate
<1>3. CASE BeginOp(p) /\ ~MustWait
  <2>1. /\ pc[p] \in {"idle", "begin"} /\ outstanding' = outstanding + 1
        /\ pc' = [pc EXCEPT ![p] = "op"] /\ committing = 0 /\ phase = "run"
    BY <1>3 DEF BeginOp, Booted, MustWait, Gate, GateTypes
  <2>2. GateTypes'
    BY <1>1, <2>1 DEF Gate, GateTypes, Label, InOp
  <2>3. outstanding' = Cardinality(Active')
    <3>1. \A o \in Op \ {p} : pc'[o] \in InOp <=> pc[o] \in InOp
      BY <2>1 DEF Gate, GateTypes
    <3>2. pc[p] \notin InOp /\ pc'[p] \in InOp
      BY <2>1 DEF Gate, GateTypes, InOp
    <3> QED BY <2>1, <3>1, <3>2, ActiveMore
  <2>4. CommitExcludesOps'
    BY <1>1, <2>1, <2>3 DEF CommitExcludesOps, Active
  <2>5. OneAtWork'
    BY <1>1, <2>1 DEF Gate, GateTypes, OneAtWork, Recovering
  <2>6. NoMissedLogSpace'
    BY <1>3, <2>1 DEF Gate, GateTypes, NoMissedLogSpace
  <2> QED BY <2>2, <2>4, <2>5, <2>6 DEF Gate
<1> QED BY <1>2, <1>3

(* A block update stays within the call; the log only grows. *)
LEMMA UpdateGate ==
    ASSUME Gate, NEW p \in Op,
           LogCheck(p) \/ LogAppend(p) \/ \E b \in Block, v \in Val : Modify(p, b, v)
    PROVE  Gate'
<1>1. /\ pc[p] \in InOp /\ UNCHANGED <<outstanding, committing, phase, dhead>>
      /\ \E l \in InOp : pc' = [pc EXCEPT ![p] = l]
  BY DEF LogCheck, LogAppend, Modify, Goto, logVars, diskVars, InOp
<1>2. PICK l \in InOp : pc' = [pc EXCEPT ![p] = l] BY <1>1
<1>3. committing = 0 /\ phase = "run" BY <1>1, CallAtWork
<1>4. /\ lh' \in Seq(Block \cup {None}) /\ Len(lh) \in Nat /\ Len(lh') \in Nat /\ Len(lh') >= Len(lh)
      /\ buf' \in [Op -> Block \cup {None}]
  <2>1. lh \in Seq(Block \cup {None}) /\ buf \in [Op -> Block \cup {None}]
    BY DEF Gate, GateTypes
  <2>2. /\ lh' = lh \/ lh' = Append(lh, buf[p])
        /\ buf' = buf \/ \E b \in Block \cup {None} : buf' = [buf EXCEPT ![p] = b]
    BY DEF LogCheck, LogAppend, Modify, logVars
  <2>3. Append(lh, buf[p]) \in Seq(Block \cup {None}) /\ Len(Append(lh, buf[p])) = Len(lh) + 1 /\ Len(lh) \in Nat
    BY <2>1, AppendProperties, LenProperties
  <2> QED BY <2>1, <2>2, <2>3
<1>5. GateTypes'
  BY <1>1, <1>2, <1>4 DEF Gate, GateTypes, Label
<1>6. \A o \in Op : pc'[o] \in InOp <=> pc[o] \in InOp
  BY <1>1, <1>2 DEF Gate, GateTypes
<1>7. CommitExcludesOps'
  BY <1>1, <1>6, ActiveSame DEF Gate, CommitExcludesOps, Active
<1>8. \A o \in Op : pc'[o] \in {"commit", "asleep"} => pc[o] = pc'[o]
  BY <1>2 DEF Gate, GateTypes, InOp
<1>9. OneAtWork'
  BY <1>1, <1>3, <1>8 DEF Gate, OneAtWork, Recovering
<1>10. NoMissedLogSpace'
  <2>1. MustWait => MustWait'
    <3> DEFINE k == (outstanding + 1) * MAXOPBLOCKS
    <3>1. k \in Int /\ LOGSIZE \in Int BY SizeAssumption DEF Gate, GateTypes
    <3>2. Len(lh) + k > LOGSIZE => Len(lh') + k > LOGSIZE
      <4> HIDE DEF k
      <4> QED BY <1>4, <3>1
    <3> QED BY <1>1, <3>2 DEF MustWait
  <2> QED BY <1>8, <2>1 DEF Gate, NoMissedLogSpace
<1> QED BY <1>5, <1>7, <1>9, <1>10 DEF Gate

(* wakeup(&log) leaves nobody asleep, and the calls at work alone. *)
LEMMA WokenCalls ==
    ASSUME NEW f \in [Op -> Label]
    PROVE  /\ Woken(f) \in [Op -> Label]
           /\ \A o \in Op : /\ Woken(f)[o] # "asleep"
                            /\ Woken(f)[o] \in InOp \cup {"commit", "idle"} => f[o] = Woken(f)[o]
                            /\ f[o] \in InOp \cup {"commit", "idle"} => Woken(f)[o] = f[o]
BY DEF Woken, Label, InOp

LEMMA EndOpGate ==
    ASSUME Gate, NEW p \in Op, EndOp(p)
    PROVE  Gate'
<1> DEFINE out == [pc EXCEPT ![p] = "idle"]
<1>1. pc[p] \in InOp /\ outstanding > 0 /\ committing = 0 /\ phase = "run"
  BY CallAtWork DEF EndOp, InOp
<1>2. outstanding' = outstanding - 1 /\ outstanding' \in Nat /\ UNCHANGED <<lh, dhead, buf>>
  BY <1>1 DEF EndOp, diskVars, Gate, GateTypes
<1>3. \A o \in Op : pc[o] # "commit"
  BY <1>1 DEF Gate, OneAtWork
<1>4. CASE outstanding' = 0
  <2>1. pc' = [pc EXCEPT ![p] = "commit"] /\ committing' = 1 /\ phase' \in {"write_log", "end"}
    <3>1. committing # 1 BY <1>1
    <3> QED BY <1>4, <3>1 DEF EndOp
  <2>2. GateTypes'
    BY <1>2, <2>1 DEF Gate, GateTypes, Label
  <2>3. outstanding' = Cardinality(Active')
    <3>1. \A o \in Op \ {p} : pc'[o] \in InOp <=> pc[o] \in InOp
      BY <2>1 DEF Gate, GateTypes
    <3>2. pc'[p] \notin InOp
      BY <2>1 DEF Gate, GateTypes, InOp
    <3> QED BY <1>1, <1>2, <3>1, <3>2, ActiveLess
  <2>4. CommitExcludesOps'
    BY <1>4, <2>3 DEF CommitExcludesOps, Active
  <2>5. OneAtWork'
    BY <1>3, <2>1 DEF Gate, GateTypes, OneAtWork, Recovering
  <2>6. NoMissedLogSpace'
    BY <2>1 DEF NoMissedLogSpace, MustWait
  <2> QED BY <2>2, <2>4, <2>5, <2>6 DEF Gate
<1>5. CASE outstanding' # 0
  <2>1. pc' = Woken(out) /\ UNCHANGED <<committing, phase>>
    BY <1>1, <1>5 DEF EndOp
  <2>2. out \in [Op -> Label]
    BY DEF Gate, GateTypes, Label
  <2>3. GateTypes'
    BY <1>2, <2>1, <2>2, WokenCalls DEF Gate, GateTypes
  <2>4. outstanding' = Cardinality(Active')
    <3>1. \A o \in Op \ {p} : out[o] = pc[o] BY DEF Gate, GateTypes
    <3>2. out[p] = "idle" BY DEF Gate, GateTypes
    <3>3. \A o \in Op \ {p} : pc'[o] \in InOp <=> pc[o] \in InOp
      BY <2>1, <2>2, <3>1, WokenCalls
    <3>4. pc'[p] \notin InOp
      BY <2>1, <2>2, <3>2, WokenCalls DEF InOp
    <3> QED BY <1>1, <1>2, <3>3, <3>4, ActiveLess
  <2>5. CommitExcludesOps'
    BY <1>1, <2>1, <2>4 DEF CommitExcludesOps, Active
  <2>6. \A o \in Op : pc'[o] # "commit" /\ pc'[o] # "asleep"
    <3>1. \A o \in Op : out[o] # "commit" BY <1>3 DEF Gate, GateTypes
    <3> QED BY <2>1, <2>2, <3>1, WokenCalls
  <2>7. OneAtWork'
    <3>1. committing' = 0 /\ phase' = "run" BY <1>1, <2>1
    <3> QED BY <2>6, <3>1 DEF OneAtWork, Recovering
  <2>8. NoMissedLogSpace'
    BY <2>6 DEF NoMissedLogSpace
  <2> QED BY <2>3, <2>5, <2>7, <2>8 DEF Gate
<1> QED BY <1>4, <1>5

LEMMA EndCommitGate ==
    ASSUME Gate, NEW p \in Op, EndCommit(p)
    PROVE  Gate'
<1> DEFINE out == [pc EXCEPT ![p] = "idle"]
<1>1. /\ pc[p] = "commit" /\ committing' = 0 /\ phase' = "run" /\ pc' = Woken(out)
      /\ UNCHANGED <<lh, dhead, outstanding, buf>>
  BY DEF EndCommit, diskVars
<1>2. out \in [Op -> Label]
  BY DEF Gate, GateTypes, Label
<1>3. GateTypes'
  BY <1>1, <1>2, WokenCalls DEF Gate, GateTypes
<1>4. CommitExcludesOps'
  <2>1. \A o \in Op : out[o] \in InOp <=> pc[o] \in InOp
    BY <1>1 DEF Gate, GateTypes, InOp
  <2>2. \A o \in Op : pc'[o] \in InOp <=> pc[o] \in InOp
    BY <1>1, <1>2, <2>1, WokenCalls
  <2>3. outstanding' = Cardinality(Active') BY <1>1, <2>2, ActiveSame
  <2>4. committing' # 1 BY <1>1
  <2> QED BY <2>3, <2>4 DEF CommitExcludesOps, Active
<1>5. \A o \in Op : pc'[o] # "commit" /\ pc'[o] # "asleep"
  <2>1. \A o \in Op : out[o] # "commit"
    BY <1>1 DEF Gate, GateTypes, OneAtWork
  <2> QED BY <1>1, <1>2, <2>1, WokenCalls
<1> QED BY <1>1, <1>3, <1>4, <1>5 DEF Gate, OneAtWork, Recovering, NoMissedLogSpace

LEMMA DiskGate ==
    ASSUME Gate, DiskStep \/ \E b \in Block : Evict(b)
    PROVE  Gate'
<1>1. UNCHANGED <<outstanding, committing, pc, buf>>
  BY DEF DiskStep, WriteLog, WriteHead, InstallTrans, ClearHead, ReadHead, Evict, logVars, opVars
<1>2. lh' \in {lh, dhead, <<>>} /\ dhead' \in {dhead, lh}
  BY DEF DiskStep, WriteLog, WriteHead, InstallTrans, ClearHead, ReadHead, Evict, logVars, diskVars
<1>3. GateTypes'
  <2>1. <<>> \in Seq(Block \cup {None}) BY EmptySeq
  <2> QED BY <1>1, <1>2, <2>1 DEF Gate, GateTypes
<1>4. CommitExcludesOps'
  BY <1>1 DEF Gate, CommitExcludesOps
<1>5. OneAtWork' /\ (Recovering' => Recovering)
  BY <1>1 DEF DiskStep, WriteLog, WriteHead, InstallTrans, ClearHead, ReadHead, Evict,
     Gate, GateTypes, OneAtWork, Recovering
<1>6. NoMissedLogSpace'
  <2>1. CASE UNCHANGED lh
    BY <1>1, <2>1 DEF Gate, NoMissedLogSpace, MustWait
  <2>2. CASE committing = 1
    BY <1>1, <2>2 DEF NoMissedLogSpace, MustWait
  <2>3. CASE ~UNCHANGED lh /\ committing = 0
    <3>1. Recovering
      BY <2>3 DEF DiskStep, WriteLog, WriteHead, InstallTrans, ClearHead, ReadHead, Evict, logVars, Recovering
    <3> QED BY <1>1, <3>1 DEF Gate, OneAtWork, NoMissedLogSpace
  <2> QED BY <2>1, <2>2, <2>3 DEF Gate, GateTypes
<1> QED BY <1>3, <1>4, <1>5, <1>6 DEF Gate

LEMMA CrashGate ==
    ASSUME Gate, Crash
    PROVE  Gate'
<1>1. GateTypes'
  BY EmptySeq DEF Crash, diskVars, Gate, GateTypes, Label
<1>2. {o \in Op : pc'[o] \in InOp} = {}
  BY DEF Crash, InOp
<1>3. CommitExcludesOps'
  BY <1>2, FS_EmptySet DEF Crash, CommitExcludesOps
<1> QED BY <1>1, <1>3 DEF Crash, Gate, OneAtWork, NoMissedLogSpace

LEMMA NextGate == Gate /\ [Next]_vars => Gate'
<1> SUFFICES ASSUME Gate, [Next]_vars PROVE Gate'
  OBVIOUS
<1>1. CASE Next
  BY <1>1, BeginKillGate, UpdateGate, EndOpGate, EndCommitGate, DiskGate, CrashGate DEF Next, OpStep
<1>2. CASE UNCHANGED vars
  BY <1>2 DEF vars, diskVars, logVars, opVars, Gate, GateTypes, CommitExcludesOps, OneAtWork, Recovering,
     NoMissedLogSpace, MustWait
<1> QED BY <1>1, <1>2

LEMMA GateHolds == Spec => []Gate
BY InitGate, NextGate, PTL DEF Spec

(* No call sleeps in begin_op() when it could run, whatever the calls       *)
(* write: each end_op() that frees space in the log, and each commit, wakes *)
(* the sleepers.                                                            *)
THEOREM NoMissedLogSpaceHolds == Spec => []NoMissedLogSpace
<1>1. Gate => NoMissedLogSpace BY DEF Gate
<1> QED BY <1>1, GateHolds, PTL

-----------------------------------------------------------------------------
(* Counting the blocks of a transaction. *)

LEMMA LoggedCount ==
    ASSUME NEW S, NEW s \in Seq(S)
    PROVE  /\ IsFiniteSet(Logged(s)) /\ Cardinality(Logged(s)) \in Nat /\ Len(s) \in Nat
           /\ Cardinality(Logged(s)) <= Len(s)
           /\ Distinct(s) => Cardinality(Logged(s)) = Len(s)
<1>1. Len(s) \in Nat /\ DOMAIN s = 1..Len(s) /\ s \in [1..Len(s) -> S]
  BY LenProperties
<1>2. s \in Surjection(1..Len(s), Logged(s))
  BY <1>1 DEF Surjection, Logged
<1>3. IsFiniteSet(1..Len(s)) /\ Cardinality(1..Len(s)) = Len(s)
  BY <1>1, FS_Interval
<1>4. /\ IsFiniteSet(Logged(s)) /\ Cardinality(Logged(s)) <= Len(s)
      /\ s \in Injection(1..Len(s), Logged(s)) => Cardinality(Logged(s)) = Len(s)
  BY <1>2, <1>3, FS_Surjection
<1>5. Distinct(s) => s \in Injection(1..Len(s), Logged(s))
  BY <1>1, <1>2 DEF Distinct, Injection, IsInjective, Surjection
<1> QED BY <1>1, <1>4, <1>5, FS_CardinalityType

(* The blocks in the hands of a call; each counts as changed by it. *)
Held == {b \in Block : \E o \in Op : buf[o] = b}

LEMMA HeldFinite == IsFiniteSet(Held)
<1> DEFINE H == {o \in Op : buf[o] \in Block}
           f == [o \in H |-> buf[o]]
<1>1. f \in Surjection(H, Held) BY DEF Surjection, Held
<1>2. IsFiniteSet(H) BY OpSubset
<1> QED BY <1>1, <1>2, FS_Surjection

LEMMA ClaimedFinite ==
    ASSUME TypeOK
    PROVE  /\ IsFiniteSet(Claimed) /\ Cardinality(Claimed) \in Nat
           /\ Cardinality(Claimed) <= Len(lh) + Cardinality(Held)
           /\ Distinct(lh) => Len(lh) <= Cardinality(Claimed)
<1>1. lh \in Seq(Block) BY DEF TypeOK
<1>2. Claimed = Logged(lh) \cup Held
  <2>1. \A i \in 1..Len(lh) : lh[i] \in Block BY <1>1, ElementOfSeq
  <2> QED BY <2>1 DEF Claimed, Logged, Held
<1>3. IsFiniteSet(Logged(lh)) /\ Cardinality(Logged(lh)) \in Nat /\ Len(lh) \in Nat
      /\ Cardinality(Logged(lh)) <= Len(lh)
  BY <1>1, LoggedCount
<1>4. IsFiniteSet(Held) /\ Cardinality(Held) \in Nat
  BY HeldFinite, FS_CardinalityType
<1>5. /\ IsFiniteSet(Claimed)
      /\ Cardinality(Claimed) = Cardinality(Logged(lh)) + Cardinality(Held) - Cardinality(Logged(lh) \cap Held)
  BY <1>2, <1>3, <1>4, FS_Union
<1>6. Cardinality(Logged(lh) \cap Held) \in Nat /\ Cardinality(Claimed) \in Nat
  BY <1>3, <1>5, FS_Intersection, FS_CardinalityType
<1>7. Distinct(lh) => Len(lh) <= Cardinality(Claimed)
  <2>1. Cardinality(Logged(lh)) <= Cardinality(Claimed)
    BY <1>2, <1>5, FS_Subset
  <2> QED BY <1>1, <2>1, LoggedCount
<1> QED BY <1>3, <1>4, <1>5, <1>6, <1>7

LEMMA ChangesFinite ==
    ASSUME TypeOK, Reserve
    PROVE  IsFiniteSet(Changes) /\ Cardinality(Changes) \in Nat
<1>1. Changes \in SUBSET (Op \X Claimed)
  BY DEF Changes, Reserve, Accounts
<1>2. IsFiniteSet(Op \X Claimed)
  BY ClaimedFinite, NoneAssumption, FS_Product
<1> QED BY <1>1, <1>2, FS_Subset, FS_CardinalityType

LEMMA HeldChanged ==
    ASSUME TypeOK, Reserve
    PROVE  Cardinality(Held) \in Nat /\ Cardinality(Held) <= Cardinality(Changes)
<1> DEFINE C == {x \in Changes : buf[x[1]] = x[2]}
           f == [x \in C |-> x[2]]
<1>1. f \in Surjection(C, Held)
  <2>1. \A x \in C : f[x] \in Held BY DEF Changes, Held
  <2>2. \A b \in Held : \E x \in C : f[x] = b
    <3> TAKE b \in Held
    <3>1. PICK o \in Op : buf[o] = b BY DEF Held
    <3>2. b \in Block /\ b # None /\ b \in wrote[o]
      BY <3>1, NoneAssumption DEF Held, Reserve, Accounts
    <3>3. <<o, b>> \in C BY <3>1, <3>2 DEF Changes
    <3> QED BY <3>3
  <2> QED BY <2>1, <2>2 DEF Surjection
<1>2. C \in SUBSET Changes OBVIOUS
<1>3. IsFiniteSet(C) /\ Cardinality(C) <= Cardinality(Changes) /\ Cardinality(C) \in Nat
  BY <1>2, ChangesFinite, FS_Subset, FS_CardinalityType
<1> HIDE DEF C, f
<1>4. Cardinality(Held) <= Cardinality(C) /\ IsFiniteSet(Held)
  BY <1>1, <1>3, FS_Surjection
<1>5. Cardinality(Held) \in Nat /\ Cardinality(Changes) \in Nat
  BY <1>4, ChangesFinite, FS_CardinalityType
<1> QED BY <1>3, <1>4, <1>5

(* While no call used up its reservation, each leaves a block of it. *)
LEMMA ChangesBound ==
    ASSUME Gate, TypeOK, Reserve, ~over
    PROVE  Cardinality(Changes) <= outstanding * (MAXOPBLOCKS - 1)
<1> DEFINE M == MAXOPBLOCKS - 1
           I(o) == Injection(wrote[o], 1..M)
           g == [o \in Op |-> CHOOSE f \in I(o) : TRUE]
           h == [x \in Changes |-> <<x[1], g[x[1]][x[2]]>>]
<1>0. M \in Nat BY SizeAssumption
<1>a. \A o \in Op : Cardinality(wrote[o]) \in Nat /\ Cardinality(wrote[o]) <= M
  BY <1>0, SizeAssumption, FS_CardinalityType DEF Reserve, Accounts
<1> HIDE DEF M
<1>1. \A o \in Op : \E f \in I(o) : TRUE
  <2> TAKE o \in Op
  <2> DEFINE n == Cardinality(wrote[o])
  <2>1. IsFiniteSet(wrote[o]) /\ n <= M /\ n \in Nat /\ M \in Nat
    BY <1>0, <1>a DEF Reserve, Accounts
  <2>2. ExistsBijection(1..n, wrote[o]) BY <2>1, FS_CardinalityType
  <2>3. ExistsBijection(wrote[o], 1..n) BY <2>2, Fun_ExistsBijSymmetric
  <2>4. PICK f \in Bijection(wrote[o], 1..n) : TRUE BY <2>3 DEF ExistsBijection
  <2>5. f \in [wrote[o] -> 1..n] /\ \A a, b \in wrote[o] : f[a] = f[b] => a = b
    BY <2>4 DEF Bijection, Injection, IsInjective
  <2>6. f \in [wrote[o] -> 1..M] BY <2>1, <2>5
  <2>7. f \in I(o) BY <2>5, <2>6 DEF Injection, IsInjective
  <2> QED BY <2>7
<1>2. \A o \in Op : g[o] \in I(o) BY <1>1
<1> HIDE DEF g
<1>3. \A o \in Op : /\ g[o] \in [wrote[o] -> 1..M]
                    /\ \A a, b \in wrote[o] : g[o][a] = g[o][b] => a = b
  BY <1>2 DEF Injection, IsInjective
<1> HIDE DEF I
<1>4. h \in Injection(Changes, Active \X (1..M))
  <2>1. \A x \in Changes : x = <<x[1], x[2]>> /\ x[1] \in Active /\ x[2] \in wrote[x[1]]
    BY DEF Changes, Active, Reserve, Accounts
  <2>2. \A x \in Changes : h[x] \in Active \X (1..M)
    BY <1>3, <2>1 DEF Active
  <2>3. \A x, y \in Changes : h[x] = h[y] => x = y
    BY <1>3, <2>1 DEF Active
  <2>4. h \in [Changes -> Active \X (1..M)] BY <2>2
  <2> QED BY <2>3, <2>4, Fun_IsInj
<1>5. IsFiniteSet(Active) /\ Cardinality(Active) = outstanding
  BY OpSubset DEF Active, Gate, CommitExcludesOps
<1>6. IsFiniteSet(1..M) /\ Cardinality(1..M) = M
  BY <1>0, FS_Interval
<1>7. /\ IsFiniteSet(Active \X (1..M))
      /\ Cardinality(Active \X (1..M)) = outstanding * M
  BY <1>5, <1>6, FS_Product
<1> HIDE DEF h
<1> QED BY <1>4, <1>7, FS_Injection DEF M

(* While a call is at work, the transaction is two blocks short of the log. *)
LEMMA SpaceLeft ==
    ASSUME Gate, TypeOK, Reserve, ~over, outstanding > 0
    PROVE  Cardinality(Claimed) <= LOGSIZE - 2
<1> DEFINE c == Cardinality(Claimed)
           h == Cardinality(Changes)
           n == outstanding
<1>1. c \in Nat /\ h \in Nat /\ n \in Nat /\ n > 0
  BY ClaimedFinite, ChangesFinite DEF Gate, GateTypes
<1>2. h <= n * (MAXOPBLOCKS - 1) BY ChangesBound
<1>3. /\ c + n * MAXOPBLOCKS <= LOGSIZE + h
      /\ n = 1 => (c <= h \/ c + MAXOPBLOCKS < LOGSIZE + h)
  BY DEF Reserve, Budget
<1>4. {LOGSIZE, MAXOPBLOCKS} \subseteq Nat /\ MAXOPBLOCKS < LOGSIZE
  BY SizeAssumption
<1> SUFFICES c <= LOGSIZE - 2 OBVIOUS
<1> HIDE DEF c, h, n
<1>5. n * (MAXOPBLOCKS - 1) = n * MAXOPBLOCKS - n
  BY <1>1, <1>4
<1>6. CASE n = 1 BY <1>1, <1>2, <1>3, <1>4, <1>6
<1>7. CASE n > 1 BY <1>1, <1>2, <1>3, <1>4, <1>5, <1>7
<1> QED BY <1>1, <1>6, <1>7

-----------------------------------------------------------------------------
(* The reservation and the journal.  The gate supplies the other parts of   *)
(* LogInv.                                                                  *)

Body == TypeOK /\ SpaceEnough /\ Reserve /\ Pinned /\ Journal

LEMMA BodyInv == Gate /\ Body => LogInv
BY DEF LogInv, Body, Gate

(* Nobody holds a buffer while no call is at work. *)
LEMMA Quiet ==
    ASSUME Gate, Body, outstanding = 0
    PROVE  \A o \in Op : pc[o] \notin InOp /\ buf[o] = None /\ wrote[o] = {}
<1>1. IsFiniteSet(Active) /\ Cardinality(Active) = 0
  BY OpSubset DEF Active, Gate, CommitExcludesOps
<1>2. Active = {} BY <1>1, FS_EmptySet
<1>3. \A o \in Op : pc[o] \notin InOp BY <1>2 DEF Active
<1> QED BY <1>3 DEF Body, Reserve, Accounts, Pinned, InOp

LEMMA DiskAtWork ==
    ASSUME Gate, phase # "run"
    PROVE  outstanding = 0
<1>1. CASE committing = 1 BY <1>1 DEF Gate, CommitExcludesOps
<1>2. CASE committing = 0
  <2>1. Active = {} BY <1>2 DEF Gate, OneAtWork, Recovering, Active, InOp
  <2> QED BY <2>1, FS_EmptySet DEF Gate, CommitExcludesOps, Active
<1> QED BY <1>1, <1>2 DEF Gate, GateTypes

(* Without calls at work nothing is reserved. *)
Unused == outstanding = 0 /\ \A o \in Op : buf[o] = None /\ wrote[o] = {}

LEMMA ReserveIdle == TypeOK /\ Fits(lh) /\ Unused => Reserve
<1> SUFFICES ASSUME TypeOK, Fits(lh), outstanding = 0,
                    \A o \in Op : buf[o] = None /\ wrote[o] = {}
             PROVE  Reserve
  BY DEF Unused
<1>1. Held = {} /\ Changes = {} BY NoneAssumption DEF Held, Changes
<1>2. Cardinality(Held) = 0 /\ Cardinality(Changes) = 0 /\ IsFiniteSet({}) /\ Cardinality({}) = 0
  <2>1. IsFiniteSet({}) /\ Cardinality({}) = 0 BY FS_EmptySet
  <2> QED BY <1>1, <2>1
<1>3. {LOGSIZE, MAXOPBLOCKS} \subseteq Nat /\ 0 < MAXOPBLOCKS BY SizeAssumption
<1>4. Cardinality(Claimed) \in Nat /\ Cardinality(Claimed) <= Len(lh) /\ Len(lh) \in Nat
  BY <1>2, ClaimedFinite, LenProperties DEF TypeOK
<1>5. Accounts
  <2> SUFFICES ASSUME NEW o \in Op
               PROVE  /\ IsFiniteSet(wrote[o]) /\ Cardinality(wrote[o]) < MAXOPBLOCKS
                      /\ wrote[o] = {} /\ buf[o] = None
    BY DEF Accounts
  <2>1. wrote[o] = {} /\ buf[o] = None OBVIOUS
  <2>2. IsFiniteSet(wrote[o]) /\ Cardinality(wrote[o]) = 0 BY <1>2, <2>1
  <2> QED BY <1>3, <2>1, <2>2
<1>6. Cardinality(Claimed) + outstanding * MAXOPBLOCKS <= LOGSIZE + Cardinality(Changes)
  BY <1>2, <1>3, <1>4 DEF Fits
<1> QED BY <1>5, <1>6 DEF Reserve, Budget

LEMMA ReserveSame ==
    ASSUME Reserve, UNCHANGED <<outstanding, wrote, over>>, Claimed' = Claimed,
           \A o \in Op : pc'[o] \notin InOp => wrote[o] = {},
           \A o \in Op : buf'[o] # None => buf'[o] = buf[o]
    PROVE  Reserve'
<1>1. Changes' = Changes BY DEF Changes
<1> QED BY <1>1 DEF Reserve, Accounts, Budget

(* A step that neither panics nor appends needs no new space. *)
LEMMA SpaceSame ==
    ASSUME SpaceEnough, UNCHANGED <<lh, over>>, \A o \in Op : pc'[o] = "panic" => pc[o] = "panic"
    PROVE  SpaceEnough'
BY DEF SpaceEnough, Panicked, Fits

(* begin_op() and kill(). *)
LEMMA BeginBody ==
    ASSUME Gate, Gate', Body, NEW o \in Op, BeginOp(o)
    PROVE  Body'
<1>1. UNCHANGED <<disk, logdata, dhead, cache, dirty, lh, committing, phase, tail, buf, wrote, over>>
      /\ pc[o] \in {"idle", "begin"}
  BY DEF BeginOp, diskVars
<1>2. TypeOK' BY <1>1 DEF Body, TypeOK, Gate, GateTypes
<1>3. \A q \in Op : pc'[q] = pc[q] \/ (pc[q] \in {"idle", "begin"} /\ pc'[q] \in {"asleep", "op"})
  BY DEF BeginOp, Body, TypeOK
<1>4. SpaceEnough' BY <1>1, <1>3, SpaceSame DEF Body
<1>5. Pinned'
  <2>1. \A q \in Op : buf'[q] # None <=> pc'[q] \in {"check", "append", "panic"}
    BY <1>1, <1>3 DEF Body, Pinned
  <2> QED BY <1>1, <2>1 DEF Body, Pinned, Recovering, Logged
<1>6. Claimed' = Claimed BY <1>1 DEF Claimed, Logged
<1>7. CASE MustWait
  <2>1. UNCHANGED outstanding BY <1>7 DEF BeginOp
  <2>2. Reserve'
    BY <1>1, <1>3, <1>6, <2>1, ReserveSame DEF Body, Reserve, Accounts, InOp
  <2>3. Journal' BY <1>1, <2>1 DEF Body, Journal, Distinct, Logged
  <2> QED BY <1>2, <1>4, <1>5, <2>2, <2>3 DEF Body
<1>8. CASE ~MustWait
  <2>1. outstanding' = outstanding + 1 /\ outstanding \in Nat /\ phase = "run"
        /\ pc' = [pc EXCEPT ![o] = "op"]
    BY <1>8 DEF BeginOp, MustWait, Booted, Gate, GateTypes
  <2>2. Journal' BY <1>1, <2>1 DEF Body, Journal, Distinct, Logged
  <2>3. Changes' = Changes BY <1>1 DEF Changes
  <2>4. Accounts'
    BY <1>1, <1>3, <1>6 DEF Body, Reserve, Accounts, InOp
  <2>5. /\ Cardinality(Claimed) \in Nat /\ Cardinality(Changes) \in Nat
        /\ Cardinality(Held) \in Nat /\ Len(lh) \in Nat
        /\ Cardinality(Claimed) <= Len(lh) + Cardinality(Held)
        /\ Cardinality(Held) <= Cardinality(Changes)
    BY ClaimedFinite, ChangesFinite, HeldChanged, LenProperties DEF Body, TypeOK
  <2>6. Len(lh) + (outstanding + 1) * MAXOPBLOCKS <= LOGSIZE
    BY <1>8, <2>1, <2>5, SizeAssumption DEF MustWait
  <2>7. Cardinality(Claimed) + (outstanding + 1) * MAXOPBLOCKS <= LOGSIZE + Cardinality(Changes)
    <3> DEFINE m == (outstanding + 1) * MAXOPBLOCKS
    <3>1. m \in Nat /\ LOGSIZE \in Nat BY <2>1, SizeAssumption
    <3>2. Len(lh) + m <= LOGSIZE BY <2>6
    <3> HIDE DEF m
    <3>3. Cardinality(Claimed) + m <= LOGSIZE + Cardinality(Changes) BY <2>5, <3>1, <3>2
    <3> QED BY <3>3 DEF m
  <2>8. outstanding = 0 => Cardinality(Claimed) <= Cardinality(Changes)
    <3> SUFFICES ASSUME outstanding = 0 PROVE Cardinality(Claimed) <= Cardinality(Changes)
      OBVIOUS
    <3>1. lh = <<>> BY <2>1 DEF Body, Journal
    <3>2. Claimed = {} BY <3>1, Quiet, NoneAssumption, EmptySeq DEF Claimed, Logged
    <3> QED BY <2>5, <3>2, FS_EmptySet
  <2>9. Reserve'
    <3>1. (outstanding' = 1) => outstanding = 0 BY <2>1
    <3> QED BY <1>6, <2>1, <2>3, <2>4, <2>7, <2>8, <3>1 DEF Reserve, Budget
  <2> QED BY <1>2, <1>4, <1>5, <2>2, <2>9 DEF Body
<1> QED BY <1>7, <1>8

LEMMA KillBody ==
    ASSUME Gate, Gate', Body, NEW o \in Op, Kill(o)
    PROVE  Body'
<1>1. UNCHANGED <<disk, logdata, dhead, cache, dirty, lh, outstanding, committing, phase, tail, buf, wrote, over>>
  BY DEF Kill, diskVars, logVars
<1>2. TypeOK' BY <1>1 DEF Body, TypeOK, Gate, GateTypes
<1>3. \A q \in Op : pc'[q] = pc[q] \/ (pc[q] = "asleep" /\ pc'[q] = "begin")
  BY DEF Kill, Goto, Body, TypeOK
<1>4. SpaceEnough' BY <1>1, <1>3, SpaceSame DEF Body
<1>5. Pinned'
  <2>1. \A q \in Op : buf'[q] # None <=> pc'[q] \in {"check", "append", "panic"}
    BY <1>1, <1>3 DEF Body, Pinned
  <2> QED BY <1>1, <2>1 DEF Body, Pinned, Recovering, Logged
<1>6. Claimed' = Claimed BY <1>1 DEF Claimed, Logged
<1>7. Reserve' BY <1>1, <1>3, <1>6, ReserveSame DEF Body, Reserve, Accounts, InOp
<1>8. Journal' BY <1>1 DEF Body, Journal, Distinct, Logged
<1> QED BY <1>2, <1>4, <1>5, <1>7, <1>8 DEF Body

(* The test of log_write() fails only when a call used up its reservation. *)
LEMMA LogCheckBody ==
    ASSUME Gate, Gate', Body, NEW o \in Op, LogCheck(o)
    PROVE  Body'
<1>1. UNCHANGED <<disk, logdata, dhead, cache, dirty, lh, outstanding, committing, phase, tail, buf, wrote, over>>
      /\ pc[o] = "check"
  BY DEF LogCheck, Goto, diskVars, logVars
<1>2. TypeOK' BY <1>1 DEF Body, TypeOK, Gate, GateTypes
<1>3. outstanding > 0 /\ outstanding \in Nat
  BY <1>1, CallAtWork DEF InOp, Gate, GateTypes
<1>4. ~over => ~(Len(lh) >= LOGSIZE \/ Len(lh) >= NLOG - 1 \/ outstanding < 1)
  <2> SUFFICES ASSUME ~over PROVE ~(Len(lh) >= LOGSIZE \/ Len(lh) >= NLOG - 1 \/ outstanding < 1)
    OBVIOUS
  <2>1. Cardinality(Claimed) <= LOGSIZE - 2 BY <1>3, SpaceLeft DEF Body
  <2>2. Len(lh) <= Cardinality(Claimed) /\ Cardinality(Claimed) \in Nat /\ Len(lh) \in Nat
    BY ClaimedFinite, LenProperties DEF Body, Journal, TypeOK
  <2> QED BY <1>3, <2>1, <2>2, SizeAssumption
<1>5. pc' = [pc EXCEPT ![o] = "append"] \/ (over /\ pc' = [pc EXCEPT ![o] = "panic"])
  BY <1>4 DEF LogCheck, Goto
<1>6. \A q \in Op : pc'[q] = pc[q] \/ (pc[q] = "check" /\ pc'[q] \in {"append", "panic"})
  BY <1>1, <1>5 DEF Body, TypeOK
<1>7. SpaceEnough'
  <2>1. CASE over BY <1>1, <2>1 DEF SpaceEnough
  <2>2. CASE ~over
    <3>1. \A q \in Op : pc'[q] = "panic" => pc[q] = "panic" BY <1>5, <2>2 DEF Body, TypeOK
    <3> QED BY <1>1, <3>1, SpaceSame DEF Body
  <2> QED BY <2>1, <2>2
<1>8. Pinned'
  <2>1. \A q \in Op : buf'[q] # None <=> pc'[q] \in {"check", "append", "panic"}
    BY <1>1, <1>6 DEF Body, Pinned
  <2> QED BY <1>1, <2>1 DEF Body, Pinned, Recovering, Logged
<1>9. Claimed' = Claimed BY <1>1 DEF Claimed, Logged
<1>10. Reserve' BY <1>1, <1>6, <1>9, ReserveSame DEF Body, Reserve, Accounts, InOp
<1>11. Journal' BY <1>1 DEF Body, Journal, Distinct, Logged
<1> QED BY <1>2, <1>7, <1>8, <1>10, <1>11 DEF Body

(* A call changes a block: its reservation shrinks as the claims grow. *)
LEMMA ModifyBody ==
    ASSUME Gate, Gate', Body, NEW o \in Op, NEW b \in Block, NEW v \in Val, Modify(o, b, v)
    PROVE  Body'
<1>1. /\ UNCHANGED <<disk, logdata, dhead, dirty, lh, outstanding, committing, phase, tail>>
      /\ pc[o] = "op" /\ pc' = [pc EXCEPT ![o] = "check"]
      /\ cache' = [cache EXCEPT ![b] = v] /\ buf' = [buf EXCEPT ![o] = b]
      /\ wrote' = [wrote EXCEPT ![o] = wrote[o] \cup {b}]
      /\ over' = (over \/ Cardinality(wrote'[o]) >= MAXOPBLOCKS)
  BY DEF Modify, Goto, diskVars, logVars
<1>2. phase = "run" /\ outstanding > 0 /\ committing = 0
  BY <1>1, CallAtWork DEF InOp
<1>3. TypeOK' BY <1>1 DEF Body, TypeOK, Gate, GateTypes
<1>4. /\ pc'[o] = "check" /\ buf'[o] = b /\ wrote'[o] = wrote[o] \cup {b}
      /\ \A q \in Op \ {o} : pc'[q] = pc[q] /\ buf'[q] = buf[q] /\ wrote'[q] = wrote[q]
      /\ cache'[b] = v /\ \A c \in Block \ {b} : cache'[c] = cache[c]
  BY <1>1 DEF Body, TypeOK
<1>5. /\ buf[o] = None /\ b # None /\ v # None /\ \A q \in Op : buf[q] # b
  BY <1>1, NoneAssumption DEF Body, Pinned, Modify
<1>6. SpaceEnough' /\ (over => over')
  <2>1. over => over' BY <1>1
  <2>2. Panicked' => Panicked BY <1>4 DEF Panicked
  <2> QED BY <1>1, <2>1, <2>2 DEF Body, SpaceEnough, Fits
<1>7. Pinned'
  <2>1. \A q \in Op : buf'[q] # None <=> pc'[q] \in {"check", "append", "panic"}
    BY <1>4, <1>5 DEF Body, Pinned
  <2>2. (dirty \subseteq Logged(lh))' BY <1>1 DEF Body, Pinned, Logged
  <2>3. ASSUME NEW c \in Block
        PROVE  /\ cache'[c] # None => cache'[c] = disk'[c] \/ c \in dirty' \/ \E q \in Op : buf'[q] = c
               /\ c \in dirty' \/ (\E q \in Op : buf'[q] = c) => cache'[c] # None
    <3>1. CASE c = b BY <1>4, <1>5, <3>1
    <3>2. CASE c # b
      <4>1. (\E q \in Op : buf'[q] = c) <=> \E q \in Op : buf[q] = c
        BY <1>4, <1>5, <3>2, NoneAssumption
      <4> QED BY <1>1, <1>4, <3>2, <4>1 DEF Body, Pinned
    <3> QED BY <3>1, <3>2
  <2>4. ~Recovering' BY <1>1, <1>2 DEF Recovering
  <2> QED BY <2>1, <2>2, <2>3, <2>4 DEF Pinned
<1>8. Journal'
  BY <1>1, <1>2 DEF Body, Journal, Distinct, Logged
<1>9. Claimed' = Claimed \cup {b}
  <2>1. Logged(lh)' = Logged(lh) BY <1>1 DEF Logged
  <2> QED BY <1>4, <1>5, <2>1, NoneAssumption DEF Claimed
<1>10. Changes' = Changes \cup {<<o, b>>}
  BY <1>4 DEF Changes
<1>11. Accounts'
  <2> SUFFICES ASSUME NEW q \in Op
               PROVE  /\ (IsFiniteSet(wrote[q]) /\ (~over => Cardinality(wrote[q]) < MAXOPBLOCKS))'
                      /\ (wrote[q] \subseteq Claimed /\ (buf[q] # None => buf[q] \in wrote[q]))'
                      /\ (pc[q] \notin InOp => wrote[q] = {})'
    BY DEF Accounts
  <2>1. CASE q # o BY <1>4, <1>6, <1>9, <2>1 DEF Body, Reserve, Accounts
  <2>2. CASE q = o
    <3>1. wrote'[o] \subseteq Claimed' /\ buf'[o] \in wrote'[o] /\ pc'[o] \in InOp
      BY <1>4, <1>9 DEF Body, Reserve, Accounts, InOp
    <3>2. IsFiniteSet(wrote[o]) BY DEF Body, Reserve, Accounts
    <3>3. IsFiniteSet(wrote'[o])
      <4>1. IsFiniteSet(wrote[o] \cup {b}) BY <3>2, FS_AddElement
      <4> QED BY <1>4, <4>1
    <3>4. Cardinality(wrote'[o]) \in Nat /\ MAXOPBLOCKS \in Nat BY <3>3, FS_CardinalityType, SizeAssumption
    <3>5. ~over' => Cardinality(wrote'[o]) < MAXOPBLOCKS
      <4>1. ~over' => ~(Cardinality(wrote'[o]) >= MAXOPBLOCKS) BY <1>1, Zenon
      <4> QED BY <3>4, <4>1
    <3> QED BY <2>2, <3>1, <3>3, <3>5
  <2> QED BY <2>1, <2>2
<1>12. /\ IsFiniteSet(Claimed) /\ Cardinality(Claimed) \in Nat
       /\ IsFiniteSet(Changes) /\ Cardinality(Changes) \in Nat
  BY ClaimedFinite, ChangesFinite DEF Body
<1>13. CASE b \in wrote[o]
  <2>1. Claimed' = Claimed /\ Changes' = Changes
    BY <1>9, <1>10, <1>13 DEF Body, Reserve, Accounts, Changes
  <2> QED BY <1>1, <1>3, <1>6, <1>7, <1>8, <1>11, <2>1 DEF Body, Reserve, Budget
<1>14. CASE b \notin wrote[o]
  <2>1. Cardinality(Changes') = Cardinality(Changes) + 1
    <3>1. <<o, b>> \notin Changes BY <1>14 DEF Changes
    <3> QED BY <1>10, <1>12, <3>1, FS_AddElement
  <2>2. Cardinality(Claimed') \in Nat /\ Cardinality(Claimed') <= Cardinality(Claimed) + 1
    <3>1. CASE b \in Claimed
      <4>1. Claimed' = Claimed BY <1>9, <3>1
      <4> QED BY <1>12, <4>1
    <3>2. CASE b \notin Claimed
      <4>1. Cardinality(Claimed \cup {b}) = Cardinality(Claimed) + 1
        BY <1>12, <3>2, FS_AddElement
      <4> QED BY <1>9, <1>12, <4>1
    <3> QED BY <3>1, <3>2
  <2>3. outstanding * MAXOPBLOCKS \in Nat /\ LOGSIZE \in Nat /\ MAXOPBLOCKS \in Nat
    BY SizeAssumption DEF Gate, GateTypes
  <2> SUFFICES ASSUME ~over PROVE Budget'
    BY <1>3, <1>6, <1>7, <1>8, <1>11 DEF Body, Reserve
  <2>4. /\ Cardinality(Claimed) + outstanding * MAXOPBLOCKS <= LOGSIZE + Cardinality(Changes)
        /\ outstanding = 1 => (\/ Cardinality(Claimed) <= Cardinality(Changes)
                               \/ Cardinality(Claimed) + MAXOPBLOCKS < LOGSIZE + Cardinality(Changes))
    BY DEF Body, Reserve, Budget
  <2>5. /\ Cardinality(Claimed') + outstanding * MAXOPBLOCKS <= LOGSIZE + Cardinality(Changes')
        /\ outstanding = 1 => (\/ Cardinality(Claimed') <= Cardinality(Changes')
                               \/ Cardinality(Claimed') + MAXOPBLOCKS < LOGSIZE + Cardinality(Changes'))
    BY <1>12, <2>1, <2>2, <2>3, <2>4
  <2> QED BY <1>1, <2>5 DEF Budget
<1> QED BY <1>13, <1>14

LEMMA LoggedAppend ==
    ASSUME NEW S, NEW s \in Seq(S), NEW x \in S
    PROVE  /\ Append(s, x) \in Seq(S) /\ Logged(Append(s, x)) = Logged(s) \cup {x}
           /\ Distinct(s) /\ x \notin Logged(s) => Distinct(Append(s, x))
<1>1. /\ Append(s, x) \in Seq(S) /\ Len(Append(s, x)) = Len(s) + 1 /\ Len(s) \in Nat
      /\ \A i \in 1..Len(s) : Append(s, x)[i] = s[i]
      /\ Append(s, x)[Len(s) + 1] = x
  BY AppendProperties, LenProperties
<1>2. 1..Len(s) + 1 = (1..Len(s)) \cup {Len(s) + 1} BY <1>1
<1>3. Logged(Append(s, x)) = Logged(s) \cup {x}
  BY <1>1, <1>2 DEF Logged
<1>4. ASSUME Distinct(s), x \notin Logged(s) PROVE Distinct(Append(s, x))
  BY <1>1, <1>2, <1>4 DEF Distinct, Logged
<1> QED BY <1>1, <1>3, <1>4

(* log_write() turns the claim of a call into an entry of the header. *)
LEMMA LogAppendBody ==
    ASSUME Gate, Gate', Body, NEW o \in Op, LogAppend(o)
    PROVE  Body'
<1> DEFINE b == buf[o]
<1>1. /\ UNCHANGED <<disk, logdata, dhead, cache, outstanding, committing, phase, tail, wrote, over>>
      /\ pc[o] = "append" /\ pc' = [pc EXCEPT ![o] = "op"]
      /\ lh' = IF b \in Logged(lh) THEN lh ELSE Append(lh, b)
      /\ dirty' = dirty \cup {b} /\ buf' = [buf EXCEPT ![o] = None]
  BY DEF LogAppend, Goto, diskVars
<1>2. phase = "run" /\ outstanding > 0 /\ committing = 0
  BY <1>1, CallAtWork DEF InOp
<1>3. b \in Block /\ b # None BY <1>1, NoneAssumption DEF Body, Pinned, TypeOK
<1> HIDE DEF b
<1>4. lh' \in Seq(Block) /\ Logged(lh') = Logged(lh) \cup {b} /\ Distinct(lh')
  <2>1. lh \in Seq(Block) /\ Distinct(lh) BY DEF Body, TypeOK, Journal
  <2> QED BY <1>1, <1>3, <2>1, LoggedAppend
<1>5. TypeOK' BY <1>1, <1>3, <1>4 DEF Body, TypeOK, Gate, GateTypes
<1>6. /\ pc'[o] = "op" /\ buf'[o] = None /\ buf[o] = b
      /\ \A q \in Op \ {o} : pc'[q] = pc[q] /\ buf'[q] = buf[q]
  BY <1>1 DEF Body, TypeOK, b
<1>7. Panicked' => Panicked BY <1>6 DEF Panicked
<1>8. Pinned'
  <2>1. \A q \in Op : buf'[q] # None <=> pc'[q] \in {"check", "append", "panic"}
    BY <1>6 DEF Body, Pinned
  <2>2. dirty' \subseteq Logged(lh') BY <1>1, <1>4 DEF Body, Pinned
  <2>3. ASSUME NEW c \in Block
        PROVE  /\ cache'[c] # None => cache'[c] = disk'[c] \/ c \in dirty' \/ \E q \in Op : buf'[q] = c
               /\ c \in dirty' \/ (\E q \in Op : buf'[q] = c) => cache'[c] # None
    <3>1. (\E q \in Op : buf'[q] = c) \/ c = b <=> (\E q \in Op : buf[q] = c) \/ c = b
      BY <1>3, <1>6, NoneAssumption
    <3>2. c = b => \E q \in Op : buf[q] = c BY <1>6
    <3> QED BY <1>1, <3>1, <3>2 DEF Body, Pinned
  <2>4. ~Recovering' BY <1>1, <1>2 DEF Recovering
  <2> QED BY <2>1, <2>2, <2>3, <2>4 DEF Pinned, Logged
<1>9. Claimed' = Claimed
  <2>1. ASSUME NEW c \in Block
        PROVE  c \in Logged(lh') \/ (\E q \in Op : buf'[q] = c) <=> c \in Logged(lh) \/ \E q \in Op : buf[q] = c
    BY <1>3, <1>4, <1>6, NoneAssumption
  <2>2. Logged(lh)' = Logged(lh') BY DEF Logged
  <2> QED BY <2>1, <2>2 DEF Claimed
<1>10. Reserve'
  BY <1>1, <1>6, <1>9, ReserveSame DEF Body, Reserve, Accounts, InOp
<1>11. SpaceEnough'
  <2>1. CASE over BY <1>1, <2>1 DEF SpaceEnough
  <2>2. CASE ~over
    <3>1. /\ Cardinality(Claimed) <= LOGSIZE - 2 /\ IsFiniteSet(Claimed) /\ Cardinality(Claimed) \in Nat
      BY <1>2, <2>2, SpaceLeft, ClaimedFinite DEF Body
    <3>2. Len(lh') \in Nat /\ Cardinality(Logged(lh')) = Len(lh') BY <1>4, LoggedCount
    <3>3. Logged(lh') \subseteq Claimed
      <4>1. \A i \in 1..Len(lh') : lh'[i] \in Block BY <1>4, ElementOfSeq
      <4> QED BY <1>9, <4>1 DEF Claimed, Logged
    <3>4. Cardinality(Logged(lh')) <= Cardinality(Claimed) BY <3>1, <3>3, FS_Subset
    <3>5. Fits(lh)' BY <3>1, <3>2, <3>4, SizeAssumption DEF Fits
    <3> QED BY <1>7, <2>2, <3>5 DEF Body, SpaceEnough
  <2> QED BY <2>1, <2>2
<1>12. Journal'
  <2>1. Logged(lh') \subseteq dirty' /\ dhead' = <<>> /\ Distinct(dhead)' /\ Fits(dhead)'
    BY <1>1, <1>2, <1>4 DEF Body, Journal, Distinct, Fits
  <2>2. Logged(lh)' \subseteq dirty' /\ Distinct(lh)' BY <1>4, <2>1 DEF Logged, Distinct
  <2> QED BY <1>1, <1>2, <2>1, <2>2 DEF Journal
<1> QED BY <1>5, <1>8, <1>10, <1>11, <1>12 DEF Body

(* end_op(): what the call reserved and did not use becomes free. *)
LEMMA EndOpBody ==
    ASSUME Gate, Gate', Body, Fits(lh), NEW o \in Op, EndOp(o)
    PROVE  Body'
<1>1. pc[o] = "op" BY DEF EndOp
<1>2. phase = "run" /\ outstanding > 0 /\ committing = 0 /\ outstanding \in Nat
  BY <1>1, CallAtWork DEF InOp, Gate, GateTypes
<1>3. /\ UNCHANGED <<disk, logdata, dhead, cache, dirty, lh, buf, over>>
      /\ outstanding' = outstanding - 1 /\ tail' = 0 /\ wrote' = [wrote EXCEPT ![o] = {}]
  BY DEF EndOp, diskVars
<1>4. \/ /\ outstanding' = 0 /\ pc' = [pc EXCEPT ![o] = "commit"] /\ committing' = 1
         /\ phase' = IF lh # <<>> THEN "write_log" ELSE "end"
      \/ /\ outstanding' # 0 /\ pc' = Woken([pc EXCEPT ![o] = "idle"]) /\ UNCHANGED <<committing, phase>>
  BY <1>2 DEF EndOp
<1>5. TypeOK'
  <2>1. wrote' \in [Op -> SUBSET Block] BY <1>3 DEF Body, TypeOK
  <2>2. tail' \in 0..LOGSIZE BY <1>3, SizeAssumption
  <2>3. phase' \in Phase BY <1>2, <1>4 DEF Phase
  <2> QED BY <1>3, <2>1, <2>2, <2>3 DEF Body, TypeOK, Gate, GateTypes
<1>6. /\ pc'[o] \in {"commit", "idle"}
      /\ \A q \in Op \ {o} : pc'[q] = pc[q] \/ (pc[q] = "asleep" /\ pc'[q] = "begin")
  BY <1>4 DEF Body, TypeOK, Woken
<1>7. SpaceEnough' BY <1>3, <1>6, SpaceSame DEF Body
<1>8. Pinned'
  <2>1. \A q \in Op : buf'[q] # None <=> pc'[q] \in {"check", "append", "panic"}
    BY <1>1, <1>3, <1>6 DEF Body, Pinned
  <2>2. ~Recovering' BY <1>2, <1>4 DEF Recovering
  <2> QED BY <1>3, <2>1, <2>2 DEF Body, Pinned, Logged
<1>9. Journal'
  BY <1>2, <1>3, <1>4 DEF Body, Journal, Distinct, Logged, Fits
<1>10. Claimed' = Claimed BY <1>3 DEF Claimed, Logged
<1>11. wrote'[o] = {} /\ \A q \in Op \ {o} : wrote'[q] = wrote[q]
  BY <1>3 DEF Body, TypeOK
<1>12. Accounts'
  <2> SUFFICES ASSUME NEW q \in Op
               PROVE  /\ (IsFiniteSet(wrote[q]) /\ (~over => Cardinality(wrote[q]) < MAXOPBLOCKS))'
                      /\ (wrote[q] \subseteq Claimed /\ (buf[q] # None => buf[q] \in wrote[q]))'
                      /\ (pc[q] \notin InOp => wrote[q] = {})'
    BY DEF Accounts
  <2>1. CASE q # o BY <1>3, <1>6, <1>10, <1>11, <2>1 DEF Body, Reserve, Accounts, InOp
  <2>2. CASE q = o
    <3>1. buf'[o] = None BY <1>1, <1>3 DEF Body, Pinned
    <3>2. IsFiniteSet({}) /\ Cardinality({}) = 0 BY FS_EmptySet
    <3>3. 0 < MAXOPBLOCKS BY SizeAssumption
    <3>4. IsFiniteSet(wrote'[o]) /\ Cardinality(wrote'[o]) = 0 BY <1>11, <3>2
    <3> QED BY <1>11, <2>2, <3>1, <3>3, <3>4
  <2> QED BY <2>1, <2>2
<1> SUFFICES ASSUME ~over PROVE Budget'
  BY <1>3, <1>5, <1>7, <1>8, <1>9, <1>12 DEF Body, Reserve
<1>13. /\ Cardinality(Changes') \in Nat /\ Cardinality(Changes) \in Nat
       /\ Cardinality(Changes) < Cardinality(Changes') + MAXOPBLOCKS
  <2> DEFINE mine == {o} \X wrote[o]
  <2>1. Changes' = Changes \ mine /\ mine = Changes \cap mine
    <3>1. \A x \in Op \X Block : x \in mine <=> x[1] = o /\ x[2] \in wrote[o]
      OBVIOUS
    <3>2. \A x \in Op \X Block : x[2] \in wrote'[x[1]] <=> (x[2] \in wrote[x[1]] /\ x[1] # o)
      BY <1>11
    <3>3. mine \subseteq Op \X Block BY DEF Body, TypeOK
    <3> QED BY <3>1, <3>2, <3>3 DEF Changes
  <2>2. /\ IsFiniteSet(wrote[o]) /\ Cardinality(wrote[o]) < MAXOPBLOCKS /\ Cardinality(wrote[o]) \in Nat
    BY FS_CardinalityType DEF Body, Reserve, Accounts
  <2>3. IsFiniteSet(mine) /\ Cardinality(mine) = Cardinality(wrote[o])
    <3>1. IsFiniteSet({o}) /\ Cardinality({o}) = 1 BY FS_Singleton
    <3>2. IsFiniteSet(mine) /\ Cardinality(mine) = Cardinality({o}) * Cardinality(wrote[o])
      BY <2>2, <3>1, FS_Product
    <3> QED BY <2>2, <3>1, <3>2
  <2>4. IsFiniteSet(Changes) /\ Cardinality(Changes) \in Nat BY ChangesFinite DEF Body
  <2> HIDE DEF mine
  <2>5. /\ IsFiniteSet(Changes \ mine)
        /\ Cardinality(Changes \ mine) = Cardinality(Changes) - Cardinality(Changes \cap mine)
    BY <2>4, FS_Difference
  <2>6. /\ Cardinality(Changes') = Cardinality(Changes) - Cardinality(wrote[o])
        /\ Cardinality(Changes') \in Nat
    BY <2>1, <2>3, <2>5, FS_CardinalityType
  <2> QED BY <2>2, <2>4, <2>6, SizeAssumption
<1>14. Budget'
  <2> DEFINE n == outstanding
             m == outstanding * MAXOPBLOCKS
             k == outstanding' * MAXOPBLOCKS
  <2>1. m \in Nat /\ k = m - MAXOPBLOCKS /\ MAXOPBLOCKS \in Nat /\ LOGSIZE \in Nat
        /\ (outstanding' = 1 => k = MAXOPBLOCKS)
    BY <1>2, <1>3, SizeAssumption
  <2>2. Cardinality(Claimed) + m <= LOGSIZE + Cardinality(Changes) /\ Cardinality(Claimed) \in Nat
    BY ClaimedFinite DEF Body, Reserve, Budget
  <2> HIDE DEF m, k
  <2>3. Cardinality(Claimed) + k < LOGSIZE + Cardinality(Changes')
    BY <1>13, <2>1, <2>2
  <2>4. k \in Int BY <2>1
  <2>5. Cardinality(Claimed') + k <= LOGSIZE + Cardinality(Changes')
    BY <1>10, <1>13, <2>1, <2>2, <2>3, <2>4
  <2>6. outstanding' = 1 => Cardinality(Claimed') + MAXOPBLOCKS < LOGSIZE + Cardinality(Changes')
    BY <1>10, <2>1, <2>3
  <2> QED BY <2>5, <2>6 DEF Budget, k
<1> QED BY <1>14

LEMMA PinnedSame ==
    ASSUME Pinned, UNCHANGED <<disk, cache, dirty, lh, buf>>, Recovering' => dirty' = {},
           \A o \in Op : buf'[o] # None <=> pc'[o] \in {"check", "append", "panic"}
    PROVE  Pinned'
<1>1. Logged(lh)' = Logged(lh) BY DEF Logged
<1>2. \A b \in Block : /\ cache'[b] # None => cache'[b] = disk'[b] \/ b \in dirty' \/ \E o \in Op : buf'[o] = b
                       /\ b \in dirty' \/ (\E o \in Op : buf'[o] = b) => cache'[b] # None
  BY DEF Pinned
<1> QED BY <1>1, <1>2 DEF Pinned

LEMMA EndCommitBody ==
    ASSUME Gate, Gate', Body, NEW o \in Op, EndCommit(o)
    PROVE  Body'
<1>1. /\ UNCHANGED <<disk, logdata, dhead, cache, dirty, lh, outstanding, tail, buf, wrote>>
      /\ phase = "end" /\ phase' = "run" /\ pc[o] = "commit" /\ committing' = 0
      /\ pc' = Woken([pc EXCEPT ![o] = "idle"]) /\ over' = FALSE
  BY DEF EndCommit, diskVars
<1>2. outstanding = 0 BY <1>1, DiskAtWork
<1>3. \A q \in Op : buf[q] = None /\ wrote[q] = {} BY <1>2, Quiet
<1>4. TypeOK' BY <1>1 DEF Body, TypeOK, Phase, Gate, GateTypes
<1>5. \A q \in Op : pc'[q] \in {"idle", "begin", pc[q]} /\ (pc'[q] = pc[q] \/ pc'[q] \in {"idle", "begin"})
  BY <1>1 DEF Body, TypeOK, Woken
<1>6. Fits(lh) /\ SpaceEnough'
  <2>1. Fits(lh) BY <1>1 DEF Body, Journal
  <2>2. \A q \in Op : pc'[q] # "panic" BY <1>2, <1>5, Quiet DEF InOp
  <2> QED BY <1>1, <2>1, <2>2 DEF SpaceEnough, Panicked, Fits
<1>7. Pinned'
  <2>1. \A q \in Op : buf'[q] # None <=> pc'[q] \in {"check", "append", "panic"}
    BY <1>1, <1>3, <1>5 DEF Body, Pinned
  <2>2. ~Recovering' BY <1>1 DEF Recovering
  <2> QED BY <1>1, <2>1, <2>2, PinnedSame DEF Body
<1>9. Reserve'
  <2>1. (TypeOK /\ Fits(lh) /\ Unused)' BY <1>1, <1>2, <1>3, <1>4, <1>6 DEF Fits, Unused
  <2> QED BY <2>1, ReserveIdle, PTL
<1>10. Journal' BY <1>1, EmptySeq DEF Body, Journal, Distinct, Logged, Fits
<1> QED BY <1>4, <1>6, <1>7, <1>9, <1>10 DEF Body

-----------------------------------------------------------------------------
(* commit() and recovery: the disk procedures, one block at a time. *)

(* What no disk procedure touches, and what follows for the reservation. *)
LEMMA DiskFrame ==
    ASSUME Gate, Gate', Body, phase # "run", UNCHANGED <<outstanding, pc, buf, wrote, over>>,
           TypeOK', Fits(lh)'
    PROVE  /\ \A o \in Op : buf[o] = None
           /\ SpaceEnough' /\ Reserve'
           /\ \A o \in Op : buf'[o] # None <=> pc'[o] \in {"check", "append", "panic"}
<1>1. outstanding = 0 BY DiskAtWork
<1>2. \A o \in Op : buf[o] = None /\ wrote[o] = {} BY <1>1, Quiet
<1>3. (TypeOK /\ Fits(lh) /\ Unused)' BY <1>1, <1>2 DEF Unused
<1>4. Reserve' BY <1>3, ReserveIdle, PTL
<1>5. SpaceEnough'
  <2>1. \A o \in Op : pc'[o] # "panic" BY <1>1, Quiet DEF InOp
  <2> QED BY <2>1 DEF SpaceEnough, Panicked
<1> QED BY <1>2, <1>4, <1>5 DEF Body, Pinned

(* The entries of a header are blocks. *)
LEMMA Entries ==
    ASSUME TypeOK, NEW i \in 1..Len(lh)
    PROVE  lh[i] \in Block /\ lh[i] \in Logged(lh) /\ Len(lh) \in Nat /\ i \in Nat
BY ElementOfSeq, LenProperties DEF TypeOK, Logged

LEMMA WriteLogBody ==
    ASSUME Gate, Gate', Body, WriteLog
    PROVE  Body'
<1>1. /\ UNCHANGED <<disk, dhead, dirty, lh, outstanding, committing, pc, buf, wrote, over>>
      /\ phase = "write_log"
  BY DEF WriteLog, logVars, opVars
<1>2. Logged(lh) \subseteq dirty /\ dhead = <<>> /\ tail <= Len(lh) /\ Fits(lh)
      /\ \A i \in 1..tail : logdata[i] = cache[lh[i]]
  BY <1>1 DEF Body, Journal
<1>3. committing = 1 BY <1>1 DEF Gate, OneAtWork, GateTypes
<1>4. lh \in Seq(Block) /\ Len(lh) \in Nat /\ tail \in Nat /\ LOGSIZE \in Nat
  BY LenProperties, SizeAssumption DEF Body, TypeOK
<1>5. CASE tail < Len(lh)
  <2> DEFINE x == lh[tail + 1]
  <2>1. x \in Block /\ x \in Logged(lh) BY <1>4, <1>5, Entries DEF Body
  <2>2. cache[x] # None /\ Content(x) = cache[x]
    BY <1>2, <2>1 DEF Body, Pinned, Content
  <2>3. /\ logdata' = [logdata EXCEPT ![tail + 1] = cache[x]]
        /\ cache' = [cache EXCEPT ![x] = cache[x]]
        /\ tail' = tail + 1 /\ phase' = phase
    BY <1>5, <2>2 DEF WriteLog
  <2> HIDE DEF x
  <2>4. cache' = cache BY <2>1, <2>3 DEF Body, TypeOK
  <2>5. tail + 1 \in 1..LOGSIZE /\ cache[x] \in Val
    BY <1>2, <1>4, <1>5, <2>1, <2>2 DEF Body, TypeOK, Fits
  <2>6. TypeOK'
    <3>1. tail' \in 0..LOGSIZE BY <1>4, <2>3, <2>5
    <3>2. logdata' \in [1..LOGSIZE -> Val] BY <2>3, <2>5 DEF Body, TypeOK
    <3> QED BY <1>1, <2>3, <2>4, <3>1, <3>2 DEF Body, TypeOK, Gate, GateTypes
  <2>7. \A i \in 1..tail' : logdata'[i] = cache'[lh'[i]]
    <3> TAKE i \in 1..tail'
    <3>1. CASE i = tail + 1 BY <1>1, <2>3, <2>4, <2>5, <3>1 DEF Body, TypeOK, x
    <3>2. CASE i # tail + 1
      <4>1. i \in 1..tail /\ logdata'[i] = logdata[i]
        BY <1>4, <2>3, <2>5, <3>2 DEF Body, TypeOK
      <4> QED BY <1>1, <1>2, <2>4, <4>1
    <3> QED BY <3>1, <3>2
  <2>8. Journal'
    <3>1. tail' <= Len(lh') BY <1>1, <1>4, <1>5, <2>3
    <3> QED BY <1>1, <1>2, <2>3, <2>7, <3>1 DEF Body, Journal, Distinct, Logged
  <2>9. Pinned'
    BY <1>1, <1>3, <2>4 DEF Body, Pinned, Recovering, Logged
  <2> QED BY <1>1, <1>2, <2>6, <2>8, <2>9, DiskFrame DEF Body
<1>6. CASE ~(tail < Len(lh))
  <2>1. UNCHANGED <<logdata, cache, tail>> /\ phase' = "write_head"
    BY <1>6 DEF WriteLog
  <2>2. tail = Len(lh) BY <1>2, <1>4, <1>6
  <2>3. TypeOK' BY <1>1, <2>1 DEF Body, TypeOK, Phase, Gate, GateTypes
  <2>4. Journal' BY <1>1, <1>2, <2>1, <2>2 DEF Body, Journal, Distinct, Logged
  <2>5. Pinned'
    BY <1>1, <1>3, <2>1 DEF Body, Pinned, Recovering, Logged
  <2> QED BY <1>1, <1>2, <2>3, <2>4, <2>5, DiskFrame DEF Body
<1> QED BY <1>5, <1>6

LEMMA WriteHeadBody ==
    ASSUME Gate, Gate', Body, WriteHead
    PROVE  Body'
<1>1. /\ UNCHANGED <<disk, logdata, cache, dirty, lh, outstanding, committing, pc, buf, wrote, over>>
      /\ phase = "write_head" /\ phase' = "install" /\ dhead' = lh /\ tail' = 0
  BY DEF WriteHead, logVars, opVars
<1>2. committing = 1 BY <1>1 DEF Gate, OneAtWork, GateTypes
<1>3. lh \in Seq(Block) /\ Len(lh) \in Nat /\ LOGSIZE \in Nat
  BY LenProperties, SizeAssumption DEF Body, TypeOK
<1>4. TypeOK' BY <1>1, <1>3 DEF Body, TypeOK, Phase, Gate, GateTypes
<1>5. Distinct(lh) /\ Fits(lh) /\ Logged(lh) \subseteq dirty
      /\ \A i \in 1..Len(lh) : logdata[i] = cache[lh[i]]
  BY <1>1 DEF Body, Journal
<1>6. \A i \in 1..Len(lh) : lh[i] \in dirty BY <1>5 DEF Logged
<1>7. Journal'
  <2>1. Distinct(lh)' /\ Distinct(dhead)' BY <1>1, <1>5 DEF Distinct
  <2>2. 1..tail' = {} /\ tail' <= Len(lh') /\ (tail' + 1)..Len(lh') = 1..Len(lh) BY <1>1, <1>3
  <2> QED BY <1>1, <1>5, <1>6, <2>1, <2>2 DEF Journal
<1>8. Pinned'
  BY <1>1, <1>2 DEF Body, Pinned, Recovering, Logged
<1> QED BY <1>1, <1>4, <1>5, <1>7, <1>8, DiskFrame DEF Body

(* install_trans() for one block: the others keep their state because the   *)
(* header names every block once.                                           *)
LEMMA InstallBlockBody ==
    ASSUME Gate, Gate', Body, InstallTrans, tail < Len(lh)
    PROVE  Body'
<1> DEFINE x == lh[tail + 1]
           w == logdata[tail + 1]
<1>1. /\ UNCHANGED <<logdata, dhead, lh, phase, outstanding, committing, pc, buf, wrote, over>>
      /\ phase = "install" /\ tail' = tail + 1
      /\ disk' = [disk EXCEPT ![x] = w] /\ cache' = [cache EXCEPT ![x] = w] /\ dirty' = dirty \ {x}
  BY DEF InstallTrans, opVars
<1>2. lh \in Seq(Block) /\ Len(lh) \in Nat /\ tail \in Nat /\ LOGSIZE \in Nat
  BY LenProperties, SizeAssumption DEF Body, TypeOK
<1>3. /\ lh = dhead /\ Distinct(lh) /\ Fits(lh)
      /\ \A i \in 1..tail : disk[lh[i]] = logdata[i] /\ lh[i] \notin dirty
      /\ committing = 1 => \A i \in (tail + 1)..Len(lh) : lh[i] \in dirty /\ cache[lh[i]] = logdata[i]
  BY <1>1 DEF Body, Journal
<1>4. x \in Block /\ w \in Val /\ w # None /\ tail + 1 \in 1..Len(lh)
  <2>1. tail + 1 \in 1..Len(lh) /\ tail + 1 \in 1..LOGSIZE BY <1>2, <1>3 DEF Fits
  <2> QED BY <2>1, Entries, NoneAssumption DEF Body, TypeOK
<1>5. \A i \in 1..Len(lh) : /\ lh[i] \in Block
                            /\ i # tail + 1 => lh[i] # x
  BY <1>3, <1>4, Entries DEF Body, Distinct
<1> HIDE DEF x, w
<1>6. /\ disk'[x] = w /\ cache'[x] = w
      /\ \A b \in Block \ {x} : disk'[b] = disk[b] /\ cache'[b] = cache[b]
  BY <1>1, <1>4 DEF Body, TypeOK
<1>7. TypeOK'
  <2>1. tail' \in 0..LOGSIZE BY <1>1, <1>2, <1>3 DEF Fits
  <2>2. disk' \in [Block -> Val] /\ cache' \in [Block -> Val \cup {None}] /\ dirty' \subseteq Block
    BY <1>1, <1>4 DEF Body, TypeOK
  <2> QED BY <1>1, <2>1, <2>2 DEF Body, TypeOK, Gate, GateTypes
<1>8. \A i \in 1..tail' : disk'[lh[i]] = logdata[i] /\ lh[i] \notin dirty'
  <2> TAKE i \in 1..tail'
  <2>1. CASE i = tail + 1 BY <1>1, <1>6, <2>1 DEF x, w
  <2>2. CASE i # tail + 1
    <3>1. i \in 1..tail /\ i \in 1..Len(lh) BY <1>1, <1>2, <2>2
    <3>2. lh[i] # x /\ lh[i] \in Block BY <1>5, <2>2, <3>1
    <3> QED BY <1>1, <1>3, <1>6, <3>1, <3>2
  <2> QED BY <2>1, <2>2
<1>9. committing = 1 => \A i \in (tail' + 1)..Len(lh) : lh[i] \in dirty' /\ cache'[lh[i]] = logdata[i]
  <2> SUFFICES ASSUME committing = 1, NEW i \in (tail' + 1)..Len(lh)
               PROVE  lh[i] \in dirty' /\ cache'[lh[i]] = logdata[i]
    OBVIOUS
  <2>1. i \in (tail + 1)..Len(lh) /\ i \in 1..Len(lh) /\ i # tail + 1 BY <1>1, <1>2
  <2>2. lh[i] # x /\ lh[i] \in Block BY <1>5, <2>1
  <2> QED BY <1>1, <1>3, <1>6, <2>1, <2>2
<1>10. Journal'
  <2>1. tail' <= Len(lh') BY <1>1, <1>2
  <2>2. Distinct(lh)' /\ Distinct(dhead)' BY <1>1, <1>3 DEF Distinct
  <2> QED BY <1>1, <1>3, <1>8, <1>9, <2>1, <2>2 DEF Journal
<1>11. /\ \A o \in Op : buf[o] = None
       /\ SpaceEnough' /\ Reserve'
       /\ \A o \in Op : buf'[o] # None <=> pc'[o] \in {"check", "append", "panic"}
  BY <1>1, <1>3, <1>7, DiskFrame
<1>12. Pinned'
  <2>1. (dirty \subseteq Logged(lh))' BY <1>1 DEF Body, Pinned, Logged
  <2>2. ASSUME NEW b \in Block
        PROVE  /\ cache'[b] # None => cache'[b] = disk'[b] \/ b \in dirty' \/ \E o \in Op : buf'[o] = b
               /\ b \in dirty' \/ (\E o \in Op : buf'[o] = b) => cache'[b] # None
    <3>1. CASE b = x BY <1>4, <1>6, <3>1
    <3>2. CASE b # x BY <1>1, <1>6, <3>2 DEF Body, Pinned
    <3> QED BY <3>1, <3>2
  <2>3. Recovering' => dirty' = {} BY <1>1 DEF Body, Pinned, Recovering
  <2> QED BY <1>11, <2>1, <2>2, <2>3 DEF Pinned
<1> QED BY <1>7, <1>10, <1>11, <1>12 DEF Body

(* The end of install_trans(): every block is home and no buffer is dirty. *)
LEMMA InstallDoneBody ==
    ASSUME Gate, Gate', Body, InstallTrans, ~(tail < Len(lh))
    PROVE  Body'
<1>1. /\ UNCHANGED <<disk, logdata, dhead, cache, dirty, outstanding, committing, pc, buf, wrote, over>>
      /\ phase = "install" /\ phase' = "clear" /\ lh' = <<>> /\ tail' = 0
  BY DEF InstallTrans, opVars
<1>2. lh \in Seq(Block) /\ Len(lh) \in Nat /\ tail \in Nat /\ LOGSIZE \in Nat /\ LOGSIZE > 0
  BY LenProperties, SizeAssumption DEF Body, TypeOK
<1>3. /\ lh = dhead /\ tail = Len(lh)
      /\ \A i \in 1..tail : disk[lh[i]] = logdata[i] /\ lh[i] \notin dirty
  BY <1>1, <1>2 DEF Body, Journal
<1>4. dirty = {}
  BY <1>3 DEF Body, Pinned, Logged
<1>5. Len(lh') = 0 /\ lh' \in Seq(Block) /\ Fits(lh)' BY <1>1, EmptySeq, SizeAssumption DEF Fits
<1>6. TypeOK'
  <2>1. tail' \in 0..LOGSIZE BY <1>1, <1>2
  <2> QED BY <1>1, <1>5, <2>1 DEF Body, TypeOK, Phase, Gate, GateTypes
<1>7. Journal'
  <2>1. Distinct(lh)' BY <1>5 DEF Distinct
  <2>2. Distinct(dhead)' /\ Fits(dhead)' BY <1>1 DEF Body, Journal, Distinct, Fits
  <2> QED BY <1>1, <1>2, <1>3, <1>5, <2>1, <2>2 DEF Journal
<1>8. /\ \A o \in Op : buf[o] = None
      /\ SpaceEnough' /\ Reserve'
      /\ \A o \in Op : buf'[o] # None <=> pc'[o] \in {"check", "append", "panic"}
  BY <1>1, <1>2, <1>5, <1>6, DiskFrame
<1>9. Pinned'
  <2>1. \A b \in Block : /\ cache'[b] # None => cache'[b] = disk'[b] \/ b \in dirty' \/ \E o \in Op : buf'[o] = b
                         /\ b \in dirty' \/ (\E o \in Op : buf'[o] = b) => cache'[b] # None
    BY <1>1 DEF Body, Pinned
  <2> QED BY <1>1, <1>4, <1>8, <2>1 DEF Pinned
<1> QED BY <1>6, <1>7, <1>8, <1>9 DEF Body

LEMMA ClearHeadBody ==
    ASSUME Gate, Gate', Body, ClearHead
    PROVE  Body'
<1>1. /\ UNCHANGED <<disk, logdata, cache, dirty, lh, outstanding, committing, tail, pc, buf, wrote, over>>
      /\ phase = "clear" /\ dhead' = lh
      /\ phase' = IF committing = 1 THEN "end" ELSE "run"
  BY DEF ClearHead, logVars, opVars
<1>2. lh = <<>> /\ Distinct(lh) /\ Fits(lh) BY <1>1 DEF Body, Journal
<1>3. TypeOK' BY <1>1 DEF Body, TypeOK, Phase, Gate, GateTypes
<1>4. Journal'
  <2>1. Distinct(lh)' /\ Distinct(dhead)' BY <1>1, <1>2 DEF Distinct
  <2>2. Logged(lh)' = {} BY <1>1, <1>2 DEF Logged
  <2> QED BY <1>1, <1>2, <2>1, <2>2 DEF Journal
<1>5. /\ SpaceEnough' /\ Reserve'
      /\ \A o \in Op : buf'[o] # None <=> pc'[o] \in {"check", "append", "panic"}
  BY <1>1, <1>2, <1>3, DiskFrame
<1>6. Pinned'
  <2>1. ~Recovering' BY <1>1 DEF Recovering
  <2> QED BY <1>1, <1>5, <2>1, PinnedSame DEF Body
<1> QED BY <1>3, <1>4, <1>5, <1>6 DEF Body

LEMMA ReadHeadBody ==
    ASSUME Gate, Gate', Body, ReadHead
    PROVE  Body'
<1>1. /\ UNCHANGED <<disk, logdata, dhead, cache, dirty, outstanding, committing, pc, buf, wrote, over>>
      /\ phase = "read_head" /\ phase' = "install" /\ lh' = dhead /\ tail' = 0
  BY DEF ReadHead, diskVars, opVars
<1>2. committing = 0 /\ Recovering BY <1>1 DEF Gate, OneAtWork, GateTypes, Recovering
<1>3. dirty = {} BY <1>2 DEF Body, Pinned
<1>4. dhead \in Seq(Block) /\ Len(dhead) \in Nat /\ LOGSIZE \in Nat
  BY LenProperties, SizeAssumption DEF Body, TypeOK
<1>5. Distinct(dhead) /\ Fits(dhead) BY DEF Body, Journal
<1>6. TypeOK'
  <2>1. tail' \in 0..LOGSIZE BY <1>1, <1>4
  <2> QED BY <1>1, <1>4, <2>1 DEF Body, TypeOK, Phase, Gate, GateTypes
<1>7. Journal'
  <2>1. Distinct(lh)' /\ Distinct(dhead)' BY <1>1, <1>5 DEF Distinct
  <2>2. tail' <= Len(lh') /\ 1..tail' = {} BY <1>1, <1>4
  <2> QED BY <1>1, <1>2, <1>5, <2>1, <2>2 DEF Journal
<1>8. /\ \A o \in Op : buf[o] = None
      /\ SpaceEnough' /\ Reserve'
      /\ \A o \in Op : buf'[o] # None <=> pc'[o] \in {"check", "append", "panic"}
  BY <1>1, <1>5, <1>6, DiskFrame
<1>9. Pinned'
  <2>1. \A b \in Block : /\ cache'[b] # None => cache'[b] = disk'[b] \/ b \in dirty' \/ \E o \in Op : buf'[o] = b
                         /\ b \in dirty' \/ (\E o \in Op : buf'[o] = b) => cache'[b] # None
    BY <1>1 DEF Body, Pinned
  <2> QED BY <1>1, <1>3, <1>8, <2>1 DEF Pinned
<1> QED BY <1>6, <1>7, <1>8, <1>9 DEF Body

(* bget() takes a clean buffer: the log pins the blocks of the transaction. *)
LEMMA EvictBody ==
    ASSUME Gate, Gate', Body, NEW b \in Block, Evict(b)
    PROVE  Body'
<1>1. /\ UNCHANGED <<disk, logdata, dhead, dirty, lh, outstanding, committing, phase, tail, pc, buf, wrote, over>>
      /\ b \notin dirty /\ (\A o \in Op : buf[o] # b) /\ cache' = [cache EXCEPT ![b] = None]
  BY DEF Evict, diskVars, logVars, opVars
<1>2. cache'[b] = None /\ \A c \in Block \ {b} : cache'[c] = cache[c]
  BY <1>1 DEF Body, TypeOK
<1>3. TypeOK' BY <1>1 DEF Body, TypeOK, Gate, GateTypes
<1>4. Claimed' = Claimed BY <1>1 DEF Claimed, Logged
<1>5. SpaceEnough' /\ Reserve' BY <1>1, <1>4, SpaceSame, ReserveSame DEF Body, Reserve, Accounts
<1>6. Pinned'
  <2>1. (dirty \subseteq Logged(lh))' BY <1>1 DEF Body, Pinned, Logged
  <2>2. ASSUME NEW c \in Block
        PROVE  /\ cache'[c] # None => cache'[c] = disk'[c] \/ c \in dirty' \/ \E o \in Op : buf'[o] = c
               /\ c \in dirty' \/ (\E o \in Op : buf'[o] = c) => cache'[c] # None
    <3>1. CASE c = b BY <1>1, <1>2, <3>1
    <3>2. CASE c # b BY <1>1, <1>2, <3>2 DEF Body, Pinned
    <3> QED BY <3>1, <3>2
  <2>3. (Recovering => dirty = {})' BY <1>1 DEF Body, Pinned, Recovering
  <2>4. \A o \in Op : buf'[o] # None <=> pc'[o] \in {"check", "append", "panic"} BY <1>1 DEF Body, Pinned
  <2> QED BY <2>1, <2>2, <2>3, <2>4 DEF Pinned
<1>7. \A i \in 1..Len(lh) : lh[i] \in dirty => cache'[lh[i]] = cache[lh[i]]
  BY <1>1, <1>2 DEF Body, TypeOK
<1>8. Journal'
  <2>1. lh \in Seq(Block) /\ Len(lh) \in Nat /\ tail \in Nat BY LenProperties DEF Body, TypeOK
  <2>2. Distinct(lh)' /\ Distinct(dhead)' /\ Logged(lh)' = Logged(lh)
    BY <1>1 DEF Body, Journal, Distinct, Logged
  <2>3. phase \in {"write_log", "write_head"} => \A i \in 1..Len(lh) : lh[i] \in dirty
    BY DEF Body, Journal, Logged
  <2>4. phase = "write_log" => tail <= Len(lh) /\ \A i \in 1..tail : logdata[i] = cache'[lh[i]]
    BY <1>7, <2>1, <2>3 DEF Body, Journal
  <2>5. phase = "write_head" => \A i \in 1..Len(lh) : logdata[i] = cache'[lh[i]]
    BY <1>7, <2>3 DEF Body, Journal
  <2>6. phase = "install" /\ committing = 1
        => \A i \in (tail + 1)..Len(lh) : lh[i] \in dirty /\ cache'[lh[i]] = logdata[i]
    BY <1>7, <2>1 DEF Body, Journal
  <2> QED BY <1>1, <2>2, <2>4, <2>5, <2>6 DEF Body, Journal
<1> QED BY <1>3, <1>5, <1>6, <1>8 DEF Body

LEMMA CrashBody ==
    ASSUME Gate', Body, Crash
    PROVE  Body'
<1>1. /\ UNCHANGED <<disk, logdata, dhead>>
      /\ cache' = [b \in Block |-> None] /\ dirty' = {} /\ lh' = <<>> /\ outstanding' = 0
      /\ committing' = 0 /\ phase' = "read_head" /\ tail' = 0
      /\ pc' = [o \in Op |-> "idle"] /\ buf' = [o \in Op |-> None] /\ wrote' = [o \in Op |-> {}]
      /\ over' = FALSE
  BY DEF Crash, diskVars
<1>2. Len(lh') = 0 /\ lh' \in Seq(Block) /\ LOGSIZE \in Nat /\ LOGSIZE > 0 /\ Fits(lh)'
  BY <1>1, EmptySeq, SizeAssumption DEF Fits
<1>3. TypeOK'
  <2>1. tail' \in 0..LOGSIZE BY <1>1, <1>2
  <2> QED BY <1>1, <1>2, <2>1 DEF Body, TypeOK, Phase, Label
<1>4. SpaceEnough' BY <1>1, <1>2 DEF SpaceEnough, Panicked
<1>5. Reserve'
  <2>1. (TypeOK /\ Fits(lh) /\ Unused)' BY <1>1, <1>2, <1>3 DEF Unused
  <2> QED BY <2>1, ReserveIdle, PTL
<1>6. Pinned' BY <1>1, NoneAssumption DEF Pinned
<1>7. Journal'
  <2>1. Distinct(lh)' BY <1>2 DEF Distinct
  <2>2. Distinct(dhead)' /\ Fits(dhead)' BY <1>1 DEF Body, Journal, Distinct, Fits
  <2> QED BY <1>1, <1>2, <2>1, <2>2 DEF Journal
<1> QED BY <1>3, <1>4, <1>5, <1>6, <1>7 DEF Body

LEMMA InitBody == Init => Body
<1> SUFFICES ASSUME Init PROVE Body OBVIOUS
<1>1. Len(<<>>) = 0 /\ <<>> \in Seq(Block) /\ LOGSIZE \in Nat /\ LOGSIZE > 0 /\ Fits(<<>>)
  BY EmptySeq, SizeAssumption DEF Fits
<1>2. TypeOK
  <2>1. tail \in 0..LOGSIZE BY <1>1 DEF Init
  <2> QED BY <1>1, <2>1, NoneAssumption DEF Init, TypeOK, Phase, Label
<1>3. Reserve BY <1>1, <1>2, ReserveIdle DEF Init, Unused
<1>4. Pinned BY NoneAssumption DEF Init, Pinned
<1>5. Journal BY <1>1 DEF Init, Journal, Distinct
<1> QED BY <1>1, <1>2, <1>3, <1>4, <1>5 DEF Body, SpaceEnough, Panicked, Init

LEMMA NextBody ==
    ASSUME Gate, Gate', Body, [Next]_vars
    PROVE  Body'
<1>1. CASE DiskStep
  BY <1>1, WriteLogBody, WriteHeadBody, InstallBlockBody, InstallDoneBody, ClearHeadBody, ReadHeadBody DEF DiskStep
<1>2. ASSUME NEW o \in Op, Fits(lh), OpStep(o) \/ EndOp(o) \/ Kill(o)
      PROVE  Body'
  BY <1>2, BeginBody, LogCheckBody, LogAppendBody, EndCommitBody, EndOpBody, KillBody DEF OpStep
<1>3. CASE UNCHANGED vars
  <2>1. UNCHANGED <<disk, logdata, dhead, cache, dirty, lh, outstanding, committing, phase, tail, pc, buf, wrote, over>>
    BY <1>3 DEF vars, diskVars, logVars, opVars
  <2>2. TypeOK' /\ SpaceEnough' BY <2>1, SpaceSame DEF Body, TypeOK
  <2>3. Claimed' = Claimed BY <2>1 DEF Claimed, Logged
  <2>4. Reserve' BY <2>1, <2>3, ReserveSame DEF Body, Reserve, Accounts
  <2>5. Pinned' BY <2>1, PinnedSame DEF Body, Pinned, Recovering
  <2>6. Journal' BY <2>1 DEF Body, Journal, Distinct, Logged
  <2> QED BY <2>2, <2>4, <2>5, <2>6 DEF Body
<1> QED BY <1>1, <1>2, <1>3, ModifyBody, EvictBody, CrashBody DEF Next

(* log.c's bookkeeping holds for any number of calls, blocks and crashes    *)
(* and whatever a call writes: log, cache and home blocks agree, and a      *)
(* panic of log_write() or an overrun of the log means that some call of    *)
(* the transaction used up what begin_op() reserved for it.                 *)
THEOREM LogInvHolds == Spec => []LogInv
<1>1. Init => Body BY InitBody
<1>2. Gate /\ Gate' /\ Body /\ [Next]_vars => Body' BY NextBody
<1>3. Gate /\ Body => LogInv BY BodyInv
<1> QED BY <1>1, <1>2, <1>3, GateHolds, PTL DEF Spec

(* log_write() panics, and the transaction outgrows the log, only if a call *)
(* of it changed MAXOPBLOCKS blocks or more, as filewrite() may.            *)
THEOREM SpaceEnoughHolds == Spec => []SpaceEnough
<1>1. LogInv => SpaceEnough BY DEF LogInv
<1> QED BY <1>1, LogInvHolds, PTL

-----------------------------------------------------------------------------
(* Transactions are atomic.  current is what bread() gives, durable what a  *)
(* reboot would bring back.                                                 *)

Works == Gate /\ Body

(* Outside a transaction the cache agrees with the home blocks. *)
LEMMA CleanContent ==
    ASSUME Works, NEW b \in Block, b \notin dirty, \A o \in Op : buf[o] # b
    PROVE  Content(b) = disk[b]
BY DEF Works, Body, Pinned, Content

(* A reboot finds the log over the home blocks, or the home blocks alone. *)
LEMMA RecoveredLog ==
    ASSUME Works
    PROVE  /\ \A i \in 1..Len(dhead) : Recovered[dhead[i]] = logdata[i]
           /\ \A b \in Block : b \notin Logged(dhead) => Recovered[b] = disk[b]
<1>1. ASSUME NEW i \in 1..Len(dhead) PROVE Recovered[dhead[i]] = logdata[i]
  <2> DEFINE b == dhead[i]
             j == CHOOSE k \in 1..Len(dhead) : dhead[k] = b
  <2>1. b \in Block /\ b \in Logged(dhead)
    BY ElementOfSeq, LenProperties DEF Works, Body, TypeOK, Logged
  <2>2. j \in 1..Len(dhead) /\ dhead[j] = b OBVIOUS
  <2>3. j = i BY <2>2 DEF Works, Body, Journal, Distinct
  <2>4. Recovered[b] = logdata[j] BY <2>1 DEF Recovered
  <2> QED BY <2>3, <2>4
<1> QED BY <1>1 DEF Recovered

LEMMA SameRecovered ==
    ASSUME UNCHANGED <<disk, logdata, dhead>>
    PROVE  Recovered' = Recovered
BY DEF Recovered, Logged

LEMMA SameCurrent ==
    ASSUME UNCHANGED <<disk, logdata, dhead, cache>>, Recovering' <=> Recovering
    PROVE  Recovered' = Recovered /\ Current' = Current
<1>1. Recovered' = Recovered BY SameRecovered
<1> QED BY <1>1 DEF Current, Content

LEMMA InitAtomic ==
    ASSUME Init
    PROVE  Atomic!Init
<1>1. Active = {} BY DEF Init, Active, InOp
<1>2. Recovered = disk BY DEF Init, Recovered, Logged
<1>3. Current = Recovered BY DEF Init, Current, Recovering
<1>4. disk \in [Block -> Val] BY NoneAssumption DEF Init
<1> QED BY <1>1, <1>2, <1>3, <1>4 DEF Atomic!Init

(* A step of a call that changes neither blocks nor the log on disk. *)
LEMMA CallAtomic ==
    ASSUME Works, NEW o \in Op,
           BeginOp(o) \/ Kill(o) \/ LogCheck(o) \/ LogAppend(o) \/ EndCommit(o)
    PROVE  [Atomic!Next]_<<Current, Recovered, Active>>
<1>1. UNCHANGED <<disk, logdata, dhead, cache>>
  BY DEF BeginOp, Kill, LogCheck, LogAppend, EndCommit, diskVars
<1>2. Recovering' <=> Recovering
  <2>1. CASE EndCommit(o) BY <2>1 DEF EndCommit, Works, Gate, OneAtWork, Recovering
  <2>2. CASE ~EndCommit(o)
    BY <2>2 DEF BeginOp, Kill, LogCheck, LogAppend, logVars, Recovering
  <2> QED BY <2>1, <2>2
<1>3. Recovered' = Recovered /\ Current' = Current BY <1>1, <1>2, SameCurrent
<1>4. CASE BeginOp(o) /\ ~MustWait
  <2>1. phase = "run" /\ committing = 0 /\ pc[o] \in {"idle", "begin"} /\ pc' = [pc EXCEPT ![o] = "op"]
    BY <1>4 DEF BeginOp, MustWait, Booted, Works, Gate, GateTypes
  <2>2. o \notin Active /\ Active' = Active \cup {o}
    BY <2>1 DEF Active, InOp, Works, Body, TypeOK
  <2>3. Active # {} \/ Current = Recovered
    <3> SUFFICES ASSUME Active = {} PROVE Current = Recovered OBVIOUS
    <3>1. outstanding = 0 BY FS_EmptySet DEF Active, Works, Gate, CommitExcludesOps
    <3>2. lh = <<>> /\ dhead = <<>> BY <2>1, <3>1 DEF Works, Body, Journal
    <3>3. dirty = {} /\ Logged(dhead) = {}
      BY <3>2, EmptySeq DEF Works, Body, Pinned, Logged
    <3>4. \A b \in Block : Content(b) = disk[b]
      BY <3>1, <3>3, Quiet, CleanContent, NoneAssumption DEF Works
    <3>5. Recovered = [b \in Block |-> disk[b]] BY <3>3 DEF Recovered
    <3>6. Current = [b \in Block |-> Content(b)] BY <2>1 DEF Current, Recovering
    <3> QED BY <3>4, <3>5, <3>6
  <2>4. Atomic!Begin(o) BY <1>3, <2>2, <2>3 DEF Atomic!Begin
  <2> QED BY <2>4 DEF Atomic!Next
<1>5. CASE ~(BeginOp(o) /\ ~MustWait)
  <2>1. \A q \in Op : pc'[q] \in InOp <=> pc[q] \in InOp
    <3>1. CASE BeginOp(o) \/ Kill(o)
      BY <1>5, <3>1 DEF BeginOp, Kill, Goto, InOp, Works, Body, TypeOK
    <3>2. CASE LogCheck(o) \/ LogAppend(o)
      BY <3>2 DEF LogCheck, LogAppend, Goto, InOp, Works, Body, TypeOK
    <3>3. CASE EndCommit(o)
      BY <3>3 DEF EndCommit, Woken, InOp, Works, Body, TypeOK
    <3> QED BY <3>1, <3>2, <3>3
  <2>2. Active' = Active BY <2>1 DEF Active
  <2> QED BY <1>3, <2>2
<1> QED BY <1>4, <1>5

LEMMA ModifyAtomic ==
    ASSUME Works, NEW o \in Op, NEW b \in Block, NEW v \in Val, Modify(o, b, v)
    PROVE  Atomic!Next
<1>1. /\ UNCHANGED <<disk, logdata, dhead, committing, phase>> /\ cache' = [cache EXCEPT ![b] = v]
      /\ pc[o] = "op" /\ pc' = [pc EXCEPT ![o] = "check"]
  BY DEF Modify, Goto, diskVars, logVars
<1>2. phase = "run" BY <1>1, CallAtWork DEF InOp, Works
<1>3. Recovered' = Recovered BY <1>1, SameRecovered
<1>4. o \in Active /\ Active' = Active BY <1>1 DEF Active, InOp, Works, Body, TypeOK
<1>5. /\ Current = [c \in Block |-> Content(c)] /\ Current' = [c \in Block |-> Content(c)']
  BY <1>1, <1>2 DEF Current, Recovering
<1>6. Content(b)' = v /\ \A c \in Block \ {b} : Content(c)' = Content(c)
  BY <1>1, NoneAssumption DEF Content, Works, Body, TypeOK
<1>7. Current' = [Current EXCEPT ![b] = v] BY <1>5, <1>6
<1>8. Atomic!Write(o, b, v) BY <1>3, <1>4, <1>7 DEF Atomic!Write
<1> QED BY <1>8 DEF Atomic!Next

LEMMA EndOpAtomic ==
    ASSUME Works, NEW o \in Op, EndOp(o)
    PROVE  Atomic!Next
<1>1. pc[o] = "op" /\ UNCHANGED <<disk, logdata, dhead, cache>> BY DEF EndOp, diskVars
<1>2. phase = "run" /\ committing = 0 BY <1>1, CallAtWork DEF InOp, Works
<1>3. ~Recovering /\ ~Recovering' BY <1>2 DEF EndOp, Recovering
<1>4. Recovered' = Recovered /\ Current' = Current BY <1>1, <1>3, SameCurrent
<1>5. o \in Active /\ Active' = Active \ {o}
  BY <1>1, <1>2 DEF EndOp, Active, Woken, InOp, Works, Body, TypeOK
<1>6. Atomic!End(o) BY <1>4, <1>5 DEF Atomic!End
<1> QED BY <1>6 DEF Atomic!Next

(* Writing the header makes what the calls see durable, all at once. *)
LEMMA WriteHeadAtomic ==
    ASSUME Works, WriteHead
    PROVE  Atomic!Next
<1>1. /\ UNCHANGED <<disk, logdata, cache, committing, pc>>
      /\ phase = "write_head" /\ phase' = "install" /\ dhead' = lh
  BY DEF WriteHead, logVars, opVars
<1>2. committing = 1 /\ outstanding = 0
  BY <1>1, DiskAtWork DEF Works, Gate, OneAtWork, GateTypes
<1>3. /\ Current = [b \in Block |-> Content(b)] /\ Current' = [b \in Block |-> Content(b)']
  BY <1>1, <1>2 DEF Current, Recovering
<1>4. Current' = Current BY <1>1, <1>3 DEF Content
<1>5. Active = {} /\ Active' = Active BY <1>1, <1>2, Quiet DEF Active, Works
<1>6. ASSUME NEW b \in Block PROVE Recovered'[b] = Content(b)
  <2>1. CASE b \in Logged(lh)
    <3> DEFINE i == CHOOSE k \in 1..Len(lh) : lh[k] = b
    <3>1. i \in 1..Len(lh) /\ lh[i] = b BY <2>1 DEF Logged
    <3>2. Recovered'[b] = logdata[i] BY <1>1, <2>1 DEF Recovered, Logged
    <3>3. logdata[i] = cache[b] /\ b \in dirty
      BY <1>1, <2>1, <3>1 DEF Works, Body, Journal
    <3>4. cache[b] # None BY <3>3 DEF Works, Body, Pinned
    <3> QED BY <3>2, <3>3, <3>4 DEF Content
  <2>2. CASE b \notin Logged(lh)
    <3>1. Recovered'[b] = disk[b] BY <1>1, <2>2 DEF Recovered, Logged
    <3>2. b \notin dirty BY <2>2 DEF Works, Body, Pinned
    <3>3. \A o \in Op : buf[o] # b BY <1>2, Quiet, NoneAssumption DEF Works
    <3> QED BY <3>1, <3>2, <3>3, CleanContent
  <2> QED BY <2>1, <2>2
<1>7. Recovered' = Current
  <2>1. Recovered' = [b \in Block |-> Recovered'[b]] BY DEF Recovered
  <2> QED BY <1>3, <1>6, <2>1
<1>8. Atomic!Commit BY <1>4, <1>5, <1>7 DEF Atomic!Commit
<1> QED BY <1>8 DEF Atomic!Next

LEMMA WriteLogAtomic ==
    ASSUME Works, WriteLog
    PROVE  UNCHANGED <<Current, Recovered, Active>>
<1>1. UNCHANGED <<disk, dhead, committing, pc>> /\ phase = "write_log" /\ phase' # "run"
  BY DEF WriteLog, logVars, opVars
<1>2. dhead = <<>> /\ Logged(lh) \subseteq dirty /\ committing = 1
  BY <1>1 DEF Works, Body, Journal, Gate, GateTypes, OneAtWork
<1>3. \A b \in Block : b \notin Logged(dhead) /\ b \notin Logged(dhead') BY <1>1, <1>2 DEF Logged
<1>4. Recovered' = Recovered BY <1>1, <1>3 DEF Recovered, Logged
<1>5. cache' = cache
  <2>1. CASE tail < Len(lh)
    <3>1. tail + 1 \in 1..Len(lh) BY <2>1, LenProperties DEF Works, Body, TypeOK
    <3>2. lh[tail + 1] \in Block /\ lh[tail + 1] \in dirty BY <1>2, <3>1, Entries DEF Works, Body
    <3>3. Content(lh[tail + 1]) = cache[lh[tail + 1]] BY <3>2 DEF Works, Body, Pinned, Content
    <3> QED BY <2>1, <3>2, <3>3 DEF WriteLog, Works, Body, TypeOK
  <2> QED BY <2>1 DEF WriteLog
<1>6. /\ Current = [b \in Block |-> Content(b)] /\ Current' = [b \in Block |-> Content(b)']
  BY <1>1, <1>2 DEF Current, Recovering
<1>7. Current' = Current BY <1>1, <1>5, <1>6 DEF Content
<1> QED BY <1>1, <1>4, <1>7 DEF Active

(* Installing a block copies what is durable, and what the cache holds. *)
LEMMA InstallAtomic ==
    ASSUME Works, InstallTrans
    PROVE  UNCHANGED <<Current, Recovered, Active>>
<1>1. UNCHANGED <<logdata, dhead, committing, pc>> /\ phase = "install" /\ phase' # "run"
  BY DEF InstallTrans, opVars
<1>2. lh = dhead BY <1>1 DEF Works, Body, Journal
<1>3. Recovering' <=> Recovering BY <1>1 DEF Recovering
<1>4. CASE ~(tail < Len(lh))
  <2>1. UNCHANGED <<disk, cache>> BY <1>4 DEF InstallTrans
  <2> QED BY <1>1, <1>3, <2>1, SameCurrent DEF Active
<1>5. CASE tail < Len(lh)
  <2> DEFINE x == lh[tail + 1]
             w == logdata[tail + 1]
  <2>1. tail + 1 \in 1..Len(lh) /\ tail + 1 \in 1..LOGSIZE
    BY <1>1, <1>5, LenProperties, SizeAssumption DEF Works, Body, TypeOK, Journal, Fits
  <2>2. x \in Block /\ x \in Logged(lh) /\ w \in Val BY <2>1, Entries DEF Works, Body, TypeOK
  <2>3. disk' = [disk EXCEPT ![x] = w] /\ cache' = [cache EXCEPT ![x] = w]
    BY <1>5 DEF InstallTrans
  <2>4. committing = 1 => cache[x] = w
    BY <1>1, <2>1, LenProperties DEF Works, Body, Journal, TypeOK
  <2> HIDE DEF x, w
  <2>5. /\ disk'[x] = w /\ cache'[x] = w /\ w # None
        /\ \A b \in Block \ {x} : disk'[b] = disk[b] /\ cache'[b] = cache[b]
    BY <2>2, <2>3, NoneAssumption DEF Works, Body, TypeOK
  <2>6. Recovered' = Recovered
    <3>1. \A b \in Block : b \notin Logged(dhead) => disk'[b] = disk[b] BY <1>2, <2>2, <2>5
    <3>2. Logged(dhead)' = Logged(dhead) BY <1>1 DEF Logged
    <3> QED BY <1>1, <3>1, <3>2 DEF Recovered
  <2>7. Current' = Current
    <3>1. CASE Recovering BY <1>3, <2>6, <3>1 DEF Current
    <3>2. CASE ~Recovering
      <4>1. committing = 1 BY <1>1, <3>2 DEF Recovering, Works, Gate, GateTypes
      <4>2. \A b \in Block : Content(b)' = Content(b) BY <2>4, <2>5, <4>1 DEF Content
      <4> QED BY <1>3, <3>2, <4>2 DEF Current
    <3> QED BY <3>1, <3>2
  <2> QED BY <1>1, <2>6, <2>7 DEF Active
<1> QED BY <1>4, <1>5

(* Erasing the log loses nothing: every logged block is home. *)
LEMMA ClearHeadAtomic ==
    ASSUME Works, ClearHead
    PROVE  UNCHANGED <<Current, Recovered, Active>>
<1>1. /\ UNCHANGED <<disk, logdata, cache, committing, pc>>
      /\ phase = "clear" /\ dhead' = lh /\ (committing = 1 \/ phase' = "run")
      /\ lh = <<>> /\ \A i \in 1..Len(dhead) : disk[dhead[i]] = logdata[i]
  BY DEF ClearHead, logVars, opVars, Works, Body, Journal
<1>2. \A b \in Block : Recovered[b] = disk[b]
  <2> TAKE b \in Block
  <2>1. CASE b \in Logged(dhead)
    <3>1. PICK i \in 1..Len(dhead) : dhead[i] = b BY <2>1 DEF Logged
    <3> QED BY <1>1, <3>1, RecoveredLog
  <2>2. CASE b \notin Logged(dhead) BY <2>2, RecoveredLog
  <2> QED BY <2>1, <2>2
<1>3. \A b \in Block : Recovered'[b] = disk[b]
  <2>1. \A b \in Block : b \notin Logged(dhead)' BY <1>1 DEF Logged
  <2> QED BY <1>1, <2>1 DEF Recovered
<1>4. Recovered' = Recovered
  <2>1. Recovered = [b \in Block |-> Recovered[b]] /\ Recovered' = [b \in Block |-> Recovered'[b]]
    BY DEF Recovered
  <2> QED BY <1>2, <1>3, <2>1
<1>5. CASE committing = 1
  <2>1. Recovering' <=> Recovering BY <1>1, <1>5 DEF Recovering
  <2>2. \A b \in Block : Content(b)' = Content(b) BY <1>1 DEF Content
  <2> QED BY <1>1, <1>4, <1>5, <2>1, <2>2 DEF Current, Recovering, Active
<1>6. CASE committing # 1
  <2>1. committing = 0 /\ Recovering /\ ~Recovering'
    BY <1>1, <1>6 DEF Recovering, Works, Gate, GateTypes
  <2>2. dirty = {} BY <2>1 DEF Works, Body, Pinned
  <2>3. \A o \in Op, b \in Block : buf[o] # b
    BY <1>1, DiskAtWork, Quiet, NoneAssumption DEF Works
  <2>4. \A b \in Block : Content(b) = disk[b] BY <2>2, <2>3, CleanContent
  <2>5. \A b \in Block : Content(b)' = Content(b) BY <1>1 DEF Content
  <2>6. Current = Recovered /\ Current' = [b \in Block |-> Content(b)'] BY <2>1 DEF Current
  <2>7. Recovered = [b \in Block |-> Recovered[b]] BY DEF Recovered
  <2> QED BY <1>1, <1>2, <1>4, <2>4, <2>5, <2>6, <2>7 DEF Active
<1> QED BY <1>5, <1>6

LEMMA QuietAtomic ==
    ASSUME Works, ReadHead \/ (\E b \in Block : Evict(b)) \/ UNCHANGED vars
    PROVE  UNCHANGED <<Current, Recovered, Active>>
<1>1. UNCHANGED <<disk, logdata, dhead, committing, pc>>
  BY DEF ReadHead, Evict, vars, diskVars, logVars, opVars
<1>2. Recovering' <=> Recovering
  BY DEF ReadHead, Evict, vars, logVars, Recovering
<1>3. CASE ReadHead \/ UNCHANGED vars
  <2>1. cache' = cache BY <1>3 DEF ReadHead, vars
  <2> QED BY <1>1, <1>2, <2>1, SameCurrent DEF Active
<1>4. ASSUME NEW b \in Block, Evict(b) PROVE UNCHANGED <<Current, Recovered, Active>>
  <2>1. b \notin dirty /\ (\A o \in Op : buf[o] # b) /\ cache' = [cache EXCEPT ![b] = None]
    BY <1>4 DEF Evict
  <2>2. Content(b) = disk[b] BY <2>1, CleanContent
  <2>3. \A c \in Block : Content(c)' = Content(c)
    BY <1>1, <2>1, <2>2 DEF Content, Works, Body, TypeOK
  <2>4. Recovered' = Recovered BY <1>1, SameRecovered
  <2> QED BY <1>1, <1>2, <2>3, <2>4 DEF Current, Active
<1> QED BY <1>3, <1>4

LEMMA CrashIsAtomic ==
    ASSUME Crash
    PROVE  Atomic!Next
<1>1. Recovered' = Recovered BY SameRecovered DEF Crash, diskVars
<1>2. Recovering' /\ Active' = {} BY DEF Crash, Recovering, Active, InOp
<1>3. Current' = Recovered BY <1>1, <1>2 DEF Current
<1>4. Atomic!Crash BY <1>1, <1>2, <1>3 DEF Atomic!Crash
<1> QED BY <1>4 DEF Atomic!Next

LEMMA NextAtomic ==
    ASSUME Works, [Next]_vars
    PROVE  [Atomic!Next]_<<Current, Recovered, Active>>
<1>1. CASE DiskStep
  BY <1>1, WriteLogAtomic, WriteHeadAtomic, InstallAtomic, ClearHeadAtomic, QuietAtomic DEF DiskStep
<1>2. ASSUME NEW o \in Op, OpStep(o) \/ EndOp(o) \/ Kill(o)
      PROVE  [Atomic!Next]_<<Current, Recovered, Active>>
  BY <1>2, CallAtomic, EndOpAtomic DEF OpStep
<1>3. ASSUME NEW o \in Op, NEW b \in Block, NEW v \in Val, Modify(o, b, v)
      PROVE  [Atomic!Next]_<<Current, Recovered, Active>>
  BY <1>3, ModifyAtomic
<1>4. CASE (\E b \in Block : Evict(b)) \/ UNCHANGED vars BY <1>4, QuietAtomic
<1>5. CASE Crash BY <1>5, CrashIsAtomic
<1> QED BY <1>1, <1>2, <1>3, <1>4, <1>5 DEF Next

(* The log refines an atomic disk: a crash at any disk write, during commit *)
(* or during recovery, brings back exactly the blocks of the last           *)
(* transaction whose header was written.                                    *)
THEOREM CrashAtomicHolds == Spec => CrashAtomic
<1>1. Init => Atomic!Init BY InitAtomic
<1>2. Works /\ [Next]_vars => [Atomic!Next]_<<Current, Recovered, Active>> BY NextAtomic
<1>3. Spec => []Works
  <2>1. Init => Body BY InitBody
  <2>2. Gate /\ Gate' /\ Body /\ [Next]_vars => Body' BY NextBody
  <2> QED BY <2>1, <2>2, GateHolds, PTL DEF Spec, Works
<1> QED BY <1>1, <1>2, <1>3, PTL DEF Spec, CrashAtomic, Atomic!Spec
=============================================================================
