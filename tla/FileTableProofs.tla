-------------------------- MODULE FileTableProofs --------------------------
(* The file table and the pipes: reference counts, the life of a pipe's     *)
(* page, and that nobody sleeps beside work, for any number of processes,   *)
(* files, descriptors and pages.                                            *)
EXTENDS FileTable, FiniteSetTheorems, SequenceTheorems, TLAPS

-----------------------------------------------------------------------------
(* Counting the places of a file. *)

Places(t, S, f) == {x \in Proc \X S : t[x[1]][x[2]] = f}

LEMMA CountIs ==
    ASSUME NEW t, NEW S, IsFiniteSet(S), NEW f
    PROVE  /\ IsFiniteSet(Places(t, S, f)) /\ Count(t, S, f) = Cardinality(Places(t, S, f))
           /\ Count(t, S, f) \in Nat
<1>1. Count(t, S, f) = Cardinality(Places(t, S, f)) BY DEF Count, Places
<1>2. IsFiniteSet(Proc \X S) BY TableAssumption, FS_Product
<1>3. Places(t, S, f) \subseteq Proc \X S BY DEF Places
<1> QED BY <1>1, <1>2, <1>3, FS_Subset, FS_CardinalityType

LEMMA CountSame ==
    ASSUME NEW t, NEW u, NEW S, NEW f, \A q \in Proc, r \in S : u[q][r] = f <=> t[q][r] = f
    PROVE  Count(u, S, f) = Count(t, S, f)
<1>1. {x \in Proc \X S : u[x[1]][x[2]] = f} = {x \in Proc \X S : t[x[1]][x[2]] = f} OBVIOUS
<1> QED BY <1>1 DEF Count

LEMMA CountMore ==
    ASSUME NEW t, NEW u, NEW S, IsFiniteSet(S), NEW f, NEW p \in Proc, NEW s \in S,
           t[p][s] # f, u[p][s] = f,
           \A q \in Proc, r \in S : q # p \/ r # s => (u[q][r] = f <=> t[q][r] = f)
    PROVE  Count(u, S, f) = Count(t, S, f) + 1
<1>1. Places(u, S, f) = Places(t, S, f) \cup {<<p, s>>} /\ <<p, s>> \notin Places(t, S, f)
  BY DEF Places
<1>2. Cardinality(Places(t, S, f) \cup {<<p, s>>}) = Cardinality(Places(t, S, f)) + 1
  BY <1>1, CountIs, FS_AddElement
<1> QED BY <1>1, <1>2, CountIs

(* A counted file is somewhere; one counted once is there only. *)
LEMMA CountPlace ==
    ASSUME NEW t, NEW S, IsFiniteSet(S), NEW f, NEW p \in Proc, NEW s \in S, t[p][s] = f
    PROVE  /\ Count(t, S, f) > 0
           /\ Count(t, S, f) = 1 => \A q \in Proc, r \in S : t[q][r] = f => q = p /\ r = s
<1>1. <<p, s>> \in Places(t, S, f) BY DEF Places
<1>2. IsFiniteSet(Places(t, S, f)) /\ Count(t, S, f) = Cardinality(Places(t, S, f)) /\ Count(t, S, f) \in Nat
  BY CountIs
<1>3. Count(t, S, f) > 0 BY <1>1, <1>2, FS_EmptySet
<1>4. ASSUME Count(t, S, f) = 1, NEW q \in Proc, NEW r \in S, t[q][r] = f PROVE q = p /\ r = s
  <2>1. <<q, r>> \in Places(t, S, f) BY <1>4 DEF Places
  <2>2. PICK x : Places(t, S, f) = {x} BY <1>2, <1>4, FS_Singleton
  <2> QED BY <1>1, <2>1, <2>2
<1> QED BY <1>3, <1>4

LEMMA CountNone ==
    ASSUME NEW t, NEW S, IsFiniteSet(S), NEW f
    PROVE  (\A q \in Proc, r \in S : t[q][r] # f) <=> Count(t, S, f) = 0
<1>1. ASSUME NEW q \in Proc, NEW r \in S, t[q][r] = f PROVE <<q, r>> \in Places(t, S, f)
  BY <1>1 DEF Places
<1>2. ASSUME NEW x \in Places(t, S, f) PROVE x[1] \in Proc /\ x[2] \in S /\ t[x[1]][x[2]] = f
  BY DEF Places
<1>3. (\A q \in Proc, r \in S : t[q][r] # f) <=> Places(t, S, f) = {} BY <1>1, <1>2
<1> QED BY <1>3, CountIs, FS_EmptySet

LEMMA Slots == IsFiniteSet(Fd) /\ IsFiniteSet(Local) /\ 1 \in Local /\ 2 \in Local
<1>1. IsFiniteSet(Fd) BY TableAssumption, FS_Interval DEF Fd
<1>2. Local = 1..2 BY DEF Local
<1>3. IsFiniteSet(1..2)
  <2>1. 1 \in Int /\ 2 \in Int OBVIOUS
  <2> QED BY <2>1, FS_Interval
<1> QED BY <1>1, <1>2, <1>3

(* Writing one slot of a table. *)
LEMMA SetSlot ==
    ASSUME NEW S, NEW V, NEW t \in [Proc -> [S -> V]], NEW p \in Proc, NEW s \in S, NEW v \in V
    PROVE  LET u == [t EXCEPT ![p][s] = v]
           IN  /\ u \in [Proc -> [S -> V]]
               /\ \A q \in Proc, r \in S : u[q][r] = IF q = p /\ r = s THEN v ELSE t[q][r]
OBVIOUS

-----------------------------------------------------------------------------
(* The table without the pipes. *)

TableTypes ==
    /\ pc \in [Proc -> {"none", "user", "pipe", "close", "exit", "read", "write"}]
    /\ ref \in [File -> Nat]
    /\ obj \in [File -> {None} \cup Ends] /\ ff \in [Proc -> {None} \cup Ends]
    /\ ofile \in [Proc -> [Fd -> File \cup {0}]]
    /\ held \in [Proc -> [Local -> File \cup {0}]]

Table == TableTypes /\ FileRefs /\ InHand

LEMMA EndIs ==
    ASSUME NEW g, NEW w
    PROVE  /\ PipeEnd(g, w) # None /\ PipeEnd(g, w)[2] = g /\ PipeEnd(g, w)[3] = w
           /\ \A h, x : PipeEnd(g, w) = PipeEnd(h, x) <=> (g = h /\ w = x)
BY DEF PipeEnd, None

LEMMA FileIs == 0 \notin File /\ File \subseteq Nat /\ \A d \in Fd : d \in Nat
BY TableAssumption DEF File, Fd

(* A reference makes the count positive, and a sole reference is private. *)
LEMMA Referenced ==
    ASSUME Table, NEW p \in Proc, NEW f \in File
    PROVE  /\ \A d \in Fd : ofile[p][d] = f => ref[f] > 0
           /\ \A i \in Local : held[p][i] = f =>
                /\ ref[f] > 0
                /\ ref[f] = 1 => /\ \A q \in Proc, d \in Fd : ofile[q][d] # f
                                 /\ \A q \in Proc, j \in Local : held[q][j] = f => q = p /\ j = i
<1>1. /\ ref[f] = Count(ofile, Fd, f) + Count(held, Local, f)
      /\ Count(ofile, Fd, f) \in Nat /\ Count(held, Local, f) \in Nat
  BY Slots, CountIs DEF Table, FileRefs
<1>2. ASSUME NEW d \in Fd, ofile[p][d] = f PROVE ref[f] > 0
  <2>1. Count(ofile, Fd, f) > 0 BY <1>2, Slots, CountPlace
  <2> QED BY <1>1, <2>1
<1>3. ASSUME NEW i \in Local, held[p][i] = f
      PROVE  /\ ref[f] > 0
             /\ ref[f] = 1 => /\ \A q \in Proc, d \in Fd : ofile[q][d] # f
                              /\ \A q \in Proc, j \in Local : held[q][j] = f => q = p /\ j = i
  <2>1. /\ Count(held, Local, f) > 0
        /\ Count(held, Local, f) = 1 => \A q \in Proc, j \in Local : held[q][j] = f => q = p /\ j = i
    BY <1>3, Slots, CountPlace
  <2>2. ref[f] > 0 BY <1>1, <2>1
  <2>3. ref[f] = 1 => Count(held, Local, f) = 1 /\ Count(ofile, Fd, f) = 0 BY <1>1, <2>1
  <2>4. ref[f] = 1 => \A q \in Proc, d \in Fd : ofile[q][d] # f BY <2>3, Slots, CountNone
  <2> QED BY <2>1, <2>2, <2>3, <2>4
<1> QED BY <1>2, <1>3

(* A free entry is nowhere. *)
LEMMA Unreferenced ==
    ASSUME Table, NEW f \in File, ref[f] = 0
    PROVE  /\ Count(ofile, Fd, f) = 0 /\ Count(held, Local, f) = 0 /\ obj[f] = None
           /\ \A q \in Proc : (\A d \in Fd : ofile[q][d] # f) /\ (\A i \in Local : held[q][i] # f)
<1>1. /\ ref[f] = Count(ofile, Fd, f) + Count(held, Local, f)
      /\ Count(ofile, Fd, f) \in Nat /\ Count(held, Local, f) \in Nat
  BY Slots, CountIs DEF Table, FileRefs
<1>2. Count(ofile, Fd, f) = 0 /\ Count(held, Local, f) = 0 BY <1>1
<1>3. obj[f] = None BY DEF Table, InHand
<1> QED BY <1>2, <1>3, Slots, CountNone

LEMMA InitTable == Init => Table
<1> SUFFICES ASSUME Init PROVE Table OBVIOUS
<1>1. TableTypes BY DEF Init, TableTypes
<1>2. FileRefs
  <2> SUFFICES ASSUME NEW f \in File PROVE ref[f] = Count(ofile, Fd, f) + Count(held, Local, f)
    BY DEF FileRefs
  <2>1. (\A q \in Proc, d \in Fd : ofile[q][d] # f) /\ (\A q \in Proc, i \in Local : held[q][i] # f)
    BY FileIs DEF Init
  <2>2. Count(ofile, Fd, f) = 0 /\ Count(held, Local, f) = 0 BY <2>1, Slots, CountNone
  <2> QED BY <2>2 DEF Init
<1>3. InHand BY DEF Init, InHand
<1> QED BY <1>1, <1>2, <1>3 DEF Table

(* Steps that leave the files alone. *)
LEMMA QuietTable ==
    ASSUME Table, UNCHANGED files, pc' \in [Proc -> {"none", "user", "pipe", "close", "exit", "read", "write"}],
           \A q \in Proc : \/ pc'[q] = pc[q]
                           \/ pc[q] \in {"user", "read", "write"} /\ pc'[q] \in {"user", "read", "write", "exit"}
                           \/ pc[q] = "user" /\ pc'[q] = "none" /\ \A d \in Fd : ofile[q][d] = 0
                           \/ pc[q] = "pipe" /\ pc'[q] = "close"
    PROVE  Table'
<1>1. UNCHANGED <<ref, obj, ofile, held, ff>> BY DEF files
<1>2. TableTypes' BY <1>1 DEF Table, TableTypes
<1>3. FileRefs'
  <2> SUFFICES ASSUME NEW f \in File PROVE ref'[f] = Count(ofile', Fd, f) + Count(held', Local, f)
    BY DEF FileRefs, Count
  <2> QED BY <1>1 DEF Table, FileRefs
<1>4. InHand' BY <1>1 DEF Table, InHand
<1> QED BY <1>2, <1>3, <1>4 DEF Table

(* filealloc() for pipealloc(). *)
Allocates(p, f, i) ==
    /\ FileFree(f) /\ held[p][i] = 0
    /\ ref' = [ref EXCEPT ![f] = 1] /\ held' = [held EXCEPT ![p][i] = f] /\ UNCHANGED <<obj, ofile, ff>>
    /\ \/ i = 1 /\ pc[p] = "user" /\ pc' = [pc EXCEPT ![p] = "pipe"]
       \/ i = 2 /\ pc[p] = "pipe" /\ pc' = pc

LEMMA AllocTable ==
    ASSUME Table, NEW p \in Proc, NEW f \in File, NEW i \in Local, Allocates(p, f, i)
    PROVE  Table'
<1>1. ref[f] = 0 /\ held[p][i] = 0 /\ UNCHANGED <<obj, ofile, ff>> BY DEF Allocates, FileFree
<1>2. /\ Count(ofile, Fd, f) = 0 /\ Count(held, Local, f) = 0 /\ obj[f] = None
      /\ \A q \in Proc : (\A d \in Fd : ofile[q][d] # f) /\ (\A j \in Local : held[q][j] # f)
  BY <1>1, Unreferenced
<1>3. /\ held' \in [Proc -> [Local -> File \cup {0}]]
      /\ \A q \in Proc, j \in Local : held'[q][j] = IF q = p /\ j = i THEN f ELSE held[q][j]
  BY SetSlot DEF Allocates, Table, TableTypes
<1>4. ref' \in [File -> Nat] /\ ref'[f] = 1 /\ \A e \in File \ {f} : ref'[e] = ref[e]
  BY DEF Allocates, Table, TableTypes
<1>5. TableTypes' BY <1>1, <1>3, <1>4 DEF Allocates, Table, TableTypes
<1>6. f # 0 BY FileIs
<1>7. FileRefs'
  <2> SUFFICES ASSUME NEW e \in File PROVE ref'[e] = Count(ofile', Fd, e) + Count(held', Local, e)
    BY DEF FileRefs, Count
  <2>1. e # 0 BY FileIs
  <2>2. CASE e = f
    <3>1. Count(held', Local, f) = Count(held, Local, f) + 1
      <4>1. /\ held[p][i] # f /\ held'[p][i] = f
            /\ \A q \in Proc, j \in Local : q # p \/ j # i => (held'[q][j] = f <=> held[q][j] = f)
        BY <1>1, <1>2, <1>3
      <4> QED BY <4>1, Slots, CountMore
    <3> QED BY <1>1, <1>2, <1>4, <2>2, <3>1
  <2>3. CASE e # f
    <3>1. Count(held', Local, e) = Count(held, Local, e)
      <4>1. \A q \in Proc, j \in Local : held'[q][j] = e <=> held[q][j] = e BY <1>1, <1>3, <2>1, <2>3
      <4> QED BY <4>1, CountSame
    <3> QED BY <1>1, <1>4, <2>3, <3>1 DEF Table, FileRefs
  <2> QED BY <2>2, <2>3
<1>8. InHand'
  <2>1. \A e \in File : (ref[e] = 0 => obj[e] = None)' BY <1>1, <1>4 DEF Table, InHand
  <2>2. ASSUME NEW q \in Proc, q # p
        PROVE  (/\ pc[q] \notin {"pipe", "close"} => \A j \in Local : held[q][j] = 0
                /\ pc[q] \notin {"close", "exit"} => ff[q] = None
                /\ pc[q] = "none" => \A d \in Fd : ofile[q][d] = 0
                /\ pc[q] = "pipe" => /\ held[q][1] # 0 /\ held[q][1] # held[q][2]
                                     /\ \A j \in Local : held[q][j] # 0 => ref[held[q][j]] = 1 /\ obj[held[q][j]] = None)'
    <3>1. pc'[q] = pc[q] /\ \A j \in Local : held'[q][j] = held[q][j] /\ held[q][j] \in File \cup {0}
      BY <1>3, <2>2 DEF Allocates, Table, TableTypes
    <3>2. \A j \in Local : held[q][j] # 0 => ref'[held[q][j]] = ref[held[q][j]]
      BY <1>2, <1>4, <3>1
    <3> QED BY <1>1, <3>1, <3>2, Slots DEF Table, InHand
  <2>3. /\ pc'[p] = "pipe" /\ ff'[p] = None /\ held'[p][1] # 0 /\ held'[p][1] # held'[p][2]
        /\ \A j \in Local : held'[p][j] # 0 => ref'[held'[p][j]] = 1 /\ obj'[held'[p][j]] = None
    <3>1. pc'[p] = "pipe" /\ ff'[p] = None BY DEF Allocates, Table, TableTypes, InHand
    <3>2. ref'[held'[p][i]] = 1 /\ obj'[held'[p][i]] = None /\ held'[p][i] = f BY <1>1, <1>2, <1>3, <1>4
    <3>3. CASE i = 1 /\ pc[p] = "user"
      <4>1. held'[p][2] = 0 BY <1>3, <3>3, Slots DEF Table, InHand
      <4> QED BY <1>6, <3>1, <3>2, <3>3, <4>1 DEF Local
    <3>4. CASE i = 2 /\ pc[p] = "pipe"
      <4>1. held'[p][1] = held[p][1] /\ held[p][1] # 0 /\ held[p][1] # f /\ held[p][1] \in File
        BY <1>2, <1>3, <3>4, Slots DEF Table, InHand, TableTypes
      <4>2. ref'[held'[p][1]] = 1 /\ obj'[held'[p][1]] = None
        BY <1>1, <1>4, <3>4, <4>1, Slots DEF Table, InHand
      <4> QED BY <1>6, <3>1, <3>2, <3>4, <4>1, <4>2 DEF Local
    <3> QED BY <3>3, <3>4 DEF Allocates
  <2> QED BY <2>1, <2>2, <2>3 DEF InHand
<1> QED BY <1>5, <1>7, <1>8 DEF Table

(* The files of an unfinished pipe() are known to nobody else. *)
LEMMA OwnFiles ==
    ASSUME Table, NEW p \in Proc, pc[p] = "pipe", NEW i \in Local, held[p][i] # 0
    PROVE  /\ held[p][i] \in File /\ ref[held[p][i]] = 1 /\ obj[held[p][i]] = None
           /\ \A q \in Proc, d \in Fd : ofile[q][d] # held[p][i]
           /\ \A q \in Proc, j \in Local : held[q][j] = held[p][i] => q = p /\ j = i
<1>1. held[p][i] \in File /\ ref[held[p][i]] = 1 /\ obj[held[p][i]] = None
  BY DEF Table, TableTypes, InHand
<1> QED BY <1>1, Referenced

LEMMA DupTable ==
    ASSUME Table, NEW p \in Proc, NEW d \in Fd, Dup(p, d)
    PROVE  Table'
<1> DEFINE f == ofile[p][d]
<1>1. f \in File /\ UNCHANGED <<pc, obj, held, ff>> /\ ref' = [ref EXCEPT ![f] = @ + 1]
  BY DEF Dup, Argfd, Filedup, Table, TableTypes
<1>2. PICK e \in Fd : ofile[p][e] = 0 /\ ofile' = [ofile EXCEPT ![p][e] = f]
  BY DEF Dup, FreeFds
<1> HIDE DEF f
<1>3. /\ ofile' \in [Proc -> [Fd -> File \cup {0}]]
      /\ \A q \in Proc, c \in Fd : ofile'[q][c] = IF q = p /\ c = e THEN f ELSE ofile[q][c]
  BY <1>1, <1>2, SetSlot DEF Table, TableTypes
<1>4. ref' \in [File -> Nat] /\ ref'[f] = ref[f] + 1 /\ \A x \in File \ {f} : ref'[x] = ref[x]
  BY <1>1 DEF Table, TableTypes
<1>5. TableTypes' BY <1>1, <1>3, <1>4 DEF Table, TableTypes
<1>6. FileRefs'
  <2> SUFFICES ASSUME NEW x \in File PROVE ref'[x] = Count(ofile', Fd, x) + Count(held', Local, x)
    BY DEF FileRefs, Count
  <2>1. x # 0 /\ ref[x] = Count(ofile, Fd, x) + Count(held, Local, x) BY FileIs DEF Table, FileRefs
  <2>2. Count(ofile, Fd, x) \in Nat /\ Count(held, Local, x) \in Nat BY Slots, CountIs
  <2>3. CASE x = f
    <3>1. Count(ofile', Fd, f) = Count(ofile, Fd, f) + 1
      <4>1. /\ ofile[p][e] # f /\ ofile'[p][e] = f
            /\ \A q \in Proc, c \in Fd : q # p \/ c # e => (ofile'[q][c] = f <=> ofile[q][c] = f)
        BY <1>2, <1>3, <2>1, <2>3
      <4> QED BY <4>1, Slots, CountMore
    <3> QED BY <1>1, <1>4, <2>1, <2>2, <2>3, <3>1
  <2>4. CASE x # f
    <3>1. Count(ofile', Fd, x) = Count(ofile, Fd, x)
      <4>1. \A q \in Proc, c \in Fd : ofile'[q][c] = x <=> ofile[q][c] = x BY <1>2, <1>3, <2>1, <2>4
      <4> QED BY <4>1, CountSame
    <3> QED BY <1>1, <1>4, <2>1, <2>4, <3>1
  <2> QED BY <2>3, <2>4
<1>7. InHand'
  <2>1. \A x \in File : (ref[x] = 0 => obj[x] = None)' BY <1>1, <1>4 DEF Table, TableTypes, InHand
  <2>2. ASSUME NEW q \in Proc, pc[q] = "pipe", NEW j \in Local, held[q][j] # 0
        PROVE  held[q][j] \in File \ {f}
    BY <2>2, OwnFiles DEF f
  <2>3. pc[p] = "user" BY DEF Dup, Argfd, Calls
  <2> QED BY <1>1, <1>3, <1>4, <2>1, <2>2, <2>3 DEF Table, InHand
<1> QED BY <1>5, <1>6, <1>7 DEF Table

LEMMA CloseTable ==
    ASSUME Table, NEW p \in Proc, NEW d \in Fd, Close(p, d)
    PROVE  Table'
<1> DEFINE f == ofile[p][d]
<1>1. /\ f \in File /\ UNCHANGED <<ref, obj, ff>> /\ pc[p] = "user" /\ pc' = [pc EXCEPT ![p] = "close"]
      /\ ofile' = [ofile EXCEPT ![p][d] = 0] /\ held' = [held EXCEPT ![p][1] = f]
  BY DEF Close, Argfd, Calls, Goto, Table, TableTypes
<1>2. held[p][1] = 0 BY <1>1, Slots DEF Table, InHand
<1>3. ofile[p][d] = f OBVIOUS
<1> HIDE DEF f
<1>4. /\ ofile' \in [Proc -> [Fd -> File \cup {0}]]
      /\ \A q \in Proc, c \in Fd : ofile'[q][c] = IF q = p /\ c = d THEN 0 ELSE ofile[q][c]
  BY <1>1, SetSlot DEF Table, TableTypes
<1>5. /\ held' \in [Proc -> [Local -> File \cup {0}]]
      /\ \A q \in Proc, j \in Local : held'[q][j] = IF q = p /\ j = 1 THEN f ELSE held[q][j]
  BY <1>1, Slots, SetSlot DEF Table, TableTypes
<1>6. TableTypes' BY <1>1, <1>4, <1>5 DEF Table, TableTypes
<1>7. FileRefs'
  <2> SUFFICES ASSUME NEW x \in File PROVE ref'[x] = Count(ofile', Fd, x) + Count(held', Local, x)
    BY DEF FileRefs, Count
  <2>1. x # 0 /\ ref[x] = Count(ofile, Fd, x) + Count(held, Local, x) BY FileIs DEF Table, FileRefs
  <2>2. Count(ofile, Fd, x) \in Nat /\ Count(held, Local, x) \in Nat /\ Count(ofile', Fd, x) \in Nat
    BY Slots, CountIs
  <2>3. CASE x = f
    <3>1. Count(ofile, Fd, f) = Count(ofile', Fd, f) + 1
      BY <1>3, <1>4, <2>1, <2>3, Slots, CountMore
    <3>2. Count(held', Local, f) = Count(held, Local, f) + 1
      BY <1>2, <1>5, <2>1, <2>3, Slots, CountMore
    <3> QED BY <1>1, <2>1, <2>2, <2>3, <3>1, <3>2
  <2>4. CASE x # f
    <3>1. Count(ofile', Fd, x) = Count(ofile, Fd, x) BY <1>3, <1>4, <2>1, <2>4, CountSame
    <3>2. Count(held', Local, x) = Count(held, Local, x) BY <1>2, <1>5, <2>1, <2>4, CountSame
    <3> QED BY <1>1, <2>1, <3>1, <3>2
  <2> QED BY <2>3, <2>4
<1>8. InHand'
  <2>1. \A q \in Proc \ {p} : /\ pc'[q] = pc[q] /\ held'[q] = held[q] /\ ofile'[q] = ofile[q]
    BY <1>1 DEF Table, TableTypes
  <2>2. pc'[p] = "close" BY <1>1 DEF Table, TableTypes
  <2> QED BY <1>1, <2>1, <2>2 DEF Table, InHand
<1> QED BY <1>6, <1>7, <1>8 DEF Table

(* fork(): every descriptor of the parent is one reference more. *)
LEMMA ForkTable ==
    ASSUME Table, NEW p \in Proc, NEW q \in Proc, Fork(p, q)
    PROVE  Table'
<1> DEFINE D(f) == {d \in Fd : ofile[p][d] = f}
<1>1. /\ pc[p] = "user" /\ pc[q] = "none" /\ p # q /\ pc' = [pc EXCEPT ![q] = "user"]
      /\ UNCHANGED <<obj, held, ff>> /\ ofile' = [ofile EXCEPT ![q] = ofile[p]]
      /\ ref' = [f \in File |-> ref[f] + Cardinality(D(f))]
  BY DEF Fork, Calls, Goto
<1>2. /\ ofile' \in [Proc -> [Fd -> File \cup {0}]] /\ ofile'[q] = ofile[p]
      /\ \A r \in Proc \ {q} : ofile'[r] = ofile[r]
  BY <1>1 DEF Table, TableTypes
<1>3. \A d \in Fd : ofile[q][d] = 0 BY <1>1 DEF Table, InHand
<1>4. ASSUME NEW f \in File PROVE IsFiniteSet(D(f)) /\ Cardinality(D(f)) \in Nat
  BY Slots, FS_Subset, FS_CardinalityType
<1>5. ref' \in [File -> Nat]
  <2>1. \A f \in File : ref'[f] = ref[f] + Cardinality(D(f)) BY <1>1
  <2> HIDE DEF D
  <2>2. \A f \in File : ref'[f] \in Nat BY <1>4, <2>1 DEF Table, TableTypes
  <2>3. ref' = [f \in File |-> ref'[f]] BY <1>1
  <2> QED BY ONLY <2>2, <2>3
<1>6. TableTypes' BY <1>1, <1>2, <1>5 DEF Table, TableTypes
<1>7. FileRefs'
  <2> SUFFICES ASSUME NEW f \in File PROVE ref'[f] = Count(ofile', Fd, f) + Count(held', Local, f)
    BY DEF FileRefs, Count
  <2>1. f # 0 /\ ref[f] = Count(ofile, Fd, f) + Count(held, Local, f) BY FileIs DEF Table, FileRefs
  <2>2. Places(ofile', Fd, f) = Places(ofile, Fd, f) \cup ({q} \X D(f))
    <3>1. ASSUME NEW r \in Proc, NEW d \in Fd
          PROVE  ofile'[r][d] = f <=> ofile[r][d] = f \/ (r = q /\ d \in D(f))
      BY <1>2, <1>3, <2>1
    <3> QED BY <3>1 DEF Places
  <2>3. Places(ofile, Fd, f) \cap ({q} \X D(f)) = {}
    BY <1>3, <2>1 DEF Places
  <2> HIDE DEF D
  <2>4. IsFiniteSet({q} \X D(f)) /\ Cardinality({q} \X D(f)) = Cardinality(D(f))
    <3>1. IsFiniteSet({q}) /\ Cardinality({q}) = 1 BY FS_Singleton
    <3>2. IsFiniteSet({q} \X D(f)) /\ Cardinality({q} \X D(f)) = Cardinality({q}) * Cardinality(D(f))
      BY <1>4, <3>1, FS_Product
    <3> QED BY <1>4, <3>1, <3>2
  <2>5. IsFiniteSet(Places(ofile, Fd, f)) /\ Count(ofile, Fd, f) = Cardinality(Places(ofile, Fd, f))
        /\ Count(ofile, Fd, f) \in Nat /\ Count(ofile', Fd, f) = Cardinality(Places(ofile', Fd, f))
        /\ Count(held, Local, f) \in Nat
    BY Slots, CountIs
  <2>6. Cardinality(Places(ofile, Fd, f) \cup ({q} \X D(f)))
          = Cardinality(Places(ofile, Fd, f)) + Cardinality({q} \X D(f))
            - Cardinality(Places(ofile, Fd, f) \cap ({q} \X D(f)))
    BY <2>4, <2>5, FS_Union
  <2>7. Cardinality(Places(ofile, Fd, f) \cap ({q} \X D(f))) = 0 BY <2>3, FS_EmptySet
  <2>8. Count(ofile', Fd, f) = Count(ofile, Fd, f) + Cardinality(D(f))
    BY <1>4, <2>2, <2>4, <2>5, <2>6, <2>7
  <2>9. ref'[f] = ref[f] + Cardinality(D(f)) BY <1>1
  <2> QED BY <1>1, <1>4, <2>1, <2>5, <2>8, <2>9
<1>8. InHand'
  <2>1. \A f \in File : (ref[f] = 0 => obj[f] = None)'
    <3> TAKE f \in File
    <3>1. ref'[f] = ref[f] + Cardinality(D(f)) /\ ref[f] \in Nat /\ Cardinality(D(f)) \in Nat
      BY <1>1, <1>4 DEF Table, TableTypes
    <3> HIDE DEF D
    <3>2. ref'[f] = 0 => ref[f] = 0 BY <3>1
    <3> QED BY <1>1, <3>2 DEF Table, InHand
  <2>2. ASSUME NEW r \in Proc, pc[r] = "pipe", NEW j \in Local, held[r][j] # 0
        PROVE  ref'[held[r][j]] = 1 /\ held[r][j] \in File
    <3>1. held[r][j] \in File /\ ref[held[r][j]] = 1 /\ \A d \in Fd : ofile[p][d] # held[r][j]
      BY <2>2, OwnFiles
    <3>2. D(held[r][j]) = {} BY <3>1
    <3>3. Cardinality(D(held[r][j])) = 0 BY <3>2, FS_EmptySet
    <3> QED BY <1>1, <3>1, <3>3
  <2>3. pc'[q] = "user" /\ \A r \in Proc \ {q} : pc'[r] = pc[r] BY <1>1 DEF Table, TableTypes
  <2>4. ASSUME NEW r \in Proc, r # q, pc[r] = "pipe"
        PROVE  (/\ held[r][1] # 0 /\ held[r][1] # held[r][2]
                /\ \A j \in Local : held[r][j] # 0 => ref[held[r][j]] = 1 /\ obj[held[r][j]] = None)'
    <3>1. UNCHANGED <<obj, held>> BY <1>1
    <3>2. \A j \in Local : held[r][j] # 0 => ref'[held[r][j]] = 1 /\ obj[held[r][j]] = None
      BY <2>2, <2>4 DEF Table, InHand
    <3>3. held[r][1] # 0 /\ held[r][1] # held[r][2] BY <2>4 DEF Table, InHand
    <3> QED BY <3>1, <3>2, <3>3
  <2>5. ASSUME NEW r \in Proc
        PROVE  (/\ pc[r] \notin {"pipe", "close"} => \A j \in Local : held[r][j] = 0
                /\ pc[r] \notin {"close", "exit"} => ff[r] = None
                /\ pc[r] = "none" => \A d \in Fd : ofile[r][d] = 0)'
    BY <1>1, <1>2, <2>3 DEF Table, InHand
  <2> QED BY <2>1, <2>3, <2>4, <2>5 DEF InHand
<1> QED BY <1>6, <1>7, <1>8 DEF Table

(* The two files of pipe() when the pipe exists. *)
LEMMA CreateFiles ==
    ASSUME Table, NEW p \in Proc, NEW g \in Page, PipeCreate(p, g)
    PROVE  LET rf == held[p][1]
               wf == held[p][2]
           IN  /\ rf \in File /\ wf \in File /\ rf # wf /\ pc[p] = "pipe"
               /\ obj' \in [File -> {None} \cup Ends]
               /\ obj'[rf] = PipeEnd(g, FALSE) /\ obj'[wf] = PipeEnd(g, TRUE)
               /\ \A f \in File \ {rf, wf} : obj'[f] = obj[f]
               /\ UNCHANGED <<ref, ff>>
<1>1. pc[p] = "pipe" /\ held[p][1] # 0 /\ held[p][2] # 0 /\ held[p][1] # held[p][2]
  BY Slots DEF PipeCreate, Table, InHand
<1>2. held[p][1] \in File /\ held[p][2] \in File BY <1>1, Slots DEF Table, TableTypes
<1>3. PipeEnd(g, FALSE) \in Ends /\ PipeEnd(g, TRUE) \in Ends BY DEF Ends, PipeEnd
<1>4. obj' = [obj EXCEPT ![held[p][1]] = PipeEnd(g, FALSE), ![held[p][2]] = PipeEnd(g, TRUE)] /\ UNCHANGED <<ref, ff>>
  BY DEF PipeCreate
<1> QED BY <1>1, <1>2, <1>3, <1>4 DEF Table, TableTypes

LEMMA CreateTable ==
    ASSUME Table, NEW p \in Proc, NEW g \in Page, PipeCreate(p, g)
    PROVE  Table'
<1> DEFINE rf == held[p][1]
           wf == held[p][2]
<1>1. /\ rf \in File /\ wf \in File /\ rf # wf /\ pc[p] = "pipe"
      /\ obj' \in [File -> {None} \cup Ends]
      /\ obj'[rf] = PipeEnd(g, FALSE) /\ obj'[wf] = PipeEnd(g, TRUE)
      /\ \A f \in File \ {rf, wf} : obj'[f] = obj[f]
      /\ UNCHANGED <<ref, ff>>
  BY CreateFiles
<1>2. /\ ref[rf] = 1 /\ \A q \in Proc, d \in Fd : ofile[q][d] # rf
      /\ \A q \in Proc, j \in Local : held[q][j] = rf => q = p /\ j = 1
  BY <1>1, FileIs, Slots, OwnFiles
<1>3. /\ ref[wf] = 1 /\ \A q \in Proc, d \in Fd : ofile[q][d] # wf
      /\ \A q \in Proc, j \in Local : held[q][j] = wf => q = p /\ j = 2
  BY <1>1, FileIs, Slots, OwnFiles
<1>4. held[p][1] = rf /\ held[p][2] = wf OBVIOUS
<1> HIDE DEF rf, wf
<1>5. \A f \in File : (ref[f] = 0 => obj[f] = None)'
  BY <1>1, <1>2, <1>3 DEF Table, InHand
<1>6. ASSUME NEW q \in Proc, q # p, pc[q] = "pipe", NEW j \in Local, held[q][j] # 0
      PROVE  ref'[held[q][j]] = 1 /\ obj'[held[q][j]] = None
  <2>1. held[q][j] \in File \ {rf, wf} /\ ref[held[q][j]] = 1 /\ obj[held[q][j]] = None
    BY <1>2, <1>3, <1>6, OwnFiles
  <2> QED BY <1>1, <2>1
<1>7. CASE pc' = [pc EXCEPT ![p] = "close"] /\ UNCHANGED <<ofile, held>>
  <2>1. pc'[p] = "close" /\ \A q \in Proc \ {p} : pc'[q] = pc[q] BY <1>7 DEF Table, TableTypes
  <2>2. TableTypes' BY <1>1, <1>7 DEF Table, TableTypes
  <2>3. FileRefs'
    <3> SUFFICES ASSUME NEW f \in File PROVE ref'[f] = Count(ofile', Fd, f) + Count(held', Local, f)
      BY DEF FileRefs, Count
    <3> QED BY <1>1, <1>7 DEF Table, FileRefs
  <2>4. InHand' BY <1>1, <1>5, <1>6, <1>7, <2>1 DEF Table, InHand
  <2> QED BY <2>2, <2>3, <2>4 DEF Table
<1>8. ASSUME NEW d \in Fd, NEW e \in Fd, d < e, ofile[p][d] = 0, ofile[p][e] = 0,
             ofile' = [ofile EXCEPT ![p][d] = rf, ![p][e] = wf],
             held' = [held EXCEPT ![p][1] = 0, ![p][2] = 0], pc' = [pc EXCEPT ![p] = "user"]
      PROVE  Table'
  <2>1. d # e BY <1>8, FileIs
  <2>2. /\ ofile' \in [Proc -> [Fd -> File \cup {0}]]
        /\ ofile'[p][d] = rf /\ ofile'[p][e] = wf
        /\ \A q \in Proc, c \in Fd : q # p \/ (c # d /\ c # e) => ofile'[q][c] = ofile[q][c]
    BY <1>1, <1>8, <2>1 DEF Table, TableTypes
  <2>3. /\ held' \in [Proc -> [Local -> File \cup {0}]]
        /\ held'[p][1] = 0 /\ held'[p][2] = 0 /\ \A q \in Proc \ {p}, j \in Local : held'[q][j] = held[q][j]
    BY <1>8, Slots DEF Table, TableTypes
  <2>4. pc'[p] = "user" /\ (\A q \in Proc \ {p} : pc'[q] = pc[q])
        /\ pc' \in [Proc -> {"none", "user", "pipe", "close", "exit", "read", "write"}]
    BY <1>8 DEF Table, TableTypes
  <2>5. ofile[p][d] = 0 /\ ofile[p][e] = 0 BY <1>8
  <2>6. TableTypes' BY <1>1, <2>2, <2>3, <2>4 DEF Table, TableTypes
  <2>7. Table'
    <3>1. ASSUME NEW f \in File
          PROVE  ref'[f] = Count(ofile', Fd, f) + Count(held', Local, f)
      <4>1. f # 0 /\ ref[f] = Count(ofile, Fd, f) + Count(held, Local, f) BY FileIs DEF Table, FileRefs
      <4>2. /\ Count(ofile, Fd, f) \in Nat /\ Count(held, Local, f) \in Nat
            /\ Count(ofile', Fd, f) \in Nat /\ Count(held', Local, f) \in Nat
        BY Slots, CountIs
      <4>3. CASE f \notin {rf, wf}
        <5>1. \A q \in Proc, c \in Fd : ofile'[q][c] = f <=> ofile[q][c] = f BY <2>2, <2>5, <4>1, <4>3
        <5>2. \A q \in Proc, j \in Local : held'[q][j] = f <=> held[q][j] = f
          BY <1>4, <2>3, <4>1, <4>3 DEF Local
        <5>3. Count(ofile', Fd, f) = Count(ofile, Fd, f) BY ONLY <5>1, CountSame
        <5>4. Count(held', Local, f) = Count(held, Local, f) BY ONLY <5>2, CountSame
        <5> QED BY <1>1, <4>1, <5>3, <5>4
      <4>4. CASE f \in {rf, wf}
        <5>1. PICK c \in Fd, j \in Local : /\ ofile'[p][c] = f /\ ofile[p][c] # f
                                           /\ held'[p][j] # f /\ held[p][j] = f
                                           /\ \A q \in Proc, x \in Fd : q # p \/ x # c => (ofile'[q][x] = f <=> ofile[q][x] = f)
                                           /\ \A q \in Proc, x \in Local : q # p \/ x # j => (held[q][x] = f <=> held'[q][x] = f)
          <6>1. CASE f = rf
            <7>1. /\ ofile'[p][d] = f /\ ofile[p][d] # f /\ held'[p][1] # f /\ held[p][1] = f
                  /\ \A q \in Proc, x \in Fd : q # p \/ x # d => (ofile'[q][x] = f <=> ofile[q][x] = f)
                  /\ \A q \in Proc, x \in Local : q # p \/ x # 1 => (held[q][x] = f <=> held'[q][x] = f)
              BY <1>1, <1>2, <1>4, <2>1, <2>2, <2>3, <2>5, <4>1, <6>1 DEF Local
            <7> QED BY ONLY <7>1, d \in Fd, Slots
          <6>2. CASE f = wf
            <7>1. /\ ofile'[p][e] = f /\ ofile[p][e] # f /\ held'[p][2] # f /\ held[p][2] = f
                  /\ \A q \in Proc, x \in Fd : q # p \/ x # e => (ofile'[q][x] = f <=> ofile[q][x] = f)
                  /\ \A q \in Proc, x \in Local : q # p \/ x # 2 => (held[q][x] = f <=> held'[q][x] = f)
              BY <1>1, <1>3, <1>4, <2>1, <2>2, <2>3, <2>5, <4>1, <6>2 DEF Local
            <7> QED BY ONLY <7>1, e \in Fd, Slots
          <6> QED BY <4>4, <6>1, <6>2
        <5>2. Count(ofile', Fd, f) = Count(ofile, Fd, f) + 1 BY ONLY <5>1, p \in Proc, Slots, CountMore
        <5>3. Count(held, Local, f) = Count(held', Local, f) + 1 BY ONLY <5>1, p \in Proc, Slots, CountMore
        <5> QED BY <1>1, <4>1, <4>2, <5>2, <5>3
      <4> QED BY <4>3, <4>4
    <3>2. FileRefs' BY <3>1 DEF FileRefs, Count
    <3>3. InHand'
      <4>1. \A q \in Proc : ff[q] = ff'[q] BY <1>1
      <4>2. ff'[p] = None /\ \A j \in Local : held'[p][j] = 0 BY <1>1, <2>3 DEF Table, InHand, Local
      <4>3. ASSUME NEW q \in Proc, q # p
            PROVE  (/\ pc[q] \notin {"pipe", "close"} => \A j \in Local : held[q][j] = 0
                    /\ pc[q] \notin {"close", "exit"} => ff[q] = None
                    /\ pc[q] = "none" => \A c \in Fd : ofile[q][c] = 0
                    /\ pc[q] = "pipe" => /\ held[q][1] # 0 /\ held[q][1] # held[q][2]
                                         /\ \A j \in Local : held[q][j] # 0 => ref[held[q][j]] = 1 /\ obj[held[q][j]] = None)'
        <5>1. /\ pc'[q] = pc[q] /\ \A j \in Local : held'[q][j] = held[q][j]
              /\ \A c \in Fd : ofile'[q][c] = ofile[q][c]
          BY <2>2, <2>3, <2>4, <4>3
        <5>2. pc[q] = "pipe" => \A j \in Local : held'[q][j] # 0 => ref'[held'[q][j]] = 1 /\ obj'[held'[q][j]] = None
          BY <1>6, <4>3, <5>1
        <5>3. pc[q] = "pipe" => held'[q][1] # 0 /\ held'[q][1] # held'[q][2]
          BY <5>1, Slots DEF Table, InHand
        <5> QED BY <4>1, <5>1, <5>2, <5>3 DEF Table, InHand
      <4> QED BY <1>5, <2>4, <4>2, <4>3 DEF InHand
    <3> QED BY <2>6, <3>2, <3>3 DEF Table
  <2> QED BY <2>7
<1> QED BY <1>7, <1>8 DEF PipeCreate, FreeFds, Goto, rf, wf

(* Where a closing process goes: back to user space or out of the table     *)
(* only with nothing left to close.                                         *)
LEMMA ClosedPc ==
    ASSUME Table, NEW p \in Proc, Closed(p), pc[p] \in {"close", "exit"}
    PROVE  /\ pc' \in [Proc -> {"none", "user", "pipe", "close", "exit", "read", "write"}]
           /\ \A q \in Proc \ {p} : pc'[q] = pc[q]
           /\ \/ pc'[p] = pc[p]
              \/ /\ pc'[p] \in {"none", "user"} /\ (pc'[p] = "none" <=> pc[p] = "exit")
                 /\ ff'[p] = None /\ (\A i \in Local : held'[p][i] = 0)
                 /\ pc[p] = "exit" => \A d \in Fd : ofile'[p][d] = 0
BY DEF Closed, Goto, Table, TableTypes

(* fileclose() drops one reference from one place. *)
LEMMA FileCloseTable ==
    ASSUME Table, NEW p \in Proc, FileClose(p)
    PROVE  Table'
<1>1. pc[p] \in {"close", "exit"} /\ ff[p] = None /\ Closed(p) BY DEF FileClose
<1>2. PICK f \in File : /\ FileUnref(p, f)
                        /\ \/ /\ pc[p] = "close" /\ UNCHANGED ofile
                              /\ \E i \in Local : held[p][i] = f /\ held' = [held EXCEPT ![p][i] = 0]
                           \/ /\ pc[p] = "exit" /\ UNCHANGED held
                              /\ \E d \in Fd : ofile[p][d] = f /\ ofile' = [ofile EXCEPT ![p][d] = 0]
  <2>1. CASE pc[p] = "close"
    <3>1. PICK i \in Local : held[p][i] # 0 /\ FileUnref(p, held[p][i]) /\ held' = [held EXCEPT ![p][i] = 0] /\ UNCHANGED ofile
      BY <2>1 DEF FileClose
    <3>2. held[p][i] \in File BY <3>1 DEF Table, TableTypes
    <3> QED BY <2>1, <3>1, <3>2
  <2>2. CASE pc[p] = "exit"
    <3>1. PICK d \in Fd : ofile[p][d] # 0 /\ FileUnref(p, ofile[p][d]) /\ ofile' = [ofile EXCEPT ![p][d] = 0] /\ UNCHANGED held
      BY <2>2 DEF FileClose
    <3>2. ofile[p][d] \in File BY <3>1 DEF Table, TableTypes
    <3> QED BY <2>2, <3>1, <3>2
  <2> QED BY <1>1, <2>1, <2>2
<1>3. f # 0 /\ ref[f] \in Nat /\ ref[f] > 0
  BY <1>2, FileIs, Referenced DEF Table, TableTypes
<1>4. /\ ref' \in [File -> Nat] /\ ref'[f] = ref[f] - 1 /\ \A e \in File \ {f} : ref'[e] = ref[e]
  BY <1>2, <1>3 DEF FileUnref, Table, TableTypes
<1>5. /\ obj' \in [File -> {None} \cup Ends] /\ (\A e \in File \ {f} : obj'[e] = obj[e])
      /\ ref[f] = 1 => obj'[f] = None
      /\ ref[f] # 1 => obj'[f] = obj[f]
  BY <1>2 DEF FileUnref, Table, TableTypes
<1>6. ff' \in [Proc -> {None} \cup Ends] /\ \A q \in Proc \ {p} : ff'[q] = ff[q]
  BY <1>2 DEF FileUnref, Table, TableTypes
<1>7. /\ ofile' \in [Proc -> [Fd -> File \cup {0}]] /\ held' \in [Proc -> [Local -> File \cup {0}]]
      /\ \A q \in Proc \ {p} : ofile'[q] = ofile[q] /\ held'[q] = held[q]
      /\ pc[p] = "exit" => held' = held
  <2>1. CASE pc[p] = "close"
    <3>1. PICK i \in Local : held' = [held EXCEPT ![p][i] = 0] /\ ofile' = ofile BY <1>2, <2>1
    <3> QED BY <2>1, <3>1 DEF Table, TableTypes
  <2>2. CASE pc[p] = "exit"
    <3>1. PICK d \in Fd : ofile' = [ofile EXCEPT ![p][d] = 0] /\ held' = held BY <1>2, <2>2
    <3> QED BY <3>1 DEF Table, TableTypes
  <2> QED BY <1>1, <2>1, <2>2
<1>8. /\ pc' \in [Proc -> {"none", "user", "pipe", "close", "exit", "read", "write"}]
      /\ \A q \in Proc \ {p} : pc'[q] = pc[q]
      /\ \/ pc'[p] = pc[p]
         \/ /\ pc'[p] \in {"none", "user"} /\ (pc'[p] = "none" <=> pc[p] = "exit")
            /\ ff'[p] = None /\ (\A i \in Local : held'[p][i] = 0)
            /\ pc[p] = "exit" => \A d \in Fd : ofile'[p][d] = 0
  BY <1>1, ClosedPc
<1>9. TableTypes' BY <1>4, <1>5, <1>6, <1>7, <1>8 DEF TableTypes
<1>10. FileRefs'
  <2>1. ASSUME NEW e \in File PROVE ref'[e] = Count(ofile', Fd, e) + Count(held', Local, e)
    <3>1. e # 0 /\ ref[e] = Count(ofile, Fd, e) + Count(held, Local, e) BY FileIs DEF Table, FileRefs
    <3>2. /\ Count(ofile, Fd, e) \in Nat /\ Count(held, Local, e) \in Nat
          /\ Count(ofile', Fd, e) \in Nat /\ Count(held', Local, e) \in Nat
      BY Slots, CountIs
    <3>3. CASE pc[p] = "close"
      <4>1. PICK i \in Local : held[p][i] = f /\ held' = [held EXCEPT ![p][i] = 0] BY <1>2, <3>3
      <4>2. ofile' = ofile BY <1>2, <3>3
      <4>3. \A q \in Proc, j \in Local : held'[q][j] = IF q = p /\ j = i THEN 0 ELSE held[q][j]
        BY <4>1 DEF Table, TableTypes
      <4>4. CASE e = f
        <5>1. held'[p][i] # e /\ held[p][i] = e
              /\ \A q \in Proc, j \in Local : q # p \/ j # i => (held[q][j] = e <=> held'[q][j] = e)
          BY <3>1, <4>1, <4>3, <4>4
        <5>2. Count(held, Local, e) = Count(held', Local, e) + 1
          BY ONLY <5>1, p \in Proc, i \in Local, Slots, CountMore
        <5> QED BY <1>4, <3>1, <3>2, <4>2, <4>4, <5>2
      <4>5. CASE e # f
        <5>1. \A q \in Proc, j \in Local : held'[q][j] = e <=> held[q][j] = e BY <3>1, <4>1, <4>3, <4>5
        <5>2. Count(held', Local, e) = Count(held, Local, e) BY ONLY <5>1, CountSame
        <5> QED BY <1>4, <3>1, <4>2, <4>5, <5>2
      <4> QED BY <4>4, <4>5
    <3>4. CASE pc[p] = "exit"
      <4>1. PICK d \in Fd : ofile[p][d] = f /\ ofile' = [ofile EXCEPT ![p][d] = 0] BY <1>2, <3>4
      <4>2. held' = held BY <1>2, <3>4
      <4>3. \A q \in Proc, c \in Fd : ofile'[q][c] = IF q = p /\ c = d THEN 0 ELSE ofile[q][c]
        BY <4>1 DEF Table, TableTypes
      <4>4. CASE e = f
        <5>1. ofile'[p][d] # e /\ ofile[p][d] = e
              /\ \A q \in Proc, c \in Fd : q # p \/ c # d => (ofile[q][c] = e <=> ofile'[q][c] = e)
          BY <3>1, <4>1, <4>3, <4>4
        <5>2. Count(ofile, Fd, e) = Count(ofile', Fd, e) + 1
          BY ONLY <5>1, p \in Proc, d \in Fd, Slots, CountMore
        <5> QED BY <1>4, <3>1, <3>2, <4>2, <4>4, <5>2
      <4>5. CASE e # f
        <5>1. \A q \in Proc, c \in Fd : ofile'[q][c] = e <=> ofile[q][c] = e BY <3>1, <4>1, <4>3, <4>5
        <5>2. Count(ofile', Fd, e) = Count(ofile, Fd, e) BY ONLY <5>1, CountSame
        <5> QED BY <1>4, <3>1, <4>2, <4>5, <5>2
      <4> QED BY <4>4, <4>5
    <3> QED BY <1>1, <3>3, <3>4
  <2> QED BY <2>1 DEF FileRefs, Count
<1>11. InHand'
  <2>1. \A e \in File : (ref[e] = 0 => obj[e] = None)'
    BY <1>3, <1>4, <1>5 DEF Table, InHand
  <2>2. ASSUME NEW q \in Proc, q # p, pc[q] = "pipe", NEW j \in Local, held[q][j] # 0
        PROVE  ref'[held[q][j]] = 1 /\ obj'[held[q][j]] = None
    <3>1. held[q][j] \in File \ {f} /\ ref[held[q][j]] = 1 /\ obj[held[q][j]] = None
      BY <1>2, <2>2, OwnFiles
    <3> QED BY <1>4, <1>5, <3>1
  <2>3. ASSUME NEW q \in Proc, q # p
        PROVE  (/\ pc[q] \notin {"pipe", "close"} => \A j \in Local : held[q][j] = 0
                /\ pc[q] \notin {"close", "exit"} => ff[q] = None
                /\ pc[q] = "none" => \A c \in Fd : ofile[q][c] = 0
                /\ pc[q] = "pipe" => /\ held[q][1] # 0 /\ held[q][1] # held[q][2]
                                     /\ \A j \in Local : held[q][j] # 0 => ref[held[q][j]] = 1 /\ obj[held[q][j]] = None)'
    <3>1. pc'[q] = pc[q] /\ held'[q] = held[q] /\ ofile'[q] = ofile[q] /\ ff'[q] = ff[q]
      BY <1>6, <1>7, <1>8, <2>3
    <3>2. pc[q] = "pipe" => \A j \in Local : held'[q][j] # 0 => ref'[held'[q][j]] = 1 /\ obj'[held'[q][j]] = None
      BY <2>2, <2>3, <3>1
    <3> QED BY <3>1, <3>2 DEF Table, InHand
  <2>4. (/\ pc[p] \notin {"pipe", "close"} => \A j \in Local : held[p][j] = 0
         /\ pc[p] \notin {"close", "exit"} => ff[p] = None
         /\ pc[p] = "none" => \A c \in Fd : ofile[p][c] = 0
         /\ pc[p] # "pipe")'
    BY <1>1, <1>7, <1>8 DEF Table, InHand
  <2> QED BY <2>1, <2>3, <2>4 DEF InHand
<1> QED BY <1>9, <1>10, <1>11 DEF Table

LEMMA CloseObjectTable ==
    ASSUME Table, NEW p \in Proc, CloseObject(p)
    PROVE  Table'
<1>1. /\ ff[p] # None /\ UNCHANGED <<ref, obj, ofile, held>> /\ ff' = [ff EXCEPT ![p] = None] /\ Closed(p)
  BY DEF CloseObject
<1>2. pc[p] \in {"close", "exit"} BY <1>1 DEF Table, InHand
<1>3. /\ pc' \in [Proc -> {"none", "user", "pipe", "close", "exit", "read", "write"}]
      /\ \A q \in Proc \ {p} : pc'[q] = pc[q]
      /\ \/ pc'[p] = pc[p]
         \/ /\ pc'[p] \in {"none", "user"} /\ (pc'[p] = "none" <=> pc[p] = "exit")
            /\ ff'[p] = None /\ (\A i \in Local : held'[p][i] = 0)
            /\ pc[p] = "exit" => \A d \in Fd : ofile'[p][d] = 0
  BY <1>1, <1>2, ClosedPc
<1>4. ff' \in [Proc -> {None} \cup Ends] /\ ff'[p] = None /\ \A q \in Proc \ {p} : ff'[q] = ff[q]
  BY <1>1 DEF Table, TableTypes
<1>5. TableTypes' BY <1>1, <1>3, <1>4 DEF Table, TableTypes
<1>6. FileRefs'
  <2>1. ASSUME NEW f \in File PROVE ref'[f] = Count(ofile', Fd, f) + Count(held', Local, f)
    BY <1>1 DEF Table, FileRefs
  <2> QED BY <2>1 DEF FileRefs, Count
<1>7. InHand'
  <2>1. ASSUME NEW q \in Proc
        PROVE  (/\ pc[q] \notin {"pipe", "close"} => \A j \in Local : held[q][j] = 0
                /\ pc[q] \notin {"close", "exit"} => ff[q] = None
                /\ pc[q] = "none" => \A c \in Fd : ofile[q][c] = 0
                /\ pc[q] = "pipe" => /\ held[q][1] # 0 /\ held[q][1] # held[q][2]
                                     /\ \A j \in Local : held[q][j] # 0 => ref[held[q][j]] = 1 /\ obj[held[q][j]] = None)'
    <3>1. CASE q = p BY <1>1, <1>2, <1>3, <3>1 DEF Table, InHand
    <3>2. CASE q # p BY <1>1, <1>3, <1>4, <3>2 DEF Table, InHand
    <3> QED BY <3>1, <3>2
  <2> QED BY <1>1, <2>1 DEF Table, InHand
<1> QED BY <1>5, <1>6, <1>7 DEF Table

(* Steps that leave every file alone, by where they take a process. *)
LEMMA QuietSteps ==
    ASSUME Table, NEW p \in Proc,
           \/ Exit(p) \/ PipeNoMemory(p) \/ Read(p) \/ Write(p) \/ Kill(p)
           \/ pc[p] = "pipe" /\ Goto(p, "close") /\ UNCHANGED files
    PROVE  Table'
<1>1. UNCHANGED files BY DEF Exit, PipeNoMemory, Read, Write, Enter, Kill
<1>2. CASE UNCHANGED pc BY <1>1, <1>2, QuietTable DEF Table, TableTypes
<1>3. CASE ~UNCHANGED pc
  <2>1. \E c \in {"none", "user", "close", "exit", "read", "write"} :
           /\ pc' = [pc EXCEPT ![p] = c]
           /\ \/ pc[p] \in {"user", "read", "write"} /\ c \in {"user", "read", "write", "exit"}
              \/ pc[p] = "user" /\ c = "none" /\ \A d \in Fd : ofile[p][d] = 0
              \/ pc[p] = "pipe" /\ c = "close"
    <3>1. CASE Exit(p) BY <3>1 DEF Exit, Goto
    <3>2. CASE PipeNoMemory(p) BY <3>2 DEF PipeNoMemory, Goto
    <3>3. CASE Read(p) BY <1>3, <3>3 DEF Read, Enter, PipeRead, Return, Argfd, Calls, Goto
    <3>4. CASE Write(p) BY <1>3, <3>4 DEF Write, Enter, PipeWrite, WriteFull, Return, Argfd, Calls, Goto
    <3>5. CASE Kill(p) BY <1>3, <3>5 DEF Kill
    <3>6. CASE pc[p] = "pipe" /\ Goto(p, "close") BY <3>6 DEF Goto
    <3> QED BY <3>1, <3>2, <3>3, <3>4, <3>5, <3>6
  <2>2. PICK c \in {"none", "user", "close", "exit", "read", "write"} :
           /\ pc' = [pc EXCEPT ![p] = c]
           /\ \/ pc[p] \in {"user", "read", "write"} /\ c \in {"user", "read", "write", "exit"}
              \/ pc[p] = "user" /\ c = "none" /\ \A d \in Fd : ofile[p][d] = 0
              \/ pc[p] = "pipe" /\ c = "close"
    BY <2>1
  <2>3. pc' \in [Proc -> {"none", "user", "pipe", "close", "exit", "read", "write"}]
        /\ pc'[p] = c /\ \A q \in Proc \ {p} : pc'[q] = pc[q]
    BY <2>2 DEF Table, TableTypes
  <2> QED BY <1>1, <2>2, <2>3, QuietTable
<1> QED BY <1>2, <1>3

LEMMA PipeAllocTable ==
    ASSUME Table, NEW p \in Proc, (\E f \in File : PipeFirst(p, f)) \/ PipeSecond(p)
    PROVE  Table'
<1>1. CASE \E f \in File : PipeFirst(p, f)
  <2>1. PICK f \in File : PipeFirst(p, f) BY <1>1
  <2>2. held[p][1] = 0 BY <2>1, Slots DEF PipeFirst, Calls, Table, InHand
  <2>3. Allocates(p, f, 1) BY <2>1, <2>2 DEF PipeFirst, Allocates, Calls, Goto
  <2> QED BY <2>3, Slots, AllocTable
<1>2. CASE PipeSecond(p)
  <2>1. CASE \E f \in File : FileFree(f) /\ ref' = [ref EXCEPT ![f] = 1] /\ held' = [held EXCEPT ![p][2] = f] /\ UNCHANGED pc
    <3>1. PICK f \in File : Allocates(p, f, 2) BY <1>2, <2>1 DEF PipeSecond, Allocates
    <3> QED BY <3>1, Slots, AllocTable
  <2>2. CASE Goto(p, "close") /\ UNCHANGED <<ref, held>>
    BY <1>2, <2>2, QuietSteps DEF PipeSecond, files
  <2> QED BY <1>2, <2>1, <2>2 DEF PipeSecond
<1> QED BY <1>1, <1>2

LEMMA NextTable == Table /\ [Next]_vars => Table'
<1> SUFFICES ASSUME Table, [Next]_vars PROVE Table' OBVIOUS
<1>1. CASE UNCHANGED vars BY <1>1, QuietTable DEF vars, files, Table, TableTypes
<1>2. CASE Next
  BY <1>2, PipeAllocTable, QuietSteps, CreateTable, CloseTable, DupTable, ForkTable, FileCloseTable,
     CloseObjectTable DEF Next, SysPipe
<1> QED BY <1>1, <1>2

LEMMA TableHolds == Spec => []Table
BY InitTable, NextTable, PTL DEF Spec

-----------------------------------------------------------------------------
(* The life of a pipe. *)

Flags == live \subseteq Page /\ readopen \in [Page -> BOOLEAN] /\ writeopen \in [Page -> BOOLEAN]

(* The files and closing processes that speak for an end of a pipe. *)
Speakers(o) == Cardinality(Refers(o)) + Cardinality(Closing(o))

PageLives(g) == /\ g \in live <=> (readopen[g] \/ writeopen[g])
                /\ Speakers(PipeEnd(g, FALSE)) = IF readopen[g] THEN 1 ELSE 0
                /\ Speakers(PipeEnd(g, TRUE)) = IF writeopen[g] THEN 1 ELSE 0

PagesLive == \A g \in Page : PageLives(g)

Lives == Flags /\ PagesLive

LEMMA LivesIs == PipeLives <=> PagesLive
BY DEF PipeLives, PagesLive, PageLives, Speakers

LEMMA RefersIs ==
    ASSUME Table, NEW o, o # None
    PROVE  /\ Refers(o) = {f \in File : obj[f] = o}
           /\ IsFiniteSet(Refers(o)) /\ Cardinality(Refers(o)) \in Nat
           /\ IsFiniteSet(Closing(o)) /\ Cardinality(Closing(o)) \in Nat
<1>1. Refers(o) = {f \in File : obj[f] = o} BY DEF Refers, Table, TableTypes, InHand
<1>2. IsFiniteSet(File) BY TableAssumption, FS_Interval DEF File
<1>3. Refers(o) \subseteq File /\ Closing(o) \subseteq Proc BY DEF Refers, Closing
<1> QED BY <1>1, <1>2, <1>3, TableAssumption, FS_Subset, FS_CardinalityType

(* Who speaks for an end, by the number of them. *)
LEMMA Silent ==
    ASSUME Table, NEW o, o # None
    PROVE  Speakers(o) = 0 <=> (\A f \in File : obj[f] # o) /\ (\A p \in Proc : ff[p] # o)
<1>1. Speakers(o) = 0 <=> Cardinality(Refers(o)) = 0 /\ Cardinality(Closing(o)) = 0
  BY RefersIs DEF Speakers
<1>2. Speakers(o) = 0 <=> Refers(o) = {} /\ Closing(o) = {} BY <1>1, RefersIs, FS_EmptySet
<1>3. Refers(o) = {} <=> \A f \in File : obj[f] # o BY RefersIs
<1>4. Closing(o) = {} <=> \A p \in Proc : ff[p] # o BY DEF Closing
<1> QED BY <1>2, <1>3, <1>4

(* The same after a step. *)
LEMMA RefersAre ==
    ASSUME Table', NEW o, o # None
    PROVE  Refers(o)' = {f \in File : obj'[f] = o} /\ Closing(o)' = {p \in Proc : ff'[p] = o}
BY DEF Refers, Closing, Table, TableTypes, InHand

LEMMA OneFile ==
    ASSUME Table', NEW o, o # None, NEW f \in File, \A e \in File : obj'[e] = o <=> e = f,
           \A p \in Proc : ff'[p] # o
    PROVE  Speakers(o)' = 1
<1>1. Refers(o)' = {f} /\ Closing(o)' = {} BY RefersAre
<1>2. Cardinality({f}) = 1 BY FS_Singleton
<1>3. Cardinality({}) = 0 BY FS_EmptySet
<1> QED BY <1>1, <1>2, <1>3 DEF Speakers

LEMMA OneProc ==
    ASSUME Table', NEW o, o # None, NEW p \in Proc, \A q \in Proc : ff'[q] = o <=> q = p,
           \A e \in File : obj'[e] # o
    PROVE  Speakers(o)' = 1
<1>1. Refers(o)' = {} /\ Closing(o)' = {p} BY RefersAre
<1>2. Cardinality({p}) = 1 BY FS_Singleton
<1>3. Cardinality({}) = 0 BY FS_EmptySet
<1> QED BY <1>1, <1>2, <1>3 DEF Speakers

LEMMA NobodyLeft ==
    ASSUME Table', NEW o, o # None, \A q \in Proc : ff'[q] # o, \A e \in File : obj'[e] # o
    PROVE  Speakers(o)' = 0
<1>1. Refers(o)' = {} /\ Closing(o)' = {} BY RefersAre
<1>2. Cardinality({}) = 0 BY FS_EmptySet
<1> QED BY <1>1, <1>2 DEF Speakers

(* A sole speaker is the only one. *)
LEMMA SoleFile ==
    ASSUME Table, NEW o, o # None, Speakers(o) = 1, NEW f \in File, obj[f] = o
    PROVE  (\A e \in File : obj[e] = o <=> e = f) /\ (\A p \in Proc : ff[p] # o)
<1>1. f \in Refers(o) BY RefersIs
<1>2. Cardinality(Refers(o)) # 0 BY <1>1, RefersIs, FS_EmptySet
<1>3. Cardinality(Refers(o)) = 1 /\ Cardinality(Closing(o)) = 0 BY <1>2, RefersIs DEF Speakers
<1>4. PICK x : Refers(o) = {x} BY <1>3, RefersIs, FS_Singleton
<1>5. Closing(o) = {} BY <1>3, RefersIs, FS_EmptySet
<1>6. Refers(o) = {e \in File : obj[e] = o} BY RefersIs
<1> QED BY <1>1, <1>4, <1>5, <1>6 DEF Closing

LEMMA SoleProc ==
    ASSUME Table, NEW o, o # None, Speakers(o) = 1, NEW p \in Proc, ff[p] = o
    PROVE  (\A q \in Proc : ff[q] = o <=> q = p) /\ (\A e \in File : obj[e] # o)
<1>1. p \in Closing(o) BY DEF Closing
<1>2. Cardinality(Closing(o)) # 0 BY <1>1, RefersIs, FS_EmptySet
<1>3. Cardinality(Closing(o)) = 1 /\ Cardinality(Refers(o)) = 0 BY <1>2, RefersIs DEF Speakers
<1>4. PICK x : Closing(o) = {x} BY <1>3, RefersIs, FS_Singleton
<1>5. Refers(o) = {} BY <1>3, RefersIs, FS_EmptySet
<1>6. Refers(o) = {e \in File : obj[e] = o} BY RefersIs
<1> QED BY <1>1, <1>4, <1>5, <1>6 DEF Closing

(* An end that somebody speaks for is open. *)
LEMMA EndOpen ==
    ASSUME Table, Lives, NEW g \in Page, NEW f \in File
    PROVE  /\ obj[f] = PipeEnd(g, FALSE) => readopen[g] /\ g \in live
           /\ obj[f] = PipeEnd(g, TRUE) => writeopen[g] /\ g \in live
<1>1. PipeEnd(g, FALSE) # None /\ PipeEnd(g, TRUE) # None BY DEF PipeEnd, None
<1>2. PageLives(g) BY DEF Lives, PagesLive
<1>3. obj[f] = PipeEnd(g, FALSE) => Speakers(PipeEnd(g, FALSE)) # 0 BY <1>1, Silent
<1>4. obj[f] = PipeEnd(g, TRUE) => Speakers(PipeEnd(g, TRUE)) # 0 BY <1>1, Silent
<1> QED BY <1>2, <1>3, <1>4 DEF PageLives

LEMMA SpeakersSame ==
    ASSUME Table, Table', NEW o, o # None,
           \A f \in File : obj'[f] = o <=> obj[f] = o, \A p \in Proc : ff'[p] = o <=> ff[p] = o
    PROVE  Speakers(o)' = Speakers(o)
<1>1. Refers(o)' = {f \in File : obj'[f] = o} BY DEF Refers, Table, TableTypes, InHand
<1>2. Refers(o)' = Refers(o) BY <1>1, RefersIs
<1>3. Closing(o)' = Closing(o) BY DEF Closing
<1> QED BY <1>2, <1>3 DEF Speakers

(* A page whose flags and ends are left alone. *)
LEMMA PageSame ==
    ASSUME Table, Table', Lives, NEW g \in Page, g \in live' <=> g \in live,
           readopen'[g] <=> readopen[g], writeopen'[g] <=> writeopen[g],
           \A w \in BOOLEAN : /\ \A f \in File : obj'[f] = PipeEnd(g, w) <=> obj[f] = PipeEnd(g, w)
                              /\ \A p \in Proc : ff'[p] = PipeEnd(g, w) <=> ff[p] = PipeEnd(g, w)
    PROVE  PageLives(g)'
<1>1. PipeEnd(g, FALSE) # None /\ PipeEnd(g, TRUE) # None BY DEF PipeEnd, None
<1>2. Speakers(PipeEnd(g, FALSE))' = Speakers(PipeEnd(g, FALSE)) BY <1>1, SpeakersSame
<1>3. Speakers(PipeEnd(g, TRUE))' = Speakers(PipeEnd(g, TRUE)) BY <1>1, SpeakersSame
<1>4. PageLives(g) BY DEF Lives, PagesLive
<1> QED BY <1>2, <1>3, <1>4 DEF PageLives

LEMMA LivesSame ==
    ASSUME Table, Table', Lives, UNCHANGED <<obj, ff, live, readopen, writeopen>>
    PROVE  Lives'
<1>1. Flags' BY DEF Lives, Flags
<1>2. ASSUME NEW g \in Page PROVE PageLives(g)' BY <1>2, PageSame
<1> QED BY <1>1, <1>2 DEF Lives, PagesLive

(* pipealloc(): the page is free, so nobody spoke for its ends. *)
LEMMA CreateLives ==
    ASSUME Table, Table', Lives, NEW p \in Proc, NEW g \in Page, PipeCreate(p, g)
    PROVE  Lives'
<1> DEFINE rf == held[p][1]
           wf == held[p][2]
           R == PipeEnd(g, FALSE)
           W == PipeEnd(g, TRUE)
<1>1. /\ rf \in File /\ wf \in File /\ rf # wf /\ pc[p] = "pipe"
      /\ obj'[rf] = R /\ obj'[wf] = W
      /\ \A f \in File \ {rf, wf} : obj'[f] = obj[f]
      /\ UNCHANGED <<ref, ff>>
  BY CreateFiles
<1>2. obj[rf] = None /\ obj[wf] = None BY <1>1, FileIs, Slots, OwnFiles
<1>3. /\ g \notin live /\ live' = live \cup {g}
      /\ readopen' = [readopen EXCEPT ![g] = TRUE] /\ writeopen' = [writeopen EXCEPT ![g] = TRUE]
  BY DEF PipeCreate, PipeSetup
<1>4. ~readopen[g] /\ ~writeopen[g] /\ Speakers(R) = 0 /\ Speakers(W) = 0
  BY <1>3 DEF Lives, PagesLive, PageLives
<1>5. R # None /\ W # None /\ R # W BY DEF PipeEnd, None
<1>6. /\ \A f \in File : obj[f] # R /\ obj[f] # W
      /\ \A q \in Proc : ff[q] # R /\ ff[q] # W
  BY <1>4, <1>5, Silent
<1> HIDE DEF rf, wf
<1>7. /\ \A e \in File : obj'[e] = R <=> e = rf
      /\ \A e \in File : obj'[e] = W <=> e = wf
      /\ \A q \in Proc : ff'[q] # R /\ ff'[q] # W
  BY <1>1, <1>5, <1>6
<1>8. Speakers(R)' = 1 BY <1>1, <1>5, <1>7, OneFile
<1>9. Speakers(W)' = 1 BY <1>1, <1>5, <1>7, OneFile
<1>10. live' \subseteq Page /\ g \in live' BY <1>3 DEF Lives, Flags
<1>11. readopen' \in [Page -> BOOLEAN] BY <1>3 DEF Lives, Flags
<1>12. writeopen' \in [Page -> BOOLEAN] BY <1>3 DEF Lives, Flags
<1>13. readopen'[g] BY <1>3 DEF Lives, Flags
<1>14. writeopen'[g] BY <1>3 DEF Lives, Flags
<1>15. ASSUME NEW h \in Page PROVE PageLives(h)'
  <2>1. CASE h = g BY <1>8, <1>9, <1>10, <1>13, <1>14, <2>1 DEF PageLives
  <2>2. CASE h # g
    <3>1. ASSUME NEW w \in BOOLEAN
          PROVE  /\ \A f \in File : obj'[f] = PipeEnd(h, w) <=> obj[f] = PipeEnd(h, w)
                 /\ \A q \in Proc : ff'[q] = PipeEnd(h, w) <=> ff[q] = PipeEnd(h, w)
      <4>1. PipeEnd(h, w) \notin {None, R, W} BY <2>2 DEF PipeEnd, None
      <4> QED BY <1>1, <1>2, <4>1
    <3>2. h \in live' <=> h \in live BY <1>3, <2>2
    <3>3. readopen'[h] <=> readopen[h] BY <1>3, <2>2 DEF Lives, Flags
    <3>4. writeopen'[h] <=> writeopen[h] BY <1>3, <2>2 DEF Lives, Flags
    <3> QED BY <3>1, <3>2, <3>3, <3>4, PageSame
  <2> QED BY <2>1, <2>2
<1> QED BY <1>10, <1>11, <1>12, <1>15 DEF Lives, Flags, PagesLive

LEMMA InitLives == Init => Lives
<1> SUFFICES ASSUME Init PROVE Lives OBVIOUS
<1>1. Flags BY DEF Init, PipeInit, Flags
<1>2. ASSUME NEW g \in Page PROVE PageLives(g)
  <2>1. PipeEnd(g, FALSE) # None /\ PipeEnd(g, TRUE) # None BY DEF PipeEnd, None
  <2>2. Speakers(PipeEnd(g, FALSE)) = 0 BY <2>1, InitTable, Silent DEF Init
  <2>3. Speakers(PipeEnd(g, TRUE)) = 0 BY <2>1, InitTable, Silent DEF Init
  <2>4. g \notin live /\ ~readopen[g] /\ ~writeopen[g] BY DEF Init, PipeInit
  <2> QED BY <2>2, <2>3, <2>4 DEF PageLives
<1> QED BY <1>1, <1>2 DEF Lives, PagesLive

(* fileclose(): with the last reference the process takes over from the file. *)
LEMMA FileCloseLives ==
    ASSUME Table, Table', Lives, NEW p \in Proc, FileClose(p)
    PROVE  Lives'
<1>1. ff[p] = None /\ UNCHANGED <<live, readopen, writeopen>> BY DEF FileClose, ring
<1>2. PICK f \in File : FileUnref(p, f)
  <2>1. CASE pc[p] = "close"
    <3>1. PICK i \in Local : held[p][i] # 0 /\ FileUnref(p, held[p][i]) BY <2>1 DEF FileClose
    <3> QED BY <3>1 DEF Table, TableTypes
  <2>2. CASE pc[p] = "exit"
    <3>1. PICK d \in Fd : ofile[p][d] # 0 /\ FileUnref(p, ofile[p][d]) BY <2>2 DEF FileClose
    <3> QED BY <3>1 DEF Table, TableTypes
  <2> QED BY <2>1, <2>2 DEF FileClose
<1>3. /\ \A e \in File \ {f} : obj'[e] = obj[e]
      /\ \A q \in Proc \ {p} : ff'[q] = ff[q]
      /\ ref[f] = 1 => obj'[f] = None /\ ff'[p] = obj[f]
      /\ ref[f] # 1 => obj'[f] = obj[f] /\ ff'[p] = None
  BY <1>2 DEF FileUnref, Table, TableTypes
<1>4. Flags' BY <1>1 DEF Lives, Flags
<1>5. ASSUME NEW g \in Page PROVE PageLives(g)'
  <2>1. ASSUME NEW w \in BOOLEAN PROVE Speakers(PipeEnd(g, w))' = Speakers(PipeEnd(g, w))
    <3> DEFINE o == PipeEnd(g, w)
    <3>1. o # None BY DEF PipeEnd, None
    <3> HIDE DEF o
    <3>2. CASE obj[f] = o /\ ref[f] = 1
      <4>1. Speakers(o) = 1
        <5>1. Speakers(o) # 0 BY <3>1, <3>2, Silent
        <5>2. Speakers(o) \in {0, 1} BY <2>1 DEF Lives, PagesLive, PageLives, o
        <5> QED BY <5>1, <5>2
      <4>2. (\A e \in File : obj[e] = o <=> e = f) /\ (\A q \in Proc : ff[q] # o)
        BY <3>1, <3>2, <4>1, SoleFile
      <4>3. (\A q \in Proc : ff'[q] = o <=> q = p) /\ (\A e \in File : obj'[e] # o)
        BY <1>3, <3>1, <3>2, <4>2
      <4> QED BY <3>1, <4>1, <4>3, OneProc DEF o
    <3>3. CASE ~(obj[f] = o /\ ref[f] = 1)
      <4>1. \A e \in File : obj'[e] = o <=> obj[e] = o BY <1>3, <3>1, <3>3
      <4>2. \A q \in Proc : ff'[q] = o <=> ff[q] = o BY <1>1, <1>3, <3>1, <3>3
      <4> QED BY <3>1, <4>1, <4>2, SpeakersSame DEF o
    <3> QED BY <3>2, <3>3
  <2>2. PageLives(g) BY DEF Lives, PagesLive
  <2> QED BY <1>1, <2>1, <2>2 DEF PageLives
<1> QED BY <1>4, <1>5 DEF Lives, PagesLive

(* pipeclose() is called for the end in ff, which nobody else speaks for. *)
LEMMA ClosesEnd ==
    ASSUME Table, Lives, NEW p \in Proc, CloseObject(p)
    PROVE  \E g \in Page, w \in BOOLEAN :
             /\ ff[p] = PipeEnd(g, w) /\ PipeClose(g, w) /\ g \in live
             /\ IF w THEN writeopen[g] ELSE readopen[g]
             /\ \A q \in Proc : ff[q] = PipeEnd(g, w) <=> q = p
             /\ \A f \in File : obj[f] # PipeEnd(g, w)
<1>1. ff[p] # None /\ PipeClose(ff[p][2], ff[p][3]) BY DEF CloseObject
<1>2. ff[p] \in Ends BY <1>1 DEF Table, TableTypes
<1>3. PICK g \in Page, w \in BOOLEAN : ff[p] = PipeEnd(g, w) BY <1>2 DEF Ends, PipeEnd
<1>4. PipeClose(g, w) BY <1>1, <1>3, EndIs
<1> DEFINE o == PipeEnd(g, w)
<1>5. o # None /\ ff[p] = o BY <1>3, EndIs
<1>6. PageLives(g) BY DEF Lives, PagesLive
<1>7. Speakers(o) = IF (IF w THEN writeopen[g] ELSE readopen[g]) THEN 1 ELSE 0
  BY <1>6 DEF PageLives
<1> HIDE DEF o
<1>8. Speakers(o) # 0 BY <1>5, Silent
<1>9. Speakers(o) = 1 /\ IF w THEN writeopen[g] ELSE readopen[g] BY <1>7, <1>8
<1>10. (\A q \in Proc : ff[q] = o <=> q = p) /\ (\A e \in File : obj[e] # o)
  BY <1>5, <1>9, SoleProc
<1>11. g \in live BY <1>6, <1>9 DEF PageLives
<1> QED BY <1>3, <1>4, <1>9, <1>10, <1>11 DEF o

(* What pipeclose() does to the flags of its page and of the others. *)
LEMMA CloseFlags ==
    ASSUME Flags, NEW g \in Page, NEW w \in BOOLEAN, PipeClose(g, w)
    PROVE  /\ Flags'
           /\ readopen'[g] <=> w /\ readopen[g]
           /\ writeopen'[g] <=> ~w /\ writeopen[g]
           /\ \A h \in Page \ {g} : /\ readopen'[h] <=> readopen[h]
                                    /\ writeopen'[h] <=> writeopen[h]
                                    /\ h \in live' <=> h \in live
           /\ live' = IF readopen'[g] \/ writeopen'[g] THEN live ELSE live \ {g}
<1>1. Kfree(g, ~readopen'[g] /\ ~writeopen'[g]) BY DEF PipeClose
<1>2. live' = IF readopen'[g] \/ writeopen'[g] THEN live ELSE live \ {g} BY <1>1 DEF Kfree
<1>3. live' \subseteq Page /\ \A h \in Page \ {g} : h \in live' <=> h \in live BY <1>2 DEF Flags
<1>4. CASE w
  <2>1. writeopen' = [writeopen EXCEPT ![g] = FALSE] /\ readopen' = readopen BY <1>4 DEF PipeClose
  <2>2. writeopen' \in [Page -> BOOLEAN] /\ readopen' \in [Page -> BOOLEAN] BY <2>1 DEF Flags
  <2>3. ~writeopen'[g] BY <2>1 DEF Flags
  <2>4. \A h \in Page \ {g} : writeopen'[h] <=> writeopen[h] BY <2>1 DEF Flags
  <2>5. \A h \in Page : readopen'[h] <=> readopen[h] BY <2>1
  <2> QED BY <1>2, <1>3, <1>4, <2>2, <2>3, <2>4, <2>5 DEF Flags
<1>5. CASE ~w
  <2>1. readopen' = [readopen EXCEPT ![g] = FALSE] /\ writeopen' = writeopen BY <1>5 DEF PipeClose
  <2>2. writeopen' \in [Page -> BOOLEAN] /\ readopen' \in [Page -> BOOLEAN] BY <2>1 DEF Flags
  <2>3. ~readopen'[g] BY <2>1 DEF Flags
  <2>4. \A h \in Page \ {g} : readopen'[h] <=> readopen[h] BY <2>1 DEF Flags
  <2>5. \A h \in Page : writeopen'[h] <=> writeopen[h] BY <2>1
  <2> QED BY <1>2, <1>3, <1>5, <2>2, <2>3, <2>4, <2>5 DEF Flags
<1> QED BY <1>4, <1>5

LEMMA CloseObjectLives ==
    ASSUME Table, Table', Lives, NEW p \in Proc, CloseObject(p)
    PROVE  Lives'
<1>1. PICK g \in Page, w \in BOOLEAN :
             /\ ff[p] = PipeEnd(g, w) /\ PipeClose(g, w) /\ g \in live
             /\ IF w THEN writeopen[g] ELSE readopen[g]
             /\ \A q \in Proc : ff[q] = PipeEnd(g, w) <=> q = p
             /\ \A f \in File : obj[f] # PipeEnd(g, w)
  BY ClosesEnd
<1>2. obj' = obj /\ ff'[p] = None /\ \A q \in Proc \ {p} : ff'[q] = ff[q]
  BY DEF CloseObject, Table, TableTypes
<1>3. /\ Flags'
      /\ readopen'[g] <=> w /\ readopen[g]
      /\ writeopen'[g] <=> ~w /\ writeopen[g]
      /\ \A h \in Page \ {g} : /\ readopen'[h] <=> readopen[h]
                               /\ writeopen'[h] <=> writeopen[h]
                               /\ h \in live' <=> h \in live
      /\ live' = IF readopen'[g] \/ writeopen'[g] THEN live ELSE live \ {g}
  BY <1>1, CloseFlags DEF Lives
<1>4. ASSUME NEW h \in Page, h # g PROVE PageLives(h)'
  <2>1. ASSUME NEW x \in BOOLEAN
        PROVE  /\ \A f \in File : obj'[f] = PipeEnd(h, x) <=> obj[f] = PipeEnd(h, x)
               /\ \A q \in Proc : ff'[q] = PipeEnd(h, x) <=> ff[q] = PipeEnd(h, x)
    <3>1. PipeEnd(h, x) # None /\ PipeEnd(h, x) # PipeEnd(g, w) BY <1>4, EndIs
    <3> QED BY <1>1, <1>2, <3>1
  <2>2. (h \in live' <=> h \in live) /\ (readopen'[h] <=> readopen[h]) /\ (writeopen'[h] <=> writeopen[h])
    BY <1>3, <1>4
  <2> QED BY <2>1, <2>2, PageSame
<1>5. PageLives(g)'
  <2>1. Speakers(PipeEnd(g, w))' = 0
    <3>1. PipeEnd(g, w) # None BY EndIs
    <3>2. \A q \in Proc : ff'[q] # PipeEnd(g, w) BY <1>1, <1>2, <3>1
    <3>3. \A f \in File : obj'[f] # PipeEnd(g, w) BY <1>1, <1>2
    <3> QED BY <3>1, <3>2, <3>3, NobodyLeft
  <2>2. Speakers(PipeEnd(g, ~w))' = Speakers(PipeEnd(g, ~w))
    <3>1. PipeEnd(g, ~w) # None /\ PipeEnd(g, ~w) # PipeEnd(g, w) BY EndIs
    <3>2. \A q \in Proc : ff'[q] = PipeEnd(g, ~w) <=> ff[q] = PipeEnd(g, ~w) BY <1>1, <1>2, <3>1
    <3> QED BY <1>2, <3>1, <3>2, SpeakersSame
  <2>3. PageLives(g) BY DEF Lives, PagesLive
  <2>4. g \in live' <=> (readopen'[g] \/ writeopen'[g]) BY <1>1, <1>3
  <2>5. CASE w
    <3>1. Speakers(PipeEnd(g, TRUE))' = 0 /\ Speakers(PipeEnd(g, FALSE))' = Speakers(PipeEnd(g, FALSE))
      BY <2>1, <2>2, <2>5
    <3> QED BY <1>3, <2>3, <2>4, <2>5, <3>1 DEF PageLives
  <2>6. CASE ~w
    <3>1. Speakers(PipeEnd(g, FALSE))' = 0 /\ Speakers(PipeEnd(g, TRUE))' = Speakers(PipeEnd(g, TRUE))
      BY <2>1, <2>2, <2>6
    <3> QED BY <1>3, <2>3, <2>4, <2>6, <3>1 DEF PageLives
  <2> QED BY <2>5, <2>6
<1> QED BY <1>3, <1>4, <1>5 DEF Lives, PagesLive

LEMMA NextLives == Table /\ Lives /\ [Next]_vars => Lives'
<1> SUFFICES ASSUME Table, Lives, [Next]_vars PROVE Lives' OBVIOUS
<1>1. Table' BY NextTable
<1>2. CASE UNCHANGED vars BY <1>1, <1>2, LivesSame DEF vars, ring
<1>3. ASSUME NEW p \in Proc, \E g \in Page : PipeCreate(p, g) PROVE Lives' BY <1>1, <1>3, CreateLives
<1>4. ASSUME NEW p \in Proc, FileClose(p) PROVE Lives' BY <1>1, <1>4, FileCloseLives
<1>5. ASSUME NEW p \in Proc, CloseObject(p) PROVE Lives' BY <1>1, <1>5, CloseObjectLives
<1>6. ASSUME NEW p \in Proc,
             \/ \E f \in File : PipeFirst(p, f)
             \/ PipeSecond(p) \/ PipeNoMemory(p)
             \/ \E d \in Fd : Close(p, d) \/ Dup(p, d)
             \/ \E q \in Proc : Fork(p, q)
             \/ Exit(p) \/ Read(p) \/ Write(p) \/ Kill(p)
      PROVE  Lives'
  <2>1. UNCHANGED <<obj, ff, live, readopen, writeopen>>
    BY <1>6 DEF PipeFirst, PipeSecond, PipeNoMemory, Close, Dup, Fork, Exit, Read, Write, Kill, Enter, PipeRead,
                PipeWrite, files, ring
  <2> QED BY <1>1, <2>1, LivesSame
<1> QED BY <1>2, <1>3, <1>4, <1>5, <1>6 DEF Next, SysPipe

-----------------------------------------------------------------------------
(* Counters modulo UINT. *)

LEMMA ModRange == ASSUME NEW x \in Int PROVE x % UINT \in 0..(UINT - 1)
BY RingAssumption

LEMMA ModIs ==
    ASSUME NEW x \in Int, NEW r \in 0..(UINT - 1), x = r \/ x = r + UINT \/ x = r - UINT
    PROVE  x % UINT = r
<1>1. UINT \in Nat /\ UINT > 0 BY RingAssumption
<1>2. CASE x = r BY <1>1, <1>2
<1>3. CASE x = r + UINT BY <1>1, <1>3
<1>4. CASE x = r - UINT BY <1>1, <1>4
<1> QED BY <1>2, <1>3, <1>4

LEMMA UnreadZero ==
    ASSUME NEW g, nread[g] \in 0..(UINT - 1), nwrite[g] \in 0..(UINT - 1)
    PROVE  Unread(g) \in 0..(UINT - 1) /\ (Unread(g) = 0 <=> nread[g] = nwrite[g])
<1> DEFINE r == nread[g]
           w == nwrite[g]
<1>1. UINT \in Nat /\ UINT > 0 /\ r \in 0..(UINT - 1) /\ w \in 0..(UINT - 1) BY RingAssumption
<1>2. Unread(g) = (w - r) % UINT BY DEF Unread
<1> HIDE DEF r, w
<1>3. CASE w >= r
  <2>1. w - r \in 0..(UINT - 1) /\ w - r \in Int BY <1>1, <1>3
  <2>2. (w - r) % UINT = w - r BY <2>1, ModIs
  <2> QED BY <1>1, <1>2, <2>1, <2>2 DEF r, w
<1>4. CASE w < r
  <2>1. w - r + UINT \in 0..(UINT - 1) /\ w - r \in Int /\ w - r = (w - r + UINT) - UINT BY <1>1, <1>4
  <2>2. (w - r) % UINT = w - r + UINT BY <2>1, ModIs
  <2> QED BY <1>1, <1>2, <1>4, <2>1, <2>2 DEF r, w
<1> QED BY <1>1, <1>3, <1>4

LEMMA Advanced ==
    ASSUME NEW x \in 0..(UINT - 1), NEW k \in 0..(UINT - 1), (x + k) % UINT = x
    PROVE  k = 0
<1>1. UINT \in Nat /\ UINT > 0 BY RingAssumption
<1>2. CASE x + k < UINT
  <2>1. x + k \in Int /\ x + k \in 0..(UINT - 1) BY <1>1, <1>2
  <2>2. (x + k) % UINT = x + k BY <2>1, ModIs
  <2> QED BY <1>1, <2>2
<1>3. CASE x + k >= UINT
  <2>1. x + k \in Int /\ x + k - UINT \in 0..(UINT - 1) /\ x + k = (x + k - UINT) + UINT BY <1>1, <1>3
  <2>2. (x + k) % UINT = x + k - UINT BY <2>1, ModIs
  <2> QED BY <1>1, <2>2
<1> QED BY <1>1, <1>2, <1>3

(* A writer that fills the ring leaves no room. *)
LEMMA FilledUp ==
    ASSUME NEW r \in 0..(UINT - 1), NEW w \in 0..(UINT - 1), NEW k, k = (r + PIPESIZE - w) % UINT
    PROVE  (r + PIPESIZE - ((w + k) % UINT)) % UINT = 0
<1>1. UINT \in Nat /\ UINT > 0 /\ PIPESIZE \in Nat /\ PIPESIZE < UINT BY RingAssumption
<1> DEFINE a == r + PIPESIZE - w
           v == IF r + PIPESIZE < UINT THEN r + PIPESIZE ELSE r + PIPESIZE - UINT
<1>2. v \in 0..(UINT - 1) /\ (r + PIPESIZE - v = 0 \/ r + PIPESIZE - v = UINT) BY <1>1
<1>3. k \in {a, a + UINT, a - UINT}
  <2>1. CASE a \in 0..(UINT - 1) BY <2>1, ModIs
  <2>2. CASE a < 0
    <3>1. a \in Int /\ a + UINT \in 0..(UINT - 1) /\ a = (a + UINT) - UINT BY <1>1, <2>2
    <3> HIDE DEF a
    <3>2. a % UINT = a + UINT BY <3>1, ModIs
    <3> QED BY <3>2 DEF a
  <2>3. CASE a >= UINT
    <3>1. a \in Int /\ a - UINT \in 0..(UINT - 1) /\ a = (a - UINT) + UINT BY <1>1, <2>3
    <3> HIDE DEF a
    <3>2. a % UINT = a - UINT BY <3>1, ModIs
    <3> QED BY <3>2 DEF a
  <2> QED BY <1>1, <2>1, <2>2, <2>3
<1>4. (w + k) % UINT = v
  <2>1. w + k \in Int /\ (w + k = v \/ w + k = v + UINT \/ w + k = v - UINT)
    <3>1. w + k \in {r + PIPESIZE, r + PIPESIZE + UINT, r + PIPESIZE - UINT} BY <1>1, <1>3
    <3>2. CASE r + PIPESIZE < UINT BY <1>1, <3>1, <3>2
    <3>3. CASE r + PIPESIZE >= UINT
      <4>1. k <= UINT - 1 /\ k \in Int /\ w + k < 2 * UINT
        <5>1. r + PIPESIZE - w \in Int BY <1>1
        <5>2. k \in 0..(UINT - 1) BY <5>1, ModRange
        <5> QED BY <1>1, <5>2
      <4> QED BY <1>1, <3>1, <3>3, <4>1
    <3> QED BY <1>1, <3>2, <3>3
  <2> HIDE DEF v
  <2> QED BY <1>2, <2>1, ModIs
<1> HIDE DEF v
<1>5. r + PIPESIZE - v \in Int /\ 0 \in 0..(UINT - 1) BY <1>1, <1>2
<1>6. (r + PIPESIZE - v) % UINT = 0
  <2>1. r + PIPESIZE - v = 0 \/ r + PIPESIZE - v = 0 + UINT \/ r + PIPESIZE - v = 0 - UINT BY <1>1, <1>2
  <2> QED BY <1>5, <2>1, ModIs
<1> QED BY <1>4, <1>6

-----------------------------------------------------------------------------
(* Readers and writers keep their descriptors. *)

Busy == {"read", "write"}
Chans == {Awake} \cup ({"nread", "nwrite"} \X Page)

RingTypes ==
    /\ cut \in [Page -> BOOLEAN] /\ killed \in [Proc -> BOOLEAN]
    /\ nread \in [Page -> 0..(UINT - 1)] /\ nwrite \in [Page -> 0..(UINT - 1)]
    /\ arg \in [Proc -> [pipe : Page \cup {0}, n : Nat, byte : Byte \cup {0}]]
    /\ chan \in [Proc -> Chans]

Uses(p) ==
    /\ pc[p] \in Busy =>
         /\ arg[p].n > 0
         /\ \E d \in Fd : ofile[p][d] # 0 /\ obj[ofile[p][d]] = PipeEnd(arg[p].pipe, pc[p] = "write")
    /\ \A g \in Page : /\ chan[p] = <<"nread", g>> => pc[p] = "read" /\ arg[p].pipe = g
                       /\ chan[p] = <<"nwrite", g>> => pc[p] = "write" /\ arg[p].pipe = g

Used == RingTypes /\ InUse

LEMMA UsedIs == InUse <=> \A p \in Proc : Uses(p)
BY DEF InUse, Uses, Busy

(* Only a process in a call sleeps. *)
LEMMA Sleepers ==
    ASSUME Used, NEW p \in Proc, pc[p] \notin Busy
    PROVE  chan[p] = Awake
<1>1. Uses(p) /\ chan[p] \in Chans BY UsedIs DEF Used, RingTypes
<1> QED BY <1>1 DEF Uses, Chans, Busy

(* A process in a call has its pipe open. *)
LEMMA OwnEnd ==
    ASSUME Table, Lives, Used, NEW p \in Proc, pc[p] \in Busy
    PROVE  /\ arg[p].pipe \in Page /\ arg[p].pipe \in live /\ arg[p].n \in Nat /\ arg[p].n > 0
           /\ pc[p] = "read" => readopen[arg[p].pipe]
           /\ pc[p] = "write" => writeopen[arg[p].pipe]
<1>1. PICK d \in Fd : ofile[p][d] # 0 /\ obj[ofile[p][d]] = PipeEnd(arg[p].pipe, pc[p] = "write")
  BY UsedIs DEF Used, Uses
<1>2. arg[p].n > 0 /\ arg[p].n \in Nat BY UsedIs DEF Used, Uses, RingTypes
<1>3. ofile[p][d] \in File BY <1>1 DEF Table, TableTypes
<1>4. obj[ofile[p][d]] \in Ends \cup {None} BY <1>3 DEF Table, TableTypes
<1>5. arg[p].pipe \in Page
  <2>1. PipeEnd(arg[p].pipe, pc[p] = "write") \in Ends BY <1>1, <1>4, EndIs
  <2> QED BY <2>1 DEF PipeEnd, Ends
<1>6. CASE pc[p] = "read"
  <2>1. obj[ofile[p][d]] = PipeEnd(arg[p].pipe, FALSE) BY <1>1, <1>6
  <2> QED BY <1>2, <1>3, <1>5, <1>6, <2>1, EndOpen
<1>7. CASE pc[p] = "write"
  <2>1. obj[ofile[p][d]] = PipeEnd(arg[p].pipe, TRUE) BY <1>1, <1>7
  <2> QED BY <1>2, <1>3, <1>5, <1>7, <2>1, EndOpen
<1> QED BY <1>6, <1>7 DEF Busy

LEMMA WakeupIs ==
    ASSUME chan \in [Proc -> Chans], NEW c
    PROVE  /\ Wakeup(c, chan) \in [Proc -> Chans]
           /\ \A q \in Proc : /\ Wakeup(c, chan)[q] \in {chan[q], Awake}
                              /\ c # Awake => Wakeup(c, chan)[q] # c
BY DEF Wakeup, Chans

LEMMA UsesSame ==
    ASSUME NEW q \in Proc, Uses(q), chan'[q] \in {chan[q], Awake},
           \/ pc[q] \notin Busy /\ pc'[q] \notin Busy
           \/ /\ pc'[q] = pc[q] /\ arg'[q] = arg[q]
              /\ \A d \in Fd : pc[q] \in Busy /\ ofile[q][d] # 0 =>
                   ofile'[q][d] = ofile[q][d] /\ obj'[ofile[q][d]] = obj[ofile[q][d]]
    PROVE  Uses(q)'
<1>1. \A g \in Page : <<"nread", g>> # Awake /\ <<"nwrite", g>> # Awake BY DEF Awake
<1>2. CASE pc[q] \notin Busy /\ pc'[q] \notin Busy BY <1>1, <1>2 DEF Uses, Busy
<1>3. CASE /\ pc'[q] = pc[q] /\ arg'[q] = arg[q]
           /\ \A d \in Fd : pc[q] \in Busy /\ ofile[q][d] # 0 =>
                ofile'[q][d] = ofile[q][d] /\ obj'[ofile[q][d]] = obj[ofile[q][d]]
  <2>1. ASSUME pc'[q] \in Busy
        PROVE  /\ arg'[q].n > 0
               /\ \E d \in Fd : ofile'[q][d] # 0 /\ obj'[ofile'[q][d]] = PipeEnd(arg'[q].pipe, pc'[q] = "write")
    <3>1. PICK d \in Fd : ofile[q][d] # 0 /\ obj[ofile[q][d]] = PipeEnd(arg[q].pipe, pc[q] = "write")
      BY <1>3, <2>1 DEF Uses
    <3>2. ofile'[q][d] = ofile[q][d] /\ obj'[ofile[q][d]] = obj[ofile[q][d]] BY <1>3, <2>1, <3>1
    <3>3. PipeEnd(arg'[q].pipe, pc'[q] = "write") = PipeEnd(arg[q].pipe, pc[q] = "write") BY <1>3
    <3>4. arg'[q].n > 0 BY <1>3, <2>1 DEF Uses
    <3> QED BY <3>1, <3>2, <3>3, <3>4
  <2>2. ASSUME NEW g \in Page
        PROVE  /\ chan'[q] = <<"nread", g>> => pc'[q] = "read" /\ arg'[q].pipe = g
               /\ chan'[q] = <<"nwrite", g>> => pc'[q] = "write" /\ arg'[q].pipe = g
    BY <1>1, <1>3 DEF Uses
  <2> QED BY <2>1, <2>2 DEF Uses
<1> QED BY <1>2, <1>3

(* Nothing takes the file of a descriptor away. *)
LEMMA FileCloseKeeps ==
    ASSUME Table, NEW p \in Proc, FileClose(p), NEW q \in Proc, q # p, NEW d \in Fd, ofile[q][d] # 0
    PROVE  ofile'[q][d] = ofile[q][d] /\ obj'[ofile[q][d]] = obj[ofile[q][d]]
<1> DEFINE e == ofile[q][d]
<1>1. e \in File /\ ofile[q][d] = e BY DEF Table, TableTypes
<1> HIDE DEF e
<1>2. CASE pc[p] = "close"
  <2>1. PICK i \in Local : held[p][i] # 0 /\ FileUnref(p, held[p][i]) /\ UNCHANGED ofile
    BY <1>2 DEF FileClose
  <2>2. held[p][i] \in File BY <2>1 DEF Table, TableTypes
  <2>3. ref[held[p][i]] = 1 => e # held[p][i] BY <1>1, <2>2, Referenced
  <2>4. obj'[e] = obj[e] BY <1>1, <2>1, <2>2, <2>3 DEF FileUnref, Table, TableTypes
  <2> QED BY <1>1, <2>1, <2>4
<1>3. CASE pc[p] = "exit"
  <2>1. PICK c \in Fd : ofile[p][c] # 0 /\ FileUnref(p, ofile[p][c]) /\ ofile' = [ofile EXCEPT ![p][c] = 0]
    BY <1>3 DEF FileClose
  <2>2. ofile[p][c] \in File BY <2>1 DEF Table, TableTypes
  <2>3. ref[ofile[p][c]] = 1 => e # ofile[p][c]
    <3> SUFFICES ASSUME ref[e] = 1, ofile[p][c] = e PROVE FALSE OBVIOUS
    <3>1. ref[e] = Count(ofile, Fd, e) + Count(held, Local, e) BY <1>1 DEF Table, FileRefs
    <3>2. Count(ofile, Fd, e) \in Nat /\ Count(held, Local, e) \in Nat BY Slots, CountIs
    <3>3. /\ Count(ofile, Fd, e) > 0
          /\ Count(ofile, Fd, e) = 1 => \A x \in Proc, r \in Fd : ofile[x][r] = e => x = p /\ r = c
      BY Slots, CountPlace
    <3>4. Count(ofile, Fd, e) = 1 BY <3>1, <3>2, <3>3
    <3> QED BY <1>1, <3>3, <3>4
  <2>4. obj'[e] = obj[e] BY <1>1, <2>1, <2>2, <2>3 DEF FileUnref, Table, TableTypes
  <2>5. ofile'[q][d] = e BY <1>1, <2>1 DEF Table, TableTypes
  <2> QED BY <1>1, <2>4, <2>5
<1> QED BY <1>2, <1>3 DEF FileClose

LEMMA UsedNow == ASSUME RingTypes', \A p \in Proc : Uses(p)' PROVE Used'
BY DEF Used, InUse, Uses, Busy

(* A step of a process outside read() and write(). *)
LEMMA OutsideUsed ==
    ASSUME Table, Used, RingTypes', NEW x \in Proc, pc[x] \notin Busy, pc'[x] \notin Busy, arg' = arg,
           \A y \in Proc : chan'[y] \in {chan[y], Awake},
           \A y \in Proc \ {x} : /\ pc'[y] = pc[y]
                                 /\ \A d \in Fd : ofile[y][d] # 0 =>
                                      ofile'[y][d] = ofile[y][d] /\ obj'[ofile[y][d]] = obj[ofile[y][d]]
    PROVE  Used'
<1>1. ASSUME NEW y \in Proc PROVE Uses(y)'
  <2>1. Uses(y) BY UsedIs DEF Used
  <2>2. CASE y = x BY <2>1, <2>2, UsesSame
  <2>3. CASE y # x BY <2>1, <2>3, UsesSame
  <2> QED BY <2>2, <2>3
<1> QED BY <1>1, UsedNow

(* The calls that leave the pipes alone. *)
LEMMA CallUsed ==
    ASSUME Table, Used, NEW p \in Proc,
           \/ \E f \in File : PipeFirst(p, f)
           \/ PipeSecond(p) \/ PipeNoMemory(p)
           \/ \E d \in Fd : Close(p, d) \/ Dup(p, d)
           \/ \E q \in Proc : Fork(p, q)
           \/ Exit(p)
    PROVE  Used'
<1>1. UNCHANGED <<nread, nwrite, cut, arg, chan, obj>>
  BY DEF PipeFirst, PipeSecond, PipeNoMemory, Close, Dup, Fork, Exit, files, ring
<1>2. killed' \in [Proc -> BOOLEAN]
  <2>1. CASE Exit(p)
    <3>1. PICK b \in BOOLEAN : killed' = [killed EXCEPT ![p] = @ /\ b] BY <2>1 DEF Exit
    <3> QED BY <3>1 DEF Used, RingTypes
  <2>2. CASE ~Exit(p)
    <3>1. killed' = killed BY <2>2 DEF PipeFirst, PipeSecond, PipeNoMemory, Close, Dup, Fork
    <3> QED BY <3>1 DEF Used, RingTypes
  <2> QED BY <2>1, <2>2
<1>3. RingTypes' BY <1>1, <1>2 DEF Used, RingTypes
<1>4. \A y \in Proc : chan'[y] \in {chan[y], Awake} BY <1>1
<1>5. CASE \E q \in Proc : Fork(p, q)
  <2>1. PICK q \in Proc : Fork(p, q) BY <1>5
  <2>2. /\ pc[q] = "none" /\ pc'[q] = "user"
        /\ \A y \in Proc \ {q} : pc'[y] = pc[y] /\ ofile'[y] = ofile[y]
    BY <2>1 DEF Fork, Goto, Table, TableTypes
  <2> QED BY <1>1, <1>3, <1>4, <2>2, OutsideUsed DEF Busy
<1>6. CASE ~\E q \in Proc : Fork(p, q)
  <2>1. pc[p] \notin Busy
    BY <1>6 DEF PipeFirst, PipeSecond, PipeNoMemory, Close, Dup, Exit, Argfd, Calls, Busy
  <2>2. pc'[p] \notin Busy /\ \A y \in Proc \ {p} : pc'[y] = pc[y]
    <3>1. CASE UNCHANGED pc BY <2>1, <3>1
    <3>2. CASE \E c \in {"none", "user", "pipe", "close", "exit"} : pc' = [pc EXCEPT ![p] = c]
      BY <3>2 DEF Table, TableTypes, Busy
    <3> QED BY <1>6, <3>1, <3>2 DEF PipeFirst, PipeSecond, PipeNoMemory, Close, Dup, Exit, Goto
  <2>3. \A y \in Proc \ {p} : ofile'[y] = ofile[y]
    <3>1. CASE UNCHANGED ofile BY <3>1
    <3>2. CASE \E d \in Fd : Close(p, d) BY <3>2 DEF Close, Table, TableTypes
    <3>3. CASE \E d \in Fd : Dup(p, d) BY <3>3 DEF Dup, Table, TableTypes
    <3> QED BY <1>6, <3>1, <3>2, <3>3 DEF PipeFirst, PipeSecond, PipeNoMemory, Exit, files
  <2> QED BY <1>1, <1>3, <1>4, <2>1, <2>2, <2>3, OutsideUsed
<1> QED BY <1>5, <1>6

LEMMA CreateUsed ==
    ASSUME Table, Used, NEW p \in Proc, NEW g \in Page, PipeCreate(p, g)
    PROVE  Used'
<1> DEFINE rf == held[p][1]
           wf == held[p][2]
<1>1. /\ rf \in File /\ wf \in File /\ rf # wf /\ pc[p] = "pipe"
      /\ \A f \in File \ {rf, wf} : obj'[f] = obj[f]
  BY CreateFiles
<1>2. \A q \in Proc, d \in Fd : ofile[q][d] # rf /\ ofile[q][d] # wf BY <1>1, FileIs, Slots, OwnFiles
<1>3. UNCHANGED <<arg, chan, killed>> BY DEF PipeCreate
<1>4. RingTypes'
  <2>1. 0 \in 0..(UINT - 1) BY RingAssumption
  <2>2. /\ nread' = [nread EXCEPT ![g] = 0] /\ nwrite' = [nwrite EXCEPT ![g] = 0]
        /\ cut' = [cut EXCEPT ![g] = FALSE]
    BY DEF PipeCreate, PipeSetup
  <2>3. nread' \in [Page -> 0..(UINT - 1)] /\ nwrite' \in [Page -> 0..(UINT - 1)]
    BY <2>1, <2>2 DEF Used, RingTypes
  <2>4. cut' \in [Page -> BOOLEAN] BY <2>2 DEF Used, RingTypes
  <2> QED BY <1>3, <2>3, <2>4 DEF Used, RingTypes
<1>5. pc'[p] \notin Busy /\ \A y \in Proc \ {p} : pc'[y] = pc[y]
  BY DEF PipeCreate, Goto, Busy, Table, TableTypes
<1>6. \A y \in Proc \ {p} : ofile'[y] = ofile[y] BY DEF PipeCreate, Table, TableTypes
<1>7. \A y \in Proc \ {p}, d \in Fd : ofile[y][d] # 0 => obj'[ofile[y][d]] = obj[ofile[y][d]]
  BY <1>1, <1>2 DEF Table, TableTypes
<1> QED BY <1>1, <1>3, <1>4, <1>5, <1>6, <1>7, OutsideUsed DEF Busy

LEMMA ClosedKilled ==
    ASSUME Used, NEW p \in Proc, Closed(p)
    PROVE  killed' \in [Proc -> BOOLEAN]
<1>1. PICK b \in BOOLEAN : killed' = [killed EXCEPT ![p] = @ /\ b]
  BY DEF Closed
<1> QED BY <1>1 DEF Used, RingTypes

LEMMA FileCloseUsed ==
    ASSUME Table, Used, NEW p \in Proc, FileClose(p)
    PROVE  Used'
<1>1. pc[p] \in {"close", "exit"} /\ Closed(p) /\ UNCHANGED <<nread, nwrite, cut, arg, chan>>
  BY DEF FileClose, ring
<1>2. RingTypes' BY <1>1, ClosedKilled DEF Used, RingTypes
<1>3. pc'[p] \notin Busy /\ \A y \in Proc \ {p} : pc'[y] = pc[y] BY <1>1, ClosedPc DEF Busy
<1>4. \A y \in Proc \ {p}, d \in Fd : ofile[y][d] # 0 =>
        ofile'[y][d] = ofile[y][d] /\ obj'[ofile[y][d]] = obj[ofile[y][d]]
  BY FileCloseKeeps
<1> QED BY <1>1, <1>2, <1>3, <1>4, OutsideUsed DEF Busy

LEMMA CloseObjectUsed ==
    ASSUME Table, Lives, Used, NEW p \in Proc, CloseObject(p)
    PROVE  Used'
<1>1. /\ ff[p] # None /\ Closed(p) /\ UNCHANGED <<arg, obj, ofile>> BY DEF CloseObject
<1>2. pc[p] \in {"close", "exit"} BY <1>1 DEF Table, InHand
<1>3. PICK g \in Page, w \in BOOLEAN : PipeClose(g, w) BY ClosesEnd
<1>4. chan' \in [Proc -> Chans] /\ \A y \in Proc : chan'[y] \in {chan[y], Awake}
  BY <1>3, WakeupIs DEF PipeClose, Used, RingTypes
<1>5. nread' \in [Page -> 0..(UINT - 1)] /\ nwrite' \in [Page -> 0..(UINT - 1)]
  <2>1. 0 \in 0..(UINT - 1) BY RingAssumption
  <2> QED BY <1>3, <2>1 DEF PipeClose, Kfree, Used, RingTypes
<1>6. cut' \in [Page -> BOOLEAN] BY <1>3 DEF PipeClose, Kfree, Used, RingTypes
<1>7. RingTypes' BY <1>1, <1>4, <1>5, <1>6, ClosedKilled DEF Used, RingTypes
<1>8. pc'[p] \notin Busy /\ \A y \in Proc \ {p} : pc'[y] = pc[y] BY <1>1, <1>2, ClosedPc DEF Busy
<1> QED BY <1>1, <1>2, <1>4, <1>7, <1>8, OutsideUsed DEF Busy

(* A step of a reader or writer; what is left is that process itself. *)
LEMMA InsideUsed ==
    ASSUME Used, RingTypes', UNCHANGED <<ofile, obj>>, NEW p \in Proc, Uses(p)',
           \A y \in Proc \ {p} : pc'[y] = pc[y] /\ arg'[y] = arg[y] /\ chan'[y] \in {chan[y], Awake}
    PROVE  Used'
<1>1. ASSUME NEW y \in Proc, y # p PROVE Uses(y)'
  <2>1. Uses(y) BY UsedIs DEF Used
  <2> QED BY <1>1, <2>1, UsesSame
<1> QED BY <1>1, UsedNow

LEMMA EnterUsed ==
    ASSUME Table, Used, NEW p \in Proc, NEW d \in Fd, NEW w \in BOOLEAN, NEW c \in Busy, w = (c = "write"),
           NEW n \in Nat \ {0}, NEW b \in Byte \cup {0}, Enter(p, d, w, c, n, b)
    PROVE  Used'
<1>1. PICK g \in Page : /\ obj[ofile[p][d]] = PipeEnd(g, w)
                        /\ arg' = [arg EXCEPT ![p] = [pipe |-> g, n |-> n, byte |-> b]]
  BY DEF Enter
<1>2. /\ pc[p] = "user" /\ ofile[p][d] # 0 /\ pc' = [pc EXCEPT ![p] = c]
      /\ UNCHANGED <<nread, nwrite, cut, chan, killed, obj, ofile>>
  BY DEF Enter, Argfd, Calls, Goto, ring, files
<1>3. /\ arg' \in [Proc -> [pipe : Page \cup {0}, n : Nat, byte : Byte \cup {0}]]
      /\ arg'[p] = [pipe |-> g, n |-> n, byte |-> b] /\ \A y \in Proc \ {p} : arg'[y] = arg[y]
  BY <1>1 DEF Used, RingTypes
<1>4. RingTypes' BY <1>2, <1>3 DEF Used, RingTypes
<1>5. pc'[p] = c /\ \A y \in Proc \ {p} : pc'[y] = pc[y] BY <1>2 DEF Table, TableTypes
<1>6. chan'[p] = Awake BY <1>2, Sleepers DEF Busy
<1>7. Uses(p)'
  <2>1. \A h \in Page : chan'[p] # <<"nread", h>> /\ chan'[p] # <<"nwrite", h>> BY <1>6 DEF Awake
  <2>2. arg'[p].n > 0 /\ arg'[p].pipe = g BY <1>3
  <2>3. ofile'[p][d] # 0 /\ obj'[ofile'[p][d]] = PipeEnd(arg'[p].pipe, pc'[p] = "write")
    BY <1>1, <1>2, <1>5, <2>2
  <2> QED BY <2>1, <2>2, <2>3 DEF Uses
<1> QED BY <1>2, <1>3, <1>4, <1>5, <1>7, InsideUsed

(* Both calls return to user space awake. *)
LEMMA ReturnUsed ==
    ASSUME Table, Used, NEW p \in Proc, Return(p), chan'[p] = Awake
    PROVE  /\ arg' \in [Proc -> [pipe : Page \cup {0}, n : Nat, byte : Byte \cup {0}]]
           /\ \A y \in Proc \ {p} : pc'[y] = pc[y] /\ arg'[y] = arg[y]
           /\ Uses(p)' /\ pc'[p] = "user"
<1>1. arg' \in [Proc -> [pipe : Page \cup {0}, n : Nat, byte : Byte \cup {0}]]
  BY DEF Return, NoArg, Used, RingTypes
<1>2. pc'[p] = "user" /\ \A y \in Proc \ {p} : pc'[y] = pc[y] /\ arg'[y] = arg[y]
  BY DEF Return, Used, RingTypes, Table, TableTypes
<1>3. Uses(p)' BY <1>2 DEF Uses, Busy, Awake
<1> QED BY <1>1, <1>2, <1>3

(* What piperead() does, with the facts about its pipe. *)
LEMMA ReadIs ==
    ASSUME Table, Lives, Used, NEW p \in Proc, PipeRead(p)
    PROVE  LET g == arg[p].pipe
               k == Least(arg[p].n, Unread(g))
           IN  /\ pc[p] = "read" /\ chan[p] = Awake /\ g \in Page /\ g \in live
               /\ arg[p].n \in Nat /\ arg[p].n > 0
               /\ nread[g] \in 0..(UINT - 1) /\ nwrite[g] \in 0..(UINT - 1) /\ k \in 0..(UINT - 1)
               /\ UNCHANGED <<live, nwrite, readopen, writeopen, cut, killed>>
               /\ \/ /\ nread[g] = nwrite[g] /\ writeopen[g] /\ UNCHANGED nread
                     /\ \/ killed[p] /\ Return(p) /\ chan' = chan
                        \/ ~killed[p] /\ UNCHANGED <<pc, arg>> /\ chan' = [chan EXCEPT ![p] = <<"nread", g>>]
                  \/ /\ nread[g] # nwrite[g] \/ ~writeopen[g]
                     /\ nread' = [nread EXCEPT ![g] = (nread[g] + k) % UINT]
                     /\ chan' = Wakeup(<<"nwrite", g>>, chan) /\ Return(p)
<1> DEFINE g == arg[p].pipe
           k == Least(arg[p].n, Unread(g))
<1>1. pc[p] = "read" /\ chan[p] = Awake BY DEF PipeRead
<1>2. g \in Page /\ g \in live /\ arg[p].n \in Nat /\ arg[p].n > 0 BY <1>1, OwnEnd DEF Busy
<1>3. nread[g] \in 0..(UINT - 1) /\ nwrite[g] \in 0..(UINT - 1) BY <1>2 DEF Used, RingTypes
<1>4. k \in 0..(UINT - 1)
  <2>1. Unread(g) \in 0..(UINT - 1) BY <1>3, UnreadZero
  <2> HIDE DEF g
  <2> QED BY <1>2, <2>1, RingAssumption DEF Least
<1>5. UNCHANGED <<live, nwrite, readopen, writeopen, cut, killed>> BY DEF PipeRead
<1>6. \/ /\ nread[g] = nwrite[g] /\ writeopen[g] /\ UNCHANGED nread
         /\ \/ killed[p] /\ Return(p) /\ chan' = chan
            \/ ~killed[p] /\ UNCHANGED <<pc, arg>> /\ chan' = [chan EXCEPT ![p] = <<"nread", g>>]
      \/ /\ nread[g] # nwrite[g] \/ ~writeopen[g]
         /\ nread' = [nread EXCEPT ![g] = (nread[g] + k) % UINT]
         /\ chan' = Wakeup(<<"nwrite", g>>, chan) /\ Return(p)
  BY DEF PipeRead, Take, Drop
<1> QED BY <1>1, <1>2, <1>3, <1>4, <1>5, <1>6

LEMMA ReadUsed ==
    ASSUME Table, Lives, Used, NEW p \in Proc, PipeRead(p), UNCHANGED files
    PROVE  Used'
<1> DEFINE g == arg[p].pipe
           k == Least(arg[p].n, Unread(g))
<1>1. /\ pc[p] = "read" /\ chan[p] = Awake /\ g \in Page
      /\ nread[g] \in 0..(UINT - 1) /\ k \in 0..(UINT - 1)
      /\ UNCHANGED <<nwrite, cut, killed>>
  BY ReadIs
<1>2. UNCHANGED <<ofile, obj>> BY DEF files
<1>3. CASE /\ UNCHANGED <<nread, pc, arg>> /\ chan' = [chan EXCEPT ![p] = <<"nread", g>>]
  <2>1. /\ chan' \in [Proc -> Chans] /\ chan'[p] = <<"nread", g>>
        /\ \A y \in Proc \ {p} : chan'[y] = chan[y]
    BY <1>1, <1>3 DEF Used, RingTypes, Chans
  <2>2. RingTypes' BY <1>1, <1>3, <2>1 DEF Used, RingTypes
  <2>3. Uses(p) BY UsedIs DEF Used
  <2>4. Uses(p)' BY <1>1, <1>2, <1>3, <2>1, <2>3 DEF Uses
  <2> QED BY <1>2, <1>3, <2>1, <2>2, <2>4, InsideUsed
<1>4. CASE Return(p) /\ UNCHANGED nread /\ chan' = chan
  <2>1. chan'[p] = Awake BY <1>1, <1>4
  <2>2. /\ arg' \in [Proc -> [pipe : Page \cup {0}, n : Nat, byte : Byte \cup {0}]]
        /\ \A y \in Proc \ {p} : pc'[y] = pc[y] /\ arg'[y] = arg[y]
        /\ Uses(p)'
    BY <1>4, <2>1, ReturnUsed
  <2>3. RingTypes' BY <1>1, <1>4, <2>2 DEF Used, RingTypes
  <2> QED BY <1>2, <1>4, <2>2, <2>3, InsideUsed
<1>5. CASE /\ nread' = [nread EXCEPT ![g] = (nread[g] + k) % UINT]
           /\ chan' = Wakeup(<<"nwrite", g>>, chan) /\ Return(p)
  <2>1. chan' \in [Proc -> Chans] /\ \A y \in Proc : chan'[y] \in {chan[y], Awake}
    BY <1>5, WakeupIs DEF Used, RingTypes
  <2>2. /\ arg' \in [Proc -> [pipe : Page \cup {0}, n : Nat, byte : Byte \cup {0}]]
        /\ \A y \in Proc \ {p} : pc'[y] = pc[y] /\ arg'[y] = arg[y]
        /\ Uses(p)'
    BY <1>1, <1>5, <2>1, ReturnUsed
  <2> HIDE DEF g, k
  <2>3. nread[g] + k \in Int BY <1>1, RingAssumption
  <2>4. (nread[g] + k) % UINT \in 0..(UINT - 1) BY <2>3, ModRange
  <2>5. nread' \in [Page -> 0..(UINT - 1)] BY <1>1, <1>5, <2>4 DEF Used, RingTypes
  <2>6. RingTypes' BY <1>1, <2>1, <2>2, <2>5 DEF Used, RingTypes
  <2> QED BY <1>2, <2>1, <2>2, <2>6, InsideUsed
<1> QED BY <1>3, <1>4, <1>5, ReadIs

(* What pipewrite() does, likewise. *)
LEMMA WriteIs ==
    ASSUME Table, Lives, Used, NEW p \in Proc, PipeWrite(p)
    PROVE  LET g == arg[p].pipe
               n == arg[p].n
           IN  /\ pc[p] = "write" /\ chan[p] = Awake /\ g \in Page /\ g \in live /\ n \in Nat /\ n > 0
               /\ nread[g] \in 0..(UINT - 1) /\ nwrite[g] \in 0..(UINT - 1) /\ Room(g) \in 0..(UINT - 1)
               /\ UNCHANGED <<live, nread, readopen, writeopen, killed>>
               /\ \/ /\ n <= Room(g) /\ nwrite' = [nwrite EXCEPT ![g] = (nwrite[g] + n) % UINT]
                     /\ Return(p) /\ chan' = Wakeup(<<"nread", g>>, chan) /\ cut' = [cut EXCEPT ![g] = FALSE]
                  \/ /\ n > Room(g) /\ nwrite' = [nwrite EXCEPT ![g] = (nwrite[g] + Room(g)) % UINT]
                     /\ \/ /\ ~readopen[g] \/ killed[p]
                           /\ Return(p) /\ chan' = chan /\ cut' = [cut EXCEPT ![g] = TRUE]
                        \/ /\ readopen[g] /\ ~killed[p] /\ UNCHANGED pc
                           /\ chan' = [Wakeup(<<"nread", g>>, chan) EXCEPT ![p] = <<"nwrite", g>>]
                           /\ arg' = [arg EXCEPT ![p].n = n - Room(g)] /\ cut' = [cut EXCEPT ![g] = FALSE]
<1> DEFINE g == arg[p].pipe
           n == arg[p].n
<1>1. pc[p] = "write" /\ chan[p] = Awake BY DEF PipeWrite
<1>2. g \in Page /\ g \in live /\ n \in Nat /\ n > 0 BY <1>1, OwnEnd DEF Busy
<1>3. nread[g] \in 0..(UINT - 1) /\ nwrite[g] \in 0..(UINT - 1) BY <1>2 DEF Used, RingTypes
<1>4. Room(g) \in 0..(UINT - 1)
  <2>1. nread[g] + PIPESIZE - nwrite[g] \in Int BY <1>3, RingAssumption
  <2> QED BY <2>1, ModRange DEF Room
<1>5. UNCHANGED <<live, nread, readopen, writeopen, killed>> BY DEF PipeWrite
<1>6. nwrite' = [nwrite EXCEPT ![g] = (nwrite[g] + Least(n, Room(g))) % UINT] BY DEF PipeWrite, Put
<1>7. CASE n <= Room(g)
  <2>1. Return(p) /\ chan' = Wakeup(<<"nread", g>>, chan) /\ cut' = [cut EXCEPT ![g] = FALSE]
    BY <1>7 DEF PipeWrite
  <2>2. Least(n, Room(g)) = n BY <1>7 DEF Least
  <2> QED BY <1>1, <1>2, <1>3, <1>4, <1>5, <1>6, <1>7, <2>1, <2>2
<1>8. CASE ~(n <= Room(g))
  <2>1. WriteFull(p, g) BY <1>8 DEF PipeWrite
  <2>2. Least(n, Room(g)) = Room(g) BY <1>8 DEF Least
  <2>3. n > Room(g) BY <1>2, <1>4, <1>8
  <2>4. CASE ~readopen[g] \/ killed[p]
    BY <1>1, <1>2, <1>3, <1>4, <1>5, <1>6, <2>1, <2>2, <2>3, <2>4 DEF WriteFull
  <2>5. CASE readopen[g] /\ ~killed[p]
    BY <1>1, <1>2, <1>3, <1>4, <1>5, <1>6, <2>1, <2>2, <2>3, <2>5 DEF WriteFull
  <2> QED BY <2>4, <2>5
<1> QED BY <1>7, <1>8

LEMMA WriteUsed ==
    ASSUME Table, Lives, Used, NEW p \in Proc, PipeWrite(p), UNCHANGED files
    PROVE  Used'
<1> DEFINE g == arg[p].pipe
           n == arg[p].n
<1>1. /\ pc[p] = "write" /\ chan[p] = Awake /\ g \in Page /\ n \in Nat /\ n > 0
      /\ nwrite[g] \in 0..(UINT - 1) /\ Room(g) \in 0..(UINT - 1) /\ UNCHANGED <<nread, killed>>
  BY WriteIs
<1>2. UNCHANGED <<ofile, obj>> BY DEF files
<1>3. nwrite' \in [Page -> 0..(UINT - 1)]
  <2>1. nwrite[g] + n \in Int /\ nwrite[g] + Room(g) \in Int BY <1>1, RingAssumption
  <2>2. (nwrite[g] + n) % UINT \in 0..(UINT - 1) /\ (nwrite[g] + Room(g)) % UINT \in 0..(UINT - 1)
    BY <2>1, ModRange
  <2>3. PICK v \in 0..(UINT - 1) : nwrite' = [nwrite EXCEPT ![g] = v] BY <2>2, WriteIs
  <2> QED BY <2>3 DEF Used, RingTypes
<1>4. cut' \in [Page -> BOOLEAN]
  <2>1. PICK b \in BOOLEAN : cut' = [cut EXCEPT ![g] = b] BY WriteIs
  <2> QED BY <2>1 DEF Used, RingTypes
<1>5. CASE Return(p) /\ (chan' = chan \/ chan' = Wakeup(<<"nread", g>>, chan))
  <2>1. chan' \in [Proc -> Chans] /\ \A y \in Proc : chan'[y] \in {chan[y], Awake}
    BY <1>5, WakeupIs DEF Used, RingTypes
  <2>2. /\ arg' \in [Proc -> [pipe : Page \cup {0}, n : Nat, byte : Byte \cup {0}]]
        /\ \A y \in Proc \ {p} : pc'[y] = pc[y] /\ arg'[y] = arg[y]
        /\ Uses(p)'
    BY <1>1, <1>5, <2>1, ReturnUsed
  <2>3. RingTypes' BY <1>1, <1>3, <1>4, <2>1, <2>2 DEF Used, RingTypes
  <2> QED BY <1>2, <2>1, <2>2, <2>3, InsideUsed
<1>6. CASE /\ n > Room(g) /\ UNCHANGED pc
           /\ chan' = [Wakeup(<<"nread", g>>, chan) EXCEPT ![p] = <<"nwrite", g>>]
           /\ arg' = [arg EXCEPT ![p].n = n - Room(g)]
  <2>1. /\ Wakeup(<<"nread", g>>, chan) \in [Proc -> Chans]
        /\ \A q \in Proc : Wakeup(<<"nread", g>>, chan)[q] \in {chan[q], Awake}
    BY WakeupIs DEF Used, RingTypes
  <2>2. <<"nwrite", g>> \in Chans BY <1>1 DEF Chans
  <2>3. /\ chan' \in [Proc -> Chans] /\ chan'[p] = <<"nwrite", g>>
        /\ \A y \in Proc \ {p} : chan'[y] \in {chan[y], Awake}
    BY <1>6, <2>1, <2>2
  <2>4. n - Room(g) \in Nat /\ n - Room(g) > 0 BY <1>1, <1>6, RingAssumption
  <2>5. /\ arg' \in [Proc -> [pipe : Page \cup {0}, n : Nat, byte : Byte \cup {0}]]
        /\ arg'[p].n > 0 /\ arg'[p].pipe = g
        /\ \A y \in Proc \ {p} : arg'[y] = arg[y]
    BY <1>6, <2>4 DEF Used, RingTypes
  <2>6. RingTypes' BY <1>1, <1>3, <1>4, <2>3, <2>5 DEF Used, RingTypes
  <2>7. Uses(p) BY UsedIs DEF Used
  <2>8. PICK d \in Fd : ofile[p][d] # 0 /\ obj[ofile[p][d]] = PipeEnd(g, pc[p] = "write")
    BY <1>1, <2>7 DEF Uses, Busy
  <2>9. Uses(p)' BY <1>1, <1>2, <1>6, <2>3, <2>5, <2>8 DEF Uses
  <2> QED BY <1>2, <1>6, <2>3, <2>5, <2>6, <2>9, InsideUsed
<1> QED BY <1>5, <1>6, WriteIs

LEMMA KillUsed ==
    ASSUME Used, NEW p \in Proc, Kill(p)
    PROVE  Used'
<1>1. UNCHANGED <<nread, nwrite, cut, pc, arg, ofile, obj>> BY DEF Kill, ring, files
<1>2. killed' \in [Proc -> BOOLEAN] BY DEF Kill, Used, RingTypes
<1>3. chan' \in [Proc -> Chans] /\ \A y \in Proc : chan'[y] \in {chan[y], Awake}
  BY DEF Kill, Used, RingTypes, Chans
<1>4. RingTypes' BY <1>1, <1>2, <1>3 DEF Used, RingTypes
<1>5. ASSUME NEW y \in Proc PROVE Uses(y)'
  <2>1. Uses(y) BY UsedIs DEF Used
  <2> QED BY <1>1, <1>3, <2>1, UsesSame
<1> QED BY <1>4, <1>5, UsedNow

LEMMA InitUsed == Init => Used
<1> SUFFICES ASSUME Init PROVE Used OBVIOUS
<1>1. 0 \in 0..(UINT - 1) BY RingAssumption
<1>2. RingTypes BY <1>1 DEF Init, PipeInit, RingTypes, NoArg, Chans
<1>3. InUse BY DEF Init, PipeInit, InUse, Awake
<1> QED BY <1>2, <1>3 DEF Used

LEMMA NextUsed == Table /\ Lives /\ Used /\ [Next]_vars => Used'
<1> SUFFICES ASSUME Table, Lives, Used, [Next]_vars PROVE Used' OBVIOUS
<1>1. CASE UNCHANGED vars BY <1>1 DEF vars, ring, Used, RingTypes, InUse
<1>2. ASSUME NEW p \in Proc, Read(p) PROVE Used'
  <2>1. ASSUME NEW d \in Fd, NEW n \in ReadSizes, Enter(p, d, FALSE, "read", n, 0) PROVE Used'
    <3>1. n \in Nat \ {0} BY TableAssumption
    <3> QED BY <2>1, <3>1, EnterUsed DEF Busy
  <2> QED BY <1>2, <2>1, ReadUsed DEF Read
<1>3. ASSUME NEW p \in Proc, Write(p) PROVE Used'
  <2>1. ASSUME NEW d \in Fd, NEW n \in WriteSizes, NEW b \in Byte, Enter(p, d, TRUE, "write", n, b) PROVE Used'
    <3>1. n \in Nat \ {0} BY TableAssumption
    <3> QED BY <2>1, <3>1, EnterUsed DEF Busy
  <2> QED BY <1>3, <2>1, WriteUsed DEF Write
<1>4. ASSUME NEW p \in Proc, SysPipe(p) PROVE Used' BY <1>4, CallUsed, CreateUsed DEF SysPipe
<1>5. ASSUME NEW p \in Proc, (\E d \in Fd : Close(p, d) \/ Dup(p, d)) \/ (\E q \in Proc : Fork(p, q)) \/ Exit(p)
      PROVE  Used'
  BY <1>5, CallUsed
<1> QED BY <1>1, <1>2, <1>3, <1>4, <1>5, FileCloseUsed, CloseObjectUsed, KillUsed DEF Next

-----------------------------------------------------------------------------
(* Nobody sleeps beside work. *)

Kept == Table /\ Lives /\ Used

LEMMA StuckSame ==
    ASSUME NoStuckEnd, \A y \in Proc : chan'[y] \in {chan[y], Awake},
           UNCHANGED <<nread, nwrite, readopen, writeopen, cut>>
    PROVE  NoStuckEnd'
<1>1. \A g \in Page : <<"nread", g>> # Awake /\ <<"nwrite", g>> # Awake BY DEF Awake
<1>2. \A g \in Page : Room(g)' = Room(g) BY DEF Room
<1>3. NoStuckReader' BY <1>1 DEF NoStuckEnd, NoStuckReader
<1>4. NoStuckWriter' BY <1>1, <1>2 DEF NoStuckEnd, NoStuckWriter
<1> QED BY <1>3, <1>4 DEF NoStuckEnd

(* A step on one pipe: the others keep their counters and flags. *)
LEMMA StuckElsewhere ==
    ASSUME NoStuckEnd, NEW g \in Page,
           \A h \in Page \ {g} : /\ nread'[h] = nread[h] /\ nwrite'[h] = nwrite[h]
                                 /\ readopen'[h] <=> readopen[h]
                                 /\ writeopen'[h] <=> writeopen[h]
                                 /\ cut'[h] <=> cut[h],
           \A h \in Page \ {g}, y \in Proc : /\ chan'[y] = <<"nread", h>> => chan[y] = <<"nread", h>>
                                             /\ chan'[y] = <<"nwrite", h>> => chan[y] = <<"nwrite", h>>,
           \A y \in Proc : /\ chan'[y] = <<"nread", g>> => writeopen'[g] /\ (nread'[g] = nwrite'[g] \/ cut'[g])
                           /\ chan'[y] = <<"nwrite", g>> => readopen'[g] /\ Room(g)' = 0
    PROVE  NoStuckEnd'
<1>1. \A h \in Page \ {g} : Room(h)' = Room(h) BY DEF Room
<1>2. ASSUME NEW y \in Proc, NEW h \in Page, h # g
      PROVE  /\ chan'[y] = <<"nread", h>> => writeopen'[h] /\ (nread'[h] = nwrite'[h] \/ cut'[h])
             /\ chan'[y] = <<"nwrite", h>> => readopen'[h] /\ Room(h)' = 0
  BY <1>1, <1>2 DEF NoStuckEnd, NoStuckReader, NoStuckWriter
<1>3. NoStuckReader' BY <1>2 DEF NoStuckReader
<1>4. NoStuckWriter' BY <1>2 DEF NoStuckWriter
<1> QED BY <1>3, <1>4 DEF NoStuckEnd

LEMMA ChanIs ==
    ASSUME NEW g \in Page, NEW h \in Page
    PROVE  /\ <<"nread", g>> # Awake /\ <<"nwrite", g>> # Awake /\ <<"nread", g>> # <<"nwrite", h>>
           /\ g # h => <<"nread", g>> # <<"nread", h>> /\ <<"nwrite", g>> # <<"nwrite", h>>
BY DEF Awake

(* pipealloc(): nobody sleeps on a free page. *)
LEMMA CreateStuck ==
    ASSUME Kept, NoStuckEnd, NEW p \in Proc, NEW g \in Page, PipeCreate(p, g)
    PROVE  NoStuckEnd'
<1>1. g \notin live /\ PipeSetup(g) /\ chan' = chan BY DEF PipeCreate
<1>2. ASSUME NEW y \in Proc PROVE chan[y] # <<"nread", g>> /\ chan[y] # <<"nwrite", g>>
  <2>1. Uses(y) BY UsedIs DEF Kept, Used
  <2>2. pc[y] \in Busy => arg[y].pipe \in live BY OwnEnd DEF Kept
  <2> QED BY <1>1, <2>1, <2>2 DEF Uses, Busy
<1>3. \A h \in Page \ {g} : nread'[h] = nread[h] /\ nwrite'[h] = nwrite[h]
  BY <1>1 DEF PipeSetup, Kept, Used, RingTypes
<1>4. \A h \in Page \ {g} : readopen'[h] <=> readopen[h] BY <1>1 DEF PipeSetup, Kept, Lives, Flags
<1>5. \A h \in Page \ {g} : writeopen'[h] <=> writeopen[h] BY <1>1 DEF PipeSetup, Kept, Lives, Flags
<1>6. \A h \in Page \ {g} : cut'[h] <=> cut[h] BY <1>1 DEF PipeSetup, Kept, Used, RingTypes
<1> QED BY <1>1, <1>2, <1>3, <1>4, <1>5, <1>6, StuckElsewhere

(* pipeclose(): who sleeps on the other channel has its own end open, so    *)
(* the page stays.                                                          *)
LEMMA CloseStuck ==
    ASSUME Kept, NoStuckEnd, NEW p \in Proc, CloseObject(p)
    PROVE  NoStuckEnd'
<1>1. PICK g \in Page, w \in BOOLEAN : PipeClose(g, w) BY ClosesEnd DEF Kept
<1>2. /\ readopen'[g] <=> w /\ readopen[g]
      /\ writeopen'[g] <=> ~w /\ writeopen[g]
      /\ \A h \in Page \ {g} : /\ readopen'[h] <=> readopen[h]
                               /\ writeopen'[h] <=> writeopen[h]
  BY <1>1, CloseFlags DEF Kept, Lives
<1>3. Kfree(g, ~readopen'[g] /\ ~writeopen'[g]) BY <1>1 DEF PipeClose
<1>4. \A h \in Page \ {g} : nread'[h] = nread[h] /\ nwrite'[h] = nwrite[h]
  BY <1>3 DEF Kfree, Kept, Used, RingTypes
<1>5. \A h \in Page \ {g} : cut'[h] <=> cut[h] BY <1>3 DEF Kfree, Kept, Used, RingTypes
<1>6. chan' = Wakeup(<<IF w THEN "nread" ELSE "nwrite", g>>, chan) BY <1>1 DEF PipeClose
<1>7. chan \in [Proc -> Chans] BY DEF Kept, Used, RingTypes
<1>8. \A y \in Proc : /\ chan'[y] \in {chan[y], Awake}
                      /\ chan'[y] # <<IF w THEN "nread" ELSE "nwrite", g>>
  <2>1. <<IF w THEN "nread" ELSE "nwrite", g>> # Awake BY DEF Awake
  <2> QED BY <1>6, <1>7, <2>1, WakeupIs
<1>9. readopen'[g] \/ writeopen'[g] => UNCHANGED <<nread, nwrite, cut>> BY <1>3 DEF Kfree
<1>10. ASSUME NEW y \in Proc
       PROVE  /\ chan'[y] = <<"nread", g>> => writeopen'[g] /\ (nread'[g] = nwrite'[g] \/ cut'[g])
              /\ chan'[y] = <<"nwrite", g>> => readopen'[g] /\ Room(g)' = 0
  <2>1. CASE w
    <3>1. chan'[y] # <<"nread", g>> BY <1>8, <2>1
    <3>2. ASSUME chan'[y] = <<"nwrite", g>> PROVE readopen'[g] /\ Room(g)' = 0
      <4>1. chan[y] = <<"nwrite", g>> BY <1>8, <3>2, ChanIs
      <4>2. readopen[g] /\ Room(g) = 0 BY <4>1 DEF NoStuckEnd, NoStuckWriter
      <4>3. readopen'[g] BY <1>2, <2>1, <4>2
      <4>4. Room(g)' = Room(g) BY <1>9, <4>3 DEF Room
      <4> QED BY <4>2, <4>3, <4>4
    <3> QED BY <3>1, <3>2
  <2>2. CASE ~w
    <3>1. chan'[y] # <<"nwrite", g>> BY <1>8, <2>2
    <3>2. ASSUME chan'[y] = <<"nread", g>> PROVE writeopen'[g] /\ (nread'[g] = nwrite'[g] \/ cut'[g])
      <4>1. chan[y] = <<"nread", g>> BY <1>8, <3>2, ChanIs
      <4>2. writeopen[g] /\ (nread[g] = nwrite[g] \/ cut[g]) BY <4>1 DEF NoStuckEnd, NoStuckReader
      <4>3. writeopen'[g] BY <1>2, <2>2, <4>2
      <4> QED BY <1>9, <4>2, <4>3
    <3> QED BY <3>1, <3>2
  <2> QED BY <2>1, <2>2
<1>11. \A h \in Page, y \in Proc : /\ chan'[y] = <<"nread", h>> => chan[y] = <<"nread", h>>
                                   /\ chan'[y] = <<"nwrite", h>> => chan[y] = <<"nwrite", h>>
  BY <1>8, ChanIs
<1> QED BY <1>2, <1>4, <1>5, <1>10, <1>11, StuckElsewhere

(* piperead() empties the ring only past readers that were not woken. *)
LEMMA ReadStuck ==
    ASSUME Kept, NoStuckEnd, NEW p \in Proc, PipeRead(p)
    PROVE  NoStuckEnd'
<1>1. PICK g \in Page, k \in 0..(UINT - 1) :
      /\ chan[p] = Awake /\ UNCHANGED <<nwrite, readopen, writeopen, cut>>
      /\ \/ /\ nread[g] = nwrite[g] /\ writeopen[g] /\ UNCHANGED nread
            /\ chan' = chan \/ chan' = [chan EXCEPT ![p] = <<"nread", g>>]
         \/ /\ nread[g] # nwrite[g] \/ ~writeopen[g]
            /\ nread' = [nread EXCEPT ![g] = (nread[g] + k) % UINT]
            /\ chan' = Wakeup(<<"nwrite", g>>, chan)
  <2>1. arg[p].pipe \in Page /\ Least(arg[p].n, Unread(arg[p].pipe)) \in 0..(UINT - 1) BY ReadIs DEF Kept
  <2> QED BY <2>1, ReadIs DEF Kept
<1>2. chan \in [Proc -> Chans] BY DEF Kept, Used, RingTypes
<1>3. CASE chan' = chan /\ UNCHANGED nread BY <1>1, <1>3, StuckSame
<1>4. CASE nread[g] = nwrite[g] /\ writeopen[g] /\ UNCHANGED nread /\ chan' = [chan EXCEPT ![p] = <<"nread", g>>]
  <2>1. chan'[p] = <<"nread", g>> /\ \A y \in Proc \ {p} : chan'[y] = chan[y] BY <1>2, <1>4
  <2>2. \A h \in Page \ {g}, y \in Proc : /\ chan'[y] = <<"nread", h>> => chan[y] = <<"nread", h>>
                                          /\ chan'[y] = <<"nwrite", h>> => chan[y] = <<"nwrite", h>>
    BY <1>1, <2>1, ChanIs
  <2>3. Room(g)' = Room(g) BY <1>1, <1>4 DEF Room
  <2>4. \A y \in Proc : chan'[y] = <<"nwrite", g>> => readopen'[g] /\ Room(g)' = 0
    BY <1>1, <2>1, <2>3, ChanIs DEF NoStuckEnd, NoStuckWriter
  <2> QED BY <1>1, <1>4, <2>2, <2>4, StuckElsewhere
<1>5. CASE /\ nread[g] # nwrite[g] \/ ~writeopen[g]
           /\ nread' = [nread EXCEPT ![g] = (nread[g] + k) % UINT]
           /\ chan' = Wakeup(<<"nwrite", g>>, chan)
  <2>1. \A y \in Proc : chan'[y] \in {chan[y], Awake} /\ chan'[y] # <<"nwrite", g>>
    BY <1>1, <1>2, <1>5, WakeupIs, ChanIs
  <2>2. \A h \in Page, y \in Proc : /\ chan'[y] = <<"nread", h>> => chan[y] = <<"nread", h>>
                                    /\ chan'[y] = <<"nwrite", h>> => chan[y] = <<"nwrite", h>>
    BY <2>1, ChanIs
  <2>3. ASSUME NEW y \in Proc, chan'[y] = <<"nread", g>> PROVE writeopen'[g] /\ cut'[g]
    <3>1. writeopen[g] /\ (nread[g] = nwrite[g] \/ cut[g])
      BY <1>1, <2>2, <2>3 DEF NoStuckEnd, NoStuckReader
    <3> QED BY <1>1, <1>5, <3>1
  <2>4. \A h \in Page \ {g} : nread'[h] = nread[h] BY <1>5 DEF Kept, Used, RingTypes
  <2> QED BY <1>1, <2>1, <2>2, <2>3, <2>4, StuckElsewhere
<1> QED BY <1>1, <1>3, <1>4, <1>5

(* pipewrite() has bytes to write, so it does not return from a full ring. *)
LEMMA WriteStuck ==
    ASSUME Kept, NoStuckEnd, NEW p \in Proc, PipeWrite(p)
    PROVE  NoStuckEnd'
<1>1. PICK g \in Page, n \in Nat :
      /\ chan[p] = Awake /\ n > 0 /\ UNCHANGED <<nread, readopen, writeopen>>
      /\ nread[g] \in 0..(UINT - 1) /\ nwrite[g] \in 0..(UINT - 1) /\ Room(g) \in 0..(UINT - 1)
      /\ \/ /\ n <= Room(g) /\ nwrite' = [nwrite EXCEPT ![g] = (nwrite[g] + n) % UINT]
            /\ chan' = Wakeup(<<"nread", g>>, chan) /\ cut' = [cut EXCEPT ![g] = FALSE]
         \/ /\ n > Room(g) /\ nwrite' = [nwrite EXCEPT ![g] = (nwrite[g] + Room(g)) % UINT]
            /\ \/ chan' = chan /\ cut' = [cut EXCEPT ![g] = TRUE]
               \/ /\ readopen[g] /\ chan' = [Wakeup(<<"nread", g>>, chan) EXCEPT ![p] = <<"nwrite", g>>]
                  /\ cut' = [cut EXCEPT ![g] = FALSE]
  <2>1. arg[p].pipe \in Page /\ arg[p].n \in Nat BY WriteIs DEF Kept
  <2> QED BY <2>1, WriteIs DEF Kept
<1>2. chan \in [Proc -> Chans] BY DEF Kept, Used, RingTypes
<1>3. Wakeup(<<"nread", g>>, chan) \in [Proc -> Chans]
      /\ \A y \in Proc : /\ Wakeup(<<"nread", g>>, chan)[y] \in {chan[y], Awake}
                         /\ Wakeup(<<"nread", g>>, chan)[y] # <<"nread", g>>
  BY <1>1, <1>2, WakeupIs, ChanIs
<1>4. \A h \in Page \ {g} : nwrite'[h] = nwrite[h] BY <1>1 DEF Kept, Used, RingTypes
<1>5. \A h \in Page \ {g} : cut'[h] <=> cut[h]
  <2>1. PICK b \in BOOLEAN : cut' = [cut EXCEPT ![g] = b] BY <1>1
  <2> QED BY <2>1 DEF Kept, Used, RingTypes
<1>6. nwrite' = [nwrite EXCEPT ![g] = (nwrite[g] + Room(g)) % UINT] => Room(g)' = 0
  <2> SUFFICES ASSUME nwrite' = [nwrite EXCEPT ![g] = (nwrite[g] + Room(g)) % UINT] PROVE Room(g)' = 0
    OBVIOUS
  <2>1. nwrite'[g] = (nwrite[g] + Room(g)) % UINT BY <1>1 DEF Kept, Used, RingTypes
  <2>2. (nread[g] + PIPESIZE - ((nwrite[g] + Room(g)) % UINT)) % UINT = 0 BY <1>1, FilledUp DEF Room
  <2> QED BY <1>1, <2>1, <2>2 DEF Room
<1>7. CASE n <= Room(g) /\ chan' = Wakeup(<<"nread", g>>, chan)
  <2>1. \A h \in Page, y \in Proc : /\ chan'[y] = <<"nread", h>> => chan[y] = <<"nread", h>>
                                    /\ chan'[y] = <<"nwrite", h>> => chan[y] = <<"nwrite", h>>
    BY <1>3, <1>7, ChanIs
  <2>2. Room(g) # 0 BY <1>1, <1>7
  <2>3. \A y \in Proc : chan'[y] # <<"nwrite", g>> BY <1>1, <2>1, <2>2 DEF NoStuckEnd, NoStuckWriter
  <2>4. \A y \in Proc : chan'[y] # <<"nread", g>> BY <1>3, <1>7
  <2> QED BY <1>1, <1>4, <1>5, <2>1, <2>3, <2>4, StuckElsewhere
<1>8. CASE n > Room(g) /\ chan' = chan
  <2>1. Room(g)' = 0 BY <1>1, <1>6, <1>8
  <2>2. cut'[g]
    <3>1. cut' = [cut EXCEPT ![g] = TRUE]
      <4>1. chan # [Wakeup(<<"nread", g>>, chan) EXCEPT ![p] = <<"nwrite", g>>] BY <1>1, <1>2, <1>3, ChanIs
      <4> QED BY <1>1, <1>8, <4>1
    <3> QED BY <1>1, <3>1 DEF Kept, Used, RingTypes
  <2>3. \A y \in Proc : chan'[y] = <<"nread", g>> => writeopen'[g]
    BY <1>1, <1>8 DEF NoStuckEnd, NoStuckReader
  <2>4. \A y \in Proc : chan'[y] = <<"nwrite", g>> => readopen'[g]
    BY <1>1, <1>8 DEF NoStuckEnd, NoStuckWriter
  <2> QED BY <1>1, <1>4, <1>5, <1>8, <2>1, <2>2, <2>3, <2>4, StuckElsewhere
<1>9. CASE /\ n > Room(g) /\ readopen[g]
           /\ chan' = [Wakeup(<<"nread", g>>, chan) EXCEPT ![p] = <<"nwrite", g>>]
  <2>1. Room(g)' = 0 BY <1>1, <1>6, <1>9
  <2>2. /\ chan'[p] = <<"nwrite", g>>
        /\ \A y \in Proc \ {p} : chan'[y] \in {chan[y], Awake} /\ chan'[y] # <<"nread", g>>
    BY <1>3, <1>9
  <2>3. \A h \in Page \ {g}, y \in Proc : /\ chan'[y] = <<"nread", h>> => chan[y] = <<"nread", h>>
                                          /\ chan'[y] = <<"nwrite", h>> => chan[y] = <<"nwrite", h>>
    BY <1>1, <2>2, ChanIs
  <2>4. \A y \in Proc : chan'[y] # <<"nread", g>> BY <1>1, <2>2, ChanIs
  <2> QED BY <1>1, <1>4, <1>5, <1>9, <2>1, <2>3, <2>4, StuckElsewhere
<1> QED BY <1>1, <1>7, <1>8, <1>9

LEMMA NextStuck == Kept /\ NoStuckEnd /\ [Next]_vars => NoStuckEnd'
<1> SUFFICES ASSUME Kept, NoStuckEnd, [Next]_vars PROVE NoStuckEnd' OBVIOUS
<1>1. CASE UNCHANGED vars BY <1>1, StuckSame DEF vars, ring
<1>2. ASSUME NEW p \in Proc,
             \/ \E f \in File : PipeFirst(p, f)
             \/ PipeSecond(p) \/ PipeNoMemory(p)
             \/ \E d \in Fd : Close(p, d) \/ Dup(p, d)
             \/ \E q \in Proc : Fork(p, q)
             \/ Exit(p) \/ FileClose(p)
             \/ \E d \in Fd, n \in ReadSizes : Enter(p, d, FALSE, "read", n, 0)
             \/ \E d \in Fd, n \in WriteSizes, b \in Byte : Enter(p, d, TRUE, "write", n, b)
      PROVE  NoStuckEnd'
  <2>1. UNCHANGED <<nread, nwrite, readopen, writeopen, cut, chan>>
    BY <1>2 DEF PipeFirst, PipeSecond, PipeNoMemory, Close, Dup, Fork, Exit, FileClose, Enter, ring
  <2> QED BY <2>1, StuckSame
<1>3. ASSUME NEW p \in Proc, Kill(p) PROVE NoStuckEnd'
  <2>1. UNCHANGED <<nread, nwrite, readopen, writeopen, cut>> BY <1>3 DEF Kill, ring
  <2>2. \A y \in Proc : chan'[y] \in {chan[y], Awake} BY <1>3 DEF Kill, Kept, Used, RingTypes
  <2> QED BY <2>1, <2>2, StuckSame
<1>4. ASSUME NEW p \in Proc, Read(p) PROVE NoStuckEnd' BY <1>2, <1>4, ReadStuck DEF Read
<1>5. ASSUME NEW p \in Proc, Write(p) PROVE NoStuckEnd' BY <1>2, <1>5, WriteStuck DEF Write
<1>6. ASSUME NEW p \in Proc, SysPipe(p) PROVE NoStuckEnd' BY <1>2, <1>6, CreateStuck DEF SysPipe
<1>7. ASSUME NEW p \in Proc, CloseObject(p) PROVE NoStuckEnd' BY <1>7, CloseStuck
<1> QED BY <1>1, <1>2, <1>3, <1>4, <1>5, <1>6, <1>7 DEF Next

-----------------------------------------------------------------------------
(* The theorems. *)

LEMMA KeptHolds == Spec => []Kept
<1>1. Init => Kept BY InitTable, InitLives, InitUsed DEF Kept
<1>2. Kept /\ [Next]_vars => Kept' BY NextTable, NextLives, NextUsed DEF Kept
<1> QED BY <1>1, <1>2, PTL DEF Spec

LEMMA KeptGives == Kept => FilesInv
<1> SUFFICES ASSUME Kept PROVE FilesInv OBVIOUS
<1>1. TypeOK BY DEF Kept, Table, TableTypes, Lives, Flags, Used, RingTypes, Chans, TypeOK
<1>2. FileRefs /\ InHand /\ InUse BY DEF Kept, Table, Used
<1>3. PipeLives BY LivesIs DEF Kept, Lives
<1>4. NoUseAfterFree BY OwnEnd DEF Kept, NoUseAfterFree, Busy
<1> QED BY <1>1, <1>2, <1>3, <1>4 DEF FilesInv

(* Reference counts, descriptors and pipes agree in every reachable state:  *)
(* a file's count is the number of descriptors and of files in hand, a page *)
(* lives while an end is open, an end while one file or one closing process *)
(* speaks for it, and who is in piperead() or pipewrite() has its end open. *)
THEOREM FilesInvHolds == Spec => []FilesInv
BY KeptHolds, KeptGives, PTL

(* No sleeper of pipe.c is left beside bytes to read, room to write or an   *)
(* end that was closed; readers may be behind a killed writer (cut).        *)
THEOREM NoStuckEndHolds == Spec => []NoStuckEnd
<1>1. Init => NoStuckEnd
  BY DEF Init, PipeInit, NoStuckEnd, NoStuckReader, NoStuckWriter, Awake
<1> QED BY <1>1, NextStuck, KeptHolds, PTL DEF Spec

(* What a read() returning without a byte has seen. *)
LEMMA EofStep ==
    ASSUME Kept, [Next]_vars, NEW p \in Proc, pc[p] = "read", pc'[p] = "user", nread' = nread, ~killed[p]
    PROVE  /\ Contents(arg[p].pipe) = <<>>
           /\ \A q \in Proc, d \in Fd : ofile[q][d] # 0 => obj[ofile[q][d]] # PipeEnd(arg[p].pipe, TRUE)
<1>1. PipeRead(p)
  <2>1. pc'[p] # pc[p] BY DEF Kept, Table, TableTypes
  <2>2. ~UNCHANGED vars BY <2>1 DEF vars
  <2>3. PICK x \in Proc : \/ SysPipe(x)
                          \/ \E d \in Fd : Close(x, d) \/ Dup(x, d)
                          \/ \E q \in Proc : Fork(x, q)
                          \/ Exit(x) \/ FileClose(x) \/ CloseObject(x)
                          \/ Read(x) \/ Write(x) \/ Kill(x)
    BY <2>2 DEF Next
  <2>4. pc \in [Proc -> {"none", "user", "pipe", "close", "exit", "read", "write"}] BY DEF Kept, Table, TableTypes
  <2>5. CASE SysPipe(x)
    BY <2>1, <2>4, <2>5 DEF SysPipe, PipeFirst, PipeSecond, PipeNoMemory, PipeCreate, Calls, Goto
  <2>6. CASE \E d \in Fd : Close(x, d) \/ Dup(x, d)
    BY <2>1, <2>4, <2>6 DEF Close, Dup, Argfd, Calls, Goto
  <2>7. CASE \E q \in Proc : Fork(x, q) BY <2>1, <2>4, <2>7 DEF Fork, Goto
  <2>8. CASE Exit(x) BY <2>1, <2>4, <2>8 DEF Exit, Goto
  <2>9. CASE FileClose(x)
    <3>1. pc[x] \in {"close", "exit"} /\ Closed(x) BY <2>9 DEF FileClose
    <3>2. \A q \in Proc \ {x} : pc'[q] = pc[q] BY <3>1, ClosedPc DEF Kept
    <3> QED BY <2>1, <3>1, <3>2
  <2>10. CASE CloseObject(x)
    <3>1. pc[x] \in {"close", "exit"} /\ Closed(x) BY <2>10 DEF CloseObject, Kept, Table, InHand
    <3>2. \A q \in Proc \ {x} : pc'[q] = pc[q] BY <3>1, ClosedPc DEF Kept
    <3> QED BY <2>1, <3>1, <3>2
  <2>11. CASE Read(x) BY <2>1, <2>4, <2>11 DEF Read, Enter, Argfd, Calls, Goto, PipeRead, Return
  <2>12. CASE Write(x) BY <2>1, <2>4, <2>12 DEF Write, Enter, Argfd, Calls, Goto, PipeWrite, WriteFull, Return
  <2>13. CASE Kill(x) BY <2>1, <2>13 DEF Kill
  <2> QED BY <2>3, <2>5, <2>6, <2>7, <2>8, <2>9, <2>10, <2>11, <2>12, <2>13
<1> DEFINE g == arg[p].pipe
           k == Least(arg[p].n, Unread(g))
<1>2. /\ g \in Page /\ arg[p].n \in Nat /\ arg[p].n > 0
      /\ nread[g] \in 0..(UINT - 1) /\ nwrite[g] \in 0..(UINT - 1) /\ k \in 0..(UINT - 1)
      /\ nread[g] # nwrite[g] \/ ~writeopen[g]
      /\ nread' = [nread EXCEPT ![g] = (nread[g] + k) % UINT]
  <2>1. pc'[p] # pc[p] BY DEF Kept, Table, TableTypes
  <2> QED BY <1>1, <2>1, ReadIs DEF Kept
<1>3. Unread(g) \in 0..(UINT - 1) /\ (Unread(g) = 0 <=> nread[g] = nwrite[g]) BY <1>2, UnreadZero
<1>4. Unread(g) = 0
  <2> HIDE DEF g
  <2>1. (nread[g] + k) % UINT = nread[g] BY <1>2 DEF Kept, Used, RingTypes
  <2>2. k = 0
    <3> HIDE DEF k
    <3> QED BY <1>2, <2>1, Advanced
  <2> QED BY <1>2, <1>3, <2>2 DEF Least
<1>5. ~writeopen[g] BY <1>2, <1>3, <1>4
<1>6. Contents(g) = <<>>
  <2>1. 1..Unread(g) = {} BY <1>4
  <2>2. CASE g \in live
    <3>1. Contents(g) = [j \in {} |-> data[g][((nread[g] + j - 1) % UINT) % PIPESIZE]]
      BY <2>1, <2>2 DEF Contents
    <3> QED BY <3>1
  <2>3. CASE g \notin live BY <2>3 DEF Contents
  <2> QED BY <2>2, <2>3
<1>7. ASSUME NEW q \in Proc, NEW d \in Fd, ofile[q][d] # 0 PROVE obj[ofile[q][d]] # PipeEnd(g, TRUE)
  <2>1. ofile[q][d] \in File BY <1>7 DEF Kept, Table, TableTypes
  <2> QED BY <1>2, <1>5, <2>1, EndOpen DEF Kept
<1> QED BY <1>6, <1>7

(* piperead() returns 0 to a process that was not killed only as the end of *)
(* the file: the pipe is empty and nobody has a descriptor to write to it.  *)
THEOREM EofMeansNoWriterHolds == Spec => EofMeansNoWriter
<1>1. Kept /\ [Next]_vars =>
        [\A p \in Proc :
           pc[p] = "read" /\ pc'[p] = "user" /\ nread' = nread /\ ~killed[p]
             => /\ Contents(arg[p].pipe) = <<>>
                /\ \A q \in Proc, d \in Fd :
                     ofile[q][d] # 0 => obj[ofile[q][d]] # PipeEnd(arg[p].pipe, TRUE)]_vars
  BY EofStep
<1> QED BY <1>1, KeptHolds, PTL DEF Spec, EofMeansNoWriter

-----------------------------------------------------------------------------
(* The ring: PIPESIZE consecutive counter values have different slots, also *)
(* across the overflow, because PIPESIZE divides UINT.                      *)

LEMMA Division ==
    ASSUME NEW x \in Int
    PROVE  /\ x \div PIPESIZE \in Int /\ x % PIPESIZE \in 0..(PIPESIZE - 1)
           /\ x = PIPESIZE * (x \div PIPESIZE) + (x % PIPESIZE)
<1>1. PIPESIZE \in Nat /\ PIPESIZE > 0 BY RingAssumption
<1> QED BY <1>1

LEMMA OneRemainder ==
    ASSUME NEW q \in Int, NEW t \in Int, NEW a \in 0..(PIPESIZE - 1), NEW b \in 0..(PIPESIZE - 1),
           PIPESIZE * q + a = PIPESIZE * t + b
    PROVE  q = t /\ a = b
<1>1. PIPESIZE \in Nat /\ PIPESIZE > 0 BY RingAssumption
<1>2. PIPESIZE * (q - t) = b - a BY <1>1
<1>3. b - a < PIPESIZE /\ a - b < PIPESIZE BY <1>1
<1>4. CASE q - t >= 1
  <2>1. PIPESIZE * (q - t) >= PIPESIZE BY <1>1, <1>4
  <2> QED BY <1>1, <1>2, <1>3, <2>1
<1>5. CASE q - t <= -1
  <2>1. PIPESIZE * (q - t) <= -PIPESIZE BY <1>1, <1>5
  <2> QED BY <1>1, <1>2, <1>3, <2>1
<1>6. CASE q = t BY <1>1, <1>6
<1> QED BY <1>4, <1>5, <1>6

(* The slot of a counter value. *)
Slot(x) == (x % UINT) % PIPESIZE

LEMMA SlotIs ==
    ASSUME NEW x \in Int, x >= 0, x < 2 * UINT
    PROVE  Slot(x) = x % PIPESIZE
<1>1. UINT \in Nat /\ UINT > 0 /\ PIPESIZE \in Nat BY RingAssumption
<1>2. CASE x < UINT
  <2>1. x \in 0..(UINT - 1) BY <1>1, <1>2
  <2> QED BY <2>1, ModIs DEF Slot
<1>3. CASE x >= UINT
  <2>1. x - UINT \in 0..(UINT - 1) /\ x = (x - UINT) + UINT /\ x - UINT \in Int BY <1>1, <1>3
  <2>2. x % UINT = x - UINT BY <2>1, ModIs
  <2> DEFINE m == UINT \div PIPESIZE
             q == x \div PIPESIZE
             t == (x - UINT) \div PIPESIZE
             a == x % PIPESIZE
             b == (x - UINT) % PIPESIZE
  <2>3. m \in Int /\ UINT = PIPESIZE * m
    <3>1. UINT \in Int /\ UINT % PIPESIZE = 0 BY RingAssumption
    <3>2. UINT = PIPESIZE * (UINT \div PIPESIZE) + (UINT % PIPESIZE) /\ UINT \div PIPESIZE \in Int BY <3>1, Division
    <3> QED BY <1>1, <3>1, <3>2
  <2>4. q \in Int /\ a \in 0..(PIPESIZE - 1) /\ x = PIPESIZE * q + a BY Division
  <2>5. t \in Int /\ b \in 0..(PIPESIZE - 1) /\ x - UINT = PIPESIZE * t + b BY <2>1, Division
  <2> HIDE DEF m, q, t, a, b
  <2>6. PIPESIZE * (q - m) + a = PIPESIZE * t + b
    <3>1. PIPESIZE * (q - m) = PIPESIZE * q - PIPESIZE * m BY <1>1, <2>3, <2>4
    <3>2. PIPESIZE * q \in Int /\ PIPESIZE * m \in Int /\ PIPESIZE * t \in Int /\ a \in Int /\ b \in Int
      BY <1>1, <2>3, <2>4, <2>5
    <3> QED BY <2>3, <2>4, <2>5, <3>1, <3>2
  <2>7. q - m \in Int BY <2>3, <2>4
  <2>8. a = b BY <2>4, <2>5, <2>6, <2>7, OneRemainder
  <2> QED BY <2>2, <2>8 DEF Slot, a, b
<1> QED BY <1>1, <1>2, <1>3

LEMMA SlotsDiffer ==
    ASSUME NEW r \in 0..(UINT - 1), NEW i \in 0..(PIPESIZE - 1), NEW j \in 0..(PIPESIZE - 1), Slot(r + i) = Slot(r + j)
    PROVE  i = j
<1>1. UINT \in Nat /\ UINT > PIPESIZE /\ PIPESIZE \in Nat /\ PIPESIZE > 0 BY RingAssumption
<1>2. r + i \in Int /\ r + i >= 0 /\ r + i < 2 * UINT /\ r + j \in Int /\ r + j >= 0 /\ r + j < 2 * UINT BY <1>1
<1>3. (r + i) % PIPESIZE = (r + j) % PIPESIZE BY <1>2, SlotIs
<1> DEFINE q == (r + i) \div PIPESIZE
           t == (r + j) \div PIPESIZE
           a == (r + i) % PIPESIZE
<1>4. q \in Int /\ a \in 0..(PIPESIZE - 1) /\ r + i = PIPESIZE * q + a BY <1>2, Division
<1>5. t \in Int /\ r + j = PIPESIZE * t + a BY <1>2, <1>3, Division
<1> HIDE DEF q, t, a
<1>6. PIPESIZE * (q - t) = i - j
  <2>1. PIPESIZE * (q - t) = PIPESIZE * q - PIPESIZE * t BY <1>1, <1>4, <1>5
  <2>2. PIPESIZE * q \in Int /\ PIPESIZE * t \in Int BY <1>1, <1>4, <1>5
  <2> QED BY <1>4, <1>5, <2>1, <2>2
<1>7. CASE q - t >= 1
  <2>1. PIPESIZE * (q - t) >= PIPESIZE BY <1>1, <1>4, <1>5, <1>7
  <2> QED BY <1>1, <1>6, <2>1
<1>8. CASE q - t <= -1
  <2>1. PIPESIZE * (q - t) <= -PIPESIZE BY <1>1, <1>4, <1>5, <1>8
  <2> QED BY <1>1, <1>6, <2>1
<1>9. CASE q = t BY <1>4, <1>5, <1>9
<1> QED BY <1>4, <1>5, <1>7, <1>8, <1>9

(* Counters u apart, in the terms of integers. *)
LEMMA Gap ==
    ASSUME NEW r \in 0..(UINT - 1), NEW w \in 0..(UINT - 1), NEW u, u = (w - r) % UINT
    PROVE  u \in 0..(UINT - 1) /\ (w = r + u \/ w = r + u - UINT)
<1>1. UINT \in Nat /\ UINT > 0 BY RingAssumption
<1>2. CASE w >= r
  <2>1. w - r \in 0..(UINT - 1) /\ w - r \in Int BY <1>1, <1>2
  <2>2. u = w - r BY <2>1, ModIs
  <2> QED BY <1>1, <2>1, <2>2
<1>3. CASE w < r
  <2>1. w - r + UINT \in 0..(UINT - 1) /\ w - r \in Int /\ w - r = (w - r + UINT) - UINT BY <1>1, <1>3
  <2>2. u = w - r + UINT BY <2>1, ModIs
  <2> QED BY <1>1, <2>1, <2>2
<1> QED BY <1>1, <1>2, <1>3

LEMMA Step ==
    ASSUME NEW x \in 0..(UINT - 1), NEW k \in 0..(UINT - 1)
    PROVE  (x + k) % UINT \in 0..(UINT - 1) /\ ((x + k) % UINT = x + k \/ (x + k) % UINT = x + k - UINT)
<1>1. UINT \in Nat /\ UINT > 0 BY RingAssumption
<1>2. CASE x + k < UINT
  <2>1. x + k \in Int /\ x + k \in 0..(UINT - 1) BY <1>1, <1>2
  <2> QED BY <2>1, ModIs
<1>3. CASE x + k >= UINT
  <2>1. x + k \in Int /\ x + k - UINT \in 0..(UINT - 1) /\ x + k = (x + k - UINT) + UINT BY <1>1, <1>3
  <2> QED BY <2>1, ModIs
<1> QED BY <1>1, <1>2, <1>3

LEMMA GapFrom ==
    ASSUME NEW r \in 0..(UINT - 1), NEW w \in 0..(UINT - 1), NEW u \in 0..(UINT - 1),
           w = r + u \/ w = r + u - UINT \/ w = r + u + UINT
    PROVE  (w - r) % UINT = u
<1>1. UINT \in Nat /\ UINT > 0 BY RingAssumption
<1>2. w - r \in Int /\ (w - r = u \/ w - r = u + UINT \/ w - r = u - UINT) BY <1>1
<1> QED BY <1>2, ModIs

LEMMA GapPut ==
    ASSUME NEW r \in 0..(UINT - 1), NEW w \in 0..(UINT - 1), NEW u \in 0..(UINT - 1), NEW k \in 0..(UINT - 1),
           w = r + u \/ w = r + u - UINT, u + k < UINT
    PROVE  (((w + k) % UINT) - r) % UINT = u + k
<1>1. UINT \in Nat /\ UINT > 0 BY RingAssumption
<1> DEFINE v == (w + k) % UINT
<1>2. v \in 0..(UINT - 1) /\ (v = w + k \/ v = w + k - UINT) BY Step
<1> HIDE DEF v
<1>3. u + k \in 0..(UINT - 1) BY <1>1
<1>4. v = r + (u + k) \/ v = r + (u + k) - UINT BY <1>1, <1>2
<1>5. (v - r) % UINT = u + k BY <1>2, <1>3, <1>4, GapFrom
<1> QED BY <1>5 DEF v

LEMMA GapDrop ==
    ASSUME NEW r \in 0..(UINT - 1), NEW w \in 0..(UINT - 1), NEW u \in 0..(UINT - 1), NEW k \in 0..u,
           w = r + u \/ w = r + u - UINT
    PROVE  (w - ((r + k) % UINT)) % UINT = u - k
<1>1. UINT \in Nat /\ UINT > 0 /\ k \in 0..(UINT - 1) BY RingAssumption
<1> DEFINE v == (r + k) % UINT
<1>2. v \in 0..(UINT - 1) /\ (v = r + k \/ v = r + k - UINT) BY <1>1, Step
<1> HIDE DEF v
<1>3. u - k \in 0..(UINT - 1) BY <1>1
<1>4. w = v + (u - k) \/ w = v + (u - k) - UINT \/ w = v + (u - k) + UINT BY <1>1, <1>2
<1>5. (w - v) % UINT = u - k BY <1>2, <1>3, <1>4, GapFrom
<1> QED BY <1>5 DEF v

LEMMA RoomLeft ==
    ASSUME NEW r \in 0..(UINT - 1), NEW w \in 0..(UINT - 1), NEW u \in 0..PIPESIZE,
           w = r + u \/ w = r + u - UINT
    PROVE  (r + PIPESIZE - w) % UINT = PIPESIZE - u
<1>1. UINT \in Nat /\ PIPESIZE \in Nat /\ UINT > PIPESIZE BY RingAssumption
<1>2. /\ r + PIPESIZE - w \in Int /\ PIPESIZE - u \in 0..(UINT - 1)
      /\ r + PIPESIZE - w = PIPESIZE - u \/ r + PIPESIZE - w = PIPESIZE - u + UINT
  BY <1>1
<1> QED BY <1>2, ModIs

LEMMA SameSlot ==
    ASSUME NEW r \in 0..(UINT - 1), NEW w \in 0..(UINT - 1), NEW u \in 0..(UINT - 1), NEW j \in 0..(UINT - 1),
           w = r + u \/ w = r + u - UINT, u + j < UINT
    PROVE  Slot(w + j) = Slot(r + (u + j))
<1>1. UINT \in Nat /\ UINT > 0 BY RingAssumption
<1>2. CASE w = r + u
  <2>1. w + j = r + (u + j) BY <1>1, <1>2
  <2> QED BY <2>1
<1>3. CASE w = r + u - UINT
  <2>1. w + j \in 0..(UINT - 1) /\ w + j \in Int /\ r + (u + j) \in Int /\ r + (u + j) = (w + j) + UINT BY <1>1, <1>3
  <2>2. (w + j) % UINT = w + j /\ (r + (u + j)) % UINT = w + j BY <2>1, ModIs
  <2> QED BY <2>2 DEF Slot
<1> QED BY <1>2, <1>3

-----------------------------------------------------------------------------
(* The ring implements the queue. *)

Cell == Byte \cup {0}

RingKept ==
    /\ data \in [Page -> [0..(PIPESIZE - 1) -> Cell]]
    /\ \A g \in Page : Unread(g) <= PIPESIZE
    /\ \A p \in Proc : pc[p] = "write" => arg[p].byte \in Byte

(* A pipe's counters in the terms of the lemmas above. *)
LEMMA CountersAre ==
    ASSUME Used, RingKept, NEW g \in Page
    PROVE  /\ nread[g] \in 0..(UINT - 1) /\ nwrite[g] \in 0..(UINT - 1)
           /\ Unread(g) \in 0..(UINT - 1) /\ Unread(g) \in 0..PIPESIZE
           /\ nwrite[g] = nread[g] + Unread(g) \/ nwrite[g] = nread[g] + Unread(g) - UINT
           /\ Room(g) = PIPESIZE - Unread(g)
<1>1. nread[g] \in 0..(UINT - 1) /\ nwrite[g] \in 0..(UINT - 1) BY DEF Used, RingTypes
<1>2. /\ Unread(g) \in 0..(UINT - 1)
      /\ nwrite[g] = nread[g] + Unread(g) \/ nwrite[g] = nread[g] + Unread(g) - UINT
  BY <1>1, Gap DEF Unread
<1>3. Unread(g) \in 0..PIPESIZE
  <2>1. Unread(g) <= PIPESIZE BY DEF RingKept
  <2> QED BY <1>2, <2>1, RingAssumption
<1>4. Room(g) = PIPESIZE - Unread(g) BY <1>1, <1>2, <1>3, RoomLeft DEF Room
<1> QED BY <1>1, <1>2, <1>3, <1>4

LEMMA SlotRange == ASSUME NEW x \in Int PROVE Slot(x) \in 0..(PIPESIZE - 1)
<1>1. x % UINT \in Int BY ModRange, RingAssumption
<1> QED BY <1>1, Division DEF Slot

LEMMA ContentsAre ==
    ASSUME Used, RingKept, NEW g \in Page
    PROVE  /\ Contents(g) \in Seq(Cell)
           /\ g \in live => /\ Len(Contents(g)) = Unread(g)
                            /\ \A j \in 1..Unread(g) : Contents(g)[j] = data[g][Slot(nread[g] + (j - 1))]
           /\ g \notin live => Contents(g) = <<>>
<1>1. Unread(g) \in Nat /\ nread[g] \in Int BY CountersAre, RingAssumption
<1>2. CASE g \in live
  <2>1. ASSUME NEW j \in 1..Unread(g)
        PROVE  data[g][((nread[g] + j - 1) % UINT) % PIPESIZE] = data[g][Slot(nread[g] + (j - 1))]
    <3>1. nread[g] + j - 1 = nread[g] + (j - 1) BY <1>1
    <3> QED BY <3>1 DEF Slot
  <2>2. Contents(g) = [j \in 1..Unread(g) |-> data[g][Slot(nread[g] + (j - 1))]] BY <1>2, <2>1 DEF Contents
  <2>3. ASSUME NEW j \in 1..Unread(g) PROVE data[g][Slot(nread[g] + (j - 1))] \in Cell
    <3>1. Slot(nread[g] + (j - 1)) \in 0..(PIPESIZE - 1)
      <4>1. nread[g] + (j - 1) \in Int BY <1>1
      <4> QED BY <4>1, SlotRange
    <3> QED BY <3>1 DEF RingKept
  <2>4. Contents(g) \in [1..Unread(g) -> Cell] BY <2>2, <2>3
  <2>5. Contents(g) \in Seq(Cell) BY <1>1, <2>4, SeqDef
  <2>6. DOMAIN Contents(g) = 1..Unread(g) BY <2>2
  <2>7. DOMAIN Contents(g) = 1..Len(Contents(g)) /\ Len(Contents(g)) \in Nat BY <2>5, LenProperties
  <2>8. Len(Contents(g)) = Unread(g)
    <3>1. \A a, b \in Nat : 1..a = 1..b => a = b OBVIOUS
    <3> QED BY <1>1, <2>6, <2>7, <3>1
  <2> QED BY <1>2, <2>2, <2>5, <2>8
<1>3. CASE g \notin live
  <2>1. Contents(g) = <<>> BY <1>3 DEF Contents
  <2> QED BY <1>3, <2>1, EmptySeq
<1> QED BY <1>2, <1>3

(* A run of one byte. *)
LEMMA Repeated ==
    ASSUME NEW k \in Nat, NEW b \in Cell
    PROVE  /\ [i \in 1..k |-> b] \in Seq(Cell) /\ Len([i \in 1..k |-> b]) = k
           /\ \A i \in 1..k : [x \in 1..k |-> b][i] = b
<1> DEFINE s == [i \in 1..k |-> b]
<1>1. s \in [1..k -> Cell] /\ DOMAIN s = 1..k OBVIOUS
<1>2. \A i \in 1..k : s[i] = b OBVIOUS
<1> HIDE DEF s
<1>3. s \in Seq(Cell) BY <1>1, SeqDef
<1>4. DOMAIN s = 1..Len(s) /\ Len(s) \in Nat BY <1>3, LenProperties
<1>5. Len(s) = k
  <2>1. \A x, y \in Nat : 1..x = 1..y => x = y OBVIOUS
  <2> QED BY <1>1, <1>4, <2>1
<1> QED BY <1>2, <1>3, <1>5 DEF s

ContentsRight ==
    \A g \in Page :
        /\ Contents(g) \in Seq(Cell)
        /\ g \in live => /\ Len(Contents(g)) = Unread(g)
                         /\ \A j \in 1..Unread(g) : Contents(g)[j] = data[g][Slot(nread[g] + (j - 1))]
        /\ g \notin live => Contents(g) = <<>>

LEMMA ContentsHold == Used /\ RingKept => ContentsRight
BY ContentsAre DEF ContentsRight

(* What Put() does to the ring. *)
LEMMA PutIs ==
    ASSUME Used, RingKept, NEW g \in Page, NEW k \in 0..(PIPESIZE - Unread(g)), NEW b \in Cell,
           Put(g, k, b), nread' = nread
    PROVE  /\ Unread(g)' = Unread(g) + k
           /\ \A h \in Page \ {g} : nwrite'[h] = nwrite[h] /\ data'[h] = data[h]
           /\ data' \in [Page -> [0..(PIPESIZE - 1) -> Cell]]
           /\ \A i \in 0..(PIPESIZE - 1) :
                data'[g][i] = IF \E j \in 0..(k - 1) : Slot(nread[g] + (Unread(g) + j)) = i THEN b ELSE data[g][i]
<1> DEFINE r == nread[g]
           w == nwrite[g]
           u == Unread(g)
<1>1. /\ r \in 0..(UINT - 1) /\ w \in 0..(UINT - 1) /\ u \in 0..(UINT - 1) /\ u \in 0..PIPESIZE
      /\ w = r + u \/ w = r + u - UINT
  BY CountersAre
<1>2. k \in 0..(UINT - 1) /\ u + k < UINT /\ k \in 0..(PIPESIZE - u) BY <1>1, RingAssumption
<1>3. nwrite' = [nwrite EXCEPT ![g] = (w + k) % UINT] BY DEF Put
<1>4. nwrite'[g] = (w + k) % UINT /\ \A h \in Page \ {g} : nwrite'[h] = nwrite[h]
  BY <1>3 DEF Used, RingTypes
<1>5. Unread(g)' = u + k
  <2>1. Unread(g)' = (nwrite'[g] - nread'[g]) % UINT BY DEF Unread
  <2>2. nread'[g] = r OBVIOUS
  <2> HIDE DEF r, w, u
  <2>3. (((w + k) % UINT) - r) % UINT = u + k BY <1>1, <1>2, GapPut
  <2> QED BY <1>4, <2>1, <2>2, <2>3
<1>6. data' = [data EXCEPT ![g] = [i \in DOMAIN data[g] |->
                 IF \E j \in 0..(k - 1) : ((w + j) % UINT) % PIPESIZE = i THEN b ELSE data[g][i]]]
  BY DEF Put
<1>7. data[g] \in [0..(PIPESIZE - 1) -> Cell] /\ DOMAIN data[g] = 0..(PIPESIZE - 1) BY DEF RingKept
<1> HIDE DEF r, w, u
<1>8. /\ data'[g] = [i \in 0..(PIPESIZE - 1) |->
                       IF \E j \in 0..(k - 1) : ((w + j) % UINT) % PIPESIZE = i THEN b ELSE data[g][i]]
      /\ \A h \in Page \ {g} : data'[h] = data[h]
  BY <1>6, <1>7 DEF RingKept
<1>9. \A i \in 0..(PIPESIZE - 1) : data'[g][i] \in Cell BY <1>7, <1>8
<1>10. data'[g] \in [0..(PIPESIZE - 1) -> Cell] BY <1>8, <1>9
<1>11. data' \in [Page -> [0..(PIPESIZE - 1) -> Cell]]
  <2>1. \A h \in Page : data'[h] \in [0..(PIPESIZE - 1) -> Cell] BY <1>8, <1>10 DEF RingKept
  <2>2. data' = [h \in Page |-> data'[h]] BY <1>6 DEF RingKept
  <2> QED BY <2>1, <2>2
<1>12. ASSUME NEW j \in 0..(k - 1) PROVE ((w + j) % UINT) % PIPESIZE = Slot(r + (u + j))
  <2>1. j \in 0..(UINT - 1) /\ u + j < UINT BY <1>1, <1>2, RingAssumption
  <2> QED BY <1>1, <2>1, SameSlot DEF Slot
<1>13. \A i \in 0..(PIPESIZE - 1) :
         data'[g][i] = IF \E j \in 0..(k - 1) : Slot(r + (u + j)) = i THEN b ELSE data[g][i]
  BY <1>8, <1>12
<1> QED BY <1>4, <1>5, <1>8, <1>11, <1>13 DEF r, u

(* pipewrite()'s bytes follow the ones in the ring. *)
LEMMA PutContents ==
    ASSUME Used, RingKept, Used', RingKept', NEW g \in Page, NEW k \in 0..(PIPESIZE - Unread(g)), NEW b \in Byte,
           Put(g, k, b), nread' = nread, g \in live, g \in live'
    PROVE  Contents(g)' = Contents(g) \o [i \in 1..k |-> b]
<1>1. ContentsRight /\ ContentsRight' BY ContentsHold, PTL
<1> DEFINE r == nread[g]
           u == Unread(g)
           s == Contents(g)
           t == [i \in 1..k |-> b]
<1>2. /\ r \in 0..(UINT - 1) /\ u \in 0..PIPESIZE /\ PIPESIZE \in Nat /\ UINT \in Nat
      /\ k \in Nat /\ u + k <= PIPESIZE
  BY CountersAre, RingAssumption
<1>3. b \in Cell BY DEF Cell
<1>4. /\ Unread(g)' = u + k
      /\ \A i \in 0..(PIPESIZE - 1) :
           data'[g][i] = IF \E j \in 0..(k - 1) : Slot(r + (u + j)) = i THEN b ELSE data[g][i]
  BY <1>3, PutIs
<1>5. /\ s \in Seq(Cell) /\ Len(s) = u
      /\ \A j \in 1..u : s[j] = data[g][Slot(r + (j - 1))]
  BY <1>1 DEF ContentsRight
<1>6. /\ Contents(g)' \in Seq(Cell) /\ Len(Contents(g)') = u + k
      /\ \A j \in 1..(u + k) : Contents(g)'[j] = data'[g][Slot(r + (j - 1))]
  BY <1>1, <1>4 DEF ContentsRight
<1>7. t \in Seq(Cell) /\ Len(t) = k /\ \A i \in 1..k : t[i] = b BY <1>2, <1>3, Repeated
<1> HIDE DEF r, u, s, t
<1>8. /\ s \o t \in Seq(Cell) /\ Len(s \o t) = u + k
      /\ \A i \in 1..(u + k) : (s \o t)[i] = IF i <= u THEN s[i] ELSE t[i - u]
  BY <1>5, <1>7, ConcatProperties
<1>9. ASSUME NEW j \in 1..(u + k) PROVE Contents(g)'[j] = (s \o t)[j]
  <2>1. j - 1 \in 0..(PIPESIZE - 1) /\ r + (j - 1) \in Int BY <1>2
  <2>2. Slot(r + (j - 1)) \in 0..(PIPESIZE - 1) BY <2>1, SlotRange
  <2>3. CASE j <= u
    <3>1. ASSUME NEW i \in 0..(k - 1) PROVE Slot(r + (u + i)) # Slot(r + (j - 1))
      <4>1. u + i \in 0..(PIPESIZE - 1) /\ u + i # j - 1 BY <1>2, <2>3
      <4> QED BY <1>2, <2>1, <4>1, SlotsDiffer
    <3>2. data'[g][Slot(r + (j - 1))] = data[g][Slot(r + (j - 1))] BY <1>4, <2>2, <3>1
    <3>3. j \in 1..u BY <1>2, <2>3
    <3> QED BY <1>5, <1>6, <1>8, <2>3, <3>2, <3>3
  <2>4. CASE j > u
    <3>1. j - 1 - u \in 0..(k - 1) /\ u + (j - 1 - u) = j - 1 /\ j - u \in 1..k /\ ~(j <= u) BY <1>2, <2>4
    <3>2. data'[g][Slot(r + (j - 1))] = b BY <1>4, <2>2, <3>1
    <3> QED BY <1>6, <1>7, <1>8, <3>1, <3>2
  <2>5. j <= u \/ j > u BY <1>2
  <2> QED BY <2>3, <2>4, <2>5
<1>10. Contents(g)' = s \o t BY <1>6, <1>8, <1>9, SeqEqual
<1> QED BY <1>10 DEF s, t

(* What Drop() does to the ring. *)
LEMMA DropIs ==
    ASSUME Used, RingKept, NEW g \in Page, NEW k \in 0..Unread(g), Drop(g, k), nwrite' = nwrite
    PROVE  /\ Unread(g)' = Unread(g) - k
           /\ nread'[g] = (nread[g] + k) % UINT
           /\ \A h \in Page \ {g} : nread'[h] = nread[h] /\ data'[h] = data[h]
           /\ data' \in [Page -> [0..(PIPESIZE - 1) -> Cell]]
           /\ \A i \in 0..(PIPESIZE - 1) :
                data'[g][i] = IF \E j \in 0..(k - 1) : Slot(nread[g] + j) = i THEN 0 ELSE data[g][i]
<1> DEFINE r == nread[g]
           w == nwrite[g]
           u == Unread(g)
<1>1. /\ r \in 0..(UINT - 1) /\ w \in 0..(UINT - 1) /\ u \in 0..(UINT - 1) /\ k \in 0..u
      /\ w = r + u \/ w = r + u - UINT
  BY CountersAre
<1>2. nread' = [nread EXCEPT ![g] = (r + k) % UINT] BY DEF Drop
<1>3. nread'[g] = (r + k) % UINT /\ \A h \in Page \ {g} : nread'[h] = nread[h]
  BY <1>2 DEF Used, RingTypes
<1>4. Unread(g)' = u - k
  <2>1. Unread(g)' = (nwrite'[g] - nread'[g]) % UINT BY DEF Unread
  <2>2. nwrite'[g] = w OBVIOUS
  <2> HIDE DEF r, w, u
  <2>3. (w - ((r + k) % UINT)) % UINT = u - k BY <1>1, GapDrop
  <2> QED BY <1>3, <2>1, <2>2, <2>3
<1>5. data' = [data EXCEPT ![g] = [i \in DOMAIN data[g] |->
                 IF \E j \in 0..(k - 1) : ((r + j) % UINT) % PIPESIZE = i THEN 0 ELSE data[g][i]]]
  BY DEF Drop
<1>6. data[g] \in [0..(PIPESIZE - 1) -> Cell] /\ DOMAIN data[g] = 0..(PIPESIZE - 1) BY DEF RingKept
<1> HIDE DEF r, w, u
<1>7. /\ data'[g] = [i \in 0..(PIPESIZE - 1) |->
                       IF \E j \in 0..(k - 1) : ((r + j) % UINT) % PIPESIZE = i THEN 0 ELSE data[g][i]]
      /\ \A h \in Page \ {g} : data'[h] = data[h]
  BY <1>5, <1>6 DEF RingKept
<1>8. 0 \in Cell BY DEF Cell
<1>9. \A i \in 0..(PIPESIZE - 1) : data'[g][i] \in Cell BY <1>6, <1>7, <1>8
<1>10. data'[g] \in [0..(PIPESIZE - 1) -> Cell] BY <1>7, <1>9
<1>11. data' \in [Page -> [0..(PIPESIZE - 1) -> Cell]]
  <2>1. \A h \in Page : data'[h] \in [0..(PIPESIZE - 1) -> Cell] BY <1>7, <1>10 DEF RingKept
  <2>2. data' = [h \in Page |-> data'[h]] BY <1>5 DEF RingKept
  <2> QED BY <2>1, <2>2
<1>12. \A i \in 0..(PIPESIZE - 1) :
         data'[g][i] = IF \E j \in 0..(k - 1) : Slot(r + j) = i THEN 0 ELSE data[g][i]
  BY <1>7 DEF Slot
<1> QED BY <1>3, <1>4, <1>7, <1>11, <1>12 DEF r, u

(* piperead() leaves the bytes after the ones it took. *)
LEMMA DropContents ==
    ASSUME Used, RingKept, Used', RingKept', NEW g \in Page, NEW k \in 0..Unread(g),
           Drop(g, k), nwrite' = nwrite, g \in live, g \in live'
    PROVE  Contents(g)' = SubSeq(Contents(g), k + 1, Len(Contents(g)))
<1>1. ContentsRight /\ ContentsRight' BY ContentsHold, PTL
<1> DEFINE r == nread[g]
           v == (r + k) % UINT
           u == Unread(g)
           s == Contents(g)
           t == SubSeq(s, k + 1, u)
<1>2. /\ r \in 0..(UINT - 1) /\ u \in 0..PIPESIZE /\ PIPESIZE \in Nat /\ UINT \in Nat /\ PIPESIZE < UINT
      /\ k \in 0..u /\ k \in 0..(UINT - 1)
  BY CountersAre, RingAssumption
<1>3. /\ Unread(g)' = u - k
      /\ nread'[g] = v
      /\ \A i \in 0..(PIPESIZE - 1) :
           data'[g][i] = IF \E j \in 0..(k - 1) : Slot(r + j) = i THEN 0 ELSE data[g][i]
  BY DropIs
<1>4. /\ s \in Seq(Cell) /\ Len(s) = u
      /\ \A j \in 1..u : s[j] = data[g][Slot(r + (j - 1))]
  BY <1>1 DEF ContentsRight
<1>5. /\ Contents(g)' \in Seq(Cell) /\ Len(Contents(g)') = u - k
      /\ \A j \in 1..(u - k) : Contents(g)'[j] = data'[g][Slot(v + (j - 1))]
  BY <1>1, <1>3 DEF ContentsRight
<1>6. v \in 0..(UINT - 1) /\ (v = r + k \/ v = r + k - UINT) BY <1>2, Step
<1> HIDE DEF r, v, u, s
<1>7. t \in Seq(Cell) /\ Len(t) = u - k /\ \A i \in 1..(u - k) : t[i] = s[k + i]
  <2>1. \A i \in (k + 1)..u : s[i] \in Cell
    <3>1. \A i \in (k + 1)..u : i \in 1..Len(s) BY <1>2, <1>4
    <3> QED BY <1>4, <3>1, ElementOfSeq
  <2>2. k + 1 \in Int /\ u \in Int BY <1>2
  <2>3. /\ t \in Seq(Cell) /\ Len(t) = IF k + 1 <= u THEN u - (k + 1) + 1 ELSE 0
        /\ \A i \in 1..(u - (k + 1) + 1) : t[i] = s[k + 1 + i - 1]
    BY <2>1, <2>2, SubSeqProperties
  <2> HIDE DEF t
  <2>4. u - (k + 1) + 1 = u - k /\ \A i \in 1..(u - k) : k + 1 + i - 1 = k + i BY <1>2
  <2>5. Len(t) = u - k BY <1>2, <2>3
  <2> QED BY <2>3, <2>4, <2>5
<1> HIDE DEF t
<1>8. ASSUME NEW j \in 1..(u - k) PROVE Contents(g)'[j] = t[j]
  <2>1. /\ j - 1 \in 0..(UINT - 1) /\ k + (j - 1) < UINT /\ k + (j - 1) \in 0..(PIPESIZE - 1)
        /\ r + (k + (j - 1)) \in Int /\ k + j \in 1..u /\ k + j - 1 = k + (j - 1)
    BY <1>2
  <2>2. Slot(v + (j - 1)) = Slot(r + (k + (j - 1))) BY <1>2, <1>6, <2>1, SameSlot
  <2>3. Slot(r + (k + (j - 1))) \in 0..(PIPESIZE - 1) BY <2>1, SlotRange
  <2>4. ASSUME NEW i \in 0..(k - 1) PROVE Slot(r + i) # Slot(r + (k + (j - 1)))
    <3>1. i \in 0..(PIPESIZE - 1) /\ i # k + (j - 1) BY <1>2
    <3> QED BY <1>2, <2>1, <3>1, SlotsDiffer
  <2>5. data'[g][Slot(v + (j - 1))] = data[g][Slot(r + (k + (j - 1)))] BY <1>3, <2>2, <2>3, <2>4
  <2>6. s[k + j] = data[g][Slot(r + (k + (j - 1)))] BY <1>4, <2>1
  <2> QED BY <1>5, <1>7, <2>5, <2>6
<1>9. Contents(g)' = t BY <1>5, <1>7, <1>8, SeqEqual
<1> QED BY <1>4, <1>9 DEF s, t

(* Only Enter() lets a process write, with a byte. *)
LEMMA BytesNext ==
    ASSUME Kept, RingKept, [Next]_vars, NEW q \in Proc, pc'[q] = "write"
    PROVE  arg'[q].byte \in Byte
<1>1. pc \in [Proc -> {"none", "user", "pipe", "close", "exit", "read", "write"}] BY DEF Kept, Table, TableTypes
<1>2. arg \in [Proc -> [pipe : Page \cup {0}, n : Nat, byte : Byte \cup {0}]] BY DEF Kept, Used, RingTypes
<1>3. pc[q] = "write" => arg[q].byte \in Byte BY DEF RingKept
<1>4. CASE UNCHANGED vars BY <1>3, <1>4 DEF vars
<1>5. ASSUME NEW p \in Proc, SysPipe(p) PROVE arg'[q].byte \in Byte
  BY <1>1, <1>3, <1>5 DEF SysPipe, PipeFirst, PipeSecond, PipeNoMemory, PipeCreate, Goto
<1>6. ASSUME NEW p \in Proc, \E d \in Fd : Close(p, d) \/ Dup(p, d) PROVE arg'[q].byte \in Byte
  BY <1>1, <1>3, <1>6 DEF Close, Dup, Goto
<1>7. ASSUME NEW p \in Proc, (\E r \in Proc : Fork(p, r)) \/ Exit(p) PROVE arg'[q].byte \in Byte
  BY <1>1, <1>3, <1>7 DEF Fork, Exit, Goto
<1>8. ASSUME NEW p \in Proc, FileClose(p) \/ CloseObject(p) PROVE arg'[q].byte \in Byte
  <2>1. pc[p] \in {"close", "exit"} /\ Closed(p) /\ arg' = arg
    BY <1>8 DEF FileClose, CloseObject, Kept, Table, InHand
  <2>2. pc[q] = "write" BY <1>1, <2>1, ClosedPc DEF Kept
  <2> QED BY <1>3, <2>1, <2>2
<1>9. ASSUME NEW p \in Proc, Read(p) PROVE arg'[q].byte \in Byte
  BY <1>1, <1>2, <1>3, <1>9 DEF Read, Enter, Goto, PipeRead, Return
<1>10. ASSUME NEW p \in Proc, Write(p) PROVE arg'[q].byte \in Byte
  <2>1. CASE PipeWrite(p)
    <3>1. CASE Return(p) BY <1>1, <1>2, <1>3, <3>1 DEF Return
    <3>2. CASE ~Return(p)
      <4>1. pc' = pc /\ \E m \in Int : arg' = [arg EXCEPT ![p].n = m]
        <5>1. Room(arg[p].pipe) \in 0..(UINT - 1) /\ arg[p].n \in Nat BY <2>1, WriteIs DEF Kept
        <5>2. arg[p].n - Room(arg[p].pipe) \in Int BY <5>1, RingAssumption
        <5> QED BY <2>1, <3>2, <5>2 DEF PipeWrite, WriteFull
      <4> QED BY <1>2, <1>3, <4>1
    <3> QED BY <3>1, <3>2
  <2>2. CASE \E d \in Fd, n \in WriteSizes, b \in Byte : Enter(p, d, TRUE, "write", n, b)
    BY <1>1, <1>2, <1>3, <2>2 DEF Enter, Goto
  <2> QED BY <1>10, <2>1, <2>2 DEF Write
<1>11. ASSUME NEW p \in Proc, Kill(p) PROVE arg'[q].byte \in Byte BY <1>3, <1>11 DEF Kill
<1> QED BY <1>4, <1>5, <1>6, <1>7, <1>8, <1>9, <1>10, <1>11 DEF Next

(* A step on the ring of one pipe. *)
LEMMA RingNow ==
    ASSUME Kept, RingKept, [Next]_vars, NEW g \in Page, Unread(g)' <= PIPESIZE,
           data' \in [Page -> [0..(PIPESIZE - 1) -> Cell]],
           \A h \in Page \ {g} : nread'[h] = nread[h] /\ nwrite'[h] = nwrite[h]
    PROVE  RingKept'
<1>1. \A h \in Page \ {g} : Unread(h)' = Unread(h) BY DEF Unread
<1>2. \A h \in Page : Unread(h)' <= PIPESIZE BY <1>1 DEF RingKept
<1>3. \A p \in Proc : pc'[p] = "write" => arg'[p].byte \in Byte BY BytesNext
<1> QED BY <1>2, <1>3 DEF RingKept

LEMMA RingSame ==
    ASSUME Kept, RingKept, [Next]_vars, UNCHANGED <<nread, nwrite, data>>
    PROVE  RingKept'
<1>1. \A h \in Page : Unread(h)' = Unread(h) BY DEF Unread
<1>2. \A h \in Page : Unread(h)' <= PIPESIZE BY <1>1 DEF RingKept
<1>3. \A p \in Proc : pc'[p] = "write" => arg'[p].byte \in Byte BY BytesNext
<1> QED BY <1>2, <1>3 DEF RingKept

(* An empty page, as pipealloc() and kfree() leave it. *)
LEMMA Emptied ==
    ASSUME Kept, NEW g \in Page, nread' = [nread EXCEPT ![g] = 0], nwrite' = [nwrite EXCEPT ![g] = 0]
    PROVE  /\ Unread(g)' = 0
           /\ \A h \in Page \ {g} : nread'[h] = nread[h] /\ nwrite'[h] = nwrite[h]
<1>1. nread'[g] = 0 /\ nwrite'[g] = 0 /\ \A h \in Page \ {g} : nread'[h] = nread[h] /\ nwrite'[h] = nwrite[h]
  BY DEF Kept, Used, RingTypes
<1>2. 0 - 0 \in Int /\ 0 \in 0..(UINT - 1) /\ 0 - 0 = 0 BY RingAssumption
<1>3. (0 - 0) % UINT = 0 BY <1>2, ModIs
<1> QED BY <1>1, <1>3 DEF Unread

(* The bytes that one call moves. *)
LEMMA Moves ==
    ASSUME Kept, RingKept, NEW p \in Proc
    PROVE  /\ PipeRead(p) => Least(arg[p].n, Unread(arg[p].pipe)) \in 0..Unread(arg[p].pipe)
           /\ PipeWrite(p) => Least(arg[p].n, Room(arg[p].pipe)) \in 0..(PIPESIZE - Unread(arg[p].pipe))
<1>1. ASSUME PipeRead(p) PROVE Least(arg[p].n, Unread(arg[p].pipe)) \in 0..Unread(arg[p].pipe)
  <2>1. arg[p].pipe \in Page /\ arg[p].n \in Nat BY <1>1, ReadIs DEF Kept
  <2>2. Unread(arg[p].pipe) \in Nat BY <2>1, CountersAre, RingAssumption DEF Kept
  <2> QED BY <2>1, <2>2 DEF Least
<1>2. ASSUME PipeWrite(p) PROVE Least(arg[p].n, Room(arg[p].pipe)) \in 0..(PIPESIZE - Unread(arg[p].pipe))
  <2>1. arg[p].pipe \in Page /\ arg[p].n \in Nat BY <1>2, WriteIs DEF Kept
  <2>2. /\ Unread(arg[p].pipe) \in 0..PIPESIZE
        /\ Room(arg[p].pipe) = PIPESIZE - Unread(arg[p].pipe)
    BY <2>1, CountersAre DEF Kept
  <2>3. Room(arg[p].pipe) \in Nat BY <2>2, RingAssumption
  <2>4. Least(arg[p].n, Room(arg[p].pipe)) \in 0..Room(arg[p].pipe) BY <2>1, <2>3 DEF Least
  <2> QED BY <2>2, <2>4
<1> QED BY <1>1, <1>2

LEMMA ContentsSame ==
    ASSUME NEW h \in Page, h \in live' <=> h \in live, nread'[h] = nread[h], nwrite'[h] = nwrite[h], data'[h] = data[h]
    PROVE  Contents(h)' = Contents(h)
<1>1. Unread(h)' = Unread(h) BY DEF Unread
<1>2. CASE h \in live
  <2>1. Contents(h) = [j \in 1..Unread(h) |-> data[h][((nread[h] + j - 1) % UINT) % PIPESIZE]] BY <1>2 DEF Contents
  <2>2. Contents(h)' = [j \in 1..Unread(h)' |-> data'[h][((nread'[h] + j - 1) % UINT) % PIPESIZE]] BY <1>2 DEF Contents
  <2> QED BY <1>1, <2>1, <2>2
<1>3. CASE h \notin live BY <1>3 DEF Contents
<1> QED BY <1>2, <1>3

(* The steps of the queues, from the contents of the rings. *)
LEMMA FifoStays ==
    ASSUME live' = live, \A h \in Page : Contents(h)' = Contents(h)
    PROVE  UNCHANGED <<[g \in Page |-> Contents(g)], live>>
OBVIOUS

LEMMA FifoWrite ==
    ASSUME NEW g \in Page, g \in live, live' = live, NEW n \in 1..PIPESIZE, NEW b \in Byte,
           Len(Contents(g)) + n <= PIPESIZE, Contents(g)' = Contents(g) \o [i \in 1..n |-> b],
           \A h \in Page \ {g} : Contents(h)' = Contents(h)
    PROVE  Fifo!Next
<1>1. [h \in Page |-> Contents(h)]' = [[h \in Page |-> Contents(h)] EXCEPT ![g] = @ \o [i \in 1..n |-> b]]
  OBVIOUS
<1>2. Fifo!Write(g, n, b) BY <1>1 DEF Fifo!Write
<1> QED BY <1>2 DEF Fifo!Next

LEMMA FifoRead ==
    ASSUME NEW g \in Page, g \in live, live' = live, NEW n \in 1..PIPESIZE, n <= Len(Contents(g)),
           Contents(g)' = SubSeq(Contents(g), n + 1, Len(Contents(g))),
           \A h \in Page \ {g} : Contents(h)' = Contents(h)
    PROVE  Fifo!Next
<1>1. [h \in Page |-> Contents(h)]' = [[h \in Page |-> Contents(h)] EXCEPT ![g] = SubSeq(@, n + 1, Len(@))]
  OBVIOUS
<1>2. Fifo!Read(g, n) BY <1>1 DEF Fifo!Read
<1> QED BY <1>2 DEF Fifo!Next

LEMMA CreateFifo ==
    ASSUME Kept, RingKept, [Next]_vars, NEW p \in Proc, NEW g \in Page, PipeCreate(p, g)
    PROVE  RingKept' /\ Fifo!Next
<1>1. /\ g \notin live /\ live' = live \cup {g} /\ data' = data
      /\ nread' = [nread EXCEPT ![g] = 0] /\ nwrite' = [nwrite EXCEPT ![g] = 0]
  BY DEF PipeCreate, PipeSetup
<1>2. Unread(g)' = 0 /\ \A h \in Page \ {g} : nread'[h] = nread[h] /\ nwrite'[h] = nwrite[h] BY <1>1, Emptied
<1>3. RingKept'
  <2>1. Unread(g)' <= PIPESIZE BY <1>2, RingAssumption
  <2> QED BY <1>1, <1>2, <2>1, RingNow DEF RingKept
<1>4. Contents(g) = <<>> BY <1>1 DEF Contents
<1>5. Contents(g)' = <<>>
  <2>1. 1..Unread(g)' = {} BY <1>2
  <2>2. Contents(g)' = [j \in {} |-> data'[g][((nread'[g] + j - 1) % UINT) % PIPESIZE]] BY <1>1, <2>1 DEF Contents
  <2> QED BY <2>2
<1>6. \A h \in Page \ {g} : Contents(h)' = Contents(h) BY <1>1, <1>2, ContentsSame
<1>7. [h \in Page |-> Contents(h)]' = [h \in Page |-> Contents(h)] BY <1>4, <1>5, <1>6
<1>8. Fifo!Create(g) BY <1>1, <1>7 DEF Fifo!Create
<1> QED BY <1>3, <1>8 DEF Fifo!Next

LEMMA CloseFifo ==
    ASSUME Kept, RingKept, [Next]_vars, NEW p \in Proc, CloseObject(p)
    PROVE  RingKept' /\ (Fifo!Next \/ UNCHANGED <<[g \in Page |-> Contents(g)], live>>)
<1>1. PICK g \in Page, w \in BOOLEAN : PipeClose(g, w) /\ g \in live BY ClosesEnd DEF Kept
<1>2. Kfree(g, ~readopen'[g] /\ ~writeopen'[g]) BY <1>1 DEF PipeClose
<1>3. CASE ~(~readopen'[g] /\ ~writeopen'[g])
  <2>1. UNCHANGED <<live, nread, nwrite, data>> BY <1>2, <1>3 DEF Kfree
  <2>2. \A h \in Page : Contents(h)' = Contents(h) BY <2>1, ContentsSame
  <2> QED BY <2>1, <2>2, RingSame, FifoStays
<1>4. CASE ~readopen'[g] /\ ~writeopen'[g]
  <2>1. /\ live' = live \ {g} /\ data' = [data EXCEPT ![g] = Junk]
        /\ nread' = [nread EXCEPT ![g] = 0] /\ nwrite' = [nwrite EXCEPT ![g] = 0]
    BY <1>2, <1>4 DEF Kfree
  <2>2. Unread(g)' = 0 /\ \A h \in Page \ {g} : nread'[h] = nread[h] /\ nwrite'[h] = nwrite[h] BY <2>1, Emptied
  <2>3. RingKept'
    <3>1. Unread(g)' <= PIPESIZE BY <2>2, RingAssumption
    <3>2. Junk \in [0..(PIPESIZE - 1) -> Cell] BY DEF Junk, Cell
    <3>3. data' \in [Page -> [0..(PIPESIZE - 1) -> Cell]] BY <2>1, <3>2 DEF RingKept
    <3> QED BY <2>2, <3>1, <3>3, RingNow
  <2>4. Contents(g)' = <<>> BY <2>1 DEF Contents
  <2>5. \A h \in Page \ {g} : data'[h] = data[h] /\ (h \in live' <=> h \in live) BY <2>1 DEF RingKept
  <2>6. \A h \in Page \ {g} : Contents(h)' = Contents(h) BY <2>2, <2>5, ContentsSame
  <2>7. [h \in Page |-> Contents(h)]' = [[h \in Page |-> Contents(h)] EXCEPT ![g] = <<>>] BY <2>4, <2>6
  <2>8. Fifo!Destroy(g) BY <1>1, <2>1, <2>7 DEF Fifo!Destroy
  <2> QED BY <2>3, <2>8 DEF Fifo!Next
<1> QED BY <1>3, <1>4

LEMMA ReadFifo ==
    ASSUME Kept, Kept', RingKept, [Next]_vars, NEW p \in Proc, PipeRead(p)
    PROVE  RingKept' /\ (Fifo!Next \/ UNCHANGED <<[g \in Page |-> Contents(g)], live>>)
<1>1. PICK g \in Page, k \in 0..Unread(arg[p].pipe) : g = arg[p].pipe /\ k = Least(arg[p].n, Unread(g))
  <2>1. arg[p].pipe \in Page BY ReadIs DEF Kept
  <2> QED BY <2>1, Moves
<1>2. k \in 0..Unread(g) /\ g \in live /\ UNCHANGED <<live, nwrite>> BY <1>1, ReadIs DEF Kept
<1>3. Unread(g) \in 0..PIPESIZE BY CountersAre DEF Kept
<1>4. CASE UNCHANGED <<nread, data>>
  <2>1. \A h \in Page : Contents(h)' = Contents(h) BY <1>2, <1>4, ContentsSame
  <2> QED BY <1>2, <1>4, <2>1, RingSame, FifoStays
<1>5. CASE Drop(g, k)
  <2>1. /\ Unread(g)' = Unread(g) - k
        /\ \A h \in Page \ {g} : nread'[h] = nread[h] /\ data'[h] = data[h]
        /\ data' \in [Page -> [0..(PIPESIZE - 1) -> Cell]]
    BY <1>2, <1>5, DropIs DEF Kept
  <2>2. RingKept'
    <3>1. Unread(g)' <= PIPESIZE BY <1>2, <1>3, <2>1, RingAssumption
    <3> QED BY <1>2, <2>1, <3>1, RingNow
  <2>3. Contents(g)' = SubSeq(Contents(g), k + 1, Len(Contents(g))) BY <1>2, <1>5, <2>2, DropContents DEF Kept
  <2>4. \A h \in Page \ {g} : Contents(h)' = Contents(h) BY <1>2, <2>1, ContentsSame
  <2>5. Contents(g) \in Seq(Cell) /\ Len(Contents(g)) = Unread(g) BY <1>2, ContentsAre DEF Kept
  <2>6. CASE k = 0
    <3>1. k + 1 = 1 BY <2>6
    <3>2. Contents(g)' = Contents(g) BY <2>3, <2>5, <3>1, SubSeqFull
    <3> QED BY <1>2, <2>2, <2>4, <3>2, FifoStays
  <2>7. CASE k # 0
    <3>1. k \in 1..PIPESIZE /\ k <= Len(Contents(g)) BY <1>2, <1>3, <2>5, <2>7, RingAssumption
    <3> QED BY <1>2, <2>2, <2>3, <2>4, <3>1, FifoRead
  <2> QED BY <2>6, <2>7
<1> QED BY <1>1, <1>4, <1>5 DEF PipeRead, Take

LEMMA WriteFifo ==
    ASSUME Kept, Kept', RingKept, [Next]_vars, NEW p \in Proc, PipeWrite(p)
    PROVE  RingKept' /\ (Fifo!Next \/ UNCHANGED <<[g \in Page |-> Contents(g)], live>>)
<1>1. PICK g \in Page, k \in 0..(PIPESIZE - Unread(arg[p].pipe)), b \in Byte :
        g = arg[p].pipe /\ k = Least(arg[p].n, Room(g)) /\ b = arg[p].byte
  <2>1. arg[p].pipe \in Page /\ pc[p] = "write" BY WriteIs DEF Kept
  <2>2. arg[p].byte \in Byte BY <2>1 DEF RingKept
  <2> QED BY <2>1, <2>2, Moves
<1>2. k \in 0..(PIPESIZE - Unread(g)) /\ g \in live /\ UNCHANGED <<live, nread>> BY <1>1, WriteIs DEF Kept
<1>3. Unread(g) \in 0..PIPESIZE /\ PIPESIZE \in Nat BY CountersAre, RingAssumption DEF Kept
<1>4. Put(g, k, b) BY <1>1 DEF PipeWrite
<1>5. b \in Cell BY DEF Cell
<1>6. /\ Unread(g)' = Unread(g) + k
      /\ \A h \in Page \ {g} : nwrite'[h] = nwrite[h] /\ data'[h] = data[h]
      /\ data' \in [Page -> [0..(PIPESIZE - 1) -> Cell]]
  BY <1>2, <1>4, <1>5, PutIs DEF Kept
<1>7. RingKept'
  <2>1. Unread(g)' <= PIPESIZE BY <1>2, <1>3, <1>6
  <2> QED BY <1>2, <1>6, <2>1, RingNow
<1>8. Contents(g)' = Contents(g) \o [i \in 1..k |-> b] BY <1>2, <1>4, <1>7, PutContents DEF Kept
<1>9. \A h \in Page \ {g} : Contents(h)' = Contents(h) BY <1>2, <1>6, ContentsSame
<1>10. Contents(g) \in Seq(Cell) /\ Len(Contents(g)) = Unread(g) BY <1>2, ContentsAre DEF Kept
<1>11. CASE k = 0
  <2>1. [i \in 1..k |-> b] = <<>> BY <1>11
  <2>2. Contents(g)' = Contents(g) BY <1>8, <1>10, <2>1, ConcatEmptySeq
  <2> QED BY <1>2, <1>7, <1>9, <2>2, FifoStays
<1>12. CASE k # 0
  <2>1. k \in 1..PIPESIZE /\ Len(Contents(g)) + k <= PIPESIZE BY <1>2, <1>3, <1>10, <1>12
  <2> QED BY <1>2, <1>7, <1>8, <1>9, <2>1, FifoWrite
<1> QED BY <1>11, <1>12

LEMMA NextFifo ==
    ASSUME Kept, Kept', RingKept, [Next]_vars
    PROVE  RingKept' /\ (Fifo!Next \/ UNCHANGED <<[g \in Page |-> Contents(g)], live>>)
<1>1. CASE UNCHANGED <<live, nread, nwrite, data>>
  <2>1. \A h \in Page : Contents(h)' = Contents(h) BY <1>1, ContentsSame
  <2> QED BY <1>1, <2>1, RingSame, FifoStays
<1>2. ASSUME NEW p \in Proc, \E g \in Page : PipeCreate(p, g) PROVE RingKept' /\ Fifo!Next
  BY <1>2, CreateFifo
<1>3. UNCHANGED vars => UNCHANGED <<live, nread, nwrite, data>> BY DEF vars, ring
<1>4. ASSUME NEW p \in Proc,
             \/ \E f \in File : PipeFirst(p, f)
             \/ PipeSecond(p) \/ PipeNoMemory(p)
             \/ \E d \in Fd : Close(p, d) \/ Dup(p, d)
             \/ \E q \in Proc : Fork(p, q)
             \/ Exit(p) \/ FileClose(p) \/ Kill(p)
             \/ \E d \in Fd, n \in ReadSizes : Enter(p, d, FALSE, "read", n, 0)
             \/ \E d \in Fd, n \in WriteSizes, b \in Byte : Enter(p, d, TRUE, "write", n, b)
      PROVE  UNCHANGED <<live, nread, nwrite, data>>
  BY <1>4 DEF PipeFirst, PipeSecond, PipeNoMemory, Close, Dup, Fork, Exit, FileClose, Kill, Enter, ring
<1> QED BY <1>1, <1>2, <1>3, <1>4, CloseFifo, ReadFifo, WriteFifo DEF Next, SysPipe, Read, Write

(* The rings implement bounded queues of bytes: whatever PIPESIZE and the   *)
(* width of the counters are, nothing is lost, overwritten, repeated or     *)
(* reordered, across overflows and the reuse of pages.                      *)
THEOREM ImplementsFifoHolds == Spec => ImplementsFifo
<1>1. Init => RingKept /\ Fifo!Init
  <2> SUFFICES ASSUME Init PROVE RingKept /\ Fifo!Init OBVIOUS
  <2>1. Junk \in [0..(PIPESIZE - 1) -> Cell] BY DEF Junk, Cell
  <2>2. \A g \in Page : Unread(g) = 0
    <3>1. 0 - 0 \in Int /\ 0 \in 0..(UINT - 1) /\ 0 - 0 = 0 BY RingAssumption
    <3>2. (0 - 0) % UINT = 0 BY <3>1, ModIs
    <3> QED BY <3>2 DEF Init, PipeInit, Unread
  <2>3. RingKept BY <2>1, <2>2, RingAssumption DEF Init, PipeInit, RingKept
  <2>4. \A g \in Page : Contents(g) = <<>> BY DEF Init, PipeInit, Contents
  <2>5. Fifo!Init BY <2>4 DEF Fifo!Init, Init, PipeInit
  <2> QED BY <2>3, <2>5
<1>2. Kept /\ Kept' /\ RingKept /\ [Next]_vars =>
        RingKept' /\ [Fifo!Next]_<<[g \in Page |-> Contents(g)], live>>
  BY NextFifo
<1> QED BY <1>1, <1>2, KeptHolds, PTL DEF Spec, ImplementsFifo, Fifo!Spec
=============================================================================
