---------------------------- MODULE MemoryProofs ----------------------------
(* Proofs about physical pages and address spaces: for any processes, any   *)
(* number of free pages, any page size, any programs and any sequence of    *)
(* sbrk(), fork(), clone(), exec(), exit() and wait(), whichever kalloc()   *)
(* fails.                                                                   *)
EXTENDS Memory, NaturalsInduction, WellFoundedInduction, TLAPS

-----------------------------------------------------------------------------
(* Pages and sizes *)

LEMMA Constants ==
    /\ NPROC \in Nat /\ NPROC >= 1 /\ NFRAMES \in Nat /\ NFRAMES >= 5
    /\ PGSIZE \in Nat /\ PGSIZE > 0 /\ NPTENTRIES \in Nat /\ NPTENTRIES > 0
    /\ KERNBASE \in Nat /\ KERNBASE > PGSIZE
    /\ UINT = 2 * KERNBASE /\ UINT \in Nat
    /\ Incs \subseteq Int /\ (\A n \in Incs : -KERNBASE <= n /\ n < KERNBASE)
    /\ Programs \subseteq Seq(Nat) /\ Args \subseteq Nat
    /\ WORD \in Nat /\ WORD > 0 /\ WORD <= KERNBASE
    /\ Ptrs \subseteq Nat /\ \A i \in Ptrs : i < UINT
BY MemoryAssumption

LEMMA Division ==
    ASSUME NEW n \in Nat, NEW d \in Nat, d > 0
    PROVE  /\ n \div d \in Nat /\ n % d \in Nat /\ n % d < d
           /\ n = (n \div d) * d + (n % d)
OBVIOUS

LEMMA Quotient ==
    ASSUME NEW n \in Nat, NEW d \in Nat, d > 0, NEW q \in Nat, NEW r \in Nat, r < d, n = q * d + r
    PROVE  n \div d = q /\ n % d = r
OBVIOUS

LEMMA Times ==
    ASSUME NEW d \in Nat, d > 0, NEW x \in Nat, NEW y \in Nat
    PROVE  /\ x * d \in Nat
           /\ x < y => x * d + d <= y * d
           /\ x * d < y * d <=> x < y
OBVIOUS

LEMMA Whole == \E m \in Nat : m > 0 /\ KERNBASE \div PGSIZE = m * NPTENTRIES /\ KERNBASE \div (PGSIZE * NPTENTRIES) = m
                              /\ KERNBASE = (m * NPTENTRIES) * PGSIZE
<1> DEFINE c == PGSIZE * NPTENTRIES
           m == KERNBASE \div c
<1>1. c \in Nat /\ c > 0 /\ KERNBASE % c = 0 BY MemoryAssumption
<1> HIDE DEF c
<1>2. m \in Nat /\ KERNBASE = m * c BY <1>1, Constants, Division
<1> HIDE DEF m
<1>3. m # 0 BY <1>1, <1>2, Constants
<1>4. KERNBASE = (m * NPTENTRIES) * PGSIZE BY <1>1, <1>2, Constants DEF c
<1> DEFINE q == m * NPTENTRIES
<1>5. q \in Nat BY <1>2, Constants
<1>6. KERNBASE = q * PGSIZE + 0 BY <1>4, <1>5, Constants
<1> HIDE DEF q
<1>7. KERNBASE \div PGSIZE = q BY <1>5, <1>6, Constants, Quotient
<1>8. m > 0 BY <1>2, <1>3
<1> QED BY <1>2, <1>4, <1>7, <1>8 DEF q, m, c

(* The pages are those whose first byte is below KERNBASE, and each has a   *)
(* page table.                                                              *)
LEMMA PagesAre ==
    /\ Page = {g \in Nat : g * PGSIZE < KERNBASE} /\ 0 \in Page /\ 0 \in Table
    /\ Page \subseteq Nat /\ Table \subseteq Nat
    /\ \A g \in Page : g \div NPTENTRIES \in Table
<1>1. PICK m \in Nat : /\ m > 0 /\ KERNBASE \div PGSIZE = m * NPTENTRIES /\ KERNBASE \div (PGSIZE * NPTENTRIES) = m
                       /\ KERNBASE = (m * NPTENTRIES) * PGSIZE
  BY Whole
<1> DEFINE q == m * NPTENTRIES
<1>2. q \in Nat /\ q > 0 BY <1>1, Constants
<1>3. Page = 0..(q - 1) /\ Table = 0..(m - 1) BY <1>1 DEF Page, Table
<1>4. KERNBASE = q * PGSIZE BY <1>1
<1>5. ASSUME NEW g \in 0..(q - 1) PROVE g \div NPTENTRIES \in 0..(m - 1)
  <2>1. g \in Nat /\ g < m * NPTENTRIES BY <1>2
  <2> DEFINE t == g \div NPTENTRIES
  <2>2. t \in Nat /\ g >= t * NPTENTRIES BY <2>1, Constants, Division
  <2> HIDE DEF t
  <2>3. ~(m <= t) BY <2>1, <2>2, Constants
  <2> QED BY <2>2, <2>3 DEF t
<1> HIDE DEF q
<1>6. ASSUME NEW g \in Nat PROVE g \in 0..(q - 1) <=> g * PGSIZE < KERNBASE
  BY <1>2, <1>4, Constants, Times
<1>7. Page = {g \in Nat : g * PGSIZE < KERNBASE} BY <1>2, <1>3, <1>6
<1> QED BY <1>1, <1>2, <1>3, <1>5, <1>7

(* An address is in the page PGOF() names. *)
LEMMA PageOf ==
    ASSUME NEW x \in Nat, x < KERNBASE
    PROVE  /\ PGOF(x) \in Page /\ PGOF(x) * PGSIZE <= x /\ x < PGOF(x) * PGSIZE + PGSIZE
           /\ x % PGSIZE = 0 => PGOF(x) * PGSIZE = x
<1> DEFINE q == PGOF(x)
<1>1. q \in Nat /\ x % PGSIZE \in Nat /\ x % PGSIZE < PGSIZE /\ x = q * PGSIZE + (x % PGSIZE)
  BY Constants, Division DEF PGOF
<1>2. q * PGSIZE \in Nat BY <1>1, Constants
<1> HIDE DEF q
<1>3. q * PGSIZE <= x /\ x < q * PGSIZE + PGSIZE /\ (x % PGSIZE = 0 => q * PGSIZE = x) BY <1>1, <1>2, Constants
<1>4. q * PGSIZE < KERNBASE BY <1>2, <1>3, Constants
<1>5. q \in Page BY <1>1, <1>4, PagesAre
<1> QED BY <1>3, <1>5 DEF q

(* PGROUNDUP(n) is the least page boundary from n on. *)
LEMMA RoundUp ==
    ASSUME NEW n \in Nat
    PROVE  PGROUNDUP(n) \in Nat /\ Aligned(PGROUNDUP(n)) /\ n <= PGROUNDUP(n) /\ PGROUNDUP(n) < n + PGSIZE
<1> DEFINE m == n + PGSIZE - 1
           q == m \div PGSIZE
<1>1. m \in Nat BY Constants
<1>2. q \in Nat /\ m % PGSIZE \in Nat /\ m % PGSIZE < PGSIZE /\ m = q * PGSIZE + (m % PGSIZE)
  <2> HIDE DEF m
  <2> QED BY <1>1, Constants, Division
<1>3. PGROUNDUP(n) = q * PGSIZE BY DEF PGROUNDUP
<1> DEFINE a == q * PGSIZE
<1>4. a \in Nat /\ a = q * PGSIZE + 0 BY <1>2, Constants
<1>5. n <= a /\ a < n + PGSIZE
  <2> HIDE DEF q
  <2>1. a = m - (m % PGSIZE) BY <1>1, <1>2, <1>4
  <2> QED BY <2>1, <1>2, Constants
<1>6. a % PGSIZE = 0
  <2> HIDE DEF a, q
  <2> QED BY <1>2, <1>4, Constants, Quotient
<1> QED BY <1>3, <1>4, <1>5, <1>6 DEF Aligned

(* The next page begins on a page boundary. *)
LEMMA NextPage ==
    ASSUME NEW n \in Nat, Aligned(n)
    PROVE  Aligned(n + PGSIZE)
<1> DEFINE q == n \div PGSIZE
<1>1. q \in Nat /\ n = q * PGSIZE BY Constants, Division DEF Aligned
<1> HIDE DEF q
<1>2. n + PGSIZE = (q + 1) * PGSIZE + 0 BY <1>1, Constants
<1> QED BY <1>1, <1>2, Constants, Quotient DEF Aligned

(* The pages below n are those below the whole pages that hold n bytes. *)
LEMMA Below ==
    ASSUME NEW n \in Nat, NEW a \in Nat, Aligned(a), n <= a, a < n + PGSIZE, NEW g \in Page
    PROVE  g * PGSIZE < a <=> g * PGSIZE < n
<1> DEFINE q == a \div PGSIZE
<1>1. q \in Nat /\ a = q * PGSIZE BY Constants, Division DEF Aligned
<1> HIDE DEF q
<1>2. g \in Nat /\ g * PGSIZE \in Nat BY PagesAre, Constants
<1>3. ASSUME g * PGSIZE < a PROVE g * PGSIZE < n
  <2>1. g < q BY <1>1, <1>2, <1>3, Constants, Times
  <2>2. g * PGSIZE + PGSIZE <= q * PGSIZE BY <1>1, <1>2, <2>1, Constants, Times
  <2> QED BY <1>1, <1>2, <2>2, Constants
<1> QED BY <1>2, <1>3

(* The pages below a and the one at a are those below the next. *)
LEMMA BelowNext ==
    ASSUME NEW a \in Nat, Aligned(a), a < KERNBASE, NEW g \in Page
    PROVE  /\ PGOF(a) \in Page /\ PGOF(a) * PGSIZE = a
           /\ g * PGSIZE < a + PGSIZE <=> (g * PGSIZE < a \/ g = PGOF(a))
<1>1. PGOF(a) \in Page /\ PGOF(a) * PGSIZE = a BY PageOf DEF Aligned
<1> DEFINE q == PGOF(a)
<1> HIDE DEF q
<1>2. g \in Nat /\ q \in Nat /\ a = q * PGSIZE BY <1>1, PagesAre DEF q
<1>3. a + PGSIZE = (q + 1) * PGSIZE BY <1>2, Constants
<1>4. g * PGSIZE < (q + 1) * PGSIZE <=> g < q + 1 BY <1>2, Constants, Times
<1>5. g * PGSIZE < q * PGSIZE <=> g < q BY <1>2, Constants, Times
<1> QED BY <1>1, <1>2, <1>3, <1>4, <1>5 DEF q

-----------------------------------------------------------------------------
(* The least of some frames, which is what kalloc() takes. *)

LEMMA LessThan == IsWellFoundedOn({x \in Nat \X Nat : x[1] < x[2]}, Nat)
BY Zenon, NatLessThanWellFounded DEF OpToRel

LEMMA KallocIs ==
    ASSUME NEW S \in SUBSET Frame, S # {}
    PROVE  Min(S) \in S
<1>1. S \subseteq Nat BY Constants DEF Frame
<1>2. PICK x \in S : \A y \in S : ~(<<y, x>> \in {z \in Nat \X Nat : z[1] < z[2]})
  BY <1>1, LessThan, WFMin
<1>3. ASSUME NEW y \in S PROVE x <= y
  <2>1. x \in Nat /\ y \in Nat BY <1>1
  <2>2. ~(<<y, x>>[1] < <<y, x>>[2]) BY <1>2, <2>1
  <2> QED BY <2>1, <2>2
<1> QED BY <1>3 DEF Min

-----------------------------------------------------------------------------
(* Owners of frames, whatever they are: V says what each place holds, F is  *)
(* the free list and L what is lost.                                        *)

Entry == Frame \cup {0}

Sound(V, F, L) ==
    /\ V \in [Place -> Entry] /\ F \subseteq Frame /\ L \subseteq Frame
    /\ F \cap L = {}
    /\ \A x \in Place : V[x] # 0 => V[x] \notin F /\ V[x] \notin L
    /\ \A x, y \in Place : V[x] # 0 /\ V[x] = V[y] => x = y
    /\ \A f \in Frame : f \in F \/ f \in L \/ \E x \in Place : V[x] = f

LEMMA NoFrame == 0 \notin Frame
BY Constants DEF Frame

(* kalloc(): a free frame goes to an empty place. *)
LEMMA AllocSound ==
    ASSUME NEW V, NEW F, NEW L, Sound(V, F, L), NEW x \in Place, V[x] = 0, F # {}
    PROVE  Sound([V EXCEPT ![x] = Min(F)], F \ {Min(F)}, L)
<1> DEFINE k == Min(F)
           W == [V EXCEPT ![x] = k]
<1>1. k \in F /\ k \in Frame /\ k # 0 BY KallocIs, NoFrame DEF Sound
<1> HIDE DEF k
<1>2. W \in [Place -> Entry] BY <1>1 DEF Sound, Entry
<1>3. \A y \in Place : W[y] = IF y = x THEN k ELSE V[y] BY DEF Sound
<1> HIDE DEF W
<1>4. \A f \in Frame : f \in F \ {k} \/ f \in L \/ \E y \in Place : W[y] = f
  <2> TAKE f \in Frame
  <2>1. CASE f = k BY <1>3, <2>1
  <2>2. CASE f # k
    <3>1. CASE \E y \in Place : V[y] = f
      <4>1. PICK y \in Place : V[y] = f BY <3>1
      <4>2. y # x BY <4>1, NoFrame
      <4> QED BY <1>3, <4>1, <4>2
    <3> QED BY <2>2, <3>1 DEF Sound
  <2> QED BY <2>1, <2>2
<1>5. \A y, z \in Place : W[y] # 0 /\ W[y] = W[z] => y = z
  BY <1>1, <1>3 DEF Sound
<1>6. \A y \in Place : W[y] # 0 => W[y] \notin F \ {k} /\ W[y] \notin L
  BY <1>1, <1>3 DEF Sound
<1>7. F \ {k} \subseteq Frame /\ L \subseteq Frame /\ (F \ {k}) \cap L = {} BY DEF Sound
<1>8. Sound(W, F \ {k}, L) BY <1>2, <1>4, <1>5, <1>6, <1>7 DEF Sound
<1> QED BY <1>8 DEF W, k

(* kfree() of all that some places hold. *)
LEMMA FreeSound ==
    ASSUME NEW V, NEW F, NEW L, Sound(V, F, L), NEW S \in SUBSET Place
    PROVE  Sound([y \in Place |-> IF y \in S THEN 0 ELSE V[y]], F \cup ({V[y] : y \in S} \ {0}), L)
<1> DEFINE W == [y \in Place |-> IF y \in S THEN 0 ELSE V[y]]
           G == F \cup ({V[y] : y \in S} \ {0})
<1>1. W \in [Place -> Entry] BY DEF Sound, Entry
<1>2. \A y \in Place : W[y] = IF y \in S THEN 0 ELSE V[y] OBVIOUS
<1>3. G \subseteq Frame BY DEF Sound, Entry
<1>4. \A f : f \in G <=> f \in F \/ (f # 0 /\ \E y \in S : V[y] = f) OBVIOUS
<1> HIDE DEF W, G
<1>5. G \cap L = {} BY <1>4 DEF Sound
<1>6. \A y \in Place : W[y] # 0 => W[y] \notin G /\ W[y] \notin L BY <1>2, <1>4 DEF Sound
<1>7. \A y, z \in Place : W[y] # 0 /\ W[y] = W[z] => y = z BY <1>2 DEF Sound
<1>8. \A f \in Frame : f \in G \/ f \in L \/ \E y \in Place : W[y] = f
  <2> TAKE f \in Frame
  <2>1. CASE \E y \in Place : V[y] = f
    <3>1. PICK y \in Place : V[y] = f BY <2>1
    <3> QED BY <1>2, <1>4, <3>1, NoFrame
  <2> QED BY <1>4, <2>1 DEF Sound
<1>9. Sound(W, G, L) BY <1>1, <1>3, <1>5, <1>6, <1>7, <1>8 DEF Sound
<1> QED BY <1>9 DEF W, G

(* Some places forget what they hold: the lost frames are like free ones. *)
LEMMA LoseAllSound ==
    ASSUME NEW V, NEW F, NEW L, Sound(V, F, L), NEW S \in SUBSET Place
    PROVE  Sound([y \in Place |-> IF y \in S THEN 0 ELSE V[y]], F, L \cup ({V[y] : y \in S} \ {0}))
<1> DEFINE W == [y \in Place |-> IF y \in S THEN 0 ELSE V[y]]
           M == L \cup ({V[y] : y \in S} \ {0})
<1>1. Sound(V, L, F) BY DEF Sound
<1>2. Sound(W, M, F) BY <1>1, FreeSound
<1> HIDE DEF W, M
<1>3. Sound(W, F, M) BY <1>2 DEF Sound
<1> QED BY <1>3 DEF W, M

(* A place forgets its frame. *)
LEMMA LoseSound ==
    ASSUME NEW V, NEW F, NEW L, Sound(V, F, L), NEW x \in Place
    PROVE  Sound([V EXCEPT ![x] = 0], F, L \cup ({V[x]} \ {0}))
<1> DEFINE W == [V EXCEPT ![x] = 0]
           M == L \cup ({V[x]} \ {0})
<1>1. W \in [Place -> Entry] BY DEF Sound, Entry
<1>2. \A y \in Place : W[y] = IF y = x THEN 0 ELSE V[y] BY DEF Sound
<1>3. M \subseteq Frame BY DEF Sound, Entry
<1>4. \A f : f \in M <=> f \in L \/ (f # 0 /\ V[x] = f) OBVIOUS
<1> HIDE DEF W, M
<1>5. F \cap M = {} BY <1>4 DEF Sound
<1>6. \A y \in Place : W[y] # 0 => W[y] \notin F /\ W[y] \notin M BY <1>2, <1>4 DEF Sound
<1>7. \A y, z \in Place : W[y] # 0 /\ W[y] = W[z] => y = z BY <1>2 DEF Sound
<1>8. \A f \in Frame : f \in F \/ f \in M \/ \E y \in Place : W[y] = f
  <2> TAKE f \in Frame
  <2>1. CASE \E y \in Place : V[y] = f
    <3>1. PICK y \in Place : V[y] = f BY <2>1
    <3> QED BY <1>2, <1>4, <3>1, NoFrame
  <2> QED BY <1>4, <2>1 DEF Sound
<1>9. Sound(W, F, M) BY <1>1, <1>3, <1>5, <1>6, <1>7, <1>8 DEF Sound
<1> QED BY <1>9 DEF W, M

(* Places change their contents in pairs. *)
LEMMA SwapSound ==
    ASSUME NEW V, NEW F, NEW L, Sound(V, F, L),
           NEW mu \in [Place -> Place], \A x \in Place : mu[mu[x]] = x
    PROVE  Sound([y \in Place |-> V[mu[y]]], F, L)
<1> DEFINE W == [y \in Place |-> V[mu[y]]]
<1>1. W \in [Place -> Entry] BY DEF Sound, Entry
<1>2. \A y \in Place : mu[y] \in Place /\ W[y] = V[mu[y]] OBVIOUS
<1> HIDE DEF W
<1>3. \A y \in Place : W[y] # 0 => W[y] \notin F /\ W[y] \notin L BY <1>2 DEF Sound
<1>4. ASSUME NEW y \in Place, NEW z \in Place, W[y] # 0, W[y] = W[z] PROVE y = z
  <2>1. mu[y] = mu[z] BY <1>2, <1>4 DEF Sound
  <2> QED BY <2>1
<1>5. \A f \in Frame : f \in F \/ f \in L \/ \E y \in Place : W[y] = f
  <2> TAKE f \in Frame
  <2>1. CASE \E y \in Place : V[y] = f
    <3>1. PICK y \in Place : V[y] = f BY <2>1
    <3>2. W[mu[y]] = f BY <1>2, <3>1
    <3> QED BY <1>2, <3>2
  <2> QED BY <2>1 DEF Sound
<1>6. Sound(W, F, L) BY <1>1, <1>3, <1>4, <1>5 DEF Sound
<1> QED BY <1>6 DEF W

-----------------------------------------------------------------------------
(* The entries of an address space. *)

DirOf == <<"dir", 0>>
KernOf == <<"kern", 0>>
PtOf(t) == <<"pt", t>>
PteOf(g) == <<"pte", g>>

LEMMA SlotsAre ==
    /\ DirOf \in Slot /\ KernOf \in Slot
    /\ \A t \in Table : PtOf(t) \in Slot
    /\ \A g \in Page : PteOf(g) \in Slot
    /\ \A s \in Slot : \/ s = DirOf \/ s = KernOf
                       \/ \E t \in Table : s = PtOf(t)
                       \/ \E g \in Page : s = PteOf(g)
    /\ DirOf # KernOf
    /\ \A t : PtOf(t) # DirOf /\ PtOf(t) # KernOf
    /\ \A g : PteOf(g) # DirOf /\ PteOf(g) # KernOf
    /\ \A g, t : PteOf(g) # PtOf(t)
    /\ \A t, u : PtOf(t) = PtOf(u) => t = u
    /\ \A g, h : PteOf(g) = PteOf(h) => g = h
BY DEF Slot, DirOf, KernOf, PtOf, PteOf

LEMMA CellsAre ==
    ASSUME NEW sp
    PROVE  /\ Cell(sp, DirOf) = sp.dir /\ Cell(sp, KernOf) = sp.kern
           /\ \A t : Cell(sp, PtOf(t)) = sp.pt[t]
           /\ \A g : Cell(sp, PteOf(g)) = sp.pte[g]
BY DEF Cell, DirOf, KernOf, PtOf, PteOf

LEMMA NoSpaceIs ==
    /\ NoSpace \in Spaces /\ \A s \in Slot : Cell(NoSpace, s) = 0
    /\ NoSpace.dir = 0 /\ NoSpace.kern = 0 /\ \A g \in Page : NoSpace.pte[g] = 0
<1>1. NoSpace \in Spaces BY DEF NoSpace, Spaces
<1>2. /\ NoSpace.dir = 0 /\ NoSpace.kern = 0 /\ (\A t \in Table : NoSpace.pt[t] = 0) /\ \A g \in Page : NoSpace.pte[g] = 0
  BY DEF NoSpace
<1> QED BY <1>1, <1>2, SlotsAre, CellsAre

LEMMA CellType ==
    ASSUME NEW sp \in Spaces, NEW s \in Slot
    PROVE  Cell(sp, s) \in Entry
<1>1. sp.dir \in Entry /\ sp.kern \in Entry /\ (\A t \in Table : sp.pt[t] \in Entry) /\ \A g \in Page : sp.pte[g] \in Entry
  BY DEF Spaces, Entry
<1> QED BY <1>1, SlotsAre, CellsAre

(* What deallocuvm() leaves, and what it frees. *)
LEMMA DeallocuvmIs ==
    ASSUME NEW sp \in Spaces, NEW m \in Nat, NEW n \in Nat
    PROVE  /\ Dropped(sp, m, n) \subseteq Page
           /\ Deallocuvm(sp, m, n) \in Spaces
           /\ \A g \in Page : Deallocuvm(sp, m, n).pte[g] = IF g \in Dropped(sp, m, n) THEN 0 ELSE sp.pte[g]
           /\ Deallocuvm(sp, m, n).user = sp.user
           /\ \A s \in Slot : Cell(Deallocuvm(sp, m, n), s) =
                IF \E g \in Dropped(sp, m, n) : s = PteOf(g) THEN 0 ELSE Cell(sp, s)
           /\ \A f : f \in Freed(sp, m, n) <=> f # 0 /\ \E g \in Dropped(sp, m, n) : f = Cell(sp, PteOf(g))
<1> DEFINE D == Dropped(sp, m, n)
           z == Deallocuvm(sp, m, n)
<1>1. D \subseteq Page /\ \A g \in D : sp.pte[g] # 0 BY DEF Dropped
<1>2. z = [sp EXCEPT !.pte = [g \in Page |-> IF g \in D THEN 0 ELSE sp.pte[g]]] BY DEF Deallocuvm
<1>3. Freed(sp, m, n) = {sp.pte[g] : g \in D} BY DEF Freed
<1> HIDE DEF D, z
<1>4. /\ z.dir = sp.dir /\ z.kern = sp.kern /\ z.pt = sp.pt /\ z.user = sp.user
      /\ \A g \in Page : z.pte[g] = IF g \in D THEN 0 ELSE sp.pte[g]
  BY <1>1, <1>2 DEF Spaces
<1>5. z \in Spaces BY <1>1, <1>2 DEF Spaces
<1>6. ASSUME NEW s \in Slot PROVE Cell(z, s) = IF \E g \in D : s = PteOf(g) THEN 0 ELSE Cell(sp, s)
  <2>1. CASE s = DirOf \/ s = KernOf \/ \E t \in Table : s = PtOf(t) BY <1>4, <2>1, SlotsAre, CellsAre
  <2>2. CASE \E g \in Page : s = PteOf(g)
    <3>1. PICK g \in Page : s = PteOf(g) BY <2>2
    <3>2. (\E h \in D : s = PteOf(h)) <=> g \in D BY <3>1, SlotsAre
    <3>3. Cell(z, s) = z.pte[g] /\ Cell(sp, s) = sp.pte[g] BY <3>1, CellsAre
    <3> QED BY <1>4, <3>2, <3>3
  <2> QED BY <2>1, <2>2, SlotsAre
<1>7. \A f : f \in Freed(sp, m, n) <=> f # 0 /\ \E g \in D : f = Cell(sp, PteOf(g)) BY <1>1, <1>3, CellsAre
<1> QED BY <1>1, <1>4, <1>5, <1>6, <1>7 DEF D, z

-----------------------------------------------------------------------------
(* The places that may hold a frame. *)

StackOf(p) == <<"stack", p, <<"none", 0>>>>
HandOf(p) == <<"mem", p, <<"none", 0>>>>
SpaceOf(p, s) == <<"space", p, s>>
NewOf(p, s) == <<"new", p, s>>

LEMMA PlacesAre ==
    /\ \A p \in Proc : StackOf(p) \in Place /\ HandOf(p) \in Place
    /\ \A p \in Proc, s \in Slot : SpaceOf(p, s) \in Place /\ NewOf(p, s) \in Place
    /\ \A x \in Place : \E p \in Proc : \/ x = StackOf(p) \/ x = HandOf(p)
                                        \/ \E s \in Slot : x = SpaceOf(p, s) \/ x = NewOf(p, s)
BY DEF Place, StackOf, HandOf, SpaceOf, NewOf

LEMMA PlacesDiffer ==
    /\ \A p, q : /\ StackOf(p) = StackOf(q) => p = q
                 /\ HandOf(p) = HandOf(q) => p = q
                 /\ StackOf(p) # HandOf(q)
    /\ \A p, q, s : /\ StackOf(p) # SpaceOf(q, s) /\ StackOf(p) # NewOf(q, s)
                    /\ HandOf(p) # SpaceOf(q, s) /\ HandOf(p) # NewOf(q, s)
    /\ \A p, q, s, r : /\ SpaceOf(p, s) = SpaceOf(q, r) => p = q /\ s = r
                       /\ NewOf(p, s) = NewOf(q, r) => p = q /\ s = r
                       /\ SpaceOf(p, s) # NewOf(q, r)
BY DEF StackOf, HandOf, SpaceOf, NewOf

Held == [x \in Place |-> Holds(x)]

(* What is where, by kind of place. *)
LEMMA HeldIs ==
    /\ \A p \in Proc : Held[StackOf(p)] = kstack[p] /\ Held[HandOf(p)] = op[p].mem
    /\ \A p \in Proc, s \in Slot : Held[SpaceOf(p, s)] = Cell(space[p], s) /\ Held[NewOf(p, s)] = Cell(op[p].new, s)
<1>1. \A p : Holds(StackOf(p)) = kstack[p] /\ Holds(HandOf(p)) = op[p].mem BY DEF Holds, StackOf, HandOf
<1>2. \A p, s : Holds(SpaceOf(p, s)) = Cell(space[p], s) /\ Holds(NewOf(p, s)) = Cell(op[p].new, s)
  BY DEF Holds, SpaceOf, NewOf
<1> QED BY <1>1, <1>2, PlacesAre DEF Held

LEMMA HeldNext ==
    /\ \A p \in Proc : Held'[StackOf(p)] = kstack'[p] /\ Held'[HandOf(p)] = op'[p].mem
    /\ \A p \in Proc, s \in Slot : Held'[SpaceOf(p, s)] = Cell(space'[p], s) /\ Held'[NewOf(p, s)] = Cell(op'[p].new, s)
<1>1. \A p : Holds(StackOf(p))' = kstack'[p] /\ Holds(HandOf(p))' = op'[p].mem BY DEF Holds, StackOf, HandOf
<1>2. \A p, s : Holds(SpaceOf(p, s))' = Cell(space'[p], s) /\ Holds(NewOf(p, s))' = Cell(op'[p].new, s)
  BY DEF Holds, SpaceOf, NewOf
<1>3. Held' = [x \in Place |-> Holds(x)'] BY DEF Held
<1> QED BY <1>1, <1>2, <1>3, PlacesAre

(* What a step makes of the places. *)
LEMMA HeldBecomes ==
    ASSUME NEW V, V \in [Place -> Entry],
           \A p \in Proc : V[StackOf(p)] = kstack'[p] /\ V[HandOf(p)] = op'[p].mem,
           \A p \in Proc, s \in Slot : V[SpaceOf(p, s)] = Cell(space'[p], s) /\ V[NewOf(p, s)] = Cell(op'[p].new, s)
    PROVE  Held' = V
<1>1. \A x \in Place : Held'[x] = V[x] BY HeldNext, PlacesAre
<1>2. Held' = [x \in Place |-> Holds(x)'] BY DEF Held
<1>3. Held' = [x \in Place |-> Held'[x]] BY <1>2
<1> QED BY <1>1, <1>3

LEMMA HeldType ==
    ASSUME TypeOK
    PROVE  Held \in [Place -> Entry]
<1>1. ASSUME NEW x \in Place PROVE Held[x] \in Entry
  <2>1. PICK p \in Proc : \/ x = StackOf(p) \/ x = HandOf(p)
                          \/ \E s \in Slot : x = SpaceOf(p, s) \/ x = NewOf(p, s)
    BY PlacesAre
  <2>2. kstack[p] \in Entry /\ op[p].mem \in Entry /\ space[p] \in Spaces /\ op[p].new \in Spaces
    BY DEF TypeOK, Ops, Entry
  <2> QED BY <2>1, <2>2, HeldIs, CellType
<1> QED BY <1>1 DEF Held

(* FramesOwned, as a statement about places. *)
LEMMA OwnedIs ==
    ASSUME TypeOK, dangling = {}
    PROVE  FramesOwned <=> Sound(Held, freelist, lost)
<1> DEFINE taken == {x \in Place : Holds(x) # 0}
<1>1. \A x \in Place : Held[x] = Holds(x) /\ Held[x] \in Entry BY HeldType DEF Held
<1>2. FramesOwned <=> /\ freelist \cap lost = {}
                      /\ {Holds(x) : x \in taken} = Frame \ (freelist \cup lost)
                      /\ \A x, y \in taken : Holds(x) = Holds(y) => x = y
  BY DEF FramesOwned
<1>3. {Holds(x) : x \in taken} = Frame \ (freelist \cup lost)
        <=> /\ \A x \in Place : Held[x] # 0 => Held[x] \notin freelist /\ Held[x] \notin lost
            /\ \A f \in Frame : f \in freelist \/ f \in lost \/ \E x \in Place : Held[x] = f
  <2> DEFINE img == {Holds(x) : x \in taken}
  <2>1. \A f : f \in img <=> f # 0 /\ \E x \in Place : Held[x] = f BY <1>1
  <2> HIDE DEF img
  <2>2. img = Frame \ (freelist \cup lost)
          <=> \A f : (f # 0 /\ \E x \in Place : Held[x] = f) <=> (f \in Frame /\ f \notin freelist /\ f \notin lost)
    BY <2>1
  <2>3. \A x \in Place : Held[x] # 0 => Held[x] \in Frame BY <1>1 DEF Entry
  <2>4. img = Frame \ (freelist \cup lost)
          <=> /\ \A x \in Place : Held[x] # 0 => Held[x] \notin freelist /\ Held[x] \notin lost
              /\ \A f \in Frame : f \in freelist \/ f \in lost \/ \E x \in Place : Held[x] = f
    BY <2>2, <2>3, NoFrame
  <2> QED BY <2>4 DEF img
<1>4. (\A x, y \in taken : Holds(x) = Holds(y) => x = y)
        <=> \A x, y \in Place : Held[x] # 0 /\ Held[x] = Held[y] => x = y
  BY <1>1
<1>5. freelist \subseteq Frame /\ lost \subseteq Frame BY DEF TypeOK
<1> QED BY <1>2, <1>3, <1>4, <1>5, HeldType DEF Sound

-----------------------------------------------------------------------------
(* The inductive invariant, and what does not change in a step. *)

Kept == /\ TypeOK /\ KidsDiffer /\ NoPanic
        /\ \A p \in Proc : SpaceKept(p) /\ CallKept(p) /\ LoopKept(p) /\ ImageMapped(p)

(* As long as no directory was freed that is still in use. *)
Inv == Kept /\ FramesOwned /\ dangling = {}

(* What the invariant gives to the proofs of the steps. *)
LEMMA InvIs ==
    ASSUME Inv
    PROVE  /\ TypeOK /\ KidsDiffer /\ Sound(Held, freelist, lost) /\ dangling = {}
           /\ \A p \in Proc : SpaceKept(p) /\ CallKept(p) /\ LoopKept(p) /\ ImageMapped(p)
BY OwnedIs DEF Inv, Kept

LEMMA OwnedAlways == TypeOK /\ dangling = {} => (FramesOwned <=> Sound(Held, freelist, lost))
BY OwnedIs

LEMMA OwnedNext ==
    ASSUME TypeOK', dangling' = {}, Sound(Held', freelist', lost')
    PROVE  FramesOwned'
<1>1. (TypeOK /\ dangling = {} => (FramesOwned <=> Sound(Held, freelist, lost)))' BY OwnedAlways, PTL
<1>2. Sound(Held, freelist, lost)' BY DEF Sound
<1> QED BY <1>1, <1>2

(* What has to be shown of a step that does not panic. *)
LEMMA InvNext ==
    ASSUME TypeOK', KidsDiffer', panicked' = 0, dangling' = {}, Sound(Held', freelist', lost'),
           \A p \in Proc : SpaceKept(p)',
           \A p \in Proc : CallKept(p)' /\ LoopKept(p)' /\ ImageMapped(p)'
    PROVE  Inv'
<1>1. NoPanic' BY DEF NoPanic
<1> QED BY <1>1, OwnedNext DEF Inv, Kept

LEMMA UserIs ==
    /\ User \in Ops /\ User.call = "none" /\ User.at = "user" /\ User.a = 0 /\ User.lim = 0
    /\ User.mem = 0 /\ User.new = NoSpace /\ User.kid = 0 /\ User.segs = <<>>
<1>1. User \in Ops BY NoSpaceIs, Constants DEF User, Ops
<1> QED BY <1>1 DEF User

LEMMA OpSet ==
    ASSUME NEW o \in Ops, NEW c \in {"sbrk", "fork", "exec"}, NEW t \in {"dir", "page"}, NEW a \in Nat,
           NEW l \in Nat, l < KERNBASE
    PROVE  [o EXCEPT !.call = c, !.at = t, !.a = a, !.lim = l] \in Ops
<1>1. l \in 0..(KERNBASE - 1) BY Constants
<1> QED BY <1>1 DEF Ops

LEMMA AlignedZero == Aligned(0)
BY Constants DEF Aligned

LEMMA SpacesSame ==
    ASSUME \A q \in Proc : SpaceKept(q), UNCHANGED <<space, st, pgdir, kstack, shared, isthread, dangling>>
    PROVE  \A q \in Proc : SpaceKept(q)'
BY DEF SpaceKept, Alone, Own, Unclaimed

(* A process that the step of another does not touch. *)
LEMMA OtherKept ==
    ASSUME NEW q \in Proc, SpaceKept(q), CallKept(q), LoopKept(q), ImageMapped(q),
           op'[q] = op[q], st'[q] = st[q], sz'[q] = sz[q], pgdir'[q] = pgdir[q],
           op[q].call = "fork" => st'[op[q].kid] = st[op[q].kid],
           pgdir[q] # 0 /\ pgdir[q] \notin shared' => pgdir[q] \notin shared /\ space'[pgdir[q]] = space[pgdir[q]]
    PROVE  CallKept(q)' /\ LoopKept(q)' /\ ImageMapped(q)'
<1>1. CallKept(q)' BY DEF CallKept
<1>2. Own(q)' => Own(q) /\ space'[pgdir[q]] = space[pgdir[q]] BY DEF Own
<1>3. LoopKept(q)' BY <1>2 DEF LoopKept, Mapped, SameUser
<1>4. ImageMapped(q)'
  <2>1. SUFFICES ASSUME CanCall(q)', pgdir[q] \notin shared'
                 PROVE  Mapped(space[pgdir[q]], sz[q]) /\ space'[pgdir[q]] = space[pgdir[q]]
    BY DEF ImageMapped, Mapped
  <2>2. st[q] = "run" /\ op[q].at = "user" BY <2>1 DEF CanCall
  <2>3. pgdir[q] # 0 BY <2>2 DEF SpaceKept
  <2>4. pgdir[q] \notin shared /\ space'[pgdir[q]] = space[pgdir[q]] BY <2>1, <2>3
  <2>5. CanCall(q) BY <2>1, <2>4 DEF CanCall
  <2> QED BY <2>4, <2>5 DEF ImageMapped
<1> QED BY <1>1, <1>3, <1>4

(* A step that changes the call a process is in, and nothing of the others. *)
LEMMA OneOp ==
    ASSUME Inv, NEW p \in Proc, NEW o \in Ops, op' = [op EXCEPT ![p] = o],
           UNCHANGED <<space, st, pgdir, sz, kstack, shared, isthread, dangling>>, panicked = 0, panicked' = 0, calls' \in Nat,
           Sound(Held', freelist', lost'),
           o.call = "fork" => op[p].call = "fork" /\ o.kid = op[p].kid,
           CallKept(p)', LoopKept(p)', ImageMapped(p)'
    PROVE  Inv'
<1>1. TypeOK' BY InvIs DEF TypeOK, Sound
<1>2. op'[p] = o /\ \A q \in Proc \ {p} : op'[q] = op[q] BY InvIs DEF TypeOK
<1>3. KidsDiffer' BY <1>2, InvIs DEF KidsDiffer
<1>4. \A q \in Proc : SpaceKept(q)' BY InvIs, SpacesSame
<1>5. ASSUME NEW q \in Proc \ {p} PROVE CallKept(q)' /\ LoopKept(q)' /\ ImageMapped(q)'
  <2>1. SpaceKept(q) /\ CallKept(q) /\ LoopKept(q) /\ ImageMapped(q) BY InvIs
  <2> QED BY <1>2, <2>1, OtherKept
<1>6. dangling' = {} BY InvIs
<1> QED BY <1>1, <1>3, <1>4, <1>5, <1>6, InvNext

LEMMA SameHeld ==
    ASSUME TypeOK, op' \in [Proc -> Ops], UNCHANGED <<space, kstack>>,
           \A q \in Proc : op'[q].mem = op[q].mem /\ op'[q].new = op[q].new
    PROVE  Held' = Held
<1>1. \A q \in Proc : Held[StackOf(q)] = kstack'[q] /\ Held[HandOf(q)] = op'[q].mem BY HeldIs
<1>2. \A q \in Proc, s \in Slot : Held[SpaceOf(q, s)] = Cell(space'[q], s) /\ Held[NewOf(q, s)] = Cell(op'[q].new, s)
  BY HeldIs
<1> DEFINE V == Held
<1>3. V \in [Place -> Entry] BY HeldType
<1> HIDE DEF V
<1> QED BY <1>1, <1>2, <1>3, HeldBecomes DEF V

(* A call that is over. *)
LEMMA UserKept ==
    ASSUME NEW p \in Proc, op'[p] = User
    PROVE  CallKept(p)' /\ LoopKept(p)'
<1>1. CallKept(p)' BY UserIs DEF CallKept
<1>2. LoopKept(p)' BY UserIs, AlignedZero DEF LoopKept, Aligned
<1> QED BY <1>1, <1>2

LEMMA InCallKept ==
    ASSUME NEW p \in Proc, op'[p].at # "user"
    PROVE  ImageMapped(p)'
BY DEF ImageMapped, CanCall

LEMMA ImageSame ==
    ASSUME NEW p \in Proc, SpaceKept(p), UNCHANGED <<space, st, pgdir, sz, shared, isthread, dangling>>,
           Own(p) => Mapped(space[pgdir[p]], sz[p])
    PROVE  ImageMapped(p)'
<1>1. SUFFICES ASSUME CanCall(p)', pgdir'[p] \notin shared' PROVE Mapped(space[pgdir[p]], sz[p])
  BY DEF ImageMapped, Mapped
<1>2. st[p] = "run" BY <1>1 DEF CanCall
<1>3. Own(p) BY <1>1, <1>2 DEF Own, SpaceKept
<1> QED BY <1>3

(* Where a call begins. *)
LEMMA BeginIs ==
    ASSUME Inv, NEW p \in Proc, Begin(p)
    PROVE  /\ op[p] = User /\ st[p] = "run" /\ pgdir[p] \in Proc /\ sz[p] \in Nat /\ sz[p] < KERNBASE
           /\ Own(p) => Mapped(space[pgdir[p]], sz[p])
           /\ calls' \in Nat
<1>1. TypeOK /\ SpaceKept(p) /\ CallKept(p) /\ ImageMapped(p) BY InvIs
<1>2. CanCall(p) /\ calls' = calls + 1 BY DEF Begin
<1>3. op[p] = User /\ st[p] = "run" BY <1>1, <1>2 DEF CanCall, CallKept
<1>4. pgdir[p] \in Proc BY <1>1, <1>3 DEF SpaceKept, TypeOK
<1>5. sz[p] \in Nat /\ sz[p] < KERNBASE BY <1>1, Constants DEF TypeOK
<1>6. calls' \in Nat BY <1>1, <1>2 DEF TypeOK
<1>7. Own(p) => Mapped(space[pgdir[p]], sz[p]) BY <1>1, <1>2 DEF ImageMapped, Own
<1> QED BY <1>3, <1>4, <1>5, <1>6, <1>7

(* The sums of growproc() modulo UINT. *)
LEMMA Wrap ==
    ASSUME NEW m \in Nat, m < KERNBASE, NEW n \in Incs
    PROVE  /\ Sum(m, n) \in Nat
           /\ n >= 0 => Sum(m, n) = m + n
           /\ n < 0 => (Sum(m, n) = m + n \/ Sum(m, n) >= KERNBASE)
<1>1. n \in Int /\ -KERNBASE <= n /\ n < KERNBASE BY Constants
<1>2. CASE m + n >= 0
  <2>1. m + n \in Nat /\ m + n < UINT BY <1>1, <1>2, Constants
  <2>2. m + n = 0 * UINT + (m + n) BY <2>1, Constants
  <2>3. (m + n) % UINT = m + n BY <2>1, <2>2, Constants
  <2> QED BY <1>1, <2>1, <2>3 DEF Sum
<1>3. CASE m + n < 0
  <2>1. m + n \in Int /\ -UINT <= m + n BY <1>1, Constants
  <2>2. (m + n) % UINT = m + n + UINT BY <1>3, <2>1, Constants
  <2> QED BY <1>1, <1>3, <2>1, <2>2, Constants DEF Sum
<1> QED BY <1>1, <1>2, <1>3, Constants

LEMMA SbrkGrowsKeeps ==
    ASSUME Inv, panicked = 0, NEW p \in Proc, NEW n \in Incs, SbrkGrows(p, n)
    PROVE  Inv'
<1> DEFINE newsz == Sum(sz[p], n)
           grown == [User EXCEPT !.call = "sbrk", !.at = "page", !.a = PGROUNDUP(sz[p]), !.lim = newsz]
           o == IF newsz >= KERNBASE THEN User ELSE grown
<1>1. /\ n > 0 /\ Begin(p) /\ op' = [op EXCEPT ![p] = o]
      /\ UNCHANGED <<freelist, space, st, pgdir, sz, kstack, shared, isthread, dangling, lost, panicked>>
  BY DEF SbrkGrows, Goto, procs
<1>2. /\ op[p] = User /\ sz[p] \in Nat /\ sz[p] < KERNBASE /\ calls' \in Nat
      /\ Own(p) => Mapped(space[pgdir[p]], sz[p])
  BY <1>1, BeginIs
<1>3. newsz \in Nat /\ newsz = sz[p] + n /\ n \in Nat
  <2>1. n \in Int BY Constants
  <2>2. n >= 0 /\ n \in Nat BY <1>1, <2>1
  <2> QED BY <1>2, <2>2, Wrap
<1> HIDE DEF newsz
<1> DEFINE a == PGROUNDUP(sz[p])
<1>4. a \in Nat /\ Aligned(a) /\ sz[p] <= a /\ a < sz[p] + PGSIZE BY <1>2, RoundUp
<1>5. /\ grown.call = "sbrk" /\ grown.at = "page" /\ grown.a = a /\ grown.lim = newsz
      /\ grown.mem = 0 /\ grown.new = NoSpace
  BY DEF User
<1>6. newsz < KERNBASE => grown \in Ops BY <1>3, <1>4, UserIs, Constants, OpSet
<1> HIDE DEF grown, a
<1>7. o \in Ops /\ o.mem = 0 /\ o.new = NoSpace /\ o.call # "fork" BY <1>3, <1>5, <1>6, UserIs, Constants
<1>8. TypeOK /\ SpaceKept(p) /\ Sound(Held, freelist, lost) BY InvIs
<1>9. op'[p] = o /\ op' \in [Proc -> Ops] /\ \A q \in Proc \ {p} : op'[q] = op[q] BY <1>1, <1>7, <1>8 DEF TypeOK
<1>10. Held' = Held BY <1>1, <1>2, <1>7, <1>8, <1>9, UserIs, SameHeld
<1>11. Sound(Held', freelist', lost') BY <1>1, <1>8, <1>10
<1>12. CallKept(p)' /\ LoopKept(p)' /\ ImageMapped(p)'
  <2>1. CASE newsz >= KERNBASE BY <1>1, <1>2, <1>8, <1>9, <2>1, UserKept, ImageSame
  <2>2. CASE ~(newsz >= KERNBASE)
    <3>1. op'[p] = grown BY <1>9, <2>2
    <3>2. CallKept(p)' BY <1>1, <1>2, <1>5, <3>1, BeginIs DEF CallKept
    <3>3. \A g \in Page : g * PGSIZE < a <=> g * PGSIZE < sz[p] BY <1>2, <1>4, Below
    <3>4. Own(p)' => Mapped(space[pgdir[p]], a) BY <1>1, <1>2, <3>3 DEF Own, Mapped
    <3>5. a < newsz + PGSIZE
      <4>1. PGSIZE \in Nat BY Constants
      <4>2. sz[p] \in Nat /\ a \in Nat /\ a < sz[p] + PGSIZE BY <1>2, <1>4
      <4>3. newsz = sz[p] + n /\ n \in Nat BY <1>3
      <4> QED BY <4>1, <4>2, <4>3
    <3>6. LoopKept(p)' BY <1>1, <1>4, <1>5, <3>1, <3>4, <3>5 DEF LoopKept, Mapped, Aligned
    <3> QED BY <1>5, <3>1, <3>2, <3>6, InCallKept
  <2> QED BY <2>1, <2>2
<1>13. panicked' = 0 BY <1>1
<1> HIDE DEF o
<1> QED BY <1>1, <1>2, <1>7, <1>11, <1>12, <1>13, OneOp

(* A space with no pages. *)
LEMMA MappedNone == Mapped(NoSpace, 0)
<1>1. \A g \in Page : g * PGSIZE \in Nat BY PagesAre, Constants
<1> QED BY <1>1, NoSpaceIs DEF Mapped

LEMMA NotSegs == ASSUME NEW s \in Seq(Nat) PROVE s # <<-1>>
<1>1. SUFFICES ASSUME s = <<-1>> PROVE FALSE OBVIOUS
<1>2. Len(s) = 1 /\ s[1] = -1 BY <1>1
<1>3. s[1] \in Nat BY <1>2
<1> QED BY <1>2, <1>3

LEMMA ExecKeeps ==
    ASSUME Inv, panicked = 0, NEW p \in Proc, NEW prog \in Programs, Exec(p, prog)
    PROVE  Inv'
<1> DEFINE o == [User EXCEPT !.call = "exec", !.at = "dir", !.segs = prog]
<1>1. /\ Begin(p) /\ op' = [op EXCEPT ![p] = o]
      /\ UNCHANGED <<freelist, space, st, pgdir, sz, kstack, shared, isthread, dangling, lost, panicked>>
  BY DEF Exec, Goto, procs
<1>2. /\ op[p] = User /\ st[p] = "run" /\ calls' \in Nat
      /\ Own(p) => Mapped(space[pgdir[p]], sz[p])
  BY <1>1, BeginIs
<1>3. prog \in Seq(Nat) /\ prog # <<-1>>
  <2>1. prog \in Seq(Nat) BY Constants
  <2> QED BY <2>1, NotSegs
<1>4. /\ o.call = "exec" /\ o.at = "dir" /\ o.a = 0 /\ o.lim = 0 /\ o.mem = 0 /\ o.new = NoSpace /\ o.segs = prog BY DEF User
<1>5. o \in Ops BY <1>3, UserIs DEF Ops
<1> HIDE DEF o
<1>6. TypeOK /\ SpaceKept(p) /\ Sound(Held, freelist, lost) BY InvIs
<1>7. op'[p] = o /\ op' \in [Proc -> Ops] /\ \A q \in Proc \ {p} : op'[q] = op[q] BY <1>1, <1>5, <1>6 DEF TypeOK
<1>8. Held' = Held BY <1>1, <1>2, <1>4, <1>6, <1>7, UserIs, SameHeld
<1>9. Sound(Held', freelist', lost') BY <1>1, <1>6, <1>8
<1>11. CallKept(p)' BY <1>1, <1>2, <1>3, <1>4, <1>7, NoSpaceIs DEF CallKept
<1>12. Own(p)' => Mapped(space[pgdir[p]], sz[p]) BY <1>1, <1>2 DEF Own
<1>13. LoopKept(p)'
  <2>1. Aligned(op'[p].a) /\ op'[p].a < op'[p].lim + PGSIZE /\ Mapped(op'[p].new, op'[p].a)
    BY <1>4, <1>7, AlignedZero, MappedNone, Constants
  <2> QED BY <1>1, <1>4, <1>7, <1>12, <2>1 DEF LoopKept, Mapped, Aligned
<1>14. ImageMapped(p)' BY <1>4, <1>7, InCallKept
<1> QED BY <1>1, <1>2, <1>4, <1>5, <1>9, <1>11, <1>13, <1>14, OneOp

(* A frame from the free list for a place that has none. *)
LEMMA AllocHeld ==
    ASSUME Inv, freelist # {}, NEW x \in Place, Held[x] = 0, Held' = [Held EXCEPT ![x] = Kalloc],
           freelist' = freelist \ {Kalloc}, lost' = lost
    PROVE  Sound(Held', freelist', lost')
BY InvIs, AllocSound DEF Kalloc

LEMMA KallocType ==
    ASSUME Inv, freelist # {}
    PROVE  Kalloc \in freelist /\ Kalloc \in Frame /\ Kalloc # 0 /\ Kalloc \in Entry
<1>1. freelist \subseteq Frame BY InvIs DEF TypeOK
<1>2. Kalloc \in freelist BY <1>1, KallocIs DEF Kalloc
<1> QED BY <1>1, <1>2, NoFrame DEF Entry

LEMMA HeldNew ==
    ASSUME TypeOK, NEW p \in Proc, UNCHANGED <<space, kstack>>, NEW s \in Slot, NEW k \in Entry,
           \A q \in Proc : op'[q].mem = op[q].mem,
           \A q \in Proc \ {p} : op'[q].new = op[q].new,
           \A r \in Slot : Cell(op'[p].new, r) = IF r = s THEN k ELSE Cell(op[p].new, r)
    PROVE  Held' = [Held EXCEPT ![NewOf(p, s)] = k]
<1> DEFINE V == [Held EXCEPT ![NewOf(p, s)] = k]
<1>1. Held \in [Place -> Entry] BY HeldType
<1>2. V \in [Place -> Entry] /\ \A x \in Place : V[x] = IF x = NewOf(p, s) THEN k ELSE Held[x] BY <1>1, PlacesAre
<1> HIDE DEF V
<1>4. ASSUME NEW q \in Proc PROVE V[StackOf(q)] = kstack'[q] /\ V[HandOf(q)] = op'[q].mem
  <2>1. /\ StackOf(q) \in Place /\ HandOf(q) \in Place
        /\ StackOf(q) # NewOf(p, s) /\ HandOf(q) # NewOf(p, s)
    BY PlacesAre, PlacesDiffer
  <2> QED BY <1>2, <2>1, HeldIs
<1>5. ASSUME NEW q \in Proc, NEW r \in Slot
      PROVE  V[SpaceOf(q, r)] = Cell(space'[q], r) /\ V[NewOf(q, r)] = Cell(op'[q].new, r)
  <2>1. SpaceOf(q, r) \in Place /\ NewOf(q, r) \in Place /\ SpaceOf(q, r) # NewOf(p, s) BY PlacesAre, PlacesDiffer
  <2>2. NewOf(q, r) = NewOf(p, s) <=> q = p /\ r = s BY PlacesDiffer
  <2> QED BY <1>2, <2>1, <2>2, HeldIs
<1>6. Held' = V BY <1>2, <1>4, <1>5, HeldBecomes
<1> QED BY <1>6 DEF V

LEMMA SetupkvmKeeps ==
    ASSUME Inv, panicked = 0, NEW p \in Proc, Setupkvm(p), freelist # {}
    PROVE  Inv'
<1> DEFINE w == op[p]
           o == IF w.at = "dir" THEN [w EXCEPT !.new.dir = Kalloc, !.at = "kern"]
                ELSE [w EXCEPT !.new.kern = Kalloc, !.at = IF w.call = "fork" THEN "page" ELSE "segment"]
           s == IF w.at = "dir" THEN DirOf ELSE KernOf
<1>1. /\ w.at \in {"dir", "kern"} /\ freelist' = freelist \ {Kalloc} /\ op' = [op EXCEPT ![p] = o]
      /\ UNCHANGED <<space, st, pgdir, sz, kstack, shared, isthread, dangling, lost, calls, panicked>>
  BY DEF Setupkvm, Goto, procs
<1>2. TypeOK /\ SpaceKept(p) /\ CallKept(p) /\ LoopKept(p) BY InvIs
<1>3. w \in Ops /\ w.new \in Spaces BY <1>2 DEF TypeOK, Ops
<1>4. Kalloc \in Frame /\ Kalloc \in Entry BY KallocType
<1>5. /\ st[p] = "run" /\ w.mem = 0 /\ w.new.kern = 0 /\ w.call \in {"fork", "exec"} /\ w.a = 0
      /\ w.at = "dir" => w.new.dir = 0
      /\ w.call = "exec" => w.lim = 0
      /\ w.segs # <<-1>>
  BY <1>1, <1>2, <1>3 DEF CallKept, Ops
<1>6. /\ o.call = w.call /\ o.a = w.a /\ o.lim = w.lim /\ o.mem = w.mem /\ o.kid = w.kid /\ o.segs = w.segs
      /\ o.new.pt = w.new.pt /\ o.new.pte = w.new.pte /\ o.new.user = w.new.user
      /\ o.new.dir = (IF w.at = "dir" THEN Kalloc ELSE w.new.dir)
      /\ o.new.kern = (IF w.at = "dir" THEN w.new.kern ELSE Kalloc)
      /\ o.at = IF w.at = "dir" THEN "kern" ELSE IF w.call = "fork" THEN "page" ELSE "segment"
  BY <1>3 DEF Ops, Spaces
<1>7. o \in Ops /\ o.new \in Spaces
  <2>1. CASE w.at = "dir"
    <3>1. [w.new EXCEPT !.dir = Kalloc] \in Spaces BY <1>3, <1>4 DEF Spaces
    <3> QED BY <1>3, <2>1, <3>1 DEF Ops
  <2>2. CASE w.at # "dir"
    <3>1. [w.new EXCEPT !.kern = Kalloc] \in Spaces BY <1>3, <1>4 DEF Spaces
    <3> QED BY <1>3, <2>2, <3>1 DEF Ops
  <2> QED BY <2>1, <2>2
<1> HIDE DEF o, w
<1>8. s \in Slot /\ Cell(w.new, s) = 0
  BY <1>1, <1>5, SlotsAre, CellsAre
<1>9. ASSUME NEW r \in Slot PROVE Cell(o.new, r) = IF r = s THEN Kalloc ELSE Cell(w.new, r)
  BY <1>6, SlotsAre, CellsAre
<1> HIDE DEF s
<1>10. Held' = [Held EXCEPT ![NewOf(p, s)] = Kalloc]
  <2> DEFINE k == Kalloc
  <2>1. op'[p] = o /\ \A q \in Proc \ {p} : op'[q] = op[q] BY <1>1, <1>2 DEF TypeOK
  <2>2. /\ k \in Entry /\ UNCHANGED <<space, kstack>>
        /\ \A q \in Proc : op'[q].mem = op[q].mem
        /\ \A q \in Proc \ {p} : op'[q].new = op[q].new
        /\ \A r \in Slot : Cell(op'[p].new, r) = IF r = s THEN k ELSE Cell(op[p].new, r)
    BY <1>1, <1>4, <1>6, <1>9, <2>1 DEF w
  <2> HIDE DEF k
  <2>3. Held' = [Held EXCEPT ![NewOf(p, s)] = k] BY <1>2, <1>8, <2>2, HeldNew
  <2> QED BY <2>3 DEF k
<1>11. NewOf(p, s) \in Place /\ Held[NewOf(p, s)] = 0 BY <1>8, HeldIs, PlacesAre DEF w
<1>12. Sound(Held', freelist', lost') BY <1>1, <1>10, <1>11, AllocHeld
<1>13. op'[p] = o BY <1>1, <1>2 DEF TypeOK
<1>14. CallKept(p)'
  <2>2. w.call = "fork" => w.kid \in Proc /\ st'[w.kid] = "embryo" /\ w.lim = sz'[p] BY <1>1, <1>2 DEF CallKept, w
  <2> QED BY <1>1, <1>5, <1>6, <1>13, <2>2 DEF CallKept
<1>15. LoopKept(p)'
  <2>1. Mapped(o.new, o.a) BY <1>2, <1>5, <1>6 DEF LoopKept, Mapped, w
  <2>2. Own(p)' => Own(p) BY <1>1 DEF Own
  <2>3. o.at # "user" /\ o.at # "map" /\ w.at # "user" /\ o.call # "sbrk" BY <1>1, <1>5, <1>6
  <2>4. /\ Aligned(o.a) /\ o.a < o.lim + PGSIZE
        /\ Own(p)' => Mapped(space'[pgdir'[p]], sz'[p])
        /\ Own(p)' /\ o.call = "fork" => SameUser(o.new, space'[pgdir'[p]], o.a)
    BY <1>1, <1>2, <1>5, <1>6, <2>2, <2>3 DEF LoopKept, w, Mapped, SameUser
  <2> QED BY <1>13, <2>1, <2>3, <2>4 DEF LoopKept, Aligned
<1>16. ImageMapped(p)' BY <1>1, <1>6, <1>13, InCallKept
<1>17. calls' \in Nat /\ panicked' = 0 BY <1>1, <1>2 DEF TypeOK
<1> QED BY <1>1, <1>6, <1>7, <1>12, <1>14, <1>15, <1>16, <1>17, OneOp DEF w

LEMMA HeldHand ==
    ASSUME TypeOK, NEW p \in Proc, UNCHANGED <<space, kstack>>, NEW k \in Entry,
           \A q \in Proc : op'[q].new = op[q].new,
           \A q \in Proc : op'[q].mem = IF q = p THEN k ELSE op[q].mem
    PROVE  Held' = [Held EXCEPT ![HandOf(p)] = k]
<1> DEFINE V == [Held EXCEPT ![HandOf(p)] = k]
<1>1. Held \in [Place -> Entry] BY HeldType
<1>2. V \in [Place -> Entry] /\ \A x \in Place : V[x] = IF x = HandOf(p) THEN k ELSE Held[x] BY <1>1, PlacesAre
<1> HIDE DEF V
<1>3. ASSUME NEW q \in Proc PROVE V[StackOf(q)] = kstack'[q] /\ V[HandOf(q)] = op'[q].mem
  <2>1. /\ StackOf(q) \in Place /\ HandOf(q) \in Place /\ StackOf(q) # HandOf(p)
        /\ HandOf(q) = HandOf(p) <=> q = p
    BY PlacesAre, PlacesDiffer
  <2> QED BY <1>2, <2>1, HeldIs
<1>4. ASSUME NEW q \in Proc, NEW r \in Slot
      PROVE  V[SpaceOf(q, r)] = Cell(space'[q], r) /\ V[NewOf(q, r)] = Cell(op'[q].new, r)
  <2>1. /\ SpaceOf(q, r) \in Place /\ NewOf(q, r) \in Place
        /\ SpaceOf(q, r) # HandOf(p) /\ NewOf(q, r) # HandOf(p)
    BY PlacesAre, PlacesDiffer
  <2> QED BY <1>2, <2>1, HeldIs
<1>5. Held' = V BY <1>2, <1>3, <1>4, HeldBecomes
<1> QED BY <1>5 DEF V

(* Some places lose what they hold. *)
LEMMA HeldCleared ==
    ASSUME TypeOK, NEW S \in SUBSET Place,
           \A q \in Proc : kstack'[q] = IF StackOf(q) \in S THEN 0 ELSE kstack[q],
           \A q \in Proc : op'[q].mem = IF HandOf(q) \in S THEN 0 ELSE op[q].mem,
           \A q \in Proc, r \in Slot : Cell(space'[q], r) = IF SpaceOf(q, r) \in S THEN 0 ELSE Cell(space[q], r),
           \A q \in Proc, r \in Slot : Cell(op'[q].new, r) = IF NewOf(q, r) \in S THEN 0 ELSE Cell(op[q].new, r)
    PROVE  Held' = [y \in Place |-> IF y \in S THEN 0 ELSE Held[y]]
<1> DEFINE V == [y \in Place |-> IF y \in S THEN 0 ELSE Held[y]]
<1>1. Held \in [Place -> Entry] BY HeldType
<1>2. V \in [Place -> Entry] /\ \A x \in Place : V[x] = IF x \in S THEN 0 ELSE Held[x] BY <1>1 DEF Entry
<1> HIDE DEF V
<1>3. \A q \in Proc : V[StackOf(q)] = kstack'[q] /\ V[HandOf(q)] = op'[q].mem BY <1>2, HeldIs, PlacesAre
<1>4. ASSUME NEW q \in Proc, NEW r \in Slot
      PROVE  V[SpaceOf(q, r)] = Cell(space'[q], r) /\ V[NewOf(q, r)] = Cell(op'[q].new, r)
  <2>1. SpaceOf(q, r) \in Place /\ NewOf(q, r) \in Place BY PlacesAre
  <2> QED BY <1>2, <2>1, HeldIs
<1>5. Held' = V BY <1>2, <1>3, <1>4, HeldBecomes
<1> QED BY <1>5 DEF V

LEMMA AllocPageKeeps ==
    ASSUME Inv, panicked = 0, NEW p \in Proc, AllocPage(p), freelist # {},
           ~(op[p].call = "fork" /\ space[pgdir[p]].pte[PGOF(op[p].a)] = 0)
    PROVE  Inv'
<1> DEFINE w == op[p]
           k == Kalloc
           o == [w EXCEPT !.mem = k, !.at = "map"]
<1>1. /\ w.at = "page" /\ w.a < w.lim /\ freelist' = freelist \ {k} /\ op' = [op EXCEPT ![p] = o]
      /\ UNCHANGED <<space, st, pgdir, sz, kstack, shared, isthread, dangling, lost, calls, panicked>>
  BY DEF AllocPage, Goto, procs
<1>2. TypeOK /\ SpaceKept(p) /\ CallKept(p) /\ LoopKept(p) BY InvIs
<1>3. w \in Ops BY <1>2 DEF TypeOK
<1>4. k \in Frame /\ k \in Entry /\ k # 0 BY KallocType
<1>5. st[p] = "run" /\ w.mem = 0 /\ w.call \in {"sbrk", "fork", "exec"} BY <1>1, <1>2, <1>3 DEF CallKept, Ops
<1>6. /\ o.call = w.call /\ o.a = w.a /\ o.lim = w.lim /\ o.kid = w.kid /\ o.segs = w.segs /\ o.new = w.new
      /\ o.mem = k /\ o.at = "map"
  BY <1>3 DEF Ops
<1>7. o \in Ops BY <1>3, <1>4 DEF Ops
<1>8. Held[HandOf(p)] = 0 /\ HandOf(p) \in Place BY <1>5, HeldIs, PlacesAre
<1> HIDE DEF o, w, k
<1>9. op'[p] = o /\ \A q \in Proc \ {p} : op'[q] = op[q] BY <1>1, <1>2 DEF TypeOK
<1>10. /\ \A q \in Proc : op'[q].new = op[q].new
       /\ \A q \in Proc : op'[q].mem = IF q = p THEN k ELSE op[q].mem
  BY <1>6, <1>9 DEF w
<1>11. Held' = [Held EXCEPT ![HandOf(p)] = k] BY <1>1, <1>2, <1>4, <1>10, HeldHand
<1>12. Sound(Held', freelist', lost') BY <1>1, <1>8, <1>11, AllocHeld DEF k
<1>13. CallKept(p)'
  <2>2. /\ w.call = "fork" => w.kid \in Proc /\ st'[w.kid] = "embryo" /\ w.lim = sz'[p]
        /\ w.call = "sbrk" => w.new = NoSpace
    BY <1>1, <1>2 DEF CallKept, w
  <2> QED BY <1>1, <1>4, <1>5, <1>6, <1>9, <2>2 DEF CallKept
<1>14. LoopKept(p)' BY <1>1, <1>2, <1>6, <1>9 DEF LoopKept, w, Mapped, SameUser, Own, Aligned
<1>15. ImageMapped(p)' BY <1>6, <1>9, InCallKept
<1>16. calls' \in Nat /\ panicked' = 0 BY <1>1, <1>2 DEF TypeOK
<1> QED BY <1>1, <1>6, <1>7, <1>12, <1>13, <1>14, <1>15, <1>16, OneOp DEF w

LEMMA SegsTail ==
    ASSUME NEW s \in Seq(Nat), s # <<>>
    PROVE  Head(s) \in Nat /\ Tail(s) \in Seq(Nat)
OBVIOUS

(* The size exec() asks allocuvm() for. *)
SegEnd(o) == IF o.segs = <<>> THEN PGROUNDUP(o.lim) + 2 * PGSIZE ELSE Head(o.segs)

LEMMA ExecSegmentKeeps ==
    ASSUME Inv, panicked = 0, NEW p \in Proc, ExecSegment(p), ~(SegEnd(op[p]) >= KERNBASE)
    PROVE  Inv'
<1> DEFINE w == op[p]
           newsz == SegEnd(w)
           a == PGROUNDUP(w.lim)
           segs == IF w.segs = <<>> THEN <<-1>> ELSE Tail(w.segs)
           lim == IF newsz < w.lim THEN w.lim ELSE newsz
           o == [w EXCEPT !.at = "page", !.a = a, !.segs = segs, !.lim = lim]
<1>1. /\ AtSegment(p) /\ newsz < KERNBASE /\ op' = [op EXCEPT ![p] = o]
      /\ UNCHANGED <<freelist, space, st, pgdir, sz, kstack, shared, isthread, dangling, lost, calls, panicked>>
  BY DEF ExecSegment, Goto, procs, SegEnd
<1>2. TypeOK /\ SpaceKept(p) /\ CallKept(p) /\ LoopKept(p) /\ Sound(Held, freelist, lost) BY InvIs
<1>3. w \in Ops /\ w.lim \in Nat /\ w.lim < KERNBASE /\ w.a \in Nat BY <1>2, Constants DEF TypeOK, Ops
<1>4. /\ w.call = "exec" /\ st[p] = "run" /\ w.mem = 0 /\ w.at \in {"segment", "page"} /\ w.segs \in Seq(Nat)
      /\ w.lim <= w.a /\ w.a < w.lim + PGSIZE
  <2>1. CASE w.at = "segment"
    <3>1. w.call = "exec" /\ st[p] = "run" /\ w.mem = 0 /\ w.a = 0 /\ w.lim = 0 BY <1>2, <2>1 DEF CallKept
    <3>2. w.segs # <<-1>> BY <1>2, <2>1 DEF CallKept
    <3> QED BY <1>3, <2>1, <3>1, <3>2, Constants DEF Ops
  <2>2. CASE w.at # "segment"
    <3>1. w.call = "exec" /\ w.at = "page" /\ w.a >= w.lim /\ w.segs # <<-1>> BY <1>1, <2>2 DEF AtSegment, Looped
    <3>2. st[p] = "run" /\ w.mem = 0 BY <1>2, <3>1 DEF CallKept
    <3>3. w.a < w.lim + PGSIZE BY <1>2, <3>1 DEF LoopKept
    <3> QED BY <1>3, <3>1, <3>2, <3>3 DEF Ops
  <2> QED BY <2>1, <2>2
<1>5. a \in Nat /\ Aligned(a) /\ w.lim <= a /\ a < w.lim + PGSIZE BY <1>3, RoundUp
<1>6. segs \in Seq(Nat) \cup {<<-1>>} /\ newsz \in Nat BY <1>4, <1>5, SegsTail, Constants DEF SegEnd
<1> HIDE DEF newsz, a, segs, w
<1>7. lim \in Nat /\ lim < KERNBASE /\ w.lim <= lim /\ lim \in 0..(KERNBASE - 1) BY <1>1, <1>3, <1>6, Constants
<1> HIDE DEF lim
<1>8. /\ o.call = w.call /\ o.at = "page" /\ o.a = a /\ o.lim = lim /\ o.mem = w.mem /\ o.new = w.new
  BY <1>3 DEF Ops
<1>9. o \in Ops BY <1>3, <1>5, <1>6, <1>7 DEF Ops
<1> HIDE DEF o
<1>10. op'[p] = o /\ op' \in [Proc -> Ops] /\ \A q \in Proc \ {p} : op'[q] = op[q] BY <1>1, <1>2, <1>9 DEF TypeOK
<1>11. Held' = Held
  <2>1. \A q \in Proc : op'[q].mem = op[q].mem /\ op'[q].new = op[q].new BY <1>8, <1>10 DEF w
  <2> QED BY <1>1, <1>2, <1>10, <2>1, SameHeld
<1>12. Sound(Held', freelist', lost') BY <1>1, <1>2, <1>11
<1>13. CallKept(p)' BY <1>1, <1>4, <1>8, <1>10 DEF CallKept
<1>14. LoopKept(p)'
  <2>1. \A g \in Page : g * PGSIZE < a <=> g * PGSIZE < w.a
    <3>1. Aligned(w.a) BY <1>2 DEF LoopKept, w
    <3>2. \A g \in Page : g * PGSIZE < a <=> g * PGSIZE < w.lim BY <1>3, <1>5, Below
    <3>3. \A g \in Page : g * PGSIZE < w.a <=> g * PGSIZE < w.lim BY <1>3, <1>4, <3>1, Below
    <3> QED BY <3>2, <3>3
  <2>2. Mapped(w.new, w.a) BY <1>2, <1>4 DEF LoopKept, w
  <2>3. Mapped(o.new, a) BY <1>8, <2>1, <2>2 DEF Mapped
  <2>4. a < lim + PGSIZE BY <1>3, <1>5, <1>7, Constants
  <2>5. Own(p)' => Mapped(space'[pgdir'[p]], sz'[p]) BY <1>1, <1>2, <1>4 DEF LoopKept, w, Own
  <2> QED BY <1>4, <1>5, <1>8, <1>10, <2>3, <2>4, <2>5 DEF LoopKept, Aligned
<1>15. ImageMapped(p)' BY <1>8, <1>10, InCallKept
<1>16. calls' \in Nat /\ panicked' = 0 BY <1>1, <1>2 DEF TypeOK
<1> QED BY <1>1, <1>4, <1>8, <1>9, <1>12, <1>13, <1>14, <1>15, <1>16, OneOp

(* A step that changes the address space of a process, its size and its     *)
(* call; exec() also makes the space its own again.                         *)
LEMMA OneSpace ==
    ASSUME Inv, NEW p \in Proc, pgdir[p] # 0, NEW o \in Ops, NEW sp \in Spaces, NEW n \in 0..(KERNBASE - 1),
           op' = [op EXCEPT ![p] = o], space' = [space EXCEPT ![pgdir[p]] = sp], sz' = [sz EXCEPT ![p] = n],
           UNCHANGED <<st, pgdir, kstack, isthread, dangling>>, panicked' = 0, calls' \in Nat,
           shared' = shared \/ (shared' = shared \ {pgdir[p]} /\ Alone(p)),
           Sound(Held', freelist', lost'),
           o.call = "fork" => op[p].call = "fork" /\ o.kid = op[p].kid,
           CallKept(p)', LoopKept(p)', ImageMapped(p)'
    PROVE  Inv'
<1> DEFINE d == pgdir[p]
<1>1. TypeOK /\ \A q \in Proc : SpaceKept(q) BY InvIs
<1>2. d \in Proc /\ st[p] # "unused" /\ ~Unclaimed(d) BY <1>1 DEF TypeOK, SpaceKept, Unclaimed
<1>3. /\ op'[p] = o /\ \A q \in Proc \ {p} : op'[q] = op[q] /\ sz'[q] = sz[q]
      /\ \A q \in Proc \ {d} : space'[q] = space[q]
  BY <1>1, <1>2 DEF TypeOK
<1>4. TypeOK'
  <2>1. op' \in [Proc -> Ops] /\ space' \in [Proc -> Spaces] /\ sz' \in [Proc -> 0..(KERNBASE - 1)]
    BY <1>1, <1>2 DEF TypeOK
  <2>2. freelist' \subseteq Frame /\ lost' \subseteq Frame BY DEF Sound
  <2> QED BY <1>1, <2>1, <2>2 DEF TypeOK
<1>5. KidsDiffer' BY <1>3, InvIs DEF KidsDiffer
<1>6. ASSUME NEW q \in Proc \ {p}, Own(q)' PROVE Own(q) /\ pgdir[q] # d
  <2>1. pgdir[q] # 0 /\ pgdir[q] \notin shared' BY <1>6 DEF Own
  <2>2. SpaceKept(q) BY <1>1
  <2>3. CASE shared' = shared
    <3>1. Own(q) BY <2>1, <2>3 DEF Own
    <3>2. Alone(q) BY <2>2, <3>1 DEF SpaceKept
    <3> QED BY <1>2, <3>1, <3>2 DEF Alone
  <2>4. CASE shared' = shared \ {d} /\ Alone(p)
    <3>1. st[q] # "unused" BY <2>1, <2>2 DEF SpaceKept
    <3>2. pgdir[q] # d BY <2>4, <3>1 DEF Alone
    <3> QED BY <2>1, <2>4, <3>2 DEF Own
  <2> QED BY <2>3, <2>4
<1>7. ASSUME NEW q \in Proc PROVE SpaceKept(q)'
  <2>1. SpaceKept(q) BY <1>1
  <2>2. Alone(q)' <=> Alone(q) BY DEF Alone
  <2>3. Own(q)' => Alone(q)
    <3>1. CASE q # p BY <1>6, <2>1, <3>1 DEF SpaceKept
    <3>2. CASE q = p BY <2>1, <3>2 DEF SpaceKept, Own
    <3> QED BY <3>1, <3>2
  <2>4. Unclaimed(q)' <=> Unclaimed(q) BY DEF Unclaimed
  <2>5. Unclaimed(q) => space'[q] = space[q] BY <1>2, <1>3
  <2> QED BY <2>1, <2>2, <2>3, <2>4, <2>5 DEF SpaceKept
<1>8. ASSUME NEW q \in Proc \ {p} PROVE CallKept(q)' /\ LoopKept(q)' /\ ImageMapped(q)'
  <2>1. SpaceKept(q) /\ CallKept(q) /\ LoopKept(q) /\ ImageMapped(q) BY InvIs
  <2>3. pgdir[q] # 0 /\ pgdir[q] \notin shared' => pgdir[q] \notin shared /\ space'[pgdir[q]] = space[pgdir[q]]
    <3>1. SUFFICES ASSUME pgdir[q] # 0, pgdir[q] \notin shared'
                   PROVE  pgdir[q] \notin shared /\ space'[pgdir[q]] = space[pgdir[q]]
      OBVIOUS
    <3>2. Own(q)' BY <3>1 DEF Own
    <3>3. Own(q) /\ pgdir[q] # d /\ pgdir[q] \in Proc BY <1>1, <1>6, <3>1, <3>2 DEF TypeOK
    <3> QED BY <1>3, <3>3 DEF Own
  <2> QED BY <1>3, <2>1, <2>3, OtherKept
<1>9. dangling' = {} BY InvIs
<1> QED BY <1>4, <1>5, <1>7, <1>8, <1>9, InvNext

(* The frames that a set of places gives back. *)
LEMMA FreeHeld ==
    ASSUME Inv, NEW S \in SUBSET Place, Held' = [y \in Place |-> IF y \in S THEN 0 ELSE Held[y]],
           freelist' = freelist \cup ({Held[y] : y \in S} \ {0}), lost' = lost
    PROVE  Sound(Held', freelist', lost')
BY InvIs, FreeSound

-----------------------------------------------------------------------------
(* The ends of a call when a page is missing. *)

LEMMA ExecFailsKeeps ==
    ASSUME Inv, panicked = 0, NEW p \in Proc, op[p].call = "exec", ExecFails(p), Goto(p, User),
           UNCHANGED <<shared, isthread, dangling, calls, panicked>>
    PROVE  Inv'
<1> DEFINE w == op[p]
           S == {NewOf(p, s) : s \in Slot} \cup {HandOf(p)}
<1>1. /\ freelist' = freelist \cup Used(w.new) \cup ({w.mem} \ {0}) /\ op' = [op EXCEPT ![p] = User]
      /\ UNCHANGED <<space, st, pgdir, sz, kstack, lost>>
  BY DEF ExecFails, Freevm, Goto, procs
<1>2. TypeOK /\ SpaceKept(p) /\ LoopKept(p) BY InvIs
<1>3. op'[p] = User /\ \A q \in Proc \ {p} : op'[q] = op[q] BY <1>1, <1>2 DEF TypeOK
<1>4. /\ \A q : StackOf(q) \notin S
      /\ \A q : HandOf(q) \in S <=> q = p
      /\ \A q, r : SpaceOf(q, r) \notin S
      /\ \A q : \A r \in Slot : NewOf(q, r) \in S <=> q = p
  BY PlacesDiffer
<1>5. S \in SUBSET Place BY PlacesAre
<1>6. {Held[y] : y \in S} \ {0} = Used(w.new) \cup ({w.mem} \ {0})
  <2>1. Held[HandOf(p)] = w.mem /\ \A s \in Slot : Held[NewOf(p, s)] = Cell(w.new, s) BY HeldIs
  <2>2. {Held[y] : y \in S} = {Held[NewOf(p, s)] : s \in Slot} \cup {Held[HandOf(p)]} OBVIOUS
  <2>3. {Held[NewOf(p, s)] : s \in Slot} = {Cell(w.new, s) : s \in Slot} BY <2>1
  <2> QED BY <2>1, <2>2, <2>3 DEF Used
<1> HIDE DEF S
<1>7. Held' = [y \in Place |-> IF y \in S THEN 0 ELSE Held[y]]
  <2>1. \A q \in Proc : kstack'[q] = IF StackOf(q) \in S THEN 0 ELSE kstack[q] BY <1>1, <1>4
  <2>2. \A q \in Proc : op'[q].mem = IF HandOf(q) \in S THEN 0 ELSE op[q].mem BY <1>3, <1>4, UserIs
  <2>3. \A q \in Proc, r \in Slot : Cell(space'[q], r) = IF SpaceOf(q, r) \in S THEN 0 ELSE Cell(space[q], r)
    BY <1>1, <1>4
  <2>4. \A q \in Proc, r \in Slot : Cell(op'[q].new, r) = IF NewOf(q, r) \in S THEN 0 ELSE Cell(op[q].new, r)
    BY <1>3, <1>4, UserIs, NoSpaceIs
  <2> QED BY <1>2, <1>5, <2>1, <2>2, <2>3, <2>4, HeldCleared
<1>8. freelist' = freelist \cup ({Held[y] : y \in S} \ {0}) BY <1>1, <1>6
<1>9. Sound(Held', freelist', lost') BY <1>1, <1>5, <1>7, <1>8, FreeHeld
<1>10. CallKept(p)' /\ LoopKept(p)' BY <1>3, UserKept
<1>11. Own(p) => Mapped(space[pgdir[p]], sz[p]) BY <1>2 DEF LoopKept
<1>12. ImageMapped(p)' BY <1>1, <1>2, <1>11, ImageSame
<1>13. calls' \in Nat /\ panicked' = 0 BY <1>2 DEF TypeOK
<1> QED BY <1>1, <1>9, <1>10, <1>12, <1>13, UserIs, OneOp

(* deallocuvm() frees what it unmaps. *)
LEMMA DeallocSound ==
    ASSUME Inv, NEW p \in Proc, NEW d \in Proc, NEW m \in Nat, NEW n \in Nat,
           space' = [space EXCEPT ![d] = Deallocuvm(space[d], m, n)],
           freelist' = freelist \cup Freed(space[d], m, n) \cup ({op[p].mem} \ {0}),
           UNCHANGED <<kstack, lost>>,
           \A q \in Proc : op'[q].mem = IF q = p THEN 0 ELSE op[q].mem,
           \A q \in Proc : op'[q].new = op[q].new
    PROVE  Sound(Held', freelist', lost')
<1> DEFINE sp == space[d]
           D == Dropped(sp, m, n)
           S == {SpaceOf(d, PteOf(g)) : g \in D} \cup {HandOf(p)}
<1>1. TypeOK /\ sp \in Spaces BY InvIs DEF TypeOK
<1>2. /\ D \subseteq Page
      /\ \A s \in Slot : Cell(Deallocuvm(sp, m, n), s) = IF \E g \in D : s = PteOf(g) THEN 0 ELSE Cell(sp, s)
      /\ \A f : f \in Freed(sp, m, n) <=> f # 0 /\ \E g \in D : f = Cell(sp, PteOf(g))
  <2> HIDE DEF sp
  <2>1. sp \in Spaces BY <1>1
  <2> QED BY <2>1, DeallocuvmIs
<1>3. space'[d] = Deallocuvm(sp, m, n) /\ \A q \in Proc \ {d} : space'[q] = space[q] BY <1>1 DEF TypeOK
<1> HIDE DEF D
<1>4. /\ \A q : StackOf(q) \notin S
      /\ \A q : HandOf(q) \in S <=> q = p
      /\ \A q, r : NewOf(q, r) \notin S
      /\ \A q, r : SpaceOf(q, r) \in S <=> (q = d /\ \E g \in D : r = PteOf(g))
  <2>1. \A x : x \in S <=> x = HandOf(p) \/ \E g \in D : x = SpaceOf(d, PteOf(g)) OBVIOUS
  <2> HIDE DEF S
  <2>2. (\A q : StackOf(q) \notin S) /\ (\A q : HandOf(q) \in S <=> q = p) /\ (\A q, r : NewOf(q, r) \notin S)
    BY <2>1, PlacesDiffer
  <2>3. ASSUME NEW q, NEW r PROVE SpaceOf(q, r) \in S <=> (q = d /\ \E g \in D : r = PteOf(g))
    <3>1. SpaceOf(q, r) \in S <=> \E g \in D : SpaceOf(q, r) = SpaceOf(d, PteOf(g)) BY <2>1, PlacesDiffer
    <3>2. \A g : SpaceOf(q, r) = SpaceOf(d, PteOf(g)) <=> q = d /\ r = PteOf(g) BY PlacesDiffer
    <3> QED BY <3>1, <3>2
  <2> QED BY <2>2, <2>3
<1>5. S \in SUBSET Place BY <1>2, PlacesAre, SlotsAre
<1>6. {Held[y] : y \in S} \ {0} = Freed(sp, m, n) \cup ({op[p].mem} \ {0})
  <2>1. Held[HandOf(p)] = op[p].mem BY HeldIs
  <2>2. \A g \in D : Held[SpaceOf(d, PteOf(g))] = Cell(sp, PteOf(g)) BY <1>2, HeldIs, SlotsAre
  <2>3. {Held[y] : y \in S} = {Held[SpaceOf(d, PteOf(g))] : g \in D} \cup {Held[HandOf(p)]} OBVIOUS
  <2>4. {Held[SpaceOf(d, PteOf(g))] : g \in D} = {Cell(sp, PteOf(g)) : g \in D} BY <2>2
  <2> QED BY <1>2, <2>1, <2>3, <2>4
<1> HIDE DEF S
<1>7. Held' = [y \in Place |-> IF y \in S THEN 0 ELSE Held[y]]
  <2>1. \A q \in Proc : kstack'[q] = IF StackOf(q) \in S THEN 0 ELSE kstack[q] BY <1>4
  <2>2. \A q \in Proc : op'[q].mem = IF HandOf(q) \in S THEN 0 ELSE op[q].mem BY <1>4
  <2>3. \A q \in Proc, r \in Slot : Cell(space'[q], r) = IF SpaceOf(q, r) \in S THEN 0 ELSE Cell(space[q], r)
    BY <1>2, <1>3, <1>4
  <2>4. \A q \in Proc, r \in Slot : Cell(op'[q].new, r) = IF NewOf(q, r) \in S THEN 0 ELSE Cell(op[q].new, r)
    BY <1>4
  <2> QED BY <1>1, <1>5, <2>1, <2>2, <2>3, <2>4, HeldCleared
<1>8. freelist' = freelist \cup ({Held[y] : y \in S} \ {0}) BY <1>6
<1> QED BY <1>5, <1>7, <1>8, FreeHeld

(* deallocuvm() leaves the pages below the new size. *)
LEMMA DeallocMapped ==
    ASSUME NEW sp \in Spaces, NEW m \in Nat, NEW n \in Nat, NEW a \in Nat, n <= a, a <= m, Mapped(sp, a)
    PROVE  Mapped(Deallocuvm(sp, m, n), n)
<1>1. SUFFICES ASSUME NEW g \in Page PROVE Deallocuvm(sp, m, n).pte[g] # 0 <=> g * PGSIZE < n BY DEF Mapped
<1>2. Deallocuvm(sp, m, n).pte[g] = IF g \in Dropped(sp, m, n) THEN 0 ELSE sp.pte[g] BY DeallocuvmIs
<1>3. g \in Dropped(sp, m, n) <=> g * PGSIZE >= n /\ g * PGSIZE < m /\ sp.pte[g] # 0 BY DEF Dropped
<1>4. sp.pte[g] # 0 <=> g * PGSIZE < a BY DEF Mapped
<1> DEFINE x == g * PGSIZE
<1>5. x \in Nat BY PagesAre, Constants
<1> HIDE DEF x
<1> QED BY <1>2, <1>3, <1>4, <1>5 DEF x

(* allocuvm() undoes the pages of the loop and gives back the one in hand.  *)
LEMMA SbrkFailsKeeps ==
    ASSUME Inv, panicked = 0, NEW p \in Proc, op[p].call = "sbrk", op[p].at # "user", op[p].a < op[p].lim,
           SbrkFails(p), Goto(p, User), UNCHANGED <<shared, isthread, dangling, calls, panicked>>
    PROVE  Inv'
<1> DEFINE w == op[p]
           d == pgdir[p]
           sp == Deallocuvm(space[d], w.lim, sz[p])
<1>1. /\ space' = [space EXCEPT ![d] = sp] /\ op' = [op EXCEPT ![p] = User]
      /\ freelist' = freelist \cup Freed(space[d], w.lim, sz[p]) \cup ({w.mem} \ {0})
      /\ UNCHANGED <<st, pgdir, sz, kstack, lost>>
  BY DEF SbrkFails, Goto, procs
<1>2. TypeOK /\ SpaceKept(p) /\ CallKept(p) /\ LoopKept(p) BY InvIs
<1>3. st[p] = "run" /\ w.new = NoSpace BY <1>2 DEF CallKept
<1>4. d # 0 /\ d \in Proc /\ space[d] \in Spaces BY <1>2, <1>3 DEF SpaceKept, TypeOK
<1>5. w.lim \in Nat /\ sz[p] \in Nat /\ sz[p] \in 0..(KERNBASE - 1) /\ w.a \in Nat BY <1>2, Constants DEF TypeOK, Ops
<1>6. op'[p] = User /\ \A q \in Proc \ {p} : op'[q] = op[q] BY <1>1, <1>2 DEF TypeOK
<1>7. Sound(Held', freelist', lost')
  <2>1. \A q \in Proc : op'[q].mem = IF q = p THEN 0 ELSE op[q].mem BY <1>6, UserIs
  <2>2. \A q \in Proc : op'[q].new = op[q].new BY <1>3, <1>6, UserIs
  <2> QED BY <1>1, <1>4, <1>5, <2>1, <2>2, DeallocSound
<1>8. sp \in Spaces BY <1>4, <1>5, DeallocuvmIs
<1>9. CallKept(p)' /\ LoopKept(p)' BY <1>6, UserKept
<1>10. ImageMapped(p)'
  <2>1. SUFFICES ASSUME d \notin shared PROVE Mapped(space'[d], sz[p])
    BY <1>1 DEF ImageMapped, Mapped
  <2>2. Mapped(space[d], w.a) /\ w.a >= sz[p] BY <1>2, <1>4, <2>1 DEF LoopKept, Own
  <2>3. Mapped(sp, sz[p]) BY <1>4, <1>5, <2>2, DeallocMapped
  <2>4. space'[d] = sp BY <1>1, <1>2, <1>4 DEF TypeOK
  <2> QED BY <2>3, <2>4
<1>11. calls' \in Nat /\ panicked' = 0 /\ sz' = [sz EXCEPT ![p] = sz[p]] BY <1>1, <1>2 DEF TypeOK
<1> HIDE DEF sp
<1> QED BY <1>1, <1>4, <1>5, <1>7, <1>8, <1>9, <1>10, <1>11, UserIs, OneSpace DEF d

LEMMA SbrkShrinksKeeps ==
    ASSUME Inv, panicked = 0, NEW p \in Proc, NEW n \in Incs, SbrkShrinks(p, n)
    PROVE  Inv'
<1> DEFINE newsz == Sum(sz[p], n)
           d == pgdir[p]
           sp == Deallocuvm(space[d], sz[p], newsz)
           z == IF newsz = 0 THEN sz[p] ELSE newsz
<1>1. /\ n < 0 /\ Begin(p) /\ UNCHANGED <<st, pgdir, kstack, op, shared, isthread, dangling, lost, panicked>>
      /\ \/ newsz >= sz[p] /\ UNCHANGED <<space, freelist, sz>>
         \/ /\ newsz < sz[p]
            /\ space' = [space EXCEPT ![d] = sp]
            /\ freelist' = freelist \cup Freed(space[d], sz[p], newsz)
            /\ sz' = IF newsz = 0 THEN sz ELSE [sz EXCEPT ![p] = newsz]
  BY DEF SbrkShrinks
<1>2. /\ op[p] = User /\ st[p] = "run" /\ d \in Proc /\ sz[p] \in Nat /\ sz[p] < KERNBASE /\ calls' \in Nat
      /\ Own(p) => Mapped(space[d], sz[p])
  BY <1>1, BeginIs
<1>3. newsz \in Nat BY <1>2, Wrap
<1>4. TypeOK /\ SpaceKept(p) /\ Sound(Held, freelist, lost) BY InvIs
<1>5. op' = [op EXCEPT ![p] = User] /\ op' \in [Proc -> Ops] /\ op'[p] = User /\ panicked' = 0 BY <1>1, <1>2, <1>4 DEF TypeOK
<1>6. CallKept(p)' /\ LoopKept(p)' BY <1>5, UserKept
<1> HIDE DEF newsz
<1>7. CASE newsz >= sz[p] /\ UNCHANGED <<space, freelist, sz>>
  <2>1. Held' = Held BY <1>1, <1>4, <1>5, <1>7, SameHeld
  <2>2. Sound(Held', freelist', lost') BY <1>1, <1>4, <1>7, <2>1
  <2>3. ImageMapped(p)' BY <1>1, <1>2, <1>4, <1>7, ImageSame
  <2> QED BY <1>1, <1>2, <1>5, <1>6, <1>7, <2>2, <2>3, UserIs, OneOp
<1>8. CASE /\ newsz < sz[p]
           /\ space' = [space EXCEPT ![d] = sp]
           /\ freelist' = freelist \cup Freed(space[d], sz[p], newsz)
           /\ sz' = IF newsz = 0 THEN sz ELSE [sz EXCEPT ![p] = newsz]
  <2>1. space[d] \in Spaces /\ d # 0 /\ d \in Proc BY <1>2, <1>4, Constants DEF TypeOK, Proc
  <2>2. sp \in Spaces BY <1>2, <1>3, <2>1, DeallocuvmIs
  <2>3. z \in 0..(KERNBASE - 1) /\ sz' = [sz EXCEPT ![p] = z] /\ sz'[p] = z
    <3>1. sz \in [Proc -> 0..(KERNBASE - 1)] BY <1>4 DEF TypeOK
    <3>2. z \in 0..(KERNBASE - 1) BY <1>2, <1>3, <1>8, Constants
    <3>3. CASE newsz = 0 BY <1>8, <3>1, <3>2, <3>3
    <3>4. CASE newsz # 0 BY <1>8, <3>1, <3>2, <3>4
    <3> QED BY <3>3, <3>4
  <2>4. space'[d] = sp BY <1>4, <1>8, <2>1 DEF TypeOK
  <2>5. Sound(Held', freelist', lost')
    <3>1. op[p].mem = 0 /\ freelist' = freelist \cup Freed(space[d], sz[p], newsz) \cup ({op[p].mem} \ {0})
      BY <1>2, <1>8, UserIs
    <3>2. /\ \A q \in Proc : op'[q].mem = IF q = p THEN 0 ELSE op[q].mem
          /\ \A q \in Proc : op'[q].new = op[q].new
      BY <1>1, <3>1
    <3> QED BY <1>1, <1>2, <1>3, <1>8, <2>1, <3>1, <3>2, DeallocSound
  <2>6. ImageMapped(p)'
    <3>1. SUFFICES ASSUME CanCall(p)', d \notin shared PROVE Mapped(sp, z)
      BY <1>1, <2>3, <2>4 DEF ImageMapped, Mapped
    <3>2. Mapped(space[d], sz[p]) BY <1>2, <2>1, <3>1 DEF Own
    <3>3. Mapped(sp, newsz) BY <1>2, <1>3, <1>8, <2>1, <3>2, DeallocMapped
    <3>4. newsz # 0
      <4>1. sp.pte[0] # 0 BY <1>1, <2>4, <3>1 DEF CanCall
      <4>2. 0 * PGSIZE < newsz BY <3>3, <4>1, PagesAre DEF Mapped
      <4> QED BY <1>3, <4>2, Constants
    <3> QED BY <3>3, <3>4
  <2> HIDE DEF sp, z
  <2> QED BY <1>1, <1>2, <1>5, <1>6, <1>8, <2>1, <2>2, <2>3, <2>5, <2>6, UserIs, OneSpace DEF d
<1> QED BY <1>1, <1>7, <1>8

LEMMA SbrkDoneKeeps ==
    ASSUME Inv, panicked = 0, NEW p \in Proc, SbrkDone(p)
    PROVE  Inv'
<1> DEFINE w == op[p]
           d == pgdir[p]
           sp == space[d]
<1>1. /\ w.call = "sbrk" /\ w.at = "page" /\ w.a >= w.lim
      /\ sz' = [sz EXCEPT ![p] = w.lim] /\ op' = [op EXCEPT ![p] = User]
      /\ UNCHANGED <<freelist, space, st, pgdir, kstack, shared, isthread, dangling, lost, calls, panicked>>
  BY DEF SbrkDone, Looped, Goto
<1>2. TypeOK /\ SpaceKept(p) /\ CallKept(p) /\ LoopKept(p) /\ Sound(Held, freelist, lost) BY InvIs
<1>3. st[p] = "run" /\ w.new = NoSpace /\ w.mem = 0 BY <1>1, <1>2 DEF CallKept
<1>4. d # 0 /\ d \in Proc /\ sp \in Spaces BY <1>2, <1>3 DEF SpaceKept, TypeOK
<1>5. w.lim \in Nat /\ w.lim \in 0..(KERNBASE - 1) /\ w.a \in Nat BY <1>2, Constants DEF TypeOK, Ops
<1>6. /\ op'[p] = User /\ op' \in [Proc -> Ops] /\ sz'[p] = w.lim
      /\ \A q \in Proc \ {p} : op'[q] = op[q]
  BY <1>1, <1>2, UserIs DEF TypeOK
<1>7. Held' = Held
  <2>1. \A q \in Proc : op'[q].mem = op[q].mem /\ op'[q].new = op[q].new BY <1>3, <1>6, UserIs
  <2> QED BY <1>1, <1>2, <1>6, <2>1, SameHeld
<1>8. Sound(Held', freelist', lost') BY <1>1, <1>2, <1>7
<1>9. CallKept(p)' /\ LoopKept(p)' BY <1>6, UserKept
<1>10. ImageMapped(p)'
  <2>1. SUFFICES ASSUME d \notin shared PROVE Mapped(sp, w.lim)
    BY <1>1, <1>6 DEF ImageMapped, Mapped
  <2>2. Mapped(sp, w.a) /\ Aligned(w.a) /\ w.a < w.lim + PGSIZE BY <1>1, <1>2, <1>4, <2>1 DEF LoopKept, Own
  <2>3. \A g \in Page : g * PGSIZE < w.a <=> g * PGSIZE < w.lim BY <1>1, <1>5, <2>2, Below
  <2> QED BY <2>2, <2>3 DEF Mapped
<1>11. calls' \in Nat /\ panicked' = 0 /\ space' = [space EXCEPT ![d] = sp] BY <1>1, <1>2 DEF TypeOK
<1> HIDE DEF sp
<1> QED BY <1>1, <1>4, <1>5, <1>8, <1>9, <1>10, <1>11, UserIs, OneSpace DEF d

-----------------------------------------------------------------------------
(* Processes that come and go. *)

LEMMA AloneIs ==
    ASSUME Inv, NEW r \in Proc, pgdir[r] # 0
    PROVE  Alone(r) <=> \A q \in Proc \ {r} : pgdir[q] # pgdir[r]
<1>1. \A q \in Proc : SpaceKept(q) BY InvIs
<1>2. \A q \in Proc : st[q] = "unused" => pgdir[q] = 0 BY <1>1 DEF SpaceKept
<1> QED BY <1>2 DEF Alone

(* A process that does not run is in no call. *)
LEMMA IdleIs ==
    ASSUME Inv, NEW q \in Proc, st[q] # "run"
    PROVE  op[q] = User
<1>1. CallKept(q) BY InvIs
<1> QED BY <1>1 DEF CallKept

LEMMA NotRunKept ==
    ASSUME NEW q \in Proc, op'[q] = User, st'[q] # "run"
    PROVE  CallKept(q)' /\ LoopKept(q)' /\ ImageMapped(q)'
<1>1. ImageMapped(q)' BY DEF ImageMapped, CanCall
<1> QED BY <1>1, UserKept

LEMMA HeldStack ==
    ASSUME TypeOK, NEW p \in Proc, space' = space, NEW k \in Entry,
           \A q \in Proc : op'[q].new = op[q].new /\ op'[q].mem = op[q].mem,
           \A q \in Proc : kstack'[q] = IF q = p THEN k ELSE kstack[q]
    PROVE  Held' = [Held EXCEPT ![StackOf(p)] = k]
<1> DEFINE V == [Held EXCEPT ![StackOf(p)] = k]
<1>1. Held \in [Place -> Entry] BY HeldType
<1>2. V \in [Place -> Entry] /\ \A x \in Place : V[x] = IF x = StackOf(p) THEN k ELSE Held[x] BY <1>1, PlacesAre
<1> HIDE DEF V
<1>3. ASSUME NEW q \in Proc PROVE V[StackOf(q)] = kstack'[q] /\ V[HandOf(q)] = op'[q].mem
  <2>1. /\ StackOf(q) \in Place /\ HandOf(q) \in Place /\ HandOf(q) # StackOf(p)
        /\ StackOf(q) = StackOf(p) <=> q = p
    BY PlacesAre, PlacesDiffer
  <2> QED BY <1>2, <2>1, HeldIs
<1>4. ASSUME NEW q \in Proc, NEW r \in Slot
      PROVE  V[SpaceOf(q, r)] = Cell(space'[q], r) /\ V[NewOf(q, r)] = Cell(op'[q].new, r)
  <2>1. /\ SpaceOf(q, r) \in Place /\ NewOf(q, r) \in Place
        /\ SpaceOf(q, r) # StackOf(p) /\ NewOf(q, r) # StackOf(p)
    BY PlacesAre, PlacesDiffer
  <2> QED BY <1>2, <2>1, HeldIs
<1>5. Held' = V BY <1>2, <1>3, <1>4, HeldBecomes
<1> QED BY <1>5 DEF V

LEMMA ForkKeeps ==
    ASSUME Inv, panicked = 0, NEW p \in Proc, NEW q \in Proc, Fork(p, q)
    PROVE  Inv'
<1> DEFINE k == Kalloc
           o == [User EXCEPT !.call = "fork", !.at = "dir", !.lim = sz[p], !.kid = q]
<1>1. /\ Begin(p) /\ st[q] = "unused" /\ freelist # {} /\ op' = [op EXCEPT ![p] = o]
      /\ kstack' = [kstack EXCEPT ![q] = k] /\ st' = [st EXCEPT ![q] = "embryo"]
      /\ freelist' = freelist \ {k}
      /\ UNCHANGED <<space, pgdir, sz, shared, isthread, dangling, lost, panicked>>
  BY DEF Fork, Goto
<1>2. /\ op[p] = User /\ st[p] = "run" /\ pgdir[p] \in Proc /\ sz[p] \in Nat /\ sz[p] < KERNBASE /\ calls' \in Nat
      /\ Own(p) => Mapped(space[pgdir[p]], sz[p])
  BY <1>1, BeginIs
<1>3. TypeOK /\ KidsDiffer /\ \A r \in Proc : SpaceKept(r) /\ CallKept(r) /\ LoopKept(r) /\ ImageMapped(r) BY InvIs
<1>4. k \in freelist /\ k \in Frame /\ k # 0 /\ k \in Entry BY <1>1, KallocType
<1>5. p # q /\ pgdir[q] = 0 /\ kstack[q] = 0 /\ op[q] = User BY <1>1, <1>2, <1>3, IdleIs DEF SpaceKept
<1>6. /\ o.call = "fork" /\ o.at = "dir" /\ o.a = 0 /\ o.lim = sz[p] /\ o.mem = 0 /\ o.new = NoSpace
      /\ o.kid = q /\ o.segs = <<>>
  BY DEF User
<1>7. o \in Ops
  <2>1. sz[p] \in 0..(KERNBASE - 1) BY <1>2, Constants
  <2> QED BY <2>1, UserIs DEF Ops
<1> HIDE DEF o, k
<1>8. /\ op'[p] = o /\ op' \in [Proc -> Ops] /\ \A r \in Proc \ {p} : op'[r] = op[r]
      /\ st'[q] = "embryo" /\ kstack'[q] = k
      /\ \A r \in Proc \ {q} : st'[r] = st[r] /\ kstack'[r] = kstack[r]
  BY <1>1, <1>3, <1>7 DEF TypeOK
<1>9. Sound(Held', freelist', lost')
  <2>1. /\ \A r \in Proc : op'[r].new = op[r].new /\ op'[r].mem = op[r].mem
        /\ \A r \in Proc : kstack'[r] = IF r = q THEN k ELSE kstack[r]
    BY <1>2, <1>6, <1>8, UserIs
  <2>2. Held' = [Held EXCEPT ![StackOf(q)] = k] BY <1>1, <1>3, <1>4, <2>1, HeldStack
  <2>3. StackOf(q) \in Place /\ Held[StackOf(q)] = 0 BY <1>5, HeldIs, PlacesAre
  <2> QED BY <1>1, <2>2, <2>3, AllocHeld DEF k
<1>10. TypeOK'
  <2>1. kstack' \in [Proc -> Frame \cup {0}] /\ st' \in [Proc -> {"unused", "embryo", "run", "zombie"}]
    BY <1>1, <1>3, <1>4 DEF TypeOK
  <2> QED BY <1>1, <1>2, <1>3, <1>8, <2>1 DEF TypeOK
<1>11. \A r \in Proc : op[r].call = "fork" => op[r].kid \in Proc /\ op[r].kid # q BY <1>1, <1>3 DEF CallKept
<1>12. KidsDiffer' BY <1>3, <1>6, <1>8, <1>11 DEF KidsDiffer
<1>13. ASSUME NEW r \in Proc, pgdir[r] # 0, Alone(r) PROVE Alone(r)'
  <2>1. \A x \in Proc \ {r} : pgdir[x] # pgdir[r] BY <1>13, AloneIs
  <2> QED BY <1>1, <2>1 DEF Alone
<1>14. ASSUME NEW r \in Proc PROVE SpaceKept(r)'
  <2>1. SpaceKept(r) BY <1>3
  <2>2. (Own(r)' <=> Own(r)) /\ (Unclaimed(r)' <=> Unclaimed(r)) BY <1>1 DEF Own, Unclaimed
  <2>3. CASE r = q BY <1>1, <1>4, <1>5, <1>8, <2>1, <2>2, <2>3 DEF SpaceKept, Own
  <2>4. CASE r # q
    <3>1. Own(r) => pgdir[r] # 0 BY DEF Own
    <3> QED BY <1>1, <1>8, <1>13, <2>1, <2>2, <2>4, <3>1 DEF SpaceKept
  <2> QED BY <2>3, <2>4
<1>15. ASSUME NEW r \in Proc PROVE CallKept(r)' /\ LoopKept(r)' /\ ImageMapped(r)'
  <2>1. CASE r = p
    <3> o.segs # <<-1>> BY <1>6
    <3>1. CallKept(p)' BY <1>1, <1>2, <1>5, <1>6, <1>8, NoSpaceIs DEF CallKept
    <3>2. Own(p)' => Own(p) BY <1>1 DEF Own
    <3>3. Aligned(o.a) /\ o.a < o.lim + PGSIZE /\ Mapped(o.new, o.a)
      BY <1>2, <1>6, AlignedZero, MappedNone, Constants
    <3>4. SameUser(o.new, space[pgdir[p]], o.a)
      <4>1. \A g \in Page : ~(g * PGSIZE < 0) BY PagesAre, Constants
      <4> QED BY <1>6, <4>1 DEF SameUser
    <3>5. LoopKept(p)' BY <1>1, <1>2, <1>6, <1>8, <3>2, <3>3, <3>4 DEF LoopKept, Mapped, SameUser, Aligned
    <3>6. ImageMapped(p)' BY <1>6, <1>8, InCallKept
    <3> QED BY <2>1, <3>1, <3>5, <3>6
  <2>2. CASE r = q BY <1>5, <1>8, <2>2, NotRunKept
  <2>3. CASE r # p /\ r # q
    <3>1. SpaceKept(r) /\ CallKept(r) /\ LoopKept(r) /\ ImageMapped(r) BY <1>3
    <3>2. op[r].call = "fork" => st'[op[r].kid] = st[op[r].kid] BY <1>8, <1>11
    <3> QED BY <1>1, <1>8, <2>3, <3>1, <3>2, OtherKept
  <2> QED BY <2>1, <2>2, <2>3
<1>16. dangling' = {} BY <1>1, InvIs
<1> QED BY <1>1, <1>9, <1>10, <1>12, <1>14, <1>15, <1>16, InvNext

LEMMA CloneKeeps ==
    ASSUME Inv, panicked = 0, NEW p \in Proc, NEW q \in Proc, Clone(p, q)
    PROVE  Inv'
<1> DEFINE k == Kalloc
           d == pgdir[p]
<1>1. /\ Begin(p) /\ st[q] = "unused" /\ freelist # {}
      /\ kstack' = [kstack EXCEPT ![q] = k] /\ st' = [st EXCEPT ![q] = "run"]
      /\ pgdir' = [pgdir EXCEPT ![q] = d] /\ sz' = [sz EXCEPT ![q] = sz[p]]
      /\ freelist' = freelist \ {k} /\ shared' = shared \cup {d} /\ isthread' = isthread \cup {q}
      /\ UNCHANGED <<space, op, dangling, lost, panicked>>
  BY DEF Clone
<1>2. op[p] = User /\ st[p] = "run" /\ d \in Proc /\ calls' \in Nat BY <1>1, BeginIs
<1>3. TypeOK /\ KidsDiffer /\ \A r \in Proc : SpaceKept(r) /\ CallKept(r) /\ LoopKept(r) /\ ImageMapped(r) BY InvIs
<1>4. k \in freelist /\ k \in Frame /\ k # 0 /\ k \in Entry BY <1>1, KallocType
<1>5. p # q /\ pgdir[q] = 0 /\ kstack[q] = 0 /\ op[q] = User BY <1>1, <1>2, <1>3, IdleIs DEF SpaceKept
<1>6. d # 0 BY <1>2 DEF Proc
<1> HIDE DEF k, d
<1>7. /\ st'[q] = "run" /\ kstack'[q] = k /\ pgdir'[q] = d
      /\ \A r \in Proc \ {q} : st'[r] = st[r] /\ kstack'[r] = kstack[r] /\ pgdir'[r] = pgdir[r] /\ sz'[r] = sz[r]
  BY <1>1, <1>3 DEF TypeOK
<1>8. Sound(Held', freelist', lost')
  <2>1. /\ \A r \in Proc : op'[r].new = op[r].new /\ op'[r].mem = op[r].mem
        /\ \A r \in Proc : kstack'[r] = IF r = q THEN k ELSE kstack[r]
    BY <1>1, <1>7
  <2>2. Held' = [Held EXCEPT ![StackOf(q)] = k] BY <1>1, <1>3, <1>4, <2>1, HeldStack
  <2>3. StackOf(q) \in Place /\ Held[StackOf(q)] = 0 BY <1>5, HeldIs, PlacesAre
  <2> QED BY <1>1, <2>2, <2>3, AllocHeld DEF k
<1>9. TypeOK'
  <2>1. /\ kstack' \in [Proc -> Frame \cup {0}] /\ st' \in [Proc -> {"unused", "embryo", "run", "zombie"}]
        /\ pgdir' \in [Proc -> Proc \cup {0}] /\ sz' \in [Proc -> 0..(KERNBASE - 1)] /\ shared' \subseteq Proc
    BY <1>1, <1>2, <1>3, <1>4 DEF TypeOK, d
  <2> QED BY <1>1, <1>2, <1>3, <2>1 DEF TypeOK
<1>10. KidsDiffer' BY <1>1, <1>3 DEF KidsDiffer
<1>11. ASSUME NEW r \in Proc \ {q}, pgdir[r] # 0, Alone(r), pgdir[r] # d PROVE Alone(r)'
  <2>1. \A x \in Proc \ {r} : pgdir[x] # pgdir[r] BY <1>11, AloneIs
  <2> QED BY <1>7, <1>11, <2>1 DEF Alone
<1>12. ASSUME NEW r \in Proc PROVE SpaceKept(r)'
  <2>1. SpaceKept(r) BY <1>3
  <2>4. Unclaimed(r)' => Unclaimed(r)
    <3>1. SUFFICES ASSUME Unclaimed(r)', NEW x \in Proc PROVE pgdir[x] # r BY DEF Unclaimed
    <3>2. pgdir'[x] # r BY <3>1 DEF Unclaimed
    <3>3. CASE x # q BY <1>7, <3>2, <3>3
    <3>4. CASE x = q BY <1>5, <3>4 DEF Proc
    <3> QED BY <3>3, <3>4
  <2>2. CASE r = q
    <3>1. pgdir'[q] = d /\ d \in shared' BY <1>1, <1>7
    <3>2. ~Own(q)' BY <3>1 DEF Own
    <3> QED BY <1>1, <1>4, <1>6, <1>7, <2>1, <2>2, <2>4, <3>1, <3>2 DEF SpaceKept
  <2>3. CASE r # q
    <3>1. Own(r)' => Own(r) /\ pgdir[r] # d /\ pgdir[r] # 0 BY <1>1, <1>7, <2>3 DEF Own
    <3> QED BY <1>1, <1>7, <1>11, <2>1, <2>3, <2>4, <3>1 DEF SpaceKept
  <2> QED BY <2>2, <2>3
<1>13. ASSUME NEW r \in Proc PROVE CallKept(r)' /\ LoopKept(r)' /\ ImageMapped(r)'
  <2>1. CASE r = q
    <3>1. CallKept(q)' /\ LoopKept(q)' BY <1>1, <1>5, UserKept
    <3>2. ImageMapped(q)' BY <1>1, <1>7 DEF ImageMapped
    <3> QED BY <2>1, <3>1, <3>2
  <2>2. CASE r # q
    <3>1. SpaceKept(r) /\ CallKept(r) /\ LoopKept(r) /\ ImageMapped(r) BY <1>3
    <3>2. op[r].call = "fork" => op[r].kid # q /\ op[r].kid \in Proc BY <1>1, <3>1 DEF CallKept
    <3> QED BY <1>1, <1>7, <2>2, <3>1, <3>2, OtherKept
  <2> QED BY <2>1, <2>2
<1>14. dangling' = {} BY <1>1, InvIs
<1> QED BY <1>1, <1>8, <1>9, <1>10, <1>12, <1>13, <1>14, InvNext

LEMMA ExitKeeps ==
    ASSUME Inv, panicked = 0, NEW p \in Proc, Exit(p)
    PROVE  Inv'
<1>1. /\ st[p] = "run" /\ op[p].at = "user" /\ st' = [st EXCEPT ![p] = "zombie"]
      /\ UNCHANGED <<freelist, space, pgdir, sz, kstack, op, shared, isthread, dangling, lost, calls, panicked>>
  BY DEF Exit
<1>2. /\ TypeOK /\ KidsDiffer /\ Sound(Held, freelist, lost)
      /\ \A r \in Proc : SpaceKept(r) /\ CallKept(r) /\ LoopKept(r) /\ ImageMapped(r)
  BY InvIs
<1>3. op[p] = User BY <1>1, <1>2 DEF CallKept
<1>4. st'[p] = "zombie" /\ \A r \in Proc \ {p} : st'[r] = st[r] BY <1>1, <1>2 DEF TypeOK
<1>5. TypeOK' BY <1>1, <1>2 DEF TypeOK
<1>6. Held' = Held BY <1>1, <1>2, SameHeld DEF TypeOK
<1>7. Sound(Held', freelist', lost') BY <1>1, <1>2, <1>6
<1>8. KidsDiffer' BY <1>1, <1>2 DEF KidsDiffer
<1>9. \A r \in Proc : Alone(r)' <=> Alone(r) BY <1>1, <1>4 DEF Alone
<1>10. ASSUME NEW r \in Proc PROVE SpaceKept(r)'
  <2>1. SpaceKept(r) BY <1>2
  <2>2. (Own(r)' <=> Own(r)) /\ (Unclaimed(r)' <=> Unclaimed(r)) BY <1>1 DEF Own, Unclaimed
  <2> QED BY <1>1, <1>4, <1>9, <2>1, <2>2 DEF SpaceKept
<1>11. ASSUME NEW r \in Proc PROVE CallKept(r)' /\ LoopKept(r)' /\ ImageMapped(r)'
  <2>1. CASE r = p BY <1>1, <1>3, <1>4, <2>1, NotRunKept
  <2>2. CASE r # p
    <3>1. SpaceKept(r) /\ CallKept(r) /\ LoopKept(r) /\ ImageMapped(r) BY <1>2
    <3>2. op[r].call = "fork" => op[r].kid # p /\ op[r].kid \in Proc BY <1>1, <3>1 DEF CallKept
    <3> QED BY <1>1, <1>4, <2>2, <3>1, <3>2, OtherKept
  <2> QED BY <2>1, <2>2
<1>12. dangling' = {} BY <1>1, InvIs
<1> QED BY <1>1, <1>5, <1>7, <1>8, <1>10, <1>11, <1>12, InvNext

(* wait() and join() clear a slot; the address space goes with the last     *)
(* process that has it.                                                     *)
LEMMA ClearKeeps ==
    ASSUME Inv, panicked = 0, NEW p \in Proc, Clear(p), Sound(Held', freelist', lost'),
           UNCHANGED <<op, shared, isthread, dangling, calls, panicked>>,
           IF Alone(p) THEN space' = [space EXCEPT ![pgdir[p]] = NoSpace] ELSE space' = space
    PROVE  Inv'
<1> DEFINE d == pgdir[p]
<1>1. /\ st[p] = "zombie" /\ st' = [st EXCEPT ![p] = "unused"] /\ pgdir' = [pgdir EXCEPT ![p] = 0]
      /\ sz' = [sz EXCEPT ![p] = 0] /\ kstack' = [kstack EXCEPT ![p] = 0]
  BY DEF Clear
<1>2. TypeOK /\ KidsDiffer /\ \A r \in Proc : SpaceKept(r) /\ CallKept(r) /\ LoopKept(r) /\ ImageMapped(r) BY InvIs
<1>3. op[p] = User /\ d \in Proc /\ d # 0
  <2>1. op[p] = User BY <1>1, IdleIs
  <2>2. d # 0 BY <1>1, <1>2 DEF SpaceKept
  <2> QED BY <1>2, <2>1, <2>2 DEF TypeOK
<1>4. /\ st'[p] = "unused" /\ pgdir'[p] = 0 /\ kstack'[p] = 0
      /\ \A r \in Proc \ {p} : st'[r] = st[r] /\ kstack'[r] = kstack[r] /\ pgdir'[r] = pgdir[r] /\ sz'[r] = sz[r]
  BY <1>1, <1>2 DEF TypeOK
<1>5. /\ space' \in [Proc -> Spaces] /\ \A r \in Proc \ {d} : space'[r] = space[r]
      /\ IF Alone(p) THEN space'[d] = NoSpace ELSE space' = space
  BY <1>2, <1>3, NoSpaceIs DEF TypeOK
<1>6. TypeOK'
  <2>1. /\ kstack' \in [Proc -> Frame \cup {0}] /\ st' \in [Proc -> {"unused", "embryo", "run", "zombie"}]
        /\ pgdir' \in [Proc -> Proc \cup {0}] /\ sz' \in [Proc -> 0..(KERNBASE - 1)]
    BY <1>1, <1>2, Constants DEF TypeOK
  <2>2. freelist' \subseteq Frame /\ lost' \subseteq Frame BY DEF Sound
  <2> QED BY <1>2, <1>5, <2>1, <2>2 DEF TypeOK
<1> HIDE DEF d
<1>7. KidsDiffer' BY <1>2 DEF KidsDiffer
<1>8. \A r \in Proc : Alone(r) /\ r # p => Alone(r)' BY <1>4 DEF Alone
<1>9. ASSUME NEW r \in Proc, Unclaimed(r)' PROVE space'[r] = NoSpace
  <2>1. \A x \in Proc \ {p} : pgdir[x] # r BY <1>4, <1>9 DEF Unclaimed
  <2>2. CASE r # d
    <3>1. Unclaimed(r) BY <2>1, <2>2 DEF Unclaimed, d
    <3> QED BY <1>2, <1>5, <2>2, <3>1 DEF SpaceKept
  <2>3. CASE r = d
    <3>1. Alone(p) BY <2>1, <2>3 DEF Alone, d
    <3> QED BY <1>5, <2>3, <3>1
  <2> QED BY <2>2, <2>3
<1>10. ASSUME NEW r \in Proc PROVE SpaceKept(r)'
  <2>1. SpaceKept(r) BY <1>2
  <2>2. CASE r = p BY <1>4, <1>9, <2>2 DEF SpaceKept, Own
  <2>3. CASE r # p
    <3>1. Own(r)' <=> Own(r) BY <1>4, <2>3 DEF Own
    <3> QED BY <1>4, <1>8, <1>9, <2>1, <2>3, <3>1 DEF SpaceKept
  <2> QED BY <2>2, <2>3
<1>11. ASSUME NEW r \in Proc PROVE CallKept(r)' /\ LoopKept(r)' /\ ImageMapped(r)'
  <2>1. CASE r = p BY <1>3, <1>4, <2>1, NotRunKept
  <2>2. CASE r # p
    <3>1. SpaceKept(r) /\ CallKept(r) /\ LoopKept(r) /\ ImageMapped(r) BY <1>2
    <3>2. op[r].call = "fork" => op[r].kid # p /\ op[r].kid \in Proc BY <1>1, <3>1 DEF CallKept
    <3>3. ASSUME pgdir[r] # 0 PROVE space'[pgdir[r]] = space[pgdir[r]]
      <4>1. pgdir[r] \in Proc BY <1>2, <3>3 DEF TypeOK
      <4>2. CASE Alone(p)
        <5>1. pgdir[r] # d BY <1>3, <2>2, <4>2, AloneIs DEF d
        <5> QED BY <1>5, <4>1, <5>1
      <4>3. CASE ~Alone(p) BY <1>5, <4>3
      <4> QED BY <4>2, <4>3
    <3> QED BY <1>4, <2>2, <3>1, <3>2, <3>3, OtherKept
  <2> QED BY <2>1, <2>2
<1>12. dangling' = {} /\ panicked' = 0 BY InvIs
<1> QED BY <1>6, <1>7, <1>10, <1>11, <1>12, InvNext

(* The places of a kernel stack and of an address space. *)
StackPlace(p) == {StackOf(p)}
SpacePlaces(d) == {SpaceOf(d, s) : s \in Slot}

LEMMA ZombieHolds ==
    ASSUME Inv, NEW p \in Proc, st[p] = "zombie"
    PROVE  /\ pgdir[p] \in Proc /\ kstack[p] # 0
           /\ StackPlace(p) \in SUBSET Place /\ SpacePlaces(pgdir[p]) \in SUBSET Place
           /\ {Held[y] : y \in StackPlace(p)} \ {0} = {kstack[p]}
           /\ {Held[y] : y \in SpacePlaces(pgdir[p])} \ {0} = Used(space[pgdir[p]])
<1> DEFINE d == pgdir[p]
<1>1. TypeOK /\ SpaceKept(p) BY InvIs
<1>2. d \in Proc /\ kstack[p] # 0 BY <1>1 DEF SpaceKept, TypeOK
<1> HIDE DEF d
<1>3. Held[StackOf(p)] = kstack[p] /\ \A s \in Slot : Held[SpaceOf(d, s)] = Cell(space[d], s) BY <1>2, HeldIs
<1>4. StackPlace(p) \in SUBSET Place /\ SpacePlaces(d) \in SUBSET Place BY <1>2, PlacesAre DEF StackPlace, SpacePlaces
<1>5. {Held[y] : y \in StackPlace(p)} \ {0} = {kstack[p]} BY <1>2, <1>3 DEF StackPlace
<1>6. {Held[y] : y \in SpacePlaces(d)} = {Cell(space[d], s) : s \in Slot} BY <1>3 DEF SpacePlaces
<1> QED BY <1>2, <1>4, <1>5, <1>6 DEF Used, d

(* What is where when a slot is cleared, with its space or without. *)
LEMMA HeldReaped ==
    ASSUME Inv, NEW p \in Proc, Clear(p), op' = op,
           IF Alone(p) THEN space' = [space EXCEPT ![pgdir[p]] = NoSpace] ELSE space' = space
    PROVE  LET S == IF Alone(p) THEN StackPlace(p) \cup SpacePlaces(pgdir[p]) ELSE StackPlace(p)
           IN  Held' = [y \in Place |-> IF y \in S THEN 0 ELSE Held[y]]
<1> DEFINE d == pgdir[p]
           S == IF Alone(p) THEN StackPlace(p) \cup SpacePlaces(d) ELSE StackPlace(p)
<1>1. st[p] = "zombie" /\ kstack' = [kstack EXCEPT ![p] = 0] BY DEF Clear
<1>2. TypeOK /\ d \in Proc /\ S \in SUBSET Place BY <1>1, InvIs, ZombieHolds
<1> HIDE DEF d
<1>3. /\ \A q : StackOf(q) \in S <=> q = p
      /\ \A q : HandOf(q) \notin S
      /\ \A q, r : NewOf(q, r) \notin S
      /\ \A q : \A r \in Slot : SpaceOf(q, r) \in S <=> (q = d /\ Alone(p))
  BY PlacesDiffer DEF StackPlace, SpacePlaces
<1> HIDE DEF S
<1>4. \A q \in Proc : kstack'[q] = IF StackOf(q) \in S THEN 0 ELSE kstack[q] BY <1>1, <1>2, <1>3 DEF TypeOK
<1>5. \A q \in Proc : op'[q].mem = IF HandOf(q) \in S THEN 0 ELSE op[q].mem BY <1>3
<1>6. ASSUME NEW q \in Proc, NEW r \in Slot
      PROVE  Cell(space'[q], r) = IF SpaceOf(q, r) \in S THEN 0 ELSE Cell(space[q], r)
  <2>1. CASE Alone(p) /\ q = d
    <3>1. space'[d] = NoSpace BY <1>2, <2>1 DEF TypeOK, d
    <3> QED BY <1>3, <2>1, <3>1, NoSpaceIs
  <2>2. CASE Alone(p) /\ q # d
    <3>1. space'[q] = space[q] BY <1>2, <2>2 DEF TypeOK, d
    <3> QED BY <1>3, <2>2, <3>1
  <2>3. CASE ~Alone(p) BY <1>3, <2>3
  <2> QED BY <2>1, <2>2, <2>3
<1>7. \A q \in Proc, r \in Slot : Cell(op'[q].new, r) = IF NewOf(q, r) \in S THEN 0 ELSE Cell(op[q].new, r) BY <1>3
<1>8. Held' = [y \in Place |-> IF y \in S THEN 0 ELSE Held[y]] BY <1>2, <1>4, <1>5, <1>6, <1>7, HeldCleared
<1> QED BY <1>8 DEF S, d

(* wait() of the last process that has a space. *)
LEMMA WaitKeeps ==
    ASSUME Inv, panicked = 0, NEW p \in Proc, Wait(p), Alone(p)
    PROVE  Inv'
<1> DEFINE d == pgdir[p]
           S == StackPlace(p) \cup SpacePlaces(d)
<1>1. /\ Clear(p) /\ st[p] = "zombie" /\ freelist' = freelist \cup {kstack[p]} \cup Used(space[d])
      /\ space' = [space EXCEPT ![d] = NoSpace]
      /\ UNCHANGED <<op, shared, isthread, dangling, lost, calls, panicked>>
  BY DEF Wait, Freevm, Clear
<1>2. /\ {Held[y] : y \in StackPlace(p)} \ {0} = {kstack[p]} /\ S \in SUBSET Place
      /\ {Held[y] : y \in SpacePlaces(d)} \ {0} = Used(space[d])
  BY <1>1, ZombieHolds
<1>3. {Held[y] : y \in S} = {Held[y] : y \in StackPlace(p)} \cup {Held[y] : y \in SpacePlaces(d)} OBVIOUS
<1>4. freelist' = freelist \cup ({Held[y] : y \in S} \ {0}) BY <1>1, <1>2, <1>3
<1>5. Held' = [y \in Place |-> IF y \in S THEN 0 ELSE Held[y]] BY <1>1, HeldReaped
<1> HIDE DEF S
<1>6. Sound(Held', freelist', lost') BY <1>1, <1>2, <1>4, <1>5, FreeHeld
<1> QED BY <1>1, <1>6, ClearKeeps

(* join(): the space of the last that has it is lost. *)
LEMMA JoinKeeps ==
    ASSUME Inv, panicked = 0, NEW p \in Proc, Join(p)
    PROVE  Inv'
<1> DEFINE d == pgdir[p]
           S == StackPlace(p)
           T == IF Alone(p) THEN SpacePlaces(d) ELSE {}
           V == [y \in Place |-> IF y \in S THEN 0 ELSE Held[y]]
           W == [y \in Place |-> IF y \in T THEN 0 ELSE V[y]]
<1>1. /\ Clear(p) /\ st[p] = "zombie" /\ freelist' = freelist \cup {kstack[p]}
      /\ IF Alone(p) THEN space' = [space EXCEPT ![d] = NoSpace] ELSE space' = space
      /\ lost' = IF Alone(p) THEN lost \cup Used(space[d]) ELSE lost
      /\ UNCHANGED <<op, shared, isthread, dangling, calls, panicked>>
  BY DEF Join, Clear
<1>2. /\ {Held[y] : y \in S} \ {0} = {kstack[p]} /\ S \in SUBSET Place /\ T \in SUBSET Place
      /\ {Held[y] : y \in SpacePlaces(d)} \ {0} = Used(space[d])
  BY <1>1, ZombieHolds
<1>3. Sound(V, freelist', lost) BY <1>1, <1>2, InvIs, FreeSound
<1>4. Sound(W, freelist', lost \cup ({V[y] : y \in T} \ {0}))
  <2> HIDE DEF V, T
  <2> QED BY <1>2, <1>3, LoseAllSound
<1>5. \A y \in T : y \in Place /\ V[y] = Held[y]
  <2>1. \A y \in T : y \notin S BY PlacesDiffer DEF StackPlace, SpacePlaces
  <2> QED BY <1>2, <2>1
<1>6. lost' = lost \cup ({V[y] : y \in T} \ {0})
  <2>1. {V[y] : y \in T} = {Held[y] : y \in T} BY <1>5
  <2>2. CASE Alone(p) BY <1>1, <1>2, <2>1, <2>2
  <2>3. CASE ~Alone(p) BY <1>1, <2>3
  <2> QED BY <2>2, <2>3
<1>7. Held' = W
  <2> DEFINE U == IF Alone(p) THEN StackPlace(p) \cup SpacePlaces(d) ELSE StackPlace(p)
  <2>1. Held' = [y \in Place |-> IF y \in U THEN 0 ELSE Held[y]] BY <1>1, HeldReaped
  <2>2. \A y : y \in U <=> y \in S \/ y \in T OBVIOUS
  <2> HIDE DEF U, S, T
  <2> QED BY <2>1, <2>2
<1> HIDE DEF W, V, T
<1>8. Sound(Held', freelist', lost') BY <1>4, <1>6, <1>7
<1> QED BY <1>1, <1>8, ClearKeeps

-----------------------------------------------------------------------------
(* fork() and its child. *)

(* Some places give back what they hold, and one forgets it. *)
LEMMA FreeLoseHeld ==
    ASSUME Inv, NEW S \in SUBSET Place, NEW x \in Place, x \notin S,
           \A y \in Place : Held'[y] = IF y \in S \/ y = x THEN 0 ELSE Held[y],
           freelist' = freelist \cup ({Held[y] : y \in S} \ {0}), lost' = lost \cup ({Held[x]} \ {0})
    PROVE  Sound(Held', freelist', lost')
<1> DEFINE V == [y \in Place |-> IF y \in S THEN 0 ELSE Held[y]]
           W == [V EXCEPT ![x] = 0]
<1>1. Sound(V, freelist', lost) BY InvIs, FreeSound
<1>2. V[x] = Held[x] /\ \A y \in Place : W[y] = IF y \in S \/ y = x THEN 0 ELSE Held[y] OBVIOUS
<1>3. W = [y \in Place |-> W[y]] OBVIOUS
<1>4. Held' = [y \in Place |-> Held'[y]] BY DEF Held
<1> HIDE DEF V
<1>5. Sound(W, freelist', lost \cup ({V[x]} \ {0})) BY <1>1, LoseSound
<1> HIDE DEF W
<1>6. Held' = W BY <1>2, <1>3, <1>4
<1> QED BY <1>2, <1>5, <1>6

(* The child of a fork() in progress, which nobody else knows. *)
LEMMA ForkIs ==
    ASSUME Inv, NEW p \in Proc, op[p].call = "fork"
    PROVE  LET c == op[p].kid
           IN  /\ c \in Proc /\ c # p /\ st[c] = "embryo" /\ kstack[c] # 0 /\ pgdir[c] = 0 /\ op[c] = User
               /\ st[p] = "run" /\ pgdir[p] \in Proc /\ op[p].at # "user"
               /\ \A r \in Proc \ {p} : op[r].call = "fork" => op[r].kid \in Proc /\ op[r].kid # c
               /\ op[p].lim = sz[p]
<1> DEFINE c == op[p].kid
<1>1. TypeOK /\ KidsDiffer /\ \A r \in Proc : SpaceKept(r) /\ CallKept(r) BY InvIs
<1>2. c \in Proc /\ st[c] = "embryo" /\ op[p].lim = sz[p] BY <1>1 DEF CallKept
<1>3. op[p].at # "user" /\ st[p] = "run" BY <1>1, UserIs DEF CallKept
<1> HIDE DEF c
<1>4. c # p /\ kstack[c] # 0 /\ pgdir[c] = 0 BY <1>1, <1>2, <1>3 DEF SpaceKept
<1>5. op[c] = User BY <1>2, IdleIs
<1>8. pgdir[p] \in Proc BY <1>1, <1>3 DEF SpaceKept, TypeOK
<1>10. \A r \in Proc \ {p} : op[r].call = "fork" => op[r].kid \in Proc /\ op[r].kid # c BY <1>1 DEF CallKept, KidsDiffer, c
<1> QED BY <1>2, <1>3, <1>4, <1>5, <1>8, <1>10 DEF c

(* copyuvm() failed: the new space and the stack are freed, and the page in *)
(* hand is lost.                                                            *)
LEMMA ForkFailsKeeps ==
    ASSUME Inv, panicked = 0, NEW p \in Proc, op[p].call = "fork", ForkFails(p), Goto(p, User),
           UNCHANGED <<shared, isthread, dangling, calls, panicked>>
    PROVE  Inv'
<1> DEFINE w == op[p]
           c == op[p].kid
           S == {NewOf(p, s) : s \in Slot} \cup {StackOf(c)}
<1>1. /\ freelist' = freelist \cup Used(w.new) \cup {kstack[c]} /\ lost' = lost \cup ({w.mem} \ {0})
      /\ kstack' = [kstack EXCEPT ![c] = 0] /\ st' = [st EXCEPT ![c] = "unused"] /\ op' = [op EXCEPT ![p] = User]
      /\ UNCHANGED <<space, pgdir, sz, shared, isthread, dangling, calls, panicked>>
  BY DEF ForkFails, Freevm, Goto
<1>2. TypeOK /\ KidsDiffer /\ \A r \in Proc : SpaceKept(r) /\ CallKept(r) /\ LoopKept(r) /\ ImageMapped(r) BY InvIs
<1>3. /\ c \in Proc /\ c # p /\ st[c] = "embryo" /\ kstack[c] # 0 /\ pgdir[c] = 0 /\ op[c] = User
      /\ st[p] = "run"
      /\ \A r \in Proc \ {p} : op[r].call = "fork" => op[r].kid \in Proc /\ op[r].kid # c
  BY ForkIs
<1> HIDE DEF c
<1>4. /\ op'[p] = User /\ st'[c] = "unused" /\ kstack'[c] = 0
      /\ \A r \in Proc \ {p} : op'[r] = op[r]
      /\ \A r \in Proc \ {c} : st'[r] = st[r] /\ kstack'[r] = kstack[r]
  BY <1>1, <1>2, <1>3 DEF TypeOK
<1>5. Sound(Held', freelist', lost')
  <2>1. /\ \A q : StackOf(q) \in S <=> q = c
        /\ \A q : HandOf(q) \notin S
        /\ \A q, r : SpaceOf(q, r) \notin S
        /\ \A q : \A r \in Slot : NewOf(q, r) \in S <=> q = p
    BY PlacesDiffer
  <2>2. S \in SUBSET Place BY <1>3, PlacesAre
  <2>3. {Held[y] : y \in S} \ {0} = Used(w.new) \cup {kstack[c]}
    <3>1. Held[StackOf(c)] = kstack[c] /\ \A s \in Slot : Held[NewOf(p, s)] = Cell(w.new, s) BY <1>3, HeldIs
    <3>2. {Held[y] : y \in S} = {Held[NewOf(p, s)] : s \in Slot} \cup {Held[StackOf(c)]} OBVIOUS
    <3>3. {Held[NewOf(p, s)] : s \in Slot} = {Cell(w.new, s) : s \in Slot} BY <3>1
    <3> QED BY <1>3, <3>1, <3>2, <3>3 DEF Used
  <2> HIDE DEF S
  <2>4. ASSUME NEW y \in Place PROVE Held'[y] = IF y \in S \/ y = HandOf(p) THEN 0 ELSE Held[y]
    <3>1. PICK q \in Proc : \/ y = StackOf(q) \/ y = HandOf(q)
                            \/ \E s \in Slot : y = SpaceOf(q, s) \/ y = NewOf(q, s)
      BY PlacesAre
    <3>2. CASE y = StackOf(q)
      <4>1. y \in S <=> q = c BY <2>1, <3>2
      <4>2. y # HandOf(p) BY <3>2, PlacesDiffer
      <4> QED BY <1>4, <3>2, <4>1, <4>2, HeldIs, HeldNext
    <3>3. CASE y = HandOf(q)
      <4>1. y \notin S BY <2>1, <3>3
      <4>2. y = HandOf(p) <=> q = p BY <3>3, PlacesDiffer
      <4> QED BY <1>4, <3>3, <4>1, <4>2, HeldIs, HeldNext, UserIs
    <3>4. CASE \E s \in Slot : y = SpaceOf(q, s)
      <4>1. PICK s \in Slot : y = SpaceOf(q, s) BY <3>4
      <4>2. y \notin S /\ y # HandOf(p) BY <2>1, <4>1, PlacesDiffer
      <4> QED BY <1>1, <4>1, <4>2, HeldIs, HeldNext
    <3>5. CASE \E s \in Slot : y = NewOf(q, s)
      <4>1. PICK s \in Slot : y = NewOf(q, s) BY <3>5
      <4>2. y # HandOf(p) /\ (y \in S <=> q = p) BY <2>1, <4>1, PlacesDiffer
      <4> QED BY <1>4, <4>1, <4>2, HeldIs, HeldNext, UserIs, NoSpaceIs
    <3> QED BY <3>1, <3>2, <3>3, <3>4, <3>5
  <2>5. freelist' = freelist \cup ({Held[y] : y \in S} \ {0}) BY <1>1, <2>3
  <2>6. HandOf(p) \in Place /\ HandOf(p) \notin S /\ Held[HandOf(p)] = w.mem BY <2>1, PlacesAre, HeldIs
  <2>7. lost' = lost \cup ({Held[HandOf(p)]} \ {0}) BY <1>1, <2>6
  <2> QED BY <2>2, <2>4, <2>5, <2>6, <2>7, FreeLoseHeld
<1>6. TypeOK'
  <2>1. /\ kstack' \in [Proc -> Frame \cup {0}] /\ st' \in [Proc -> {"unused", "embryo", "run", "zombie"}]
        /\ op' \in [Proc -> Ops]
    BY <1>1, <1>2, UserIs DEF TypeOK
  <2> QED BY <1>1, <1>2, <1>5, <2>1 DEF TypeOK, Sound
<1>7. KidsDiffer' BY <1>2, <1>4, UserIs DEF KidsDiffer
<1>8. \A r \in Proc : Alone(r) => Alone(r)' BY <1>1, <1>4 DEF Alone
<1>9. ASSUME NEW r \in Proc PROVE SpaceKept(r)'
  <2>1. SpaceKept(r) BY <1>2
  <2>2. (Own(r)' <=> Own(r)) /\ (Unclaimed(r)' <=> Unclaimed(r)) BY <1>1 DEF Own, Unclaimed
  <2>3. CASE r = c BY <1>1, <1>3, <1>4, <2>1, <2>2, <2>3 DEF SpaceKept, Own
  <2>4. CASE r # c BY <1>1, <1>4, <1>8, <2>1, <2>2, <2>4 DEF SpaceKept
  <2> QED BY <2>3, <2>4
<1>10. ASSUME NEW r \in Proc PROVE CallKept(r)' /\ LoopKept(r)' /\ ImageMapped(r)'
  <2>1. CASE r = p
    <3>1. Own(p) => Mapped(space[pgdir[p]], sz[p]) BY <1>2 DEF LoopKept
    <3>2. ImageMapped(p)'
      <4>1. SUFFICES ASSUME pgdir[p] \notin shared PROVE Mapped(space[pgdir[p]], sz[p])
        BY <1>1 DEF ImageMapped, Mapped
      <4>2. pgdir[p] # 0 BY <1>2, <1>3 DEF SpaceKept
      <4> QED BY <3>1, <4>1, <4>2 DEF Own
    <3> QED BY <1>4, <2>1, <3>2, UserKept
  <2>2. CASE r = c BY <1>3, <1>4, <2>2, NotRunKept
  <2>3. CASE r # p /\ r # c
    <3>1. SpaceKept(r) /\ CallKept(r) /\ LoopKept(r) /\ ImageMapped(r) BY <1>2
    <3>2. op[r].call = "fork" => st'[op[r].kid] = st[op[r].kid] BY <1>3, <1>4, <2>3
    <3> QED BY <1>1, <1>4, <2>3, <3>1, <3>2, OtherKept
  <2> QED BY <2>1, <2>2, <2>3
<1>11. dangling' = {} BY <1>1, InvIs
<1> QED BY <1>1, <1>6, <1>5, <1>7, <1>9, <1>10, <1>11, InvNext

(* Any call that runs out of pages. *)
LEMMA FailKeeps ==
    ASSUME Inv, panicked = 0, NEW p \in Proc, Fail(p), op[p].at # "user",
           op[p].call = "sbrk" => op[p].a < op[p].lim
    PROVE  Inv'
<1>1. op[p].call \in {"sbrk", "fork", "exec"}
  <2>1. CallKept(p) /\ op[p] \in Ops BY InvIs DEF TypeOK
  <2> QED BY <2>1 DEF CallKept, Ops
<1>2. Goto(p, User) /\ UNCHANGED <<shared, isthread, dangling, calls, panicked>> BY DEF Fail
<1>3. CASE op[p].call = "sbrk" BY <1>2, <1>3, SbrkFailsKeeps DEF Fail
<1>4. CASE op[p].call = "fork" BY <1>2, <1>4, ForkFailsKeeps DEF Fail
<1>5. CASE op[p].call = "exec" BY <1>2, <1>5, ExecFailsKeeps DEF Fail
<1> QED BY <1>1, <1>3, <1>4, <1>5

LEMMA HeldAlways == TypeOK => Held \in [Place -> Entry]
BY HeldType

LEMMA HeldTypeNext == ASSUME TypeOK' PROVE Held' \in [Place -> Entry]
<1>1. TypeOK' => (Held \in [Place -> Entry])' BY HeldAlways, PTL
<1> QED BY <1>1

(* An address space that was being made becomes that of d. *)
LEMMA MoveSound ==
    ASSUME NEW V, NEW F, NEW L, Sound(V, F, L), NEW W, W \in [Place -> Entry], NEW p \in Proc, NEW d \in Proc,
           \A q \in Proc : W[StackOf(q)] = V[StackOf(q)] /\ W[HandOf(q)] = V[HandOf(q)],
           \A q \in Proc, s \in Slot : W[SpaceOf(q, s)] = IF q = d THEN V[NewOf(p, s)] ELSE V[SpaceOf(q, s)],
           \A q \in Proc, s \in Slot : W[NewOf(q, s)] = IF q = p THEN V[SpaceOf(d, s)] ELSE V[NewOf(q, s)]
    PROVE  Sound(W, F, L)
<1> DEFINE mu == [x \in Place |-> IF x[1] = "new" /\ x[2] = p THEN SpaceOf(d, x[3])
                                  ELSE IF x[1] = "space" /\ x[2] = d THEN NewOf(p, x[3]) ELSE x]
<1>1. \A q \in Proc : mu[StackOf(q)] = StackOf(q) /\ mu[HandOf(q)] = HandOf(q) BY PlacesAre DEF StackOf, HandOf
<1>2. ASSUME NEW q \in Proc, NEW s \in Slot
      PROVE  /\ mu[SpaceOf(q, s)] = (IF q = d THEN NewOf(p, s) ELSE SpaceOf(q, s))
             /\ mu[NewOf(q, s)] = (IF q = p THEN SpaceOf(d, s) ELSE NewOf(q, s))
  <2>1. SpaceOf(q, s) \in Place /\ NewOf(q, s) \in Place BY PlacesAre
  <2> QED BY <2>1 DEF SpaceOf, NewOf
<1>3. mu = [x \in Place |-> mu[x]] OBVIOUS
<1> HIDE DEF mu
<1>4. ASSUME NEW x \in Place PROVE mu[x] \in Place /\ mu[mu[x]] = x /\ W[x] = V[mu[x]]
  <2>1. PICK q \in Proc : \/ x = StackOf(q) \/ x = HandOf(q)
                          \/ \E s \in Slot : x = SpaceOf(q, s) \/ x = NewOf(q, s)
    BY PlacesAre
  <2>2. CASE x = StackOf(q) \/ x = HandOf(q) BY <1>1, <2>2
  <2>3. CASE \E s \in Slot : x = SpaceOf(q, s)
    <3>1. PICK s \in Slot : x = SpaceOf(q, s) BY <2>3
    <3>2. mu[NewOf(p, s)] = SpaceOf(d, s) /\ mu[x] = (IF q = d THEN NewOf(p, s) ELSE x) BY <1>2, <3>1
    <3>3. W[x] = IF q = d THEN V[NewOf(p, s)] ELSE V[x] BY <3>1
    <3>4. CASE q = d BY <3>1, <3>2, <3>3, <3>4, PlacesAre
    <3>5. CASE q # d BY <3>2, <3>3, <3>5
    <3> QED BY <3>4, <3>5
  <2>4. CASE \E s \in Slot : x = NewOf(q, s)
    <3>1. PICK s \in Slot : x = NewOf(q, s) BY <2>4
    <3>2. mu[SpaceOf(d, s)] = NewOf(p, s) /\ mu[x] = (IF q = p THEN SpaceOf(d, s) ELSE x) BY <1>2, <3>1
    <3>3. W[x] = IF q = p THEN V[SpaceOf(d, s)] ELSE V[x] BY <3>1
    <3>4. CASE q = p BY <3>1, <3>2, <3>3, <3>4, PlacesAre
    <3>5. CASE q # p BY <3>2, <3>3, <3>5
    <3> QED BY <3>4, <3>5
  <2> QED BY <2>1, <2>2, <2>3, <2>4
<1>5. mu \in [Place -> Place] BY <1>3, <1>4
<1>6. Sound([y \in Place |-> V[mu[y]]], F, L) BY <1>4, <1>5, SwapSound
<1>7. W = [y \in Place |-> V[mu[y]]] BY <1>4
<1> QED BY <1>6, <1>7

(* The child takes over the copy. *)
LEMMA ForkDoneKeeps ==
    ASSUME Inv, panicked = 0, NEW p \in Proc, ForkDone(p)
    PROVE  Inv'
<1>0. PICK c \in Proc : c = op[p].kid
  <2>1. op[p].call = "fork" BY DEF ForkDone, Looped
  <2> QED BY <2>1, ForkIs
<1> DEFINE w == op[p]
           sp == op[p].new
<1>d. PICK d \in Proc : /\ Unclaimed(d) /\ space' = [space EXCEPT ![d] = sp]
                        /\ pgdir' = [pgdir EXCEPT ![c] = d] /\ shared' = shared \ {d}
  BY <1>0 DEF ForkDone, Fresh
<1>1. /\ w.call = "fork" /\ w.at = "page" /\ w.a >= w.lim
      /\ sz' = [sz EXCEPT ![c] = sz[p]] /\ st' = [st EXCEPT ![c] = "run"] /\ op' = [op EXCEPT ![p] = User]
      /\ UNCHANGED <<freelist, kstack, isthread, dangling, lost, calls, panicked>>
  BY <1>0 DEF ForkDone, Looped, Goto
<1>2. /\ TypeOK /\ KidsDiffer /\ Sound(Held, freelist, lost)
      /\ \A r \in Proc : SpaceKept(r) /\ CallKept(r) /\ LoopKept(r) /\ ImageMapped(r)
  BY InvIs
<1>3. /\ c \in Proc /\ c # p /\ st[c] = "embryo" /\ kstack[c] # 0 /\ pgdir[c] = 0 /\ op[c] = User
      /\ st[p] = "run" /\ pgdir[p] \in Proc
      /\ \A r \in Proc \ {p} : op[r].call = "fork" => op[r].kid \in Proc /\ op[r].kid # c
      /\ w.lim = sz[p]
  BY <1>0, <1>1, ForkIs
<1>n. space[d] = NoSpace /\ (\A r \in Proc : pgdir[r] # d) BY <1>2, <1>d DEF SpaceKept, Unclaimed
<1>4. sp \in Spaces /\ w.a \in Nat /\ sz[p] \in Nat /\ sz[p] \in 0..(KERNBASE - 1) /\ w.mem = 0 /\ d # 0
  <2>1. w \in Ops /\ sz[p] \in 0..(KERNBASE - 1) BY <1>2 DEF TypeOK
  <2>2. w.mem = 0 BY <1>1, <1>2 DEF CallKept
  <2> QED BY <1>3, <2>1, <2>2, Constants DEF Ops, Proc
<1>5. Mapped(sp, sz[p])
  <2>1. Mapped(sp, w.a) /\ Aligned(w.a) /\ w.a < w.lim + PGSIZE BY <1>1, <1>2 DEF LoopKept
  <2>2. \A g \in Page : g * PGSIZE < w.a <=> g * PGSIZE < sz[p] BY <1>1, <1>3, <1>4, <2>1, Below
  <2> QED BY <2>1, <2>2 DEF Mapped
<1>6. Own(p) => Mapped(space[pgdir[p]], sz[p]) BY <1>1, <1>2 DEF LoopKept
<1> HIDE DEF sp
<1>7. /\ op'[p] = User /\ \A r \in Proc \ {p} : op'[r] = op[r]
      /\ st'[c] = "run" /\ pgdir'[c] = d /\ space'[d] = sp /\ sz'[c] = sz[p]
      /\ \A r \in Proc \ {c} : st'[r] = st[r] /\ pgdir'[r] = pgdir[r] /\ sz'[r] = sz[r]
      /\ \A r \in Proc \ {d} : space'[r] = space[r]
  BY <1>1, <1>2, <1>3, <1>d DEF TypeOK
<1>8. TypeOK'
  <2>1. /\ st' \in [Proc -> {"unused", "embryo", "run", "zombie"}] /\ op' \in [Proc -> Ops]
        /\ pgdir' \in [Proc -> Proc \cup {0}] /\ sz' \in [Proc -> 0..(KERNBASE - 1)]
        /\ space' \in [Proc -> Spaces]
    BY <1>1, <1>2, <1>3, <1>4, <1>d, UserIs DEF TypeOK
  <2> QED BY <1>1, <1>2, <1>d, <2>1 DEF TypeOK
<1>9. Sound(Held', freelist', lost')
  <2> DEFINE V == Held
             W == Held'
  <2>1. \A q \in Proc : W[StackOf(q)] = V[StackOf(q)] /\ W[HandOf(q)] = V[HandOf(q)]
    BY <1>1, <1>4, <1>7, HeldIs, HeldNext, UserIs
  <2>2. ASSUME NEW q \in Proc, NEW s \in Slot
        PROVE  /\ W[SpaceOf(q, s)] = IF q = d THEN V[NewOf(p, s)] ELSE V[SpaceOf(q, s)]
               /\ W[NewOf(q, s)] = IF q = p THEN V[SpaceOf(d, s)] ELSE V[NewOf(q, s)]
    <3>1. V[NewOf(p, s)] = Cell(sp, s) /\ V[SpaceOf(d, s)] = 0 BY <1>n, HeldIs, NoSpaceIs DEF sp
    <3>2. W[SpaceOf(q, s)] = IF q = d THEN V[NewOf(p, s)] ELSE V[SpaceOf(q, s)]
      BY <1>7, <3>1, HeldIs, HeldNext
    <3>3. W[NewOf(q, s)] = IF q = p THEN V[SpaceOf(d, s)] ELSE V[NewOf(q, s)]
      BY <1>7, <3>1, HeldIs, HeldNext, UserIs, NoSpaceIs
    <3> QED BY <3>2, <3>3
  <2>3. W \in [Place -> Entry] BY <1>8, HeldTypeNext
  <2>4. Sound(V, freelist, lost) BY <1>2
  <2> HIDE DEF V, W
  <2>5. Sound(W, freelist, lost) BY <1>3, <2>1, <2>2, <2>3, <2>4, MoveSound
  <2> QED BY <1>1, <2>5 DEF W
<1>10. KidsDiffer' BY <1>2, <1>7, UserIs DEF KidsDiffer
<1>11. ASSUME NEW r \in Proc, r # c, pgdir[r] # 0, Alone(r) PROVE Alone(r)'
  <2>1. \A x \in Proc \ {r} : pgdir[x] # pgdir[r] BY <1>11, AloneIs
  <2>2. pgdir[r] # d BY <1>n
  <2> QED BY <1>7, <1>11, <2>1, <2>2 DEF Alone
<1>12. Alone(c)' BY <1>n, <1>7 DEF Alone
<1>13. ASSUME NEW r \in Proc PROVE SpaceKept(r)'
  <2>1. SpaceKept(r) BY <1>2
  <2>4. Unclaimed(r)' => space'[r] = NoSpace
    <3>1. SUFFICES ASSUME Unclaimed(r)' PROVE space'[r] = NoSpace OBVIOUS
    <3>2. \A x \in Proc : pgdir'[x] # r BY <3>1 DEF Unclaimed
    <3>3. r # d BY <1>3, <1>7, <3>2
    <3>4. ASSUME NEW x \in Proc PROVE pgdir[x] # r
      <4>1. CASE x = c BY <1>3, <4>1 DEF Proc
      <4>2. CASE x # c BY <1>7, <3>2, <4>2
      <4> QED BY <4>1, <4>2
    <3>5. space[r] = NoSpace BY <2>1, <3>4 DEF SpaceKept, Unclaimed
    <3> QED BY <1>7, <3>3, <3>5
  <2>2. CASE r = c BY <1>1, <1>3, <1>4, <1>7, <1>12, <2>2, <2>4 DEF SpaceKept
  <2>3. CASE r # c
    <3>1. Own(r)' => Own(r) /\ pgdir[r] # 0 BY <1>d, <1>n, <1>7, <2>3 DEF Own
    <3> QED BY <1>1, <1>7, <1>11, <2>1, <2>3, <2>4, <3>1 DEF SpaceKept
  <2> QED BY <2>2, <2>3
<1>14. ASSUME NEW r \in Proc PROVE CallKept(r)' /\ LoopKept(r)' /\ ImageMapped(r)'
  <2>1. CASE r = p
    <3>1. ImageMapped(p)'
      <4>1. SUFFICES ASSUME pgdir'[p] \notin shared' PROVE Mapped(space'[pgdir'[p]], sz'[p])
        BY DEF ImageMapped, Mapped
      <4>2. pgdir'[p] = pgdir[p] /\ pgdir[p] # d /\ pgdir[p] # 0 /\ sz'[p] = sz[p] BY <1>3, <1>7, <1>n DEF Proc
      <4>3. Own(p) BY <1>d, <4>1, <4>2 DEF Own
      <4>4. space'[pgdir[p]] = space[pgdir[p]] BY <1>3, <1>7, <4>2
      <4> QED BY <1>6, <4>2, <4>3, <4>4
    <3> QED BY <1>7, <2>1, <3>1, UserKept
  <2>2. CASE r = c
    <3>1. op'[c] = User BY <1>3, <1>7
    <3>2. ImageMapped(c)' BY <1>5, <1>7 DEF ImageMapped, Mapped
    <3> QED BY <2>2, <3>1, <3>2, UserKept
  <2>3. CASE r # p /\ r # c
    <3>1. SpaceKept(r) /\ CallKept(r) /\ LoopKept(r) /\ ImageMapped(r) BY <1>2
    <3>2. op[r].call = "fork" => st'[op[r].kid] = st[op[r].kid] BY <1>3, <1>7, <2>3
    <3>4. pgdir[r] # 0 /\ pgdir[r] \notin shared' => pgdir[r] \notin shared /\ space'[pgdir[r]] = space[pgdir[r]]
      BY <1>d, <1>n, <1>2, <1>7 DEF TypeOK
    <3> QED BY <1>7, <2>3, <3>1, <3>2, <3>4, OtherKept
  <2> QED BY <2>1, <2>2, <2>3
<1>15. dangling' = {} BY <1>1, InvIs
<1> QED BY <1>1, <1>8, <1>9, <1>10, <1>13, <1>14, <1>15, InvNext

-----------------------------------------------------------------------------
(* mappages() *)

LEMMA SwapTwo ==
    ASSUME NEW V, NEW F, NEW L, Sound(V, F, L), NEW W, W \in [Place -> Entry], NEW x \in Place, NEW y \in Place,
           W[x] = V[y], W[y] = V[x], \A z \in Place : z # x /\ z # y => W[z] = V[z]
    PROVE  Sound(W, F, L)
<1> DEFINE mu == [z \in Place |-> IF z = x THEN y ELSE IF z = y THEN x ELSE z]
<1>1. mu \in [Place -> Place] /\ \A z \in Place : mu[mu[z]] = z /\ W[z] = V[mu[z]] OBVIOUS
<1> HIDE DEF mu
<1>2. Sound([z \in Place |-> V[mu[z]]], F, L) BY <1>1, SwapSound
<1>3. W = [z \in Place |-> V[mu[z]]] BY <1>1
<1> QED BY <1>2, <1>3

(* The page in h goes to x, and y gets one for a table. *)
LEMMA MapSound ==
    ASSUME NEW V, NEW F, NEW L, Sound(V, F, L), F # {}, NEW W, W \in [Place -> Entry],
           NEW h \in Place, NEW x \in Place, NEW y \in Place, h # x, h # y, x # y,
           V[x] = 0, V[y] = 0, W[h] = 0, W[x] = V[h], W[y] = Min(F),
           \A z \in Place : z # h /\ z # x /\ z # y => W[z] = V[z]
    PROVE  Sound(W, F \ {Min(F)}, L)
<1> DEFINE U == [V EXCEPT ![y] = Min(F)]
           G == F \ {Min(F)}
<1>1. Sound(U, G, L) BY AllocSound
<1>2. V \in [Place -> Entry] BY DEF Sound
<1>3. \A z \in Place : U[z] = IF z = y THEN Min(F) ELSE V[z] BY <1>2
<1> HIDE DEF U
<1>4. W[h] = U[x] /\ W[x] = U[h] BY <1>3
<1>5. \A z \in Place : z # h /\ z # x => W[z] = U[z] BY <1>3
<1> HIDE DEF G
<1>6. Sound(W, G, L) BY <1>1, <1>4, <1>5, SwapTwo
<1> QED BY <1>6 DEF G

(* mappages() moves the page in hand into the page table, which may get a   *)
(* new table.                                                               *)
LEMMA MapPageKeeps ==
    ASSUME Inv, panicked = 0, NEW p \in Proc, MapPage(p), Sp(p).pte[PGOF(op[p].a)] = 0,
           ~(Sp(p).pt[PGOF(op[p].a) \div NPTENTRIES] = 0 /\ freelist = {})
    PROVE  Inv'
<1> DEFINE w == op[p]
           d == pgdir[p]
           g == PGOF(w.a)
           t == g \div NPTENTRIES
           z == Sp(p)
           nt == z.pt[t] = 0
           k == IF nt THEN Kalloc ELSE z.pt[t]
           U == IF Perm(p, g) THEN z.user \cup {g} ELSE z.user \ {g}
           sp == [z EXCEPT !.pte[g] = w.mem, !.pt[t] = k, !.user = U]
           o == [w EXCEPT !.a = w.a + PGSIZE, !.mem = 0, !.at = "page"]
<1>1. /\ w.at = "map" /\ freelist' = (IF nt THEN freelist \ {Kalloc} ELSE freelist)
      /\ With(p, [z EXCEPT !.pte[g] = w.mem, !.pt[t] = IF nt THEN Kalloc ELSE @,
                           !.user = IF Perm(p, g) THEN @ \cup {g} ELSE @ \ {g}],
                 [w EXCEPT !.a = @ + PGSIZE, !.mem = 0, !.at = "page"])
      /\ UNCHANGED <<st, pgdir, sz, kstack, shared, isthread, dangling, lost, calls, panicked>>
  BY DEF MapPage, procs
<1>2. TypeOK /\ SpaceKept(p) /\ CallKept(p) /\ LoopKept(p) /\ Sound(Held, freelist, lost) BY InvIs
<1>3. /\ w \in Ops /\ w.a \in Nat /\ w.lim \in Nat /\ w.lim < KERNBASE /\ w.mem \in Entry /\ w.new \in Spaces
      /\ sz[p] \in Nat /\ sz[p] \in 0..(KERNBASE - 1)
  BY <1>2, Constants DEF TypeOK, Ops, Entry
<1>4. /\ st[p] = "run" /\ w.call \in {"sbrk", "fork", "exec"} /\ w.mem # 0
      /\ w.a < w.lim /\ Aligned(w.a)
  BY <1>1, <1>2, <1>3 DEF CallKept, LoopKept, Ops
<1>5. d \in Proc /\ d # 0 /\ space[d] \in Spaces BY <1>2, <1>4 DEF SpaceKept, TypeOK
<1>6. z \in Spaces /\ z = IF w.call = "sbrk" THEN space[d] ELSE w.new BY <1>3, <1>5 DEF Sp
<1>7. w.a < KERNBASE BY <1>3, <1>4, Constants
<1>8. /\ g \in Page /\ g * PGSIZE = w.a
      /\ \A h \in Page : h * PGSIZE < w.a + PGSIZE <=> (h * PGSIZE < w.a \/ h = g)
  BY <1>3, <1>4, <1>7, BelowNext, PagesAre
<1>9. t \in Table BY <1>8, PagesAre
<1>10. z.pte[g] = 0 /\ ~(nt /\ freelist = {}) OBVIOUS
<1>11. k \in Entry /\ (nt => freelist # {})
  <2>1. CASE nt BY <1>10, <2>1, KallocType
  <2>2. CASE ~nt BY <1>6, <1>9, <2>2 DEF Spaces, Entry
  <2> QED BY <2>1, <2>2
<1>12. U \in SUBSET Page /\ \A h \in Page : h \in U <=> IF h = g THEN Perm(p, g) ELSE h \in z.user
  BY <1>6, <1>8 DEF Spaces
<1>13. With(p, sp, o)
  <2>1. [z EXCEPT !.pte[g] = w.mem, !.pt[t] = IF nt THEN Kalloc ELSE @,
                  !.user = IF Perm(p, g) THEN @ \cup {g} ELSE @ \ {g}] = sp
    BY <1>6, <1>9 DEF Spaces
  <2>2. [w EXCEPT !.a = @ + PGSIZE, !.mem = 0, !.at = "page"] = o OBVIOUS
  <2> HIDE DEF sp, o, z, w, g, t, nt
  <2> QED BY <1>1, <2>1, <2>2
<1>14. /\ o.call = w.call /\ o.a = w.a + PGSIZE /\ o.lim = w.lim /\ o.mem = 0 /\ o.new = w.new /\ o.kid = w.kid
       /\ o.segs = w.segs /\ o.at = "page" /\ o \in Ops
  <2>1. w.a + PGSIZE \in Nat BY <1>3, Constants
  <2> QED BY <1>3, <2>1 DEF Ops
<1> HIDE DEF o, k, U
<1>15. /\ sp \in Spaces /\ sp.user = U
       /\ \A h \in Page : sp.pte[h] = IF h = g THEN w.mem ELSE z.pte[h]
       /\ \A s \in Slot : Cell(sp, s) = IF s = PteOf(g) THEN w.mem ELSE IF s = PtOf(t) THEN k ELSE Cell(z, s)
  <2> HIDE DEF z, w, g, t
  <2>1. w.mem \in Entry /\ z \in Spaces /\ g \in Page /\ t \in Table /\ k \in Entry BY <1>3, <1>6, <1>8, <1>9, <1>11
  <2>2. z.pte \in [Page -> Entry] /\ z.pt \in [Table -> Entry] BY <2>1 DEF Spaces, Entry
  <2>3. /\ sp.dir = z.dir /\ sp.kern = z.kern /\ sp.user = U
        /\ sp.pte = [z.pte EXCEPT ![g] = w.mem] /\ sp.pt = [z.pt EXCEPT ![t] = k]
    BY <2>1 DEF Spaces
  <2>4. sp \in Spaces
    <3>1. /\ [z.pte EXCEPT ![g] = w.mem] \in [Page -> Frame \cup {0}]
          /\ [z.pt EXCEPT ![t] = k] \in [Table -> Frame \cup {0}]
      BY <2>1, <2>2 DEF Entry
    <3>2. sp = [z EXCEPT !.pte = [z.pte EXCEPT ![g] = w.mem], !.pt = [z.pt EXCEPT ![t] = k], !.user = U] OBVIOUS
    <3> QED BY <1>12, <2>1, <3>1, <3>2 DEF Spaces
  <2> HIDE DEF sp
  <2>5. /\ \A h \in Page : sp.pte[h] = IF h = g THEN w.mem ELSE z.pte[h]
        /\ \A u \in Table : sp.pt[u] = IF u = t THEN k ELSE z.pt[u]
    BY <2>2, <2>3
  <2>6. ASSUME NEW s \in Slot
        PROVE  Cell(sp, s) = IF s = PteOf(g) THEN w.mem ELSE IF s = PtOf(t) THEN k ELSE Cell(z, s)
    <3>1. CASE s = DirOf \/ s = KernOf
      <4>1. s # PteOf(g) /\ s # PtOf(t) BY <3>1, SlotsAre
      <4>2. Cell(sp, s) = Cell(z, s) BY <2>3, <3>1, CellsAre
      <4> QED BY <4>1, <4>2
    <3>2. CASE \E u \in Table : s = PtOf(u)
      <4>1. PICK u \in Table : s = PtOf(u) BY <3>2
      <4>2. s # PteOf(g) /\ (s = PtOf(t) <=> u = t) BY <4>1, SlotsAre
      <4>3. Cell(sp, s) = sp.pt[u] /\ Cell(z, s) = z.pt[u] BY <4>1, CellsAre
      <4> QED BY <2>5, <4>2, <4>3
    <3>3. CASE \E h \in Page : s = PteOf(h)
      <4>1. PICK h \in Page : s = PteOf(h) BY <3>3
      <4>2. s # PtOf(t) /\ (s = PteOf(g) <=> h = g) BY <4>1, SlotsAre
      <4>3. Cell(sp, s) = sp.pte[h] /\ Cell(z, s) = z.pte[h] BY <4>1, CellsAre
      <4> QED BY <2>5, <4>2, <4>3
    <3> QED BY <3>1, <3>2, <3>3, SlotsAre
  <2> QED BY <2>3, <2>4, <2>5, <2>6
<1> HIDE DEF sp
<1>16. PteOf(g) \in Slot /\ PtOf(t) \in Slot /\ PteOf(g) # PtOf(t) BY <1>8, <1>9, SlotsAre
<1>17. Cell(z, PteOf(g)) = 0 /\ Cell(z, PtOf(t)) = z.pt[t] BY <1>10, CellsAre
<1>18. Mapped(z, w.a) => Mapped(sp, w.a + PGSIZE)
  <2>1. SUFFICES ASSUME Mapped(z, w.a), NEW h \in Page PROVE sp.pte[h] # 0 <=> h * PGSIZE < w.a + PGSIZE
    BY DEF Mapped
  <2>2. z.pte[h] # 0 <=> h * PGSIZE < w.a BY <2>1 DEF Mapped
  <2> HIDE DEF z, w, g
  <2> QED BY <1>4, <1>8, <1>15, <2>2
<1>19. Aligned(w.a + PGSIZE) /\ w.a + PGSIZE < w.lim + PGSIZE BY <1>3, <1>4, NextPage, Constants
<1>20. calls' \in Nat /\ panicked' = 0 BY <1>1, <1>2 DEF TypeOK
<1>21. Kalloc = Min(freelist) BY DEF Kalloc
<1>22. CASE w.call = "sbrk"
  <2>1. space' = [space EXCEPT ![d] = sp] /\ op' = [op EXCEPT ![p] = o] BY <1>13, <1>14, <1>22 DEF With, Goto
  <2>2. /\ space'[d] = sp /\ (\A q \in Proc \ {d} : space'[q] = space[q])
        /\ op'[p] = o /\ (\A q \in Proc \ {p} : op'[q] = op[q])
    BY <1>2, <1>5, <2>1 DEF TypeOK
  <2>3. Sound(Held', freelist', lost')
    <3> DEFINE V == Held
               W == Held'
               h == HandOf(p)
               x == SpaceOf(d, PteOf(g))
               y == SpaceOf(d, PtOf(t))
    <3>0. h \in Place /\ x \in Place /\ y \in Place BY <1>5, <1>16, PlacesAre
    <3>1. h # x /\ h # y /\ x # y BY <1>16, PlacesDiffer
    <3>2. V[h] = w.mem /\ V[x] = 0 /\ V[y] = z.pt[t] BY <1>5, <1>6, <1>16, <1>17, <1>22, HeldIs
    <3>3. W[h] = 0 /\ W[x] = w.mem /\ W[y] = k
      BY <1>5, <1>14, <1>15, <1>16, <2>2, HeldNext
    <3>4. W \in [Place -> Entry]
      <4>1. TypeOK'
        <5>1. op' \in [Proc -> Ops] /\ space' \in [Proc -> Spaces] BY <1>2, <1>5, <1>14, <1>15, <2>1 DEF TypeOK
        <5> QED BY <1>1, <1>2, <5>1 DEF TypeOK
      <4> QED BY <4>1, HeldTypeNext
    <3>5. ASSUME NEW e \in Place, e # h, e # x, e # y PROVE W[e] = V[e]
      <4>1. PICK q \in Proc : \/ e = StackOf(q) \/ e = HandOf(q)
                              \/ \E s \in Slot : e = SpaceOf(q, s) \/ e = NewOf(q, s)
        BY PlacesAre
      <4>2. CASE e = StackOf(q) BY <1>1, <4>2, HeldIs, HeldNext
      <4>3. CASE e = HandOf(q)
        <5>1. q # p BY <3>5, <4>3
        <5> QED BY <2>2, <4>3, <5>1, HeldIs, HeldNext
      <4>4. CASE \E s \in Slot : e = SpaceOf(q, s)
        <5>1. PICK s \in Slot : e = SpaceOf(q, s) BY <4>4
        <5>2. CASE q = d
          <6>1. s # PteOf(g) /\ s # PtOf(t) BY <3>5, <5>1, <5>2
          <6>2. Cell(sp, s) = Cell(space[d], s) BY <1>6, <1>15, <1>22, <6>1
          <6> QED BY <2>2, <5>1, <5>2, <6>2, HeldIs, HeldNext
        <5>3. CASE q # d BY <2>2, <5>1, <5>3, HeldIs, HeldNext
        <5> QED BY <5>2, <5>3
      <4>5. CASE \E s \in Slot : e = NewOf(q, s)
        <5>1. PICK s \in Slot : e = NewOf(q, s) BY <4>5
        <5>2. op'[q].new = op[q].new BY <1>14, <2>2
        <5> QED BY <5>1, <5>2, HeldIs, HeldNext
      <4> QED BY <4>1, <4>2, <4>3, <4>4, <4>5
    <3>6. W[x] = V[h] /\ W[y] = (IF nt THEN Min(freelist) ELSE V[y]) /\ (nt => freelist # {} /\ V[y] = 0)
      BY <1>11, <1>21, <3>2, <3>3 DEF k
    <3>7. Sound(V, freelist, lost) BY <1>2
    <3> HIDE DEF V, W, h, x, y
    <3>8. CASE nt
      <4>1. freelist # {} /\ V[y] = 0 /\ W[y] = Min(freelist) BY <3>6, <3>8
      <4>2. Sound(W, freelist \ {Min(freelist)}, lost)
        BY <3>0, <3>1, <3>2, <3>3, <3>4, <3>5, <3>6, <3>7, <4>1, MapSound
      <4> QED BY <1>1, <1>21, <3>8, <4>2 DEF W
    <3>9. CASE ~nt
      <4>1. W[h] = V[x] /\ W[x] = V[h] /\ \A e \in Place : e # h /\ e # x => W[e] = V[e]
        BY <3>2, <3>3, <3>5, <3>6, <3>9
      <4>2. Sound(W, freelist, lost) BY <3>0, <3>4, <3>7, <4>1, SwapTwo
      <4> QED BY <1>1, <3>9, <4>2 DEF W
    <3> QED BY <3>8, <3>9
  <2>4. CallKept(p)' BY <1>1, <1>2, <1>4, <1>14, <1>22, <2>2 DEF CallKept
  <2>5. LoopKept(p)'
    <3>1. Own(p)' => Mapped(sp, w.a + PGSIZE)
      <4>1. Own(p)' => Own(p) BY <1>1 DEF Own
      <4> QED BY <1>2, <1>6, <1>18, <1>22, <4>1 DEF LoopKept
    <3>2. w.a + PGSIZE >= sz[p] BY <1>2, <1>3, <1>22, Constants DEF LoopKept
    <3> QED BY <1>1, <1>14, <1>19, <1>22, <2>2, <3>1, <3>2 DEF LoopKept, Aligned, Mapped
  <2>6. ImageMapped(p)' BY <1>14, <2>2, InCallKept
  <2>7. sz' = [sz EXCEPT ![p] = sz[p]] BY <1>1, <1>2 DEF TypeOK
  <2> QED BY <1>1, <1>3, <1>5, <1>14, <1>15, <1>20, <1>22, <2>1, <2>3, <2>4, <2>5, <2>6, <2>7, OneSpace DEF d
<1>23. CASE w.call # "sbrk"
  <2> DEFINE n == [o EXCEPT !.new = sp]
  <2>1. op' = [op EXCEPT ![p] = n] /\ space' = space BY <1>13, <1>14, <1>23 DEF With, Goto
  <2>2. /\ n.call = w.call /\ n.a = w.a + PGSIZE /\ n.lim = w.lim /\ n.mem = 0 /\ n.new = sp /\ n.kid = w.kid
        /\ n.segs = w.segs /\ n.at = "page" /\ n \in Ops
    BY <1>14, <1>15 DEF Ops
  <2> HIDE DEF n
  <2>3. op'[p] = n /\ \A q \in Proc \ {p} : op'[q] = op[q] BY <1>2, <2>1 DEF TypeOK
  <2>4. Sound(Held', freelist', lost')
    <3> DEFINE V == Held
               W == Held'
               h == HandOf(p)
               x == NewOf(p, PteOf(g))
               y == NewOf(p, PtOf(t))
    <3>0. h \in Place /\ x \in Place /\ y \in Place BY <1>16, PlacesAre
    <3>1. h # x /\ h # y /\ x # y BY <1>16, PlacesDiffer
    <3>2. V[h] = w.mem /\ V[x] = 0 /\ V[y] = z.pt[t] BY <1>6, <1>16, <1>17, <1>23, HeldIs
    <3>3. W[h] = 0 /\ W[x] = w.mem /\ W[y] = k BY <1>15, <1>16, <2>2, <2>3, HeldNext
    <3>4. W \in [Place -> Entry]
      <4>1. TypeOK'
        <5>1. op' \in [Proc -> Ops] BY <1>2, <2>1, <2>2 DEF TypeOK
        <5> QED BY <1>1, <1>2, <2>1, <5>1 DEF TypeOK
      <4> QED BY <4>1, HeldTypeNext
    <3>5. ASSUME NEW e \in Place, e # h, e # x, e # y PROVE W[e] = V[e]
      <4>1. PICK q \in Proc : \/ e = StackOf(q) \/ e = HandOf(q)
                              \/ \E s \in Slot : e = SpaceOf(q, s) \/ e = NewOf(q, s)
        BY PlacesAre
      <4>2. CASE e = StackOf(q) BY <1>1, <4>2, HeldIs, HeldNext
      <4>3. CASE e = HandOf(q)
        <5>1. q # p BY <3>5, <4>3
        <5> QED BY <2>3, <4>3, <5>1, HeldIs, HeldNext
      <4>4. CASE \E s \in Slot : e = SpaceOf(q, s) BY <2>1, <4>4, HeldIs, HeldNext
      <4>5. CASE \E s \in Slot : e = NewOf(q, s)
        <5>1. PICK s \in Slot : e = NewOf(q, s) BY <4>5
        <5>2. CASE q = p
          <6>1. s # PteOf(g) /\ s # PtOf(t) BY <3>5, <5>1, <5>2
          <6>2. Cell(sp, s) = Cell(w.new, s) BY <1>6, <1>15, <1>23, <6>1
          <6> QED BY <2>2, <2>3, <5>1, <5>2, <6>2, HeldIs, HeldNext
        <5>3. CASE q # p BY <2>3, <5>1, <5>3, HeldIs, HeldNext
        <5> QED BY <5>2, <5>3
      <4> QED BY <4>1, <4>2, <4>3, <4>4, <4>5
    <3>6. W[x] = V[h] /\ W[y] = (IF nt THEN Min(freelist) ELSE V[y]) /\ (nt => freelist # {} /\ V[y] = 0)
      BY <1>11, <1>21, <3>2, <3>3 DEF k
    <3>7. Sound(V, freelist, lost) BY <1>2
    <3> HIDE DEF V, W, h, x, y
    <3>8. CASE nt
      <4>1. freelist # {} /\ V[y] = 0 /\ W[y] = Min(freelist) BY <3>6, <3>8
      <4>2. Sound(W, freelist \ {Min(freelist)}, lost)
        BY <3>0, <3>1, <3>2, <3>3, <3>4, <3>5, <3>6, <3>7, <4>1, MapSound
      <4> QED BY <1>1, <1>21, <3>8, <4>2 DEF W
    <3>9. CASE ~nt
      <4>1. W[h] = V[x] /\ W[x] = V[h] /\ \A e \in Place : e # h /\ e # x => W[e] = V[e]
        BY <3>2, <3>3, <3>5, <3>6, <3>9
      <4>2. Sound(W, freelist, lost) BY <3>0, <3>4, <3>7, <4>1, SwapTwo
      <4> QED BY <1>1, <3>9, <4>2 DEF W
    <3> QED BY <3>8, <3>9
  <2>5. CallKept(p)'
    <3>2. w.call = "fork" => w.kid \in Proc /\ st'[w.kid] = "embryo" /\ w.lim = sz'[p] BY <1>1, <1>2 DEF CallKept
    <3> QED BY <1>1, <1>4, <1>23, <2>2, <2>3, <3>2 DEF CallKept
  <2>6. LoopKept(p)'
    <3>1. Mapped(sp, w.a + PGSIZE) BY <1>2, <1>4, <1>6, <1>18, <1>23 DEF LoopKept
    <3>2. Own(p)' => Own(p) BY <1>1 DEF Own
    <3>3. Own(p)' => Mapped(space[d], sz[p]) BY <1>2, <1>4, <1>23, <3>2 DEF LoopKept
    <3>4. ASSUME Own(p)', w.call = "fork" PROVE SameUser(sp, space[d], w.a + PGSIZE)
      <4>1. SUFFICES ASSUME NEW h \in Page, h * PGSIZE < w.a + PGSIZE PROVE h \in sp.user <=> h \in space[d].user
        BY DEF SameUser
      <4>2. SameUser(w.new, space[d], w.a) BY <1>2, <3>2, <3>4 DEF LoopKept
      <4>3. h \in sp.user <=> IF h = g THEN Perm(p, g) ELSE h \in w.new.user BY <1>6, <1>12, <1>15, <1>23
      <4>4. Perm(p, g) <=> g \in space[d].user BY <3>4 DEF Perm
      <4>5. h # g => h * PGSIZE < w.a BY <1>8, <4>1
      <4> HIDE DEF g, w
      <4> QED BY <4>2, <4>3, <4>4, <4>5 DEF SameUser
    <3> QED BY <1>1, <1>4, <1>19, <1>23, <2>1, <2>2, <2>3, <3>1, <3>3, <3>4 DEF LoopKept, Aligned, Mapped, SameUser
  <2>7. ImageMapped(p)' BY <2>2, <2>3, InCallKept
  <2> QED BY <1>1, <1>20, <2>1, <2>2, <2>4, <2>5, <2>6, <2>7, OneOp
<1> QED BY <1>22, <1>23

-----------------------------------------------------------------------------
(* The rest of exec() *)

LEMMA ExecCommitKeeps ==
    ASSUME Inv, panicked = 0, NEW p \in Proc, NEW b \in Args, ExecCommit(p, b), Alone(p) \/ ExecFails(p)
    PROVE  Inv'
<1> DEFINE w == op[p]
           d == pgdir[p]
           z == op[p].new
           sp == Clearpteu(z, w.lim - 2 * PGSIZE)
           S == {SpaceOf(d, s) : s \in Slot}
<1>1. /\ Looped(p, "exec") /\ op' = [op EXCEPT ![p] = User] /\ UNCHANGED <<calls, panicked>>
      /\ \/ /\ space' = [space EXCEPT ![d] = sp] /\ freelist' = freelist \cup Used(space[d])
            /\ sz' = [sz EXCEPT ![p] = w.lim] /\ shared' = shared \ {d} /\ Alone(p)
            /\ UNCHANGED <<st, pgdir, kstack, isthread, dangling, lost>>
         \/ ExecFails(p) /\ UNCHANGED <<shared, isthread, dangling>>
  <2>1. CASE ~Copyout(sp, w.lim, b) BY <2>1 DEF ExecCommit, Goto
  <2>2. CASE Alone(p) /\ Copyout(sp, w.lim, b) BY <2>2 DEF ExecCommit, Commit, Freevm, Goto
  <2>3. CASE ExecFails(p) /\ ~Alone(p) /\ Copyout(sp, w.lim, b)
    <3>1. dangling' = dangling \cup {d} /\ \E e \in Proc : Fresh(e) /\ pgdir' = [pgdir EXCEPT ![p] = e]
      BY <2>3 DEF ExecCommit, Commit
    <3>2. pgdir' = pgdir BY <2>3 DEF ExecFails, procs
    <3>3. pgdir'[p] = d /\ d \in Proc \cup {0} /\ pgdir \in [Proc -> Proc \cup {0}] BY <3>2, InvIs DEF TypeOK
    <3> QED BY <3>1, <3>3 DEF Fresh, Unclaimed
  <2> QED BY <2>1, <2>2, <2>3
<1>2. w.call = "exec" /\ w.at = "page" /\ w.a >= w.lim BY <1>1 DEF Looped
<1>3. CASE ExecFails(p) /\ UNCHANGED <<shared, isthread, dangling>>
  <2>1. Goto(p, User) BY <1>1 DEF Goto
  <2> QED BY <1>1, <1>2, <1>3, <2>1, ExecFailsKeeps
<1>4. CASE /\ space' = [space EXCEPT ![d] = sp] /\ freelist' = freelist \cup Used(space[d])
           /\ sz' = [sz EXCEPT ![p] = w.lim] /\ shared' = shared \ {d} /\ Alone(p)
           /\ UNCHANGED <<st, pgdir, kstack, isthread, dangling, lost>>
  <2>1. TypeOK /\ SpaceKept(p) /\ CallKept(p) /\ LoopKept(p) /\ Sound(Held, freelist, lost) BY InvIs
  <2>2. st[p] = "run" /\ Alone(p) /\ w.mem = 0 BY <1>2, <1>4, <2>1 DEF CallKept
  <2>3. d # 0 /\ d \in Proc /\ space[d] \in Spaces BY <2>1, <2>2 DEF SpaceKept, TypeOK
  <2>4. z \in Spaces /\ w.a \in Nat /\ w.lim \in Nat /\ w.lim \in 0..(KERNBASE - 1)
    BY <2>1, Constants DEF TypeOK, Ops
  <2>5. Mapped(z, w.lim)
    <3>1. Mapped(z, w.a) /\ Aligned(w.a) /\ w.a < w.lim + PGSIZE BY <1>2, <2>1 DEF LoopKept
    <3>2. \A g \in Page : g * PGSIZE < w.a <=> g * PGSIZE < w.lim BY <1>2, <2>4, <3>1, Below
    <3> QED BY <3>1, <3>2 DEF Mapped
  <2>6. sp \in Spaces /\ sp.dir = z.dir /\ sp.kern = z.kern /\ sp.pt = z.pt /\ sp.pte = z.pte
    BY <2>4 DEF Clearpteu, Spaces
  <2> HIDE DEF sp
  <2>7. \A s \in Slot : Cell(sp, s) = Cell(z, s) BY <2>6, SlotsAre, CellsAre
  <2>8. Mapped(sp, w.lim) BY <2>5, <2>6 DEF Mapped
  <2>9. /\ space'[d] = sp /\ (\A q \in Proc \ {d} : space'[q] = space[q])
        /\ op'[p] = User /\ (\A q \in Proc \ {p} : op'[q] = op[q]) /\ sz'[p] = w.lim
    BY <1>1, <1>4, <2>1, <2>3 DEF TypeOK
  <2>10. Sound(Held', freelist', lost')
    <3> DEFINE V == [y \in Place |-> IF y \in S THEN 0 ELSE Held[y]]
               W == Held'
    <3>1. S \in SUBSET Place BY <2>3, PlacesAre
    <3>2. {Held[y] : y \in S} \ {0} = Used(space[d])
      <4>1. \A s \in Slot : Held[SpaceOf(d, s)] = Cell(space[d], s) BY <2>3, HeldIs
      <4>2. {Held[y] : y \in S} = {Held[SpaceOf(d, s)] : s \in Slot} OBVIOUS
      <4>3. {Held[SpaceOf(d, s)] : s \in Slot} = {Cell(space[d], s) : s \in Slot} BY <4>1
      <4> QED BY <4>2, <4>3 DEF Used
    <3>3. /\ \A q : StackOf(q) \notin S /\ HandOf(q) \notin S
          /\ \A q, r : NewOf(q, r) \notin S
          /\ \A q : \A r \in Slot : SpaceOf(q, r) \in S <=> q = d
      BY PlacesDiffer
    <3> HIDE DEF S
    <3>4. Sound(V, freelist \cup ({Held[y] : y \in S} \ {0}), lost) BY <2>1, <3>1, FreeSound
    <3>5. Sound(V, freelist', lost') BY <1>4, <3>2, <3>4
    <3>6. \A y \in Place : V[y] = IF y \in S THEN 0 ELSE Held[y] OBVIOUS
    <3> HIDE DEF V
    <3>7. /\ \A q \in Proc : V[StackOf(q)] = kstack[q] /\ V[HandOf(q)] = op[q].mem
          /\ \A q \in Proc, s \in Slot : /\ V[NewOf(q, s)] = Cell(op[q].new, s)
                                         /\ V[SpaceOf(q, s)] = IF q = d THEN 0 ELSE Cell(space[q], s)
      <4>1. \A q \in Proc : V[StackOf(q)] = kstack[q] /\ V[HandOf(q)] = op[q].mem BY <3>3, <3>6, HeldIs, PlacesAre
      <4>2. ASSUME NEW q \in Proc, NEW s \in Slot
            PROVE  /\ V[NewOf(q, s)] = Cell(op[q].new, s)
                   /\ V[SpaceOf(q, s)] = IF q = d THEN 0 ELSE Cell(space[q], s)
        <5>1. NewOf(q, s) \in Place /\ SpaceOf(q, s) \in Place BY PlacesAre
        <5> QED BY <3>3, <3>6, <5>1, HeldIs
      <4> QED BY <4>1, <4>2
    <3>8. \A q \in Proc : W[StackOf(q)] = V[StackOf(q)] /\ W[HandOf(q)] = V[HandOf(q)]
      BY <1>4, <2>2, <2>9, <3>7, HeldNext, UserIs
    <3>9. ASSUME NEW q \in Proc, NEW s \in Slot
          PROVE  /\ W[SpaceOf(q, s)] = IF q = d THEN V[NewOf(p, s)] ELSE V[SpaceOf(q, s)]
                 /\ W[NewOf(q, s)] = IF q = p THEN V[SpaceOf(d, s)] ELSE V[NewOf(q, s)]
      <4>1. V[NewOf(p, s)] = Cell(sp, s) /\ V[SpaceOf(d, s)] = 0 BY <2>3, <2>7, <3>7
      <4>2. W[SpaceOf(q, s)] = IF q = d THEN V[NewOf(p, s)] ELSE V[SpaceOf(q, s)] BY <2>9, <3>7, <4>1, HeldNext
      <4>3. W[NewOf(q, s)] = IF q = p THEN V[SpaceOf(d, s)] ELSE V[NewOf(q, s)]
        BY <2>9, <3>7, <4>1, HeldNext, UserIs, NoSpaceIs
      <4> QED BY <4>2, <4>3
    <3>10. W \in [Place -> Entry]
      <4>1. TypeOK'
        <5>1. /\ op' \in [Proc -> Ops] /\ space' \in [Proc -> Spaces] /\ sz' \in [Proc -> 0..(KERNBASE - 1)]
          BY <1>1, <1>4, <2>1, <2>3, <2>4, <2>6, UserIs DEF TypeOK
        <5>2. freelist' \subseteq Frame /\ lost' \subseteq Frame BY <3>5 DEF Sound
        <5> QED BY <1>1, <1>4, <2>1, <5>1, <5>2 DEF TypeOK
      <4> QED BY <4>1, HeldTypeNext
    <3> HIDE DEF W
    <3>11. Sound(W, freelist', lost') BY <2>3, <3>5, <3>8, <3>9, <3>10, MoveSound
    <3> QED BY <3>11 DEF W
  <2>11. CallKept(p)' /\ LoopKept(p)' BY <2>9, UserKept
  <2>12. ImageMapped(p)' BY <1>4, <2>8, <2>9 DEF ImageMapped, Mapped
  <2>13. calls' \in Nat /\ panicked' = 0 BY <1>1, <2>1 DEF TypeOK
  <2> QED BY <1>1, <1>4, <2>2, <2>3, <2>4, <2>6, <2>10, <2>11, <2>12, <2>13, UserIs, OneSpace DEF d
<1> QED BY <1>1, <1>3, <1>4

LEMMA SegmentIs ==
    ASSUME Inv, NEW p \in Proc, AtSegment(p)
    PROVE  op[p].call = "exec"
<1>1. CallKept(p) BY InvIs
<1> QED BY <1>1 DEF CallKept, AtSegment, Looped

LEMMA ExecBadKeeps ==
    ASSUME Inv, panicked = 0, NEW p \in Proc, ExecBad(p)
    PROVE  Inv'
BY SegmentIs, ExecFailsKeeps DEF ExecBad

LEMMA ExecSegmentAll ==
    ASSUME Inv, panicked = 0, NEW p \in Proc, ExecSegment(p)
    PROVE  Inv'
<1>1. CASE SegEnd(op[p]) >= KERNBASE
  <2>1. /\ AtSegment(p) /\ UNCHANGED <<shared, isthread, dangling, calls, panicked>>
        /\ \/ ExecFails(p) /\ Goto(p, User)
           \/ SegEnd(op[p]) < KERNBASE
    BY DEF ExecSegment, SegEnd
  <2>2. SegEnd(op[p]) \in Int
    <3>1. TypeOK /\ CallKept(p) BY InvIs
    <3>2. op[p].segs \in Seq(Nat) \cup {<<-1>>} /\ op[p].lim \in Nat BY <3>1, Constants DEF TypeOK, Ops
    <3>3. op[p].segs # <<-1>> BY <2>1, <3>1 DEF AtSegment, Looped, CallKept
    <3>4. op[p].segs \in Seq(Nat) BY <3>2, <3>3
    <3>5. CASE op[p].segs = <<>>
      <4>1. PGROUNDUP(op[p].lim) \in Nat BY <3>2, RoundUp
      <4> QED BY <3>5, <4>1, Constants DEF SegEnd
    <3>6. CASE op[p].segs # <<>> BY <3>4, <3>6, SegsTail DEF SegEnd
    <3> QED BY <3>5, <3>6
  <2>3. ExecFails(p) /\ Goto(p, User) BY <1>1, <2>1, <2>2, Constants
  <2> QED BY <2>1, <2>3, SegmentIs, ExecFailsKeeps
<1>2. CASE ~(SegEnd(op[p]) >= KERNBASE) BY <1>2, ExecSegmentKeeps
<1> QED BY <1>1, <1>2

-----------------------------------------------------------------------------
(* Panics, and the steps that may panic. *)

LEMMA PanicKeeps ==
    ASSUME Inv, panicked = 0, NEW p \in Proc, Panic(p), pgdir[p] \in shared
    PROVE  Inv'
<1>1. panicked' = p /\ UNCHANGED <<freelist, space, st, pgdir, sz, kstack, op, shared, isthread, dangling, lost, calls>> BY DEF Panic, procs
<1>2. /\ TypeOK /\ KidsDiffer /\ FramesOwned
      /\ \A r \in Proc : SpaceKept(r) /\ CallKept(r) /\ LoopKept(r) /\ ImageMapped(r)
  BY InvIs DEF Inv
<1>3. TypeOK' BY <1>1, <1>2 DEF TypeOK
<1>9. dangling' = {} BY <1>1, InvIs
<1>4. KidsDiffer' BY <1>1, <1>2 DEF KidsDiffer
<1>5. NoPanic' BY <1>1 DEF NoPanic
<1>6. FramesOwned'
  <2>1. Held' = Held BY <1>1, <1>2, SameHeld DEF TypeOK
  <2>2. Sound(Held', freelist', lost') BY <1>1, <2>1, InvIs
  <2> QED BY <1>3, <1>9, <2>2, OwnedNext
<1>7. \A r \in Proc : SpaceKept(r)' BY <1>1, <1>2, SpacesSame
<1>8. ASSUME NEW r \in Proc PROVE CallKept(r)' /\ LoopKept(r)' /\ ImageMapped(r)'
  <2>1. SpaceKept(r) /\ CallKept(r) /\ LoopKept(r) /\ ImageMapped(r) BY <1>2
  <2> QED BY <1>1, <2>1, OtherKept
<1> QED BY <1>3, <1>4, <1>5, <1>6, <1>7, <1>8, <1>9 DEF Inv, Kept

LEMMA SetupkvmAll ==
    ASSUME Inv, panicked = 0, NEW p \in Proc, Setupkvm(p)
    PROVE  Inv'
<1>1. CASE freelist = {}
  <2>1. op[p].at \in {"dir", "kern"} /\ Fail(p) BY <1>1 DEF Setupkvm
  <2>2. CallKept(p) BY InvIs
  <2>3. op[p].at # "user" /\ op[p].call # "sbrk" BY <2>1, <2>2 DEF CallKept
  <2> QED BY <2>1, <2>3, FailKeeps
<1>2. CASE freelist # {} BY <1>2, SetupkvmKeeps
<1> QED BY <1>1, <1>2

(* copyuvm() finds every page below p->sz, unless a thread has shared the   *)
(* space.                                                                   *)
LEMMA AllocPageAll ==
    ASSUME Inv, panicked = 0, NEW p \in Proc, AllocPage(p)
    PROVE  Inv'
<1>1. op[p].at = "page" /\ op[p].a < op[p].lim BY DEF AllocPage
<1>2. CASE op[p].call = "fork" /\ space[pgdir[p]].pte[PGOF(op[p].a)] = 0
  <2>1. Panic(p) BY <1>2 DEF AllocPage
  <2>2. TypeOK /\ LoopKept(p) BY InvIs
  <2>3. op[p].lim = sz[p] /\ pgdir[p] \in Proc BY <1>2, ForkIs
  <2>4. op[p].a \in Nat /\ sz[p] \in Nat /\ sz[p] < KERNBASE BY <2>2, Constants DEF TypeOK, Ops
  <2>5. Aligned(op[p].a) BY <2>2 DEF LoopKept
  <2>6. op[p].a < KERNBASE BY <1>1, <2>3, <2>4, Constants
  <2>7. PGOF(op[p].a) \in Page /\ PGOF(op[p].a) * PGSIZE = op[p].a BY <2>4, <2>5, <2>6, PageOf DEF Aligned
  <2>8. pgdir[p] \in shared
    <3>1. SUFFICES ASSUME pgdir[p] \notin shared PROVE FALSE OBVIOUS
    <3>2. Own(p) BY <2>3, <3>1 DEF Own, Proc
    <3>3. Mapped(space[pgdir[p]], sz[p]) BY <1>2, <2>2, <3>2 DEF LoopKept
    <3> QED BY <1>1, <1>2, <2>3, <2>7, <3>3 DEF Mapped
  <2> QED BY <2>1, <2>8, PanicKeeps
<1>3. CASE ~(op[p].call = "fork" /\ space[pgdir[p]].pte[PGOF(op[p].a)] = 0)
  <2>1. CASE freelist = {}
    <3>1. Fail(p) BY <1>3, <2>1 DEF AllocPage
    <3> QED BY <1>1, <3>1, FailKeeps
  <2>2. CASE freelist # {} BY <1>3, <2>2, AllocPageKeeps
  <2> QED BY <2>1, <2>2
<1> QED BY <1>2, <1>3

(* mappages() never meets a mapped page, unless a thread has shared the     *)
(* space.                                                                   *)
LEMMA MapPageAll ==
    ASSUME Inv, panicked = 0, NEW p \in Proc, MapPage(p)
    PROVE  Inv'
<1> DEFINE g == PGOF(op[p].a)
           full == Sp(p).pt[g \div NPTENTRIES] = 0 /\ freelist = {}
<1>1. /\ op[p].at = "map"
      /\ full => Fail(p)
      /\ ~full /\ Sp(p).pte[g] # 0 => Panic(p)
  BY DEF MapPage
<1>2. TypeOK /\ SpaceKept(p) /\ CallKept(p) /\ LoopKept(p) BY InvIs
<1>3. op[p].a < op[p].lim /\ Aligned(op[p].a) /\ st[p] = "run" BY <1>1, <1>2 DEF LoopKept, CallKept
<1>4. CASE full
  <2>1. Fail(p) BY <1>1, <1>4
  <2>2. op[p].at # "user" BY <1>1
  <2> QED BY <1>3, <2>1, <2>2, FailKeeps
<1>5. CASE ~full /\ Sp(p).pte[g] # 0
  <2>1. Panic(p) BY <1>1, <1>5
  <2>2. op[p] \in Ops /\ op[p].a \in Nat /\ op[p].lim \in Nat /\ op[p].lim < KERNBASE BY <1>2, Constants DEF TypeOK, Ops
  <2>3. op[p].a < KERNBASE BY <1>3, <2>2, Constants
  <2>4. g \in Page /\ g * PGSIZE = op[p].a BY <1>3, <2>2, <2>3, PageOf DEF Aligned
  <2>5. ~Mapped(Sp(p), op[p].a) BY <1>5, <2>2, <2>4 DEF Mapped
  <2>6. op[p].call \in {"sbrk", "fork", "exec"} BY <1>1, <1>2, <2>2 DEF CallKept, Ops
  <2>7. op[p].call = "sbrk" BY <1>2, <2>5, <2>6 DEF LoopKept, Sp
  <2>8. ~Own(p) BY <1>2, <2>5, <2>7 DEF LoopKept, Sp
  <2>9. pgdir[p] \in shared BY <1>2, <1>3, <2>8 DEF Own, SpaceKept
  <2> QED BY <2>1, <2>9, PanicKeeps
<1>6. CASE ~full /\ ~(Sp(p).pte[g] # 0) BY <1>6, MapPageKeeps
<1> QED BY <1>4, <1>5, <1>6

-----------------------------------------------------------------------------
(* The first process *)

LEMMA InitSpace ==
    ASSUME Init
    PROVE  /\ space \in [Proc -> Spaces] /\ 1 \in Proc
           /\ \A p \in Proc \ {1} : space[p] = NoSpace
           /\ space[1].dir = 1 /\ space[1].kern = 2
           /\ \A t \in Table : space[1].pt[t] = IF t = 0 THEN 3 ELSE 0
           /\ \A g \in Page : space[1].pte[g] = IF g = 0 THEN 4 ELSE 0
<1> DEFINE first == [dir |-> 1, kern |-> 2, pt |-> [t \in Table |-> IF t = 0 THEN 3 ELSE 0],
                     pte |-> [g \in Page |-> IF g = 0 THEN 4 ELSE 0], user |-> {0}]
<1>1. space = [p \in Proc |-> IF p # 1 THEN NoSpace ELSE first] BY DEF Init
<1>2. 1 \in Proc /\ 1..5 \subseteq Frame BY Constants DEF Proc, Frame
<1>3. first \in Spaces
  <2>1. 1 \in Frame /\ 2 \in Frame /\ 3 \in Frame /\ 4 \in Frame BY <1>2
  <2>2. {0} \in SUBSET Page BY PagesAre
  <2> QED BY <2>1, <2>2 DEF Spaces
<1>4. /\ first.dir = 1 /\ first.kern = 2
      /\ \A t \in Table : first.pt[t] = IF t = 0 THEN 3 ELSE 0
      /\ \A g \in Page : first.pte[g] = IF g = 0 THEN 4 ELSE 0
  OBVIOUS
<1> HIDE DEF first
<1>5. space[1] = first /\ \A p \in Proc \ {1} : space[p] = NoSpace BY <1>1, <1>2
<1>6. space \in [Proc -> Spaces] BY <1>1, <1>3, NoSpaceIs
<1> QED BY <1>2, <1>4, <1>5, <1>6

LEMMA InitFree == ASSUME Init PROVE freelist = Frame \ (1..5)
<1>1. freelist = Freerange(0, NFRAMES * PGSIZE) \ (1..5) BY DEF Init
<1>2. ASSUME NEW f \in Frame PROVE (f - 1) * PGSIZE >= 0 /\ f * PGSIZE <= NFRAMES * PGSIZE
  <2>1. f \in Nat /\ f - 1 \in Nat /\ f <= NFRAMES BY Constants DEF Frame
  <2>2. (f - 1) * PGSIZE \in Nat /\ f * PGSIZE \in Nat /\ NFRAMES * PGSIZE \in Nat BY <2>1, Constants, Times
  <2>3. ~(NFRAMES * PGSIZE < f * PGSIZE) BY <2>1, Constants, Times
  <2> QED BY <2>2, <2>3
<1>3. Freerange(0, NFRAMES * PGSIZE) = Frame BY <1>2 DEF Freerange
<1> QED BY <1>1, <1>3

(* The five frames of the first process. *)
LEMMA InitSound == ASSUME Init, TypeOK PROVE Sound(Held, freelist, lost)
<1> DEFINE V == Held
           S == StackOf(1)
           D == SpaceOf(1, DirOf)
           K == SpaceOf(1, KernOf)
           T == SpaceOf(1, PtOf(0))
           G == SpaceOf(1, PteOf(0))
<1>1. 1 \in Proc /\ 0 \in Page /\ 0 \in Table BY InitSpace, PagesAre
<1>2. DirOf \in Slot /\ KernOf \in Slot /\ PtOf(0) \in Slot /\ PteOf(0) \in Slot BY <1>1, SlotsAre
<1>3. S \in Place /\ D \in Place /\ K \in Place /\ T \in Place /\ G \in Place BY <1>1, <1>2, PlacesAre
<1>4. kstack = [p \in Proc |-> IF p = 1 THEN 5 ELSE 0] /\ op = [p \in Proc |-> User] /\ lost = {} BY DEF Init
<1>5. V[S] = 5 BY <1>1, <1>4, HeldIs
<1>6. V[D] = 1 /\ V[K] = 2 BY <1>1, <1>2, HeldIs, InitSpace, CellsAre
<1>7. V[T] = 3
  <2>1. V[T] = space[1].pt[0] BY <1>1, <1>2, HeldIs, CellsAre
  <2> QED BY <1>1, <2>1, InitSpace
<1>8. V[G] = 4
  <2>1. V[G] = space[1].pte[0] BY <1>1, <1>2, HeldIs, CellsAre
  <2> QED BY <1>1, <2>1, InitSpace
<1>9. ASSUME NEW x \in Place, x # S, x # D, x # K, x # T, x # G PROVE V[x] = 0
  <2>1. PICK q \in Proc : \/ x = StackOf(q) \/ x = HandOf(q)
                          \/ \E s \in Slot : x = SpaceOf(q, s) \/ x = NewOf(q, s)
    BY PlacesAre
  <2>2. CASE x = StackOf(q)
    <3>1. q # 1 BY <1>9, <2>2
    <3> QED BY <1>4, <2>2, <3>1, HeldIs
  <2>3. CASE x = HandOf(q) BY <1>4, <2>3, HeldIs, UserIs
  <2>4. CASE \E s \in Slot : x = NewOf(q, s) BY <1>4, <2>4, HeldIs, UserIs, NoSpaceIs
  <2>5. CASE \E s \in Slot : x = SpaceOf(q, s)
    <3>1. PICK s \in Slot : x = SpaceOf(q, s) BY <2>5
    <3>2. V[x] = Cell(space[q], s) BY <3>1, HeldIs
    <3>3. CASE q # 1 BY <3>2, <3>3, InitSpace, NoSpaceIs
    <3>4. CASE q = 1
      <4>1. s # DirOf /\ s # KernOf /\ s # PtOf(0) /\ s # PteOf(0) BY <1>9, <3>1, <3>4
      <4>2. CASE \E t \in Table : s = PtOf(t)
        <5>1. PICK t \in Table : s = PtOf(t) BY <4>2
        <5>2. t # 0 BY <4>1, <5>1
        <5>3. Cell(space[q], s) = space[1].pt[t] BY <3>4, <5>1, CellsAre
        <5> QED BY <3>2, <5>2, <5>3, InitSpace
      <4>3. CASE \E g \in Page : s = PteOf(g)
        <5>1. PICK g \in Page : s = PteOf(g) BY <4>3
        <5>2. g # 0 BY <4>1, <5>1
        <5>3. Cell(space[q], s) = space[1].pte[g] BY <3>4, <5>1, CellsAre
        <5> QED BY <3>2, <5>2, <5>3, InitSpace
      <4> QED BY <4>1, <4>2, <4>3, SlotsAre
    <3> QED BY <3>3, <3>4
  <2> QED BY <2>1, <2>2, <2>3, <2>4, <2>5
<1>10. V \in [Place -> Entry] BY HeldType
<1>11. freelist = Frame \ (1..5) BY InitFree
<1> HIDE DEF V, S, D, K, T, G
<1>12. \A x \in Place : V[x] # 0 => V[x] \in 1..5 BY <1>5, <1>6, <1>7, <1>8, <1>9
<1>13. \A x, y \in Place : V[x] # 0 /\ V[x] = V[y] => x = y BY <1>5, <1>6, <1>7, <1>8, <1>9
<1>14. ASSUME NEW f \in Frame, f \in 1..5 PROVE \E x \in Place : V[x] = f
  <2>1. f = 1 \/ f = 2 \/ f = 3 \/ f = 4 \/ f = 5 BY <1>14
  <2> QED BY <1>3, <1>5, <1>6, <1>7, <1>8, <2>1
<1>15. Sound(V, freelist, lost) BY <1>4, <1>10, <1>11, <1>12, <1>13, <1>14 DEF Sound
<1> QED BY <1>15 DEF V

LEMMA InitInv == ASSUME Init PROVE Inv
<1>1. /\ st = [p \in Proc |-> IF p = 1 THEN "run" ELSE "unused"]
      /\ pgdir = [p \in Proc |-> IF p = 1 THEN 1 ELSE 0]
      /\ sz = [p \in Proc |-> IF p = 1 THEN PGSIZE ELSE 0]
      /\ kstack = [p \in Proc |-> IF p = 1 THEN 5 ELSE 0]
      /\ op = [p \in Proc |-> User]
      /\ shared = {} /\ isthread = {} /\ dangling = {} /\ lost = {} /\ calls = 0 /\ panicked = 0
  BY DEF Init
<1>2. 1 \in Proc /\ 5 \in Frame BY Constants DEF Proc, Frame
<1>3. TypeOK
  <2>1. PGSIZE \in 0..(KERNBASE - 1) /\ 0 \in 0..(KERNBASE - 1) BY Constants
  <2>2. sz \in [Proc -> 0..(KERNBASE - 1)] BY <1>1, <2>1
  <2>3. kstack \in [Proc -> Frame \cup {0}] /\ pgdir \in [Proc -> Proc \cup {0}] /\ op \in [Proc -> Ops]
    BY <1>1, <1>2, UserIs
  <2>4. freelist \subseteq Frame BY InitFree
  <2> QED BY <1>1, <2>2, <2>3, <2>4, InitSpace DEF TypeOK
<1>4. FramesOwned BY <1>1, <1>3, InitSound, OwnedIs
<1>5. KidsDiffer BY <1>1, UserIs DEF KidsDiffer
<1>6. NoPanic BY <1>1 DEF NoPanic
<1>7. ASSUME NEW p \in Proc PROVE SpaceKept(p)
  <2>1. Alone(p) <=> \A q \in Proc \ {p} : st[q] # "unused" => pgdir[q] # pgdir[p] BY DEF Alone
  <2>2. p # 0 BY DEF Proc
  <2>3. CASE p = 1 BY <1>1, <1>2, <2>1, <2>3 DEF SpaceKept, Unclaimed
  <2>4. CASE p # 1 BY <1>1, <2>2, <2>4, InitSpace DEF SpaceKept, Own
  <2> QED BY <2>3, <2>4
<1>8. ASSUME NEW p \in Proc PROVE CallKept(p) /\ LoopKept(p)
  <2>1. op[p] = User BY <1>1
  <2>2. CallKept(p) BY <2>1, UserIs DEF CallKept
  <2>3. LoopKept(p) BY <2>1, UserIs, AlignedZero DEF LoopKept
  <2> QED BY <2>2, <2>3
<1>9. ASSUME NEW p \in Proc PROVE ImageMapped(p)
  <2>1. SUFFICES ASSUME CanCall(p) PROVE Mapped(space[pgdir[p]], sz[p]) BY DEF ImageMapped
  <2>2. p = 1 BY <1>1, <2>1 DEF CanCall
  <2>3. pgdir[p] = 1 /\ sz[p] = PGSIZE BY <1>1, <1>2, <2>2
  <2>4. ASSUME NEW g \in Page PROVE space[1].pte[g] # 0 <=> g * PGSIZE < PGSIZE
    <3>1. g \in Nat BY PagesAre
    <3>2. g * PGSIZE < 1 * PGSIZE <=> g < 1 BY <3>1, Constants, Times
    <3>3. 1 * PGSIZE = PGSIZE BY Constants
    <3> QED BY <3>1, <3>2, <3>3, InitSpace
  <2> QED BY <2>3, <2>4 DEF Mapped
<1> QED BY <1>1, <1>3, <1>4, <1>5, <1>6, <1>7, <1>8, <1>9 DEF Inv, Kept

LEMMA StutterKeeps == ASSUME Inv, UNCHANGED vars PROVE Inv'
<1>1. UNCHANGED <<freelist, space, st, pgdir, sz, kstack, op, shared, isthread, dangling, lost, calls, panicked>> BY DEF vars, procs
<1>2. /\ TypeOK /\ KidsDiffer /\ NoPanic
      /\ \A r \in Proc : SpaceKept(r) /\ CallKept(r) /\ LoopKept(r) /\ ImageMapped(r)
  BY InvIs DEF Inv, Kept
<1>3. TypeOK' BY <1>1, <1>2 DEF TypeOK
<1>9. dangling' = {} BY <1>1, InvIs
<1>4. KidsDiffer' BY <1>1, <1>2 DEF KidsDiffer
<1>5. NoPanic' BY <1>1, <1>2 DEF NoPanic
<1>6. FramesOwned'
  <2>1. Held' = Held BY <1>1, <1>2, SameHeld DEF TypeOK
  <2>2. Sound(Held', freelist', lost') BY <1>1, <2>1, InvIs
  <2> QED BY <1>3, <1>9, <2>2, OwnedNext
<1>7. \A r \in Proc : SpaceKept(r)' BY <1>1, <1>2, SpacesSame
<1>8. ASSUME NEW r \in Proc PROVE CallKept(r)' /\ LoopKept(r)' /\ ImageMapped(r)'
  <2>1. SpaceKept(r) /\ CallKept(r) /\ LoopKept(r) /\ ImageMapped(r) BY <1>2
  <2> QED BY <1>1, <2>1, OtherKept
<1> QED BY <1>3, <1>4, <1>5, <1>6, <1>7, <1>8, <1>9 DEF Inv, Kept

(* freevm() of a directory that others have: clone() shared it. *)
Ended == TypeOK /\ NoDangling /\ dangling # {}

LEMMA SharedIs ==
    ASSUME Inv, NEW p \in Proc, pgdir[p] # 0, ~Alone(p)
    PROVE  pgdir[p] \in shared
<1>1. SpaceKept(p) BY InvIs
<1> QED BY <1>1 DEF SpaceKept, Own

LEMMA UsedFrames ==
    ASSUME NEW sp \in Spaces
    PROVE  Used(sp) \subseteq Frame
BY CellType DEF Used, Entry

LEMMA WaitEnds ==
    ASSUME Inv, panicked = 0, NEW p \in Proc, Wait(p), ~Alone(p)
    PROVE  Ended'
<1> DEFINE d == pgdir[p]
<1>1. /\ st[p] = "zombie" /\ freelist' = freelist \cup {kstack[p]} \cup Used(space[d])
      /\ st' = [st EXCEPT ![p] = "unused"] /\ pgdir' = [pgdir EXCEPT ![p] = 0]
      /\ sz' = [sz EXCEPT ![p] = 0] /\ kstack' = [kstack EXCEPT ![p] = 0]
      /\ dangling' = dangling \cup {d}
      /\ UNCHANGED <<space, op, shared, isthread, lost, calls, panicked>>
  BY DEF Wait, Clear, Freevm
<1>2. TypeOK /\ SpaceKept(p) /\ dangling = {} BY InvIs
<1>3. d \in Proc /\ kstack[p] \in Frame BY <1>1, <1>2 DEF SpaceKept, TypeOK
<1>4. d \in shared
  <2>1. d # 0 BY <1>3 DEF Proc
  <2> QED BY <2>1, SharedIs
<1>5. freelist' \subseteq Frame
  <2>1. Used(space[d]) \subseteq Frame BY <1>2, <1>3, UsedFrames DEF TypeOK
  <2> QED BY <1>1, <1>2, <1>3, <2>1 DEF TypeOK
<1>6. /\ kstack' \in [Proc -> Frame \cup {0}] /\ st' \in [Proc -> {"unused", "embryo", "run", "zombie"}]
      /\ pgdir' \in [Proc -> Proc \cup {0}] /\ sz' \in [Proc -> 0..(KERNBASE - 1)]
  BY <1>1, <1>2, Constants DEF TypeOK
<1>7. TypeOK' BY <1>1, <1>2, <1>3, <1>5, <1>6 DEF TypeOK
<1>8. NoDangling' /\ dangling' # {} BY <1>1, <1>2, <1>4 DEF NoDangling
<1> QED BY <1>7, <1>8 DEF Ended

LEMMA CommitEnds ==
    ASSUME Inv, panicked = 0, NEW p \in Proc, NEW b \in Args, ExecCommit(p, b), ~Alone(p), ~ExecFails(p)
    PROVE  Ended'
<1> DEFINE w == op[p]
           d == pgdir[p]
           sp == Clearpteu(w.new, w.lim - 2 * PGSIZE)
<1>1. /\ Looped(p, "exec") /\ op' = [op EXCEPT ![p] = User] /\ UNCHANGED <<st, kstack, isthread, lost, calls, panicked>>
      /\ freelist' = freelist \cup Used(space[d]) /\ sz' = [sz EXCEPT ![p] = w.lim]
      /\ dangling' = dangling \cup {d}
  BY DEF ExecCommit, Commit, Freevm, Goto
<1>2. PICK e \in Proc : /\ Fresh(e) /\ space' = [space EXCEPT ![e] = sp]
                        /\ pgdir' = [pgdir EXCEPT ![p] = e] /\ shared' = shared \ {e}
  BY DEF ExecCommit, Commit
<1>3. TypeOK /\ SpaceKept(p) /\ CallKept(p) /\ dangling = {} BY InvIs
<1>4. st[p] = "run" BY <1>1, <1>3 DEF Looped, CallKept
<1>5. d \in Proc /\ d # 0 BY <1>3, <1>4 DEF SpaceKept, TypeOK
<1>6. d \in shared BY <1>5, SharedIs
<1>7. e # d BY <1>2 DEF Fresh, Unclaimed
<1>8. sp \in Spaces /\ w.lim \in 0..(KERNBASE - 1)
  <2>1. w \in Ops BY <1>3 DEF TypeOK
  <2> QED BY <2>1 DEF Clearpteu, Spaces, Ops
<1>9. freelist' \subseteq Frame
  <2>1. Used(space[d]) \subseteq Frame BY <1>3, <1>5, UsedFrames DEF TypeOK
  <2> QED BY <1>1, <1>3, <2>1 DEF TypeOK
<1> HIDE DEF sp
<1>10. /\ op' \in [Proc -> Ops] /\ space' \in [Proc -> Spaces] /\ sz' \in [Proc -> 0..(KERNBASE - 1)]
       /\ pgdir' \in [Proc -> Proc \cup {0}]
  BY <1>1, <1>2, <1>3, <1>8, UserIs DEF TypeOK
<1>11. TypeOK' BY <1>1, <1>2, <1>3, <1>5, <1>9, <1>10 DEF TypeOK
<1>12. NoDangling' /\ dangling' # {} BY <1>1, <1>2, <1>3, <1>6, <1>7 DEF NoDangling
<1> QED BY <1>11, <1>12 DEF Ended

(* Every step keeps the invariant, or frees a directory of clone(). *)
LEMMA NextKeeps == ASSUME Inv, Next PROVE Inv' \/ Ended'
<1>1. panicked = 0 BY DEF Next
<1>2. PICK p \in Proc :
        \/ \E n \in Incs : SbrkGrows(p, n) \/ SbrkShrinks(p, n)
        \/ \E q \in Proc : Fork(p, q) \/ Clone(p, q)
        \/ \E prog \in Programs : Exec(p, prog)
        \/ Setupkvm(p) \/ AllocPage(p) \/ MapPage(p) \/ SbrkDone(p) \/ ForkDone(p)
        \/ ExecBad(p) \/ ExecSegment(p) \/ \E n \in Args : ExecCommit(p, n)
        \/ Exit(p) \/ Wait(p) \/ Join(p)
  BY DEF Next
<1>3. CASE \E n \in Incs : SbrkGrows(p, n) BY <1>1, <1>3, SbrkGrowsKeeps
<1>4. CASE \E n \in Incs : SbrkShrinks(p, n) BY <1>1, <1>4, SbrkShrinksKeeps
<1>5. CASE \E q \in Proc : Fork(p, q) BY <1>1, <1>5, ForkKeeps
<1>6. CASE \E q \in Proc : Clone(p, q) BY <1>1, <1>6, CloneKeeps
<1>7. CASE \E prog \in Programs : Exec(p, prog) BY <1>1, <1>7, ExecKeeps
<1>8. CASE Setupkvm(p) BY <1>1, <1>8, SetupkvmAll
<1>9. CASE AllocPage(p) BY <1>1, <1>9, AllocPageAll
<1>10. CASE MapPage(p) BY <1>1, <1>10, MapPageAll
<1>11. CASE SbrkDone(p) BY <1>1, <1>11, SbrkDoneKeeps
<1>12. CASE ForkDone(p) BY <1>1, <1>12, ForkDoneKeeps
<1>13. CASE ExecBad(p) BY <1>1, <1>13, ExecBadKeeps
<1>14. CASE ExecSegment(p) BY <1>1, <1>14, ExecSegmentAll
<1>15. CASE \E n \in Args : ExecCommit(p, n)
  <2>1. PICK n \in Args : ExecCommit(p, n) BY <1>15
  <2>2. CASE Alone(p) \/ ExecFails(p) BY <1>1, <2>1, <2>2, ExecCommitKeeps
  <2>3. CASE ~(Alone(p) \/ ExecFails(p)) BY <1>1, <2>1, <2>3, CommitEnds
  <2> QED BY <2>2, <2>3
<1>16. CASE Exit(p) BY <1>1, <1>16, ExitKeeps
<1>17. CASE Wait(p)
  <2>1. CASE Alone(p) BY <1>1, <1>17, <2>1, WaitKeeps
  <2>2. CASE ~Alone(p) BY <1>1, <1>17, <2>2, WaitEnds
  <2> QED BY <2>1, <2>2
<1>18. CASE Join(p) BY <1>1, <1>18, JoinKeeps
<1> QED BY <1>2, <1>3, <1>4, <1>5, <1>6, <1>7, <1>8, <1>9, <1>10, <1>11, <1>12, <1>13, <1>14, <1>15, <1>16, <1>17, <1>18

LEMMA EndedKept == ASSUME Ended, [Next]_vars PROVE Ended'
<1>1. UNCHANGED vars BY DEF Ended, Next
<1>2. UNCHANGED <<freelist, space, st, pgdir, sz, kstack, op, shared, isthread, dangling, lost, calls, panicked>>
  BY <1>1 DEF vars, procs
<1> QED BY <1>2 DEF Ended, TypeOK, NoDangling

(* The invariant: page tables and sizes in step at every page of every      *)
(* loop, and every page in one place, until freevm() takes a page directory *)
(* that clone() made two processes share.                                   *)
THEOREM InvHolds == Spec => [](Inv \/ Ended)
<1>1. Init => Inv BY InitInv
<1>2. (Inv \/ Ended) /\ [Next]_vars => (Inv \/ Ended)'
  <2>1. ASSUME Inv, [Next]_vars PROVE Inv' \/ Ended' BY <2>1, NextKeeps, StutterKeeps
  <2> QED BY <2>1, EndedKept
<1> QED BY <1>1, <1>2, PTL DEF Spec

(* growproc(), fork() and exec() keep page table and size in step, at every *)
(* page of their loops and after every failure; neither mappages() nor      *)
(* copyuvm() panics unless clone() shared the space, and freevm() takes no  *)
(* page directory that is in use unless clone() shared it.                  *)
THEOREM ImageInvHolds == Spec => []ImageInv
<1>1. Inv => ImageInv BY DEF Inv, Kept, ImageInv, NoDangling
<1>2. Ended => ImageInv BY DEF Ended, ImageInv
<1> QED BY <1>1, <1>2, InvHolds, PTL

(* No page of memory is used twice, freed while in use, or forgotten,       *)
(* whichever kalloc() fails, as long as no shared page directory was freed  *)
(* in use; only the page copyuvm() holds when mappages() fails and the      *)
(* space of a process that join() takes are lost.                           *)
THEOREM FramesOwnedHolds == Spec => []FramesOwned
<1>1. Inv => FramesOwned BY DEF Inv
<1>2. Ended => FramesOwned BY DEF Ended, FramesOwned
<1> QED BY <1>1, <1>2, InvHolds, PTL

-----------------------------------------------------------------------------
(* What system calls rely on. *)

LEMMA BackedBelow ==
    ASSUME Inv, NEW p \in Proc, CanCall(p), pgdir[p] \notin shared, NEW a \in Nat, NEW b \in Int, b <= sz[p]
    PROVE  Backed(p, a, b)
<1>1. TypeOK /\ ImageMapped(p) BY InvIs
<1>2. Mapped(space[pgdir[p]], sz[p]) BY <1>1 DEF ImageMapped
<1>3. sz[p] \in Nat /\ sz[p] < KERNBASE BY <1>1, Constants DEF TypeOK
<1>4. ASSUME NEW x \in a..(b - 1) PROVE PGOF(x) \in Page /\ space[pgdir[p]].pte[PGOF(x)] # 0
  <2>1. x \in Nat /\ x < sz[p] /\ x < KERNBASE BY <1>3, Constants
  <2>2. PGOF(x) \in Page /\ PGOF(x) * PGSIZE <= x BY <2>1, PageOf
  <2> DEFINE e == PGOF(x) * PGSIZE
  <2>3. e \in Nat BY <2>2, PagesAre, Constants
  <2>4. e < sz[p]
    <3> HIDE DEF e
    <3>1. e <= x BY <2>2 DEF e
    <3> QED BY <1>3, <2>1, <2>3, <3>1
  <2> QED BY <1>2, <2>2, <2>4 DEF Mapped
<1> QED BY <1>4 DEF Backed

(* A block that starts below p->sz does not wrap. *)
LEMMA NoWrap ==
    ASSUME NEW a \in Nat, a < KERNBASE, NEW n \in Nat, n <= KERNBASE
    PROVE  (a + n) % UINT = a + n
<1>1. a + n \in Nat /\ a + n < UINT BY Constants
<1>2. a + n = 0 * UINT + (a + n) BY <1>1, Constants
<1> QED BY <1>1, <1>2, Constants

(* What argint(), argptr() and argstr() accept is below p->sz to its last   *)
(* byte.                                                                    *)
LEMMA ArgsBacked == ASSUME Inv PROVE ArgsMapped
<1>1. SUFFICES ASSUME NEW p \in Proc, CanCall(p), pgdir[p] \notin shared, NEW i \in Ptrs
               PROVE  /\ \A n \in 0..1 : LET a == (i + WORD + WORD * n) % UINT IN Argint(p, i, n) => Backed(p, a, a + WORD)
                      /\ \A size \in Incs : Argptr(p, i, size) => Backed(p, i, i + size)
                      /\ \A nul \in Ptrs : nul >= i /\ Argstr(p, i, nul) => Backed(p, i, nul + 1)
  BY DEF ArgsMapped
<1>2. sz[p] \in Nat /\ sz[p] < KERNBASE
  <2>1. TypeOK BY InvIs
  <2> QED BY <2>1, Constants DEF TypeOK
<1>3. i \in Nat BY Constants
<1>4. ASSUME NEW n \in 0..1, Argint(p, i, n)
      PROVE  Backed(p, (i + WORD + WORD * n) % UINT, ((i + WORD + WORD * n) % UINT) + WORD)
  <2> DEFINE m == i + WORD + WORD * n
             a == m % UINT
  <2>1. m \in Nat
    <3>1. WORD * n \in Nat BY Constants
    <3> QED BY <1>3, <3>1, Constants
  <2> HIDE DEF m
  <2>2. a \in Nat BY <2>1, Constants, Division
  <2>3. a < sz[p] /\ (a + WORD) % UINT <= sz[p] BY <1>4 DEF Argint, Fetchint, m
  <2> HIDE DEF a
  <2>4. a < KERNBASE BY <1>2, <2>2, <2>3, Constants
  <2>5. a + WORD <= sz[p] /\ a + WORD \in Int
    <3>1. WORD \in Nat /\ WORD <= KERNBASE BY Constants
    <3>2. (a + WORD) % UINT = a + WORD BY <2>2, <2>4, <3>1, NoWrap
    <3> QED BY <2>2, <2>3, <3>1, <3>2
  <2>6. Backed(p, a, a + WORD) BY <1>1, <2>2, <2>5, BackedBelow
  <2> QED BY <2>6 DEF a, m
<1>5. ASSUME NEW size \in Incs, Argptr(p, i, size) PROVE Backed(p, i, i + size)
  <2>1. size \in Int /\ size < KERNBASE BY Constants
  <2>2. size >= 0 /\ i < sz[p] /\ (i + size) % UINT <= sz[p] BY <1>5 DEF Argptr
  <2>3. size \in Nat /\ size <= KERNBASE /\ i < KERNBASE BY <1>2, <1>3, <2>1, <2>2, Constants
  <2>4. i + size <= sz[p] /\ i + size \in Int BY <1>3, <2>2, <2>3, NoWrap
  <2> QED BY <1>1, <1>3, <2>4, BackedBelow
<1>6. ASSUME NEW nul \in Ptrs, Argstr(p, i, nul) PROVE Backed(p, i, nul + 1)
  <2>1. nul \in Nat BY Constants
  <2>2. nul < sz[p] BY <1>6 DEF Argstr, Fetchstr
  <2>3. nul + 1 <= sz[p] /\ nul + 1 \in Int BY <1>2, <2>1, <2>2
  <2> QED BY <1>1, <1>3, <2>3, BackedBelow
<1> QED BY <1>4, <1>5, <1>6

(* Only the end of its fork() makes an embryo run. *)
LEMMA EmbryoRuns ==
    ASSUME Inv, Next, NEW q \in Proc, st[q] = "embryo", st'[q] = "run"
    PROVE  \E p \in Proc : ForkDone(p) /\ op[p].kid = q
<1>1. TypeOK BY InvIs
<1>2. st \in [Proc -> {"unused", "embryo", "run", "zombie"}] BY <1>1 DEF TypeOK
<1>3. PICK p \in Proc :
        \/ \E n \in Incs : SbrkGrows(p, n) \/ SbrkShrinks(p, n)
        \/ \E r \in Proc : Fork(p, r) \/ Clone(p, r)
        \/ \E prog \in Programs : Exec(p, prog)
        \/ Setupkvm(p) \/ AllocPage(p) \/ MapPage(p) \/ SbrkDone(p) \/ ForkDone(p)
        \/ ExecBad(p) \/ ExecSegment(p) \/ \E n \in Args : ExecCommit(p, n)
        \/ Exit(p) \/ Wait(p) \/ Join(p)
  BY DEF Next
<1>4. st' # st OBVIOUS
<1>5. ASSUME Fail(p), op[p].at # "user" PROVE FALSE
  <2>1. op[p].call = "fork" /\ ForkFails(p)
    <3>1. CASE op[p].call = "sbrk" BY <1>4, <1>5, <3>1 DEF Fail, SbrkFails, procs
    <3>2. CASE op[p].call = "exec" BY <1>4, <1>5, <3>2 DEF Fail, ExecFails, procs
    <3>3. op[p].call \in {"sbrk", "fork", "exec"}
      <4>1. CallKept(p) /\ op[p] \in Ops BY <1>1, InvIs DEF TypeOK
      <4> QED BY <1>5, <4>1 DEF CallKept, Ops
    <3>4. CASE op[p].call = "fork" BY <1>5, <3>4 DEF Fail
    <3> QED BY <3>1, <3>2, <3>3, <3>4
  <2>2. st' = [st EXCEPT ![op[p].kid] = "unused"] BY <2>1 DEF ForkFails
  <2> QED BY <1>2, <2>2
<1>6. CASE \E n \in Incs : SbrkGrows(p, n) \/ SbrkShrinks(p, n) BY <1>4, <1>6 DEF SbrkGrows, SbrkShrinks, procs
<1>7. CASE \E r \in Proc : Fork(p, r) BY <1>2, <1>7 DEF Fork
<1>8. CASE \E r \in Proc : Clone(p, r)
  <2>1. PICK r \in Proc : Clone(p, r) BY <1>8
  <2>2. st[r] = "unused" /\ st' = [st EXCEPT ![r] = "run"] BY <2>1 DEF Clone
  <2> QED BY <1>2, <2>2
<1>9. CASE \E prog \in Programs : Exec(p, prog) BY <1>4, <1>9 DEF Exec, procs
<1>10. CASE Setupkvm(p) BY <1>4, <1>5, <1>10 DEF Setupkvm, procs
<1>11. CASE AllocPage(p) BY <1>4, <1>5, <1>11 DEF AllocPage, Panic, procs
<1>12. CASE MapPage(p) BY <1>4, <1>5, <1>12 DEF MapPage, Panic, procs
<1>13. CASE SbrkDone(p) BY <1>4, <1>13 DEF SbrkDone
<1>14. CASE ForkDone(p)
  <2>1. st' = [st EXCEPT ![op[p].kid] = "run"] BY <1>14 DEF ForkDone
  <2>2. op[p].kid = q BY <1>2, <2>1
  <2> QED BY <1>14, <2>2
<1>15. CASE ExecBad(p) \/ ExecSegment(p) BY <1>4, <1>15 DEF ExecBad, ExecSegment, ExecFails, procs
<1>16. CASE \E n \in Args : ExecCommit(p, n) BY <1>4, <1>16 DEF ExecCommit, Commit, ExecFails, procs
<1>17. CASE Exit(p) BY <1>2, <1>17 DEF Exit
<1>18. CASE Wait(p) \/ Join(p) BY <1>2, <1>18 DEF Wait, Join, Clear
<1> QED BY <1>3, <1>6, <1>7, <1>8, <1>9, <1>10, <1>11, <1>12, <1>13, <1>14, <1>15, <1>16, <1>17, <1>18

(* The body of ChildCopies. *)
Copied(p, q) ==
    Looped(p, "fork") /\ op[p].kid = q /\ st'[q] = "run" /\ pgdir[p] \notin shared
       => LET mine == space[pgdir[p]] IN LET its == space'[pgdir'[q]]
          IN  /\ sz'[q] = sz[p]
              /\ \A g \in Page : /\ mine.pte[g] = 0 <=> its.pte[g] = 0
                                 /\ mine.pte[g] # 0 => (g \in mine.user <=> g \in its.user)

(* When fork() is done, the child has the size, the pages and the           *)
(* permissions of its parent.                                               *)
LEMMA StepCopies == ASSUME Inv, Next, NEW p \in Proc, NEW q \in Proc PROVE Copied(p, q)
<1>1. SUFFICES ASSUME Looped(p, "fork"), op[p].kid = q, st'[q] = "run", pgdir[p] \notin shared
               PROVE  /\ sz'[q] = sz[p]
                      /\ \A g \in Page :
                           /\ space[pgdir[p]].pte[g] = 0 <=> space'[pgdir'[q]].pte[g] = 0
                           /\ space[pgdir[p]].pte[g] # 0 => (g \in space[pgdir[p]].user <=> g \in space'[pgdir'[q]].user)
  BY DEF Copied
<1> DEFINE w == op[p]
           mine == space[pgdir[p]]
<1>2. w.call = "fork" /\ w.at = "page" /\ w.a >= w.lim BY <1>1 DEF Looped
<1>3. TypeOK /\ KidsDiffer /\ LoopKept(p) BY InvIs
<1>4. st[q] = "embryo" /\ w.lim = sz[p] /\ pgdir[p] \in Proc BY <1>1, <1>2, ForkIs
<1>5. PICK r \in Proc : ForkDone(r) /\ op[r].kid = q BY <1>1, <1>4, EmbryoRuns
<1>6. r = p
  <2>1. op[r].call = "fork" BY <1>5 DEF ForkDone, Looped
  <2> QED BY <1>1, <1>2, <1>3, <1>5, <2>1 DEF KidsDiffer
<1>7. space'[pgdir'[q]] = w.new /\ sz'[q] = sz[p]
  <2>1. /\ \E d \in Proc : space' = [space EXCEPT ![d] = w.new] /\ pgdir' = [pgdir EXCEPT ![q] = d]
        /\ sz' = [sz EXCEPT ![q] = sz[p]]
    BY <1>5, <1>6 DEF ForkDone
  <2> QED BY <1>3, <2>1 DEF TypeOK
<1>8. Own(p) BY <1>1, <1>4 DEF Own, Proc
<1>9. /\ Mapped(w.new, w.a) /\ Mapped(mine, sz[p]) /\ SameUser(w.new, mine, w.a)
      /\ Aligned(w.a) /\ w.a < w.lim + PGSIZE
  BY <1>2, <1>3, <1>8 DEF LoopKept
<1>10. w.a \in Nat /\ w.lim \in Nat BY <1>3, Constants DEF TypeOK, Ops
<1>11. \A g \in Page : g * PGSIZE < w.a <=> g * PGSIZE < w.lim BY <1>2, <1>9, <1>10, Below
<1> HIDE DEF w, mine
<1>12. ASSUME NEW g \in Page
       PROVE  /\ mine.pte[g] = 0 <=> w.new.pte[g] = 0
              /\ mine.pte[g] # 0 => (g \in mine.user <=> g \in w.new.user)
  <2>1. mine.pte[g] # 0 <=> g * PGSIZE < w.a BY <1>4, <1>9, <1>11 DEF Mapped
  <2>2. w.new.pte[g] # 0 <=> g * PGSIZE < w.a BY <1>9 DEF Mapped
  <2>3. g * PGSIZE < w.a => (g \in w.new.user <=> g \in mine.user) BY <1>9 DEF SameUser
  <2> QED BY <2>1, <2>2, <2>3
<1> QED BY <1>7, <1>12 DEF mine

(* What fetchint(), argptr() and argstr() accept is backed by pages of the  *)
(* process to its last byte, in spite of the wrap at 2^32.                  *)
THEOREM ArgsMappedHolds == Spec => []ArgsMapped
<1>1. Inv => ArgsMapped BY ArgsBacked
<1>2. Ended => ArgsMapped BY DEF Ended, ArgsMapped
<1> QED BY <1>1, <1>2, InvHolds, PTL

(* A child starts with the size of its parent, the same pages, and PTE_U on *)
(* the same ones.                                                           *)
THEOREM ChildCopiesHolds == Spec => ChildCopies
<1>1. (Inv \/ Ended) /\ [Next]_vars => [\A p, q \in Proc : Copied(p, q)]_vars
  <2>1. Ended => ~Next BY DEF Ended, Next
  <2> QED BY <2>1, StepCopies
<1>2. ChildCopies <=> [][\A p, q \in Proc : Copied(p, q)]_vars BY DEF ChildCopies, Copied
<1> QED BY <1>1, <1>2, InvHolds, PTL DEF Spec
=============================================================================
