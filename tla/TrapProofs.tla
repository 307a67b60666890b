----------------------------- MODULE TrapProofs -----------------------------
(* Proofs about the console and the clock: for any processes, any INPUT_BUF *)
(* that divides the range of the indices, and any input.                    *)
EXTENDS Trap, SequenceTheorems, WellFoundedInduction, TLAPS

-----------------------------------------------------------------------------
(* Indices modulo UINT. *)

LEMMA Sizes == INPUT_BUF \in Nat /\ INPUT_BUF > 0 /\ UINT \in Nat /\ UINT > INPUT_BUF
BY ConsoleAssumption

LEMMA ModRange == ASSUME NEW x \in Int PROVE x % UINT \in 0..(UINT - 1)
BY Sizes

LEMMA ModIs ==
    ASSUME NEW x \in Int, NEW r \in 0..(UINT - 1), x = r \/ x = r + UINT \/ x = r - UINT
    PROVE  x % UINT = r
<1>1. CASE x = r BY <1>1, Sizes
<1>2. CASE x = r + UINT BY <1>2, Sizes
<1>3. CASE x = r - UINT BY <1>3, Sizes
<1> QED BY <1>1, <1>2, <1>3

(* Two indices and their distance. *)
Apart(a, b, d) == b = a + d \/ b = a + d - UINT

LEMMA Gap ==
    ASSUME NEW a \in 0..(UINT - 1), NEW b \in 0..(UINT - 1)
    PROVE  (b - a) % UINT \in 0..(UINT - 1) /\ Apart(a, b, (b - a) % UINT)
<1>1. CASE b >= a
  <2>1. b - a \in 0..(UINT - 1) /\ b - a \in Int BY <1>1, Sizes
  <2>2. (b - a) % UINT = b - a BY <2>1, ModIs
  <2> QED BY <2>1, <2>2, Sizes DEF Apart
<1>2. CASE b < a
  <2>1. b - a + UINT \in 0..(UINT - 1) /\ b - a \in Int /\ b - a = (b - a + UINT) - UINT BY <1>2, Sizes
  <2>2. (b - a) % UINT = b - a + UINT BY <2>1, ModIs
  <2> QED BY <2>1, <2>2, Sizes DEF Apart
<1> QED BY <1>1, <1>2, Sizes

LEMMA GapFrom ==
    ASSUME NEW a \in 0..(UINT - 1), NEW b \in 0..(UINT - 1), NEW d \in 0..(UINT - 1),
           Apart(a, b, d) \/ b = a + d + UINT
    PROVE  (b - a) % UINT = d
<1>1. b - a \in Int /\ (b - a = d \/ b - a = d + UINT \/ b - a = d - UINT) BY Sizes DEF Apart
<1> QED BY <1>1, ModIs

(* An index moved on by d, or back by d. *)
LEMMA Moved ==
    ASSUME NEW a \in 0..(UINT - 1), NEW d \in 0..(UINT - 1)
    PROVE  /\ (a + d) % UINT \in 0..(UINT - 1) /\ Apart(a, (a + d) % UINT, d)
           /\ (a - d) % UINT \in 0..(UINT - 1) /\ Apart((a - d) % UINT, a, d)
<1>1. (a + d) % UINT \in 0..(UINT - 1) /\ Apart(a, (a + d) % UINT, d)
  <2>1. CASE a + d < UINT
    <3>1. a + d \in Int /\ a + d \in 0..(UINT - 1) BY <2>1, Sizes
    <3> QED BY <3>1, ModIs DEF Apart
  <2>2. CASE a + d >= UINT
    <3>1. a + d \in Int /\ a + d - UINT \in 0..(UINT - 1) /\ a + d = (a + d - UINT) + UINT BY <2>2, Sizes
    <3> QED BY <3>1, ModIs DEF Apart
  <2> QED BY <2>1, <2>2, Sizes
<1>2. (a - d) % UINT \in 0..(UINT - 1) /\ Apart((a - d) % UINT, a, d)
  <2>1. CASE a >= d
    <3>1. a - d \in Int /\ a - d \in 0..(UINT - 1) /\ a = (a - d) + d BY <2>1, Sizes
    <3> QED BY <3>1, ModIs DEF Apart
  <2>2. CASE a < d
    <3>1. /\ a - d \in Int /\ a - d + UINT \in 0..(UINT - 1) /\ a - d = (a - d + UINT) - UINT
          /\ a = (a - d + UINT) + d - UINT
      BY <2>2, Sizes
    <3> QED BY <3>1, ModIs DEF Apart
  <2> QED BY <2>1, <2>2, Sizes
<1> QED BY <1>1, <1>2

(* Distances add up. *)
LEMMA GapAdd ==
    ASSUME NEW a \in 0..(UINT - 1), NEW b \in 0..(UINT - 1), NEW c \in 0..(UINT - 1),
           NEW d \in 0..(UINT - 1), NEW f \in 0..(UINT - 1), Apart(a, b, d), Apart(b, c, f), d + f < UINT
    PROVE  (c - a) % UINT = d + f
<1>1. d + f \in 0..(UINT - 1) BY Sizes
<1>2. Apart(a, c, d + f) BY Sizes DEF Apart
<1> QED BY <1>1, <1>2, GapFrom

LEMMA GapRest ==
    ASSUME NEW a \in 0..(UINT - 1), NEW b \in 0..(UINT - 1), NEW c \in 0..(UINT - 1),
           NEW d \in 0..(UINT - 1), NEW f \in 0..d, Apart(a, c, d),
           Apart(a, b, f)
    PROVE  (c - b) % UINT = d - f
<1>1. d - f \in 0..(UINT - 1) BY Sizes
<1>2. Apart(b, c, d - f) \/ c = b + (d - f) + UINT BY Sizes DEF Apart
<1> QED BY <1>1, <1>2, GapFrom

LEMMA GapBefore ==
    ASSUME NEW a \in 0..(UINT - 1), NEW b \in 0..(UINT - 1), NEW c \in 0..(UINT - 1),
           NEW d \in 0..(UINT - 1), NEW f \in 0..d, Apart(a, c, d),
           Apart(b, c, f)
    PROVE  (b - a) % UINT = d - f
<1>1. d - f \in 0..(UINT - 1) BY Sizes
<1>2. Apart(a, b, d - f) \/ b = a + (d - f) + UINT BY Sizes DEF Apart
<1> QED BY <1>1, <1>2, GapFrom

-----------------------------------------------------------------------------
(* The least of some naturals. *)

LEMMA LessThan == IsWellFoundedOn({x \in Nat \X Nat : x[1] < x[2]}, Nat)
BY Zenon, NatLessThanWellFounded DEF OpToRel

LEMMA MinIs ==
    ASSUME NEW S \in SUBSET Nat, S # {}
    PROVE  Min(S) \in S /\ \A y \in S : Min(S) <= y
<1>1. PICK x \in S : \A y \in S : ~(<<y, x>> \in {z \in Nat \X Nat : z[1] < z[2]})
  BY LessThan, WFMin
<1>2. ASSUME NEW y \in S PROVE x <= y
  <2>1. x \in Nat /\ y \in Nat OBVIOUS
  <2>2. ~(<<y, x>>[1] < <<y, x>>[2]) BY <1>1, <2>1
  <2> QED BY <2>1, <2>2
<1> QED BY <1>2 DEF Min

-----------------------------------------------------------------------------
(* What the parts of consoleintr() and consoleread() do to the ring. *)

Char == {"nul", "x", "nl", "eof"}
Index == 0..(UINT - 1)
Cells == 0..(INPUT_BUF - 1)
Inputs == [buf : [Cells -> Char], r : Index, w : Index, e : Index]
Calling == [at : {"user", "read", "readsleep", "nap", "napsleep", "ret", "gone"},
            n : Nat, target : Nat, ticks0 : Index, slept : Nat]

LEMMA TypesAre ==
    TypeOK <=> input \in Inputs /\ k \in [Proc -> Calling] /\ killed \in [Proc -> BOOLEAN] /\ ticks \in Index
BY DEF TypeOK, Inputs, Char, Index, Cells, Calling

LEMMA IndicesAre ==
    ASSUME input \in Inputs, RingFits
    PROVE  /\ input.r \in Index /\ input.w \in Index /\ input.e \in Index
           /\ Held \in Index /\ Editing \in Index /\ Held \in Nat /\ Editing \in Nat
           /\ Held + Editing \in 0..INPUT_BUF /\ Held + Editing < UINT
           /\ Apart(input.r, input.w, Held) /\ Apart(input.w, input.e, Editing)
           /\ (input.e - input.r) % UINT = Held + Editing
<1>1. input.r \in Index /\ input.w \in Index /\ input.e \in Index BY DEF Inputs
<1>2. Held \in Index /\ Apart(input.r, input.w, Held) BY <1>1, Gap DEF Held, Index
<1>3. Editing \in Index /\ Apart(input.w, input.e, Editing) BY <1>1, Gap DEF Editing, Index
<1>4. Held + Editing \in 0..INPUT_BUF /\ Held + Editing < UINT BY <1>2, <1>3, Sizes DEF Index, RingFits
<1>5. (input.e - input.r) % UINT = Held + Editing BY <1>1, <1>2, <1>3, <1>4, GapAdd DEF Index
<1>6. Held \in Nat /\ Editing \in Nat BY <1>2, <1>3, Sizes DEF Index
<1> QED BY <1>1, <1>2, <1>3, <1>4, <1>5, <1>6

LEMMA CellRange == ASSUME NEW x \in Int PROVE x % INPUT_BUF \in Cells
BY Sizes DEF Cells

(* A character more: it is committed with the line, or stays to be edited. *)
LEMMA PutIs ==
    ASSUME input \in Inputs, RingFits, NEW c \in {"x", "nl", "eof"}, Put(c)
    PROVE  /\ input' \in Inputs /\ input'.r = input.r
           /\ Held + Editing < INPUT_BUF
           /\ Commits(c) <=> (c \in {"nl", "eof"} \/ Held + Editing + 1 = INPUT_BUF)
           /\ input'.buf = [input.buf EXCEPT ![input.e % INPUT_BUF] = c]
           /\ Commits(c) => /\ Held' = Held + Editing + 1 /\ Editing' = 0
                            /\ k' = [p \in Proc |-> Woken(p)]
           /\ ~Commits(c) => /\ Held' = Held /\ Editing' = Editing + 1 /\ input'.w = input.w
                             /\ k' = k
<1> DEFINE r == input.r
           w == input.w
           e == input.e
           f == (input.e + 1) % UINT
           h == Held
           d == Editing
<1>1. /\ r \in Index /\ w \in Index /\ e \in Index /\ h \in Index /\ d \in Index /\ h \in Nat /\ d \in Nat
      /\ h + d \in 0..INPUT_BUF /\ h + d < UINT /\ Apart(r, w, h) /\ Apart(w, e, d) /\ (e - r) % UINT = h + d
  BY IndicesAre
<1>2. h + d < INPUT_BUF BY <1>1 DEF Put, Room
<1>3. f \in Index /\ Apart(e, f, 1)
  <2>1. 1 \in 0..(UINT - 1) BY Sizes
  <2> QED BY <1>1, <2>1, Moved DEF Index
<1>4. /\ input' = [input EXCEPT !.buf[e % INPUT_BUF] = c, !.e = f, !.w = IF Commits(c) THEN f ELSE w]
      /\ k' = IF Commits(c) THEN [p \in Proc |-> Woken(p)] ELSE k
  BY DEF Put
<1>5. e % INPUT_BUF \in Cells
  <2>1. e \in Int BY <1>1, Sizes DEF Index
  <2> QED BY <2>1, CellRange
<1>6. /\ input'.r = r /\ input'.e = f /\ input'.w = (IF Commits(c) THEN f ELSE w)
      /\ input'.buf = [input.buf EXCEPT ![e % INPUT_BUF] = c]
  BY <1>4 DEF Inputs
<1>7. input' \in Inputs
  <2>1. [input.buf EXCEPT ![e % INPUT_BUF] = c] \in [Cells -> Char] BY <1>5 DEF Inputs, Char
  <2> HIDE DEF f
  <2> QED BY <1>1, <1>3, <1>4, <2>1 DEF Inputs
<1>8. Held' = (input'.w - input'.r) % UINT /\ Editing' = (input'.e - input'.w) % UINT BY DEF Held, Editing
<1>9. Commits(c) <=> (c \in {"nl", "eof"} \/ f = (r + INPUT_BUF) % UINT) BY DEF Commits
<1> HIDE DEF r, w, e, f, h, d
<1>10. f = (r + INPUT_BUF) % UINT <=> h + d + 1 = INPUT_BUF
  <2>1. INPUT_BUF \in 0..(UINT - 1) BY Sizes
  <2>2. /\ (r + INPUT_BUF) % UINT \in Index /\ Apart(r, (r + INPUT_BUF) % UINT, INPUT_BUF)
    BY <1>1, <2>1, Moved DEF Index
  <2> DEFINE g == (r + INPUT_BUF) % UINT
  <2>3. g \in Index /\ Apart(r, g, INPUT_BUF) BY <2>2
  <2> HIDE DEF g
  <2>4. f = g <=> h + d + 1 = INPUT_BUF BY <1>1, <1>2, <1>3, <2>3, Sizes DEF Apart, Index
  <2> QED BY <2>4 DEF g
<1>11. (f - r) % UINT = h + d + 1
  <2>1. h + d + 1 \in 0..(UINT - 1) /\ (Apart(r, f, h + d + 1) \/ f = r + (h + d + 1) + UINT)
    BY <1>1, <1>2, <1>3, Sizes DEF Apart, Index
  <2> QED BY <1>1, <1>3, <2>1, GapFrom DEF Index
<1>12. (f - w) % UINT = d + 1
  <2>1. d + 1 \in 0..(UINT - 1) /\ (Apart(w, f, d + 1) \/ f = w + (d + 1) + UINT)
    BY <1>1, <1>2, <1>3, Sizes DEF Apart, Index
  <2> QED BY <1>1, <1>3, <2>1, GapFrom DEF Index
<1>13. Commits(c) => Held' = h + d + 1 /\ Editing' = 0
  <2>1. (f - f) % UINT = 0 BY <1>3, Sizes DEF Index
  <2> QED BY <1>6, <1>8, <1>11, <2>1
<1>14. ~Commits(c) => Held' = h /\ Editing' = d + 1 /\ input'.w = w
  <2>1. h = (w - r) % UINT BY DEF h, w, r, Held
  <2> QED BY <1>6, <1>8, <1>12, <2>1
<1> QED BY <1>2, <1>4, <1>6, <1>7, <1>9, <1>10, <1>13, <1>14 DEF r, w, e, f, h, d

(* Characters of the line taken back. *)
LEMMA BackIs ==
    ASSUME input \in Inputs, RingFits, NEW n \in 0..Editing, Back(n)
    PROVE  /\ input' \in Inputs /\ input'.r = input.r /\ input'.w = input.w /\ input'.buf = input.buf
           /\ Held' = Held /\ Editing' = Editing - n /\ k' = k
<1> DEFINE w == input.w
           e == input.e
           f == (input.e - n) % UINT
           d == Editing
<1>1. w \in Index /\ e \in Index /\ d \in Index /\ Apart(w, e, d) BY IndicesAre
<1>2. n \in 0..(UINT - 1) BY <1>1, Sizes DEF Index
<1>3. f \in Index /\ Apart(f, e, n) BY <1>1, <1>2, Moved DEF Index
<1>4. input' = [input EXCEPT !.e = f] /\ k' = k BY DEF Back
<1>5. input'.r = input.r /\ input'.w = w /\ input'.buf = input.buf /\ input'.e = f BY <1>4 DEF Inputs
<1>6. input' \in Inputs
  <2> HIDE DEF f
  <2> QED BY <1>3, <1>4 DEF Inputs
<1>7. Held' = (input'.w - input'.r) % UINT /\ Editing' = (input'.e - input'.w) % UINT BY DEF Held, Editing
<1>8. Held' = Held BY <1>5, <1>7 DEF Held
<1>9. n \in 0..d OBVIOUS
<1> HIDE DEF w, e, f, d
<1>10. (f - w) % UINT = d - n BY <1>1, <1>3, <1>9, GapBefore DEF Index
<1> QED BY <1>4, <1>5, <1>6, <1>7, <1>8, <1>10 DEF w, d

LEMMA LineLengthIs ==
    ASSUME input \in Inputs, RingFits
    PROVE  LineLength \in 0..Editing
<1> DEFINE S == {n \in 0..Editing : n = Editing \/ At(input.e - n - 1) = "nl"}
<1>1. Editing \in Nat BY IndicesAre
<1>2. S \in SUBSET Nat /\ Editing \in S BY <1>1
<1>3. S # {} BY <1>2
<1>4. S \subseteq 0..Editing OBVIOUS
<1>5. LineLength = Min(S) BY DEF LineLength
<1> HIDE DEF S
<1> QED BY <1>2, <1>3, <1>4, <1>5, MinIs

(* What the inner loop of consoleread() stops at. *)
LEMMA CopiedIs ==
    ASSUME Held \in Nat, NEW n \in Nat
    PROVE  /\ Copied(n) \in 0..Held /\ Copied(n) <= n
           /\ \/ Copied(n) = n \/ Copied(n) = Held
              \/ Copied(n) > 0 /\ Avail[Copied(n)] = "nl"
              \/ Copied(n) < Held /\ Avail[Copied(n) + 1] = "eof"
<1> DEFINE N == {i \in 1..Held : Avail[i] = "nl"}
           E == {i - 1 : i \in {j \in 1..Held : Avail[j] = "eof"}}
           S == {n, Held} \cup N \cup E
           m == Min(S)
<1>1. N \subseteq 0..Held /\ E \subseteq 0..Held OBVIOUS
<1>2. S \in SUBSET Nat /\ n \in S /\ Held \in S BY <1>1
<1>3. S # {} BY <1>2
<1>4. Copied(n) = m BY DEF Copied
<1>5. m \in S /\ \A y \in S : m <= y
  <2> HIDE DEF S
  <2> QED BY <1>2, <1>3, MinIs
<1>6. m <= n /\ m <= Held /\ m \in Nat BY <1>2, <1>5
<1>7. CASE m \in N
  <2>1. m > 0 /\ Avail[m] = "nl" BY <1>7
  <2> QED BY <1>4, <1>6, <2>1
<1>8. CASE m \in E
  <2>1. PICK i \in 1..Held : Avail[i] = "eof" /\ m = i - 1 BY <1>8
  <2>2. m < Held /\ m + 1 = i BY <2>1
  <2>3. Avail[m + 1] = "eof" BY <2>1, <2>2
  <2> QED BY <1>4, <1>6, <2>2, <2>3
<1>9. CASE m \in {n, Held} BY <1>4, <1>6, <1>9
<1> QED BY <1>5, <1>7, <1>8, <1>9

(* consoleread() takes characters from the front, all of them if it goes to *)
(* sleep.                                                                   *)
LEMMA ReadIs ==
    ASSUME input \in Inputs, RingFits, k \in [Proc -> Calling], NEW p \in Proc, ConsoleRead(p)
    PROVE  /\ k' \in [Proc -> Calling] /\ \A q \in Proc \ {p} : k'[q] = k[q]
           /\ k[p].at = "read" /\ k'[p].at \in {"ret", "readsleep"}
           /\ \E d \in 0..Held :
                /\ input' = [input EXCEPT !.r = (input.r + d) % UINT]
                /\ k'[p].at = "readsleep" => d = Held
<1> DEFINE n == k[p].n
           m == Copied(n)
           eof == m < n /\ m < Held /\ Avail[m + 1] = "eof"
           nl == m > 0 /\ Avail[m] = "nl"
           eats == IF eof /\ n - m = k[p].target THEN 1 ELSE 0
           d == m + eats
<1>1. k[p] \in Calling OBVIOUS
<1>2. n \in Nat BY <1>1 DEF Calling
<1>3. Held \in Nat /\ input.r \in Index BY IndicesAre
<1>4. /\ m \in 0..Held /\ m <= n
      /\ m = n \/ m = Held \/ (m > 0 /\ Avail[m] = "nl") \/ (m < Held /\ Avail[m + 1] = "eof")
  BY <1>2, <1>3, CopiedIs
<1>5. /\ k[p].at = "read"
      /\ input' = [input EXCEPT !.r = (@ + m + eats) % UINT]
      /\ \/ /\ m = n \/ eof \/ nl
            /\ Goto(p, [k[p] EXCEPT !.at = "ret", !.n = 0, !.target = 0])
         \/ /\ ~(m = n \/ eof \/ nl)
            /\ Goto(p, IF killed[p] THEN [k[p] EXCEPT !.at = "ret", !.n = 0, !.target = 0]
                                    ELSE [k[p] EXCEPT !.at = "readsleep", !.n = n - m])
  BY DEF ConsoleRead
<1>6. eats \in {0, 1} /\ (eats = 1 => m < Held) OBVIOUS
<1>7. d \in 0..Held
  <2> HIDE DEF m, eats
  <2> QED BY <1>3, <1>4, <1>6
<1>8. input' = [input EXCEPT !.r = (input.r + d) % UINT]
  <2>1. input.r + m + eats = input.r + d
    <3> HIDE DEF m, eats
    <3> QED BY <1>3, <1>4, <1>6, Sizes DEF Index
  <2> QED BY <1>5, <2>1 DEF Inputs
<1>9. PICK o \in Calling : /\ k' = [k EXCEPT ![p] = o]
                           /\ o.at \in {"ret", "readsleep"}
                           /\ o.at = "readsleep" => ~(m = n \/ eof \/ nl)
  <2> DEFINE back == [k[p] EXCEPT !.at = "ret", !.n = 0, !.target = 0]
             rest == [k[p] EXCEPT !.at = "readsleep", !.n = n - m]
  <2>1. back \in Calling /\ back.at = "ret" BY <1>1 DEF Calling
  <2>2. n - m \in Nat
    <3> HIDE DEF m, n
    <3> QED BY <1>2, <1>3, <1>4
  <2>3. rest \in Calling /\ rest.at = "readsleep" BY <1>1, <2>2 DEF Calling
  <2> HIDE DEF m, eof, nl, back, rest
  <2>4. k' = [k EXCEPT ![p] = back] \/ (k' = [k EXCEPT ![p] = rest] /\ ~(m = n \/ eof \/ nl))
    BY <1>5 DEF Goto, back, rest
  <2>5. CASE k' = [k EXCEPT ![p] = back] BY <2>1, <2>5
  <2>6. CASE k' = [k EXCEPT ![p] = rest] /\ ~(m = n \/ eof \/ nl) BY <2>3, <2>6
  <2> QED BY <2>4, <2>5, <2>6
<1>10. k' \in [Proc -> Calling] /\ k'[p] = o /\ \A q \in Proc \ {p} : k'[q] = k[q] BY <1>9
<1>11. o.at = "readsleep" => d = Held
  <2>1. ASSUME ~(m = n \/ eof \/ nl) PROVE m = Held /\ eats = 0
    <3>1. m < n
      <4> HIDE DEF m, n
      <4> QED BY <1>2, <1>3, <1>4, <2>1
    <3>2. m = Held BY <1>4, <2>1, <3>1
    <3> QED BY <2>1, <3>2
  <2>2. ASSUME m = Held, eats = 0 PROVE d = Held
    <3> HIDE DEF m, eats
    <3> QED BY <1>3, <2>2
  <2> QED BY <1>9, <2>1, <2>2
<1> QED BY <1>5, <1>7, <1>8, <1>9, <1>10, <1>11

(* Characters taken from the front. *)
LEMMA TakeIs ==
    ASSUME input \in Inputs, RingFits, NEW d \in 0..Held, input' = [input EXCEPT !.r = (input.r + d) % UINT]
    PROVE  /\ input' \in Inputs /\ input'.w = input.w /\ input'.e = input.e /\ input'.buf = input.buf
           /\ input'.r \in Index /\ Apart(input.r, input'.r, d)
           /\ Held' = Held - d /\ Editing' = Editing
<1> DEFINE r == input.r
           w == input.w
           s == (input.r + d) % UINT
           h == Held
<1>1. r \in Index /\ w \in Index /\ h \in Index /\ Apart(r, w, h) BY IndicesAre
<1>2. d \in 0..(UINT - 1) BY <1>1, Sizes DEF Index
<1>3. s \in Index /\ Apart(r, s, d) BY <1>1, <1>2, Moved DEF Index
<1>4. input'.r = s /\ input'.w = w /\ input'.e = input.e /\ input'.buf = input.buf BY DEF Inputs
<1>5. input' \in Inputs
  <2> HIDE DEF s
  <2> QED BY <1>3 DEF Inputs, s
<1>6. Held' = (input'.w - input'.r) % UINT /\ Editing' = (input'.e - input'.w) % UINT BY DEF Held, Editing
<1>7. Editing' = Editing BY <1>4, <1>6 DEF Editing
<1>8. d \in 0..h OBVIOUS
<1> HIDE DEF r, w, s, h
<1>9. (w - s) % UINT = h - d BY <1>1, <1>3, <1>8, GapRest DEF Index
<1> QED BY <1>3, <1>4, <1>5, <1>6, <1>7, <1>9 DEF r, w, h

-----------------------------------------------------------------------------
(* ConsoleInv is inductive. *)


LEMMA InvIs ==
    ConsoleInv <=> /\ input \in Inputs /\ RingFits
                   /\ k \in [Proc -> Calling] /\ killed \in [Proc -> BOOLEAN] /\ ticks \in Index
                   /\ NoStuckReader /\ NoStuckModifier /\ SleepCounted
BY TypesAre DEF ConsoleInv

LEMMA InvNext ==
    ASSUME input' \in Inputs, RingFits', k' \in [Proc -> Calling], killed' \in [Proc -> BOOLEAN], ticks' \in Index,
           NoStuckReader', NoStuckModifier', SleepCounted'
    PROVE  ConsoleInv'
BY DEF ConsoleInv, TypeOK, Inputs, Char, Index, Cells, Calling

LEMMA InitInv == Init => ConsoleInv
<1> SUFFICES ASSUME Init PROVE ConsoleInv OBVIOUS
<1>1. 0 \in Index BY Sizes DEF Index
<1>2. Call \in Calling BY <1>1 DEF Call, Calling
<1>3. input \in Inputs
  <2>1. [i \in Cells |-> "nul"] \in [Cells -> Char] BY DEF Char
  <2> QED BY <1>1, <2>1 DEF Init, ConInit, Inputs, Cells
<1>4. Held = 0 /\ Editing = 0
  <2>1. (0 - 0) % UINT = 0 BY Sizes
  <2> QED BY <2>1 DEF Init, ConInit, Held, Editing
<1>5. RingFits BY <1>4, Sizes DEF RingFits
<1>6. k \in [Proc -> Calling] /\ killed \in [Proc -> BOOLEAN] /\ ticks \in Index BY <1>1, <1>2 DEF Init
<1>7. \A p \in Proc : k[p].at = "user" BY DEF Init, Call
<1>8. NoStuckReader /\ NoStuckModifier /\ SleepCounted
  BY <1>7 DEF NoStuckReader, NoStuckModifier, SleepCounted, Napping, Init, ConInit
<1> QED BY <1>3, <1>5, <1>6, <1>8, InvIs

(* One character: the ring stays sound, and whoever sleeps beside input is  *)
(* woken; the other processes keep what they do.                            *)
LEMMA IntrIs ==
    ASSUME ConsoleInv, NEW c, Consoleintr(c)
    PROVE  /\ input' \in Inputs /\ RingFits' /\ k' \in [Proc -> Calling] /\ NoStuckReader'
           /\ \A p \in Proc : k'[p] = k[p] \/ (k[p].at = "readsleep" /\ k'[p].at = "read")
<1>1. /\ input \in Inputs /\ RingFits /\ k \in [Proc -> Calling] /\ NoStuckReader BY InvIs
<1>2. Held \in Nat /\ Editing \in Nat /\ Held + Editing \in 0..INPUT_BUF BY <1>1, IndicesAre
<1>3. CASE c \in {"x", "nl", "eof"} /\ Put(c)
  <2>1. /\ input' \in Inputs
        /\ Held + Editing < INPUT_BUF
        /\ Commits(c) => /\ Held' = Held + Editing + 1 /\ Editing' = 0 /\ k' = [p \in Proc |-> Woken(p)]
        /\ ~Commits(c) => Held' = Held /\ Editing' = Editing + 1 /\ k' = k
    BY <1>1, <1>3, PutIs
  <2>2. CASE Commits(c)
    <3>1. RingFits' BY <1>2, <2>1, <2>2, Sizes DEF RingFits
    <3>2. k' = [p \in Proc |-> Woken(p)] BY <2>1, <2>2
    <3>3. ASSUME NEW p \in Proc
          PROVE  /\ Woken(p) \in Calling /\ Woken(p).at # "readsleep"
                 /\ Woken(p) = k[p] \/ (k[p].at = "readsleep" /\ Woken(p).at = "read")
      <4>1. k[p] \in Calling BY <1>1
      <4> QED BY <4>1 DEF Woken, Calling
    <3>4. NoStuckReader' BY <3>2, <3>3 DEF NoStuckReader
    <3> QED BY <2>1, <3>1, <3>2, <3>3, <3>4
  <2>3. CASE ~Commits(c)
    <3>1. RingFits' BY <1>2, <2>1, <2>3, Sizes DEF RingFits
    <3>2. NoStuckReader' BY <1>1, <2>1, <2>3 DEF NoStuckReader
    <3> QED BY <1>1, <2>1, <2>3, <3>1, <3>2
  <2> QED BY <2>2, <2>3
<1>4. ASSUME NEW n \in 0..Editing, Back(n)
      PROVE  input' \in Inputs /\ RingFits' /\ k' = k /\ NoStuckReader'
  <2>1. input' \in Inputs /\ Held' = Held /\ Editing' = Editing - n /\ k' = k BY <1>1, <1>4, BackIs
  <2>2. RingFits' BY <1>2, <2>1, Sizes DEF RingFits
  <2>3. NoStuckReader' BY <1>1, <2>1 DEF NoStuckReader
  <2> QED BY <2>1, <2>2, <2>3
<1>5. CASE c = "bs" /\ Editing > 0 /\ Back(1)
  <2>1. 1 \in 0..Editing BY <1>2, <1>5
  <2> QED BY <1>1, <1>4, <1>5, <2>1
<1>6. CASE c = "ku" /\ Back(LineLength)
  <2>1. LineLength \in 0..Editing BY <1>1, LineLengthIs
  <2> QED BY <1>1, <1>4, <1>6, <2>1
<1>7. CASE UNCHANGED <<input, k>>
  <2>1. RingFits' /\ NoStuckReader' BY <1>1, <1>7 DEF RingFits, NoStuckReader, Held, Editing
  <2> QED BY <1>1, <1>7, <2>1
<1> QED BY <1>3, <1>5, <1>6, <1>7 DEF Consoleintr

LEMMA CountedStill ==
    ASSUME SleepCounted, ticks' = ticks,
           \A p \in Proc : k'[p] = k[p] \/ k'[p].at \notin Napping
    PROVE  SleepCounted'
BY DEF SleepCounted, Counted, Napping

LEMMA IrqStep == ConsoleInv /\ Irq => ConsoleInv'
<1> SUFFICES ASSUME ConsoleInv, Irq PROVE ConsoleInv' OBVIOUS
<1>1. \E c : Consoleintr(c) BY DEF Irq, Uartintr, Kbdintr, PressD, Escape, PressCtl, ReleaseCtl
<1>2. /\ input' \in Inputs /\ RingFits' /\ k' \in [Proc -> Calling] /\ NoStuckReader'
      /\ \A p \in Proc : k'[p] = k[p] \/ (k[p].at = "readsleep" /\ k'[p].at = "read")
  BY <1>1, IntrIs
<1>3. killed' = killed /\ ticks' = ticks
  BY DEF Irq, Uartintr, Kbdintr, PressD, Escape, PressCtl, ReleaseCtl
<1>4. killed \in [Proc -> BOOLEAN] /\ ticks \in Index /\ NoStuckModifier /\ SleepCounted BY InvIs
<1>5. SleepCounted'
  <2>1. \A p \in Proc : k'[p] = k[p] \/ k'[p].at \notin Napping BY <1>2 DEF Napping
  <2> QED BY <1>3, <1>4, <2>1, CountedStill
<1>6. NoStuckModifier'
  BY <1>4 DEF NoStuckModifier, Irq, Uartintr, Kbdintr, PressD, Escape, PressCtl, ReleaseCtl, Released
<1>7. killed' \in [Proc -> BOOLEAN] /\ ticks' \in Index BY <1>3, <1>4
<1> QED BY <1>2, <1>5, <1>6, <1>7, InvNext

(* The clock counts for everybody in sys_sleep() alike. *)
LEMMA TimerStep == ConsoleInv /\ Timer => ConsoleInv'
<1> SUFFICES ASSUME ConsoleInv, Timer PROVE ConsoleInv' OBVIOUS
<1>1. /\ input \in Inputs /\ RingFits /\ k \in [Proc -> Calling] /\ killed \in [Proc -> BOOLEAN] /\ ticks \in Index
      /\ NoStuckReader /\ NoStuckModifier /\ SleepCounted
  BY InvIs
<1>2. input' = input /\ shift' = shift /\ ctlkey' = ctlkey /\ killed' = killed BY DEF Timer, conVars
<1>3. k' = [p \in Proc |-> Ticked(p)] /\ ticks' = (ticks + 1) % UINT BY DEF Timer
<1>4. ticks' \in Index
  <2>1. ticks + 1 \in Int BY <1>1, Sizes DEF Index
  <2> QED BY <1>3, <2>1, ModRange DEF Index
<1>5. ASSUME NEW p \in Proc
      PROVE  /\ Ticked(p) \in Calling
             /\ k[p].at \notin Napping => Ticked(p) = k[p]
             /\ k[p].at \in Napping => /\ Ticked(p).at = "nap" /\ Ticked(p).ticks0 = k[p].ticks0
                                       /\ Ticked(p).target = k[p].target
                                       /\ Ticked(p).slept = IF k[p].slept < UINT THEN k[p].slept + 1 ELSE k[p].slept
  <2>1. k[p] \in Calling BY <1>1
  <2>2. k[p].slept + 1 \in Nat BY <2>1 DEF Calling
  <2> QED BY <2>1, <2>2 DEF Ticked, Calling, Napping
<1>6. k' \in [Proc -> Calling] BY <1>3, <1>5
<1>7. RingFits' BY <1>1, <1>2 DEF RingFits, Held, Editing
<1>8. NoStuckReader' BY <1>1, <1>2, <1>3, <1>5 DEF NoStuckReader, Held, Napping
<1>9. NoStuckModifier' BY <1>1, <1>2 DEF NoStuckModifier
<1>10. ASSUME NEW p \in Proc, k'[p].at \in Napping PROVE Counted(k[p])'
  <2>1. k'[p] = Ticked(p) BY <1>3
  <2>2. k[p].at \in Napping BY <1>5, <1>10, <2>1
  <2> DEFINE t == ticks
             a == k[p].ticks0
             s == k[p].slept
             u == ticks'
  <2>3. k'[p].slept = (IF s < UINT THEN s + 1 ELSE s) /\ k'[p].ticks0 = a /\ k'[p].target = k[p].target BY <1>5, <2>1, <2>2
  <2>4. a \in Index /\ t \in Index /\ u \in Index /\ s \in Nat
    <3>1. k[p] \in Calling BY <1>1
    <3> QED BY <1>1, <1>4, <3>1 DEF Calling
  <2>5. k[p].target < UINT /\ (s >= UINT \/ s = (t - a) % UINT) BY <1>1, <2>2 DEF SleepCounted, Counted
  <2>6. u = (t + 1) % UINT BY <1>3
  <2> HIDE DEF t, a, s, u
  <2>7. CASE s + 1 >= UINT
    <3>1. k'[p].slept >= UINT BY <2>3, <2>4, <2>7, Sizes
    <3> QED BY <2>3, <2>5, <3>1 DEF Counted
  <2>8. CASE s + 1 < UINT
    <3>1. s = (t - a) % UINT BY <2>4, <2>5, <2>8, Sizes
    <3>2. s \in Index /\ Apart(a, t, s) BY <2>4, <3>1, Gap DEF Index
    <3>3. 1 \in 0..(UINT - 1) BY Sizes
    <3>4. Apart(t, u, 1) BY <2>4, <2>6, <3>3, Moved DEF Index
    <3>5. (u - a) % UINT = s + 1 BY <2>4, <2>8, <3>2, <3>3, <3>4, GapAdd DEF Index
    <3>6. k'[p].slept = s + 1 BY <2>3, <2>4, <2>8, Sizes
    <3> QED BY <2>3, <2>5, <3>5, <3>6 DEF Counted, u
  <2> QED BY <2>4, <2>7, <2>8, Sizes
<1>11. SleepCounted' BY <1>10 DEF SleepCounted
<1>12. killed' \in [Proc -> BOOLEAN] /\ input' \in Inputs BY <1>1, <1>2
<1> QED BY <1>4, <1>6, <1>7, <1>8, <1>9, <1>11, <1>12, InvNext

(* A step of one process that leaves the console and the clock alone. *)
LEMMA CallStep ==
    ASSUME ConsoleInv, UNCHANGED <<conVars, ticks>>, killed' \in [Proc -> BOOLEAN],
           NEW p \in Proc, NEW o \in Calling, k' = [k EXCEPT ![p] = o],
           o.at # "readsleep", o.at \in Napping => Counted(o)
    PROVE  ConsoleInv'
<1>1. /\ input \in Inputs /\ RingFits /\ k \in [Proc -> Calling] /\ ticks \in Index
      /\ NoStuckReader /\ NoStuckModifier /\ SleepCounted
  BY InvIs
<1>2. k' \in [Proc -> Calling] /\ k'[p] = o /\ \A q \in Proc \ {p} : k'[q] = k[q] BY <1>1
<1>3. input' = input /\ shift' = shift /\ ctlkey' = ctlkey /\ ticks' = ticks BY DEF conVars
<1>4. RingFits' BY <1>1, <1>3 DEF RingFits, Held, Editing
<1>5. NoStuckReader'
  <2>1. \A q \in Proc : k'[q].at = "readsleep" => k[q].at = "readsleep" BY <1>2
  <2> QED BY <1>1, <1>3, <2>1 DEF NoStuckReader, Held
<1>6. NoStuckModifier' BY <1>1, <1>3 DEF NoStuckModifier
<1>7. SleepCounted'
  <2>1. ASSUME NEW q \in Proc, k'[q].at \in Napping PROVE Counted(k[q])'
    <3>1. CASE q = p BY <1>2, <1>3, <2>1, <3>1 DEF Counted
    <3>2. CASE q # p BY <1>1, <1>2, <1>3, <2>1, <3>2 DEF SleepCounted, Counted
    <3> QED BY <3>1, <3>2
  <2> QED BY <2>1 DEF SleepCounted
<1>8. input' \in Inputs /\ ticks' \in Index BY <1>1, <1>3
<1> QED BY <1>2, <1>4, <1>5, <1>6, <1>7, <1>8, InvNext

LEMMA Calls ==
    /\ Call \in Calling /\ Call.at = "user"
    /\ [Call EXCEPT !.at = "gone"] \in Calling /\ [Call EXCEPT !.at = "gone"].at = "gone"
    /\ [Call EXCEPT !.at = "ret"] \in Calling /\ [Call EXCEPT !.at = "ret"].at = "ret"
<1>1. 0 \in Index BY Sizes DEF Index
<1> QED BY <1>1 DEF Call, Calling

(* What a process may do next without a step of another one. *)
LEMMA StepStep ==
    ASSUME ConsoleInv, NEW p \in Proc,
           \/ \E n \in Counts : SysRead(p, n)
           \/ \E n \in Sleeps \cup {-1} : SysSleep(p, n)
           \/ Fault(p) \/ Kill(p) \/ Nap(p) \/ Return(p) \/ UserTrap(p)
    PROVE  ConsoleInv'
<1> DEFINE gone == [Call EXCEPT !.at = "gone"]
<1>1. /\ k \in [Proc -> Calling] /\ killed \in [Proc -> BOOLEAN] /\ ticks \in Index /\ SleepCounted
      /\ NoStuckReader
  BY InvIs
<1>2. k[p] \in Calling BY <1>1
<1>3. gone \in Calling /\ gone.at = "gone" BY Calls
<1>4. UNCHANGED <<conVars, ticks>> BY DEF SysRead, SysSleep, Syscall, Fault, Kill, Nap, Return, UserTrap
<1>5. killed' \in [Proc -> BOOLEAN]
  <2>1. killed' = killed \/ killed' = [killed EXCEPT ![p] = TRUE]
    BY DEF SysRead, SysSleep, Syscall, Fault, Kill, Nap, Return, UserTrap
  <2> QED BY <1>1, <2>1
<1>6. ASSUME NEW o \in Calling, Goto(p, o), o.at # "readsleep",
             o.at \in Napping => Counted(o)
      PROVE  ConsoleInv'
  <2>1. k' = [k EXCEPT ![p] = o] BY <1>6 DEF Goto
  <2> QED BY <1>4, <1>5, <1>6, <2>1, CallStep
<1>7. CASE Goto(p, gone)
  <2> HIDE DEF gone
  <2> QED BY <1>3, <1>6, <1>7 DEF Napping
<1>8. ASSUME NEW o \in Calling, Syscall(p, o), o.at # "readsleep",
             o.at \in Napping => Counted(o)
      PROVE  ConsoleInv'
  BY <1>6, <1>7, <1>8 DEF Syscall
<1>9. ASSUME NEW n \in Counts, SysRead(p, n) PROVE ConsoleInv'
  <2> DEFINE o == [Call EXCEPT !.at = "read", !.n = n, !.target = n]
  <2>1. n \in Nat BY ConsoleAssumption
  <2>2. o \in Calling /\ o.at = "read" BY <2>1, Calls DEF Calling, Call
  <2>3. Syscall(p, o) BY <1>9 DEF SysRead
  <2> HIDE DEF o
  <2> QED BY <1>8, <2>2, <2>3 DEF Napping
<1>10. ASSUME NEW n \in Sleeps \cup {-1}, SysSleep(p, n) PROVE ConsoleInv'
  <2> DEFINE o == [Call EXCEPT !.at = "nap", !.target = n % UINT, !.ticks0 = ticks]
  <2>1. n % UINT \in Nat /\ n % UINT < UINT
    <3>1. n \in Int BY TrapAssumption
    <3> QED BY <3>1, ModRange, Sizes
  <2>2. o \in Calling /\ o.at = "nap" /\ o.ticks0 = ticks /\ o.slept = 0 /\ o.target = n % UINT BY <1>1, <2>1, Calls DEF Calling, Call
  <2>3. Syscall(p, o) BY <1>10 DEF SysSleep
  <2>4. (ticks - ticks) % UINT = 0 BY <1>1, Sizes DEF Index
  <2> HIDE DEF o
  <2>5. Counted(o) BY <2>1, <2>2, <2>4 DEF Counted
  <2> QED BY <1>8, <2>2, <2>3, <2>5
<1>11. CASE Fault(p) \/ UserTrap(p) BY <1>7, <1>11 DEF Fault, UserTrap
<1>12. CASE Nap(p)
  <2> DEFINE o == [k[p] EXCEPT !.at = "napsleep"]
  <2>1. CASE Goto(p, o)
    <3>1. o \in Calling /\ o.at = "napsleep" /\ o.slept = k[p].slept /\ o.ticks0 = k[p].ticks0 /\ o.target = k[p].target
      BY <1>2 DEF Calling
    <3>2. Counted(k[p]) BY <1>1, <1>12 DEF Nap, Napping, SleepCounted
    <3>3. Counted(o) BY <3>1, <3>2 DEF Counted
    <3> HIDE DEF o
    <3> QED BY <1>6, <2>1, <3>1, <3>3
  <2>2. CASE Goto(p, [Call EXCEPT !.at = "ret"]) BY <1>6, <2>2, Calls DEF Napping
  <2> QED BY <1>12, <2>1, <2>2 DEF Nap
<1>13. CASE Return(p)
  <2>1. CASE Goto(p, Call) BY <1>6, <2>1, Calls DEF Napping
  <2> QED BY <1>7, <1>13, <2>1 DEF Return
<1>14. CASE Kill(p)
  <2> DEFINE o == Awake(k[p])
  <2>1. /\ o \in Calling /\ o.at # "readsleep" /\ o.slept = k[p].slept /\ o.ticks0 = k[p].ticks0 /\ o.target = k[p].target
        /\ o.at \in Napping => k[p].at \in Napping
    BY <1>2 DEF Awake, Calling, Napping
  <2>2. o.at \in Napping => Counted(o) BY <1>1, <2>1 DEF SleepCounted, Counted
  <2>3. Goto(p, o) BY <1>14 DEF Kill
  <2> HIDE DEF o
  <2> QED BY <1>6, <2>1, <2>2, <2>3
<1> QED BY <1>9, <1>10, <1>11, <1>12, <1>13, <1>14

(* consoleread() leaves somebody asleep only if nothing is left. *)
LEMMA ReadStep == ASSUME ConsoleInv, NEW p \in Proc, ConsoleRead(p), UNCHANGED <<ticks, job>> PROVE ConsoleInv'
<1>1. /\ input \in Inputs /\ RingFits /\ k \in [Proc -> Calling] /\ killed \in [Proc -> BOOLEAN] /\ ticks \in Index
      /\ NoStuckReader /\ NoStuckModifier /\ SleepCounted
  BY InvIs
<1>2. /\ k' \in [Proc -> Calling] /\ \A q \in Proc \ {p} : k'[q] = k[q]
      /\ k[p].at = "read" /\ k'[p].at \in {"ret", "readsleep"}
  BY <1>1, ReadIs
<1>3. PICK d \in 0..Held : /\ input' = [input EXCEPT !.r = (input.r + d) % UINT]
                           /\ k'[p].at = "readsleep" => d = Held
  BY <1>1, ReadIs
<1>4. input' \in Inputs /\ Held' = Held - d /\ Editing' = Editing BY <1>1, <1>3, TakeIs
<1>5. Held \in Nat /\ Editing \in Nat /\ Held + Editing \in 0..INPUT_BUF BY <1>1, IndicesAre
<1>6. RingFits' BY <1>4, <1>5, Sizes DEF RingFits
<1>7. ASSUME NEW q \in Proc, k'[q].at = "readsleep" PROVE Held' = 0
  <2>1. CASE q = p BY <1>3, <1>4, <1>5, <1>7, <2>1
  <2>2. CASE q # p
    <3>1. Held = 0 BY <1>1, <1>2, <1>7, <2>2 DEF NoStuckReader
    <3>2. d <= Held /\ d \in Nat BY <1>5
    <3>3. d = 0 BY <3>1, <3>2
    <3> QED BY <1>4, <3>1, <3>3
  <2> QED BY <2>1, <2>2
<1>8. NoStuckReader' BY <1>7 DEF NoStuckReader
<1>9. shift' = shift /\ ctlkey' = ctlkey /\ killed' = killed /\ ticks' = ticks BY DEF ConsoleRead
<1>10. NoStuckModifier' BY <1>1, <1>9 DEF NoStuckModifier
<1>11. SleepCounted'
  <2>1. \A q \in Proc : k'[q] = k[q] \/ k'[q].at \notin Napping BY <1>2 DEF Napping
  <2> QED BY <1>1, <1>9, <2>1, CountedStill
<1>12. killed' \in [Proc -> BOOLEAN] /\ ticks' \in Index BY <1>1, <1>9
<1> QED BY <1>2, <1>4, <1>6, <1>8, <1>10, <1>11, <1>12, InvNext

LEMMA NextInv == ConsoleInv /\ [Next]_vars => ConsoleInv'
<1> SUFFICES ASSUME ConsoleInv, [Next]_vars PROVE ConsoleInv' OBVIOUS
<1>1. CASE UNCHANGED vars
  BY <1>1 DEF vars, conVars, ConsoleInv, TypeOK, RingFits, Held, Editing, NoStuckReader, NoStuckModifier, SleepCounted, Counted
<1>2. CASE Irq BY <1>2, IrqStep
<1>3. CASE Timer BY <1>3, TimerStep
<1>4. ASSUME NEW p \in Proc,
             \/ (\E n \in Counts : SysRead(p, n)) \/ (\E n \in Sleeps \cup {-1} : SysSleep(p, n))
             \/ Fault(p) \/ Kill(p) \/ Step(p)
      PROVE  ConsoleInv'
  <2>1. CASE ConsoleRead(p) /\ UNCHANGED <<ticks, job>> BY <2>1, ReadStep
  <2> QED BY <1>4, <2>1, StepStep DEF Step
<1> QED BY <1>1, <1>2, <1>3, <1>4 DEF Next

(* The console and the clock: the input ring never overflows, nobody sleeps *)
(* in consoleread() beside characters, CTL is on only while the key is      *)
(* down, and sys_sleep() compares what it has slept, for any number of      *)
(* processes, any input and any width of the counters.                      *)
THEOREM ConsoleInvHolds == Spec => []ConsoleInv
BY InitInv, NextInv, PTL DEF Spec

LEMMA SleptStep ==
    ConsoleInv /\ [Next]_vars =>
        [\A p \in Proc : k[p].at = "nap" /\ k'[p].at = "ret" /\ ~killed[p] => k[p].slept >= k[p].target]_vars
<1> SUFFICES ASSUME ConsoleInv, Next, NEW p \in Proc, k[p].at = "nap", k'[p].at = "ret", ~killed[p]
             PROVE  k[p].slept >= k[p].target
  OBVIOUS
<1>1. k \in [Proc -> Calling] /\ SleepCounted BY InvIs
<1>2. k[p] \in Calling BY <1>1
<1>3. ~Irq
  <2>1. SUFFICES ASSUME Irq PROVE FALSE OBVIOUS
  <2>2. \E c : Consoleintr(c) BY <2>1 DEF Irq, Uartintr, Kbdintr, PressD, Escape, PressCtl, ReleaseCtl
  <2>3. k'[p] = k[p] \/ (k[p].at = "readsleep" /\ k'[p].at = "read") BY <2>2, IntrIs
  <2> QED BY <2>3
<1>4. ~Timer BY <1>2 DEF Timer, Ticked, Calling
<1>5. PICK q \in Proc : \/ (\E n \in Counts : SysRead(q, n)) \/ (\E n \in Sleeps \cup {-1} : SysSleep(q, n))
                        \/ Fault(q) \/ Kill(q) \/ Step(q)
  BY <1>3, <1>4 DEF Next
<1>6. PICK o : k' = [k EXCEPT ![q] = o]
  BY <1>5 DEF SysRead, SysSleep, Syscall, Fault, Kill, Step, Nap, Return, UserTrap, ConsoleRead, Goto
<1>7. q = p BY <1>1, <1>6
<1>8. ~Kill(q) BY <1>1, <1>2, <1>7 DEF Kill, Goto, Awake, Calling
<1>9. Nap(p) BY <1>5, <1>7, <1>8 DEF SysRead, SysSleep, Syscall, Fault, Step, Return, UserTrap, ConsoleRead
<1>10. ~TooEarly(p)
  <2>1. SUFFICES ASSUME TooEarly(p) PROVE FALSE OBVIOUS
  <2>2. k' = [k EXCEPT ![p] = [k[p] EXCEPT !.at = "napsleep"]] BY <1>9, <2>1 DEF Nap, Goto
  <2> QED BY <1>1, <1>2, <2>2 DEF Calling
<1>11. Counted(k[p]) BY <1>1 DEF SleepCounted, Napping
<1>12. UINT \in Nat BY Sizes
<1> QED BY <1>2, <1>10, <1>11, <1>12 DEF TooEarly, Counted, Calling

(* sleep(n) returns to a process that was not killed only after n ticks,    *)
(* also across the overflow of ticks.                                       *)
THEOREM SleptEnoughHolds == Spec => SleptEnough
<1>1. ConsoleInv /\ [Next]_vars =>
        [\A p \in Proc : k[p].at = "nap" /\ k'[p].at = "ret" /\ ~killed[p] => k[p].slept >= k[p].target]_vars
  BY SleptStep
<1> QED BY <1>1, ConsoleInvHolds, PTL DEF Spec, SleptEnough

-----------------------------------------------------------------------------
(* The ring: INPUT_BUF consecutive indices have different cells, also       *)
(* across the overflow, because INPUT_BUF divides UINT.                     *)

LEMMA Division ==
    ASSUME NEW x \in Int
    PROVE  /\ x \div INPUT_BUF \in Int /\ x % INPUT_BUF \in 0..(INPUT_BUF - 1)
           /\ x = INPUT_BUF * (x \div INPUT_BUF) + (x % INPUT_BUF)
BY Sizes

LEMMA Multiple ==
    ASSUME NEW q \in Int, INPUT_BUF * q < INPUT_BUF, INPUT_BUF * q > -INPUT_BUF
    PROVE  q = 0
<1>1. CASE q >= 1
  <2>1. INPUT_BUF * q >= INPUT_BUF BY <1>1, Sizes
  <2>2. INPUT_BUF * q \in Int BY Sizes
  <2> QED BY <2>1, <2>2, Sizes
<1>2. CASE q <= -1
  <2>1. INPUT_BUF * q <= -INPUT_BUF BY <1>2, Sizes
  <2>2. INPUT_BUF * q \in Int BY Sizes
  <2> QED BY <2>1, <2>2, Sizes
<1> QED BY <1>1, <1>2

(* Indices that differ by a multiple of INPUT_BUF have the same cell. *)
LEMMA SameCell ==
    ASSUME NEW x \in Int, NEW y \in Int, x = y \/ x = y - UINT
    PROVE  x % INPUT_BUF = y % INPUT_BUF
<1>1. CASE x = y BY <1>1
<1>2. CASE x = y - UINT
  <2> DEFINE q == x \div INPUT_BUF
             t == y \div INPUT_BUF
             m == UINT \div INPUT_BUF
             a == x % INPUT_BUF
             b == y % INPUT_BUF
  <2>1. q \in Int /\ a \in 0..(INPUT_BUF - 1) /\ x = INPUT_BUF * q + a BY Division
  <2>2. t \in Int /\ b \in 0..(INPUT_BUF - 1) /\ y = INPUT_BUF * t + b BY Division
  <2>3. m \in Int /\ UINT = INPUT_BUF * m
    <3>1. UINT \in Int /\ UINT % INPUT_BUF = 0 BY ConsoleAssumption
    <3>2. UINT = INPUT_BUF * (UINT \div INPUT_BUF) + (UINT % INPUT_BUF) /\ UINT \div INPUT_BUF \in Int BY <3>1, Division
    <3> QED BY <3>1, <3>2, Sizes
  <2> HIDE DEF q, t, m, a, b
  <2>4. q - t + m \in Int /\ INPUT_BUF * (q - t + m) = b - a
    <3>1. INPUT_BUF * (q - t + m) = INPUT_BUF * q - INPUT_BUF * t + INPUT_BUF * m BY <2>1, <2>2, <2>3, Sizes
    <3>2. INPUT_BUF * q \in Int /\ INPUT_BUF * t \in Int /\ INPUT_BUF * m \in Int /\ a \in Int /\ b \in Int
      BY <2>1, <2>2, <2>3, Sizes
    <3> QED BY <1>2, <2>1, <2>2, <2>3, <3>1, <3>2
  <2>5. b - a < INPUT_BUF /\ b - a > -INPUT_BUF BY <2>1, <2>2, Sizes
  <2>6. q - t + m = 0 BY <2>4, <2>5, Multiple
  <2>7. b - a = 0 BY <2>4, <2>6, Sizes
  <2>8. a = b BY <2>1, <2>2, <2>7, Sizes
  <2> QED BY <2>8 DEF a, b
<1> QED BY <1>1, <1>2

LEMMA CellsDiffer ==
    ASSUME NEW x \in Int, NEW y \in Int, x < y, y < x + INPUT_BUF
    PROVE  x % INPUT_BUF # y % INPUT_BUF
<1> SUFFICES ASSUME x % INPUT_BUF = y % INPUT_BUF PROVE FALSE OBVIOUS
<1> DEFINE q == x \div INPUT_BUF
           t == y \div INPUT_BUF
           a == x % INPUT_BUF
<1>1. q \in Int /\ a \in 0..(INPUT_BUF - 1) /\ x = INPUT_BUF * q + a BY Division
<1>2. t \in Int /\ y = INPUT_BUF * t + a BY Division
<1> HIDE DEF q, t, a
<1>3. t - q \in Int /\ INPUT_BUF * (t - q) = y - x
  <2>1. INPUT_BUF * (t - q) = INPUT_BUF * t - INPUT_BUF * q BY <1>1, <1>2, Sizes
  <2>2. INPUT_BUF * q \in Int /\ INPUT_BUF * t \in Int /\ a \in Int BY <1>1, <1>2, Sizes
  <2> QED BY <1>1, <1>2, <2>1, <2>2
<1>4. y - x < INPUT_BUF /\ y - x > -INPUT_BUF BY Sizes
<1>5. t - q = 0 BY <1>3, <1>4, Multiple
<1>6. y - x = 0 BY <1>3, <1>5, Sizes
<1> QED BY <1>6

-----------------------------------------------------------------------------
(* The two stretches of the ring as sequences. *)

Cell(i) == i % INPUT_BUF

LEMMA OneCell ==
    ASSUME NEW x \in Int, NEW y \in Int, x = y \/ x = y - UINT
    PROVE  Cell(x) = Cell(y)
BY SameCell DEF Cell

LEMMA StretchIs ==
    ASSUME NEW b \in [Cells -> Char], NEW a \in Index, NEW n \in Nat
    PROVE  LET s == [i \in 1..n |-> b[(a + i - 1) % INPUT_BUF]]
           IN  s \in Seq(Char) /\ Len(s) = n /\ \A i \in 1..n : s[i] = b[Cell(a + (i - 1))]
<1> DEFINE s == [i \in 1..n |-> b[(a + i - 1) % INPUT_BUF]]
<1>1. a \in Int BY Sizes DEF Index
<1>2. ASSUME NEW i \in 1..n
      PROVE  b[(a + i - 1) % INPUT_BUF] = b[Cell(a + (i - 1))] /\ b[Cell(a + (i - 1))] \in Char
  <2>1. a + i - 1 = a + (i - 1) /\ a + (i - 1) \in Int BY <1>1
  <2>2. Cell(a + (i - 1)) \in Cells BY <2>1, CellRange DEF Cell
  <2> QED BY <2>1, <2>2 DEF Cell
<1>3. s \in [1..n -> Char] /\ DOMAIN s = 1..n BY <1>2
<1>4. \A i \in 1..n : s[i] = b[Cell(a + (i - 1))] BY <1>2
<1> HIDE DEF s
<1>5. s \in Seq(Char) BY <1>3, SeqDef
<1>6. DOMAIN s = 1..Len(s) /\ Len(s) \in Nat BY <1>5, LenProperties
<1>7. Len(s) = n
  <2>1. \A x, y \in Nat : 1..x = 1..y => x = y OBVIOUS
  <2> QED BY <1>3, <1>6, <2>1
<1> QED BY <1>4, <1>5, <1>7 DEF s

(* What the refinement maps to. *)
Lines(s) == /\ s \in Seq(Char) /\ Len(s) = Held
            /\ \A i \in 1..Held : s[i] = input.buf[Cell(input.r + (i - 1))]
Edited(s) == /\ s \in Seq(Char) /\ Len(s) = Editing
             /\ \A i \in 1..Editing : s[i] = input.buf[Cell(input.w + (i - 1))]

LEMMA SeqsAre == input \in Inputs /\ RingFits => Lines(Avail) /\ Edited(Edit)
<1> SUFFICES ASSUME input \in Inputs, RingFits PROVE Lines(Avail) /\ Edited(Edit) OBVIOUS
<1>1. /\ input.buf \in [Cells -> Char] /\ input.r \in Index /\ input.w \in Index
      /\ Held \in Nat /\ Editing \in Nat
  BY IndicesAre DEF Inputs
<1>2. Avail = [i \in 1..Held |-> input.buf[(input.r + i - 1) % INPUT_BUF]] BY DEF Avail, At
<1>3. Edit = [i \in 1..Editing |-> input.buf[(input.w + i - 1) % INPUT_BUF]] BY DEF Edit, At
<1>4. Lines(Avail) BY <1>1, <1>2, StretchIs DEF Lines
<1>5. Edited(Edit) BY <1>1, <1>3, StretchIs DEF Edited
<1> QED BY <1>4, <1>5

LEMMA SeqsNext ==
    ASSUME input' \in Inputs, RingFits'
    PROVE  /\ Avail' \in Seq(Char) /\ Len(Avail') = Held'
           /\ \A i \in 1..Held' : Avail'[i] = input'.buf[Cell(input'.r + (i - 1))]
           /\ Edit' \in Seq(Char) /\ Len(Edit') = Editing'
           /\ \A i \in 1..Editing' : Edit'[i] = input'.buf[Cell(input'.w + (i - 1))]
<1>1. (input \in Inputs /\ RingFits)' OBVIOUS
<1>2. (Lines(Avail) /\ Edited(Edit))' BY <1>1, SeqsAre, PTL
<1> QED BY <1>2 DEF Lines, Edited

(* The cells of the line being edited follow those of the lines to read. *)
LEMMA PlacesAre ==
    ASSUME input \in Inputs, RingFits
    PROVE  /\ \A i \in Nat : Cell(input.w + i) = Cell(input.r + (Held + i))
           /\ Cell(input.e) = Cell(input.r + (Held + Editing))
<1> DEFINE r == input.r
           w == input.w
           e == input.e
           h == Held
           d == Editing
<1>1. /\ r \in Index /\ w \in Index /\ e \in Index /\ h \in Nat /\ d \in Nat
      /\ Apart(r, w, h) /\ (e - r) % UINT = h + d
  BY IndicesAre
<1>2. Apart(r, e, h + d) BY <1>1, Gap DEF Index
<1> HIDE DEF r, w, e, h, d
<1>3. r \in Int /\ w \in Int /\ e \in Int BY <1>1, Sizes DEF Index
<1>4. ASSUME NEW i \in Nat PROVE Cell(w + i) = Cell(r + (h + i))
  <2> DEFINE x == w + i
             y == r + (h + i)
  <2>1. x \in Int /\ y \in Int /\ (x = y \/ x = y - UINT) BY <1>1, <1>3, Sizes DEF Apart
  <2> HIDE DEF x, y
  <2>2. Cell(x) = Cell(y) BY <2>1, OneCell
  <2> QED BY <2>2 DEF x, y
<1>5. Cell(e) = Cell(r + (h + d))
  <2> DEFINE y == r + (h + d)
  <2>1. y \in Int /\ (e = y \/ e = y - UINT) BY <1>1, <1>2, <1>3, Sizes DEF Apart
  <2> HIDE DEF y
  <2>2. Cell(e) = Cell(y) BY <1>3, <2>1, OneCell
  <2> QED BY <2>2 DEF y
<1> QED BY <1>4, <1>5 DEF r, w, e, h, d

(* A new character disturbs none of the others. *)
LEMMA PutCells ==
    ASSUME input \in Inputs, RingFits, NEW c \in {"x", "nl", "eof"}, Put(c)
    PROVE  /\ \A i \in 0..((Held + Editing) - 1) :
                input'.buf[Cell(input.r + i)] = input.buf[Cell(input.r + i)]
           /\ input'.buf[Cell(input.r + (Held + Editing))] = c
<1> DEFINE r == input.r
           n == Held + Editing
           z == Cell(input.e)
<1>1. r \in Int /\ n \in Nat /\ input.e \in Int BY IndicesAre, Sizes DEF Index
<1>2. n < INPUT_BUF /\ input'.buf = [input.buf EXCEPT ![z] = c] BY PutIs DEF Cell
<1>3. z = Cell(r + n) BY PlacesAre
<1>4. input.buf \in [Cells -> Char] BY DEF Inputs
<1>5. z \in Cells BY <1>1, CellRange DEF Cell
<1> HIDE DEF r, n, z
<1>6. ASSUME NEW i \in 0..(n - 1) PROVE input'.buf[Cell(r + i)] = input.buf[Cell(r + i)]
  <2>1. r + i \in Int /\ r + n \in Int /\ r + i < r + n /\ r + n < r + i + INPUT_BUF BY <1>1, <1>2, Sizes
  <2>2. Cell(r + i) \in Cells BY <2>1, CellRange DEF Cell
  <2>3. Cell(r + i) # z BY <1>3, <2>1, CellsDiffer DEF Cell
  <2> QED BY <1>2, <1>4, <2>2, <2>3
<1>7. input'.buf[z] = c BY <1>2, <1>4, <1>5
<1>8. input'.buf[Cell(r + n)] = c BY <1>3, <1>7
<1>9. \A i \in 0..(n - 1) : input'.buf[Cell(r + i)] = input.buf[Cell(r + i)] BY <1>6
<1> QED BY <1>8, <1>9 DEF r, n

(* A character is typed, or commits the line. *)
LEMMA PutTty ==
    ASSUME input \in Inputs, RingFits, input' \in Inputs, RingFits', NEW c \in {"x", "nl", "eof"}, Put(c)
    PROVE  Tty!Type(c) \/ Tty!Commit(c)
<1> DEFINE r == input.r
           w == input.w
           h == Held
           d == Editing
           b == input.buf
           s == Avail
           t == Edit
<1>1. r \in Int /\ h \in Nat /\ d \in Nat /\ w \in Int BY IndicesAre, Sizes DEF Index
<1>2. /\ s \in Seq(Char) /\ Len(s) = h /\ \A i \in 1..h : s[i] = b[Cell(r + (i - 1))]
      /\ t \in Seq(Char) /\ Len(t) = d /\ \A i \in 1..d : t[i] = b[Cell(w + (i - 1))]
  BY SeqsAre DEF Lines, Edited
<1>3. /\ Avail' \in Seq(Char) /\ Len(Avail') = Held'
      /\ \A i \in 1..Held' : Avail'[i] = input'.buf[Cell(r + (i - 1))]
      /\ Edit' \in Seq(Char) /\ Len(Edit') = Editing'
      /\ \A i \in 1..Editing' : Edit'[i] = input'.buf[Cell(input'.w + (i - 1))]
  <2>1. input'.r = r BY PutIs
  <2> QED BY <2>1, SeqsNext
<1>4. \A i \in Nat : Cell(w + i) = Cell(r + (h + i)) BY PlacesAre
<1>5. /\ \A i \in 0..((h + d) - 1) : input'.buf[Cell(r + i)] = b[Cell(r + i)]
      /\ input'.buf[Cell(r + (h + d))] = c
  BY PutCells
<1>6. /\ h + d < INPUT_BUF
      /\ Commits(c) <=> (c \in {"nl", "eof"} \/ h + d + 1 = INPUT_BUF)
      /\ Commits(c) => Held' = h + d + 1 /\ Editing' = 0
      /\ ~Commits(c) => Held' = h /\ Editing' = d + 1 /\ input'.w = w
  BY PutIs
<1>7. c \in Char BY DEF Char
<1> HIDE DEF r, w, h, d, b, s, t
<1>8. /\ Append(t, c) \in Seq(Char) /\ Len(Append(t, c)) = d + 1
      /\ \A i \in 1..d : Append(t, c)[i] = t[i]
      /\ Append(t, c)[d + 1] = c
  BY <1>2, <1>7, AppendProperties
<1>9. ASSUME NEW i \in 1..(d + 1)
      PROVE  Append(t, c)[i] = input'.buf[Cell(r + (h + (i - 1)))]
  <2>1. CASE i <= d
    <3>1. i \in 1..d /\ i - 1 \in Nat /\ h + (i - 1) \in 0..((h + d) - 1) BY <1>1, <2>1
    <3>2. Append(t, c)[i] = b[Cell(w + (i - 1))] BY <1>2, <1>8, <3>1
    <3>3. Cell(w + (i - 1)) = Cell(r + (h + (i - 1))) BY <1>4, <3>1
    <3> QED BY <1>5, <3>1, <3>2, <3>3
  <2>2. CASE i > d
    <3>1. i = d + 1 /\ i - 1 = d BY <1>1, <2>2
    <3> QED BY <1>5, <1>8, <3>1
  <2>3. i <= d \/ i > d BY <1>1
  <2> QED BY <2>1, <2>2, <2>3
<1>10. ASSUME NEW i \in 1..h PROVE s[i] = input'.buf[Cell(r + (i - 1))]
  <2>1. i - 1 \in 0..((h + d) - 1) BY <1>1
  <2> QED BY <1>2, <1>5, <2>1
<1>11. CASE ~Commits(c)
  <2>1. Held' = h /\ Editing' = d + 1 /\ input'.w = w /\ c \notin {"nl", "eof"} /\ h + d + 1 < INPUT_BUF
    BY <1>1, <1>6, <1>11, Sizes
  <2>2. Avail' = s
    <3>1. \A i \in 1..h : Avail'[i] = s[i] BY <1>3, <1>10, <2>1
    <3> QED BY <1>2, <1>3, <2>1, <3>1, SeqEqual
  <2>3. Edit' = Append(t, c)
    <3>1. ASSUME NEW i \in 1..(d + 1) PROVE Edit'[i] = Append(t, c)[i]
      <4>1. Edit'[i] = input'.buf[Cell(w + (i - 1))] BY <1>3, <2>1
      <4>2. i - 1 \in Nat BY <1>1
      <4> QED BY <1>4, <1>9, <4>1, <4>2
    <3> QED BY <1>3, <1>8, <2>1, <3>1, SeqEqual
  <2>4. Tty!Type(c) BY <1>2, <2>1, <2>2, <2>3 DEF Tty!Type, s, t
  <2> QED BY <2>4
<1>12. CASE Commits(c)
  <2> DEFINE u == Append(t, c)
  <2>1. Held' = h + d + 1 /\ Editing' = 0 /\ (c \in {"nl", "eof"} \/ h + d + 1 = INPUT_BUF) BY <1>6, <1>12
  <2>2. Edit' = <<>> BY <1>3, <2>1, EmptySeq
  <2>3. u \in Seq(Char) /\ Len(u) = d + 1 /\ \A i \in 1..(d + 1) : u[i] = input'.buf[Cell(r + (h + (i - 1)))]
    BY <1>8, <1>9
  <2> HIDE DEF u
  <2>4. /\ s \o u \in Seq(Char) /\ Len(s \o u) = h + (d + 1)
        /\ \A i \in 1..(h + (d + 1)) : (s \o u)[i] = IF i <= h THEN s[i] ELSE u[i - h]
    <3>1. s \in Seq(Char) /\ u \in Seq(Char) /\ Len(s) = h /\ Len(u) = d + 1 BY <1>2, <2>3
    <3>2. /\ s \o u \in Seq(Char) /\ Len(s \o u) = Len(s) + Len(u)
          /\ \A i \in 1..(Len(s) + Len(u)) : (s \o u)[i] = IF i <= Len(s) THEN s[i] ELSE u[i - Len(s)]
      BY <3>1, ConcatProperties
    <3> QED BY <3>1, <3>2
  <2>5. h + d + 1 = h + (d + 1) BY <1>1
  <2>6. ASSUME NEW i \in 1..(h + (d + 1)) PROVE (s \o u)[i] = Avail'[i]
    <3>1. Avail'[i] = input'.buf[Cell(r + (i - 1))] BY <1>3, <2>1, <2>5
    <3>2. CASE i <= h
      <4>1. i \in 1..h BY <1>1, <3>2
      <4> QED BY <1>10, <2>4, <3>1, <3>2, <4>1
    <3>3. CASE i > h
      <4>1. i - h \in 1..(d + 1) /\ h + ((i - h) - 1) = i - 1 /\ ~(i <= h) BY <1>1, <3>3
      <4>2. (s \o u)[i] = u[i - h] BY <2>4, <4>1
      <4>3. u[i - h] = input'.buf[Cell(r + (h + ((i - h) - 1)))] BY <2>3, <4>1
      <4> QED BY <3>1, <4>1, <4>2, <4>3
    <3>4. i <= h \/ i > h BY <1>1
    <3> QED BY <3>2, <3>3, <3>4
  <2>7. Avail' = s \o u BY <1>3, <2>1, <2>4, <2>5, <2>6, SeqEqual
  <2>8. Tty!Commit(c) BY <1>2, <1>6, <2>1, <2>2, <2>7 DEF Tty!Commit, s, t, u
  <2> QED BY <2>8
<1> QED BY <1>11, <1>12

(* ^H and ^U take characters from the end of the line. *)
LEMMA BackTty ==
    ASSUME input \in Inputs, RingFits, input' \in Inputs, RingFits', NEW n \in 0..Editing, Back(n)
    PROVE  Tty!Erase \/ UNCHANGED <<Avail, Edit>>
<1> DEFINE d == Editing
           t == Edit
           u == SubSeq(Edit, 1, Editing - n)
<1>1. d \in Nat /\ n \in 0..d BY IndicesAre
<1>2. /\ input'.r = input.r /\ input'.w = input.w /\ input'.buf = input.buf
      /\ Held' = Held /\ Editing' = d - n
  BY BackIs
<1>3. /\ Avail \in Seq(Char) /\ Len(Avail) = Held
      /\ \A i \in 1..Held : Avail[i] = input.buf[Cell(input.r + (i - 1))]
      /\ t \in Seq(Char) /\ Len(t) = d /\ \A i \in 1..d : t[i] = input.buf[Cell(input.w + (i - 1))]
  BY SeqsAre DEF Lines, Edited
<1>4. /\ Avail' \in Seq(Char) /\ Len(Avail') = Held
      /\ \A i \in 1..Held : Avail'[i] = input.buf[Cell(input.r + (i - 1))]
      /\ Edit' \in Seq(Char) /\ Len(Edit') = d - n
      /\ \A i \in 1..(d - n) : Edit'[i] = input.buf[Cell(input.w + (i - 1))]
  BY <1>2, SeqsNext
<1>5. Avail' = Avail BY <1>3, <1>4, SeqEqual
<1>6. u = SubSeq(t, 1, d - n) OBVIOUS
<1> HIDE DEF d, t, u
<1>7. u \in Seq(Char) /\ Len(u) = d - n /\ \A i \in 1..(d - n) : u[i] = t[i]
  <2>1. 1 \in Int /\ d - n \in Int /\ d - n >= 0 BY <1>1
  <2>2. \A i \in 1..(d - n) : t[i] \in Char
    <3>1. \A i \in 1..(d - n) : i \in 1..d BY <1>1
    <3>2. \A i \in 1..d : t[i] \in Char BY <1>3, LenProperties
    <3> QED BY <3>1, <3>2
  <2>3. /\ SubSeq(t, 1, d - n) \in Seq(Char)
        /\ Len(SubSeq(t, 1, d - n)) = IF 1 <= d - n THEN d - n - 1 + 1 ELSE 0
        /\ \A i \in 1..(d - n - 1 + 1) : SubSeq(t, 1, d - n)[i] = t[1 + i - 1]
    BY <2>1, <2>2, SubSeqProperties
  <2>4. d - n - 1 + 1 = d - n /\ (~(1 <= d - n) => d - n = 0) BY <1>1
  <2>5. \A i \in 1..(d - n) : 1 + i - 1 = i OBVIOUS
  <2> QED BY <1>6, <2>3, <2>4, <2>5
<1>8. Edit' = u
  <2>1. \A i \in 1..(d - n) : i \in 1..d BY <1>1
  <2>2. \A i \in 1..(d - n) : Edit'[i] = u[i] BY <1>3, <1>4, <1>7, <2>1
  <2> QED BY <1>4, <1>7, <2>2, SeqEqual
<1>9. CASE n = 0
  <2>1. \A i \in 1..d : u[i] = t[i] BY <1>1, <1>7, <1>9
  <2>2. Len(u) = d BY <1>1, <1>7, <1>9
  <2>3. u = t BY <1>3, <1>7, <2>1, <2>2, SeqEqual
  <2> QED BY <1>5, <1>8, <2>3 DEF t
<1>10. CASE n # 0
  <2>1. d - n \in 0..(Len(t) - 1) BY <1>1, <1>3, <1>10
  <2>2. \E m \in 0..(Len(t) - 1) : Edit' = SubSeq(t, 1, m) BY <1>6, <1>8, <2>1
  <2> QED BY <1>5, <2>2 DEF Tty!Erase, t
<1> QED BY <1>9, <1>10

(* consoleread() takes characters from the front. *)
LEMMA TakeTty ==
    ASSUME input \in Inputs, RingFits, input' \in Inputs, RingFits',
           NEW n \in 0..Held, input' = [input EXCEPT !.r = (input.r + n) % UINT]
    PROVE  Tty!Deliver \/ UNCHANGED <<Avail, Edit>>
<1> DEFINE r == input.r
           h == Held
           s == Avail
           u == SubSeq(Avail, n + 1, Held)
<1>1. h \in Nat /\ n \in 0..h /\ r \in Int BY IndicesAre, Sizes DEF Index
<1>2. /\ input'.w = input.w /\ input'.buf = input.buf /\ input'.r \in Index /\ Apart(r, input'.r, n)
      /\ Held' = h - n /\ Editing' = Editing
  BY TakeIs
<1>3. /\ Edit \in Seq(Char) /\ Len(Edit) = Editing
      /\ \A i \in 1..Editing : Edit[i] = input.buf[Cell(input.w + (i - 1))]
      /\ s \in Seq(Char) /\ Len(s) = h /\ \A i \in 1..h : s[i] = input.buf[Cell(r + (i - 1))]
  BY SeqsAre DEF Lines, Edited
<1>4. /\ Edit' \in Seq(Char) /\ Len(Edit') = Editing
      /\ \A i \in 1..Editing : Edit'[i] = input.buf[Cell(input.w + (i - 1))]
      /\ Avail' \in Seq(Char) /\ Len(Avail') = h - n
      /\ \A i \in 1..(h - n) : Avail'[i] = input.buf[Cell(input'.r + (i - 1))]
  BY <1>2, SeqsNext
<1>5. Edit' = Edit BY <1>3, <1>4, SeqEqual
<1>6. u = SubSeq(s, n + 1, h) OBVIOUS
<1> HIDE DEF r, h, s, u
<1>7. u \in Seq(Char) /\ Len(u) = h - n /\ \A i \in 1..(h - n) : u[i] = s[n + i]
  <2>1. n + 1 \in Int /\ h \in Int BY <1>1
  <2>2. \A i \in (n + 1)..h : s[i] \in Char
    <3>1. \A i \in (n + 1)..h : i \in 1..h BY <1>1
    <3>2. \A i \in 1..h : s[i] \in Char BY <1>3, LenProperties
    <3> QED BY <3>1, <3>2
  <2>3. /\ SubSeq(s, n + 1, h) \in Seq(Char)
        /\ Len(SubSeq(s, n + 1, h)) = IF n + 1 <= h THEN h - (n + 1) + 1 ELSE 0
        /\ \A i \in 1..(h - (n + 1) + 1) : SubSeq(s, n + 1, h)[i] = s[n + 1 + i - 1]
    BY <2>1, <2>2, SubSeqProperties
  <2>4. h - (n + 1) + 1 = h - n /\ (~(n + 1 <= h) => h - n = 0) BY <1>1
  <2>5. \A i \in 1..(h - n) : n + 1 + i - 1 = n + i BY <1>1
  <2> QED BY <1>6, <2>3, <2>4, <2>5
<1>8. Avail' = u
  <2>1. ASSUME NEW i \in 1..(h - n) PROVE Avail'[i] = u[i]
    <3>1. n + i \in 1..h /\ (n + i) - 1 = n + (i - 1) BY <1>1
    <3>2. u[i] = input.buf[Cell(r + (n + (i - 1)))] BY <1>3, <1>7, <3>1
    <3> DEFINE x == input'.r + (i - 1)
               y == r + (n + (i - 1))
    <3>3. x \in Int /\ y \in Int /\ (x = y \/ x = y - UINT) BY <1>1, <1>2, Sizes DEF Apart, Index
    <3>4. Cell(x) = Cell(y)
      <4> HIDE DEF x, y
      <4> QED BY <3>3, OneCell
    <3> QED BY <1>4, <3>2, <3>4
  <2> QED BY <1>4, <1>7, <2>1, SeqEqual
<1>9. CASE n = 0
  <2>1. \A i \in 1..h : u[i] = s[i]
    <3>1. h - n = h /\ \A i \in 1..h : n + i = i BY <1>1, <1>9
    <3> QED BY <1>7, <3>1
  <2>2. Len(u) = h BY <1>1, <1>7, <1>9
  <2>3. u = s BY <1>3, <1>7, <2>1, <2>2, SeqEqual
  <2> QED BY <1>5, <1>8, <2>3 DEF s
<1>10. CASE n # 0
  <2>1. n \in 1..Len(s) BY <1>1, <1>3, <1>10
  <2>2. \E m \in 1..Len(s) : Avail' = SubSeq(s, m + 1, Len(s)) BY <1>3, <1>6, <1>8, <2>1
  <2> QED BY <1>5, <2>2 DEF Tty!Deliver, s
<1> QED BY <1>9, <1>10

LEMMA NextTty == ConsoleInv /\ ConsoleInv' /\ [Next]_vars => [Tty!Next]_<<Avail, Edit>>
<1> SUFFICES ASSUME ConsoleInv, ConsoleInv', [Next]_vars PROVE [Tty!Next]_<<Avail, Edit>> OBVIOUS
<1>1. input \in Inputs /\ RingFits /\ k \in [Proc -> Calling] BY InvIs
<1>2. input' \in Inputs /\ RingFits' BY DEF ConsoleInv, TypeOK, Inputs, Char, Index, Cells
<1>3. ASSUME input' = input PROVE UNCHANGED <<Avail, Edit>>
  BY <1>3 DEF Avail, Edit, At, Held, Editing
<1>4. CASE Irq
  <2>1. PICK c : Consoleintr(c) BY <1>4 DEF Irq, Uartintr, Kbdintr, PressD, Escape, PressCtl, ReleaseCtl
  <2>2. CASE c \in {"x", "nl", "eof"} /\ Put(c)
    <3>1. Tty!Type(c) \/ Tty!Commit(c) BY <1>1, <1>2, <2>2, PutTty
    <3> QED BY <2>2, <3>1 DEF Tty!Next
  <2>3. CASE c = "bs" /\ Editing > 0 /\ Back(1)
    <3>1. 1 \in 0..Editing BY <1>1, <2>3, IndicesAre
    <3>2. Tty!Erase \/ UNCHANGED <<Avail, Edit>> BY <1>1, <1>2, <2>3, <3>1, BackTty
    <3> QED BY <3>2 DEF Tty!Next
  <2>4. CASE c = "ku" /\ Back(LineLength)
    <3>1. LineLength \in 0..Editing BY <1>1, LineLengthIs
    <3>2. Tty!Erase \/ UNCHANGED <<Avail, Edit>> BY <1>1, <1>2, <2>4, <3>1, BackTty
    <3> QED BY <3>2 DEF Tty!Next
  <2>5. CASE input' = input BY <1>3, <2>5
  <2> QED BY <2>1, <2>2, <2>3, <2>4, <2>5 DEF Consoleintr
<1>5. ASSUME NEW p \in Proc, ConsoleRead(p) PROVE [Tty!Next]_<<Avail, Edit>>
  <2>1. PICK n \in 0..Held : input' = [input EXCEPT !.r = (input.r + n) % UINT] BY <1>1, <1>5, ReadIs
  <2>2. Tty!Deliver \/ UNCHANGED <<Avail, Edit>> BY <1>1, <1>2, <2>1, TakeTty
  <2> QED BY <2>2 DEF Tty!Next
<1>6. CASE UNCHANGED vars BY <1>3, <1>6 DEF vars, conVars
<1>7. CASE Timer BY <1>3, <1>7 DEF Timer, conVars
<1>8. ASSUME NEW p \in Proc,
             \/ (\E n \in Counts : SysRead(p, n)) \/ (\E n \in Sleeps \cup {-1} : SysSleep(p, n))
             \/ Fault(p) \/ Kill(p) \/ Nap(p) \/ Return(p) \/ UserTrap(p)
      PROVE  [Tty!Next]_<<Avail, Edit>>
  BY <1>3, <1>8 DEF SysRead, SysSleep, Syscall, Fault, Kill, Nap, Return, UserTrap, conVars
<1> QED BY <1>4, <1>5, <1>6, <1>7, <1>8 DEF Next, Step

LEMMA InitTty == Init => Tty!Init
<1> SUFFICES ASSUME Init PROVE Tty!Init OBVIOUS
<1>1. (0 - 0) % UINT = 0 BY Sizes
<1>2. Held = 0 /\ Editing = 0 BY <1>1 DEF Init, ConInit, Held, Editing
<1>3. Avail = <<>>
  <2>1. Avail = [i \in {} |-> At(input.r + i - 1)] BY <1>2 DEF Avail
  <2> QED BY <2>1
<1>4. Edit = <<>>
  <2>1. Edit = [i \in {} |-> At(input.w + i - 1)] BY <1>2 DEF Edit
  <2> QED BY <2>1
<1> QED BY <1>3, <1>4 DEF Tty!Init

(* The console implements a terminal: whatever is typed, taken back,        *)
(* committed and read, and wherever r, w and e are when they overflow,      *)
(* characters are delivered once and in order, and only after their line    *)
(* was committed.                                                           *)
THEOREM ImplementsTtyHolds == Spec => ImplementsTty
<1>1. Init => Tty!Init BY InitTty
<1>2. ConsoleInv /\ ConsoleInv' /\ [Next]_vars => [Tty!Next]_<<Avail, Edit>> BY NextTty
<1> QED BY <1>1, <1>2, ConsoleInvHolds, PTL DEF Spec, ImplementsTty, Tty!Spec
=============================================================================
