------------------------------ MODULE Console -------------------------------
(* The console: kbd.c and uart.c as sources of characters, consoleintr()    *)
(* and its input buffer, and consoleread().  cons.lock is held from its     *)
(* acquire() to the next sleep() or release(), and each of these stretches  *)
(* is one step.  The screen and what is echoed on it are left out.          *)
EXTENDS Integers, Sequences, FiniteSets, FiniteSetsExt

CONSTANTS Proc,
          INPUT_BUF,   \* characters of the input buffer
          UINT,        \* unsigned integers wrap here
          Keys,        \* characters the serial line sends
          Counts       \* bytes passed to read()

ASSUME ConsoleAssumption == /\ INPUT_BUF \in Nat \ {0} /\ UINT \in Nat /\ UINT % INPUT_BUF = 0 /\ UINT > INPUT_BUF
                            /\ Counts \subseteq Nat

VARIABLES input,    \* buf, r, w, e
          shift,    \* kbdgetc()'s static shift: subset of CTL, E0ESC
          ctlkey,   \* the keyboard: "up", "down", or the code that follows 0xE0
          k,        \* what each process does: at, and the arguments of its call
          killed    \* p->killed

conVars == <<input, shift, ctlkey>>

(* Characters: printable "x", "nl", "eof" (^D), "bs" (^H), "ku" (^U),       *)
(* "dump" (^P) and "nul".                                                     *)
Held == (input.w - input.r) % UINT     \* committed
Editing == (input.e - input.w) % UINT  \* not yet committed
At(i) == input.buf[i % INPUT_BUF]

ConInit == /\ input = [buf |-> [i \in 0..(INPUT_BUF - 1) |-> "nul"], r |-> 0, w |-> 0, e |-> 0]
           /\ shift = {} /\ ctlkey = "up"

-----------------------------------------------------------------------------
(* consoleintr() of one character *)

(* Variant with a bug: one character more than the buffer has places. *)
RoomBeyond == (input.e - input.r) % UINT <= INPUT_BUF

Room == (input.e - input.r) % UINT < INPUT_BUF

Commits(c) == c \in {"nl", "eof"} \/ (input.e + 1) % UINT = (input.r + INPUT_BUF) % UINT

(* Variant with a bug: no wakeup. *)
WokenNever(p) == k[p]

(* wakeup(&input.r) *)
Woken(p) == IF k[p].at = "readsleep" THEN [k[p] EXCEPT !.at = "read"] ELSE k[p]

Put(c) == LET e == (input.e + 1) % UINT
          IN  /\ Room
              /\ input' = [input EXCEPT !.buf[input.e % INPUT_BUF] = c, !.e = e,
                                        !.w = IF Commits(c) THEN e ELSE @]
              /\ k' = IF Commits(c) THEN [p \in Proc |-> Woken(p)] ELSE k

(* Characters ^U removes: back to the last newline or committed character. *)
LineLength == Min({n \in 0..Editing : n = Editing \/ At(input.e - n - 1) = "nl"})

Back(n) == /\ input' = [input EXCEPT !.e = (@ - n) % UINT]
           /\ UNCHANGED k

Consoleintr(c) ==
    \/ c \in {"x", "nl", "eof"} /\ Put(c)
    \/ c = "bs" /\ Editing > 0 /\ Back(1)
    \/ c = "ku" /\ Back(LineLength)
    \/ /\ c \in {"nul", "dump"} \/ (c = "bs" /\ Editing = 0) \/ (c \in {"x", "nl", "eof"} /\ ~Room)
       /\ UNCHANGED <<input, k>>

(* uartintr(): uartgetc() has a character. *)
Uartintr == /\ \E c \in Keys : Consoleintr(c)
            /\ UNCHANGED <<shift, ctlkey, killed>>

-----------------------------------------------------------------------------
(* kbdintr(): kbdgetc() on the codes of the D key and of the right control  *)
(* key, whose codes come after 0xE0.                                        *)

KeyD == IF "CTL" \in shift THEN "eof" ELSE "x"

PressD == /\ ctlkey \in {"up", "down"}
          /\ Consoleintr(KeyD)
          /\ UNCHANGED <<shift, ctlkey, killed>>

(* 0xE0, when the key goes down or up. *)
Escape == /\ ctlkey \in {"up", "down"}
          /\ ctlkey' = IF ctlkey = "up" THEN "press" ELSE "release"
          /\ shift' = shift \cup {"E0ESC"}
          /\ Consoleintr("nul")
          /\ UNCHANGED killed

(* 0x1D: with 0x80 it is the control key; E0ESC is used up. *)
PressCtl == /\ ctlkey = "press"
            /\ ctlkey' = "down"
            /\ shift' = (shift \ {"E0ESC"}) \cup (IF "E0ESC" \in shift THEN {"CTL"} ELSE {})
            /\ Consoleintr("nul")
            /\ UNCHANGED killed

Released == {"CTL", "E0ESC"}

(* 0x9D *)
ReleaseCtl == /\ ctlkey = "release"
              /\ ctlkey' = "up"
              /\ shift' = shift \ Released
              /\ Consoleintr("nul")
              /\ UNCHANGED killed

Kbdintr == PressD \/ Escape \/ PressCtl \/ ReleaseCtl

-----------------------------------------------------------------------------
(* consoleread() *)

Avail == [i \in 1..Held |-> At(input.r + i - 1)]

(* The bytes the inner loop copies: up to n, to a newline, or before a ^D. *)
Copied(n) == Min({n, Held} \cup {i \in 1..Held : Avail[i] = "nl"} \cup {i - 1 : i \in {j \in 1..Held : Avail[j] = "eof"}})

Goto(p, r) == k' = [k EXCEPT ![p] = r]

(* From the acquire, or from the return of sleep(), to the next of these.   *)
(* ^D is used up if nothing was copied before it.                           *)
ConsoleRead(p) ==
    LET n == k[p].n
        m == Copied(n)
        eof == m < n /\ m < Held /\ Avail[m + 1] = "eof"
        nl == m > 0 /\ Avail[m] = "nl"
        eats == IF eof /\ n - m = k[p].target THEN 1 ELSE 0
    IN  /\ k[p].at = "read"
        /\ input' = [input EXCEPT !.r = (@ + m + eats) % UINT]
        /\ \/ /\ m = n \/ eof \/ nl
              /\ Goto(p, [k[p] EXCEPT !.at = "ret", !.n = 0, !.target = 0])
           \/ /\ ~(m = n \/ eof \/ nl)
              /\ Goto(p, IF killed[p] THEN [k[p] EXCEPT !.at = "ret", !.n = 0, !.target = 0]
                                      ELSE [k[p] EXCEPT !.at = "readsleep", !.n = n - m])
        /\ UNCHANGED <<shift, ctlkey, killed>>

-----------------------------------------------------------------------------
(* Properties *)

(* The buffer is a terminal: what is typed, edited and committed arrives    *)
(* once and in order, wherever the three indices are when they wrap.        *)
Edit == [i \in 1..Editing |-> At(input.w + i - 1)]
Tty == INSTANCE TtyService WITH Size <- INPUT_BUF, lines <- Avail, edit <- Edit
ImplementsTty == Tty!Spec

(* No process sleeps in consoleread() while there is something to read,     *)
(* also if the buffer was filled without a newline, or another reader left  *)
(* a part of the line.                                                      *)
NoStuckReader == \A p \in Proc : k[p].at = "readsleep" => Held = 0

(* The three indices stay in order, and what is between the first and the   *)
(* last of them fits the buffer.                                            *)
RingFits == Held + Editing <= INPUT_BUF

(* The control key is taken to be down only while it is: 0xE0 and the code  *)
(* after it may be in two interrupts, with other input in between.          *)
NoStuckModifier == "CTL" \in shift => ctlkey \in {"down", "release"}
=============================================================================
