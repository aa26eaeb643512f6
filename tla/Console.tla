------------------------------ MODULE Console -------------------------------
(***************************************************************************)
(* The console of src/project1_scheduler: keyboard scan codes (kbd.c), the *)
(* serial line (uart.c), the input ring with its line editor, readers and  *)
(* the cursor of the screen (console.c).  The interrupt handler takes one  *)
(* byte in an action: every byte has an interrupt of its own, and when     *)
(* the loop of consoleintr finds more, it is as if they came right after.  *)
(* Only kill does not take cons.lock: it may come between a reader's test  *)
(* for it and its sleep.                                                   *)
(***************************************************************************)
EXTENDS Integers, Sequences, FiniteSets, FiniteSetsExt

CONSTANTS
    Readers,
    INPUT_BUF,
    W,              \* 2^32: r, w and e are unsigned ints
    Keys,           \* keys of the keyboard: see Scan
    SerialChars,    \* characters from the serial line
    ReadSizes,
    PortSize,       \* bytes the keyboard controller buffers
    Cols, Rows      \* of the screen

VARIABLES
    buf, r, w, e,   \* input
    shift,          \* the modifiers kbdgetc remembers
    down,           \* keys held down
    port,           \* scan codes in the controller
    reader,         \* a consoleread: state, wanted and taken so far
    killed,
    pos             \* of the cursor

cvars == <<buf, r, w, e, shift, down, port, reader, killed, pos>>

NotReading == [st |-> "user", n |-> 0, target |-> 0]

Init ==
    /\ buf = [i \in 0..(INPUT_BUF - 1) |-> "none"] /\ r = 0 /\ w = 0 /\ e = 0
    /\ shift = {} /\ down = {} /\ port = <<>>
    /\ reader = [p \in Readers |-> NotReading] /\ killed = {}
    /\ pos = 0

----------------------------------------------------------------------------
(* cgaputc: the cursor moves, and the screen scrolls before the last row.  *)

AfterChar(at, c) == CASE c = "nl" -> at + (Cols - (at % Cols))
                      [] c = "BACKSPACE" -> IF at > 0 THEN at - 1 ELSE at
                      [] OTHER -> at + 1
Scrolled(at) == IF at \div Cols >= Rows - 1 THEN at - Cols ELSE at
cgaputc(at, c) == Scrolled(AfterChar(at, c))

----------------------------------------------------------------------------
(* consoleintr                                                             *)

Slot(i) == (i % W) % INPUT_BUF
Waiting(p) == reader[p].st = "sleep"

(* A reader about to sleep has cons.lock.                                  *)
Locked == \E p \in Readers : reader[p].st = "tosleep"

Wake == [p \in Readers |-> IF Waiting(p) THEN [reader[p] EXCEPT !.st = "run"] ELSE reader[p]]

Erased(n) == /\ e' = (e - n) % W
             /\ pos' = IF n = 0 THEN pos
                       ELSE LET back[k \in 0..n] ==
                                  IF k = 0 THEN pos ELSE cgaputc(back[k-1], "BACKSPACE")
                            IN back[n]
             /\ UNCHANGED <<buf, w, reader>>

(* How far ^U goes back: to the start of the line or the last newline.     *)
KillLength ==
    LET n == (e - w) % W
        nls == {k \in 1..n : buf[Slot(e - k)] = "nl"}
    IN IF nls = {} THEN n ELSE Min(nls) - 1

CommitsAt_NewlineOnly(c, end) == c = "nl"
CommitsAt(c, end) == c = "nl" \/ c = "D" \/ end = (r + INPUT_BUF) % W

Store(c) ==
    IF (e - r) % W < INPUT_BUF
    THEN /\ buf' = [buf EXCEPT ![Slot(e)] = c]
         /\ e' = (e + 1) % W
         /\ pos' = cgaputc(pos, c)
         /\ IF CommitsAt(c, (e + 1) % W) THEN w' = (e + 1) % W /\ reader' = Wake
            ELSE UNCHANGED <<w, reader>>
    ELSE UNCHANGED <<buf, e, w, pos, reader>>

consoleintr(c) ==
    /\ ~Locked
    /\ CASE c = "U" -> Erased(KillLength)
         [] c = "H" -> Erased(IF e # w THEN 1 ELSE 0)
         [] c \in {"none", "P"} -> UNCHANGED <<buf, e, w, pos, reader>>
         [] OTHER -> Store(c)
    /\ UNCHANGED <<r, killed, down>>

uartintr ==
    \E c \in SerialChars :
      consoleintr(IF c = "cr" THEN "nl" ELSE c) /\ UNCHANGED <<shift, port>>

----------------------------------------------------------------------------
(* The keyboard.  A key sends its code, some after an E0 byte, and the     *)
(* code with the high bit set when it is released.                         *)

(* code, extended, the bit in shiftcode, the character plain and with CTL. *)
Scan ==
    [lctl |-> [ext |-> FALSE, bit |-> {"CTL"}, plain |-> "none", ctl |-> "none"],
     rctl |-> [ext |-> TRUE, bit |-> {"CTL"}, plain |-> "none", ctl |-> "none"],
     lshift |-> [ext |-> FALSE, bit |-> {"SHIFT"}, plain |-> "none", ctl |-> "none"],
     enter |-> [ext |-> FALSE, bit |-> {}, plain |-> "nl", ctl |-> "nl"],
     d |-> [ext |-> FALSE, bit |-> {}, plain |-> "d", ctl |-> "D"],
     u |-> [ext |-> FALSE, bit |-> {}, plain |-> "u", ctl |-> "U"]]

Bytes(k, up) == (IF Scan[k].ext THEN <<[key |-> "E0", up |-> FALSE]>> ELSE <<>>)
                \o <<[key |-> k, up |-> up]>>

KeyDown(k) ==
    /\ k \notin down /\ Len(port) + 2 <= PortSize
    /\ down' = down \cup {k} /\ port' = port \o Bytes(k, FALSE)
    /\ UNCHANGED <<buf, r, w, e, shift, reader, killed, pos>>

KeyUp(k) ==
    /\ k \in down /\ Len(port) + 2 <= PortSize
    /\ down' = down \ {k} /\ port' = port \o Bytes(k, TRUE)
    /\ UNCHANGED <<buf, r, w, e, shift, reader, killed, pos>>

(* The tables are indexed with the high bit for extended codes only: a     *)
(* code looked up the wrong way has no modifier.                           *)
ShiftCode(k, esc) == IF Scan[k].ext = esc THEN Scan[k].bit ELSE {}

Released(k, esc) == shift \ (ShiftCode(k, esc) \cup {"E0ESC"})

CharOf(k, esc, s) ==
    CASE Scan[k].ext # esc -> "none"
      [] "CTL" \in s -> Scan[k].ctl
      [] OTHER -> Scan[k].plain

kbdintr ==
    LET byte == Head(port)  k == byte.key  esc == "E0ESC" \in shift
        pressed == (shift \ {"E0ESC"}) \cup ShiftCode(k, esc)
    IN
    /\ port # <<>> /\ port' = Tail(port)
    /\ CASE k = "E0" -> shift' = shift \cup {"E0ESC"} /\ consoleintr("none")
         [] k # "E0" /\ byte.up -> shift' = Released(k, esc) /\ consoleintr("none")
         [] OTHER -> shift' = pressed /\ consoleintr(CharOf(k, esc, pressed))

----------------------------------------------------------------------------
(* consoleread: holds cons.lock until it is asleep or returns.             *)

Read(p) ==
    \E n \in ReadSizes :
      /\ reader[p].st = "user" /\ p \notin killed
      /\ reader' = [reader EXCEPT ![p] = [st |-> "run", n |-> n, target |-> n]]
      /\ UNCHANGED <<buf, r, w, e, shift, down, port, killed, pos>>

(* The characters from r to the end of the read: n of them, a newline, ^D  *)
(* or all that are committed.                                              *)
Avail == (w - r) % W
Stops(i) == buf[Slot(r + i - 1)] \in {"nl", "D"}
Takes(n) == LET ends == {i \in 1..Avail : Stops(i)} \cup {n, Avail} IN Min(ends)

consoleread(p) ==
    LET k == Takes(reader[p].n)  lastc == buf[Slot(r + k - 1)]
        some == k > 1 \/ reader[p].n < reader[p].target
    IN
    /\ reader[p].st = "run" /\ ~Locked
    /\ \/ /\ r = w /\ p \in killed
          /\ reader' = [reader EXCEPT ![p] = NotReading] /\ UNCHANGED r
       \/ /\ r = w /\ p \notin killed
          /\ reader' = [reader EXCEPT ![p].st = "tosleep"] /\ UNCHANGED r
       \/ /\ r # w
          /\ r' = IF lastc = "D" /\ some THEN (r + k - 1) % W ELSE (r + k) % W
          /\ reader' = [reader EXCEPT ![p] =
               IF Stops(k) \/ k = @.n THEN NotReading ELSE [@ EXCEPT !.n = @ - k]]
    /\ UNCHANGED <<buf, w, e, shift, down, port, killed, pos>>

(* sleep takes ptable.lock, gives cons.lock back and sleeps, killed or     *)
(* not.                                                                    *)
sleep(p) ==
    /\ reader[p].st = "tosleep"
    /\ reader' = [reader EXCEPT ![p].st = "sleep"]
    /\ UNCHANGED <<buf, r, w, e, shift, down, port, killed, pos>>

kill(p) ==
    /\ killed' = killed \cup {p}
    /\ reader' = [reader EXCEPT ![p].st = IF @ = "sleep" THEN "run" ELSE @]
    /\ UNCHANGED <<buf, r, w, e, shift, down, port, pos>>

(* A user process writes a character, under cons.lock.                     *)
consolewrite ==
    \E c \in {"nl", "d"} :
      /\ ~Locked /\ pos' = cgaputc(pos, c)
      /\ UNCHANGED <<buf, r, w, e, shift, down, port, reader, killed>>

Next ==
    \/ uartintr \/ kbdintr \/ consolewrite
    \/ \E k \in Keys : KeyDown(k) \/ KeyUp(k)
    \/ \E p \in Readers : Read(p) \/ consoleread(p) \/ sleep(p) \/ kill(p)
Spec == Init /\ [][Next]_cvars

----------------------------------------------------------------------------
(* Properties.                                                             *)

TypeOK ==
    /\ {r, w, e} \subseteq 0..(W - 1) /\ pos \in Nat
    /\ shift \subseteq {"CTL", "SHIFT", "E0ESC"} /\ down \subseteq Keys
    /\ Len(port) <= PortSize
    /\ \A p \in Readers : reader[p].st \in {"user", "run", "tosleep", "sleep"}

Ring(from, to) == [i \in 1..((to - from) % W) |-> buf[Slot(from + i - 1)]]

L == INSTANCE LineSpec WITH lines <- Ring(r, w), line <- Ring(w, e),
        Chars <- {"nl", "D", "d", "u", "x"}, EndsLine <- {"nl", "D"}, Eof <- "D",
        Capacity <- INPUT_BUF

(* The ring with its three wrapping indices, two readers and two sources   *)
(* of input is a queue of lines and a line being typed: nothing is lost,   *)
(* reordered or read before it is committed, and ^D is seen on its own.    *)
ImplementsLines == L!Spec

(* No reader sleeps while there is a line for it; and a full ring always   *)
(* has something to read, or nobody could type the newline that ends the   *)
(* line.                                                                   *)
ReaderWoken ==
    /\ \A p \in Readers : Waiting(p) => r = w
    /\ (e - r) % W = INPUT_BUF => w = e

(* When no key is down and the controller is empty no modifier is left on, *)
(* whatever the order keys are released in.                                *)
NoStuckModifier ==
    down = {} /\ port = <<>> => shift = {}

(* The cursor stays on the screen, above the last row, and never makes     *)
(* cgaputc panic.                                                          *)
CursorOnScreen == pos >= 0 /\ pos < (Rows - 1) * Cols

----------------------------------------------------------------------------
(* What the repository says of the program and the code does not do (the   *)
(* README lists where).  No passing run checks this.                       *)

(* Nobody sleeps in consoleread once it was killed.                        *)
KilledWakes == \A p \in killed : ~Waiting(p)
=============================================================================
