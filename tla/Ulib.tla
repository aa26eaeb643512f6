-------------------------------- MODULE Ulib --------------------------------
(***************************************************************************)
(* Pure functions of src/project1_scheduler against what they are meant to *)
(* compute: formatted output (printf.c, console.c), strings and copies     *)
(* (ulib.c, string.c), the pattern matcher and the line buffer of grep.c,  *)
(* the argument checks of system calls (syscall.c) and the reading of the  *)
(* clock (lapic.c).                                                        *)
(*                                                                         *)
(* A case is a record naming the function and its arguments; machine words *)
(* have W bits instead of 32. Strings are sequences of small numbers that  *)
(* end with their first 0, texts and patterns sequences of characters.     *)
(***************************************************************************)
EXTENDS Integers, Sequences, FiniteSets, SequencesExt, FiniteSetsExt

CONSTANTS W,        \* bits of a machine word
          Cases     \* the cases to check

VARIABLE arg        \* the case at hand

Init == arg \in Cases
Next == UNCHANGED arg

Uint(x) == x % 2^W
NL == "n"           \* the end of a line

-----------------------------------------------------------------------------
(* printf.c *)

\* The digits of x, the last one first.
RECURSIVE Digits(_, _)
Digits(x, base) == <<x % base>> \o (IF x \div base = 0 THEN <<>> ELSE Digits(x \div base, base))

\* printint(): the negation of the smallest number is itself, as a uint right.
printint(xx, base, sgn) ==
  LET neg == sgn /\ xx < 0
      x == IF neg THEN Uint(-xx) ELSE Uint(xx)
  IN [neg |-> neg, digits |-> Reverse(Digits(x, base))]

Value(ds, base) == FoldLeft(LAMBDA v, d : base * v + d, 0, ds)

PrintExact(a) ==
  LET r == printint(a.x, a.base, a.sgn)
      v == Value(r.digits, a.base)
  IN /\ (IF r.neg THEN -v ELSE v) = (IF a.sgn THEN a.x ELSE Uint(a.x))
     /\ r.digits[1] # 0 \/ Len(r.digits) = 1

\* atoi(): the value of the leading digits, modulo the word.
RECURSIVE atoi(_, _)
atoi(s, n) == IF s = <<>> THEN n
              ELSE IF s[1] \notin 0 .. 9 THEN n ELSE atoi(Tail(s), Uint(n * 10 + s[1]))

\* printf(), a machine with two states.  A number, a string and a character
\* leave one item each; an argument is used up by those only.
Directives == {"d", "x", "p", "s", "c"}
Putc(st, items) == [st EXCEPT !.out = @ \o items, !.state = "text"]
PrintfStep(st, c, args) ==
  CASE st.state = "text" /\ c = "%" -> [st EXCEPT !.state = "%"]
    [] st.state = "text" -> Putc(st, <<c>>)
    [] c \in Directives -> [Putc(st, << <<c, args[st.ap]>> >>) EXCEPT !.ap = @ + 1]
    [] c = "%" -> Putc(st, <<"%">>)
    [] OTHER -> Putc(st, <<"%", c>>)
printf(fmt, args) ==
  FoldLeft(LAMBDA st, c : PrintfStep(st, c, args),
           [state |-> "text", ap |-> 1, out |-> <<>>], fmt).out

\* cprintf(), a loop that looks one character ahead; it does not know %c.
RECURSIVE cprintf(_, _)
cprintf(fmt, args) ==
  IF fmt = <<>> \/ fmt = <<"%">> THEN <<>>
  ELSE IF fmt[1] # "%" THEN <<fmt[1]>> \o cprintf(Tail(fmt), args)
  ELSE LET rest == SubSeq(fmt, 3, Len(fmt))
       IN CASE fmt[2] \in Directives \ {"c"} ->
                 << <<fmt[2], Head(args)>> >> \o cprintf(rest, Tail(args))
            [] fmt[2] = "%" -> <<"%">> \o cprintf(rest, args)
            [] OTHER -> <<"%", fmt[2]>> \o cprintf(rest, args)

\* The kernel and the library print the same, if %c is not used.
FormatExact(a) ==
  (\A k \in 2 .. Len(a.fmt) : ~(a.fmt[k - 1] = "%" /\ a.fmt[k] = "c")) =>
    printf(a.fmt, a.args) = cprintf(a.fmt, a.args)

-----------------------------------------------------------------------------
(* ulib.c *)

\* gets(): up to the end of a line, a full buffer or the end of the input.
RECURSIVE Got(_, _)
Got(in, room) ==
  IF in = <<>> \/ room <= 1 THEN <<>>
  ELSE <<in[1]>> \o (IF in[1] = NL THEN <<>> ELSE Got(Tail(in), room - 1))
gets(in, max) == LET b == Got(in, max)
                 IN [buf |-> b, rest |-> SubSeq(in, Len(b) + 1, Len(in))]

\* Calls of gets() until it returns nothing return all of the input, in pieces
\* of one line at most.
RECURSIVE AllGot(_, _)
AllGot(in, max) == LET g == gets(in, max)
                   IN IF g.buf = <<>> THEN <<>> ELSE <<g.buf>> \o AllGot(g.rest, max)
GetsExact(a) ==
  LET all == AllGot(a.in, a.max)
  IN a.max > 1 =>
     /\ FlattenSeq(all) = a.in
     /\ \A k \in DOMAIN all : /\ Len(all[k]) < a.max
                              /\ \A j \in 1 .. Len(all[k]) - 1 : all[k][j] # NL

-----------------------------------------------------------------------------
(* string.c *)

\* memmove(): backwards when the destination starts inside the source.
Forward(m, d, s, n) == FoldLeft(LAMBDA a, k : [a EXCEPT ![d + k] = a[s + k]], m,
                                [k \in 1 .. n |-> k - 1])
Backward(m, d, s, n) == FoldLeft(LAMBDA a, k : [a EXCEPT ![d + k] = a[s + k]], m,
                                 [k \in 1 .. n |-> n - k])
memmove_Forward(m, d, s, n) == Forward(m, d, s, n)
memmove(m, d, s, n) ==
  IF s < d /\ s + n > d THEN Backward(m, d, s, n) ELSE Forward(m, d, s, n)

MoveExact(a) ==
  LET m == [k \in 1 .. a.size |-> k]
  IN memmove(m, a.d, a.s, a.n) =
       [k \in 1 .. a.size |-> IF k \in a.d .. a.d + a.n - 1 THEN m[a.s + k - a.d] ELSE m[k]]

\* strncmp(), by which namecmp() compares file names.
RECURSIVE strncmp(_, _, _)
strncmp(p, q, n) ==
  IF n > 0 /\ p[1] # 0 /\ p[1] = q[1] THEN strncmp(Tail(p), Tail(q), n - 1)
  ELSE IF n = 0 THEN 0 ELSE p[1] - q[1]

RECURSIVE strcmp(_, _)
strcmp(p, q) == IF p[1] # 0 /\ p[1] = q[1] THEN strcmp(Tail(p), Tail(q)) ELSE p[1] - q[1]

RECURSIVE memcmp(_, _, _)
memcmp(v, w, n) == IF n = 0 THEN 0
                   ELSE IF v[1] # w[1] THEN v[1] - w[1] ELSE memcmp(Tail(v), Tail(w), n - 1)

\* strncpy() pads with 0; safestrcpy() always ends with one.
StrLen(s) == Min({ k \in DOMAIN s : s[k] = 0 }) - 1
strncpy(t, n) == [k \in 1 .. n |-> IF k <= StrLen(t) THEN t[k] ELSE 0]
safestrcpy(t, n) == [k \in 1 .. Min({ n, StrLen(t) + 1 }) |->
                       IF k < n /\ k <= StrLen(t) THEN t[k] ELSE 0]

\* Names are equal for strncmp() exactly if strncpy() stores the same entry.
NamesExact(a) ==
  /\ (strncmp(a.p, a.q, a.n) = 0) <=> (strncpy(a.p, a.n) = strncpy(a.q, a.n))
  /\ (strncmp(a.p, a.q, a.n) = 0) <=> (memcmp(strncpy(a.p, a.n), strncpy(a.q, a.n), a.n) = 0)
  /\ (strcmp(a.p, a.q) = 0) <=> (a.p = a.q)
  /\ strcmp(a.p, a.q) = -strcmp(a.q, a.p)
  /\ a.n > 0 => Last(safestrcpy(a.p, a.n)) = 0

-----------------------------------------------------------------------------
(* grep.c *)

RECURSIVE matchhere(_, _)
RECURSIVE matchstar(_, _, _)
matchhere(re, text) ==
  CASE re = <<>> -> TRUE
    [] Len(re) >= 2 /\ re[2] = "*" -> matchstar(re[1], SubSeq(re, 3, Len(re)), text)
    [] re = <<"$">> -> text = <<>>
    [] OTHER -> /\ text # <<>> /\ re[1] \in {".", text[1]}
                /\ matchhere(Tail(re), Tail(text))
matchstar(c, re, text) ==
  \/ matchhere(re, text)
  \/ /\ text # <<>> /\ (text[1] = c \/ c = ".")
     /\ matchstar(c, re, Tail(text))

Suffix(text, k) == SubSeq(text, k + 1, Len(text))
match(re, text) ==
  IF re # <<>> /\ re[1] = "^" THEN matchhere(Tail(re), text)
  ELSE \E k \in 0 .. Len(text) : matchhere(re, Suffix(text, k))

\* The meaning of a pattern: the positions reached from a set of positions.
Reached(S, c, text) == { k + 1 : k \in { j \in S : j < Len(text) /\ c \in {".", text[j + 1]} } }
RECURSIVE Star(_, _, _)
Star(S, c, text) == LET T == S \cup Reached(S, c, text)
                    IN IF T = S THEN S ELSE Star(T, c, text)
RECURSIVE Positions(_, _, _)
Positions(S, re, text) ==
  CASE re = <<>> -> S
    [] Len(re) >= 2 /\ re[2] = "*" ->
         Positions(Star(S, re[1], text), SubSeq(re, 3, Len(re)), text)
    [] re = <<"$">> -> S \cap {Len(text)}
    [] OTHER -> Positions(Reached(S, re[1], text), Tail(re), text)
Matches(re, text) ==
  IF re # <<>> /\ re[1] = "^" THEN Positions({0}, Tail(re), text) # {}
  ELSE Positions(0 .. Len(text), re, text) # {}

\* grep(): what a read leaves after the last newline is kept for the next one,
\* unless the buffer holds no newline at all: then it is dropped.
RECURSIVE Lines(_)
Lines(s) ==
  IF ~\E k \in DOMAIN s : s[k] = NL THEN [lines |-> <<>>, rest |-> s]
  ELSE LET k == Min({ j \in DOMAIN s : s[j] = NL })
           r == Lines(SubSeq(s, k + 1, Len(s)))
       IN [r EXCEPT !.lines = <<SubSeq(s, 1, k - 1)>> \o @]

GrepRead(st, chunk, re) ==
  LET r == Lines(st.buf \o chunk)
  IN [out |-> st.out \o SelectSeq(r.lines, LAMBDA l : match(re, l)),
      buf |-> IF r.lines = <<>> THEN <<>> ELSE r.rest]
grep(re, chunks) == FoldLeft(LAMBDA st, c : GrepRead(st, c, re),
                             [out |-> <<>>, buf |-> <<>>], chunks).out

\* Every complete matching line is printed, in order, if every read returns at
\* least one newline.
GrepExact(a) ==
  (\A k \in DOMAIN a.chunks : NL \in Range(a.chunks[k])) =>
    grep(a.re, a.chunks) = SelectSeq(Lines(FlattenSeq(a.chunks)).lines,
                                     LAMBDA l : Matches(a.re, l))

-----------------------------------------------------------------------------
(* syscall.c *)

\* fetchint() and argptr(): is the word, or the block, inside the process?
fetchint(addr, sz) == ~(addr >= sz \/ Uint(addr + 4) > sz)
argptr(i, size, sz) == ~(size < 0 \/ Uint(i) >= sz \/ Uint(Uint(i) + size) > sz)

\* fetchstr(): the length of the string at addr, -1 if it does not end inside;
\* zeros are the addresses of bytes that are 0.
fetchstr(addr, zeros, sz) ==
  LET ends == { z \in zeros : addr <= z /\ z < sz }
  IN IF addr >= sz \/ ends = {} THEN -1 ELSE Min(ends) - addr

\* argint() and argstr(): the argument lies on the user's stack.
argint(esp, n, sz) == fetchint(Uint(esp + 4 + 4 * n), sz)
argstr(esp, n, addr, zeros, sz) ==
  IF argint(esp, n, sz) THEN fetchstr(addr, zeros, sz) ELSE -1

\* A user address space ends below 2^(W-1) (KERNBASE), so the sums do not wrap:
\* what is accepted lies inside it.
ArgsExact(a) ==
  /\ fetchint(a.i, a.sz) <=> (a.i + 4 <= a.sz)
  /\ argptr(a.i, a.size, a.sz) <=> (a.size >= 0 /\ a.i < a.sz /\ a.i + a.size <= a.sz)
  /\ LET len == argstr(a.esp, 0, a.i, a.zeros, a.sz)
     IN len >= 0 => /\ a.i + len < a.sz /\ a.i + len \in a.zeros
                    /\ \A b \in a.i .. a.i + len - 1 : b \notin a.zeros

-----------------------------------------------------------------------------
(* lapic.c *)

\* The clock's registers: seconds, minutes, ... in base 10 or in its BCD code.
\* It ticks once while the kernel reads, before the read number "at".
Bcd(x) == 16 * (x \div 10) + (x % 10)
CONV(x) == 10 * (x \div 16) + (x % 16)
cmos_read(a, t, f) == LET v == IF t < a.at THEN a.old[f] ELSE a.new[f]
                      IN IF a.bcd THEN Bcd(v) ELSE v

\* fill_rtcdate(): field after field, from time t on.
fill_rtcdate(a, t) == [f \in DOMAIN a.old |-> cmos_read(a, t + f, f)]

\* cmostime(): twice, until nothing changed in between.  (Its look at the bit
\* "update in progress" only saves a second reading, and 2000 is added to the
\* year.)
RECURSIVE cmostime(_, _)
cmostime(a, t) ==
  LET n == Len(a.old)
      t1 == fill_rtcdate(a, t)
      t2 == fill_rtcdate(a, t + n)
  IN IF t1 = t2 THEN [f \in DOMAIN t1 |-> IF a.bcd THEN CONV(t1[f]) ELSE t1[f]]
     ELSE cmostime(a, t + 2 * n)

\* The result is a time the clock has shown, never a mixture of two.
ClockExact(a) == cmostime(a, 0) \in {a.old, a.new}

-----------------------------------------------------------------------------
(* Properties *)

\* Each function computes what its reference says, for every case.
AlgorithmsExact ==
  CASE arg.f = "print" -> PrintExact(arg)
    [] arg.f = "atoi" -> atoi(printint(arg.x, 10, FALSE).digits \o <<arg.end>>, 0) = arg.x
    [] arg.f = "move" -> MoveExact(arg)
    [] arg.f = "name" -> NamesExact(arg)
    [] arg.f = "match" -> match(arg.re, arg.text) = Matches(arg.re, arg.text)
    [] arg.f = "grep" -> GrepExact(arg)
    [] arg.f = "args" -> ArgsExact(arg)
    [] arg.f = "format" -> FormatExact(arg)
    [] arg.f = "gets" -> GetsExact(arg)
    [] arg.f = "clock" -> ClockExact(arg)
=============================================================================
