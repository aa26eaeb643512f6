------------------------------ MODULE LineSpec ------------------------------
(***************************************************************************)
(* What the console promises its readers: characters are edited on the     *)
(* line being typed, and delivered in order once the line is ended.        *)
(***************************************************************************)
EXTENDS Naturals, Sequences

CONSTANTS Chars, EndsLine, Eof, Capacity
VARIABLES lines, line       \* delivered and not yet read; being typed

vars == <<lines, line>>
Init == lines = <<>> /\ line = <<>>

Room == Len(lines) + Len(line) < Capacity

(* The line is delivered when it ends, or when there is no more room.      *)
Type ==
    \E c \in Chars :
      /\ Room
      /\ IF c \in EndsLine \/ Len(lines) + Len(line) + 1 = Capacity
         THEN lines' = lines \o Append(line, c) /\ line' = <<>>
         ELSE line' = Append(line, c) /\ UNCHANGED lines

Erase ==
    \E n \in 1..Len(line) :
      n \in {1, Len(line)} /\ line' = SubSeq(line, 1, Len(line) - n) /\ UNCHANGED lines

(* A reader takes what it may have of the first line.  An end of file goes *)
(* alone: it stays if characters before it were taken.                     *)
Read ==
    \E n \in 1..Len(lines) :
      /\ \A i \in 1..(n - 1) : lines[i] \notin EndsLine
      /\ lines[n] = Eof => n = 1
      /\ lines' = SubSeq(lines, n + 1, Len(lines)) /\ UNCHANGED line

Next == Type \/ Erase \/ Read
Spec == Init /\ [][Next]_vars
=============================================================================
