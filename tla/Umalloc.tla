------------------------------ MODULE Umalloc ------------------------------
(***************************************************************************)
(* The user-space allocator, umalloc.c of src/project1_scheduler: a        *)
(* circular list of free blocks in address order, headers in the blocks    *)
(* themselves.                                                             *)
(*                                                                         *)
(* Addresses and sizes are in units of a header. Address 0 is the static   *)
(* header base, which lies below the heap. The program may call sbrk()     *)
(* itself, so what morecore() gets need not follow the last block. A unit  *)
(* that is no header any more is not represented (NoHeader).               *)
(***************************************************************************)
EXTENDS Integers, FiniteSets

CONSTANTS HeapLimit,    \* units sbrk() can give out
          MinCore,      \* units morecore() asks for at least (4096)
          Requests      \* units malloc() is asked for, its header included

VARIABLES hdr,      \* hdr[a]: the header at a: next free block, size
          freep,    \* where searches start; -1 before the first call
          brk,      \* end of the heap
          used      \* ghost: the blocks in the program's hands, with their sizes

vars == <<hdr, freep, brk, used>>

Base == 0
Addresses == 0 .. HeapLimit
NoHeader == [ptr |-> 0, size |-> 0]

Init == /\ hdr = [a \in Addresses |-> NoHeader]
        /\ freep = -1
        /\ brk = 1
        /\ used = {}

-----------------------------------------------------------------------------
(* free() *)

\* The block after which bp belongs: the walk from p ends where bp lies between
\* two neighbours, or at the wrap of the list.
RECURSIVE Before(_, _, _)
Before(h, p, bp) ==
  LET next == h[p].ptr
  IN IF bp > p /\ bp < next THEN p
     ELSE IF p >= next /\ (bp > p \/ bp < next) THEN p
     ELSE Before(h, next, bp)

\* Link bp in after p, merging it with the block above and the block below.
MergeUp_Not(h, p, bp) == [h EXCEPT ![bp].ptr = h[p].ptr]
MergeUp(h, p, bp) ==
  LET next == h[p].ptr
  IN IF bp + h[bp].size = next
     THEN [h EXCEPT ![bp] = [ptr |-> h[next].ptr, size |-> @.size + h[next].size],
                    ![next] = NoHeader]
     ELSE [h EXCEPT ![bp].ptr = next]

MergeDown(h, p, bp) ==
  IF p + h[p].size = bp
  THEN [h EXCEPT ![p] = [ptr |-> h[bp].ptr, size |-> @.size + h[bp].size],
                 ![bp] = NoHeader]
  ELSE [h EXCEPT ![p].ptr = bp]

\* The headers and freep after free(bp).
Freed(h, fp, bp) ==
  LET p == Before(h, fp, bp)
  IN [h |-> MergeDown(MergeUp(h, p, bp), p, bp), p |-> p]

free(b) ==
  /\ LET r == Freed(hdr, freep, b.at) IN hdr' = r.h /\ freep' = r.p
  /\ used' = used \ {b}
  /\ UNCHANGED brk

-----------------------------------------------------------------------------
(* malloc() *)

\* The block before the first one with n units, in the order of the list from
\* start; -1 if a whole round finds none.
RECURSIVE FirstFit(_, _, _, _)
FirstFit(h, start, prev, n) ==
  LET p == h[prev].ptr
  IN IF h[p].size >= n THEN prev
     ELSE IF p = start THEN -1 ELSE FirstFit(h, start, p, n)

\* Take n units from the block after prev: all of it, or its tail end.
Take(h, prev, n) ==
  LET p == h[prev].ptr
      at == p + h[p].size - n
  IN IF h[p].size = n THEN [h |-> [h EXCEPT ![p].ptr = 0, ![prev].ptr = h[p].ptr],
                               at |-> p]
     ELSE [h |-> [h EXCEPT ![p].size = @ - n, ![at].size = n], at |-> at]

Allocates(h, prev, n, end) ==
  LET r == Take(h, prev, n)
  IN /\ hdr' = r.h
     /\ freep' = prev
     /\ brk' = end
     /\ used' = used \cup {[at |-> r.at, size |-> r.h[r.at].size]}

\* morecore(): at least MinCore units, handed to free().
CoreSize(n) == IF n < MinCore THEN MinCore ELSE n
morecore(h, fp, n) == Freed([h EXCEPT ![brk].size = CoreSize(n)], fp, brk)

malloc(n) ==
  LET fp == IF freep = -1 THEN Base ELSE freep    \* base points to itself
      fit == FirstFit(hdr, fp, fp, n)
      more == morecore(hdr, fp, n)
  IN IF fit # -1 THEN Allocates(hdr, fit, n, brk)
     ELSE IF brk + CoreSize(n) > HeapLimit + 1
          THEN freep' = fp /\ UNCHANGED <<hdr, brk, used>>
     ELSE Allocates(more.h, FirstFit(more.h, more.p, more.p, n), n, brk + CoreSize(n))

\* The program asks for memory itself.
sbrk == /\ brk + 1 <= HeapLimit + 1
        /\ brk' = brk + 1
        /\ UNCHANGED <<hdr, freep, used>>

Next == (\E n \in Requests : malloc(n)) \/ (\E b \in used : free(b)) \/ sbrk

Spec == Init /\ [][Next]_vars

-----------------------------------------------------------------------------
(* Properties *)

Units(b) == b.at .. b.at + b.size - 1

\* The blocks on the free list, from freep.
RECURSIVE ListFrom(_, _)
ListFrom(p, seen) == IF p \in seen THEN seen ELSE ListFrom(hdr[p].ptr, seen \cup {p})
FreeBlocks == IF freep = -1 THEN {}
              ELSE { [at |-> p, size |-> hdr[p].size] : p \in ListFrom(freep, {}) \ {Base} }

\* What malloc() gave out and free() has not taken back is never given out
\* again nor kept as free memory, and its header still holds its size.
BlocksDisjoint ==
  /\ \A b, c \in used \cup FreeBlocks : b # c => Units(b) \cap Units(c) = {}
  /\ \A b \in used : hdr[b.at].size = b.size

\* The list goes through every block once in address order, so that a search
\* ends, and no two neighbours are left unmerged.
ListOrdered ==
  freep # -1 =>
    LET all == ListFrom(freep, {})
    IN /\ Base \in all
       /\ Cardinality({ p \in all : hdr[p].ptr <= p }) = 1
       /\ \A b, c \in FreeBlocks : b.at + b.size # c.at
=============================================================================
