-------------------------------- MODULE Mkfs --------------------------------
(***************************************************************************)
(* src/project3_filesystem/mkfs.c: how the first file system image is      *)
(* made.                                                                   *)
(*                                                                         *)
(* A block holds NINDIRECT words, a word is a directory entry, a piece of  *)
(* a file or a block number. The image is written by one process, one      *)
(* action per call of main(): ialloc() and the entry of a file, an append, *)
(* the end.                                                                *)
(***************************************************************************)
EXTENDS Integers, Sequences, FiniteSets, SequencesExt, FiniteSetsExt

CONSTANTS NDIRECT, NINDIRECT,
          NMETA,       \* boot block, super block, log, inode blocks, bitmap
          FSSIZE,      \* blocks of the image
          NINODES,     \* inodes 1..NINODES, the first is the root
          Trees        \* sequences of file sizes: what the image is made from

VARIABLES todo,        \* the sizes of the files still to come
          din,         \* the inodes: type, size, addrs; ialloc() has freeinode
          freeinode, freeblock,
          sect,        \* the blocks
          bits,        \* the bitmap
          stop         \* "no", "done" or why the program stopped

mvars == <<todo, din, freeinode, freeblock, sect, bits, stop>>

Blocks == 0 .. FSSIZE - 1
Inums == 1 .. NINODES
Root == 1
Zeroes == [w \in 0 .. NINDIRECT - 1 |-> 0]
NoInode == [type |-> "free", size |-> 0, addrs |-> [k \in 0 .. NDIRECT |-> 0]]

\* What inode i holds at offset off; a number no other place has.
WordOf(i, off) == 100 * i + off + 1

-----------------------------------------------------------------------------
(* iappend(): a value of the image is threaded through the words *)

Image(d, f, s, ok) == [d |-> d, f |-> f, s |-> s, ok |-> ok]

\* A fresh block in the place where its number belongs.
Direct(m, i, fbn) ==
  IF m.d[i].addrs[fbn] # 0 THEN m
  ELSE Image([m.d EXCEPT ![i].addrs[fbn] = m.f], m.f + 1, m.s, m.ok)

Indirect(m, i, k) ==
  LET t == Direct(m, i, NDIRECT)
      b == t.d[i].addrs[NDIRECT]
  IN IF t.s[b][k] # 0 THEN t ELSE Image(t.d, t.f + 1, [t.s EXCEPT ![b][k] = t.f], t.ok)

\* The block of file block fbn.  The assertion fbn < MAXFILE lets a block
\* through that the array indirect[] has no room for.
BlockFor(m, i, fbn) ==
  IF fbn < NDIRECT THEN Direct(m, i, fbn)
  ELSE IF fbn - NDIRECT >= NINDIRECT THEN [m EXCEPT !.ok = FALSE]
  ELSE Indirect(m, i, fbn - NDIRECT)

NumberOf(m, i, fbn) == IF fbn < NDIRECT THEN m.d[i].addrs[fbn]
                       ELSE m.s[m.d[i].addrs[NDIRECT]][fbn - NDIRECT]

AppendWord(m, i) ==
  LET off == m.d[i].size
      fbn == off \div NINDIRECT
      t == BlockFor(m, i, fbn)
  IN IF ~t.ok THEN t
     ELSE Image([t.d EXCEPT ![i].size = off + 1], t.f,
                [t.s EXCEPT ![NumberOf(t, i, fbn)][off % NINDIRECT] = WordOf(i, off)], TRUE)

iappend(m, i, n) ==
  FoldLeft(LAMBDA a, k : IF a.ok THEN AppendWord(a, i) ELSE a, m, [k \in 1 .. n |-> k])

-----------------------------------------------------------------------------
(* main() *)

Allocated(d, i, type) == [d EXCEPT ![i] = [NoInode EXCEPT !.type = type]]

\* The zeroed image with the root and its entries "." and "..".
Init ==
  /\ todo \in Trees
  /\ freeinode = 2
  /\ bits = {}
  /\ stop = "no"
  /\ LET m == iappend(Image(Allocated([i \in Inums |-> NoInode], Root, "dir"), NMETA,
                            [b \in Blocks |-> Zeroes], TRUE), Root, 2)
     IN din = m.d /\ freeblock = m.f /\ sect = m.s

\* One file: its inode, its entry in the root, its contents.
AddFile ==
  /\ stop = "no" /\ todo # <<>>
  /\ LET m == Image(Allocated(din, freeinode, "file"), freeblock, sect, TRUE)
         e == iappend(m, Root, 1)
         r == iappend(e, freeinode, Head(todo))
     IN IF r.ok
        THEN din' = r.d /\ freeblock' = r.f /\ sect' = r.s /\ UNCHANGED stop
        ELSE stop' = "overrun" /\ UNCHANGED <<din, freeblock, sect>>
  /\ freeinode' = freeinode + 1
  /\ todo' = Tail(todo)
  /\ UNCHANGED bits

\* The size of the root is rounded up, then balloc() writes the bitmap.
Finish ==
  /\ stop = "no" /\ todo = <<>>
  /\ din' = [din EXCEPT ![Root].size = (@ \div NINDIRECT + 1) * NINDIRECT]
  /\ bits' = 0 .. freeblock - 1
  /\ stop' = "done"
  /\ UNCHANGED <<todo, freeinode, freeblock, sect>>

Next == AddFile \/ Finish
Spec == Init /\ [][Next]_mvars

-----------------------------------------------------------------------------
(* Properties *)

Words(b) == { sect[b][w] : w \in 0 .. NINDIRECT - 1 } \ {0}
Direct0(i) == { din[i].addrs[k] : k \in 0 .. NDIRECT } \ {0}
BlocksOf(i) == Direct0(i) \cup (IF din[i].addrs[NDIRECT] = 0 THEN {}
                                ELSE Words(din[i].addrs[NDIRECT]))
Here == Image(din, freeblock, sect, TRUE)
Length(i) == IF i = Root THEN freeinode ELSE din[i].size

\* In the finished image the bitmap is exactly the metadata and the blocks of
\* the inodes, no two inodes share a block, and the kernel finds each file as
\* it was copied.
ImageExact ==
  stop = "done" =>
    /\ bits = 0 .. NMETA - 1 \cup UNION { BlocksOf(i) : i \in Inums }
    /\ \A i, j \in Inums : i # j => BlocksOf(i) \cap BlocksOf(j) = {}
    /\ \A i \in Inums : BlocksOf(i) \cap 0 .. NMETA - 1 = {}
    /\ \A i \in Inums : \A off \in 0 .. Length(i) - 1 :
         sect[NumberOf(Here, i, off \div NINDIRECT)][off % NINDIRECT] = WordOf(i, off)
=============================================================================
