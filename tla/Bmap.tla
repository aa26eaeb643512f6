-------------------------------- MODULE Bmap --------------------------------
(***************************************************************************)
(* The contents of files in src/project3_filesystem/fs.c: the free bitmap, *)
(* direct, indirect, double and triple indirect blocks, readi, writei and  *)
(* itrunc.  The inode is locked throughout and a bitmap block is tested    *)
(* and set under its buffer lock, so one action is one call.  A block is   *)
(* NINDIRECT words: block numbers or data.                                 *)
(***************************************************************************)
EXTENDS Integers, Sequences, FiniteSets, Functions, FiniteSetsExt, SequencesExt

CONSTANTS
    Files,                  \* the inodes in use
    NDIRECT, NINDIRECT,     \* words of an inode, words of a block
    Reserved,               \* boot block, super block, log, inodes, bitmap
    FSSIZE,                 \* blocks 0..FSSIZE-1
    WriteSizes,             \* words written by one call
    Backwards               \* how far before the end of the file it starts

Blocks == 0..(FSSIZE - 1)
NDOUBLE == NINDIRECT * NINDIRECT
NTRIPLE == NINDIRECT * NINDIRECT * NINDIRECT
MAXFILE == NDIRECT + NINDIRECT + NDOUBLE + NTRIPLE

VARIABLES
    used,       \* the free bitmap: blocks marked in use
    data,       \* the words of every block
    inode,      \* addrs (the indirect block last), D_addr, T_addr, size
    halt        \* why the machine has stopped

bvars == <<used, data, inode, halt>>

Zeroes == [w \in 0..(NINDIRECT - 1) |-> 0]
NoBlocks == [addrs |-> [k \in 0..NDIRECT |-> 0], D_addr |-> 0, T_addr |-> 0, size |-> 0]

Init ==
    /\ used = 0..(Reserved - 1)
    /\ data = [b \in Blocks |-> Zeroes]
    /\ inode = [f \in Files |-> NoBlocks]
    /\ halt = "no"

----------------------------------------------------------------------------
(* A file system as one value, so that an allocation can feed the next:    *)
(* u the bitmap, d the blocks, a the block just found, ok until a panic.   *)

Fs(u, d, a, ok) == [u |-> u, d |-> d, a |-> a, ok |-> ok]

FirstFree(u) == Min(Blocks \ u)

(* balloc: the first free block, marked in use and zeroed.                 *)
balloc(s) ==
    IF ~s.ok \/ Blocks \subseteq s.u THEN [s EXCEPT !.ok = FALSE]
    ELSE LET b == FirstFree(s.u) IN
         Fs(s.u \cup {b}, [s.d EXCEPT ![b] = Zeroes], b, TRUE)

(* The block in word idx of block s.a, allocated if the word is 0.         *)
bmapstep(s, idx) ==
    IF ~s.ok THEN s
    ELSE IF s.d[s.a][idx] # 0 THEN [s EXCEPT !.a = s.d[s.a][idx]]
    ELSE LET t == balloc(s) IN
         IF t.ok THEN [t EXCEPT !.d[s.a][idx] = t.a] ELSE t

(* A block number kept in the inode itself.                                *)
Slot(s, a) == IF a # 0 THEN [s EXCEPT !.a = a] ELSE balloc(s)

(* Where the number of block bn is: a slot of the inode, then the words to *)
(* follow from there.                                                      *)
TriplePath_Short(bn) == <<bn \div (NINDIRECT * NINDIRECT), bn % NINDIRECT, bn % NINDIRECT>>

DoublePath(bn) == <<bn \div NINDIRECT, bn % NINDIRECT>>
TriplePath(bn) ==
    LET r == bn % (NINDIRECT * NINDIRECT) IN
    <<bn \div (NINDIRECT * NINDIRECT), r \div NINDIRECT, r % NINDIRECT>>

(* The pair of the file system and the inode after block bn was looked up, *)
(* level by level; its number is in the a of the file system.              *)
bmap(s, ip, bn) ==
    LET single == bn - NDIRECT  double == single - NINDIRECT  triple == double - NDOUBLE
    IN
    IF bn < NDIRECT
    THEN LET t == Slot(s, ip.addrs[bn]) IN <<t, [ip EXCEPT !.addrs[bn] = t.a]>>
    ELSE IF single < NINDIRECT
    THEN LET t == Slot(s, ip.addrs[NDIRECT]) IN
         <<bmapstep(t, single), [ip EXCEPT !.addrs[NDIRECT] = t.a]>>
    ELSE IF double < NDOUBLE
    THEN LET t == Slot(s, ip.D_addr) IN
         <<FoldLeft(bmapstep, t, DoublePath(double)), [ip EXCEPT !.D_addr = t.a]>>
    ELSE LET t == Slot(s, ip.T_addr) IN
         <<FoldLeft(bmapstep, t, TriplePath(triple)), [ip EXCEPT !.T_addr = t.a]>>

----------------------------------------------------------------------------
(* writei: word by word, each in the block bmap finds for it.              *)

(* What f writes at off: a value that no other place of a file gets.       *)
WordOf(f, off) == 100 * f + off + 1

PutWord(r, f, off) ==
    LET t == bmap(r[1], r[2], off \div NINDIRECT) IN
    IF ~t[1].ok THEN t
    ELSE <<[t[1] EXCEPT !.d[t[1].a][off % NINDIRECT] = WordOf(f, off)], t[2]>>

(* The state after the words off .. off+n-1 were written.                  *)
PutWords(f, off, n) ==
    FoldLeft(LAMBDA r, k : IF r[1].ok THEN PutWord(r, f, off + k - 1) ELSE r,
             <<Fs(used, data, 0, TRUE), inode[f]>>, [k \in 1..n |-> k])

SizeAfter(size, end) == IF end > size THEN end ELSE size

writei(f) ==
    \E back \in Backwards, n \in WriteSizes :
      LET off == inode[f].size - back  r == PutWords(f, off, n) IN
      /\ off >= 0 /\ off + n <= MAXFILE * NINDIRECT
      /\ IF r[1].ok
         THEN /\ used' = r[1].u /\ data' = r[1].d
              /\ inode' = [inode EXCEPT ![f] = [r[2] EXCEPT !.size = SizeAfter(@, off + n)]]
              /\ UNCHANGED halt
         ELSE halt' = "balloc: out of blocks" /\ UNCHANGED <<used, data, inode>>

----------------------------------------------------------------------------
(* itrunc.  bfree stops the machine when the block is free already.        *)

Words(b) == {data[b][w] : w \in 0..(NINDIRECT - 1)} \ {0}
Leaves(S) == UNION {Words(b) : b \in S}

DirectFrees(ip) == {ip.addrs[k] : k \in 0..NDIRECT} \ {0}
SingleFrees_KeepsData(ip) == {}
SingleFrees(ip) == IF ip.addrs[NDIRECT] = 0 THEN {} ELSE Words(ip.addrs[NDIRECT])

(* freeDouble frees the leaves and the blocks of their numbers, and then   *)
(* ip->D_addr, whatever block it was called for.                           *)
freeDouble(addr, D_addr) == Leaves(Words(addr)) \cup Words(addr) \cup {D_addr}
DoubleFrees(ip) == IF ip.D_addr = 0 THEN {} ELSE freeDouble(ip.D_addr, ip.D_addr)

(* The triple indirect part is freed with D_addr set to 0 already: block 0 *)
(* is freed once for each of its subtrees.                                 *)
TripleFrees(ip) ==
    IF ip.T_addr = 0 THEN {}
    ELSE {ip.T_addr} \cup UNION {freeDouble(a, 0) : a \in Words(ip.T_addr)}
FreesTwice(ip) == ip.T_addr # 0 /\ (Cardinality(Words(ip.T_addr)) > 1 \/ 0 \notin used)

Freed(ip) == DirectFrees(ip) \cup SingleFrees(ip) \cup DoubleFrees(ip) \cup TripleFrees(ip)

(* Once block 0 is free and the subtree is lost nothing more is explored.  *)
itrunc(f) ==
    /\ inode[f].size > 0
    /\ IF FreesTwice(inode[f]) \/ ~(Freed(inode[f]) \subseteq used)
       THEN halt' = "freeing free block" /\ UNCHANGED <<used, data, inode>>
       ELSE /\ used' = used \ Freed(inode[f])
            /\ inode' = [inode EXCEPT ![f] = NoBlocks]
            /\ halt' = IF inode[f].T_addr # 0 THEN "bitmap wrong" ELSE halt
            /\ UNCHANGED data

Next == halt = "no" /\ \E f \in Files : writei(f) \/ itrunc(f)
Spec == Init /\ [][Next]_bvars

----------------------------------------------------------------------------
(* Properties.                                                             *)

(* What readi returns: the words of a file, found without allocating.      *)
readi(f) ==
    [i \in 1..inode[f].size |->
       LET t == bmap(Fs(used, data, 0, TRUE), inode[f], (i - 1) \div NINDIRECT)[1]
       IN t.d[t.a][(i - 1) % NINDIRECT]]

TypeOK ==
    /\ used \subseteq Blocks
    /\ inode \in [Files -> [addrs : [0..NDIRECT -> Blocks], D_addr : Blocks,
                            T_addr : Blocks, size : 0..(MAXFILE * NINDIRECT)]]

(* The blocks of a file, level by level.                                   *)
Parts(ip) ==
    <<{ip.addrs[k] : k \in 0..NDIRECT} \ {0}, SingleFrees(ip), {ip.D_addr} \ {0},
      IF ip.D_addr = 0 THEN {} ELSE Words(ip.D_addr),
      IF ip.D_addr = 0 THEN {} ELSE Leaves(Words(ip.D_addr)), {ip.T_addr} \ {0},
      IF ip.T_addr = 0 THEN {} ELSE Words(ip.T_addr),
      IF ip.T_addr = 0 THEN {} ELSE Leaves(Words(ip.T_addr)),
      IF ip.T_addr = 0 THEN {} ELSE Leaves(Leaves(Words(ip.T_addr)))>>
BlocksOf(f) == UNION Range(Parts(inode[f]))

(* No file and no part of a file shares a block with another, with the     *)
(* reserved blocks or with the free ones, and no block in use is lost:     *)
(* whatever way bmap and itrunc go through the indirect blocks, the bitmap *)
(* is exactly what the inodes reach (TripleFreed is the exception).        *)
BitmapExact ==
    /\ used = 0..(Reserved - 1) \cup UNION {BlocksOf(f) : f \in Files}
    /\ \A f, g \in Files : f # g => BlocksOf(f) \cap BlocksOf(g) = {}
    /\ \A f \in Files : \A j, k \in 1..9 :
         j # k => Parts(inode[f])[j] \cap Parts(inode[f])[k] = {}
    /\ \A f \in Files : BlocksOf(f) \cap 0..(Reserved - 1) = {}

BlocksExact == halt # "bitmap wrong" => BitmapExact

(* "Truncate inode (discard contents)": the same with no exception.        *)
TripleFreed == halt # "freeing free block" /\ BitmapExact

(* A file is the words written to it: no write of this or another file     *)
(* lands on a word that bmap finds for a different place.                  *)
ReadsBack ==
    halt # "bitmap wrong" =>
      \A f \in Files : readi(f) = [i \in 1..inode[f].size |-> WordOf(f, i - 1)]
=============================================================================
