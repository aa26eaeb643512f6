--------------------------------- MODULE Vm ---------------------------------
(***************************************************************************)
(* Page tables and physical pages of src/project1_scheduler: kalloc.c,     *)
(* vm.c and exec.c (exec2 is of src/project2_LWP). A process is its page   *)
(* table and its size; pages are taken one by one and run out at every     *)
(* possible point. kalloc is atomic and page tables are private, so a call *)
(* is one action.                                                          *)
(***************************************************************************)
EXTENDS Integers, Sequences, FiniteSets, Functions, FiniteSetsExt, SequencesExt

CONSTANTS
    Procs,
    NPages,         \* physical pages
    PGSIZE,         \* bytes of a page
    NPT,            \* pages mapped by one page table
    UserTables,     \* page tables below KERNBASE
    AddrSpace,      \* addresses of a machine word
    WORD,           \* bytes of a machine word
    Programs,       \* [magic, segs]: what exec may find
    ArgLists,       \* the lengths of the arguments of exec
    StackSizes,     \* the stack sizes asked of exec2
    MaxStack,       \* its largest stack
    SbrkArgs

KERNBASE == UserTables * NPT * PGSIZE
UserPages == 0..(UserTables * NPT - 1)
Tables == 0..UserTables                 \* the last one maps the kernel

VARIABLES
    freepages,      \* length of kmem.freelist
    mem             \* struct proc: pgdir and sz

vvars == <<freepages, mem>>

(* A page directory: is there one, its page tables, the mapped user pages  *)
(* and those of them the user may touch.                                   *)
NoDir == [dir |-> FALSE, tabs |-> {}, ptes |-> {}, user |-> {}]
NoMem == [pg |-> NoDir, sz |-> 0, live |-> FALSE]

PGROUNDUP(sz) == ((sz + PGSIZE - 1) \div PGSIZE) * PGSIZE

(* The pages PGROUNDUP(from) .. below to that a loop over them visits.     *)
PageRange(from, to) ==
    LET a == PGROUNDUP(from) \div PGSIZE  z == (to + PGSIZE - 1) \div PGSIZE IN
    [i \in 1..(IF z > a THEN z - a ELSE 0) |-> a + i - 1]

----------------------------------------------------------------------------
(* A computation on the number f of free pages and one page directory pg;  *)
(* ok fails when a page is missing.                                        *)

State(f, pg) == [f |-> f, pg |-> pg, ok |-> TRUE]
Fail(s) == [s EXCEPT !.ok = FALSE]

kalloc(s) == IF s.f = 0 THEN Fail(s) ELSE [s EXCEPT !.f = @ - 1]
kfree(s) == [s EXCEPT !.f = @ + 1]

walkpgdir(s, t) ==
    IF t \in s.pg.tabs THEN s
    ELSE LET k == kalloc(s) IN IF k.ok THEN [k EXCEPT !.pg.tabs = @ \cup {t}] ELSE k

(* setupkvm: the directory and the kernel's page table, or neither.        *)
setupkvm(f) ==
    LET d == kalloc(State(f, NoDir))
        s == walkpgdir([d EXCEPT !.pg.dir = TRUE], UserTables)
    IN IF ~d.ok THEN d ELSE IF s.ok THEN s ELSE Fail(kfree([s EXCEPT !.pg = NoDir]))

(* One page: kalloc, then mappages, which may need a page table; what was  *)
(* allocated is freed when it fails.                                       *)
MapPage_LeaksPage(s, v) ==
    LET k == kalloc(s)  t == walkpgdir(k, v \div NPT) IN
    IF ~s.ok \/ ~k.ok THEN Fail(s)
    ELSE IF t.ok THEN [t EXCEPT !.pg.ptes = @ \cup {v}, !.pg.user = @ \cup {v}]
    ELSE t

MapPage(s, v) ==
    LET k == kalloc(s)  t == walkpgdir(k, v \div NPT) IN
    IF ~s.ok \/ ~k.ok THEN Fail(s)
    ELSE IF t.ok THEN [t EXCEPT !.pg.ptes = @ \cup {v}, !.pg.user = @ \cup {v}]
    ELSE kfree(t)

UnmapPage(s, v) ==
    IF v \notin s.pg.ptes THEN s
    ELSE kfree([s EXCEPT !.pg.ptes = @ \ {v}, !.pg.user = @ \ {v}])

deallocuvm(s, oldsz, newsz) ==
    IF newsz >= oldsz THEN s ELSE FoldLeft(UnmapPage, s, PageRange(newsz, oldsz))

(* Grow from oldsz to newsz; on failure every page of this call is given   *)
(* back, but no page table.                                                *)
allocuvm(s, oldsz, newsz) ==
    LET t == FoldLeft(MapPage, s, PageRange(oldsz, newsz)) IN
    IF ~s.ok \/ newsz >= KERNBASE THEN Fail(s)
    ELSE IF newsz < oldsz \/ t.ok THEN t
    ELSE deallocuvm(t, newsz, oldsz)

(* All user pages, the page tables and the directory.                      *)
freevm(s) ==
    LET u == deallocuvm(s, KERNBASE, 0) IN
    [f |-> u.f + Cardinality(u.pg.tabs) + 1, pg |-> NoDir, ok |-> s.ok]

(* copyuvm: the parent's pages up to sz, with their permissions.           *)
copyuvm(f, pg, sz) ==
    LET s == FoldLeft(MapPage, setupkvm(f), PageRange(0, sz)) IN
    IF s.ok THEN [s EXCEPT !.pg.user = pg.user]
    ELSE IF ~s.pg.dir THEN s
    ELSE freevm(s)

Init ==
    LET k == setupkvm(NPages)
        u == MapPage(k, 0)              \* inituvm maps initcode at 0
        p == Min(Procs)
    IN
    /\ freepages = u.f
    /\ mem = [q \in Procs |-> IF q = p THEN [pg |-> u.pg, sz |-> PGSIZE, live |-> TRUE]
                              ELSE NoMem]

----------------------------------------------------------------------------
(* The calls.  A process whose first page is gone faults before its next.  *)

Runs(p) == mem[p].live /\ 0 \in mem[p].pg.user

fork(p) ==
    \E q \in Procs :
      /\ Runs(p) /\ mem[q] = NoMem
      /\ LET s == copyuvm(freepages, mem[p].pg, mem[p].sz) IN
         /\ freepages' = s.f
         /\ mem' = IF s.ok THEN [mem EXCEPT ![q] = [pg |-> s.pg, sz |-> mem[p].sz,
                                                    live |-> TRUE]]
                   ELSE mem

(* sbrk; a shrink to nothing frees the pages and then reports an error     *)
(* without storing the size.                                               *)
growproc(p) ==
    \E n \in SbrkArgs :
      LET old == mem[p].sz
          s == IF n > 0 THEN allocuvm(State(freepages, mem[p].pg), old, old + n)
               ELSE deallocuvm(State(freepages, mem[p].pg), old, old + n)
      IN
      /\ Runs(p) /\ old + n >= 0
      /\ freepages' = s.f
      /\ mem' = [mem EXCEPT ![p].pg = s.pg,
                            ![p].sz = IF s.ok /\ old + n > 0 THEN old + n ELSE @]

(* exec builds a new table; only when all is well does it replace the old. *)
(* A segment of the file has a size in memory and one in the file, of      *)
(* which "there" bytes can be read.                                        *)
SegEnd(g) == (g.vaddr + g.memsz) % AddrSpace
loaduvm(g) == g.filesz <= g.there

LoadSegment(s, g) ==
    LET t == allocuvm(State(s.f, s.pg), s.sz, SegEnd(g))
        sz == Max({s.sz, SegEnd(g)})
    IN
    IF ~s.ok \/ g.memsz < g.filesz \/ SegEnd(g) < g.vaddr THEN Fail(s)
    ELSE [f |-> t.f, pg |-> t.pg, sz |-> sz,
          ok |-> t.ok /\ sz > 0 /\ g.vaddr % PGSIZE = 0 /\ loaduvm(g)]

clearpteu(s, v) == [s EXCEPT !.pg.user = @ \ {v}]

(* A guard page the user cannot touch, and n pages of stack above it.      *)
AddStack(s, n) ==
    LET base == PGROUNDUP(s.sz)
        top == base + (1 + n) * PGSIZE
        t == allocuvm(State(s.f, s.pg), base, top)
    IN IF ~s.ok THEN s
       ELSE IF ~t.ok THEN Fail([s EXCEPT !.f = t.f, !.pg = t.pg])
       ELSE clearpteu([f |-> t.f, pg |-> t.pg, sz |-> top, ok |-> TRUE], base \div PGSIZE)

(* The arguments go down from the top of the stack, each at a word         *)
(* boundary, and the vector of their addresses below them.  An address     *)
(* below 0 is one of the kernel.                                           *)
uva2ka(pg, va) == va >= 0 /\ va \div PGSIZE \in pg.user
copyout(pg, va, len) == \A b \in va..(va + len - 1) : uva2ka(pg, b)

Push(s, len) ==
    LET sp == ((s.sp - len) \div WORD) * WORD IN
    IF s.ok /\ copyout(s.pg, sp, len) THEN [s EXCEPT !.sp = sp] ELSE Fail(s)
PushArgs(s, args) ==
    Push(FoldLeft(Push, [f |-> s.f, pg |-> s.pg, sz |-> s.sz, sp |-> s.sz, ok |-> s.ok], args),
         (3 + Len(args) + 1) * WORD)

(* The image of prog with n pages of stack and the arguments on it.        *)
Image(prog, n, args) ==
    LET k == setupkvm(freepages)
        start == [f |-> k.f, pg |-> k.pg, sz |-> 0, ok |-> k.ok]
    IN PushArgs(AddStack(FoldLeft(LoadSegment, start, prog.segs), n), args)

(* The new image replaces the old one, or is given back whole.             *)
Replace(p, s) ==
    IF s.ok
    THEN /\ freepages' = freevm(State(s.f, mem[p].pg)).f
         /\ mem' = [mem EXCEPT ![p].pg = s.pg, ![p].sz = s.sz]
    ELSE /\ freepages' = IF ~s.pg.dir THEN s.f ELSE freevm(State(s.f, s.pg)).f
         /\ UNCHANGED mem

exec(p) ==
    \E prog \in Programs, args \in ArgLists :
      /\ Runs(p)
      /\ IF prog.magic THEN Replace(p, Image(prog, 1, args)) ELSE UNCHANGED vvars

(* exec2 of project 2: with a stack of as many pages as asked for, between *)
(* 1 and 100 (MaxStack).  It also ends the other threads (module Lwp).     *)
StackPages(n) == Min({Max({n, 1}), MaxStack})
exec2(p) ==
    \E prog \in Programs, n \in StackSizes :
      /\ Runs(p)
      /\ IF prog.magic THEN Replace(p, Image(prog, StackPages(n), <<WORD>>))
         ELSE UNCHANGED vvars

(* exit leaves the memory to the parent's wait.                            *)
exit(p) ==
    /\ mem[p].live /\ mem' = [mem EXCEPT ![p].live = FALSE]
    /\ UNCHANGED freepages

wait(p) ==
    /\ mem[p] # NoMem /\ ~mem[p].live
    /\ freepages' = freevm(State(freepages, mem[p].pg)).f
    /\ mem' = [mem EXCEPT ![p] = NoMem]

Next == \E p \in Procs : fork(p) \/ growproc(p) \/ exec(p) \/ exec2(p) \/ exit(p) \/ wait(p)
Spec == Init /\ [][Next]_vvars

----------------------------------------------------------------------------
(* Properties.                                                             *)

TypeOK ==
    /\ freepages \in 0..NPages
    /\ \A p \in Procs : /\ mem[p].sz \in 0..KERNBASE
                        /\ mem[p].pg.ptes \subseteq UserPages
                        /\ mem[p].pg.tabs \subseteq Tables

Used(pg) == (IF pg.dir THEN 1 ELSE 0) + Cardinality(pg.tabs) + Cardinality(pg.ptes)

(* Every physical page is on the free list or in one page table: running   *)
(* out of memory half way through fork, sbrk or exec loses none and frees  *)
(* none twice.                                                             *)
PagesConserved ==
    freepages + FoldSet(LAMBDA p, n : n + Used(mem[p].pg), 0, Procs) = NPages

(* The pages below sz are mapped and none above is, so that copyuvm cannot *)
(* panic and no page outlives the size that should free it; a page table   *)
(* is there for each.  (A shrink to nothing leaves only a size, to a       *)
(* process that cannot run any more.)                                      *)
MappedToSize ==
    \A p \in Procs : mem[p].live =>
      /\ mem[p].pg.ptes = {v \in UserPages : v * PGSIZE < mem[p].sz /\ 0 \in mem[p].pg.ptes}
      /\ \A v \in mem[p].pg.ptes : v \div NPT \in mem[p].pg.tabs

(* An image exec accepts is whole: every byte of every segment lies in a   *)
(* page the image maps (loaduvm would read the file into page 0 or panic   *)
(* otherwise), the guard page is not the user's, and what was pushed lies  *)
(* above it.                                                               *)
ImagesWhole ==
    \A prog \in Programs, args \in ArgLists, n \in StackSizes :
      LET s == Image(prog, StackPages(n), args)
          guard == s.sz \div PGSIZE - StackPages(n) - 1
      IN s.ok =>
         /\ \A i \in DOMAIN prog.segs :
              \A b \in prog.segs[i].vaddr..(prog.segs[i].vaddr + prog.segs[i].filesz - 1) :
                b \div PGSIZE \in s.pg.ptes /\ b \div PGSIZE < guard
         /\ guard \in s.pg.ptes \ s.pg.user
         /\ s.sp >= (guard + 1) * PGSIZE
=============================================================================
