------------------------------ MODULE Syscalls ------------------------------
(***************************************************************************)
(* What the system calls promise to user programs.                         *)
(*                                                                         *)
(* The kernel of src/project2_LWP at the level user code sees it           *)
(* (sysfile.c, file.c, fs.c, proc.c; the file system is that of project    *)
(* 1): a system call is one step, except where the code lets others in (a  *)
(* write that fills a pipe, a file write longer than one transaction,      *)
(* wait, join, sleep) and where it changes the process without a lock and  *)
(* another thread of the process may come between (sbrk, exec, exit). The  *)
(* modules Inode, Pipe, Vm, ProcMem and Lwp look below these steps.        *)
(*                                                                         *)
(* A program is a sequence of instructions: a system call with its         *)
(* arguments and the result the program accepts ("ok", "err" or "any"), or *)
(* one of the few things programs do between calls. Threads of all         *)
(* processes interleave. UserTests, ThreadTests and Shell supply the       *)
(* programs.                                                               *)
(***************************************************************************)
EXTENDS Integers, Sequences, FiniteSets, SequencesExt, FiniteSetsExt, TLC

CONSTANTS NPROC,      \* process slots
          NTHREAD,    \* thread slots of all processes
          NOFILE,     \* descriptors of a process
          NFILE,      \* open files of the system
          NInum,      \* inodes; 1 is the root directory
          NPipe,      \* pipes
          PIPESIZE,   \* data units a pipe holds
          MaxChunk,   \* data units one file system transaction writes
          MAXFILE,    \* data units of the largest file
          NPages,     \* pages of user memory
          DIRSIZ      \* significant length of a name

VARIABLES th,      \* the threads
          proc,    \* the processes
          file,    \* ftable
          pipe,    \* the contents of the pipes
          itab,    \* the inodes
          clock,   \* ticks
          out,     \* what was written to the console
          failed,  \* has a program seen a result it does not accept, or the
                   \* kernel done what it must not?
          thidx    \* p->thidx: the thread of a process that ran last, 0 for none

vars == <<th, proc, file, pipe, itab, clock, out, failed, thidx>>

Threads == 1 .. NTHREAD
Procs == 1 .. NPROC
FDs == 0 .. NOFILE - 1
Files == 1 .. NFILE
Inums == 1 .. NInum
Root == 1

\* A thread: the rest of its program, what it returned, the tick it sleeps for,
\* what it read and kept, the call it is in the middle of and the size sbrk read
\* there, and whether kill() woke it.
NoThread == [proc |-> 0, code |-> <<>>, ret |-> 0, done |-> FALSE, wake |-> 0,
             got |-> <<>>, acc |-> <<>>, in |-> "", sz |-> 0, woken |-> FALSE]
NoProc == [st |-> "free", parent |-> 0, killed |-> FALSE, cwd |-> 0,
           ofile |-> [fd \in FDs |-> 0], env |-> <<>>, mem |-> <<>>, limit |-> 0]
NoFile == [kind |-> "none", id |-> 0, off |-> 0, r |-> FALSE, w |-> FALSE]
NoInode == [type |-> "free", nlink |-> 0, par |-> 0, ents |-> <<>>, data |-> <<>>]

Lowest(S) == CHOOSE x \in S : \A y \in S : x <= y

-----------------------------------------------------------------------------
(* Names and paths *)

\* A name is a pair <<text, number>>; for a name of digits the number is its
\* length, and only DIRSIZ characters of it count (skipelem, namecmp).
Slash == <<"/", 0>>
Dot == <<".", 0>>
DotDot == <<"..", 0>>
N(text) == <<text, 0>>
Significant(n) == IF n[1] = "digits" /\ n[2] > DIRSIZ THEN <<"digits", DIRSIZ>> ELSE n

\* dirlookup(): the inode a directory entry names, 0 if there is none.
dirlookup(i, n) ==
  CASE n = Dot -> i
    [] n = DotDot -> itab[i].par
    [] OTHER -> IF Significant(n) \in DOMAIN itab[i].ents
                THEN itab[i].ents[Significant(n)] ELSE 0

\* namex(): follow the path element by element; only a directory has entries.
NextElement(i, n) == IF n = Slash THEN Root
                     ELSE IF i = 0 THEN 0
                     ELSE IF itab[i].type # "dir" THEN 0 ELSE dirlookup(i, n)
namei(p, path) == FoldLeft(NextElement, proc[p].cwd, path)

nameiparent(p, path) ==
  IF path \in {<<>>, <<Slash>>} THEN 0
  ELSE LET dp == namei(p, Front(path))
       IN IF dp # 0 /\ itab[dp].type = "dir" THEN dp ELSE 0

-----------------------------------------------------------------------------
(* References *)

\* fileclose(): a file nobody refers to goes back to ftable.
Kept(fs, ps) ==
  LET used == { ps[p].ofile[fd] : p \in Procs, fd \in FDs }
  IN [f \in Files |-> IF f \in used THEN fs[f] ELSE NoFile]

\* iput(): an inode without links goes when its last reference does.
Alive(it, ps, fs) ==
  LET used == { ps[p].cwd : p \in Procs }
              \cup { fs[f].id : f \in { g \in Files : fs[g].kind = "inode" } }
  IN [i \in Inums |-> IF it[i].nlink = 0 /\ i \notin used THEN NoInode ELSE it[i]]

PipeReaders(fs, k) == { f \in Files : fs[f].kind = "pipe" /\ fs[f].id = k /\ fs[f].r }
PipeWriters(fs, k) == { f \in Files : fs[f].kind = "pipe" /\ fs[f].id = k /\ fs[f].w }

fdalloc(p) == IF \E fd \in FDs : proc[p].ofile[fd] = 0
              THEN Lowest({ fd \in FDs : proc[p].ofile[fd] = 0 }) ELSE -1
filealloc == IF \E f \in Files : file[f].kind = "none"
             THEN Lowest({ f \in Files : file[f].kind = "none" }) ELSE 0

-----------------------------------------------------------------------------
(* Execution *)

P(t) == th[t].proc
I(t) == Head(th[t].code)

\* Thread t is at instruction op; a killed process makes no further call.
On(t, op) == th[t].code # <<>> /\ I(t)[1] = op /\ th[t].in = ""
At(t, op) == On(t, op) /\ ~proc[P(t)].killed

\* Thread t goes into call c, which another thread may overlap.
Enters(t, c) == [th EXCEPT ![t].in = c]

Alone(t) == \A u \in Threads \ {t} : P(u) # P(t)

\* Another thread of the process of t is in the middle of one of the calls.
Overlaps(t, calls) == \E u \in Threads \ {t} : P(u) = P(t) /\ th[u].in \in calls

Accepts(exp, r) == CASE exp = "ok" -> r >= 0 [] exp = "err" -> r < 0 [] OTHER -> TRUE

\* What the program does after the call: after a failure "report" prints a
\* message on descriptor 2 and exits, "stop" just exits.
Continues(t, exp, r) ==
  CASE exp = "report" /\ r < 0 -> << <<"write", "2", <<"failed">>, "any">>, <<"exit">> >>
    [] exp = "stop" /\ r < 0 -> << <<"exit">> >>
    [] OTHER -> Tail(th[t].code)

Goes(t, code) == [th EXCEPT ![t].code = code, ![t].in = ""]

\* The call of t returns r with the given processes, files and inodes.
Returns(t, exp, r, ps, fs, it) ==
  /\ proc' = ps
  /\ file' = Kept(fs, ps)
  /\ itab' = Alive(it, ps, Kept(fs, ps))
  /\ th' = Goes(t, Continues(t, exp, r))
  /\ failed' = (failed \/ ~Accepts(exp, r))
  /\ UNCHANGED <<clock, out>>

Fails(t, exp) == Returns(t, exp, -1, proc, file, itab) /\ UNCHANGED pipe

SetVar(p, v, x) == [proc EXCEPT ![p].env = (v :> x) @@ @]
Var(t, v) == proc[P(t)].env[v]

\* argfd(): the open file of the descriptor in variable v, 0 if there is none.
argfd(t, v) == IF Var(t, v) \in FDs THEN proc[P(t)].ofile[Var(t, v)] ELSE 0

-----------------------------------------------------------------------------
(* Files and directories *)

Creates(mode) == mode \in {"creat", "create", "wcreate"}
Readable(mode) == mode \notin {"w", "wcreate"}
Writable(mode) == mode \in {"w", "rw", "create", "wcreate"}

\* dirlink() with a name that is free.
Entry(it, dp, n, i) == [it EXCEPT ![dp].ents = (Significant(n) :> i) @@ @]

\* create(): the inode of the path, an existing one only for a file, and the
\* inode table after it; 0 if it fails.
create(p, path, type) ==
  LET dp == nameiparent(p, path)
      n == Last(path)
      old == dirlookup(dp, n)
      new == Lowest({ i \in Inums : itab[i].type = "free" })
      made == Entry([itab EXCEPT
                 ![new] = [NoInode EXCEPT !.type = type, !.nlink = 1, !.par = dp],
                 ![dp].nlink = IF type = "dir" THEN @ + 1 ELSE @], dp, n, new)
  IN IF dp = 0 THEN [ip |-> 0, it |-> itab]
     ELSE IF old = 0 THEN [ip |-> new, it |-> made]
     ELSE IF type = "file" /\ itab[old].type = "file" THEN [ip |-> old, it |-> itab]
     ELSE [ip |-> 0, it |-> itab]

sys_open(t) ==
  /\ At(t, "open")
  /\ LET p == P(t)
         mode == I(t)[3]
         c == IF Creates(mode) THEN create(p, I(t)[2], "file")
              ELSE [ip |-> namei(p, I(t)[2]), it |-> itab]
         fd == fdalloc(p)
         bad == \/ c.ip = 0 \/ filealloc = 0 \/ fd = -1
                \/ ~Creates(mode) /\ itab[c.ip].type = "dir" /\ mode # "r"
         f == [kind |-> "inode", id |-> c.ip, off |-> 0,
               r |-> Readable(mode), w |-> Writable(mode)]
     IN IF bad
        THEN /\ Returns(t, I(t)[5], -1, SetVar(p, I(t)[4], -1), file, c.it)
             /\ UNCHANGED pipe
        ELSE /\ Returns(t, I(t)[5], fd,
                        [SetVar(p, I(t)[4], fd) EXCEPT ![p].ofile[fd] = filealloc],
                        [file EXCEPT ![filealloc] = f], c.it)
             /\ UNCHANGED pipe

sys_close(t) ==
  /\ At(t, "close")
  /\ Returns(t, "any", 0,
             IF argfd(t, I(t)[2]) = 0 THEN proc
             ELSE [proc EXCEPT ![P(t)].ofile[Var(t, I(t)[2])] = 0], file, itab)
  /\ UNCHANGED pipe

sys_dup(t) ==
  /\ At(t, "dup")
  /\ LET p == P(t)
         fd == fdalloc(p)
     IN IF argfd(t, I(t)[2]) = 0 \/ fd = -1 THEN Fails(t, I(t)[3])
        ELSE /\ Returns(t, I(t)[3], fd,
                        [proc EXCEPT ![p].ofile[fd] = argfd(t, I(t)[2])], file, itab)
             /\ UNCHANGED pipe

sys_mkdir(t) ==
  /\ At(t, "mkdir")
  /\ LET c == create(P(t), I(t)[2], "dir")
     IN IF c.ip = 0 THEN Fails(t, I(t)[3])
        ELSE Returns(t, I(t)[3], 0, proc, file, c.it) /\ UNCHANGED pipe

sys_chdir(t) ==
  /\ At(t, "chdir")
  /\ LET i == namei(P(t), I(t)[2])
     IN IF i = 0 THEN Fails(t, I(t)[3])
        ELSE IF itab[i].type # "dir" THEN Fails(t, I(t)[3])
        ELSE /\ Returns(t, I(t)[3], 0, [proc EXCEPT ![P(t)].cwd = i], file, itab)
             /\ UNCHANGED pipe

\* sys_link(): not to a directory, and not over an existing name.
sys_link(t) ==
  /\ At(t, "link")
  /\ LET i == namei(P(t), I(t)[2])
         dp == nameiparent(P(t), I(t)[3])
         n == Last(I(t)[3])
         bad == \/ i = 0 \/ dp = 0 \/ itab[i].type = "dir" \/ dirlookup(dp, n) # 0
     IN IF bad THEN Fails(t, I(t)[4])
        ELSE /\ Returns(t, I(t)[4], 0, proc, file,
                        [Entry(itab, dp, n, i) EXCEPT ![i].nlink = @ + 1])
             /\ UNCHANGED pipe

isdirempty_Always(i) == TRUE
isdirempty(i) == itab[i].ents = <<>>

sys_unlink(t) ==
  /\ At(t, "unlink")
  /\ LET dp == nameiparent(P(t), I(t)[2])
         n == Last(I(t)[2])
         i == dirlookup(dp, n)
         bad == \/ dp = 0 \/ n \in {Dot, DotDot} \/ i = 0
                \/ itab[i].type = "dir" /\ ~isdirempty(i)
     IN IF bad THEN Fails(t, I(t)[3])
        ELSE /\ Returns(t, I(t)[3], 0, proc, file,
                 [itab EXCEPT
                    ![dp].ents = [m \in DOMAIN @ \ {Significant(n)} |-> @[m]],
                    ![dp].nlink = IF itab[i].type = "dir" THEN @ - 1 ELSE @,
                    ![i].nlink = @ - 1])
             /\ UNCHANGED pipe

-----------------------------------------------------------------------------
(* Reading and writing *)

sys_pipe(t) ==
  /\ At(t, "pipe")
  /\ LET p == P(t)
         k == Lowest({ j \in 1 .. NPipe :
                         PipeReaders(file, j) \cup PipeWriters(file, j) = {} })
         free == { f \in Files : file[f].kind = "none" }
         rf == Lowest(free)
         wf == Lowest(free \ {rf})
         fd0 == fdalloc(p)
         fd1 == Lowest({ fd \in FDs : proc[p].ofile[fd] = 0 } \ {fd0})
         end == [kind |-> "pipe", id |-> k, off |-> 0, r |-> TRUE, w |-> FALSE]
     IN /\ Returns(t, "ok", 0,
                   [proc EXCEPT ![p].ofile[fd0] = rf, ![p].ofile[fd1] = wf,
                                ![p].env = (I(t)[2] :> fd0) @@ (I(t)[3] :> fd1) @@ @],
                   [file EXCEPT ![rf] = end, ![wf] = [end EXCEPT !.r = FALSE, !.w = TRUE]],
                   itab)
        /\ pipe' = [pipe EXCEPT ![k] = <<>>]

\* A read returns data d; the program accepts what is in want, anything if
\* want is empty.
Reads(t, d) ==
  /\ th' = [th EXCEPT ![t].code = Tail(@), ![t].got = d]
  /\ failed' = (failed \/ (I(t)[4] # {} /\ d \notin I(t)[4]))
  /\ UNCHANGED <<proc, itab, clock, out>>

\* fileread() of an inode, under its lock; a directory reads as its names.
readi(t) ==
  /\ At(t, "read")
  /\ LET f == argfd(t, I(t)[2])
         d == SubSeq(itab[file[f].id].data, file[f].off + 1,
                     Min({ file[f].off + I(t)[3], Len(itab[file[f].id].data) }))
     IN /\ f # 0 /\ file[f].kind = "inode" /\ file[f].r
        /\ Reads(t, d)
        /\ file' = [file EXCEPT ![f].off = @ + Len(d)]
        /\ UNCHANGED pipe

\* piperead()
piperead(t) ==
  /\ At(t, "read")
  /\ LET f == argfd(t, I(t)[2])
         k == file[f].id
         m == Min({ I(t)[3], Len(pipe[k]) })
     IN /\ f # 0 /\ file[f].kind = "pipe" /\ file[f].r
        /\ Reads(t, SubSeq(pipe[k], 1, m))
        /\ pipe' = [pipe EXCEPT ![k] = SubSeq(@, m + 1, Len(@))]
        /\ UNCHANGED file

\* The descriptor is not open for reading.  A console read finds end of file.
readfails(t) ==
  /\ At(t, "read")
  /\ LET f == argfd(t, I(t)[2])
     IN /\ IF f = 0 THEN TRUE ELSE ~file[f].r \/ file[f].kind = "dev"
        /\ Reads(t, <<>>)
        /\ UNCHANGED <<file, pipe>>

\* while((n = read(fd, buf, k)) > 0) body: the loop read and its body are
\* pushed again as long as there is data.
readloop(t) ==
  /\ At(t, "loop")
  /\ th' = Goes(t, IF th[t].got = <<>> THEN Tail(th[t].code)
                   ELSE I(t)[2] \o th[t].code)
  /\ UNCHANGED <<proc, file, pipe, itab, clock, out, failed>>

\* What is left of a write after n units.
Rest(t, n) ==
  (IF n = Len(I(t)[3]) THEN <<>>
   ELSE << [I(t) EXCEPT ![3] = SubSeq(@, n + 1, Len(@))] >>) \o Tail(th[t].code)

\* filewrite() of an inode: one transaction of at most MaxChunk.
writei(t) ==
  /\ At(t, "write")
  /\ LET f == argfd(t, I(t)[2])
         d == I(t)[3]
         n == Min({ MaxChunk, Len(d) })
         o == file[f].off
         old == itab[file[f].id].data
         new == SubSeq(old, 1, o) \o SubSeq(d, 1, n) \o SubSeq(old, o + n + 1, Len(old))
     IN /\ f # 0 /\ file[f].kind = "inode" /\ file[f].w
        /\ IF o + n > MAXFILE THEN Fails(t, I(t)[4])
           ELSE /\ file' = [file EXCEPT ![f].off = o + n]
                /\ itab' = [itab EXCEPT ![file[f].id].data = new]
                /\ th' = Goes(t, Rest(t, n))
                /\ UNCHANGED <<proc, pipe, clock, out, failed>>

\* pipewrite(): as much as fits, then the writer sleeps for the rest.
pipewrite(t) ==
  /\ At(t, "write")
  /\ LET f == argfd(t, I(t)[2])
         d == I(t)[3]
         k == file[f].id
         n == Min({ PIPESIZE - Len(pipe[k]), Len(d) })
     IN /\ f # 0 /\ file[f].kind = "pipe" /\ file[f].w
        /\ IF PipeReaders(file, k) = {} THEN Fails(t, I(t)[4])
           ELSE /\ pipe' = [pipe EXCEPT ![k] = @ \o SubSeq(d, 1, n)]
                /\ th' = Goes(t, Rest(t, n))
                /\ UNCHANGED <<proc, file, itab, clock, out, failed>>

consolewrite(t) ==
  /\ At(t, "write")
  /\ argfd(t, I(t)[2]) # 0
  /\ file[argfd(t, I(t)[2])].kind = "dev"
  /\ out' = out \o I(t)[3]
  /\ th' = Goes(t, Tail(th[t].code))
  /\ UNCHANGED <<proc, file, pipe, itab, clock, failed>>

writefails(t) ==
  /\ At(t, "write")
  /\ IF argfd(t, I(t)[2]) = 0 THEN TRUE ELSE ~file[argfd(t, I(t)[2])].w
  /\ Fails(t, I(t)[4])

-----------------------------------------------------------------------------
(* Processes *)

FreeProcs == { p \in Procs : proc[p].st = "free" }
FreeThreads == { t \in Threads : th[t].proc = 0 }

\* The pages that are left; the stacks of a thread count as one page.
FreePages == NPages - Cardinality(Threads \ FreeThreads)
                    - FoldSet(LAMBDA p, n : n + Len(proc[p].mem), 0, Procs)

\* fork(): the child has the memory and the files of its parent, and only the
\* thread that called.
sys_fork(t) ==
  /\ At(t, "fork")
  /\ LET p == P(t)
         c == Lowest(FreeProcs)
         u == Lowest(FreeThreads)
     IN IF FreeProcs = {} \/ FreeThreads = {} \/ Len(proc[p].mem) + 1 > FreePages
        THEN Returns(t, I(t)[4], -1, SetVar(p, I(t)[3], -1), file, itab) /\ UNCHANGED pipe
        ELSE /\ proc' = [SetVar(p, I(t)[3], c) EXCEPT
                           ![c] = [proc[p] EXCEPT !.parent = p]]
             /\ th' = [th EXCEPT ![t].code = Tail(@),
                                 ![u] = [NoThread EXCEPT !.proc = c, !.code = I(t)[2]]]
             /\ UNCHANGED <<file, pipe, itab, clock, out, failed>>

\* A process without a parent belongs to init, which waits for its children.
Adopted(ps, p) ==
  [q \in Procs |->
     IF ps[q].parent = p /\ ps[q].st = "zombie" THEN NoProc
     ELSE IF ps[q].parent = p THEN [ps[q] EXCEPT !.parent = 0] ELSE ps[q]]

\* exit(), by a call, at the end of the program or because the process was
\* killed.  It closes the files and the directory without a lock: a second
\* thread that comes here in between closes them again (fileclose panics, iput
\* has no inode), and one in exec would end this one half way.
exit(t) ==
  /\ th[t].in = ""
  /\ proc[P(t)].killed \/ th[t].code = <<>> \/ At(t, "exit")
  /\ LET ps == [proc EXCEPT ![P(t)].ofile = [fd \in FDs |-> 0], ![P(t)].cwd = 0]
     IN /\ proc' = ps
        /\ file' = Kept(file, ps)
        /\ itab' = Alive(itab, ps, Kept(file, ps))
  /\ th' = Enters(t, "exit")
  /\ failed' = (failed \/ Overlaps(t, {"exit", "exec"}))
  /\ UNCHANGED <<pipe, clock, out>>

\* The rest of exit(), under ptable.lock: children go to init, the process is a
\* ZOMBIE and none of its threads runs again.
exited(t) ==
  /\ th[t].in = "exit"
  /\ LET p == P(t)
         ended == IF proc[p].parent = 0 THEN NoProc
                  ELSE [NoProc EXCEPT !.st = "zombie", !.parent = proc[p].parent]
     IN /\ proc' = [Adopted(proc, p) EXCEPT ![p] = ended]
        /\ th' = [u \in Threads |-> IF th[u].proc = p THEN NoThread ELSE th[u]]
  /\ UNCHANGED <<file, pipe, itab, clock, out, failed>>

Children(p, states) == { q \in Procs : proc[q].parent = p /\ proc[q].st \in states }

\* wait(): the first exited child; I(t)[3] names the child the program expects.
sys_wait(t) ==
  /\ At(t, "wait")
  /\ LET p == P(t)
         kids == Children(p, {"run", "zombie"})
         c == Lowest(Children(p, {"zombie"}))
         r == IF I(t)[3] = "" \/ c = Var(t, I(t)[3]) THEN c ELSE -1
     IN IF kids = {} THEN Fails(t, I(t)[2])
        ELSE /\ Returns(t, I(t)[2], r, [proc EXCEPT ![c] = NoProc], file, itab)
             /\ UNCHANGED pipe

\* kill() marks the process and wakes one thread, the one that ran last.
sys_kill(t) ==
  /\ At(t, "kill")
  /\ LET q == IF I(t)[2] = "self" THEN P(t) ELSE Var(t, I(t)[2])
         found == q \in Procs /\ proc[q].st = "run"
     IN /\ proc' = IF found THEN [proc EXCEPT ![q].killed = TRUE] ELSE proc
        /\ th' = IF found THEN [Goes(t, Tail(th[t].code)) EXCEPT ![thidx[q]].woken = TRUE]
                 ELSE Goes(t, Tail(th[t].code))
  /\ UNCHANGED <<file, pipe, itab, clock, out, failed>>

\* An instruction user mode may not execute, or an address it may not read.
fault(t) ==
  /\ At(t, "fault")
  /\ proc' = [proc EXCEPT ![P(t)].killed = TRUE]
  /\ th' = Goes(t, Tail(th[t].code))
  /\ UNCHANGED <<file, pipe, itab, clock, out, failed>>

\* exec() first ends every other thread of the process, one by one and without
\* a lock: a second thread in the same loop frees kernel stacks again.  A single
\* thread has nobody to end.
exec(t) ==
  /\ At(t, "exec") /\ ~Alone(t)
  /\ th' = Enters(t, "exec")
  /\ failed' = (failed \/ Overlaps(t, {"exit", "exec"}))
  /\ UNCHANGED <<proc, file, pipe, itab, clock, out>>

\* The rest of exec() replaces the program, if there is one under that name.
sys_exec(t) ==
  /\ th[t].in = "exec" \/ (Alone(t) /\ At(t, "exec"))
  /\ LET alone == [u \in Threads |-> IF u # t /\ P(u) = P(t) THEN NoThread ELSE th[u]]
         code == IF I(t)[2] = "ok" THEN I(t)[3] ELSE Tail(th[t].code)
     IN th' = [alone EXCEPT ![t].code = code, ![t].in = ""]
  /\ UNCHANGED <<proc, file, pipe, itab, clock, out, failed>>

\* A limit on the memory of process I(t)[2] that it does not exceed yet.
setmemorylimit(t) ==
  /\ At(t, "memlim")
  /\ LET q == I(t)[2]
         limit == I(t)[3]
     IN IF q \notin Procs \/ limit < 0 THEN Fails(t, I(t)[4])
        ELSE IF proc[q].st = "free" \/ Len(proc[q].mem) > limit THEN Fails(t, I(t)[4])
        ELSE /\ Returns(t, I(t)[4], 0, [proc EXCEPT ![q].limit = limit], file, itab)
             /\ UNCHANGED pipe

\* sbrk(n), in pages, reads the size,
sbrk(t) ==
  /\ At(t, "sbrk")
  /\ th' = [Enters(t, "sbrk") EXCEPT ![t].sz = Len(proc[P(t)].mem)]
  /\ UNCHANGED <<proc, file, pipe, itab, clock, out, failed>>

\* and growproc() maps the pages and stores the size, also without a lock: if the
\* size has changed since, it maps pages twice (mappages panics) or leaves them
\* to two threads.  The old size goes into a variable.  With a limit the process
\* grows up to the limit only, and growproc() does not say so.
Grown(p, sz, n) ==
  IF proc[p].limit # 0 /\ sz + n > proc[p].limit THEN proc[p].limit - sz ELSE n
sys_sbrk(t) ==
  /\ th[t].in = "sbrk"
  /\ LET p == P(t)
         sz == th[t].sz
         n == Grown(p, sz, I(t)[2])
         new == IF n >= 0 THEN proc[p].mem \o [k \in 1 .. n |-> 0]
                ELSE SubSeq(proc[p].mem, 1, sz + n)
         r == IF n > FreePages THEN -1 ELSE sz
     IN /\ proc' = [SetVar(p, I(t)[3], r) EXCEPT ![p].mem = IF r = -1 THEN @ ELSE new]
        /\ th' = Goes(t, Continues(t, I(t)[4], r))
        /\ failed' = (failed \/ Len(proc[p].mem) # sz \/ ~Accepts(I(t)[4], r))
  /\ UNCHANGED <<file, pipe, itab, clock, out>>

-----------------------------------------------------------------------------
(* Threads and time *)

\* Without a slot or a page thread_create() keeps ptable.lock or frees the pages
\* of the whole process (ProcMem), and while another thread is in sbrk both take
\* the same addresses; otherwise it returns with a new thread.
thread_create(t) ==
  /\ At(t, "thread_create")
  /\ IF FreeThreads = {} \/ FreePages = 0
     THEN failed' = TRUE /\ th' = Goes(t, Tail(th[t].code)) /\ UNCHANGED proc
     ELSE LET u == Lowest(FreeThreads)
          IN /\ th' = [th EXCEPT ![t].code = Tail(@),
                         ![u] = [NoThread EXCEPT !.proc = P(t), !.code = I(t)[2]]]
             /\ proc' = SetVar(P(t), I(t)[3], u)
             /\ failed' = (failed \/ Overlaps(t, {"sbrk"}))
  /\ UNCHANGED <<file, pipe, itab, clock, out>>

thread_exit(t) ==
  /\ At(t, "thread_exit")
  /\ th' = [th EXCEPT ![t].done = TRUE, ![t].ret = I(t)[2]]
  /\ UNCHANGED <<proc, file, pipe, itab, clock, out, failed>>

thread_join(t) ==
  /\ At(t, "thread_join")
  /\ LET u == Var(t, I(t)[2])
     IN IF th[u].proc # P(t) THEN Fails(t, "ok")
        ELSE /\ th' = [Goes(t, Tail(th[t].code)) EXCEPT ![u] = NoThread]
             /\ failed' = (failed \/ th[u].ret # I(t)[3])
             /\ UNCHANGED <<proc, file, pipe, itab, clock, out>>

\* sleep(n): the thread waits for its tick, then goes on.
sys_sleep(t) ==
  /\ At(t, "sleep")
  /\ \/ /\ th[t].wake = 0
        /\ th' = [th EXCEPT ![t].wake = clock + I(t)[2]]
     \/ /\ th[t].wake # 0
        /\ th' = [th EXCEPT ![t].wake = 0, ![t].code = Tail(@)]
  /\ UNCHANGED <<proc, file, pipe, itab, clock, out, failed>>

-----------------------------------------------------------------------------
(* What programs do between calls *)

\* A store to a variable of the process, or an addition of a constant or of
\* the value just read.
store(t) ==
  /\ \/ At(t, "set") /\ proc' = SetVar(P(t), I(t)[2], I(t)[3])
     \/ At(t, "add") /\ proc' = SetVar(P(t), I(t)[2], Var(t, I(t)[2]) + I(t)[3])
     \/ At(t, "addread") /\ proc' = SetVar(P(t), I(t)[2], Var(t, I(t)[2]) + th[t].got[1])
  /\ th' = Goes(t, Tail(th[t].code))
  /\ UNCHANGED <<file, pipe, itab, clock, out, failed>>

\* A store to a page, at the address in a variable.
poke(t) ==
  /\ At(t, "poke")
  /\ proc' = [proc EXCEPT ![P(t)].mem[Var(t, I(t)[2]) + 1] = I(t)[3]]
  /\ th' = Goes(t, Tail(th[t].code))
  /\ UNCHANGED <<file, pipe, itab, clock, out, failed>>

\* Keep what was read for a later comparison.
keep(t) ==
  /\ At(t, "keep") \/ At(t, "forget")
  /\ th' = [th EXCEPT ![t].code = Tail(@),
                      ![t].acc = IF I(t)[1] = "keep" THEN @ \o th[t].got ELSE <<>>]
  /\ UNCHANGED <<proc, file, pipe, itab, clock, out, failed>>

\* Write what was read to a descriptor, or how much was kept.
copy(t) ==
  /\ \/ /\ At(t, "copy")
        /\ th' = Goes(t, IF th[t].got = <<>> THEN Tail(th[t].code)
                         ELSE << <<"write", I(t)[2], th[t].got, "stop">> >> \o Tail(th[t].code))
     \/ /\ At(t, "count")
        /\ th' = Goes(t, << <<"write", I(t)[2], <<ToString(Len(th[t].acc))>>, "any">> >>
                         \o Tail(th[t].code))
  /\ UNCHANGED <<proc, file, pipe, itab, clock, out, failed>>

\* A comparison after which the program would report a failure.
check(t) ==
  /\ \/ At(t, "kept") /\ failed' = (failed \/ th[t].acc \notin I(t)[2])
     \/ At(t, "is") /\ failed' = (failed \/ Var(t, I(t)[2]) \notin I(t)[3])
     \/ At(t, "peek") /\ failed' = (failed \/ proc[P(t)].mem[Var(t, I(t)[2]) + 1] # I(t)[3])
     \/ At(t, "names") /\ failed' = (failed \/
          { n \in DOMAIN itab[proc[P(t)].cwd].ents : n[1] = I(t)[2] } # I(t)[3])
     \/ At(t, "notreached") /\ failed' = TRUE
  /\ th' = Goes(t, Tail(th[t].code))
  /\ UNCHANGED <<proc, file, pipe, itab, clock, out>>

\* Poll until a variable has a value; "spin" has no next step at all.
until(t) ==
  /\ At(t, "until")
  /\ th' = Goes(t, Tail(th[t].code))
  /\ UNCHANGED <<proc, file, pipe, itab, clock, out, failed>>

\* while(v > 0) body, and if(v < 0) body, where the body does not come back.
branch(t) ==
  /\ \/ /\ At(t, "whilepos")
        /\ th' = Goes(t, IF Var(t, I(t)[2]) > 0 THEN I(t)[3] \o th[t].code
                         ELSE Tail(th[t].code))
     \/ /\ At(t, "ifneg")
        /\ th' = Goes(t, IF Var(t, I(t)[2]) < 0 THEN I(t)[3] ELSE Tail(th[t].code))
  /\ UNCHANGED <<proc, file, pipe, itab, clock, out, failed>>

-----------------------------------------------------------------------------

\* Where a call makes the thread sleep: for data or room in a pipe (piperead,
\* pipewrite), for a child (wait) or for a thread (thread_join).
PipeOf(t) == LET f == argfd(t, I(t)[2])
             IN IF f = 0 THEN 0 ELSE IF file[f].kind = "pipe" THEN file[f].id ELSE 0

Sleeps(t) ==
  \/ /\ On(t, "read") /\ PipeOf(t) # 0
     /\ pipe[PipeOf(t)] = <<>> /\ PipeWriters(file, PipeOf(t)) # {}
  \/ /\ On(t, "write") /\ PipeOf(t) # 0
     /\ Len(pipe[PipeOf(t)]) = PIPESIZE /\ PipeReaders(file, PipeOf(t)) # {}
  \/ On(t, "wait") /\ Children(P(t), {"run"}) # {} /\ Children(P(t), {"zombie"}) = {}
  \/ On(t, "thread_join") /\ th[Var(t, I(t)[2])].proc = P(t) /\ ~th[Var(t, I(t)[2])].done

\* Where it goes on after every tick or all the time, and looks at the clock or a
\* variable: there it sees soon that the process was killed.
Polls(t) ==
  \/ On(t, "sleep") /\ th[t].wake > clock
  \/ On(t, "until") /\ Var(t, I(t)[2]) # I(t)[3]
  \/ On(t, "spin")

\* Of the threads of a killed process that sleep only the one that kill() woke
\* goes on.
Runs(t) == /\ P(t) # 0 /\ ~th[t].done
           /\ IF proc[P(t)].killed THEN th[t].woken \/ ~Sleeps(t)
              ELSE ~Sleeps(t) /\ ~Polls(t)

Work(t) ==
  /\ Runs(t)
  /\ \/ sys_open(t) \/ sys_close(t) \/ sys_dup(t) \/ sys_mkdir(t) \/ sys_chdir(t)
     \/ sys_link(t) \/ sys_unlink(t) \/ sys_pipe(t)
     \/ readi(t) \/ piperead(t) \/ readfails(t) \/ readloop(t)
     \/ writei(t) \/ pipewrite(t) \/ consolewrite(t) \/ writefails(t)
     \/ sys_fork(t) \/ exit(t) \/ exited(t) \/ sys_wait(t) \/ sys_kill(t) \/ fault(t) \/ exec(t) \/ sys_exec(t)
     \/ sbrk(t) \/ sys_sbrk(t) \/ setmemorylimit(t)
     \/ thread_create(t) \/ thread_exit(t) \/ thread_join(t) \/ sys_sleep(t)
     \/ store(t) \/ poke(t) \/ keep(t) \/ copy(t) \/ check(t) \/ until(t) \/ branch(t)
  /\ thidx' = [p \in Procs |->
       IF proc'[p].st # "run" THEN 0
       ELSE IF p = P(t) THEN t
       ELSE IF thidx[p] = 0 THEN CHOOSE u \in Threads : th'[u].proc = p ELSE thidx[p]]

\* The timer: programs compute much faster than ticks arrive.
tick ==
  /\ \E t \in Threads : th[t].wake > clock
  /\ \A t \in Threads : ~Runs(t)
  /\ clock' = clock + 1
  /\ UNCHANGED <<th, proc, file, pipe, itab, out, failed, thidx>>

Finished == \A p \in Procs : proc[p].st = "free"

\* The programs have ended.
ended == Finished /\ UNCHANGED vars

Next == ended \/ tick \/ \E t \in Threads : Work(t)

\* The system before program code starts, with directory entries files in the
\* root and descriptors 0, 1 and 2 open on the console if console is true.
Boot(code, names, console) ==
  /\ th = [t \in Threads |-> IF t = 1 THEN [NoThread EXCEPT !.proc = 1, !.code = code]
                                      ELSE NoThread]
  /\ itab = [i \in Inums |->
      CASE i = Root -> [NoInode EXCEPT !.type = "dir", !.nlink = 1, !.par = Root,
                          !.ents = [n \in { N(names[k]) : k \in DOMAIN names } |->
                                      1 + CHOOSE k \in DOMAIN names : N(names[k]) = n]]
        [] i \in 2 .. Len(names) + 1 -> [NoInode EXCEPT !.type = "file", !.nlink = 1,
                                           !.par = Root]
        [] OTHER -> NoInode]
  /\ file = [f \in Files |-> IF console /\ f = 1
                             THEN [NoFile EXCEPT !.kind = "dev", !.r = TRUE, !.w = TRUE]
                             ELSE NoFile]
  /\ proc = [p \in Procs |->
      IF p = 1 THEN [NoProc EXCEPT !.st = "run", !.cwd = Root,
                       !.ofile = [fd \in FDs |-> IF console /\ fd < 3 THEN 1 ELSE 0],
                       !.env = ("0" :> 0) @@ ("1" :> 1) @@ ("2" :> 2), !.mem = <<0>>]
      ELSE NoProc]
  /\ pipe = [k \in 1 .. NPipe |-> <<>>]
  /\ clock = 0 /\ out = <<>> /\ failed = FALSE
  /\ thidx = [p \in Procs |-> IF p = 1 THEN 1 ELSE 0]

-----------------------------------------------------------------------------
(* The instructions, as programs write them *)

Open(path, mode, v, exp) == <<"open", path, mode, v, exp>>
Close(v) == <<"close", v>>
Dup(v) == <<"dup", v, "any">>
Mkdir(path, exp) == <<"mkdir", path, exp>>
Chdir(path, exp) == <<"chdir", path, exp>>
Link(old, new, exp) == <<"link", old, new, exp>>
Unlink(path, exp) == <<"unlink", path, exp>>
Pipe(v0, v1) == <<"pipe", v0, v1>>
Read(v, n, want) == <<"read", v, n, want>>
Loop(body) == <<"loop", body>>
Write(v, d, exp) == <<"write", v, d, exp>>
Fork(child, v, exp) == <<"fork", child, v, exp>>
Exit == <<"exit">>
Wait(exp) == <<"wait", exp, "">>
WaitFor(v) == <<"wait", "ok", v>>
Kill(v) == <<"kill", v>>
Fault == <<"fault">>
Spin == <<"spin">>
Exec(code) == <<"exec", "ok", code>>
ExecFails == <<"exec", "err", <<>>>>
Sbrk(n, v, exp) == <<"sbrk", n, v, exp>>
MemLim(q, limit, exp) == <<"memlim", q, limit, exp>>
Sleep(n) == <<"sleep", n>>
Create(code, v) == <<"thread_create", code, v>>
ThreadExit(r) == <<"thread_exit", r>>
Join(v, r) == <<"thread_join", v, r>>
Set(v, x) == <<"set", v, x>>
Add(v, x) == <<"add", v, x>>
AddRead(v) == <<"addread", v>>
Is(v, S) == <<"is", v, S>>
Until(v, x) == <<"until", v, x>>
WhilePositive(v, body) == <<"whilepos", v, body>>
IfNegative(v, body) == <<"ifneg", v, body>>
Poke(v, x) == <<"poke", v, x>>
Peek(v, x) == <<"peek", v, x>>
Keep == <<"keep">>
Forget == <<"forget">>
KeptIs(S) == <<"kept", S>>
Copy(v) == <<"copy", v>>
Count(v) == <<"count", v>>
Names(text, S) == <<"names", text, S>>
NotReached == <<"notreached">>


\* Everybody waits for somebody else.
Stuck == ~Finished /\ \A t \in Threads : ~Runs(t) /\ th[t].wake <= clock
=============================================================================
