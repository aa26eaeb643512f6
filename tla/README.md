# Verification of the three ELE3021 kernels

The repository holds three kernels derived from xv6, one per course project:
`src/project1_scheduler` (a multi-level feedback queue scheduler with a scheduler
lock), `src/project2_LWP` (threads inside a process, a memory limit, a process
manager) and `src/project3_filesystem` (large files, symbolic links, a write-ahead
log that is committed on demand). Each of them is a whole system: boot, locks,
traps, paging, file system, drivers, a shell, a C library, tests. This directory
models them in TLA+, checks the models with TLC on small instances, and proves
theorems about the scheduler and its run queues, both logs, the threads, the spin locks
and context switches, the buffer cache and the pipes with TLAPS for every instance.

## 1. Inventory

"p1", "p2", "p3" are the three source directories.

| part | state | operations | interacts with | what is hard | what makes it correct |
|---|---|---|---|---|---|
| process table and MLFQ (p1 `proc.c`, `trap.c`, `sysproc.c`) | `ptable.proc`, `ptable.queue[3]`, `ptable.lockpid`, `ticks`, per CPU `c->proc` | `scheduler`, `boostPriority`, timer, `fork`, `exit`, `wait`, `kill`, `sleep`, `yield`, `schedulerLock/Unlock`, `setPriority`, `setLevel` | run queue lists, timer interrupt, all system calls | two CPUs, `ptable.lock` dropped in the middle of operations, `ticks` reset by boosts, forks that fail half way | queues and back pointers agree; nobody runs twice; the lock has a living holder, excludes others and ends; no lost wakeup; no starvation |
| run queue lists (p1 `queue.c`) | `front`, `back`, `size`, `prev`, `next`, `p->queue` | `pushqueue`, `pushfrontqueue`, `popqueue`, `erasequeue` | process table | four cases of unlinking, one stale pointer shows much later | implements sequences |
| write-ahead log (p1, p2 `log.c`, `bio.c`) | `log.lh`, `log.outstanding`, `log.committing`; log area and header on disk; dirty buffers | `begin_op`, `log_write`, `end_op`, `commit`, `recover_from_log` | buffer cache, every file system call | a crash between any two writes, also of the recovery; space reserved by several callers | groups of calls are atomic and durable, space suffices, sleepers are woken |
| on-demand log (p3 `log.c`, `bio.c`) | the same and `synchronizing` | the same, `sync`, `sync1`, and a commit started by `bget` when buffers run short | buffer cache (in both directions) | commits in the middle of system calls, two commits at once, a commit that waits for its own caller | commits are all or nothing, `sync` makes durable, buffers suffice, `bread` returns |
| light-weight processes (p2 `proc.c`, `exec.c`, `trap.c`) | `p->state`, `p->thidx`, `p->thread[]`, open files, `log.outstanding` | `scheduler`, `fork`, `exit`, `wait`, `kill`, `thread_create/exit/join`, `exec` | log, files, console | the kernel is preempted between any two steps, threads of one process end each other | one thread per process runs, no lost join or wait, round robin, a kill takes effect |
| process memory (p2 `proc.c`, `vm.c`, `sysproc.c`) | `p->sz`, `p->limit`, page table, freed stacks | `sbrk`, `growproc`, `allocuvm`, `deallocuvm`, `thread_create`, `setmemorylimit` | thread tables | no lock around `p->sz`, memory that runs out half way | the page table is exactly `[0, sz)` |
| block maps (p3 `fs.c`) | `addrs`, `D_addr`, `T_addr`, index blocks, bitmap | `bmap`, `itrunc`, `balloc`, `bfree`, `readi`, `writei` | log, buffers | borders between four kinds of blocks; frees in `freeDouble` | the bitmap is what the inodes reach, files read back |
| inodes and links (p3 `fs.c`, `sysfile.c`) | `icache`, `nlink`, `ref`, `valid`, directory entries | `iget`, `ilock`, `iput`, `namex`, `create`, `open`, `link`, `unlink`, `mkdir`, `mknod`, `chdir`, `symlink` | log, block maps | last reference against last link, locks of parent and child, links and cycles | references are counted, no name leads to a free inode |
| `mkfs` (p3 `mkfs.c`) | inodes, blocks, `freeinode`, `freeblock` | `ialloc`, `iappend`, `balloc` | the kernel that mounts the image | full blocks, the first indirect block | the bitmap is what the inodes reach |
| pipes, open files (all) | ring, `readopen`, `writeopen`; `ftable`, `ofile` | `piperead/write/close`, `filedup`, `fileclose`, `dup`, `fork`, `exit` | scheduler | wakeups against closes, shared descriptors, kills | data in order, counts exact, nobody sleeps for ever |
| buffer cache, disk driver (p1 `bio.c`, `ide.c`, `sleeplock.c`) | LRU list, `refcnt`, sleep locks, `idequeue` | `bget`, `bread`, `bwrite`, `brelse`, `iderw`, `ideintr` | log, interrupts | recycling, two users of a buffer, errors | one buffer per block, caching changes nothing, requests are answered |
| console (all `console.c`, `kbd.c`, `uart.c`) | input ring, modifiers, cursor | `consoleintr`, `consoleread`, `kbdgetc`, `cgaputc` | interrupts, readers | interrupt against reader, a full ring, wrapping indices | a queue of lines, readers are woken |
| virtual memory, `exec` (all `vm.c`, `kalloc.c`, `exec.c`) | page tables, free list, `sz` | `walkpgdir`, `mappages`, `allocuvm`, `copyuvm`, `freevm`, `exec`, `fork`, `sbrk` | process table | memory that runs out at every point | pages conserved, the page table is `[0, sz)` |
| locks and context switches (p3 `spinlock.c`, `proc.c`, `trap.c`) | `lk->locked`, `ncli`, `intena`, IF, `cpu->proc` | `acquire`, `release`, `pushcli`, `sched`, `scheduler`, `sleep`, `wakeup`, interrupts | everything | a lock taken by one thread and released by another; interrupts anywhere | no panic, interrupts as found, no lost wakeup |
| start (p1 `main.c`, `mp.c`, `kalloc.c`, `lapic.c`, `entryother.S`) | `cpus`, the word at `code-4`, `kmem` | `mpinit`, `startothers`, `lapicstartap`, `kinit1/2` | scheduler | processors that share a word, a lock that is not used yet | own stacks, pages with one owner |
| user programs (shell, commands, C library, tests, process manager) | file descriptors, heap, parse trees | `runcmd`, `parsecmd`, `malloc`, `printf`, ... | system calls | pipelines that hang, order of processes | commands do what they say, tests pass |
| boot loader, interrupt controllers, trap vectors | registers | - | - | device programming | - |

`PROJECT.json` lists these parts under `components` and, under `hazards`, what can
go wrong in them that a test would hardly reach, each at its line.

## 2. Modules

| module | models | refines |
|---|---|---|
| `Mlfq` | process table, MLFQ scheduler, scheduler lock of p1 | |
| `MlfqProofs`, `LogProofs`, `SyncLogProofs`, `LwpProofs`, `SmpProofs`, `PipeProofs`, `BioProofs`, `QueueProofs` | theorems about `Mlfq`, `Log`, `SyncLog`, `Lwp`, `Smp`, `Pipe`, `Bio`, `ProcQueue` | |
| `ProcQueue` | the linked lists of p1 `queue.c` | `QueueSpec` (sequences) |
| `Log` | the log of p1 and p2 | `AtomicDisk` |
| `SyncLog` | the log and buffer shortage of p3 | (not `AtomicDisk`: section 6) |
| `Lwp` | processes and threads of p2 | |
| `ProcMem` | the memory of one process of p2 | |
| `Inode` | inode cache, path names, directories and links of p3 | |
| `Bmap` | bitmap, block maps and contents of files of p3 | |
| `Mkfs` | `mkfs.c` of p3 | |
| `Bio` | buffer cache, sleep locks and disk driver of p1 | |
| `Pipe` | pipes, file table and descriptors | |
| `Console` | keyboard, serial line, input ring, cursor | `LineSpec` (lines) |
| `Vm` | pages, page tables, `exec`; `exec2` of p2 | |
| `Smp` | spin locks, interrupts, context switch, processes of p3 | |
| `Boot` | the start of the kernel on several processors | |
| `Syscalls` | what system calls promise to programs (p2) | |
| `UserTests`, `ThreadTests` | `usertests.c`; the thread tests and `pmanager.c` of p2 | over `Syscalls` |
| `Shell` | `sh.c`, its parser, the commands it starts | over `Syscalls` |
| `Umalloc`, `Ulib` | `malloc`/`free`; printing, strings, `grep`, argument checks, clock | reference definitions |
| `MCFiles`, `MCSystem` | two collections of instances | |
| the other `MC*` | the instances of TLC | |

In all of them one action is one critical section of the lock that guards the
data (`ptable.lock`, `log.lock`, `bcache.lock`), one disk write, or one step that
the code makes without a lock. A code path that drops and retakes a lock is
several actions with a program counter between them. A `panic` of the code is a
value of `fault` after which nothing moves (except a reboot in the log models).

**Mlfq.** `state`, `pid`, `parent`, `chan`, `killed`, `priority`, `tq`, `level`
(`p->queue`) are the fields of `struct proc`; `queue[l]` is the list of queue `l` as
a sequence (justified by `ProcQueue`); `spc[c]` is where CPU `c` is in `scheduler()`
and `boostPriority()`, `pc[p]` where process `p` is in a system call, `ptlock` the CPU
that keeps `ptable.lock` from one step to the next. `Dispatch`, `ExpireTimeQuantum`,
`GiveUpLock`, `NothingToRun` are the outcomes of `getProcessToRun` in the loop;
`ReadTicks` to `BoostStep` are the boost, one action per slot it visits; `Timer` and
`TimerReturn` are the interrupt and the `yield` after it; the system calls carry
their names. `fork` and `exit` are split where the code drops `ptable.lock`. Sizes
are constants: `NQUEUE`, `QuantumBase`, `QuantumStep` give `2*level + 4` its scale,
`BoostTicks` is the 100 of the code, `TickMod` the width of `uint`. `Calls` says
which system calls the processes of an instance make. `TickInScheduler` says
whether a tick can arrive while no process runs, which only moves boosts forward;
the runs leave it out of the larger instances. `MaxLockCalls` bounds how often a
process takes a *free* scheduler lock; its holder may call `schedulerLock` again at any
time and for ever, which the code accepts with a warning and which sets `ticks` back to
0 (`proc.c:822-843`). `Relocking` marks that call.

**ProcQueue.** One action per function of `queue.c`, one operator per case of the
unlinking. The mapping to `QueueSpec` reads each list off its `next` pointers. The
field `q->size` is not an exact count: `pushfrontqueue` on an empty queue returns
before `++q->size` (line 140), so it drifts down; `SizeNotAbove` states what is left
of it. Only `printqueue` reads it. That the backward links mirror the forward ones
(`ListsDoublyLinked`) is not a property of its own in a run: `erasequeue` works with both, so
`ImplementsQueues` fails when they differ; it is proved (section 5).

**Log.** `disk`, `logdata`, `hdr` are the disk; `buf` and `dirty` the cache; `lh`,
`outstanding`, `committing` are `struct log`. A commit is one action per disk write
(`write_log`, `write_head`, `install_trans`, `clear_head`), and `Crash` may come before
each of them and during `RecoverInstall`. `Recycle` lets `bget` take any buffer that is
neither dirty nor in use. The refinement maps `AtomicDisk`'s `vol` to what system
calls read, and `dur` to what recovery would make of the disk now.

**SyncLog.** Adds `synchronizing`, the count of usable buffers in `bget` (`Usable`,
`Short`), the commit that `bget` starts (`ForceSync`), `sys_sync`, and per caller the
loop variable of its commit, because two commits can overlap. `log.lh.n = 0`
(`clear_head`) and the write of the empty header (`erase_head`) are two steps. A shortage
*inside* a commit, also for the block of the header, would start a commit in a commit; it
is modelled as the fault `nested commit`, at which an instance stops. `LOGSIZE = NBUF +
NRESBUF` as in `param.h`. `Undisturbed(p)` says that nobody but `p` has a call under way,
the one hypothesis under which a commit of `p` may be expected to be invisible.

**Lwp.** `tstate[p][i]` are the threads, `thidx[p]` the one that runs or ran last;
`running[c]` is the process of CPU `c`, `pc[p][i]` the place of a thread in the kernel.
Steps named `Fork*`, `Exit*`, `Wait*`, `Join*`, `Exec*` are the pieces of these functions
between which the timer may preempt. Slot 1 stands for init and the shell: it
forks and waits; `Calls` gives the calls of the program in every other slot. The
files of a process are one shared descriptor with a reference count, a file system
call is `begin_op` ... `end_op`, a read is a device that may sleep.

**ProcMem.** Addresses count units of which `PGSIZE` (2 in the runs) make a page.
`growproc` and `allocuvm` are one step per page, since nothing is locked;
`thread_create` holds `ptable.lock` and is one step. Each thread slot has its stack or the
one its last thread left (`freedustack`). A `thread_create` that fails either returns with
`ptable.lock` held (no slot, no kernel stack) or goes to `bad`, which frees the page table
the process runs on (no memory for the stack; a stack left behind whose page `sbrk` has
taken away). Both stop the machine as a `fault`.

**Inode.** An action is what a process does between two points where it may wait (a
sleep lock, `icache.lock`). `pr[p]` is the call a process is in: its name, where it is,
the inodes in its variables, the references it still has to put. A path is a
sequence of names, a call one of the records in `CallArgs`. `iput` is three steps, as
it takes `icache.lock` twice; a directory of the code is a function from names. The
panics of the code are values of `panic`.

**Bmap, Mkfs.** A block is `NINDIRECT` words. `bmap`, `balloc` and `itrunc` are operators
that thread the bitmap and the blocks through, along the code's own recursion over
levels; `writei` and `itrunc` are the actions. Small `NDIRECT` and `NINDIRECT` let one file
use single, double and triple indirection. Once `freeDouble` has freed the wrong
blocks the machine halts as `bitmap wrong`: what comes after is section 6.

**Bio.** `lru` is the list from `bcache.head`, `idequeue` the driver's list; `busy`, `intr`
and `DiskDone` are the controller. With `Errors` a read may fail.

**Pipe.** Processes share descriptors through `fork` and `dup`. `nread` and `nwrite` count
modulo `W`. The last test of `piperead` and `pipewrite` and the `sleep` are two steps: in
between the process has `p->lock`, which keeps others out of the pipe but not `kill`, which
takes `ptable.lock` only. `owed` is a ghost: bytes put in by a writer that was killed before it woke
its readers, which `PipeNoLostWakeup` excuses (section 6).

**Console.** `r`, `w`, `e` count modulo `W`; the key table keeps one key of each kind.
`consoleread` tests and sleeps in two steps, as in `Pipe`, with `cons.lock` in between.
`LineSpec` has the line being typed and the characters delivered; the mapping cuts
the ring at `w`.

**Vm.** Pages are counted, not named: `kalloc` fails when none is left. A page table
maps pages to flags, and its own pages count too. `exec` loads segments, pushes
arguments and replaces the image, each step with its failure.

**Smp.** A kernel thread is the sequence of operations it still has to execute, so
that `swtch` really moves a lock from one thread to another, and an interrupt pushes
its handler on top of whatever runs with IF set. It is the only module below the
level of critical sections; `Mlfq` and `Lwp` rely on what it shows.

**Boot.** `Machines` are the tables a BIOS may leave; each processor is a small program
from its two STARTUP messages to `scheduler()`. The free list is real (`next`), since
the early calls of `kalloc` and `kfree` take no lock.

**Syscalls.** One step per system call, but for those that wait and those whose steps
two threads of a process can interleave: `exit` closes the files and the directory
without a lock and ends the process later (`exit`, `exited`), `exec` ends the other threads
without a lock before it loads (`exec`, `sys_exec`), `sbrk` reads the size and stores it later
(`sbrk`, `sys_sbrk`). `thidx` is the thread of a process that ran last; `kill` wakes only that
one. A program is a sequence of instructions with the result it accepts; `failed` records
a result it does not, and what the kernel does not survive: two threads that close the
same files or free the same kernel stacks, memory that grows from a size that is out of
date, a `thread_create` without a slot or a page. `UserTests`, `ThreadTests` and `Shell` are
programs; each test of the repository keeps its calls, their order and its checks, with
loops of two rounds. Five of the thread tests (`RacingPrograms`) do send two threads into
`exit`, `exec` or `sbrk` at once, or kill a process several threads of which sleep; they are
run apart, with `Racing = TRUE`, and fail (section 6).

**Collections.** `MCFiles` and `MCSystem` put many small components under one TLC run
each: the variable `comp` says which component a behaviour belongs to, and `x1`, `x2`,
... stand for the variables of that component (`INSTANCE ... WITH`). A property of the
collection is the conjunction of the components' properties of the same kind. The
assumptions of `ProcQueue`, `ProcMem` and `Smp` are evaluated there as `SizesFit`.

## 3. Runs

Every run stays under five minutes. Deadlock is checked except where a panic stops
the machine for good (`init exiting` when its fork fails, `pushqueue`, `acquire`), a name
space is used up, or programs come to their end (`files`, `system`).

| run | instance | what it shows |
|---|---|---|
| `mlfq_table` | 1 CPU, 2 queues, 3 processes, every call but sleep and wrong passwords | `TypeOK`; lists and back pointers agree (`QueuesExact`); on one CPU only the holder of the scheduler lock runs (`SchedulerLockExclusive`) |
| `mlfq_smp` | 2 CPUs, 3 slots, failing forks, lock, wrong passwords | nobody runs twice; the holder of the lock is alive; a parent in `wait` has no zombie |
| `mlfq_live` | 1 CPU, 4 slots, 3 processes, fork, lock, relock, kill, sleep, fair | no starvation, lock released and killed processes die, unless the holder of the lock calls `schedulerLock` for ever; no process passes its quantum |
| `log` | 2 callers, 3 blocks, 2 values, crashes, fair | atomic groups (refinement), durability, reservation, wakeups |
| `synclog` | 1 caller that holds up to 2 buffers, 3 blocks, 2 values, 3 buffers, crashes, fair | all-or-nothing commits, `sync` is durable, buffers suffice, `bread` returns unless the commit comes to a buffer its own caller has locked |
| `lwp_table` | 2 CPUs, 3 processes, 2 threads each | no lost join, no lost wait, one thread per process |
| `lwp_live` | 1 CPU, 2 threads that create, join, read, exec, kill; memory fails; fair | round robin reaches every thread |
| `files` | the eight instances of `MCFiles` | see below |
| `system` | the sixteen instances of `MCSystem` | see below |
| `mlfq_forkfail` | violated | `NoQueuePanic`: section 6 |
| `synclog_atomic` | violated | `AtomicCommits`: section 6 |
| `files_deadlock` | violated | `NoLockCycle`: section 6 |

| property of `files` | components | what it says |
|---|---|---|
| `RefsCount` | Inode, Bio, Pipe | `ip->ref`, `b->refcnt`, `f->ref` and the open ends count exactly the pointers there are (with symbolic links `ip->ref` may be too large: section 6) |
| `NamesAlive` | Inode | no name, open file or current directory leads to a free inode; one cache entry per inode; never more names than `nlink` |
| `BlocksExact` | Bmap, Mkfs | the bitmap is exactly what the inodes reach, no block twice |
| `ReadsBack` | Bmap, Pipe | a file is the words written to it, a pipe a queue |
| `WaitersWoken` | Bio, Pipe | nobody sleeps although what it waits for has come |
| `CacheTransparent` | Bio | a block's contents change only at the hands of the holder of its lock |

| property of `system` | components | what it says |
|---|---|---|
| `NoLostWakeup` | Console, Smp, SyncLog | readers, parents, sleepers and callers of the log are not left asleep |
| `ResourcesExact` | Vm, ProcMem, Boot, Console | pages conserved, the page table is `[0, sz)` (up to a `thread_create` that fails: section 6), images whole; stacks and pages of starting processors apart; no modifier key stuck |
| `NoPanic` | Smp, Boot, ProcQueue, Console | none of the kernel's checks fails (`kill(1)` apart), interrupts are restored, the machine comes up, the cursor stays on the screen |
| `ImplementsQueues` | ProcQueue | the lists implement sequences |
| `CommitKeepsContents` | SyncLog | with two callers whose calls overlap with commits: a commit changes what is read only while another call is under way |
| `ImplementsLines` | Console | the ring implements a queue of lines |
| `TestsPass`, `ProgramsEnd` | UserTests, ThreadTests, Shell | every test but the five `RacingPrograms` passes and every program ends in every interleaving |
| `ShellRuns` | Shell | command lines leave the output and the files they should |
| `AlgorithmsExact` | Shell's parser, Ulib | parser and library agree with reference definitions on all bounded inputs |
| `HeapExact` | Umalloc | no unit has two owners, the free list is ordered, circular and merged |

Why the bounds are enough. Three processes are a parent, a child and an orphan or
a lock holder, a rival and init. Two queues have a first, a last and a demotion;
in `mlfq_table` and `mlfq_smp` a boost follows every tick (`BoostTicks = 1`), so boosts
meet every other operation, and `setLevel` fills the last queue in between.
`BoostTicks` is at least the number of processes in the fair run, as 100 > 64 in the
code; a period shorter than a round would starve by itself. `MaxLockCalls = 1` bounds
fresh locks. A holder that locks again for ever is in the model and does keep the CPU, so
the three liveness properties of `mlfq_live` excuse exactly the behaviours with
`[]<>Relocking`. In `log`, calls write fewer blocks (1) than
they reserve (2), as the calls of the kernel do, and the log has the size `mkfs` gives
it, so the third block is the one that would overflow; two callers that overlap
make groups of two blocks. In `synclog` three blocks against three buffers make `bget`
commit by itself, also with one or two of them locked by its caller (`MaxHeld = 2`, the
index block that `bmap` holds across `balloc`); `NRESBUF` is 1 where the code has 2, which
only makes the shortage worse. Two callers, one block and `sync` by either of them
(`system`) make every overlap of a call with the copies of a commit; there are buffers
enough there that no commit is forced, since forced commits do overlap (section 6). Two threads per process are enough for a joiner and its target, for a waiter
and an exiter. In `files`, two processes and three inodes reach every pair of calls on
the same name and its parent; one direct block and two words per block reach triple
indirection with 24 blocks and run out of them; two buffers for three blocks force
recycling while both are wanted; a pipe of two bytes with indices modulo 4 fills,
empties and wraps. In `system`, four list members give a front, a back and two middles;
rings of two and three characters fill and wrap; 15 pages run out at every point of
`fork` and `exec`; the 13, 17 and 21 pages of the user programs are what their threads and
memory need at most; words of four bits overflow in every argument check. Two CPUs with
two processes are the waker and the sleeper; `Sleeper` runs the sleep of one process
against the clock of two CPUs. The programs of the tests keep their processes; loops
of two rounds meet the second use of every name.

## 4. Fairness

*Mlfq.* A CPU in `scheduler()` or returning from an interrupt goes on (weak). The
local APIC keeps interrupting and a pending interrupt is taken when interrupts are
enabled again (strong, because the kernel disables them for short whiles). A process
inside a system call executes instructions each time it is dispatched, so it ends
the call however often it is preempted (strong). User programs owe nothing.
*Log, SyncLog.* A caller inside the log code keeps running and a call ends; no
fairness of crashes or of new calls. *Lwp.* The loop of `scheduler` visits every slot
in turn, so a process that is RUNNABLE again and again is reached (strong); the
timer keeps ticking; kernel code goes on. Devices owe nothing.

The instances of `files` and `system` state no fairness: their properties about waiting
are invariants ("nobody sleeps although what it waits for is there"), and
`ProgramsEnd` says that a program that cannot take a step has come to its end.

## 5. Proofs

Every theorem holds for every value of the constants that satisfies the named
assumptions of its module (sizes positive, sets of arguments in their ranges) and
the hypotheses given here.

| module | theorem | states |
|---|---|---|
| `MlfqProofs` | `TypeCorrect` | `TypeOK` |
| | `QueuesCorrect` | `QueuesExact`, also with failing forks, `setLevel` and any number of CPUs |
| | `CpusCorrect` | `OneCpuPerProcess` |
| | `QuantaCorrect` | `TqWithinQuantum`, if nobody calls `setLevel` |
| | `LockHolderCorrect` | `LockHolderLive`, on any number of CPUs |
| | `LockExclusionCorrect` | `SchedulerLockExclusive`, if `NCPU = 1` |
| | `ChildWakeupCorrect` | `NoLostChildWakeup` |
| `LogProofs` | `LogCorrect` | `LogInv`, the inductive invariant |
| | `AtomicityCorrect` | `AtomicCommits`: `Log` implements `AtomicDisk` |
| | `DurabilityCorrect` | `DurableWhenQuiet` |
| | `ReservationCorrect` | `ReservationSuffices`, under `HeaderRoom` |
| `SyncLogProofs` | `CacheCorrect` | `CacheInv`, for any number of callers |
| | `RecycleCorrect`, `RecoveryCorrect` | recycling a buffer changes nothing that is read; a crash and a recovery, cut short or not, change nothing that recovery yields; for any number of callers |
| | `SleepersCorrect` | `SleepersAwaited`, for any number of callers |
| | `CommitCorrect`, `CommitFlagCorrect`, `ContentsCorrect` | `CommitInv`, `CommitFlagged` and `CommitKeepsContents`, for any number of callers while commits do not overlap (`OneCommit`) |
| | `LogExactCorrect`, `AllOrNothingCorrect` | `LogExact` and `CommitAllOrNothing`, for any number of callers while commits run with no other call under way (`CommitsAlone`) |
| | `SyncCorrect` | when a commit ends, what recovery yields is what calls see, under `CommitsAlone` |
| `LwpProofs` | `LwpCorrect` | `LwpInv`, the inductive invariant |
| | `TypeCorrect`, `OneThreadCorrect`, `JoinWakeupCorrect`, `ChildWakeupCorrect`, `PtableLockCorrect` | `TypeOK`, `OneThreadPerProcess`, `NoLostJoin`, `NoLostChildWakeup`, `PtableHeld` |
| `SmpProofs` | `SmpCorrect` | `SmpInv`, the inductive invariant |
| | `TypeCorrect` | `TypeOK` |
| | `LocksCorrect`, `InterruptsCorrect` | `LocksDisciplined`, `InterruptsRestored`, which `system` checks inside `NoPanic` |
| | `WakeupCorrect` | `NoLostWakeup` of `Smp`, which `system` checks inside `NoLostWakeup` |
| `PipeProofs` | `PipeCorrect` | `PipeInv`, the inductive invariant |
| | `PipeEndsCorrect`, `PipeWakeupCorrect` | `PipeEndsExact`, `PipeNoLostWakeup`, which `files` checks inside `RefsCount` and `WaitersWoken` |
| | `PipeFifoCorrect` | `PipeFifo` (in `ReadsBack` of `files`), under `RingAligned` |
| `BioProofs` | `BioCorrect` | `BioInv`, the inductive invariant |
| | `BuffersCorrect`, `DiskCorrect` | `OneBufferPerBlock`, `DiskKeepsWorking`, which `files` checks inside `RefsCount` and `WaitersWoken` |
| | `CacheCorrect` | the action property `CacheTransparent` |
| `QueueProofs` | `ListsCorrect` | `ListInv`, the inductive invariant |
| | `QueuesImplemented` | `ImplementsQueues`: `ProcQueue` implements `QueueSpec` |
| | `LinksCorrect`, `NoDamage` | `ListsDoublyLinked` and `SizeNotAbove`, which no run checks; `NoListPanic`, which `system` checks inside `NoPanic` |

**Mlfq.** The first three rest on one inductive invariant, `TableInv`. `QueuesExact` alone is
not inductive: `fork` makes the child RUNNABLE in its second half, and a child whose
slot had been freed, or was shared by two parents, would be a process outside the
queues; `ForkChild` (a process between the halves owns one EMBRYO slot, nobody
else's) excludes this. `SwitchedOut` ties `c->proc` to the program counter of the
scheduler, so that `Dispatch` cannot lose a running process. The steps are grouped:
those that change neither table nor queues (`QuietStep`), those that leave the CPU
(`LeaveStep`), those that move a queue member; the queue facts come from `EraseFacts`,
`PushFacts`, `PushFrontFacts` on sequences, and one lemma per action (`...Keeps`) ends
in `NextTable`.

`LockHolderLive` is strengthened to `HolderNotExiting`: the holder has not passed the
unlock of `exit()`, since `exit` tests `lockpid` in one critical section and dies in a
later one, and only the holder itself could take the lock in between.
`LockExcludes` adds that a scheduler that has just given the lock up does not find it
taken again before it dispatches, which is true on one CPU only.
`ChildWakeup` needs the shape of the family tree (`FamilyTree`: init lives and has
no parent): an orphan handed to a sleeping init is woken for in the same critical
section. `TqWithinQuantum` is inductive on top of `TableInv`.

**Log.** Neither atomicity nor durability is inductive: both depend on where a commit
is. `LogInv` says that `outstanding` counts the callers inside calls (`OpsCounted`), that
`committing` stands for one committer and no call under way (`OneCommitter`), that a
buffer is clean or its block is in the header (`CleanBuffers`, `HeaderExact`), how far
the copying to the log and home has come (`Progress`), and that a quiet log is empty
(`QuietEmpty`). `AtomicityCorrect` follows: the initial state maps to an initial state
of `AtomicDisk`; the write of the header is its commit; the other disk writes leave
what recovery would produce as it was, since `Progress` fixes the blocks they write;
a crash at any of them, also of the recovery, is its crash. `ReservationCorrect` counts
the writes that calls under way may still make (`Todo`) against the space that
`begin_op` reserved. Its hypothesis `HeaderRoom` is needed: `LOGSIZE < NLOG`, or calls
write fewer blocks than they reserve. In the code `NLOG = LOGSIZE` and the second
alternative holds; without it TLC has the overflow (section 6).

**SyncLog.** All theorems are for any number of callers, blocks, buffers and any size of
the log, through every crash and panic. Three layers of invariants need more and more
of the behaviour. `CacheInv` needs nothing: a buffer that is neither pinned nor being
changed agrees with the disk (`CleanBuffers`), no block is in the log twice (`Shape`), a
recovery is a prefix of the installation of the header it found (`Recovery`). From it
follow `RecycleCorrect` and `RecoveryCorrect`. `CommitInv` needs `OneCommit`, that two commits
do not overlap, which the comment at `log.c:44` promises ("in commit(), please wait.") and
which holds unless two calls of `bget` force a commit at once: the flag is up exactly
while somebody commits (`Flags`), and the blocks copied so far are what system calls see
*unless another call is under way* (`Copying`). The condition is what makes it inductive: a
call that changes a block behind the commit's back stays inside its call, since `end_op`
sleeps while `committing` is up, so once nobody else is under way the copies are exact
again. `ContentsCorrect` is the action property that follows. `LogExact` needs `CommitsAlone`,
that while a commit runs nobody else has a call under way, the claim of `log.c:12`: the
header on disk is empty or that of the commit being installed, and exactly the blocks
still to install are pinned. It gives `AllOrNothingCorrect` and `SyncCorrect`. The
hypotheses are on the behaviour, as `[]OneCommit` and `[]CommitsAlone`, not on the number
of processes, and they mark where the code's promise ends: without `CommitsAlone`,
`synclog_atomic` has a crash that leaves half a call, without `OneCommit` TLC has commits
that undo each other's installation (section 6). `SleepersCorrect` needs neither: somebody
inside the commit stands behind every sleeper. `SyncedDurable` and `BuffersSuffice` of the
run `synclog` are model-checked only.

**Lwp.** `OneThreadPerProcess`, `NoLostJoin` and `NoLostChildWakeup` need each other and
`LwpInv`. `ForkChild` gives every fork under way an EMBRYO slot of its own, and
`FreshSlots` says that no thread of a slot that is free or being made has run or sleeps; `PtableHeld` says that a thread
back from `sched()` in `wait`, `thread_join` or `thread_exit` runs on the CPU that
holds `ptable.lock`, so that nobody changes the tables while it looks at them again.
This stays true after a `thread_create` that returns without
releasing the lock. `InitLive` gives orphans a parent; `OpsCounted` keeps
`log.outstanding` from falling below zero when `exec` or `wait` free a thread in the
middle of a call.

**Smp.** The hypothesis is `SmpAssumption`: at least one processor and one slot, ticks
that wrap at some `W`, natural arguments of `sleep`. Nothing about what a single step
does is inductive here, because a step executes whatever operation comes first in the
thread's code, and what comes first was decided many steps, handlers and processors
ago. `SmpInv` is therefore a type system for kernel code. The *mode* of a thread says
which locks its processor has, whether interrupts come on when it gives up the last
one, whether its process runs, has given up the processor or is dead, and a *frame*:
whether it is in a handler, whose EMBRYO slot it is filling, whether it has advanced
`ticks` and owes the wakeup, what it has decided to sleep for. `Needs` and `After` give
each operation the mode it needs and the one it leads to; `Typed` says that the code
of a thread leads from its present mode to user code or to its end. A processor's thread is
typed with what the processor holds (`CpuGood`); a process that waits for a processor is
typed with `ptable.lock` and *any* `intena` (`ProcGood`), which is what the scheduler
will give it and why `sched()` must save its own. `Children`, `Family` and `Sleepers` relate
the frames to the table.

There is one lemma per operation (`...Step`). `TypedHead` takes the first operation off, the
`Leads...` lemmas give each operation its modes, `PathConcat` joins the code that a
handler, a system call or a loop puts before the rest; `TableStep`, `OwnStep`, `SlotStep`
and `CodeStep` carry what the other threads and processors keep. `Dispatch` and
`SwitchMachine` are the two halves of the context switch. The theorems then read the
invariant: a check of the code fails only in a mode that no typed thread has; the code
still to be executed tells the present mode, since a frame only changes by the
operations that say so (`InHandler`, `InSyscall`, `WakeupAhead`, by the first place where
it does). The frames are what makes the wakeups inductive: from the test that decides to sleep
to the store of SLEEPING the process has a lock that the waker needs (`Consistent`), and
from the store to `ticks` to the wakeup the timer handler holds `tickslock`.
`kill(1)` is left out of the model (section 6): it makes init exit, which panics.

**Pipe.** `PipeConstants` states the sizes (`PIPESIZE` smaller than the range `W` of the
counters). That an end is open exactly while something stands for it is not
inductive by itself: `pipeclose` runs after `fileclose` has given the file back, when
the same file may already stand for another pipe. `EndsUnique` gives each end one
file or one process on its way to `pipeclose`; `CallsPlaced` ties a reader or a writer
to a descriptor of its own, which keeps the page under it; `AboutToSleep` says that who
has tested and not yet gone to sleep still has `p->lock`, so that what it found is still so;
`RefsExact` counts descriptors as pairs, so that `fork`, which adds a whole table at once, is one union
of disjoint sets. `PipeFifoCorrect` adds that the bytes from `nread` on lie in their
slots: new bytes go to slots `nread + i` with `i < PIPESIZE`, which differ because
`PIPESIZE` divides `W` (`RingAligned`; 512 and 2^32 in the code). Without it the
counters lose their place in the ring when they wrap.

**Bio.** `BioConstants` states that processes are finitely many and that `None` is no
process and no block. `BioInv` places each process by its buffer and the lock it has
(`UsersPlaced`, `LocksOwned`), counts references (`RefsExact`), and says which buffers the
driver has: every queued one has a process that waits for it with the lock
(`QueueHeld`), so it has a reference and `bget` recycles none of them, nor does anybody
change what the controller works on (`DriverBusy`). That bounds what a step can do to
`BufsClean` (a valid buffer that is not dirty agrees with the disk, unless its read
failed), from which `CacheCorrect` follows: a recycled buffer is clean, a block that is
read in had no valid buffer, and a block that is written has a dirty one.

**ProcQueue.** The hypothesis is `QueueSizeAssumption` (at least one slot and one queue).
`ListInv` gives each queue a sequence without repetition that its links spell: forwards
along `next`, backwards along `prev`, with the right ends, and with exactly the processes
whose `p->queue` is that queue; a process on no queue has no links. The forward links
alone would implement `QueueSpec`, but `erasequeue` chooses its case by `prev` and by the
ends, so they are not inductive without the rest. The sequence is what `Walk` reads off:
a walk of `NPROC` steps is determined by where it starts (`TraceUnique`, by the least
step at which two walks differ), and no list is longer than the table (`ListFits`). The
same argument shows that the loop of `erasequeue` visits every member
(`MembersVisited`), hence that it never panics. The four cases of unlinking come to one
statement, `Joins`, from which the list without its `z`-th member follows once; the two
cases of `pushfrontqueue` likewise. With this theorem the queues of `Mlfq`, which are
sequences there, stand for the lists of the code in every instance.

**Only model-checked.** Every liveness property (`SleepersWoken`, `BreadReturns`,
`NoStarvation`, `LockReleased`, `KilledDies`, `ThreadsRun`): fairness is out of the prover's
reach. The refinement of `LineSpec` by `Console`, and the properties of `Inode`, `Bmap`,
`Mkfs`, `Vm`, `ProcMem`, `Boot`, `Console` and the user programs. What the
recursive definitions of the user-level modules and of the block maps compute
(parser, `printint`, `match`, `bmap`) is out of the prover's reach as well.

## 6. Disagreements between the code and what the repository says of it

Three have a run that ends in the violation:

* `mlfq_forkfail`: a fork that fails for lack of memory sets `np->state = UNUSED` (p1
  `proc.c:215`, also 113) and leaves the slot in L0; the next fork pushes it again
  and `pushqueue` panics, while `forktest.c:1` says "Test that fork fails gracefully."
* `synclog_atomic`: `sync1` (p3 `log.c:187`) commits with system calls under way, so a
  crash leaves half of one on disk, while `log.c:12` says "The logging system only
  commits when there are no FS system calls active."
* `files_deadlock`: `create` ends with `iunlockput(dp)` while the new inode is locked
  (p3 `sysfile.c:320`), and `iput` takes the lock of `dp` again (`fs.c:341`); an unlink of
  the new name holds `dp` and waits for the inode (`sysfile.c:236-244`). Both wait for
  ever, while `fs.c:152` says "The separation also helps avoid deadlock and races during
  pathname lookup."

The others were found with the same models and the property named, which stands
in the last section of its module; each needs only a `.cfg` with the constants given.

| property (module) | constants | code | what the repository says |
|---|---|---|---|
| `TqWithinQuantum` (Mlfq) | `SetLevels = {0}` | `setLevel` keeps `tq` (p1 `proc.c:918`) | `proc.c:373` "check if the process has time quantum left" |
| `QueueInBounds` (Mlfq) | `SetLevels` with `NQUEUE` | level 3 is accepted (`proc.c:907`) | `proc.c:909` "Please use 0, 1, 2 as level." |
| `SchedulerLockExclusive` (Mlfq) | `NCPU = 2` | another CPU goes on (`proc.c:837`) | `proc.c:806` "scheduler can only run current process" |
| `UptimeMonotonic` (Mlfq) | any | boosts reset `ticks` (`proc.c:663`) | `sysproc.c:80` "since start" |
| `KillOnlyProcesses` (Mlfq) | `KillPids` with 0 | `kill(0)` marks a free slot (`proc.c:565`) | `proc.c:555` "Kill the process with the given pid." |
| `SleepReturns` (Mlfq) | a `SleepTimes` above `BoostTicks`, fair | the count is reset while it sleeps (`sysproc.c:69`) | `mlfq_test.c:34` calls `sleep(300)` |
| `ReservationSuffices` (Log) | `OpWrites = MAXOPBLOCKS = 2`, 4 blocks | the header takes one of the `LOGSIZE` blocks (p1 `log.c:132`) | `param.h:11` "max data blocks in on-disk log" |
| `CommitKeepsContents` (SyncLog) | 2 callers, `OpWrites = 2`, `NBUF = 4`, `NRESBUF = 2` | two forced commits overlap, since `sync1(0)` does not look at `committing`, and `install_trans` overwrites newer buffers (p3 `bio.c:78-81`, `log.c:79`) | `log.c:44` "in commit(), please wait." |
| `SyncedDurable`, `BuffersSuffice`, `CommitAllOrNothing` (SyncLog) | as `synclog`, 2 callers | a commit of one caller in the middle of a call of the other (p3 `log.c:206`) | `log.c:12` "The logging system only commits when there are no FS system calls active." |
| `DurableWhenQuiet` (SyncLog) | any | `end_op` never commits (p3 `log.c:145`) | `log.c:143` "commits if this was the last outstanding operation." |
| `CommitFlagged` (SyncLog) | 2 callers, 5 buffers, 4 blocks | two forced commits overlap (p3 `bio.c:78`) | `log.c:172` "log.committing should be 1" |
| `BgetReturns` (SyncLog) | as `synclog`, fair | a commit waits for a buffer its own caller holds (p3 `bio.c:81`; `fs.c:382-388`, 411-417) | `bio.c:61` "In either case, return locked buffer." |
| `KilledWakes` (Pipe) | as in `files` | a kill on another CPU between the test of `killed` and `sleep` leaves a killed process asleep (p1 `pipe.c:86-91`, 107-111) | `proc.c:568` "Wake process from sleep if necessary." |
| `KilledWakes` (Console) | as in `system` | the same in `consoleread`, until the next line (p1 `console.c:246-251`) | `proc.c:568` "Wake process from sleep if necessary." |
| `KilledCanRun` (Lwp) | slot 2 also ends threads, slot 3 kills | only the thread at `thidx` is woken (p2 `proc.c:547`) | `proc.c:548` "Wake process from sleep if necessary." |
| `SomeThreadAlive` (Lwp) | create, texit, exit | `thidx` of the slot's last process (p2 `proc.c:87`) | `proc.c:828` "-> Process killed" |
| `NoDoubleAcquire` (Lwp) | create, or texit | returns with `ptable.lock` held (p2 `proc.c:745`, 840) | `thread_test.c:104` expects an error code |
| `JoinWaitsForTarget` (Lwp) | 3 threads, create, join, texit | the tid is looked up once (p2 `proc.c:863`) | `proc.c:886` "No point waiting if we don't have any thread with tid." |
| `RefCountsFiles` (Lwp) | create, exit | two threads close the same descriptor (p2 `proc.c:268`) | `file.h:3` "reference count" |
| `OpsHaveThreads` (Lwp) | create, exit, op, `MaxOps = 2` | exit abandons a call of another thread (p2 `proc.c:291`) | `log.c:143` "called at the end of each FS system call." |
| `NoRemap`, `RegionsDisjoint` (ProcMem) | 2 threads | `sz` is read and written without a lock (p2 `proc.c:172`, `sysproc.c:53`) | `vm.c:72` `panic("remap")`; `thread_test2.c:456` |
| `GrowsAsAsked`, `LimitHolds` (ProcMem) | `Limits = {4}` | a request is cut and reported as granted (p2 `proc.c:176`); stacks ignore the limit (789) | `proc.c:164` "Return 0 on success, -1 on failure."; `proc.h:59` "memory limit (bytes)" |
| `CreateFailsCleanly` (ProcMem) | as in `system` | a `thread_create` that fails returns with `ptable.lock` held, or frees the page table its process runs on (p2 `proc.c:745`, 752, 789-790, 813-816) | `thread_test.c:106-108` tests for the error and reports it |
| `TestsPass` (ThreadTests) | as in `system`, `Racing = TRUE` | two threads close the same files, free the same kernel stacks or grow from the same size (p2 `proc.c:266-276`, `exec.c:23-37`, `sysproc.c:53`, `proc.c:172`); `kill` leaves threads asleep (`proc.c:547`) | `thread_test2.c:21` "Test what happen when some threads exit while the others are alive", 28, 31, 34; `thread_test2.c:456` `panic at sbrkthreadmain` |
| `TripleFreed` (Bmap) | as in `files` | `freeDouble` frees the blocks of `ip->D_addr` whatever its argument (p3 `fs.c:447`) | `fs.c:466` "Truncate inode (discard contents)." |
| `UnlinkedFreed` (Inode) | as in `files` | two processes drop the last two references at once, both read `ref` 2 and none frees the inode (p3 `fs.c:344`) | `fs.c:334` "If that was the last reference and the inode has no links to it, free the inode" |
| `LinksExact` (Inode) | `DirCalls` | `create` in a directory removed between `nameiparent` and `ilock(dp)` makes an orphan | `fs.h:35` "Number of links to inode in file system" |
| `LinksHarmless` (Inode) | `LinkCalls` | unlink of a symbolic link hands the bytes of its path to `bfree`; a link to a device or `chdir` on a dangling one panics | `stat.h:4` "Symbolic link file", a type like the others |

Smaller observations made while modelling, each visible in a module's definitions:

* Scheduler lock: `schedulerLock` by its holder sets `ticks` to 0 without an end
  (p1 `proc.c:822-843`), so a process that calls it more often than every 100 ticks is never
  boosted out of the lock and starves all others; the code only warns ("Imprudent
  locking"). The liveness properties of `Mlfq` excuse it by name (`Relocking`).
* `kill` compares the pid only, so it also marks a free slot: one that keeps the pid of a
  fork that failed, or the first with pid 0 for `kill(0)`. `allocproc` does not clear `killed`, so the next
  process in the slot is born killed (p3 `proc.c:486`, `Smp`).
* Links: references to inodes are not put on several paths through symbolic links, so
  the inode cache fills up (`RefsCount` is `>=` there); `chdir` follows a cycle for ever;
  a path longer than the inode's address array runs over it. `link(x, ".")` waits for a
  lock its caller holds.
* Triple indirection: one chunk of `filewrite` can log more than `MAXOPBLOCKS` blocks.
* Pipes: a killed writer that finds the pipe full returns without waking readers of
  what it has put in (`pipe.c:85`).
* Disk: a read that fails still marks its buffer valid (p1 `ide.c:118-122`), so `Bio`
  tells apart blocks whose read has failed (`bad`).
* Memory: `sbrk(-sz)` frees every page and then reports failure without storing the
  size. `kill(1)` makes init exit, a panic. `sleep(-1)` sleeps for 2^32 ticks.
* Start: the `break` of the default case in `mpinit` leaves the switch and not the loop
  (p1 `mp.c`), so an unknown entry is read for ever and the panic after the loop is never
  reached; `startothers` does not test what `kalloc` returns.
* `pmanager`: the end of its input is an endless loop; an argument that is missing is
  taken from the last line; a limit of 0 (none) is refused.
* Shell: of two redirections the first wins, `>>` does not append, `>` does not truncate,
  `a & b` is a syntax error. `grep` drops a part of a line that fills its buffer. `cprintf`
  does not know `%c`.
* Tests: `createdelete` leaves files behind (its last loop uses `'p'+i`), `writetest1`
  refuses only a size of `MAXFILE-1`; the third test of `thread_test.c` calls `malloc` from
  all threads, which `umalloc.c` does not allow.
* `mkfs` (p3): the assertion `fbn < MAXFILE` no longer bounds `indirect[]`; a root
  directory that exactly fills its blocks has a size one block too large.

## 7. Not modelled

The boot loader, the descriptor tables, `swtch` and the trap vectors as machine code,
the registers of the interrupt controllers, the timer, the disk, the screen and the
serial line, and the format of page table entries: hardware formats without a
protocol of their own. The text the kernels print. Of the user programs: `ls` and
`kill`, `bsstest` and `fsfull` of `usertests.c`, the test programs of the scheduler and the
small examples. In the modelled parts: the LRU order of the buffer list in `SyncLog`
(any clean buffer may be recycled; `Bio` has the order for p1), most of the key tables
of `kbd.h`. The code that two or three kernels share unchanged is modelled from one of
them, which the map names.

## 8. Plan

1. Proofs, in this order: `MappedExact` of `ProcMem`; the reference counts of `Inode`; the
   refinement of `LineSpec` by `Console`. These modules declare no recursive operator and
   are written one action per critical section with this in mind.
2. The modules with RECURSIVE operators (`Shell`, `Ulib`, `Umalloc`) and those whose
   definitions compute along folds and recursive functions (`Bmap`, `Mkfs`) stay with TLC.
3. A property that is proved for every instance can leave its run and make room for
   another component's.
