------------------------------ MODULE MCSystem ------------------------------
(***************************************************************************)
(* The parts of the kernel outside the scheduler and the file system, and  *)
(* the user programs, each in small instances.  A behaviour is one of the  *)
(* component comp: the variables x1, x2, ... stand for those of the        *)
(* component, in the order it declares them, and the rest stay 0.          *)
(***************************************************************************)
EXTENDS Integers, Sequences, TLC

CONSTANTS thread, p1, p2, b1, v1, v2, Nobody   \* of ProcMem and SyncLog

VARIABLES comp, x1, x2, x3, x4, x5, x6, x7, x8, x9, x10, x11, x12, x13, x14, x15,
          x16, x17, x18

From16 == <<x16, x17, x18>>
From12 == <<x12, x13, x14, x15, From16>>
From11 == <<x11, From12>>
From10 == <<x10, From11>>
From9 == <<x9, From10>>
From8 == <<x8, From9>>
From7 == <<x7, From8>>
From5 == <<x5, x6, From7>>
From3 == <<x3, x4, From5>>
From2 == <<x2, From3>>
Zero16 == x16 = 0 /\ x17 = 0 /\ x18 = 0
Zero12 == x12 = 0 /\ x13 = 0 /\ x14 = 0 /\ x15 = 0 /\ Zero16
Zero11 == x11 = 0 /\ Zero12
Zero10 == x10 = 0 /\ Zero11
Zero9 == x9 = 0 /\ Zero10
Zero8 == x8 = 0 /\ Zero9
Zero7 == x7 = 0 /\ Zero8
Zero5 == x5 = 0 /\ x6 = 0 /\ Zero7
Zero3 == x3 = 0 /\ x4 = 0 /\ Zero5
Zero2 == x2 = 0 /\ Zero3
vars == <<comp, x1, From2>>

----------------------------------------------------------------------------
(* The kernel.                                                             *)

Queue == INSTANCE ProcQueue WITH NPROC <- 4, NQUEUE <- 2, MinSize <- 1,
           front <- x1, back <- x2, size <- x3, prev <- x4, next <- x5, inq <- x6,
           panic <- x7

Memory == INSTANCE ProcMem WITH Threads <- {thread}, PGSIZE <- 2, InitSz <- 3, MaxSz <- 9,
            Requests <- {-2, -1, 1, 2, 3}, Limits <- {4, 6}, MaxStacks <- 2,
            NoMemory <- TRUE,
            sz <- x1, limit <- x2, mapped <- x3, ustack <- x4, freed <- x5, pc <- x6,
            n <- x7, addr <- x8, old <- x9, new <- x10, a <- x11, region <- x12,
            mpc <- x13, mlimit <- x14, fault <- x15

Serial == INSTANCE Console WITH Readers <- {1, 2}, INPUT_BUF <- 3, W <- 6, Keys <- {},
            SerialChars <- {"x", "cr", "D", "U", "H"}, ReadSizes <- {2}, PortSize <- 3,
            Cols <- 1, Rows <- 2,
            buf <- x1, r <- x2, w <- x3, e <- x4, shift <- x5, down <- x6, port <- x7,
            reader <- x8, killed <- x9, pos <- x10
Keyboard == INSTANCE Console WITH Readers <- {1}, INPUT_BUF <- 2, W <- 4,
            Keys <- {"lctl", "rctl", "d"}, SerialChars <- {}, ReadSizes <- {3},
            PortSize <- 2, Cols <- 2, Rows <- 2,
            buf <- x1, r <- x2, w <- x3, e <- x4, shift <- x5, down <- x6, port <- x7,
            reader <- x8, killed <- x9, pos <- x10

Seg(vaddr, memsz, filesz, there) ==
    [vaddr |-> vaddr, memsz |-> memsz, filesz |-> filesz, there |-> there]
Executables ==
    {[magic |-> TRUE, segs |-> s] : s \in
       {<<Seg(0, 12, 8, 8)>>, <<Seg(0, 0, 0, 0)>>, <<Seg(0, 8, 8, 8), Seg(12, 8, 4, 8)>>,
        <<Seg(0, 12, 4, 4), Seg(8, 12, 8, 4)>>, <<Seg(8, 8, 8, 8), Seg(0, 8, 4, 4)>>,
        <<Seg(0, 4, 8, 8)>>, <<Seg(80, 20, 4, 4)>>}}
    \cup {[magic |-> FALSE, segs |-> <<>>]}
Paging == INSTANCE Vm WITH Procs <- {1, 2}, NPages <- 15, PGSIZE <- 8, NPT <- 3,
            UserTables <- 2, AddrSpace <- 96, WORD <- 1, Programs <- Executables,
            ArgLists <- {<<>>, <<3>>, <<4>>, <<3, 8>>}, StackSizes <- {0, 2, 9},
            MaxStack <- 2, SbrkArgs <- {12, -8},
            freepages <- x1, mem <- x2

(* What a BIOS leaves behind: tables in different places, an id that is    *)
(* not an index, more processors than NCPU, no good table, a first         *)
(* processor beyond NCPU, an entry of an unknown type.                     *)
Cpu(i) == [type |-> "MPPROC", apicid |-> i]
Entry(t) == [type |-> t, apicid |-> -1]
Bios(ebda, base, rom, boot, entries) ==
    [ebda |-> ebda, base |-> base, rom |-> rom, boot |-> boot, entries |-> entries]
Computers == {
    Bios("good", "none", "none", 2,
         <<Cpu(0), Cpu(2), Entry("MPBUS"), Cpu(5), Entry("MPIOAPIC"), Cpu(6)>>),
    Bios("absent", "none", "good", 1, <<Cpu(1), Cpu(3)>>),
    Bios("absent", "good", "bad", 4, <<Cpu(1), Cpu(2), Cpu(3), Cpu(4)>>),
    Bios("none", "good", "bad", 0, <<Cpu(0)>>),
    Bios("absent", "good", "none", 0, <<Cpu(0), Entry("other")>>)}
Start == INSTANCE Boot WITH Machines <- Computers, NCPU <- 3, Low <- 2, High <- 1,
           machine <- x1, pc <- x2, entry <- x3, cpus <- x4, k <- x5, word <- x6,
           cpu <- x7, kmem <- x8, next <- x9, runnable <- x10, panic <- x11

TwoCpus == INSTANCE Smp WITH NPROC <- 2, NCPU <- 2, W <- 2, SleepArgs <- {1},
             Interrupts <- {"timer"}, SysCalls <- {"fork", "wait", "exit"},
             cpu <- x1, lock <- x2, proc <- x3, code <- x4, ticks <- x5, panic <- x6
Sleeper == INSTANCE Smp WITH NPROC <- 1, NCPU <- 2, W <- 3, SleepArgs <- {2},
             Interrupts <- {"timer"}, SysCalls <- {"sleep"},
             cpu <- x1, lock <- x2, proc <- x3, code <- x4, ticks <- x5, panic <- x6
OneCpu == INSTANCE Smp WITH NPROC <- 2, NCPU <- 1, W <- 3, SleepArgs <- {2},
             Interrupts <- {"timer", "device"},
             SysCalls <- {"fork", "wait", "sleep", "exit", "uptime", "kill", "fault"},
             cpu <- x1, lock <- x2, proc <- x3, code <- x4, ticks <- x5, panic <- x6

Log == INSTANCE SyncLog WITH None <- Nobody, Caller <- {p1, p2}, Home <- {b1}, Val <- {v1, v2},
         NBUF <- 9, NRESBUF <- 2, LOGSIZE <- 4, MaxHeld <- 1, OpWrites <- 1,
         MayCrash <- FALSE,
         disk <- x1, logdata <- x2, hdr <- x3, buf <- x4, dirty <- x5, lh <- x6,
         outstanding <- x7, committing <- x8, synchronizing <- x9, pc <- x10,
         want <- x11, held <- x12, writes <- x13, tail <- x14, home <- x15,
         forced <- x16, mode <- x17, fault <- x18

ASSUME SizesFit ==
    /\ Queue!QueueSizeAssumption /\ Memory!MemAssumption
    /\ TwoCpus!SmpAssumption /\ Sleeper!SmpAssumption /\ OneCpu!SmpAssumption

----------------------------------------------------------------------------
(* User programs.                                                          *)

Tests == INSTANCE UserTests WITH NPROC <- 4, NTHREAD <- 4, NOFILE <- 4, NFILE <- 5,
           NInum <- 12, NPipe <- 1, PIPESIZE <- 2, MaxChunk <- 2, MAXFILE <- 6,
           NPages <- 13, DIRSIZ <- 14, Rounds <- 2,
           th <- x1, proc <- x2, file <- x3, pipe <- x4, itab <- x5, clock <- x6,
           out <- x7, failed <- x8, thidx <- x9
Threads == INSTANCE ThreadTests WITH NPROC <- 4, NTHREAD <- 7, NOFILE <- 4, NFILE <- 6,
           NInum <- 12, NPipe <- 2, PIPESIZE <- 1, MaxChunk <- 2, MAXFILE <- 6,
           NPages <- 17, DIRSIZ <- 14, StressRounds <- 2, Racing <- FALSE,
           th <- x1, proc <- x2, file <- x3, pipe <- x4, itab <- x5, clock <- x6,
           out <- x7, failed <- x8, thidx <- x9

(* What a user types, and what the console and the files hold afterwards.  *)
Session(lines, out, files) == [lines |-> lines, out |-> out, files |-> files]
NoFiles == [n \in {} |-> <<>>]
Typed == {
  Session(<<<<"echo", " ", "x", ";", "echo", " ", "y">>>>, {<<"x", "y">>}, NoFiles),
  Session(<<<<"echo", " ", "x", "|", "cat", "|", "wc">>>>, {<<"1">>}, NoFiles),
  Session(<<<<"(", "echo", " ", "x", ";", "echo", " ", "y", ")", "|", "cat">>>>,
          {<<"x", "y">>}, NoFiles),
  Session(<<<<"echo", " ", "x", "&", ";", "echo", " ", "y">>>>,
          {<<"x", "y">>, <<"y", "x">>}, NoFiles),
  Session(<<<<"echo", " ", "x", "&", "echo", " ", "y">>>>, {<<"panic">>}, NoFiles),
  Session(<<<<"echo", " ", "x", " ", "y", ">", "f">>,
            <<"echo", " ", "z", ">", ">", "f">>, <<"cat", "<", "f">>>>,
          {<<"z", "y">>}, "f" :> <<"z", "y">>),
  Session(<<<<"echo", " ", "x", ">", "f", ">", "g">>, <<"cat", " ", "f", " ", "g">>>>,
          {<<"x">>}, "f" :> <<"x">> @@ "g" :> <<>>),
  Session(<<<<"nosuch", "|", "cat">>, <<"cat", "<", "nosuch">>>>,
          {<<"failed", "failed">>}, NoFiles),
  Session(<<<<"mkdir", " ", "d">>, <<"cd", " ", "d">>, <<"echo", " ", "x", ">", "f">>,
            <<"cat", " ", "f">>, <<"cd", " ", "..">>, <<"cat", " ", "f">>>>,
          {<<"x", "failed">>}, NoFiles),
  Session(<<<<"echo", " ", "x", " ", "y", " ", "z", "|", "echo", " ", "w">>>>,
          {<<"w">>}, NoFiles),
  Session(<<<<"echo", " ", "x", ">", "f">>, <<"ln", " ", "f", " ", "g">>,
            <<"rm", " ", "f", ";", "wc", " ", "g">>, <<"rm", " ", "f">>>>,
          {<<"1", "failed">>}, "f" :> <<>> @@ "g" :> <<"x">>),
  Session(<<<<"zombie", "&", ";", "stressfs">>, <<"rm", " ", "stressfs0">>>>,
          {<<>>}, "stressfs1" :> <<"a", "a">>),
  Session(<<<<"(", "cat", "<", "f", ")", ">", "g">>, <<"(", "echo", " ", "x", ")">>,
            <<"cat", " ", "g", " ", "h">>>>,
          {<<"failed", "x", "failed">>}, "g" :> <<>>)}

Sh == INSTANCE Shell WITH NPROC <- 7, NTHREAD <- 7, NOFILE <- 5, NFILE <- 6,
        NInum <- 6, NPipe <- 2, PIPESIZE <- 1, MaxChunk <- 2, MAXFILE <- 6,
        NPages <- 21, DIRSIZ <- 14, MAXARGS <- 5, Sessions <- Typed,
        th <- x1, proc <- x2, file <- x3, pipe <- x4, itab <- x5, clock <- x6,
        out <- x7, failed <- x8, thidx <- x9, session <- x10

(* All lines of up to four lexemes, words apart from each other, and all   *)
(* of up to five that open a block.                                        *)
Lexemes == {"a", " ", "|", "(", ")", ";", "&", "<", ">"}
Lines == UNION {[1..k -> Lexemes] : k \in 0..4}
         \cup {<<"(">> \o l : l \in [1..4 -> Lexemes \ {" "}]}
Parsed == {Session(<<l>>, {}, NoFiles) :
             l \in {m \in Lines : \A i \in 2..Len(m) : m[i] # "a" \/ m[i - 1] # "a"}}
Parser == INSTANCE Shell WITH NPROC <- 1, NTHREAD <- 1, NOFILE <- 3, NFILE <- 1,
        NInum <- 1, NPipe <- 1, PIPESIZE <- 1, MaxChunk <- 1, MAXFILE <- 1,
        NPages <- 1, DIRSIZ <- 14, MAXARGS <- 2, Sessions <- Parsed,
        th <- x2, proc <- x3, file <- x4, pipe <- x5, itab <- x6, clock <- x7,
        out <- x8, failed <- x9, thidx <- x10, session <- x1

Heap == INSTANCE Umalloc WITH HeapLimit <- 12, MinCore <- 4, Requests <- {2, 3, 5},
          hdr <- x1, freep <- x2, brk <- x3, used <- x4

Up(S, n) == UNION {[1..k -> S] : k \in 0..n}
LibraryCases ==
    {[f |-> "print", x |-> x, base |-> b, sgn |-> s] : x \in -8..7, b \in {10, 16}, s \in BOOLEAN}
    \cup {[f |-> "atoi", x |-> x, end |-> c] : x \in 0..15, c \in {-1, 10}}
    \cup {[f |-> "move", size |-> 5, d |-> d, s |-> s, n |-> n] : d \in 1..3, s \in 1..3, n \in 0..3}
    \cup {[f |-> "name", p |-> p \o <<0>>, q |-> q \o <<0>>, n |-> n] :
            p \in Up({1, 2}, 3), q \in Up({1, 2}, 3), n \in 0..3}
    \cup {[f |-> "match", re |-> re, text |-> t] :
            re \in Up({"a", "b", ".", "*", "^", "$"}, 3), t \in Up({"a", "b"}, 3)}
    \cup {[f |-> "grep", re |-> re, chunks |-> <<c, d>>] :
            re \in {<<"a">>, <<"b", "$">>}, c \in Up({"a", "b", "n"}, 3), d \in Up({"a", "n"}, 2)}
    \cup {[f |-> "args", i |-> i, size |-> n, sz |-> z, esp |-> e, zeros |-> zs] :
            i \in 0..15, n \in {-1, 0, 3, 7}, z \in 0..8, e \in {0, 2, 13}, zs \in {{4}, {1, 7}}}
    \cup {[f |-> "format", fmt |-> fmt, args |-> <<1, 2, 3, 4, 5>>] :
            fmt \in Up({"%", "d", "s", "c", "z"}, 4)}
    \cup {[f |-> "gets", in |-> in, max |-> max] : in \in Up({"a", "n"}, 4), max \in 1..4}
    \cup {[f |-> "clock", bcd |-> b, at |-> n, old |-> <<59, 9, 19>>, new |-> new] :
            b \in BOOLEAN, n \in 0..7, new \in {<<0, 10, 19>>, <<59, 9, 20>>}}
Library == INSTANCE Ulib WITH W <- 4, Cases <- LibraryCases, arg <- x1

----------------------------------------------------------------------------
Init ==
    \/ comp = "queue" /\ Queue!Init /\ Zero8
    \/ comp = "memory" /\ Memory!Init /\ Zero16
    \/ comp = "serial" /\ Serial!Init /\ Zero11
    \/ comp = "keyboard" /\ Keyboard!Init /\ Zero11
    \/ comp = "paging" /\ Paging!Init /\ Zero3
    \/ comp = "start" /\ Start!Init /\ Zero12
    \/ comp = "two cpus" /\ TwoCpus!Init /\ Zero7
    \/ comp = "sleeper" /\ Sleeper!Init /\ Zero7
    \/ comp = "one cpu" /\ OneCpu!Init /\ Zero7
    \/ comp = "log" /\ Log!Init
    \/ comp = "tests" /\ Tests!Init /\ Zero10
    \/ comp = "threads" /\ Threads!Init /\ Zero10
    \/ comp = "shell" /\ Sh!Init /\ Zero11
    \/ comp = "parser" /\ x1 \in Parsed /\ Zero2
    \/ comp = "heap" /\ Heap!Init /\ Zero5
    \/ comp = "library" /\ Library!Init /\ Zero2

QueueStep == comp = "queue" /\ Queue!Next /\ UNCHANGED <<comp, From8>>
MemoryStep == comp = "memory" /\ Memory!Next /\ UNCHANGED <<comp, From16>>
SerialStep == comp = "serial" /\ Serial!Next /\ UNCHANGED <<comp, From11>>
KeyboardStep == comp = "keyboard" /\ Keyboard!Next /\ UNCHANGED <<comp, From11>>
PagingStep == comp = "paging" /\ Paging!Next /\ UNCHANGED <<comp, From3>>
StartStep == comp = "start" /\ Start!Next /\ UNCHANGED <<comp, From12>>
TwoCpusStep == comp = "two cpus" /\ TwoCpus!Next /\ UNCHANGED <<comp, From7>>
SleeperStep == comp = "sleeper" /\ Sleeper!Next /\ UNCHANGED <<comp, From7>>
OneCpuStep == comp = "one cpu" /\ OneCpu!Next /\ UNCHANGED <<comp, From7>>
LogStep == comp = "log" /\ Log!Next /\ UNCHANGED comp
TestStep == comp = "tests" /\ Tests!Next /\ UNCHANGED <<comp, From10>>
ThreadStep == comp = "threads" /\ Threads!Next /\ UNCHANGED <<comp, From10>>
ShellStep == comp = "shell" /\ Sh!SNext /\ UNCHANGED <<comp, From11>>
HeapStep == comp = "heap" /\ Heap!Next /\ UNCHANGED <<comp, From5>>

Next ==
    \/ QueueStep \/ MemoryStep \/ SerialStep \/ KeyboardStep \/ PagingStep
    \/ StartStep \/ TwoCpusStep \/ SleeperStep \/ OneCpuStep \/ LogStep
    \/ TestStep \/ ThreadStep \/ ShellStep \/ HeapStep

Spec == Init /\ [][Next]_vars

----------------------------------------------------------------------------
(* Nobody sleeps through what it waits for: readers of the console         *)
(* (Console), parents and processes in sleep() (Smp), callers that wait    *)
(* for the end of a commit (SyncLog).                                      *)
NoLostWakeup ==
    /\ comp = "serial" => Serial!ReaderWoken
    /\ comp = "keyboard" => Keyboard!ReaderWoken
    /\ comp = "two cpus" => TwoCpus!NoLostWakeup
    /\ comp = "sleeper" => Sleeper!NoLostWakeup
    /\ comp = "one cpu" => OneCpu!NoLostWakeup
    /\ comp = "log" => Log!SleepersAwaited

(* What the kernel keeps count of is what there is: physical pages and the *)
(* pages below sz (Vm, ProcMem), the pages and stacks of processors that   *)
(* start (Boot), modifier keys that are down (Console).                    *)
ResourcesExact ==
    /\ comp = "paging" => Paging!PagesConserved /\ Paging!MappedToSize /\ Paging!ImagesWhole
    /\ comp = "memory" => Memory!MappedExact
    /\ comp = "start" => Start!PagesApart
    /\ comp = "keyboard" => Keyboard!NoStuckModifier

(* The checks of the kernel on itself never fail: locks, interrupts and    *)
(* context switches (Smp), the start of the processors (Boot), the lists   *)
(* of the run queues (ProcQueue), the cursor (Console).                    *)
NoPanic ==
    /\ comp = "two cpus" => TwoCpus!LocksDisciplined /\ TwoCpus!InterruptsRestored
    /\ comp = "sleeper" => Sleeper!LocksDisciplined /\ Sleeper!InterruptsRestored
    /\ comp = "one cpu" => OneCpu!LocksDisciplined /\ OneCpu!InterruptsRestored
    /\ comp = "start" => Start!ComesUp
    /\ comp = "queue" => Queue!NoListPanic
    /\ comp = "serial" => Serial!CursorOnScreen
    /\ comp = "keyboard" => Keyboard!CursorOnScreen

(* The input ring of console.c implements a queue of lines (LineSpec).     *)
ImplementsLines ==
    /\ comp = "serial" => Serial!L!Init
    /\ comp = "keyboard" => Keyboard!L!Init
    /\ [][/\ comp = "serial" => [Serial!L!Next]_(Serial!L!vars)
          /\ comp = "keyboard" => [Keyboard!L!Next]_(Keyboard!L!vars)]_vars

(* The lists of queue.c implement sequences (QueueSpec).                   *)
ImplementsQueues ==
    /\ comp = "queue" => Queue!Q!Init
    /\ [][comp = "queue" => [Queue!Q!Next]_(Queue!Walks)]_vars

(* A commit changes what system calls read only while another call is      *)
(* under way (SyncLog).                                                    *)
CommitKeepsContents ==
    [][comp = "log" =>
         \A p \in {p1, p2} : Log!CommitStep(p) /\ Log!Undisturbed(p) => Log!Vol' = Log!Vol]_vars

(* The tests of the repository pass in every interleaving of their         *)
(* processes and threads (UserTests, ThreadTests).                         *)
TestsPass ==
    /\ comp = "tests" => Tests!TestsPass
    /\ comp = "threads" => Threads!TestsPass

(* No test and no command line hangs.                                      *)
ProgramsEnd ==
    /\ comp = "tests" => Tests!TestsEnd
    /\ comp = "threads" => Threads!TestsEnd
    /\ comp = "shell" => Sh!SessionEnds

(* Command lines do what they say, in every interleaving (Shell).          *)
ShellRuns == comp = "shell" => Sh!ShellRuns

(* The parser of the shell accepts its grammar (Shell), and the library's  *)
(* conversions, moves, comparisons and searches and the kernel's checks of *)
(* system call arguments compute what they are meant to (Ulib).            *)
AlgorithmsExact ==
    /\ comp = "parser" => Parser!ParserExact
    /\ comp = "library" => Library!AlgorithmsExact

(* malloc and free keep the heap apart: no unit has two owners, and the    *)
(* free list is circular, ordered and merged (Umalloc).                    *)
HeapExact == comp = "heap" => Heap!BlocksDisjoint /\ Heap!ListOrdered
=============================================================================
