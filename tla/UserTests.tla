----------------------------- MODULE UserTests -----------------------------
(***************************************************************************)
(* src/project2_LWP/usertests.c, the regression test of the kernel, as     *)
(* programs over the promises of Syscalls.                                 *)
(*                                                                         *)
(* Each test keeps its calls, their order and every result it accepts; its *)
(* loops run a few times instead of hundreds, a data unit stands for the   *)
(* bytes of one write, and a child process interleaves freely with its     *)
(* parent (sleep() between them is no synchronisation, so it is left out). *)
(***************************************************************************)
EXTENDS Syscalls

CONSTANTS Rounds    \* iterations of the tests' loops

F(text) == <<N(text)>>                 \* a path of one element
Numbered(text, i) == << <<text, i>> >>
Times(n, code) == FlattenSeq([i \in 1 .. n |-> code])

iputtest == << Mkdir(F("iputdir"), "ok"), Chdir(F("iputdir"), "ok"),
               Unlink(<<DotDot, N("iputdir")>>, "ok"), Chdir(<<Slash>>, "ok") >>

exitiputtest ==
  << Fork(<< Mkdir(F("iputdir"), "ok"), Chdir(F("iputdir"), "ok"),
             Unlink(<<DotDot, N("iputdir")>>, "ok"), Exit >>, "pid", "ok"),
     Wait("any") >>

openiputtest ==
  << Mkdir(F("oidir"), "ok"),
     Fork(<< Open(F("oidir"), "rw", "fd", "err"), Exit >>, "pid", "ok"),
     Unlink(F("oidir"), "ok"), Wait("any") >>

opentest == << Open(F("echo"), "r", "fd", "ok"), Close("fd"),
               Open(F("doesnotexist"), "r", "fd", "err") >>

writetest ==
  << Open(F("small"), "create", "fd", "ok") >>
  \o Times(Rounds, << Write("fd", <<1>>, "ok"), Write("fd", <<2>>, "ok") >>)
  \o << Close("fd"), Open(F("small"), "r", "fd", "ok"),
        Read("fd", 2 * Rounds, { [i \in 1 .. 2 * Rounds |-> 2 - (i % 2)] }),
        Close("fd"), Unlink(F("small"), "ok") >>

\* The test only rejects a file that is one block short.
writetest1 ==
  << Open(F("big"), "create", "fd", "ok") >>
  \o [i \in 1 .. MAXFILE |-> Write("fd", <<i>>, "ok")]
  \o << Close("fd"), Open(F("big"), "r", "fd", "ok"), Forget,
        Read("fd", 1, {}), Keep, Loop(<< Read("fd", 1, {}), Keep >>),
        KeptIs({ [i \in 1 .. n |-> i] : n \in (0 .. MAXFILE) \ {MAXFILE - 1} }),
        Close("fd"), Unlink(F("big"), "ok") >>

createtest ==
  FlattenSeq([i \in 1 .. Rounds |-> << Open(Numbered("a", i), "create", "fd", "any"),
                                       Close("fd") >>])
  \o [i \in 1 .. Rounds |-> Unlink(Numbered("a", i), "any")]

dirtest == << Mkdir(F("dir0"), "ok"), Chdir(F("dir0"), "ok"), Chdir(<<DotDot>>, "ok"),
              Unlink(F("dir0"), "ok") >>

exectest == << Exec(<< Exit >>), NotReached >>

\* The parent reads in growing pieces until the last writer is gone.
pipe1 ==
  << Pipe("p0", "p1"),
     Fork(<< Close("p0"), Write("p1", <<1, 2, 3>>, "ok"), Write("p1", <<4, 5, 6>>, "ok"),
             Exit >>, "pid", "ok"),
     Close("p1"), Forget, Read("p0", 1, {}), Keep, Read("p0", 2, {}), Keep,
     Loop(<< Read("p0", 4, {}), Keep >>),
     KeptIs({ [i \in 1 .. 6 |-> i] }), Close("p0"), Wait("any") >>

preempt ==
  << Fork(<< Spin >>, "pid1", "any"), Fork(<< Spin >>, "pid2", "any"), Pipe("p0", "p1"),
     Fork(<< Close("p0"), Write("p1", <<1>>, "ok"), Close("p1"), Spin >>, "pid3", "any"),
     Close("p1"), Read("p0", 8, { <<1>> }), Close("p0"),
     Kill("pid1"), Kill("pid2"), Kill("pid3"), Wait("any"), Wait("any"), Wait("any") >>

exitwait == Times(Rounds, << Fork(<< Exit >>, "pid", "ok"), WaitFor("pid") >>)

\* malloc() until there is no memory; what is freed serves the last malloc().
mem == << Fork(<< Set("m", 1), WhilePositive("m", << Sbrk(2, "m", "any") >>), Exit >>,
               "pid", "any"), Wait("any") >>

sharedfd ==
  LET mine(v) == Times(Rounds, << Write("fd", <<v>>, "ok") >>)
      count(s, v) == Cardinality({ i \in DOMAIN s : s[i] = v })
  IN << Unlink(F("sharedfd"), "any"), Open(F("sharedfd"), "create", "fd", "ok"),
        Fork(mine(1) \o << Exit >>, "pid", "any") >>
     \o mine(2)
     \o << Wait("any"), Close("fd"), Open(F("sharedfd"), "r", "fd", "ok"), Forget,
           Read("fd", 1, {}), Keep, Loop(<< Read("fd", 1, {}), Keep >>),
           KeptIs({ s \in [1 .. 2 * Rounds -> {1, 2}] :
                      count(s, 1) = Rounds /\ count(s, 2) = Rounds }),
           Close("fd"), Unlink(F("sharedfd"), "any") >>

fourfiles ==
  LET child(i) == << Open(Numbered("f", i), "create", "fd", "ok") >>
                  \o Times(Rounds, << Write("fd", <<i, i>>, "ok") >>) \o << Exit >>
      verify(i) == << Open(Numbered("f", i), "r", "fd", "any"), Forget,
                      Read("fd", 3, {}), Keep, Loop(<< Read("fd", 3, {}), Keep >>),
                      KeptIs({ [k \in 1 .. 2 * Rounds |-> i] }),
                      Close("fd"), Unlink(Numbered("f", i), "any") >>
  IN FlattenSeq([i \in 1 .. 2 |-> << Unlink(Numbered("f", i), "any"),
                                     Fork(child(i), "pid", "ok") >>])
     \o << Wait("any"), Wait("any") >> \o verify(1) \o verify(2)

\* N = 4: file 1 is created and deleted again, the others stay.
createdelete ==
  LET name(c, i) == Numbered(c, i)
      child(c) == FlattenSeq([k \in 1 .. 4 |->
                    LET i == k - 1
                    IN << Open(name(c, i), "create", "fd", "ok"), Close("fd") >>
                       \o IF i > 0 /\ i % 2 = 0 THEN << Unlink(name(c, i \div 2), "ok") >>
                                                ELSE <<>>]) \o << Exit >>
      verify(c) == FlattenSeq([k \in 1 .. 4 |->
                     << Open(name(c, k - 1), "r", "fd",
                             IF k = 1 \/ k - 1 >= 2 THEN "ok" ELSE "err"),
                        Close("fd") >>])
  IN << Fork(child("p"), "pid", "ok"), Fork(child("q"), "pid", "ok"),
        Wait("any"), Wait("any") >> \o verify("p") \o verify("q")
     \o << Unlink(name("p", 0), "any"), Unlink(name("q", 1), "any") >>

unlinkread ==
  << Open(F("unlinkread"), "create", "fd", "ok"), Write("fd", <<1, 2>>, "any"), Close("fd"),
     Open(F("unlinkread"), "rw", "fd", "ok"), Unlink(F("unlinkread"), "ok"),
     Open(F("unlinkread"), "create", "fd1", "any"), Write("fd1", <<3>>, "any"), Close("fd1"),
     Read("fd", 8, { <<1, 2>> }), Write("fd", <<1, 2>>, "ok"), Close("fd"),
     Unlink(F("unlinkread"), "any") >>

linktest ==
  << Unlink(F("lf1"), "any"), Unlink(F("lf2"), "any"),
     Open(F("lf1"), "create", "fd", "ok"), Write("fd", <<1>>, "ok"), Close("fd"),
     Link(F("lf1"), F("lf2"), "ok"), Unlink(F("lf1"), "any"),
     Open(F("lf1"), "r", "fd", "err"), Open(F("lf2"), "r", "fd", "ok"),
     Read("fd", 8, { <<1>> }), Close("fd"), Link(F("lf2"), F("lf2"), "err"),
     Unlink(F("lf2"), "any"), Link(F("lf2"), F("lf1"), "err"),
     Link(<<Dot>>, F("lf1"), "err") >>

\* Parent and child create or link the same file, then open or unlink it.
concreate ==
  LET C(i) == Numbered("C", i)
      opens(i) == << Open(C(i), "create", "fd", "ok"), Close("fd") >>
      links(i) == << Link(C(0), C(i), "any") >>
      make(i) == << Unlink(C(i), "any"),
                    Fork((IF i % 5 = 1 THEN links(i) ELSE opens(i)) \o << Exit >>,
                         "pid", "any") >>
                 \o (IF i % 3 = 1 THEN links(i) ELSE opens(i)) \o << Wait("any") >>
      reads(i) == Times(2, << Open(C(i), "r", "fd", "any"), Close("fd") >>)
      unlinks(i) == Times(2, << Unlink(C(i), "any") >>)
      drop(i) == << Fork((IF i % 3 = 0 THEN reads(i) ELSE unlinks(i)) \o << Exit >>,
                         "pid", "ok") >>
                 \o (IF i % 3 = 1 THEN reads(i) ELSE unlinks(i)) \o << Wait("any") >>
  IN make(0) \o make(1) \o make(2)
     \o << Names("C", { <<"C", i>> : i \in 0 .. 2 }) >>
     \o drop(0) \o drop(1) \o drop(2)

\* The calls of the two processes come from a random sequence in the test.
linkunlink ==
  LET creates == << Open(F("x"), "create", "fd", "any"), Close("fd") >>
      links == << Link(F("cat"), F("x"), "any") >>
      unlinks == << Unlink(F("x"), "any") >>
  IN unlinks \o << Fork(links \o unlinks \o creates \o << Exit >>, "pid", "ok") >>
     \o creates \o unlinks \o links \o unlinks \o << Wait("any") >>

bigdir ==
  << Unlink(F("bd"), "any"), Open(F("bd"), "creat", "fd", "ok"), Close("fd") >>
  \o [i \in 1 .. Rounds |-> Link(F("bd"), Numbered("x", i), "ok")]
  \o << Unlink(F("bd"), "any") >>
  \o [i \in 1 .. Rounds |-> Unlink(Numbered("x", i), "ok")]

-----------------------------------------------------------------------------
(* Paths: dd and ff are names at several depths *)

dd == N("dd")
ff == N("ff")
ffff == N("ffff")
xx == N("xx")

\* Build dd/ff, dd/dd/ff and a second link to the latter; walk with "..".
subdirbuild ==
  << Unlink(<<ff>>, "any"), Mkdir(<<dd>>, "ok"),
     Open(<<dd, ff>>, "create", "fd", "ok"), Write("fd", <<1, 1>>, "any"), Close("fd"),
     Unlink(<<dd>>, "err"), Mkdir(<<Slash, dd, dd>>, "ok"),
     Open(<<dd, dd, ff>>, "create", "fd", "ok"), Write("fd", <<2, 2>>, "any"), Close("fd"),
     Open(<<dd, dd, DotDot, ff>>, "r", "fd", "ok"), Read("fd", 8, { <<1, 1>> }), Close("fd"),
     Link(<<dd, dd, ff>>, <<dd, dd, ffff>>, "ok"), Unlink(<<dd, dd, ff>>, "ok"),
     Open(<<dd, dd, ff>>, "r", "fd", "err"),
     Chdir(<<dd>>, "ok"), Chdir(<<dd, DotDot, DotDot, dd>>, "ok"),
     Chdir(<<dd, DotDot, DotDot, DotDot, dd>>, "ok"), Chdir(<<Dot, DotDot>>, "ok"),
     Open(<<dd, dd, ffff>>, "r", "fd", "ok"), Read("fd", 8, { <<2, 2>> }), Close("fd") >>

\* Every call that must fail.
subdirrefused ==
  << Open(<<dd, dd, ff>>, "r", "fd", "err"),
     Open(<<dd, ff, ff>>, "create", "fd", "err"), Open(<<dd, xx, ff>>, "create", "fd", "err"),
     Open(<<dd>>, "creat", "fd", "err"), Open(<<dd>>, "rw", "fd", "err"),
     Open(<<dd>>, "w", "fd", "err"),
     Link(<<dd, ff, ff>>, <<dd, dd, xx>>, "err"), Link(<<dd, xx, ff>>, <<dd, dd, xx>>, "err"),
     Link(<<dd, ff>>, <<dd, dd, ffff>>, "err"),
     Mkdir(<<dd, ff, ff>>, "err"), Mkdir(<<dd, xx, ff>>, "err"), Mkdir(<<dd, dd, ffff>>, "err"),
     Unlink(<<dd, xx, ff>>, "err"), Unlink(<<dd, ff, ff>>, "err"),
     Chdir(<<dd, ff>>, "err"), Chdir(<<dd, xx>>, "err") >>

subdir ==
  subdirbuild \o subdirrefused \o
  << Unlink(<<dd, dd, ffff>>, "ok"), Unlink(<<dd, ff>>, "ok"), Unlink(<<dd>>, "err"),
     Unlink(<<dd, dd>>, "ok"), Unlink(<<dd>>, "ok") >>

\* Writes longer than a transaction.
bigwrite ==
  << Unlink(F("bigwrite"), "any") >> \o
  FlattenSeq([n \in 1 .. MaxChunk + 1 |->
    LET d == [i \in 1 .. n |-> i]
    IN << Open(F("bigwrite"), "create", "fd", "ok"), Write("fd", d, "ok"),
          Write("fd", d, "ok"), Close("fd"), Unlink(F("bigwrite"), "any") >>])

\* Written in pieces of two units, read in pieces of one.
bigfile ==
  << Unlink(F("bigfile"), "any"), Open(F("bigfile"), "create", "fd", "ok") >>
  \o [i \in 1 .. Rounds |-> Write("fd", <<i, i>>, "ok")]
  \o << Close("fd"), Open(F("bigfile"), "r", "fd", "ok") >>
  \o [i \in 1 .. 2 * Rounds |-> Read("fd", 1, { <<(i + 1) \div 2>> })]
  \o << Read("fd", 1, { <<>> }), Close("fd"), Unlink(F("bigfile"), "any") >>

fourteen ==
  LET short == <<"digits", 14>>
      long == <<"digits", 15>>
  IN << Mkdir(<<short>>, "ok"), Mkdir(<<short, long>>, "ok"),
        Open(<<long, long, long>>, "creat", "fd", "ok"), Close("fd"),
        Open(<<short, short, short>>, "r", "fd", "ok"), Close("fd"),
        Mkdir(<<short, short>>, "err"), Mkdir(<<long, short>>, "err") >>

rmdot ==
  << Mkdir(F("dots"), "ok"), Chdir(F("dots"), "ok"), Unlink(<<Dot>>, "err"),
     Unlink(<<DotDot>>, "err"), Chdir(<<Slash>>, "ok"), Unlink(<<N("dots"), Dot>>, "err"),
     Unlink(<<N("dots"), DotDot>>, "err"), Unlink(F("dots"), "ok") >>

dirfile ==
  LET inside == <<N("dirfile"), xx>>
  IN << Open(F("dirfile"), "creat", "fd", "ok"), Close("fd"), Chdir(F("dirfile"), "err"),
        Open(inside, "r", "fd", "err"), Open(inside, "creat", "fd", "err"),
        Mkdir(inside, "err"), Unlink(inside, "err"), Link(F("README"), inside, "err"),
        Unlink(F("dirfile"), "ok"), Open(<<Dot>>, "rw", "fd", "err"),
        Open(<<Dot>>, "r", "fd", "any"), Write("fd", <<1>>, "err"), Close("fd") >>

\* Empty names, in ever deeper directories.
iref ==
  Times(Rounds, << Mkdir(F("irefd"), "ok"), Chdir(F("irefd"), "ok"), Mkdir(<<>>, "any"),
                   Link(F("README"), <<>>, "any"), Open(<<>>, "creat", "fd", "any"),
                   Close("fd"), Open(<<xx>>, "creat", "fd", "any"), Close("fd"),
                   Unlink(<<xx>>, "any") >>)
  \o << Chdir(<<Slash>>, "any") >>

-----------------------------------------------------------------------------
(* Processes and memory *)

\* fork() until it fails, then wait() for exactly as many children.
forktest ==
  << Set("n", 0), Set("pid", 1),
     WhilePositive("pid", << Fork(<< Exit >>, "pid", "any"), Add("n", 1) >>), Add("n", -1),
     WhilePositive("n", << Wait("ok"), Add("n", -1) >>), Wait("err") >>

\* Page by page, then big, then back; the page given back comes back empty.
sbrkgrow ==
  << Sbrk(0, "oldbrk", "ok"), Sbrk(1, "b", "ok"), Poke("b", 1),
     Fork(<< Sbrk(1, "c", "ok"), Exit >>, "pid", "ok"), Sbrk(1, "c", "ok"), Is("c", {2}),
     Wait("any"), Sbrk(2, "p", "ok"), Is("p", {3}), Set("lastaddr", 4), Poke("lastaddr", 9),
     Sbrk(0, "a", "any"), Sbrk(-1, "c", "ok"), Sbrk(0, "c", "any"), Is("c", {4}),
     Sbrk(1, "c", "ok"), Is("c", {4}), Peek("lastaddr", 0),
     Sbrk(-4, "c", "ok"), Is("c", {5}) >>

\* Children that hold all memory until they are killed.
sbrkfail ==
  << Fork(<< Fault, NotReached, Exit >>, "pid", "ok"), Wait("any"), Pipe("p0", "p1"),
     Fork(<< Sbrk(4, "c", "any"), Write("p1", <<1>>, "any"), Spin >>, "pid1", "any"),
     Read("p0", 1, {}),
     Fork(<< Sbrk(4, "c", "any"), Write("p1", <<1>>, "any"), Spin >>, "pid2", "any"),
     Read("p0", 1, {}), Sbrk(1, "c", "ok"), Kill("pid1"), Wait("any"), Kill("pid2"),
     Wait("any"), Sbrk(-1, "c", "any") >>

sbrktest == sbrkgrow \o sbrkfail

validatetest ==
  Times(Rounds, << Fork(<< Exit >>, "pid", "any"), Kill("pid"), Wait("any"),
                   Link(F("nosuchfile"), <<>>, "err") >>)

bigargtest ==
  << Unlink(F("bigarg-ok"), "any"),
     Fork(<< ExecFails, Open(F("bigarg-ok"), "creat", "fd", "any"), Close("fd"), Exit >>,
          "pid", "ok"),
     Wait("any"), Open(F("bigarg-ok"), "r", "fd", "ok"), Close("fd"),
     Unlink(F("bigarg-ok"), "any") >>

uio == << Fork(<< Fault, NotReached, Exit >>, "pid", "ok"), Wait("any") >>

argptest == << Open(F("init"), "r", "fd", "ok"), Close("fd") >>

\* main(): the mark that the tests ran, then the tests; here one of them.
main(test) ==
  << Open(F("usertests.ran"), "r", "fd", "err"),
     Open(F("usertests.ran"), "creat", "fd", "any"), Close("fd") >> \o test \o << Exit >>

SequentialTests ==
  { iputtest, opentest, writetest, writetest1, createtest, dirtest, exectest, unlinkread,
    linktest, bigdir, subdir, bigwrite, bigfile, fourteen, rmdot, dirfile, iref, argptest }
ConcurrentTests ==
  { exitiputtest, openiputtest, pipe1, preempt, exitwait, mem, sharedfd, fourfiles,
    createdelete, concreate, linkunlink, forktest, sbrktest, validatetest, bigargtest, uio }

Init == \E test \in SequentialTests \cup ConcurrentTests :
          Boot(main(test), <<"echo", "cat", "README", "init">>, FALSE)
Spec == Init /\ [][Next]_vars

-----------------------------------------------------------------------------
(* Properties *)

\* In every interleaving of the processes a test starts, every call returns
\* what the test accepts: the tests of usertests.c do not depend on timing.
TestsPass == ~failed

\* No test hangs: until its processes have ended, some thread can go on or
\* sleeps until a tick.
TestsEnd == ~Stuck
=============================================================================
