---------------------------- MODULE ThreadTests ----------------------------
(***************************************************************************)
(* The thread tests of src/project2_LWP (thread_test.c, thread_test2.c,    *)
(* thread_exec.c, thread_exit.c, thread_kill.c, gpttest.c) and the process *)
(* manager (pmanager.c) as programs over Syscalls.                         *)
(*                                                                         *)
(* Two threads stand for the 5 to 32 of the tests, sleep(100) is one tick  *)
(* and a computation takes none: these tests do rely on it. A local        *)
(* variable of a thread is a variable of the process with the thread's     *)
(* number in its name. The third test of thread_test.c allocates with      *)
(* malloc() in all threads at once, which umalloc.c does not allow: only   *)
(* its hand-over of ptr is kept.                                           *)
(***************************************************************************)
EXTENDS Syscalls

CONSTANTS StressRounds,  \* rounds of stresstest
          Racing         \* run the tests in which threads race in exit, exec or sbrk?

Id(i) == IF i = 0 THEN "t0" ELSE "t1"
Pid(i) == IF i = 0 THEN "pid0" ELSE "pid1"

\* create_all() and join_all(), for the programs and the results given.
create_all(a, b) == << Create(a, Id(0)), Create(b, Id(1)) >>
join_all(r, s) == << Join(Id(0), r), Join(Id(1), s) >>

-----------------------------------------------------------------------------
(* thread_test.c *)

thread_basic(i) == (IF i = 1 THEN << Sleep(2), Set("status", 1) >> ELSE <<>>)
                   \o << ThreadExit(i) >>

thread_fork(i) ==
  << Fork(<< Set("status", 3), Exit >>, Pid(i), "ok"),
     Set("status", 2), Wait("ok"), ThreadExit(i) >>

thread_sbrk(i) ==
  (IF i = 0 THEN << Set("ptr", 1), Sleep(1), Set("ptr", 0) >> ELSE << Until("ptr", 1) >>)
  \o << Until("ptr", 0), ThreadExit(i) >>

thread_test ==
  << Set("status", 0), Set("ptr", 0) >>
  \o create_all(thread_basic(0), thread_basic(1)) \o << Sleep(1) >> \o join_all(0, 1)
  \o << Is("status", {1}) >>
  \o create_all(thread_fork(0), thread_fork(1)) \o join_all(0, 1)
  \o << Is("status", {2}) >>
  \o create_all(thread_sbrk(0), thread_sbrk(1)) \o join_all(0, 1) \o << Exit >>

-----------------------------------------------------------------------------
(* thread_exec.c, thread_exit.c, thread_kill.c, gpttest.c *)

thread_exec ==
  create_all(<< Sleep(1), Exec(<< Exit >>), NotReached >>, << Sleep(2), NotReached >>)
  \o << Sleep(2), NotReached >>

thread_exit_test ==
  create_all(<< Sleep(1), Exit >>, << Sleep(2), NotReached >>) \o << Sleep(2), NotReached >>

thread_kill ==
  LET thread1 == << Sleep(2), NotReached >>
      thread2(kills) == << Sleep(1) >> \o kills \o << ThreadExit(0) >>
  IN << Fork(create_all(thread1, thread1) \o << Sleep(3), NotReached >>, "pid", "ok") >>
     \o create_all(thread2(<< Kill("pid") >>), thread2(<<>>)) \o join_all(0, 0)
     \o << Wait("ok"), Wait("err"), Exit >>

gpttest ==
  LET thread_func(i) == << Add("c", -1), Sleep(1), ThreadExit(i * 10) >>
  IN << Set("c", 10) >> \o create_all(thread_func(0), thread_func(1)) \o join_all(0, 10)
     \o << Exit >>

-----------------------------------------------------------------------------
(* thread_test2.c *)

racingtest ==
  LET racingthreadmain(i) == << Add("gcnt", 1), Add("gcnt", 1), ThreadExit(i + 1) >>
  IN << Set("gcnt", 0) >> \o create_all(racingthreadmain(0), racingthreadmain(1))
     \o join_all(1, 2)

basictest == create_all(<< ThreadExit(1) >>, << ThreadExit(2) >>) \o join_all(1, 2)

jointhreads == create_all(<< Sleep(1), ThreadExit(2) >>, << Sleep(1), ThreadExit(4) >>)
jointest1 == jointhreads \o join_all(2, 4)
jointest2 == jointhreads \o << Sleep(3) >> \o join_all(2, 4)

stresstest ==
  FlattenSeq([n \in 1 .. StressRounds |->
    create_all(<< ThreadExit(0) >>, << ThreadExit(0) >>) \o join_all(0, 0)])

exittest1 == create_all(<< Spin >>, << Spin >>) \o << Sleep(1) >>
exittest2 == create_all(<< Exit >>, << Exit >>) \o << Spin >>

forktest ==
  LET forkthreadmain(i) == << Fork(<< Exit >>, Pid(i), "ok"), Wait("ok"), ThreadExit(0) >>
  IN create_all(forkthreadmain(0), forkthreadmain(1)) \o join_all(0, 0)

exectest ==
  LET execthreadmain == << Sleep(1), Exec(<< Exit >>), NotReached >>
  IN create_all(execthreadmain, execthreadmain) \o join_all(0, 0) \o << NotReached >>

sbrktest ==
  LET brk(i) == IF i = 0 THEN "brk0" ELSE "brk1"
      sbrkthreadmain(i) == << Sbrk(1, brk(i), "any"), Poke(brk(i), i + 1), Sleep(1),
                              Peek(brk(i), i + 1), ThreadExit(0) >>
  IN create_all(sbrkthreadmain(0), sbrkthreadmain(1)) \o join_all(0, 0)

killtest ==
  create_all(<< Kill("self"), Spin >>, << Kill("self"), Spin >>) \o join_all(0, 0)
  \o << Spin >>

sleeptest ==
  create_all(<< Sleep(9), ThreadExit(0) >>, << Sleep(9), ThreadExit(0) >>) \o << Sleep(1) >>

\* Two threads of the child write -1 and 1, two of the parent add what they read.
pipetest ==
  LET writer == << Write("fd1", <<-1>>, "any"), Write("fd1", <<1>>, "any"), ThreadExit(0) >>
      reader == << Read("fd0", 1, {}), AddRead("gcnt"), Read("fd0", 1, {}),
                   AddRead("gcnt"), ThreadExit(0) >>
  IN << Pipe("fd0", "fd1"),
        Fork(<< Close("fd0") >> \o create_all(writer, writer) \o join_all(0, 0)
             \o << Close("fd1"), Exit >>, "pid", "ok"),
        Close("fd1"), Set("gcnt", 0) >>
     \o create_all(reader, reader) \o join_all(0, 0)
     \o << Close("fd0"), Wait("ok"), Is("gcnt", {0}) >>

\* main(): a child runs the test and reports through a pipe; a test that ends
\* the process reports nothing.
main2(test) ==
  << Pipe("g0", "g1"),
     Fork(<< Close("g0") >> \o test \o << Write("g1", <<0>>, "any"), Close("g1"), Exit >>,
          "child", "ok"),
     Close("g1"), Wait("ok"), Read("g0", 1, { <<>>, <<0>> }), Close("g0"), Sleep(1), Exit >>

-----------------------------------------------------------------------------
(* pmanager.c *)

\* A line is a command and its arguments.  The program to execute is a
\* grandchild, so that nobody waits for it here; list only prints.
pmline(line) ==
  CASE line[1] = "kill" -> << Set("pid", line[2]), Kill("pid") >>
    [] line[1] = "execute" ->
         << Fork(<< Fork(<< Exec(line[2]), Exit >>, "pid", "any"), Exit >>, "pid", "any"),
            Wait("any") >>
    [] line[1] = "memlim" -> << MemLim(line[2], line[3], line[4]) >>
    [] line[1] = "exit" -> << Exit >>
    [] OTHER -> <<>>
pmanager(lines) == FlattenSeq([i \in DOMAIN lines |-> pmline(lines[i])])

\* The grandchild has number 3.  A limit binds it after it was set; a limit below
\* the size, also 0 for none, is refused; kill ends a program that never would.
Grows == << Sleep(1), Sbrk(1, "b", "any"), Sbrk(2, "b", "any"), Sbrk(0, "b", "any"),
            Is("b", {2}), Sbrk(-1, "b", "any"), Exit >>
pmsessions ==
  { << <<"execute", Grows>>, <<"memlim", 3, 2, "ok">>, <<"list">>, <<"exit">> >>,
    << <<"execute", Grows>>, <<"memlim", 3, 0, "err">>, <<"memlim", 3, -1, "err">>,
       <<"memlim", 3, 2, "any">>, <<"nosuch">>, <<"exit">> >>,
    << <<"execute", << Spin >> >>, <<"kill", 4>>, <<"kill", 3>>, <<"exit">> >> }

ThreadPrograms ==
  { thread_test, thread_exec, thread_exit_test, gpttest }
  \cup { main2(test) : test \in
         { racingtest, basictest, jointest1, jointest2, exittest1,
           sleeptest, forktest, pipetest, stresstest } }
  \cup { pmanager(lines) : lines \in pmsessions }

\* Tests that send two threads of one process into exit(), exec() or sbrk() at
\* once, which the kernel does not withstand (TestsPass is violated with them).
RacingPrograms ==
  { thread_kill } \cup { main2(test) : test \in { exittest2, exectest, sbrktest, killtest } }

Init == \E program \in IF Racing THEN RacingPrograms ELSE ThreadPrograms :
          Boot(program, <<>>, FALSE)
Spec == Init /\ [][Next]_vars

-----------------------------------------------------------------------------
(* Properties *)

\* In every interleaving of the threads, every call returns what the program
\* accepts: no thread's result, memory, file or pipe is confused with another's,
\* and no two threads close the same files or grow the same memory (unless the
\* tests are the RacingPrograms).
TestsPass == ~failed

\* No program hangs, also when a thread exits or execs while others wait for it.
TestsEnd == ~Stuck
=============================================================================
