------------------------------- MODULE Shell -------------------------------
(***************************************************************************)
(* The shell, sh.c of src/project1_scheduler, and the small programs it    *)
(* starts (cat, echo, ln, mkdir, rm, wc, zombie, stressfs).                *)
(*                                                                         *)
(* A command line is a sequence of lexemes: a word is one of them, and so  *)
(* is a blank or a symbol character. The parser turns it into a tree,      *)
(* runcmd turns the tree into the calls the child process makes.           *)
(*                                                                         *)
(* printf() writes a message with one call here; the messages of the shell *)
(* are the words "failed" and "panic". The descriptors 0 to 2 are open on  *)
(* the console, as init leaves them.                                       *)
(***************************************************************************)
EXTENDS Syscalls

CONSTANTS MAXARGS,    \* argv entries of a command, the terminating 0 included
          Sessions    \* records: lines, and what the console and files then hold

VARIABLE session      \* the session under way

svars == <<vars, session>>

-----------------------------------------------------------------------------
(* Lexemes *)

Blank == " "
Symbols == {"<", "|", ">", "&", ";", "(", ")"}
Redirects == {"<", ">", ">>"}

\* gettoken(), over the whole line: blanks separate, two > in a row are one
\* token.
RECURSIVE Tokens(_)
Tokens(s) ==
  IF s = <<>> THEN <<>>
  ELSE IF s[1] = Blank THEN Tokens(Tail(s))
  ELSE IF Len(s) >= 2 /\ s[1] = ">" /\ s[2] = ">" THEN <<">>">> \o Tokens(SubSeq(s, 3, Len(s)))
  ELSE <<s[1]>> \o Tokens(Tail(s))

IsWord(tok) == tok \notin Symbols \cup Redirects

\* peek()
Peek1(r, toks) == r.rest # <<>> /\ r.rest[1] \in toks
Skip(r) == [r EXCEPT !.rest = Tail(@)]

-----------------------------------------------------------------------------
(* The parser: a result is a tree and the tokens left; panic() ends it     *)

Panicked == [ok |-> FALSE, cmd |-> <<"NONE">>, rest |-> <<>>]
Syntax == <<"NONE">>

execcmd == <<"EXEC", <<>>>>
pipecmd(left, right) == <<"PIPE", left, right>>
listcmd(left, right) == <<"LIST", left, right>>
backcmd(sub) == <<"BACK", sub>>

\* redircmd(): > and >> both open for writing and create, neither truncates
\* nor appends.
redircmd(cmd, tok, f) ==
  IF tok = "<" THEN <<"REDIR", cmd, f, "r", "0">> ELSE <<"REDIR", cmd, f, "wcreate", "1">>

\* The redirections at the head of the tokens.
RECURSIVE parseredirs(_)
parseredirs(r) ==
  IF ~Peek1(r, Redirects) THEN r
  ELSE IF Len(r.rest) < 2 THEN Panicked
  ELSE IF ~IsWord(r.rest[2]) THEN Panicked
  ELSE parseredirs([r EXCEPT !.cmd = redircmd(@, r.rest[1], r.rest[2]),
                             !.rest = SubSeq(@, 3, Len(@))])

\* The words of a command.  The redirections are wrapped round the execcmd
\* whose argv still grows.
RECURSIVE WithWord(_, _)
WithWord(cmd, word) ==
  IF cmd[1] = "EXEC" THEN <<"EXEC", Append(cmd[2], word)>>
  ELSE [cmd EXCEPT ![2] = WithWord(@, word)]

RECURSIVE Argc(_)
Argc(cmd) == IF cmd[1] = "EXEC" THEN Len(cmd[2]) ELSE Argc(cmd[2])

RECURSIVE parseargs(_)
parseargs(r) ==
  IF ~r.ok THEN r
  ELSE IF r.rest = <<>> \/ Peek1(r, {"|", ")", "&", ";"}) THEN r
  ELSE IF ~IsWord(r.rest[1]) \/ Argc(r.cmd) + 1 >= MAXARGS THEN Panicked
  ELSE parseargs(parseredirs([r EXCEPT !.cmd = WithWord(@, r.rest[1]), !.rest = Tail(@)]))

RECURSIVE parseline(_)
RECURSIVE parsepipe(_)

parseblock(r) ==
  LET body == parseline(Skip(r))
  IN IF Peek1(body, {")"}) THEN parseredirs(Skip(body)) ELSE Panicked

parseexec(r) ==
  IF Peek1(r, {"("}) THEN parseblock(r)
  ELSE parseargs(parseredirs([r EXCEPT !.cmd = execcmd]))

parsepipe(r) ==
  LET left == parseexec(r)
  IN IF Peek1(left, {"|"})
     THEN [parsepipe(Skip(left)) EXCEPT !.cmd = pipecmd(left.cmd, @)]
     ELSE left

RECURSIVE Backs(_)
Backs(r) == IF Peek1(r, {"&"}) THEN Backs([Skip(r) EXCEPT !.cmd = backcmd(@)]) ELSE r

parseline(r) ==
  LET left == Backs(parsepipe(r))
  IN IF Peek1(left, {";"})
     THEN [parseline(Skip(left)) EXCEPT !.cmd = listcmd(left.cmd, @)]
     ELSE left

\* parsecmd(): what is left over is a syntax error, too.
parsecmd(line) ==
  LET r == parseline([ok |-> TRUE, cmd |-> Syntax, rest |-> Tokens(line)])
  IN IF r.ok /\ r.rest = <<>> THEN r.cmd ELSE Syntax

-----------------------------------------------------------------------------
(* Programs *)

Path(word) == <<N(word)>>
Message(fd, text) == Write(fd, <<text>>, "any")

cat(fd) == << Read(fd, 2, {}), Copy("1"), Loop(<< Read(fd, 2, {}), Copy("1") >>) >>

OpenArg(word) == << Open(Path(word), "r", "fd", "any"),
                    IfNegative("fd", << Message("1", "failed"), Exit >>) >>

catmain(args) ==
  (IF args = <<>> THEN cat("0")
   ELSE FlattenSeq([i \in DOMAIN args |-> OpenArg(args[i]) \o cat("fd") \o << Close("fd") >>]))
  \o << Exit >>

echo(args) == [i \in DOMAIN args |-> Write("1", <<args[i]>>, "any")] \o << Exit >>

wc(args) ==
  LET count(fd) == << Forget, Read(fd, 2, {}), Keep, Loop(<< Read(fd, 2, {}), Keep >>),
                      Count("1") >>
  IN (IF args = <<>> THEN count("0")
      ELSE FlattenSeq([i \in DOMAIN args |->
             OpenArg(args[i]) \o count("fd") \o << Close("fd") >>]))
     \o << Exit >>

\* These stop at the first failure, with a message.
ln(args) == << Link(Path(args[1]), Path(args[2]), "report"), Exit >>
mkdirmain(args) == [i \in DOMAIN args |-> Mkdir(Path(args[i]), "report")] \o << Exit >>
rm(args) == [i \in DOMAIN args |-> Unlink(Path(args[i]), "report")] \o << Exit >>

zombie == << Fork(<< Exit >>, "pid", "any"), Sleep(2), Exit >>

\* Two levels of processes, each with a file of its own.
stressfs ==
  LET work(f) == << Open(Path(f), "create", "fd", "ok"), Write("fd", <<"a">>, "ok"),
                    Write("fd", <<"a">>, "ok"), Close("fd"),
                    Open(Path(f), "r", "fd", "ok"), Read("fd", 1, { <<"a">> }),
                    Read("fd", 1, { <<"a">> }), Close("fd"), Wait("any"), Exit >>
  IN << Fork(work("stressfs1"), "pid", "ok") >> \o work("stressfs0")

Programs == {"cat", "echo", "wc", "ln", "mkdir", "rm", "zombie", "stressfs"}
Program(argv) ==
  CASE argv[1] = "cat" -> catmain(Tail(argv))
    [] argv[1] = "echo" -> echo(Tail(argv))
    [] argv[1] = "wc" -> wc(Tail(argv))
    [] argv[1] = "ln" -> ln(Tail(argv))
    [] argv[1] = "mkdir" -> mkdirmain(Tail(argv))
    [] argv[1] = "rm" -> rm(Tail(argv))
    [] argv[1] = "zombie" -> zombie
    [] argv[1] = "stressfs" -> stressfs

-----------------------------------------------------------------------------
(* Running a command *)

panic == << Message("2", "panic"), Exit >>
fork1(child) == << Fork(child, "pid", "any"), IfNegative("pid", panic) >>

\* The parent's part of a pipe: it keeps neither end.
PipeParent_KeepsWriter == << Close("p0"), Wait("any"), Wait("any"), Exit >>
PipeParent == << Close("p0"), Close("p1"), Wait("any"), Wait("any"), Exit >>

\* The two children put one end in the place of descriptor 1 or 0.
PipeChild_NoClose(fd, end) == << Dup(end), Close("p0"), Close("p1") >>
PipeChild(fd, end) == << Close(fd), Dup(end), Close("p0"), Close("p1") >>

RECURSIVE runcmd(_)
runcmd(cmd) ==
  CASE cmd = Syntax -> panic
    [] cmd[1] = "EXEC" ->
         IF cmd[2] = <<>> THEN << Exit >>
         ELSE IF cmd[2][1] \in Programs THEN << Exec(Program(cmd[2])) >>
         ELSE << ExecFails, Message("2", "failed"), Exit >>
    [] cmd[1] = "REDIR" ->
         << Close(cmd[5]), Open(Path(cmd[3]), cmd[4], "fd", "any"),
            IfNegative("fd", << Message("2", "failed"), Exit >>) >> \o runcmd(cmd[2])
    [] cmd[1] = "LIST" -> fork1(runcmd(cmd[2])) \o << Wait("any") >> \o runcmd(cmd[3])
    [] cmd[1] = "PIPE" ->
         << Pipe("p0", "p1") >> \o fork1(PipeChild("1", "p1") \o runcmd(cmd[2]))
         \o fork1(PipeChild("0", "p0") \o runcmd(cmd[3])) \o PipeParent
    [] cmd[1] = "BACK" -> fork1(runcmd(cmd[2])) \o << Exit >>

\* main(): cd is done by the shell itself (the message of one that fails is left
\* out).
RunLine(line) ==
  IF Len(line) = 3 /\ line[1] = "cd" /\ line[2] = Blank
  THEN << Chdir(IF line[3] = ".." THEN <<DotDot>> ELSE Path(line[3]), "any") >>
  ELSE fork1(runcmd(parsecmd(line))) \o << Wait("any") >>

main(lines) == FlattenSeq([i \in DOMAIN lines |-> RunLine(lines[i])]) \o << Exit >>

Init == /\ session \in Sessions
        /\ Boot(main(session.lines), <<>>, TRUE)
SNext == Next /\ UNCHANGED session
Spec == Init /\ [][SNext]_svars

-----------------------------------------------------------------------------
(* Properties *)

Content(name) == LET i == dirlookup(Root, N(name)) IN IF i = 0 THEN <<>> ELSE itab[i].data

\* However the processes of a session interleave, when all of them are gone the
\* console and the files hold what the lines say: the commands of a list run
\* in order, a pipe carries all of its left side to its right side, a
\* redirection reaches its file (of several the first, the others are only
\* created), and > overwrites without truncating.
ShellRuns ==
  Finished => /\ out \in session.out
              /\ \A f \in DOMAIN session.files : Content(f) = session.files[f]

\* No session hangs.  A pipe end left open anywhere would keep a reader waiting
\* for ever.
SessionEnds == ~Stuck

-----------------------------------------------------------------------------
(* The grammar the parser is meant for, without reference to how it parses *)

RECURSIVE IsLine(_)
RECURSIVE IsPipe(_)
RECURSIVE IsSimple(_, _)

Cut(s, k) == << SubSeq(s, 1, k), SubSeq(s, k + 1, Len(s)) >>
IsRedirs(s) ==
  /\ Len(s) % 2 = 0
  /\ \A k \in DOMAIN s : IF k % 2 = 1 THEN s[k] \in Redirects ELSE IsWord(s[k])

\* Words and redirections in any order, fewer than MAXARGS words.
IsSimple(s, args) ==
  \/ s = <<>> /\ args < MAXARGS
  \/ s # <<>> /\ IsWord(s[1]) /\ IsSimple(Tail(s), args + 1)
  \/ Len(s) >= 2 /\ s[1] \in Redirects /\ IsWord(s[2]) /\ IsSimple(SubSeq(s, 3, Len(s)), args)

IsCommand(s) ==
  \/ IsSimple(s, 0)
  \/ \E k \in DOMAIN s : /\ k >= 2 /\ s[1] = "(" /\ s[k] = ")"
                         /\ IsLine(SubSeq(s, 2, k - 1))
                         /\ IsRedirs(SubSeq(s, k + 1, Len(s)))

IsPipe(s) ==
  \/ IsCommand(s)
  \/ \E k \in DOMAIN s : s[k] = "|" /\ IsCommand(SubSeq(s, 1, k - 1))
                         /\ IsPipe(SubSeq(s, k + 1, Len(s)))

IsLine(s) ==
  \/ IsPipe(s)
  \/ s # <<>> /\ Last(s) = "&" /\ \E k \in 0 .. Len(s) - 1 :
       IsPipe(Cut(s, k)[1]) /\ \A j \in k + 1 .. Len(s) : s[j] = "&"
  \/ \E k \in DOMAIN s : s[k] = ";" /\ IsLine(SubSeq(s, k + 1, Len(s)))
                         /\ IsLine(SubSeq(s, 1, k - 1))

\* The parser accepts exactly the command lines of the grammar, for a line
\* of a session as well as for any other.
ParserExact == \A k \in DOMAIN session.lines :
  (parsecmd(session.lines[k]) = Syntax) <=> ~IsLine(Tokens(session.lines[k]))
=============================================================================
