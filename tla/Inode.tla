------------------------------- MODULE Inode --------------------------------
(***************************************************************************)
(* Inodes, directories and links of src/project3_filesystem: the inode     *)
(* cache and path lookup of fs.c and the calls of sysfile.c that name      *)
(* files.  File contents are module Bmap's, the log SyncLog's: here one    *)
(* action is what a process does between two points where it may wait, an  *)
(* inode's sleep lock or icache.lock.                                      *)
(***************************************************************************)
EXTENDS Integers, Sequences, FiniteSets, Functions

CONSTANTS
    Procs,      \* processes inside or outside file system calls
    NInum,      \* inodes on disk, 1 is the root
    NINODE,     \* entries of icache
    NOFILE,     \* open files of a process
    Names,      \* path elements other than "." and ".."
    CallArgs,   \* the calls of this instance: [op, path, new] records
    SYMDEPTH,   \* links followed by one readi
    MaxRef      \* references a leaking call may add up to

Inum == 1..NInum
Entry == 1..NINODE
Fd == 1..NOFILE
Root == 1
None == 0
DirNames == Names \cup {".", ".."}
Types == {"free", "dir", "file", "dev", "sym"}

VARIABLES
    dino,       \* struct dinode, as the buffer cache holds it
    dents,      \* the entries of each directory: 0 is a free one
    target,     \* the path a symbolic link keeps in addrs
    icache,     \* struct inode: inum, ref, valid and the copies it caches
    locked,     \* the process that holds the sleep lock of an entry
    ofile, cwd, \* struct proc
    pr,         \* the call a process is in: where it is and its variables
    panic

disk == <<dino, dents, target>>
ivars == <<disk, icache, locked, ofile, cwd, pr, panic>>

NoDents == [n \in DirNames |-> None]
NoCall == [op |-> "none", path |-> <<>>, new |-> <<>>]

(* A process in user code.  pc is the next step of its call; a lookup goes *)
(* on at stage with rest of the path to walk, the iputs of puts at ret.    *)
Idle == [pc |-> "user", call |-> NoCall, stage |-> "user", rest |-> <<>>,
         ip |-> None, other |-> None, puts |-> <<>>, ret |-> "user", depth |-> 0]

(* An entry that is not read yet.                                          *)
Referenced(i, n) == [inum |-> i, ref |-> n, valid |-> FALSE, type |-> "free", nlink |-> 0]

(* After mkfs and userinit: an empty root, the current directory of all.   *)
Init ==
    /\ dino = [i \in Inum |-> IF i = Root THEN [type |-> "dir", nlink |-> 1]
                              ELSE [type |-> "free", nlink |-> 0]]
    /\ dents = [i \in Inum |-> IF i = Root
                  THEN [NoDents EXCEPT !["."] = Root, ![".."] = Root]
                  ELSE NoDents]
    /\ target = [i \in Inum |-> <<>>]
    /\ icache = [e \in Entry |-> IF e = 1 THEN Referenced(Root, Cardinality(Procs))
                                ELSE Referenced(None, 0)]
    /\ locked = [e \in Entry |-> None]
    /\ ofile = [p \in Procs |-> [f \in Fd |-> None]]
    /\ cwd = [p \in Procs |-> 1]
    /\ pr = [p \in Procs |-> Idle]
    /\ panic = "none"

----------------------------------------------------------------------------
(* The inode cache.                                                        *)

Cached(c, i) == {e \in Entry : c[e].ref > 0 /\ c[e].inum = i}
Empty(c) == {e \in Entry : c[e].ref = 0}
Lowest(S) == CHOOSE x \in S : \A y \in S : x <= y

(* The entry that iget returns: the cached one, else the first empty one.  *)
IgetEntry(c, i) == IF Cached(c, i) # {} THEN Lowest(Cached(c, i)) ELSE Lowest(Empty(c))
IgetPanics(c, i) == Cached(c, i) = {} /\ Empty(c) = {}

iget(c, i) ==
    IF Cached(c, i) # {} THEN [c EXCEPT ![IgetEntry(c, i)].ref = @ + 1]
    ELSE [c EXCEPT ![IgetEntry(c, i)] = Referenced(i, 1)]

idup(c, e) == [c EXCEPT ![e].ref = @ + 1]

(* What ilock makes of an entry: the inode is read unless it is valid.     *)
ilock(c, e) ==
    IF c[e].valid THEN c
    ELSE [c EXCEPT ![e].valid = TRUE, ![e].type = dino[c[e].inum].type,
                   ![e].nlink = dino[c[e].inum].nlink]

NoType(c, e) == ilock(c, e)[e].type = "free"

(* A field is set in the entry and iupdate copies the entry to disk.       *)
SetLinks(c, e, n) == [c EXCEPT ![e].nlink = n]
iupdate(d, c, e) == [d EXCEPT ![c[e].inum] = [type |-> c[e].type, nlink |-> c[e].nlink]]

Free(e) == locked[e] = None

(* acquiresleep then the load; a freed inode stops the machine.            *)
CanLock(e) == Free(e) /\ ~NoType(icache, e)

Panics(why) == panic' = why /\ UNCHANGED <<disk, icache, locked, ofile, cwd, pr>>

dirlookup(e, n) == dents[icache[e].inum][n]

----------------------------------------------------------------------------
(* The steps of a process.                                                 *)

At(p, l) == pr[p].pc = l
Becomes(p, r) == pr' = [pr EXCEPT ![p] = r]

(* The iputs of es are done one by one, then r goes on at l; the last ones *)
(* of a call leave nothing else to remember.                               *)
PutThen(r, es, l) == [r EXCEPT !.puts = es, !.pc = "iput", !.ret = l]
Leave(es) == PutThen(Idle, es, "user")

LastReference_IgnoresRefs(e) == icache[e].valid /\ icache[e].nlink = 0

(* No links and no other references: the test of iput.                     *)
LastReference(e) == icache[e].valid /\ icache[e].nlink = 0 /\ icache[e].ref = 1

iput(p) ==
    LET e == Head(pr[p].puts) IN
    /\ At(p, "iput") /\ Free(e)
    /\ IF LastReference(e)
       THEN Becomes(p, [pr[p] EXCEPT !.pc = "ifree"]) /\ locked' = [locked EXCEPT ![e] = p]
       ELSE Becomes(p, [pr[p] EXCEPT !.pc = "idrop"]) /\ UNCHANGED locked
    /\ UNCHANGED <<disk, icache, ofile, cwd, panic>>

(* The freed entry forgets what it cached.                                 *)
Invalidated(c, e) == [c EXCEPT ![e].type = "free", ![e].valid = FALSE]

(* itrunc, type = 0, iupdate.  The addrs of a symbolic link are the bytes  *)
(* of its path: itrunc takes them for block numbers, bfree for blocks of   *)
(* the disk.                                                               *)
IputFrees(p) ==
    LET e == Head(pr[p].puts)  i == icache[e].inum IN
    /\ At(p, "ifree") /\ icache[e].type # "sym"
    /\ dino' = [dino EXCEPT ![i].type = "free"]
    /\ dents' = [dents EXCEPT ![i] = NoDents]
    /\ icache' = Invalidated(icache, e)
    /\ locked' = [locked EXCEPT ![e] = None]
    /\ Becomes(p, [pr[p] EXCEPT !.pc = "idrop"])
    /\ UNCHANGED <<target, ofile, cwd, panic>>

FreesLink(p) == At(p, "ifree") /\ icache[Head(pr[p].puts)].type = "sym" /\ Panics("bfree")

(* An entry without references keeps nothing that iget does not overwrite. *)
IputDrops(p) ==
    /\ At(p, "idrop")
    /\ icache' = [icache EXCEPT ![Head(pr[p].puts)] =
                    IF @.ref = 1 THEN Referenced(None, 0) ELSE [@ EXCEPT !.ref = @ - 1]]
    /\ Becomes(p, IF Len(pr[p].puts) > 1
                  THEN [pr[p] EXCEPT !.pc = "iput", !.puts = Tail(@)]
                  ELSE [pr[p] EXCEPT !.pc = pr[p].ret, !.puts = <<>>, !.ret = "user"])
    /\ UNCHANGED <<disk, locked, ofile, cwd, panic>>

----------------------------------------------------------------------------
(* namex: one action per path element, ip locked while it is searched.     *)

WantsParent == {"create", "link2", "unlink"}

(* Where a call goes on when its lookup finds nothing.                     *)
NotFound(r) == CASE r.stage = "link2" -> "linkundo" [] r.stage = "symnew" -> "symcreate"
                 [] r.stage = "follow" -> "nofollow" [] r.stage = "chdirto" -> "nochdir"
                 [] OTHER -> "user"
GiveUp(r) == IF NotFound(r) = "user" THEN Leave(<<r.ip>>)
             ELSE PutThen([r EXCEPT !.ip = None, !.rest = <<>>], <<r.ip>>, NotFound(r))

(* The start of namex: the root or the current directory is referenced.    *)
BeginWalk(p, r, path, c, s) ==
    LET abs == path # <<>> /\ Head(path) = "/" IN
    /\ icache' = IF abs THEN iget(c, Root) ELSE idup(c, cwd[p])
    /\ Becomes(p, [r EXCEPT !.ip = IF abs THEN IgetEntry(c, Root) ELSE cwd[p],
                            !.rest = IF abs THEN Tail(path) ELSE path,
                            !.stage = s, !.pc = "walk"])

Walking(p) == At(p, "walk") /\ pr[p].rest # <<>>
Next1(p) == Head(pr[p].rest)
Searches(p) == pr[p].stage \notin WantsParent \/ Len(pr[p].rest) > 1

WalkStops(p) ==
    LET e == pr[p].ip IN
    /\ Walking(p) /\ CanLock(e)
    /\ icache' = ilock(icache, e)
    /\ icache'[e].type # "dir" \/ (Searches(p) /\ dirlookup(e, Next1(p)) = None)
    /\ Becomes(p, GiveUp(pr[p]))
    /\ UNCHANGED <<disk, locked, ofile, cwd, panic>>

WalkParent(p) ==
    LET e == pr[p].ip IN
    /\ Walking(p) /\ CanLock(e) /\ ~Searches(p)
    /\ icache' = ilock(icache, e) /\ icache'[e].type = "dir"
    /\ Becomes(p, [pr[p] EXCEPT !.pc = pr[p].stage])
    /\ UNCHANGED <<disk, locked, ofile, cwd, panic>>

WalkDown(p) ==
    LET e == pr[p].ip  c == ilock(icache, e)  i == dirlookup(e, Next1(p)) IN
    /\ Walking(p) /\ CanLock(e) /\ c[e].type = "dir" /\ Searches(p)
    /\ i # None /\ ~IgetPanics(c, i)
    /\ icache' = iget(c, i)
    /\ Becomes(p, PutThen([pr[p] EXCEPT !.ip = IgetEntry(c, i), !.rest = Tail(@)],
                          <<e>>, "walk"))
    /\ UNCHANGED <<disk, locked, ofile, cwd, panic>>

(* The path is used up: namei returns ip, nameiparent gives it back.       *)
WalkEnds(p) ==
    /\ At(p, "walk") /\ pr[p].rest = <<>>
    /\ Becomes(p, IF pr[p].stage \in WantsParent THEN GiveUp(pr[p])
                  ELSE [pr[p] EXCEPT !.pc = pr[p].stage])
    /\ UNCHANGED <<disk, icache, locked, ofile, cwd, panic>>

----------------------------------------------------------------------------
(* The calls.  A call starts with begin_op and its first lookup.           *)

FirstStage(op) == CASE op \in {"creat", "mkdir", "mknod"} -> "create"
                    [] op = "link" -> "link1" [] op = "symlink" -> "symold"
                    [] OTHER -> op

Start(p) ==
    \E a \in CallArgs :
      /\ At(p, "user") /\ \A e \in Entry : icache[e].ref < MaxRef
      /\ BeginWalk(p, [Idle EXCEPT !.call = a], a.path, icache, FirstStage(a.op))
      /\ UNCHANGED <<disk, locked, ofile, cwd, panic>>

Op(p) == pr[p].call.op
Last(p) == Next1(p)           \* the name nameiparent leaves behind
FreeFds(p) == {f \in Fd : ofile[p][f] = None}

OpenFile_Leaks(p, e) ==
    /\ locked' = [locked EXCEPT ![e] = None]
    /\ IF FreeFds(p) # {}
       THEN /\ ofile' = [ofile EXCEPT ![p][Lowest(FreeFds(p))] = e]
            /\ Becomes(p, Idle)
       ELSE Becomes(p, Idle) /\ UNCHANGED ofile

(* sys_open after create or namei, the inode locked: filealloc and fdalloc,*)
(* or iunlockput.                                                          *)
OpenFile(p, e) ==
    /\ locked' = [locked EXCEPT ![e] = None]
    /\ IF FreeFds(p) # {}
       THEN /\ ofile' = [ofile EXCEPT ![p][Lowest(FreeFds(p))] = e]
            /\ Becomes(p, Idle)
       ELSE Becomes(p, Leave(<<e>>)) /\ UNCHANGED ofile

sys_open(p) ==
    LET e == pr[p].ip IN
    /\ At(p, "open") /\ CanLock(e)
    /\ icache' = ilock(icache, e)
    /\ IF icache'[e].type = "dir" /\ pr[p].call.new = <<"rw">>
       THEN Becomes(p, Leave(<<e>>)) /\ UNCHANGED <<ofile, locked>>
       ELSE OpenFile(p, e)
    /\ UNCHANGED <<disk, cwd, panic>>

OpenCreated(p) ==
    /\ At(p, "opened")
    /\ OpenFile(p, pr[p].ip)
    /\ UNCHANGED <<disk, icache, cwd, panic>>

sys_close(p) ==
    \E f \in Fd :
      /\ At(p, "user") /\ ofile[p][f] # None
      /\ ofile' = [ofile EXCEPT ![p][f] = None]
      /\ Becomes(p, Leave(<<ofile[p][f]>>))
      /\ UNCHANGED <<disk, icache, locked, cwd, panic>>

----------------------------------------------------------------------------
(* create(): the parent stays locked until the new name is in it.          *)

NewType(op) == CASE op = "creat" -> "file" [] op = "mkdir" -> "dir"
                 [] op = "mknod" -> "dev" [] op = "symlink" -> "sym"
FreeInums == {i \in Inum : dino[i].type = "free"}
Finish(op) == IF op = "creat" THEN "opened" ELSE "made"

CreateFinds(p) ==
    LET d == pr[p].ip  c == ilock(icache, d)  i == dirlookup(d, Last(p)) IN
    /\ At(p, "create") /\ CanLock(d) /\ i # None /\ ~IgetPanics(c, i)
    /\ icache' = iget(c, i)
    /\ Becomes(p, PutThen([pr[p] EXCEPT !.ip = IgetEntry(c, i)], <<d>>, "exists"))
    /\ UNCHANGED <<disk, locked, ofile, cwd, panic>>

CreateExists(p) ==
    LET e == pr[p].ip IN
    /\ At(p, "exists") /\ CanLock(e)
    /\ icache' = ilock(icache, e)
    /\ IF Op(p) = "symlink" \/ (Op(p) = "creat" /\ icache'[e].type = "file")
       THEN /\ locked' = [locked EXCEPT ![e] = p]
            /\ Becomes(p, [pr[p] EXCEPT !.pc = Finish(Op(p))])
       ELSE Becomes(p, Leave(<<e>>)) /\ UNCHANGED locked
    /\ UNCHANGED <<disk, ofile, cwd, panic>>

(* ialloc: the first inode that is free on disk, referenced but unlocked.  *)
CreateAllocs(p) ==
    LET d == pr[p].ip  c == ilock(icache, d)  i == Lowest(FreeInums) IN
    /\ At(p, "create") /\ CanLock(d) /\ dirlookup(d, Last(p)) = None
    /\ FreeInums # {} /\ ~IgetPanics(c, i)
    /\ dino' = [dino EXCEPT ![i] = [type |-> NewType(Op(p)), nlink |-> 0]]
    /\ icache' = iget(c, i)
    /\ locked' = [locked EXCEPT ![d] = p]
    /\ Becomes(p, [pr[p] EXCEPT !.other = d, !.ip = IgetEntry(c, i), !.pc = "fill"])
    /\ UNCHANGED <<dents, target, ofile, cwd, panic>>

CreateFills(p) ==
    LET e == pr[p].ip  d == pr[p].other  isdir == Op(p) = "mkdir"
        c == SetLinks(ilock(icache, e), e, 1)
        c2 == IF isdir THEN SetLinks(c, d, c[d].nlink + 1) ELSE c
        i == c[e].inum  parent == c[d].inum
    IN
    /\ At(p, "fill") /\ CanLock(e)
    /\ icache' = c2
    /\ dino' = iupdate(iupdate(dino, c2, e), c2, d)
    /\ dents' = [dents EXCEPT ![parent][Last(p)] = i,
                              ![i] = IF isdir THEN [@ EXCEPT !["."] = i, ![".."] = parent]
                                     ELSE @]
    /\ locked' = [locked EXCEPT ![d] = None, ![e] = p]
    /\ Becomes(p, PutThen([pr[p] EXCEPT !.other = None], <<d>>, Finish(Op(p))))
    /\ UNCHANGED <<target, ofile, cwd, panic>>

(* mkdir, mknod and symlink after create; symlink writes the old path over *)
(* addrs and makes the inode a link, whatever it was.                      *)
Made(p) ==
    LET e == pr[p].ip
        c == IF Op(p) = "symlink" THEN [icache EXCEPT ![e].type = "sym"] ELSE icache
    IN
    /\ At(p, "made")
    /\ icache' = c /\ dino' = iupdate(dino, c, e)
    /\ target' = IF Op(p) = "symlink"
                 THEN [target EXCEPT ![c[e].inum] = pr[p].call.path] ELSE target
    /\ locked' = [locked EXCEPT ![e] = None]
    /\ Becomes(p, Leave(<<e>>))
    /\ UNCHANGED <<dents, ofile, cwd, panic>>

(* sys_symlink: the reference to old is never given back, nor that to a    *)
(* new that exists.                                                        *)
SymOld(p) ==
    /\ At(p, "symold") \/ At(p, "symcreate")
    /\ BeginWalk(p, pr[p], pr[p].call.new, icache,
                 IF At(p, "symold") THEN "symnew" ELSE "create")
    /\ UNCHANGED <<disk, locked, ofile, cwd, panic>>

SymExists(p) ==
    /\ At(p, "symnew") /\ Becomes(p, Idle)
    /\ UNCHANGED <<disk, icache, locked, ofile, cwd, panic>>

----------------------------------------------------------------------------
(* sys_link: nlink is raised first, and lowered again if the name cannot   *)
(* be made.                                                                *)

Raised(c, e) == SetLinks(c, e, c[e].nlink + 1)

sys_link(p) ==
    LET e == pr[p].ip  c == ilock(icache, e) IN
    /\ At(p, "link1") /\ CanLock(e)
    /\ IF c[e].type = "dir"
       THEN icache' = c /\ Becomes(p, Leave(<<e>>)) /\ UNCHANGED dino
       ELSE /\ dino' = iupdate(dino, Raised(c, e), e)
            /\ BeginWalk(p, [pr[p] EXCEPT !.other = e], pr[p].call.new, Raised(c, e), "link2")
    /\ UNCHANGED <<dents, target, locked, ofile, cwd, panic>>

LinkAdds(p) ==
    LET d == pr[p].ip IN
    /\ At(p, "link2") /\ CanLock(d) /\ dirlookup(d, Last(p)) = None
    /\ icache' = ilock(icache, d)
    /\ dents' = [dents EXCEPT ![icache[d].inum][Last(p)] = icache[pr[p].other].inum]
    /\ Becomes(p, Leave(<<d, pr[p].other>>))
    /\ UNCHANGED <<dino, target, locked, ofile, cwd, panic>>

(* dirlink finds the name and puts the inode it found, dp still locked.    *)
LinkFinds(p) ==
    LET d == pr[p].ip  c == ilock(icache, d)  i == dirlookup(d, Last(p)) IN
    /\ At(p, "link2") /\ CanLock(d) /\ i # None /\ ~IgetPanics(c, i)
    /\ icache' = iget(c, i)
    /\ locked' = [locked EXCEPT ![d] = p]
    /\ Becomes(p, PutThen(pr[p], <<IgetEntry(c, i)>>, "unlockdp"))
    /\ UNCHANGED <<disk, ofile, cwd, panic>>

LinkUndo(p) ==
    LET e == pr[p].other  c == SetLinks(icache, e, icache[e].nlink - 1) IN
    /\ At(p, "linkundo") /\ Free(e)
    /\ icache' = c /\ dino' = iupdate(dino, c, e)
    /\ Becomes(p, Leave(<<e>>))
    /\ UNCHANGED <<dents, target, locked, ofile, cwd, panic>>

(* iunlockput(dp) on the failing paths of link and unlink.                 *)
UnlockParent(p) ==
    LET d == pr[p].ip IN
    /\ At(p, "unlockdp")
    /\ locked' = [locked EXCEPT ![d] = None]
    /\ Becomes(p, IF Op(p) = "link"
                  THEN PutThen([pr[p] EXCEPT !.ip = None], <<d>>, "linkundo")
                  ELSE Leave(<<d>>))
    /\ UNCHANGED <<disk, icache, ofile, cwd, panic>>

----------------------------------------------------------------------------
(* sys_unlink locks the parent, then the child.                            *)

isdirempty(i) == \A n \in Names : dents[i][n] = None

UnlinkRefuses(p) ==
    LET d == pr[p].ip IN
    /\ At(p, "unlink") /\ CanLock(d)
    /\ Last(p) \in {".", ".."} \/ dirlookup(d, Last(p)) = None
    /\ icache' = ilock(icache, d)
    /\ Becomes(p, Leave(<<d>>))
    /\ UNCHANGED <<disk, locked, ofile, cwd, panic>>

UnlinkFinds(p) ==
    LET d == pr[p].ip  c == ilock(icache, d)  i == dirlookup(d, Last(p)) IN
    /\ At(p, "unlink") /\ CanLock(d) /\ Last(p) \notin {".", ".."}
    /\ i # None /\ ~IgetPanics(c, i)
    /\ icache' = iget(c, i)
    /\ locked' = [locked EXCEPT ![d] = p]
    /\ Becomes(p, [pr[p] EXCEPT !.other = IgetEntry(c, i), !.pc = "unlink2"])
    /\ UNCHANGED <<disk, ofile, cwd, panic>>

UnlinkNotEmpty(p) ==
    LET e == pr[p].other IN
    /\ At(p, "unlink2") /\ CanLock(e)
    /\ icache' = ilock(icache, e)
    /\ icache'[e].nlink > 0 /\ icache'[e].type = "dir" /\ ~isdirempty(icache[e].inum)
    /\ Becomes(p, PutThen([pr[p] EXCEPT !.other = None], <<e>>, "unlockdp"))
    /\ UNCHANGED <<disk, locked, ofile, cwd, panic>>

UnlinkErases(p) ==
    LET e == pr[p].other  d == pr[p].ip  c == ilock(icache, e)
        c2 == IF c[e].type = "dir" THEN SetLinks(c, d, c[d].nlink - 1) ELSE c
    IN
    /\ At(p, "unlink2") /\ CanLock(e) /\ c[e].nlink > 0
    /\ c[e].type = "dir" => isdirempty(c[e].inum)
    /\ icache' = c2 /\ dino' = iupdate(dino, c2, d)
    /\ dents' = [dents EXCEPT ![c[d].inum][Last(p)] = None]
    /\ locked' = [locked EXCEPT ![d] = None, ![e] = p]
    /\ Becomes(p, PutThen([pr[p] EXCEPT !.ip = None], <<d>>, "unlink3"))
    /\ UNCHANGED <<target, ofile, cwd, panic>>

UnlinkLowers(p) ==
    LET e == pr[p].other  c == SetLinks(icache, e, icache[e].nlink - 1) IN
    /\ At(p, "unlink3")
    /\ icache' = c /\ dino' = iupdate(dino, c, e)
    /\ locked' = [locked EXCEPT ![e] = None]
    /\ Becomes(p, Leave(<<e>>))
    /\ UNCHANGED <<dents, target, ofile, cwd, panic>>

----------------------------------------------------------------------------
(* Symbolic links are followed by chdir and by readi and writei.  Neither  *)
(* gives the references back that namei took on the way.                   *)

sys_chdir(p) ==
    LET e == pr[p].ip IN
    /\ At(p, "chdir") \/ At(p, "chdirto")
    /\ CanLock(e)
    /\ icache' = ilock(icache, e) /\ icache'[e].type # "sym"
    /\ IF icache'[e].type = "dir"
       THEN cwd' = [cwd EXCEPT ![p] = e] /\ Becomes(p, Leave(<<cwd[p]>>))
       ELSE UNCHANGED cwd /\ Becomes(p, Leave(<<e>>))
    /\ UNCHANGED <<disk, locked, ofile, panic>>

ChdirFollows(p) ==
    LET e == pr[p].ip  c == ilock(icache, e) IN
    /\ At(p, "chdir") \/ At(p, "chdirto")
    /\ CanLock(e) /\ c[e].type = "sym" /\ \A g \in Entry : c[g].ref < MaxRef
    /\ BeginWalk(p, pr[p], target[c[e].inum], c, "chdirto")
    /\ UNCHANGED <<disk, locked, ofile, cwd, panic>>

(* read or write of an open symbolic link; the path is followed afresh.    *)
ReadLink(p) ==
    \E f \in Fd :
      LET e == ofile[p][f]  c == ilock(icache, e) IN
      /\ At(p, "user") /\ e # None /\ CanLock(e) /\ c[e].type = "sym"
      /\ \A g \in Entry : icache[g].ref < MaxRef
      /\ BeginWalk(p, [Idle EXCEPT !.depth = 1], target[c[e].inum], c, "follow")
      /\ UNCHANGED <<disk, locked, ofile, cwd, panic>>

ReadFollows(p) ==
    LET e == pr[p].ip  c == ilock(icache, e) IN
    /\ At(p, "follow") /\ CanLock(e) /\ c[e].type = "sym" /\ pr[p].depth <= SYMDEPTH
    /\ BeginWalk(p, [pr[p] EXCEPT !.depth = @ + 1], target[c[e].inum], c, "follow")
    /\ UNCHANGED <<disk, locked, ofile, cwd, panic>>

(* The file at the end of the links, or one link too many, or no file.     *)
ReadEnds(p) ==
    /\ \/ /\ At(p, "follow") /\ CanLock(pr[p].ip)
          /\ icache' = ilock(icache, pr[p].ip)
          /\ \/ icache'[pr[p].ip].type \in {"file", "dir"}
             \/ icache'[pr[p].ip].type = "sym" /\ pr[p].depth > SYMDEPTH
       \/ At(p, "nofollow") /\ UNCHANGED icache
    /\ Becomes(p, Idle)
    /\ UNCHANGED <<disk, locked, ofile, cwd, panic>>

----------------------------------------------------------------------------
(* Panics of the code.                                                     *)

Locks(p) == CASE pr[p].pc \in {"open", "create", "fill", "exists", "link1", "link2",
                               "unlink", "chdir", "chdirto", "follow"} -> {pr[p].ip}
              [] At(p, "unlink2") -> {pr[p].other}
              [] Walking(p) -> {pr[p].ip}
              [] OTHER -> {}

Looks(p) == pr[p].pc \in WantsParent \/ (Walking(p) /\ Searches(p))

LockPanics(p) ==
    \E e \in Locks(p) :
      /\ Free(e)
      /\ \/ NoType(icache, e) /\ Panics("ilock: no type")
         \/ /\ Looks(p) /\ ~NoType(icache, e) /\ ilock(icache, e)[e].type = "dir"
            /\ dirlookup(e, Next1(p)) # None
            /\ IgetPanics(icache, dirlookup(e, Next1(p)))
            /\ Panics("iget: no inodes")
         \/ /\ At(p, "create") /\ FreeInums = {} /\ dirlookup(e, Last(p)) = None
            /\ Panics("ialloc: no inodes")
         \/ /\ At(p, "unlink2") /\ ilock(icache, e)[e].nlink < 1
            /\ Panics("unlink: nlink < 1")
         \/ /\ At(p, "follow") /\ ilock(icache, e)[e].type = "dev"
            /\ Panics("iunlock")      \* readi returns with the wrong lock

NullPanics(p) == At(p, "nochdir") /\ Panics("sys_chdir ip null")

----------------------------------------------------------------------------
Step(p) ==
    \/ iput(p) \/ IputFrees(p) \/ FreesLink(p) \/ IputDrops(p)
    \/ WalkStops(p) \/ WalkParent(p) \/ WalkDown(p) \/ WalkEnds(p)
    \/ sys_open(p) \/ OpenCreated(p)
    \/ CreateFinds(p) \/ CreateExists(p) \/ CreateAllocs(p) \/ CreateFills(p) \/ Made(p)
    \/ SymOld(p) \/ SymExists(p)
    \/ sys_link(p) \/ LinkAdds(p) \/ LinkFinds(p) \/ LinkUndo(p) \/ UnlockParent(p)
    \/ UnlinkRefuses(p) \/ UnlinkFinds(p) \/ UnlinkNotEmpty(p) \/ UnlinkErases(p)
    \/ UnlinkLowers(p) \/ sys_chdir(p) \/ ChdirFollows(p)
    \/ ReadFollows(p) \/ ReadEnds(p) \/ LockPanics(p) \/ NullPanics(p)

UserCall(p) == Start(p) \/ sys_close(p) \/ ReadLink(p)

Next == panic = "none" /\ \E p \in Procs : Step(p) \/ UserCall(p)

Spec == Init /\ [][Next]_ivars

----------------------------------------------------------------------------
(* Properties.                                                             *)

TypeOK ==
    /\ dino \in [Inum -> [type : Types, nlink : Nat]]
    /\ dents \in [Inum -> [DirNames -> Inum \cup {None}]]
    /\ icache \in [Entry -> [inum : Inum \cup {None}, ref : Nat, valid : BOOLEAN,
                             type : Types, nlink : Nat]]
    /\ locked \in [Entry -> Procs \cup {None}]
    /\ ofile \in [Procs -> [Fd -> Entry \cup {None}]] /\ cwd \in [Procs -> Entry]
    /\ \A p \in Procs : /\ {pr[p].ip, pr[p].other} \subseteq Entry \cup {None}
                        /\ Range(pr[p].puts) \subseteq Entry

(* The pointers to an entry of the inode cache: current directories, open  *)
(* files and the variables of the calls under way.                         *)
Holders(e) ==
    {<<p, "cwd", 0>> : p \in {q \in Procs : cwd[q] = e}}
    \cup {<<p, "ip", 0>> : p \in {q \in Procs : pr[q].ip = e}}
    \cup {<<p, "other", 0>> : p \in {q \in Procs : pr[q].other = e}}
    \cup {<<h[1], "file", h[2]>> : h \in {g \in Procs \X Fd : ofile[g[1]][g[2]] = e}}
    \cup {<<h[1], "put", h[2]>> : h \in {g \in Procs \X (1..3) :
              g[2] <= Len(pr[g[1]].puts) /\ pr[g[1]].puts[g[2]] = e}}

(* The names of an inode; ".." of a removed directory is none, it stays    *)
(* behind until the directory is freed.                                    *)
InTree(d) == d = Root \/ \E e \in Inum, n \in Names : dents[e][n] = d
Named(i) == {<<d, n>> \in Inum \X (Names \cup {".."}) :
               dents[d][n] = i /\ (n = ".." => InTree(d))}
Links == \E a \in CallArgs : a.op = "symlink"

(* ip->ref counts the pointers to an entry: no path through a call, least  *)
(* of all a failing one, drops a reference twice or keeps one.  Only calls *)
(* on symbolic links keep some for ever.                                   *)
RefsCount ==
    \A e \in Entry : IF Links THEN icache[e].ref >= Cardinality(Holders(e))
                     ELSE icache[e].ref = Cardinality(Holders(e))

(* An inode has at most one entry in the cache, or its lock would protect  *)
(* nothing; and what a valid entry caches is what is on disk.              *)
OneEntry ==
    /\ \A e, f \in Entry :
         icache[e].ref > 0 /\ icache[f].ref > 0 /\ icache[e].inum = icache[f].inum => e = f
    /\ \A e \in Entry : icache[e].ref > 0 /\ icache[e].valid =>
         [type |-> icache[e].type, nlink |-> icache[e].nlink] = dino[icache[e].inum]

(* No directory entry, open file, current directory or pointer of a call   *)
(* leads to an inode that has been freed, and an inode never has more      *)
(* names than nlink says, so that unlink cannot free it too early.         *)
NamesAlive ==
    /\ \A i \in Inum : Named(i) # {} => dino[i].type # "free"
    /\ \A i \in Inum : Cardinality(Named(i)) <= dino[i].nlink
    /\ \A p \in Procs : \A e \in {cwd[p], pr[p].ip, pr[p].other} \cup Range(ofile[p]) :
         e # None => dino[icache[e].inum].type # "free"

----------------------------------------------------------------------------
(* What the repository says of the program and the code does not do (the   *)
(* README lists where).  No passing run checks these.                      *)

(* The entry whose lock a process needs next.                              *)
Needs(p) == CASE At(p, "iput") -> {Head(pr[p].puts)}
              [] At(p, "linkundo") -> {pr[p].other}
              [] OTHER -> Locks(p)

(* "The separation also helps avoid deadlock": processes that hold one     *)
(* inode and wait for another never wait for each other, nor one for       *)
(* itself.  But iput takes the lock of its inode: create ends with         *)
(* iunlockput(dp), the new inode still locked, while an unlink may hold dp *)
(* and wait for the new inode.                                             *)
NoLockCycle ==
    \A S \in SUBSET Procs \ {{}} :
      \E p \in S : \A e \in Needs(p) : locked[e] \notin S

(* Once no call is under way, an inode without names and references is     *)
(* free on disk.                                                           *)
UnlinkedFreed ==
    (\A p \in Procs : At(p, "user")) =>
      \A i \in Inum : dino[i].nlink = 0 /\ Cached(icache, i) = {} => dino[i].type = "free"

(* Once no call is under way, nlink is the number of names.                *)
LinksExact ==
    (\A p \in Procs : At(p, "user")) =>
      \A i \in Inum : dino[i].nlink = Cardinality(Named(i))

(* Removing a symbolic link does not hand its path to bfree, and following *)
(* one does not stop the machine.                                          *)
LinksHarmless == panic \notin {"bfree", "iunlock", "sys_chdir ip null"}
=============================================================================
