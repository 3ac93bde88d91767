------------------------------ MODULE FuseOps ------------------------------
(***************************************************************************)
(* microfuse/fuse.py: the file system handlers of a mount, run by pyfuse3  *)
(* as concurrent tasks.  A handler works on the object's maps until it     *)
(* awaits Link.send, whose _send_lock lets one request at a time through,  *)
(* in the order of the calls; other handlers run in the meantime.  That    *)
(* send() is one exchange with the device is what module RequestPath shows *)
(* (Rpc).                                                                  *)
(*                                                                         *)
(* The kernel is external: it is modelled by which requests it may send,   *)
(* given the inodes and handles it has got and its directory locks.        *)
(***************************************************************************)
EXTENDS DeviceFS

CONSTANTS
  Handlers,   \* tasks of pyfuse3.main
  Modes,      \* flags the kernel opens files with, as cmd_fo's modes
  Depth,      \* bound: the length of the paths the kernel asks for
  MaxCalls,   \* bound: requests of the kernel
  MaxChunk,   \* bound: messages for one read or write
  MaxOther    \* bound: changes to the file system by others

ASSUME FuseAssumption ==
  /\ Modes \subseteq {"r", "r+", "w", "a", "a+"}
  /\ {Depth, MaxCalls, MaxChunk, MaxOther} \subseteq Nat

ROOT == 1
None == 0

VARIABLES
  pathOf,     \* _inode_path_map
  inodeOf,    \* _path_inode_map
  lastInode,  \* _last_inode
  fdInode,    \* _fd_inode_map
  inodeFd,    \* _inode_fd_map
  dirContent, \* _dir_content: directory handle -> its inode and names
  lastDir,    \* _last_dir_fh
  mounted,    \* does pyfuse3.main still run?
  task,       \* task[h]: the state of handler h
  waiters,    \* handlers inside Link.send; the first holds the lock
  known,      \* kernel: inode -> "d" or "f", for the inodes it has got
  dentries,   \* kernel: <<directory, name>> -> inode, what it has cached
  handles,    \* kernel: open file handle -> its inode
  listing,    \* kernel: directory handle -> what it has read of it
  calls,      \* kernel: requests so far
  others      \* changes to the file system by others so far

mapVars    == <<pathOf, inodeOf, lastInode>>
openVars   == <<fdInode, inodeFd>>
dirVars    == <<dirContent, lastDir>>
kernelVars == <<known, dentries, handles, listing>>
taskVars   == <<task, waiters, mounted, calls>>
hostVars   == <<mapVars, openVars, dirVars, taskVars, kernelVars>>
vars       == <<devVars, hostVars, others>>

(* A handler: its operation, the directories the kernel has locked for it, *)
(* the entries (directory and name) the kernel means, and those of its     *)
(* local variables that live across an await.                              *)
Idle == [op |-> "", dirs |-> {}, i |-> None, p |-> Root, fh |-> 0, pos |-> 0,
         got |-> <<>>, keys |-> <<>>, req |-> Blank]

NewDir == [pos |-> 0, seen |-> <<>>, end |-> ""]

FuseInit ==
  /\ pathOf     = [i \in {ROOT} |-> Root]
  /\ inodeOf    = [p \in {Root} |-> ROOT]
  /\ lastInode  = ROOT
  /\ fdInode    = Restrict(<<>>, {})
  /\ inodeFd    = Restrict(<<>>, {})
  /\ dirContent = Restrict(<<>>, {})
  /\ lastDir    = 0
  /\ mounted    = TRUE
  /\ task       = [h \in Handlers |-> Idle]
  /\ waiters    = <<>>
  /\ known      = [i \in {ROOT} |-> "d"]
  /\ dentries   = Restrict(<<>>, {})
  /\ handles    = Restrict(<<>>, {})
  /\ listing    = Restrict(<<>>, {})
  /\ calls      = 0
  /\ others     = 0

Init == DevInit /\ FuseInit

-----------------------------------------------------------------------------
(* The maps of inodes and paths.                                           *)
InodeFor(p) == IF p \in DOMAIN inodeOf THEN inodeOf[p] ELSE lastInode + 1

(* Mutant of i_add: the number of an inode is used again.                  *)
i_add_reuse(p) ==
  IF p \in DOMAIN inodeOf
  THEN UNCHANGED mapVars
  ELSE LET i == CHOOSE n \in 1 .. Cardinality(DOMAIN pathOf) + 1 :
                  n \notin DOMAIN pathOf
       IN  /\ lastInode' = IF i > lastInode THEN i ELSE lastInode
           /\ pathOf'  = With(pathOf, i, p)
           /\ inodeOf' = With(inodeOf, p, i)

i_add(p) ==
  IF p \in DOMAIN inodeOf
  THEN UNCHANGED mapVars
  ELSE /\ lastInode' = lastInode + 1
       /\ pathOf'  = With(pathOf, lastInode', p)
       /\ inodeOf' = With(inodeOf, p, lastInode')

i_del(i) ==
  IF i \in DOMAIN pathOf
  THEN /\ pathOf'  = Without(pathOf, i)
       /\ inodeOf' = Without(inodeOf, pathOf[i])
       /\ UNCHANGED lastInode
  ELSE UNCHANGED mapVars

f_open(fd, i) ==
  /\ fdInode' = With(fdInode, fd, i)
  /\ inodeFd' = With(inodeFd, i, fd)

-----------------------------------------------------------------------------
(* Handlers and the lock of Link.send.  `ws` are those inside send() after *)
(* h has left it (Tail(waiters)) or before it has entered it (waiters).    *)
Ask(h, t, r, ws) ==
  /\ task' = [task EXCEPT ![h] = [t EXCEPT !.req = r]]
  /\ waiters' = Append(ws, h)
  /\ UNCHANGED mounted

(* Mutant of Finish: the lock of Link.send is not released.                *)
FinishHoldsLock(h, ws) ==
  /\ task' = [task EXCEPT ![h] = Idle]
  /\ UNCHANGED <<waiters, mounted>>

Finish(h, ws) ==
  /\ task' = [task EXCEPT ![h] = Idle]
  /\ waiters' = ws
  /\ UNCHANGED mounted

(* An exception other than FUSEError ends pyfuse3.main.                    *)
Die ==
  /\ mounted' = FALSE
  /\ UNCHANGED <<task, waiters>>

(* A request of the kernel reaches an idle handler.                        *)
Start(h) ==
  /\ mounted
  /\ task[h] = Idle
  /\ calls < MaxCalls
  /\ calls' = calls + 1
  /\ UNCHANGED answer

(* The kernel's directory locks: these need every directory they change    *)
(* for themselves, lookup and readdir share theirs.                        *)
Exclusive == {"mkdir", "unlink", "rmdir", "rename", "create"}

MayLock(op, dirs) ==
  \A g \in Handlers : task[g].dirs \cap dirs # {} =>
                        {op, task[g].op} \cap Exclusive = {}

(* The kernel passes a directory it knows, and a path within the bound.    *)
DirArg(i) ==
  /\ i \in DOMAIN known
  /\ known[i] = "d"
  /\ i \in DOMAIN pathOf => Len(pathOf[i]) < Depth

Child(i, n) == Append(pathOf[i], n)

(* i_path raises FUSEError(ENOENT) before anything has been done.          *)
Unmapped(i) ==
  /\ i \notin DOMAIN pathOf
  /\ UNCHANGED <<task, waiters, mounted, mapVars>>

(* The kernel's cached entry for a name, and the kind of its inode.        *)
Cached(i, n, k) ==
  <<i, n>> \in DOMAIN dentries /\ known[dentries[<<i, n>>]] = k
NotCached(i, n) == <<i, n>> \notin DOMAIN dentries

(* The first part of an operation on the name n of the directory i that    *)
(* only passes on the request r.                                           *)
OnName(h, op, i, n, r) ==
  /\ Start(h)
  /\ DirArg(i)
  /\ MayLock(op, {i})
  /\ \/ Unmapped(i)
     \/ /\ i \in DOMAIN pathOf
        /\ Ask(h, [Idle EXCEPT !.op = op, !.dirs = {i}, !.p = Child(i, n),
                               !.keys = <<<<i, n>>>>], r, waiters)
        /\ UNCHANGED mapVars

StatReq(i) == PathReq("fg", pathOf[i])

(* lookup: a path that is known goes on as getattr, with its inode.        *)
Lookup(h, i, n) ==
  /\ Start(h)
  /\ DirArg(i)
  /\ MayLock("lookup", {i})
  /\ \/ Unmapped(i)
     \/ /\ i \in DOMAIN pathOf
        /\ LET p == Child(i, n)
               j == IF p \in DOMAIN inodeOf THEN inodeOf[p] ELSE None
           IN  Ask(h, [Idle EXCEPT !.op = "lookup", !.dirs = {i}, !.p = p,
                                   !.i = j, !.keys = <<<<i, n>>>>],
                   PathReq("fg", p), waiters)
        /\ UNCHANGED mapVars
  /\ UNCHANGED <<openVars, dirVars, kernelVars>>

Getattr(h, i) ==
  /\ Start(h)
  /\ i \in DOMAIN known
  /\ \/ Unmapped(i)
     \/ /\ i \in DOMAIN pathOf
        /\ Ask(h, [Idle EXCEPT !.op = "getattr", !.i = i], StatReq(i), waiters)
        /\ UNCHANGED mapVars
  /\ UNCHANGED <<openVars, dirVars, kernelVars>>

Mkdir(h, i, n) ==
  /\ NotCached(i, n)
  /\ OnName(h, "mkdir", i, n, PathReq("fD", Child(i, n)))
  /\ UNCHANGED <<openVars, dirVars, kernelVars>>

Unlink(h, i, n) ==
  /\ Cached(i, n, "f")
  /\ OnName(h, "unlink", i, n, PathReq("fu", Child(i, n)))
  /\ UNCHANGED <<openVars, dirVars, kernelVars>>

Rmdir(h, i, n) ==
  /\ Cached(i, n, "d")
  /\ OnName(h, "rmdir", i, n, PathReq("fU", Child(i, n)))
  /\ UNCHANGED <<openVars, dirVars, kernelVars>>

(* rename from the name n of i to the name m of j; x says which flags.     *)
RenameCall(h, i, n, j, m, x) ==
  /\ Start(h)
  /\ DirArg(i)
  /\ DirArg(j)
  /\ <<i, n>> # <<j, m>>
  /\ \E k \in {"d", "f"} :
       /\ Cached(i, n, k)
       /\ \/ Cached(j, m, k) /\ x # "n"
          \/ NotCached(j, m) /\ x # "x"
          \/ x = "x" /\ <<j, m>> \in DOMAIN dentries
  /\ MayLock("rename", {i, j})
  /\ \/ Unmapped(i)
     \/ Unmapped(j)
     \/ /\ {i, j} \subseteq DOMAIN pathOf
        /\ ~Within(Child(i, n), Child(j, m))
        /\ Ask(h, [Idle EXCEPT !.op = "rename", !.dirs = {i, j},
                               !.p = Child(i, n), !.keys = <<<<i, n>>, <<j, m>>>>],
               MoveReq(Child(i, n), Child(j, m), x), waiters)
        /\ UNCHANGED mapVars
  /\ UNCHANGED <<openVars, dirVars, kernelVars>>

(* create: i_path(p) is never found, p being no inode, so `gen` is always  *)
(* set; i_add(p) finds the inode that p may have.                          *)
Create(h, i, n, m) ==
  /\ NotCached(i, n)
  /\ Start(h)
  /\ DirArg(i)
  /\ MayLock("create", {i})
  /\ \/ Unmapped(i)
     \/ /\ i \in DOMAIN pathOf
        /\ LET p == Child(i, n)
           IN  /\ i_add(p)
               /\ Ask(h, [Idle EXCEPT !.op = "create", !.dirs = {i}, !.p = p,
                                      !.i = InodeFor(p), !.keys = <<<<i, n>>>>],
                      [PathReq("fn", p) EXCEPT !.m = m], waiters)
  /\ UNCHANGED <<openVars, dirVars, kernelVars>>

Open(h, i, m) ==
  /\ Start(h)
  /\ i \in DOMAIN known
  /\ known[i] = "f"
  /\ \/ Unmapped(i)
     \/ /\ i \in DOMAIN pathOf
        /\ Ask(h, [Idle EXCEPT !.op = "open", !.i = i], OpenReq(pathOf[i], m),
               waiters)
        /\ UNCHANGED mapVars
  /\ UNCHANGED <<openVars, dirVars, kernelVars>>

(* read and write; pos counts the messages.                                *)
ReadWrite(h, fh, a) ==
  /\ Start(h)
  /\ fh \in DOMAIN handles
  /\ Ask(h, [Idle EXCEPT !.op = "io", !.fh = fh, !.pos = 1], FdReq(a, fh),
         waiters)
  /\ UNCHANGED <<mapVars, openVars, dirVars, kernelVars>>

(* Mutant of Release: f_close drops the last descriptor of the inode.      *)
ReleaseByInode(h, fh) ==
  /\ Start(h)
  /\ fh \in DOMAIN handles
  /\ \A g \in Handlers : task[g].fh # fh \/ task[g].op = "readdir"
  /\ handles' = Without(handles, fh)
  /\ IF fdInode[fh] \in DOMAIN inodeFd
     THEN /\ fdInode' = Without(fdInode, inodeFd[fdInode[fh]])
          /\ inodeFd' = Without(inodeFd, fdInode[fh])
          /\ Ask(h, [Idle EXCEPT !.op = "release", !.fh = fh], FdReq("fc", fh),
                 waiters)
     ELSE UNCHANGED openVars /\ Die
  /\ UNCHANGED <<mapVars, dirVars, known, dentries, listing>>

(* Mutant of Release: a second close of an inode is taken for done.        *)
ReleaseOnce(h, fh) ==
  /\ Start(h)
  /\ fh \in DOMAIN handles
  /\ \A g \in Handlers : task[g].fh # fh \/ task[g].op = "readdir"
  /\ handles' = Without(handles, fh)
  /\ fdInode' = Without(fdInode, fh)
  /\ IF fdInode[fh] \in DOMAIN inodeFd
     THEN /\ inodeFd' = Without(inodeFd, fdInode[fh])
          /\ Ask(h, [Idle EXCEPT !.op = "release", !.fh = fh], FdReq("fc", fh),
                 waiters)
     ELSE UNCHANGED <<inodeFd, task, waiters, mounted>>
  /\ UNCHANGED <<mapVars, dirVars, known, dentries, listing>>

(* release: f_close raises KeyError if the inode has no descriptor left.   *)
Release(h, fh) ==
  /\ Start(h)
  /\ fh \in DOMAIN handles
  /\ \A g \in Handlers : task[g].fh # fh \/ task[g].op = "readdir"
  /\ handles' = Without(handles, fh)
  /\ fdInode' = Without(fdInode, fh)
  /\ IF fdInode[fh] \in DOMAIN inodeFd
     THEN /\ inodeFd' = Without(inodeFd, fdInode[fh])
          /\ Ask(h, [Idle EXCEPT !.op = "release", !.fh = fh], FdReq("fc", fh),
                 waiters)
     ELSE UNCHANGED inodeFd /\ Die
  /\ UNCHANGED <<mapVars, dirVars, known, dentries, listing>>

Opendir(h, i) ==
  /\ Start(h)
  /\ i \in DOMAIN known
  /\ known[i] = "d"
  /\ \/ Unmapped(i)
     \/ /\ i \in DOMAIN pathOf
        /\ Ask(h, [Idle EXCEPT !.op = "opendir", !.i = i],
               PathReq("fd", pathOf[i]), waiters)
        /\ UNCHANGED mapVars
  /\ UNCHANGED <<openVars, dirVars, kernelVars>>

(* readdir: the next name of the directory gets an inode and is stat'ed.   *)
NextEntry(h, t, ws) ==
  LET p == Append(t.p, dirContent[t.fh].names[t.pos + 1])
  IN  /\ i_add(p)
      /\ Ask(h, [t EXCEPT !.i = InodeFor(p)], PathReq("fg", p), ws)

Readdir(h, fh) ==
  /\ Start(h)
  /\ fh \in DOMAIN listing
  /\ listing[fh].end = ""
  /\ \A g \in Handlers : task[g].op = "readdir" => task[g].fh # fh
  /\ LET d == dirContent[fh]
         t == [Idle EXCEPT !.op = "readdir", !.dirs = {d.i}, !.fh = fh,
                           !.pos = listing[fh].pos]
     IN  /\ MayLock("readdir", {d.i})
         /\ \/ /\ d.i \notin DOMAIN pathOf
               /\ listing' = [listing EXCEPT ![fh].end = "failed"]
               /\ UNCHANGED <<task, waiters, mounted, mapVars>>
            \/ /\ d.i \in DOMAIN pathOf
               /\ t.pos = Len(d.names)
               /\ listing' = [listing EXCEPT ![fh].end = "done"]
               /\ UNCHANGED <<task, waiters, mounted, mapVars>>
            \/ /\ d.i \in DOMAIN pathOf
               /\ t.pos < Len(d.names)
               /\ NextEntry(h, [t EXCEPT !.p = pathOf[d.i]], waiters)
               /\ UNCHANGED listing
  /\ UNCHANGED <<openVars, dirVars, known, dentries, handles>>

Releasedir(h, fh) ==
  /\ Start(h)
  /\ fh \in DOMAIN listing
  /\ \A g \in Handlers : task[g].op = "readdir" => task[g].fh # fh
  /\ dirContent' = Without(dirContent, fh)
  /\ listing' = Without(listing, fh)
  /\ UNCHANGED <<mapVars, openVars, task, waiters, mounted, lastDir, known,
                 dentries, handles>>

(* forget passes tuples to i_del, which finds no inode: nothing happens    *)
(* but in the kernel.                                                      *)
Forget(h, i) ==
  /\ Start(h)
  /\ i \in DOMAIN known \ {ROOT}
  /\ i \notin Range(handles)
  /\ \A fh \in DOMAIN listing : dirContent[fh].i # i
  /\ \A g \in Handlers :
       /\ i # task[g].i
       /\ i \notin task[g].dirs
       /\ \A e \in Range(task[g].keys) :
            e \in DOMAIN dentries => dentries[e] # i
  /\ \A e \in DOMAIN dentries : e[1] # i
  /\ known' = Without(known, i)
  /\ dentries' = Restrict(dentries, {e \in DOMAIN dentries : dentries[e] # i})
  /\ UNCHANGED <<mapVars, openVars, dirVars, task, waiters, mounted, handles,
                 listing>>

-----------------------------------------------------------------------------
(* Link.send returns to h, which goes on until it awaits again or is done. *)
Answered(h, ops, k) ==
  /\ mounted
  /\ waiters # <<>>
  /\ h = Head(waiters)
  /\ task[h].op \in ops
  /\ answer.k = k
  /\ answer' = NoAnswer
  /\ UNCHANGED calls

Rest == Tail(waiters)

(* The kernel gets an inode, as that of the entry it has asked for.        *)
Learn(t, i, k) ==
  /\ known' = With(known, i, k)
  /\ dentries' = [e \in DOMAIN dentries \cup Range(t.keys) |->
                    IF e \in Range(t.keys) THEN i ELSE dentries[e]]

(* Mutant of LookupNew: the path is thought to have no inode still.        *)
LookupNewAlways(h) ==
  /\ Answered(h, {"lookup"}, "r")
  /\ task[h].i = None
  /\ lastInode' = lastInode + 1
  /\ pathOf' = With(pathOf, lastInode', task[h].p)
  /\ inodeOf' = With(inodeOf, task[h].p, lastInode')
  /\ Learn(task[h], lastInode', answer.s)
  /\ Finish(h, Rest)
  /\ UNCHANGED <<openVars, dirVars, handles, listing>>

(* lookup of a path that had no inode when it was asked for                *)
LookupNew(h) ==
  /\ Answered(h, {"lookup"}, "r")
  /\ task[h].i = None
  /\ i_add(task[h].p)
  /\ Learn(task[h], InodeFor(task[h].p), answer.s)
  /\ Finish(h, Rest)
  /\ UNCHANGED <<openVars, dirVars, handles, listing>>

(* getattr succeeds, at the end of these operations.                       *)
StatOk(h) ==
  /\ Answered(h, {"getattr", "lookup", "mkdir"}, "r")
  /\ task[h].i # None
  /\ task[h].req.a = "fg"
  /\ Learn(task[h], task[h].i, answer.s)
  /\ Finish(h, Rest)
  /\ UNCHANGED <<mapVars, openVars, dirVars, handles, listing>>

(* getattr fails: ENOENT makes raise_error drop the inode, and readdir,    *)
(* which expects a ServerError, fails as a whole.                          *)
StatFail(h) ==
  /\ Answered(h, {"getattr", "lookup", "mkdir", "create", "readdir"}, "e")
  /\ task[h].req.a = "fg"
  /\ IF answer.s = "fn" /\ task[h].i # None
     THEN i_del(task[h].i)
     ELSE UNCHANGED mapVars
  /\ listing' = IF task[h].op = "readdir"
                THEN [listing EXCEPT ![task[h].fh].end = "failed"]
                ELSE listing
  /\ dentries' = IF task[h].op = "lookup" /\ answer.s = "fn"
                 THEN Without(dentries, task[h].keys[1])
                 ELSE dentries
  /\ Finish(h, Rest)
  /\ UNCHANGED <<openVars, dirVars, known, handles>>

MadeDir(h) ==
  /\ Answered(h, {"mkdir"}, "r")
  /\ task[h].req.a = "fD"
  /\ i_add(task[h].p)
  /\ Ask(h, [task[h] EXCEPT !.i = InodeFor(task[h].p)],
         PathReq("fg", task[h].p), Rest)
  /\ UNCHANGED <<openVars, dirVars, kernelVars>>

(* unlink, rmdir and rename leave the maps alone; the kernel changes its   *)
(* entries: it drops the one removed, moves or exchanges those renamed.    *)
Changed(h) ==
  /\ Answered(h, {"unlink", "rmdir", "rename"}, "r")
  /\ LET from == task[h].keys[1]
         to   == task[h].keys[Len(task[h].keys)]
     IN  dentries' =
           IF {from, to} \subseteq DOMAIN dentries /\ task[h].req.x = "x"
           THEN [dentries EXCEPT ![from] = dentries[to], ![to] = dentries[from]]
           ELSE IF from # to /\ from \in DOMAIN dentries
           THEN With(Without(dentries, from), to, dentries[from])
           ELSE Without(dentries, from)
  /\ Finish(h, Rest)
  /\ UNCHANGED <<mapVars, openVars, dirVars, known, handles, listing>>

(* raise_error turns the errors of these requests into FUSEErrors.         *)
Refused(h) ==
  /\ \/ Answered(h, {"unlink", "rmdir", "rename", "open", "opendir"}, "e")
     \/ Answered(h, {"mkdir"}, "e") /\ task[h].req.a = "fD"
     \/ Answered(h, {"create"}, "e") /\ task[h].req.a = "fo"
  /\ Finish(h, Rest)
  /\ UNCHANGED <<mapVars, openVars, dirVars, kernelVars>>

(* Mutant of Created: the inode found at the start is used.                *)
CreatedStale(h) ==
  /\ Answered(h, {"create"}, "r")
  /\ task[h].req.a = "fn"
  /\ Ask(h, task[h], OpenReq(task[h].p, task[h].req.m), Rest)
  /\ UNCHANGED <<mapVars, openVars, dirVars, kernelVars>>

(* create: the file is there, and is opened.                               *)
Created(h) ==
  /\ Answered(h, {"create"}, "r")
  /\ task[h].req.a = "fn"
  /\ i_add(task[h].p)
  /\ Ask(h, [task[h] EXCEPT !.i = InodeFor(task[h].p)],
         OpenReq(task[h].p, task[h].req.m), Rest)
  /\ UNCHANGED <<openVars, dirVars, kernelVars>>

CreateFail(h) ==
  /\ Answered(h, {"create"}, "e")
  /\ task[h].req.a = "fn"
  /\ i_del(task[h].i)
  /\ Finish(h, Rest)
  /\ UNCHANGED <<openVars, dirVars, kernelVars>>

Opened(h) ==
  /\ Answered(h, {"open"}, "r")
  /\ f_open(answer.n, task[h].i)
  /\ handles' = With(handles, answer.n, task[h].i)
  /\ Finish(h, Rest)
  /\ UNCHANGED <<mapVars, dirVars, known, dentries, listing>>

(* create has opened the file and asks for its attributes, fn having       *)
(* returned none.  i_path may miss the inode by now.                       *)
CreateOpened(h) ==
  /\ Answered(h, {"create"}, "r")
  /\ task[h].req.a = "fo"
  /\ f_open(answer.n, task[h].i)
  /\ IF task[h].i \in DOMAIN pathOf
     THEN Ask(h, [task[h] EXCEPT !.fh = answer.n], StatReq(task[h].i), Rest)
     ELSE Finish(h, Rest)
  /\ UNCHANGED <<mapVars, dirVars, kernelVars>>

CreateOk(h) ==
  /\ Answered(h, {"create"}, "r")
  /\ task[h].req.a = "fg"
  /\ Learn(task[h], task[h].i, answer.s)
  /\ handles' = With(handles, task[h].fh, task[h].i)
  /\ Finish(h, Rest)
  /\ UNCHANGED <<mapVars, openVars, dirVars, listing>>

(* read and write go on with the next part of the data, or are done; an    *)
(* error is not caught.                                                    *)
MoreIO(h) ==
  /\ Answered(h, {"io"}, "r")
  /\ task[h].pos < MaxChunk
  /\ Ask(h, [task[h] EXCEPT !.pos = @ + 1], task[h].req, Rest)
  /\ UNCHANGED <<mapVars, openVars, dirVars, kernelVars>>

IODone(h) ==
  /\ Answered(h, {"io", "release"}, "r")
  /\ Finish(h, Rest)
  /\ UNCHANGED <<mapVars, openVars, dirVars, kernelVars>>

IOFail(h) ==
  /\ Answered(h, {"io", "release"}, "e")
  /\ Die
  /\ UNCHANGED <<mapVars, openVars, dirVars, kernelVars>>

DirOpened(h) ==
  /\ Answered(h, {"opendir"}, "r")
  /\ lastDir' = lastDir + 1
  /\ dirContent' = With(dirContent, lastDir',
                        [i |-> task[h].i, names |-> answer.l])
  /\ listing' = With(listing, lastDir', NewDir)
  /\ Finish(h, Rest)
  /\ UNCHANGED <<mapVars, openVars, known, dentries, handles>>

(* readdir returns the entries it has got, up to position pos.             *)
Listed(h, got, pos) ==
  /\ listing' = [listing EXCEPT
       ![task[h].fh] = [pos |-> pos, end |-> "",
                        seen |-> @.seen \o [x \in DOMAIN got |-> got[x].n]]]
  /\ LET dir == CHOOSE i \in task[h].dirs : TRUE
         inodes == {e.i : e \in Range(got)}
         entry(i) == CHOOSE e \in Range(got) : e.i = i
     IN  /\ known' = [i \in DOMAIN known \cup inodes |->
                        IF i \in inodes THEN entry(i).k ELSE known[i]]
         /\ dentries' = [x \in DOMAIN dentries \cup {<<dir, entry(i).n>> : i \in inodes} |->
                           IF \E i \in inodes : x = <<dir, entry(i).n>>
                           THEN CHOOSE i \in inodes : x = <<dir, entry(i).n>>
                           ELSE dentries[x]]
  /\ Finish(h, Rest)
  /\ UNCHANGED <<mapVars, openVars, dirVars, handles>>

(* The entry is accepted by readdir_reply.                                 *)
EntryOk(h) ==
  /\ Answered(h, {"readdir"}, "r")
  /\ LET t     == task[h]
         names == dirContent[t.fh].names
         got   == Append(t.got, [n |-> names[t.pos + 1], i |-> t.i, k |-> answer.s])
     IN  IF t.pos + 1 < Len(names)
         THEN /\ NextEntry(h, [t EXCEPT !.got = got, !.pos = @ + 1], Rest)
              /\ UNCHANGED <<openVars, dirVars, kernelVars>>
         ELSE Listed(h, got, t.pos + 1)

(* Mutant of EntryFull: the position counts the entry left out.            *)
EntryFullSkips(h) ==
  /\ Answered(h, {"readdir"}, "r")
  /\ task[h].got # <<>>
  /\ Listed(h, task[h].got, task[h].pos + 1)

(* The kernel's buffer is full: the entry will be asked for again.         *)
EntryFull(h) ==
  /\ Answered(h, {"readdir"}, "r")
  /\ task[h].got # <<>>
  /\ Listed(h, task[h].got, task[h].pos)

-----------------------------------------------------------------------------
(* What the kernel may ask for, and how a handler may go on.               *)
Kernel(h) ==
  \/ \E i \in DOMAIN known, n \in Names :
       \/ Lookup(h, i, n)
       \/ Mkdir(h, i, n)
       \/ Unlink(h, i, n)
       \/ Rmdir(h, i, n)
       \/ \E m \in Modes : Create(h, i, n, m)
       \/ \E j \in DOMAIN known, m \in Names, x \in {"", "n", "x"} :
            RenameCall(h, i, n, j, m, x)
  \/ \E i \in DOMAIN known :
       \/ Getattr(h, i)
       \/ \E m \in Modes : Open(h, i, m)
       \/ Opendir(h, i)
       \/ Forget(h, i)
  \/ \E fh \in DOMAIN handles :
       \/ \E a \in {"fr", "fw"} : ReadWrite(h, fh, a)
       \/ Release(h, fh)
  \/ \E fh \in DOMAIN listing : Readdir(h, fh) \/ Releasedir(h, fh)

Resume(h) ==
  \/ LookupNew(h)
  \/ StatOk(h)
  \/ StatFail(h)
  \/ MadeDir(h)
  \/ Changed(h)
  \/ Refused(h)
  \/ Created(h)
  \/ CreateFail(h)
  \/ Opened(h)
  \/ CreateOpened(h)
  \/ CreateOk(h)
  \/ MoreIO(h)
  \/ IODone(h)
  \/ IOFail(h)
  \/ DirOpened(h)
  \/ EntryOk(h)
  \/ EntryFull(h)

Host == /\ \E h \in Handlers : Kernel(h) \/ Resume(h)
        /\ UNCHANGED <<fs, fds, lastFd, wedged, others>>

(* The request of the handler that holds the lock reaches the device.      *)
Device == /\ waiters # <<>>
          /\ Command(task[Head(waiters)].req)
          /\ UNCHANGED <<hostVars, others>>

Other == /\ others < MaxOther
         /\ others' = others + 1
         /\ Elsewhere
         /\ UNCHANGED hostVars

Next == Host \/ Device \/ Other

Spec == Init /\ [][Next]_vars

(* The event loop runs a handler that has got its answer, and the device   *)
(* runs the request it has got; the kernel need not ask for anything.      *)
FairSpec ==
  /\ Spec
  /\ WF_vars(Device)
  /\ WF_vars(\E h \in Handlers : Resume(h)
              /\ UNCHANGED <<fs, fds, lastFd, wedged, others>>)

-----------------------------------------------------------------------------
(* Types; Link.send is held by handlers that run, each of them once.       *)
TypeOK ==
  /\ DevTypeOK
  /\ lastInode \in Nat
  /\ pathOf \in [DOMAIN pathOf -> Path]
  /\ inodeOf \in [DOMAIN inodeOf -> 1 .. lastInode]
  /\ fdInode \in [DOMAIN fdInode -> 1 .. lastInode]
  /\ inodeFd \in [DOMAIN inodeFd -> 1 .. lastFd]
  /\ DOMAIN known \subseteq 1 .. lastInode
  /\ DOMAIN listing = DOMAIN dirContent
  /\ DOMAIN dirContent \subseteq 1 .. lastDir
  /\ IsInjective(waiters)
  /\ Range(waiters) = {h \in Handlers : task[h] # Idle}

(* _inode_path_map and _path_inode_map are each other's inverse, whichever *)
(* handlers change them between two awaits of another.                     *)
MapsAgree ==
  /\ \A i \in DOMAIN pathOf :
       pathOf[i] \in DOMAIN inodeOf /\ inodeOf[pathOf[i]] = i
  /\ \A p \in DOMAIN inodeOf :
       inodeOf[p] \in DOMAIN pathOf /\ pathOf[inodeOf[p]] = p

(* An inode that has been dropped never names another path later: the      *)
(* kernel, which is not told, gets ENOENT and not somebody else's file.    *)
InodesNotReused ==
  [][\A i \in DOMAIN pathOf' :
       IF i \in DOMAIN pathOf THEN pathOf'[i] = pathOf[i] ELSE i > lastInode]_vars

(* The handles that the kernel may use are open on the device, and known   *)
(* to be open on the inode they were opened for.                           *)
HandlesOpen ==
  \A fh \in DOMAIN handles :
    /\ fh \in fds
    /\ fh \in DOMAIN fdInode
    /\ fdInode[fh] = handles[fh]

Opening == {h \in Handlers : task[h].req.a = "fo" /\ answer.k = "r"
                             /\ h = Head(waiters)}
Closing == {h \in Handlers : task[h].op = "release"}

(* The descriptors open on the device are those in _fd_inode_map, but for  *)
(* the one just opened and those being closed: none is lost between the    *)
(* await of a handler and the maps.                                        *)
DescriptorsMirrored ==
  mounted =>
    LET opened == {answer.n : h \in {g \in Range(waiters) : g \in Opening}}
        closed == {task[h].fh : h \in Closing}
    IN  fds \ closed = DOMAIN fdInode \cup opened

(* When the device has done what lookup, mkdir or create asked for, the    *)
(* inode the handler goes on with does not name another path than the one  *)
(* the kernel asked for.  An inode asked for in this step is mapped to it; *)
(* one found before the await may have been dropped by another handler, so *)
(* that it names nothing any more.                                         *)
EntryResolves ==
  [][\A h \in Handlers :
       /\ task[h].op \in {"lookup", "mkdir", "create"}
       /\ h = Head(waiters)
       /\ answer.k = "r"
       /\ answer' = NoAnswer
       => LET i == IF task'[h] # Idle THEN task'[h].i
                   ELSE IF task[h].i # None THEN task[h].i
                   ELSE inodeOf'[task[h].p]
              added == task[h].i = None \/ task[h].req.a \in {"fD", "fn"}
          IN  /\ added => i \in DOMAIN pathOf'
              /\ i \in DOMAIN pathOf' => pathOf'[i] = task[h].p]_vars

(* However a directory's listing is cut into calls of readdir, what it has *)
(* returned is an initial part of the directory's content, all of it when  *)
(* readdir says so.                                                        *)
ListedInOrder ==
  \A fh \in DOMAIN listing :
    LET l == listing[fh]
        names == dirContent[fh].names
    IN  /\ l.seen = SubSeq(names, 1, l.pos)
        /\ l.end = "done" => l.seen = names

(* Every request of the kernel is answered, unless the device has stopped  *)
(* answering or the mount has failed.                                      *)
RequestsEnd ==
  \A h \in Handlers : task[h] # Idle ~> task[h] = Idle \/ wedged \/ ~mounted

-----------------------------------------------------------------------------
(* What the documentation says and the code does not do.                   *)

(* fuse.py, release: "Release open file" and "This method may return an    *)
(* error by raising `FUSEError`": it does not end the mount.               *)
ReleaseCloses ==
  [][\A fh \in DOMAIN handles : fh \notin DOMAIN handles' => mounted']_vars

(* fuse.py, rename: the entry for the new name is "to point to             *)
(* *inode_moved*".                                                         *)
RenameFollows ==
  [][\A h \in Handlers :
       /\ task[h].op = "rename"
       /\ task[h].req.x = ""
       /\ task[h].p \in DOMAIN inodeOf
       /\ h = Head(waiters)
       /\ answer.k = "r"
       /\ answer' = NoAnswer
       => /\ task[h].req.q \in DOMAIN inodeOf'
          /\ inodeOf'[task[h].req.q] = inodeOf[task[h].p]]_vars

=============================================================================
