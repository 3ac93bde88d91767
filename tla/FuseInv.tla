------------------------------ MODULE FuseInv ------------------------------
(***************************************************************************)
(* The inductive invariants behind the properties of FuseOps: the inodes,  *)
(* the handlers in Link.send, the descriptors, the directory listings, and *)
(* what handlers keep across an await.                                     *)
(***************************************************************************)
EXTENDS FuseOps

(* Inodes are numbered up to the counter, and both maps agree on those     *)
(* that have a path; so the next number i_add gives out is a new one.      *)
InodeInv ==
  /\ lastInode \in Nat
  /\ DOMAIN pathOf \subseteq 1 .. lastInode
  /\ MapsAgree

-----------------------------------------------------------------------------
(* The requests each operation sends, one after the other.                 *)
Requests ==
  {<<"lookup", "fg">>, <<"getattr", "fg">>, <<"mkdir", "fD">>, <<"mkdir", "fg">>,
   <<"unlink", "fu">>, <<"rmdir", "fU">>, <<"rename", "fm">>,
   <<"create", "fn">>, <<"create", "fo">>, <<"create", "fg">>, <<"open", "fo">>,
   <<"io", "fr">>, <<"io", "fw">>, <<"release", "fc">>, <<"opendir", "fd">>,
   <<"readdir", "fg">>}

(* The handlers inside Link.send are those that run, each of them once,    *)
(* with a request of their operation; an answer is the first one's.        *)
WaitInv ==
  /\ DOMAIN task = Handlers
  /\ \A h \in Handlers : DOMAIN task[h] = DOMAIN Idle
  /\ waiters \in Seq(Handlers)
  /\ IsInjective(waiters)
  /\ Range(waiters) = {h \in Handlers : task[h] # Idle}
  /\ \A h \in Range(waiters) : <<task[h].op, task[h].req.a>> \in Requests
  /\ waiters = <<>> => answer = NoAnswer

(* The device has done what the first handler asked for by command a.      *)
Granted(a) ==
  waiters # <<>> /\ answer.k = "r" /\ task[Head(waiters)].req.a = a

-----------------------------------------------------------------------------
(* create has opened its file, and asks for the attributes.                *)
Fresh(h) == task[h].op = "create" /\ task[h].req.a = "fg"

JustOpened == IF Granted("fo") THEN {answer.n} ELSE {}
BeingClosed == {task[h].fh : h \in Closing}

(* A descriptor is open from fo's answer to fc's; in between it is in the  *)
(* map from the first handler's next step to release's, and only so long   *)
(* may the kernel or create use it.                                        *)
DescInv ==
  /\ lastFd \in Nat
  /\ fds \subseteq 1 .. lastFd
  /\ DOMAIN fdInode \subseteq fds
  /\ \A fh \in DOMAIN handles : fh \in DOMAIN fdInode /\ fdInode[fh] = handles[fh]
  /\ \A h \in Handlers :
       /\ Fresh(h) => /\ task[h].fh \in DOMAIN fdInode
                        /\ fdInode[task[h].fh] = task[h].i
       /\ h \in Closing => /\ task[h].req.fd = task[h].fh
                           /\ task[h].fh \in (1 .. lastFd) \ DOMAIN fdInode
  /\ Granted("fo") => answer.n \in fds \ DOMAIN fdInode
  /\ Granted("fc") => task[Head(waiters)].fh \notin fds
  /\ mounted => fds \ BeingClosed = DOMAIN fdInode \cup JustOpened

-----------------------------------------------------------------------------
NameSeq == Seq(Names \cup {Xfn})

(* A handle has been given the first pos names, "done" all of them.        *)
ListedTo(fh) ==
  LET l     == listing[fh]
      names == dirContent[fh].names
  IN  /\ DOMAIN l = DOMAIN NewDir
      /\ names \in NameSeq
      /\ l.pos \in 0 .. Len(names)
      /\ l.seen = SubSeq(names, 1, l.pos)
      /\ l.end = "done" => l.pos = Len(names)

(* A call of readdir goes on where the one before has stopped, and holds   *)
(* the entries from there.                                                 *)
ReadsOn(h) ==
  LET t     == task[h]
      l     == listing[t.fh]
      names == dirContent[t.fh].names
  IN  /\ t.fh \in DOMAIN listing
      /\ l.end = ""
      /\ t.pos \in l.pos .. Len(names) - 1
      /\ t.got \in Seq(Range(t.got))
      /\ Len(t.got) = t.pos - l.pos
      /\ \A x \in DOMAIN t.got : t.got[x].n = names[l.pos + x]

Reading(h) == task[h].op = "readdir"

(* A handle is read by one call at a time.                                 *)
ListInv ==
  /\ lastDir \in Nat
  /\ DOMAIN dirContent \subseteq 1 .. lastDir
  /\ DOMAIN listing = DOMAIN dirContent
  /\ \A fh \in DOMAIN listing : ListedTo(fh)
  /\ \A h \in Handlers : Reading(h) => ReadsOn(h)
  /\ \A g, h \in Handlers :
       Reading(g) /\ Reading(h) /\ task[g].fh = task[h].fh => g = h
  /\ Granted("fd") => answer.l \in NameSeq

-----------------------------------------------------------------------------
(* What a handler with state t holds across an await: paths, the inodes up *)
(* to n, and, if it is going to hand out an entry, an inode for that       *)
(* entry's path p or one that has no path in the map f any more.           *)
Entering == {"lookup", "mkdir", "create"}

Resolves(t, f) == t.op \in Entering /\ t.i \in DOMAIN f => f[t.i] = t.p

HandlerOK(t, n, f) ==
  /\ {t.p, t.req.p, t.req.q} \subseteq Path
  /\ t.i \in 0 .. n
  /\ t.op \in {"create", "open", "readdir"} => t.i # None
  /\ \A e \in Range(t.got) : e.i \in 1 .. n
  /\ Resolves(t, f)

DeviceTyped ==
  /\ IsTree(fs)
  /\ wedged \in BOOLEAN
  /\ answer.k \in {"", "r", "e"}

Numbered ==
  /\ pathOf \in [DOMAIN pathOf -> Path]
  /\ inodeOf \in [DOMAIN inodeOf -> 1 .. lastInode]

OpenTyped ==
  /\ fdInode \in [DOMAIN fdInode -> 1 .. lastInode]
  /\ inodeFd \in [DOMAIN inodeFd -> 1 .. lastFd]
  /\ DOMAIN known \subseteq 1 .. lastInode

HandlersOK == \A h \in Handlers : HandlerOK(task[h], lastInode, pathOf)

TypeInv == DeviceTyped /\ Numbered /\ OpenTyped /\ HandlersOK

(* All of it: TypeInv needs the others to be kept by every step.           *)
Known == InodeInv /\ WaitInv /\ DescInv /\ ListInv /\ TypeInv

=============================================================================
