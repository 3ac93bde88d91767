------------------------------ MODULE DeviceFS ------------------------------
(***************************************************************************)
(* embedded/ufuse.py, the file system commands: cmd_fc .. cmd_fw.  They    *)
(* are the only commands that work on the table of open files, _fd_cache.  *)
(*                                                                         *)
(* The file system is the set of paths that exist, each a file or a        *)
(* directory; contents are not modelled.  A command ends in one of three   *)
(* ways: it returns, it raises ServerError, or it raises another exception *)
(* (an OSError, a KeyError), which is answered as an error too but leaves  *)
(* the client's reader stuck (module UFuseClient): `wedged`.               *)
(***************************************************************************)
EXTENDS Integers, Sequences, FiniteSets, Functions

CONSTANTS
  Names,    \* names of directory entries
  Xfn,      \* the name rename() uses for an exchange, "_xfn_<pid>"
  Trees     \* file systems the device may start with

VARIABLES
  fs,       \* path -> "d" or "f", for the paths that exist
  fds,      \* _fd_cache: the file descriptors that are open
  lastFd,   \* _fd_last
  wedged,   \* has an unexpected exception stopped the reader?
  answer    \* the reply to the last request, until the caller has read it

devVars == <<fs, fds, lastFd, wedged, answer>>

Path == Seq(Names \cup {Xfn})
Root == <<>>

With(f, k, v) == [x \in DOMAIN f \cup {k} |-> IF x = k THEN v ELSE f[x]]
Without(f, k) == Restrict(f, DOMAIN f \ {k})

(* A request: command, path, second path, variant, descriptor and mode.    *)
Blank == [a |-> "", p |-> Root, q |-> Root, x |-> "", fd |-> 0, m |-> ""]
PathReq(a, p)    == [Blank EXCEPT !.a = a, !.p = p]
FdReq(a, fd)     == [Blank EXCEPT !.a = a, !.fd = fd]
OpenReq(p, m)    == [PathReq("fo", p) EXCEPT !.m = m]
MoveReq(p, q, x) == [PathReq("fm", p) EXCEPT !.q = q, !.x = x]

NoAnswer == [k |-> "", s |-> "", n |-> 0, l |-> <<>>]
Reply(s, n, l) ==
  /\ answer' = [k |-> "r", s |-> s, n |-> n, l |-> l]
  /\ UNCHANGED wedged
Done == Reply("", 0, <<>>)

(* raise ServerError(s)                                                    *)
Fail(s) ==
  /\ answer' = [k |-> "e", s |-> s, n |-> 0, l |-> <<>>]
  /\ UNCHANGED wedged

(* any other exception                                                     *)
Crash ==
  /\ answer' = [k |-> "e", s |-> "exc", n |-> 0, l |-> <<>>]
  /\ wedged' = TRUE

-----------------------------------------------------------------------------
Within(p, q)  == Len(p) <= Len(q) /\ SubSeq(q, 1, Len(p)) = p
Parent(p)     == SubSeq(p, 1, Len(p) - 1)
IsDir(f, p)   == p \in DOMAIN f /\ f[p] = "d"
IsFile(f, p)  == p \in DOMAIN f /\ f[p] = "f"
IsEmpty(f, p) == \A q \in DOMAIN f : Within(p, q) => q = p
Room(f, p)    == p # Root /\ p \notin DOMAIN f /\ IsDir(f, Parent(p))
Entries(p)    == {n \in Names \cup {Xfn} : Append(p, n) \in DOMAIN fs}

(* Files and directories under the root, each in a directory.              *)
IsTree(f) ==
  /\ DOMAIN f \subseteq Path
  /\ \A p \in DOMAIN f : f[p] \in {"d", "f"}
  /\ \A p \in DOMAIN f \ {Root} : IsDir(f, Parent(p))
  /\ IsDir(f, Root)

ASSUME DeviceFSAssumption ==
  /\ IsFiniteSet(Names)
  /\ Xfn \notin Names
  /\ \A t \in Trees : IsTree(t)

(* The errno of a path that does not exist: ENOENT, which the commands     *)
(* below turn into ServerError("fn"), or on some ports ENOTDIR if the path *)
(* leads through a file.                                                   *)
Missing(p) ==
  /\ \/ Fail("fn")
     \/ /\ \E q \in DOMAIN fs : Within(q, p) /\ IsFile(fs, q)
        /\ Crash
  /\ UNCHANGED fs

cmd_fg(r) ==
  /\ \/ r.p \in DOMAIN fs /\ Reply(fs[r.p], 0, <<>>) /\ UNCHANGED fs
     \/ r.p \notin DOMAIN fs /\ Missing(r.p)
  /\ UNCHANGED <<fds, lastFd>>

cmd_fd(r) ==
  /\ IF IsDir(fs, r.p)
     THEN \E l \in [1 .. Cardinality(Entries(r.p)) -> Entries(r.p)] :
            /\ IsInjective(l)
            /\ Reply("", 0, l)
     ELSE Crash
  /\ UNCHANGED <<fs, fds, lastFd>>

cmd_fD(r) ==
  /\ IF Room(fs, r.p)
     THEN fs' = With(fs, r.p, "d") /\ Done
     ELSE UNCHANGED fs /\ Crash
  /\ UNCHANGED <<fds, lastFd>>

cmd_fn(r) ==
  /\ IF Room(fs, r.p) \/ IsFile(fs, r.p)
     THEN fs' = With(fs, r.p, "f") /\ Done
     ELSE UNCHANGED fs /\ Crash
  /\ UNCHANGED <<fds, lastFd>>

cmd_fu(r) ==
  /\ \/ IsFile(fs, r.p) /\ fs' = Without(fs, r.p) /\ Done
     \/ IsDir(fs, r.p) /\ UNCHANGED fs /\ Crash
     \/ r.p \notin DOMAIN fs /\ Missing(r.p)
  /\ UNCHANGED <<fds, lastFd>>

cmd_fU(r) ==
  /\ LET gone == IsDir(fs, r.p) /\ IsEmpty(fs, r.p) /\ r.p # Root
     IN  \/ gone /\ fs' = Without(fs, r.p) /\ Done
         \/ r.p \in DOMAIN fs /\ ~gone /\ UNCHANGED fs /\ Crash
         \/ r.p \notin DOMAIN fs /\ Missing(r.p)
  /\ UNCHANGED <<fds, lastFd>>

-----------------------------------------------------------------------------
(* uos.rename(p, q) on the file system s.fs, unless an earlier step of the *)
(* same command has failed.  It replaces a file by a file, and a directory *)
(* by a directory if that is empty.                                        *)
CanMove(f, p, q) ==
  /\ p \in DOMAIN f \ {Root}
  /\ \/ p = q
     \/ ~Within(p, q) /\ Room(f, q)
     \/ ~Within(p, q) /\ q \in DOMAIN f /\ f[q] = f[p] /\ IsEmpty(f, q)

Move(f, p, q) ==
  LET there(x) == q \o SubSeq(x, Len(p) + 1, Len(x))
      back(y)  == p \o SubSeq(y, Len(q) + 1, Len(y))
      moved    == {x \in DOMAIN f : Within(p, x)}
      news     == {there(x) : x \in moved}
  IN  [y \in (DOMAIN f \ moved) \cup news |->
         IF y \in news THEN f[back(y)] ELSE f[y]]

Rename(s, p, q) ==
  IF s.ok /\ CanMove(s.fs, p, q)
  THEN [ok |-> TRUE, fs |-> Move(s.fs, p, q)]
  ELSE [ok |-> FALSE, fs |-> s.fs]

(* The three renames of an exchange, via the third name.                   *)
Exchange(f, p, q, third) ==
  LET one == Rename([ok |-> TRUE, fs |-> f], p, third)
      two == Rename(one, q, p)
  IN  Rename(two, third, q)

(* Variants: "" replaces the destination, "n" must not, "x" exchanges.     *)
cmd_fm(r) ==
  /\ LET third == <<Xfn>>
         s == IF r.x = "x" THEN Exchange(fs, r.p, r.q, third)
                           ELSE Rename([ok |-> TRUE, fs |-> fs], r.p, r.q)
     IN  IF r.p \notin DOMAIN fs
         THEN Crash /\ UNCHANGED fs
         ELSE IF \/ r.x = "n" /\ r.q \in DOMAIN fs
                 \/ r.x = "x" /\ third \in DOMAIN fs
              THEN Fail("fx") /\ UNCHANGED fs
              ELSE /\ fs' = s.fs
                   /\ IF s.ok THEN Done ELSE Crash
  /\ UNCHANGED <<fds, lastFd>>

-----------------------------------------------------------------------------
_add_f ==
  /\ lastFd' = lastFd + 1
  /\ fds' = fds \cup {lastFd'}
  /\ Reply("", lastFd', <<>>)

(* The modes that create a file which does not exist: w, a, a+.            *)
Creating == {"w", "a", "a+"}

cmd_fo(r) ==
  \/ /\ IsFile(fs, r.p) \/ (r.m \in Creating /\ Room(fs, r.p))
     /\ fs' = With(fs, r.p, "f")
     /\ _add_f
  \/ /\ IsDir(fs, r.p)
     /\ Crash
     /\ UNCHANGED <<fs, fds, lastFd>>
  \/ /\ r.p \notin DOMAIN fs
     /\ ~(r.m \in Creating /\ Room(fs, r.p))
     /\ Missing(r.p)
     /\ UNCHANGED <<fds, lastFd>>

(* fr and fw: what they return does not matter here, but fw finds the file *)
(* system full at any time.                                                *)
cmd_fr(r) ==
  /\ IF r.fd \in fds THEN Done ELSE Crash
  /\ UNCHANGED <<fs, fds, lastFd>>

cmd_fw(r) ==
  /\ \/ r.fd \in fds /\ Done
     \/ Crash
  /\ UNCHANGED <<fs, fds, lastFd>>

cmd_fc(r) ==
  /\ IF r.fd \in fds
     THEN fds' = fds \ {r.fd} /\ Done
     ELSE UNCHANGED fds /\ Crash
  /\ UNCHANGED <<fs, lastFd>>

(* The device runs the request r.                                          *)
Command(r) ==
  /\ answer = NoAnswer
  /\ ~wedged
  /\ \/ r.a = "fg" /\ cmd_fg(r)
     \/ r.a = "fd" /\ cmd_fd(r)
     \/ r.a = "fD" /\ cmd_fD(r)
     \/ r.a = "fn" /\ cmd_fn(r)
     \/ r.a = "fu" /\ cmd_fu(r)
     \/ r.a = "fU" /\ cmd_fU(r)
     \/ r.a = "fm" /\ cmd_fm(r)
     \/ r.a = "fo" /\ cmd_fo(r)
     \/ r.a = "fr" /\ cmd_fr(r)
     \/ r.a = "fw" /\ cmd_fw(r)
     \/ r.a = "fc" /\ cmd_fc(r)

(* A program on the device, or another client, changes the file system.    *)
Elsewhere ==
  /\ \E n \in Names :
       \/ Room(fs, <<n>>) /\ \E k \in {"d", "f"} : fs' = With(fs, <<n>>, k)
       \/ <<n>> \in DOMAIN fs /\ IsEmpty(fs, <<n>>) /\ fs' = Without(fs, <<n>>)
  /\ UNCHANGED <<fds, lastFd, wedged, answer>>

DevInit ==
  /\ fs \in Trees
  /\ fds = {}
  /\ lastFd = 0
  /\ wedged = FALSE
  /\ answer = NoAnswer

DevTypeOK ==
  /\ IsTree(fs)
  /\ lastFd \in Nat
  /\ fds \subseteq 1 .. lastFd
  /\ wedged \in BOOLEAN
  /\ answer.k \in {"", "r", "e"}

=============================================================================
