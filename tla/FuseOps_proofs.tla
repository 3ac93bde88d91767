--------------------------- MODULE FuseOps_proofs ---------------------------
(***************************************************************************)
(* FuseOps, for every number of handlers, every file system and every      *)
(* length of run.  First the inode maps: each step changes them by i_add   *)
(* or i_del, if at all, and these keep them in agreement and never give a  *)
(* number out twice.  Then the handlers that wait for the device, which    *)
(* the rest builds upon: the descriptors and the directory handles; last,  *)
(* the device's file system stays a tree, and the entries that lookup,     *)
(* mkdir and create hand out are those of the paths asked for.             *)
(***************************************************************************)
EXTENDS FuseInv, FiniteSetTheorems, SequenceTheorems, NaturalsInduction,
        WellFoundedInduction, TLAPS

(* What a step may do to the names of inodes.                              *)
InodesKept ==
  \A i \in DOMAIN pathOf' :
    IF i \in DOMAIN pathOf THEN pathOf'[i] = pathOf[i] ELSE i > lastInode

(* How a step may change the maps.                                         *)
MapChange ==
  \/ UNCHANGED mapVars
  \/ \E p : i_add(p)
  \/ \E i : i_del(i)

-----------------------------------------------------------------------------
(* Without, seen through its domain and values.                             *)
LEMMA WithoutDef ==
  ASSUME NEW f, NEW k
  PROVE  /\ DOMAIN Without(f, k) = DOMAIN f \ {k}
         /\ \A x \in DOMAIN f : x # k => Without(f, k)[x] = f[x]
BY DEF Without, Restrict

(* Unchanged maps stay as they are.                                        *)
LEMMA SameMaps ==
  ASSUME InodeInv, UNCHANGED mapVars
  PROVE  InodeInv' /\ InodesKept
BY DEF InodeInv, MapsAgree, InodesKept, mapVars

(* i_add finds the path's inode or gives it the next number.               *)
LEMMA AddKeeps ==
  ASSUME InodeInv, NEW p, i_add(p)
  PROVE  InodeInv' /\ InodesKept
<1>1. CASE p \in DOMAIN inodeOf
  BY <1>1, SameMaps DEF i_add
<1>2. CASE p \notin DOMAIN inodeOf
  <2> DEFINE new == lastInode + 1
  <2>1. /\ lastInode' = new
        /\ pathOf' = With(pathOf, new, p)
        /\ inodeOf' = With(inodeOf, p, new)
    BY <1>2 DEF i_add
  <2>2. /\ lastInode \in Nat
        /\ new \in Nat
        /\ DOMAIN pathOf \subseteq 1 .. lastInode
        /\ new \notin DOMAIN pathOf
    BY DEF InodeInv
  <2>3. /\ DOMAIN pathOf' = DOMAIN pathOf \cup {new}
        /\ pathOf'[new] = p
        /\ \A i \in DOMAIN pathOf : pathOf'[i] = pathOf[i]
    BY <2>1, <2>2 DEF With
  <2>4. /\ DOMAIN inodeOf' = DOMAIN inodeOf \cup {p}
        /\ inodeOf'[p] = new
        /\ \A q \in DOMAIN inodeOf : inodeOf'[q] = inodeOf[q]
    BY <2>1, <1>2 DEF With
  <2>5. MapsAgree'
    <3>1. MapsAgree
      BY DEF InodeInv
    <3>2. ASSUME NEW i \in DOMAIN pathOf'
          PROVE  pathOf'[i] \in DOMAIN inodeOf' /\ inodeOf'[pathOf'[i]] = i
      BY <2>3, <2>4, <3>1, <3>2 DEF MapsAgree
    <3>3. ASSUME NEW q \in DOMAIN inodeOf'
          PROVE  inodeOf'[q] \in DOMAIN pathOf' /\ pathOf'[inodeOf'[q]] = q
      BY <2>3, <2>4, <3>1, <3>3 DEF MapsAgree
    <3> QED BY <3>2, <3>3 DEF MapsAgree
  <2>6. DOMAIN pathOf' \subseteq 1 .. lastInode'
    BY <2>1, <2>2, <2>3
  <2>7. InodesKept
    BY <2>2, <2>3 DEF InodesKept
  <2> QED BY <2>1, <2>2, <2>5, <2>6, <2>7 DEF InodeInv
<1> QED BY <1>1, <1>2

(* i_del takes an inode and its path out of both maps.                     *)
LEMMA DelKeeps ==
  ASSUME InodeInv, NEW i, i_del(i)
  PROVE  InodeInv' /\ InodesKept
<1>1. CASE i \notin DOMAIN pathOf
  BY <1>1, SameMaps DEF i_del
<1>2. CASE i \in DOMAIN pathOf
  <2> DEFINE p == pathOf[i]
  <2>1. /\ lastInode' = lastInode
        /\ pathOf' = Without(pathOf, i)
        /\ inodeOf' = Without(inodeOf, pathOf[i])
    BY <1>2 DEF i_del
  <2>2. /\ DOMAIN pathOf' = DOMAIN pathOf \ {i}
        /\ \A j \in DOMAIN pathOf : j # i => pathOf'[j] = pathOf[j]
    BY <2>1, WithoutDef
  <2>3. /\ DOMAIN inodeOf' = DOMAIN inodeOf \ {pathOf[i]}
        /\ \A q \in DOMAIN inodeOf : q # pathOf[i] => inodeOf'[q] = inodeOf[q]
    BY <2>1, WithoutDef
  <2>4. MapsAgree'
    <3>1. MapsAgree
      BY DEF InodeInv
    <3>2. ASSUME NEW j \in DOMAIN pathOf'
          PROVE  pathOf'[j] \in DOMAIN inodeOf' /\ inodeOf'[pathOf'[j]] = j
      BY <1>2, <2>2, <2>3, <3>1, <3>2 DEF MapsAgree
    <3>3. ASSUME NEW q \in DOMAIN inodeOf'
          PROVE  inodeOf'[q] \in DOMAIN pathOf' /\ pathOf'[inodeOf'[q]] = q
      BY <1>2, <2>2, <2>3, <3>1, <3>3 DEF MapsAgree
    <3> QED BY <3>2, <3>3 DEF MapsAgree
  <2>5. InodesKept
    BY <2>2 DEF InodesKept
  <2> QED BY <2>1, <2>2, <2>4, <2>5 DEF InodeInv
<1> QED BY <1>1, <1>2

LEMMA ChangeKeeps ==
  ASSUME InodeInv, MapChange
  PROVE  InodeInv' /\ InodesKept
BY SameMaps, AddKeeps, DelKeeps DEF MapChange

-----------------------------------------------------------------------------
(* What the kernel asks for touches the maps only in create and readdir.   *)
LEMMA KernelMaps ==
  ASSUME NEW h, Kernel(h)
  PROVE  MapChange
<1>1. ASSUME NEW i, NEW n, Lookup(h, i, n) PROVE MapChange
  BY <1>1 DEF Lookup, Unmapped, MapChange
<1>2. ASSUME NEW i, NEW n, NEW m, Create(h, i, n, m) PROVE MapChange
  BY <1>2 DEF Create, Unmapped, MapChange
<1>3. ASSUME NEW i, NEW n, Mkdir(h, i, n) \/ Unlink(h, i, n) \/ Rmdir(h, i, n)
      PROVE MapChange
  BY <1>3 DEF Mkdir, Unlink, Rmdir, OnName, Unmapped, MapChange
<1>4. ASSUME NEW i, NEW n, NEW j, NEW m, NEW x, RenameCall(h, i, n, j, m, x)
      PROVE MapChange
  BY <1>4 DEF RenameCall, Unmapped, MapChange
<1>5. ASSUME NEW i, Getattr(h, i) \/ Opendir(h, i) PROVE MapChange
  BY <1>5 DEF Getattr, Opendir, Unmapped, MapChange
<1>6. ASSUME NEW i, NEW m, Open(h, i, m) PROVE MapChange
  BY <1>6 DEF Open, Unmapped, MapChange
<1>7. ASSUME NEW i, Forget(h, i) PROVE MapChange
  BY <1>7 DEF Forget, MapChange
<1>8. ASSUME NEW fh, NEW a, ReadWrite(h, fh, a) PROVE MapChange
  BY <1>8 DEF ReadWrite, MapChange
<1>9. ASSUME NEW fh, Release(h, fh) PROVE MapChange
  BY <1>9 DEF Release, MapChange
<1>10. ASSUME NEW fh, Readdir(h, fh) PROVE MapChange
  BY <1>10 DEF Readdir, NextEntry, MapChange
<1>11. ASSUME NEW fh, Releasedir(h, fh) PROVE MapChange
  BY <1>11 DEF Releasedir, MapChange
<1> QED
  BY <1>1, <1>2, <1>3, <1>4, <1>5, <1>6, <1>7, <1>8, <1>9, <1>10, <1>11
  DEF Kernel

(* A handler that goes on adds an inode, or drops one that is gone.        *)
LEMMA ResumeMaps ==
  ASSUME NEW h, Resume(h)
  PROVE  MapChange
<1>1. CASE LookupNew(h) \/ MadeDir(h) \/ Created(h)
  BY <1>1 DEF LookupNew, MadeDir, Created, MapChange
<1>2. CASE StatFail(h) \/ CreateFail(h)
  BY <1>2 DEF StatFail, CreateFail, MapChange
<1>3. CASE EntryOk(h)
  BY <1>3 DEF EntryOk, NextEntry, Listed, MapChange
<1>4. CASE EntryFull(h)
  BY <1>4 DEF EntryFull, Listed, MapChange
<1>5. CASE StatOk(h) \/ Changed(h) \/ Refused(h)
  BY <1>5 DEF StatOk, Changed, Refused, MapChange
<1>6. CASE Opened(h) \/ CreateOpened(h) \/ CreateOk(h) \/ DirOpened(h)
  BY <1>6 DEF Opened, CreateOpened, CreateOk, DirOpened, MapChange
<1>7. CASE MoreIO(h) \/ IODone(h) \/ IOFail(h)
  BY <1>7 DEF MoreIO, IODone, IOFail, MapChange
<1> QED
  BY <1>1, <1>2, <1>3, <1>4, <1>5, <1>6, <1>7 DEF Resume

LEMMA StepMaps ==
  ASSUME [Next]_vars
  PROVE  MapChange
<1>1. CASE Host
  BY <1>1, KernelMaps, ResumeMaps DEF Host
<1>2. CASE Device
  BY <1>2 DEF Device, hostVars, MapChange
<1>3. CASE Other
  BY <1>3 DEF Other, hostVars, MapChange
<1>4. CASE UNCHANGED vars
  BY <1>4 DEF vars, hostVars, MapChange
<1> QED BY <1>1, <1>2, <1>3, <1>4 DEF Next

LEMMA InitMaps == Init => InodeInv
BY DEF Init, FuseInit, InodeInv, MapsAgree, ROOT

-----------------------------------------------------------------------------
(* The strengthened invariant: the maps agree and every number in use is   *)
(* below the counter.                                                      *)
THEOREM InodeInvariance == Spec => []InodeInv
<1>1. InodeInv /\ [Next]_vars => InodeInv'
  BY StepMaps, ChangeKeeps
<1> QED BY InitMaps, <1>1, PTL DEF Spec

(* _inode_path_map and _path_inode_map always are each other's inverse.    *)
THEOREM MapsAgreement == Spec => []MapsAgree
<1>1. InodeInv => MapsAgree
  BY DEF InodeInv
<1> QED BY <1>1, InodeInvariance, PTL

(* The number of an inode never comes to name another path.                *)
THEOREM InodesStayPut == Spec => InodesNotReused
<1>1. InodeInv /\ [Next]_vars => [InodesKept]_vars
  BY StepMaps, ChangeKeeps
<1>2. InodesNotReused <=> [][InodesKept]_vars
  BY PTL DEF InodesNotReused, InodesKept
<1> QED BY <1>1, <1>2, InodeInvariance, PTL DEF Spec

-----------------------------------------------------------------------------
(* The queue of Link.send.                                                 *)
LEMMA QueueAppend ==
  ASSUME NEW S, NEW s \in Seq(S), NEW e \in S, IsInjective(s), e \notin Range(s)
  PROVE  /\ Append(s, e) \in Seq(S)
         /\ Append(s, e) # <<>>
         /\ IsInjective(Append(s, e))
         /\ Range(Append(s, e)) = Range(s) \cup {e}
         /\ s # <<>> => Head(Append(s, e)) = Head(s)
         /\ s = <<>> => Head(Append(s, e)) = e
<1> DEFINE t == Append(s, e)
<1>1. /\ t \in Seq(S)
      /\ Len(s) \in Nat
      /\ DOMAIN s = 1 .. Len(s)
      /\ DOMAIN t = 1 .. Len(s) + 1
      /\ \A a \in 1 .. Len(s) : t[a] = s[a]
      /\ t[Len(s) + 1] = e
  OBVIOUS
<1>2. t # <<>> /\ (s # <<>> => Head(t) = Head(s)) /\ (s = <<>> => Head(t) = e)
  OBVIOUS
<1> HIDE DEF t
<1>3. Range(t) = Range(s) \cup {e}
  <2>1. \A x \in Range(t) : x \in Range(s) \cup {e}
    BY <1>1 DEF Range
  <2>2. \A x \in Range(s) : x \in Range(t)
    BY <1>1 DEF Range
  <2>3. e \in Range(t)
    BY <1>1 DEF Range
  <2> QED BY <2>1, <2>2, <2>3
<1>4. IsInjective(t)
  BY <1>1 DEF Range, IsInjective
<1> QED BY <1>1, <1>2, <1>3, <1>4 DEF t

LEMMA QueueTail ==
  ASSUME NEW S, NEW s \in Seq(S), s # <<>>, IsInjective(s)
  PROVE  /\ Head(s) \in S
         /\ Head(s) \in Range(s)
         /\ Tail(s) \in Seq(S)
         /\ IsInjective(Tail(s))
         /\ Range(Tail(s)) = Range(s) \ {Head(s)}
<1> DEFINE t == Tail(s)
<1>1. /\ t \in Seq(S)
      /\ Len(s) \in Nat \ {0}
      /\ DOMAIN s = 1 .. Len(s)
      /\ DOMAIN t = 1 .. Len(s) - 1
      /\ \A a \in 1 .. Len(s) - 1 : t[a] = s[a + 1]
      /\ Head(s) = s[1]
      /\ Head(s) \in S
  OBVIOUS
<1> HIDE DEF t
<1>2. \A a, b \in 1 .. Len(s) : s[a] = s[b] => a = b
  BY <1>1 DEF IsInjective
<1>3. IsInjective(t)
  BY <1>1, <1>2 DEF IsInjective
<1>4. Head(s) \in Range(s)
  BY <1>1 DEF Range
<1>5. \A x \in Range(t) : x \in Range(s) \ {Head(s)}
  BY <1>1, <1>2 DEF Range
<1>6. ASSUME NEW x \in Range(s) \ {Head(s)} PROVE x \in Range(t)
  <2>1. PICK a \in 1 .. Len(s) : s[a] = x
    BY <1>1 DEF Range
  <2>2. a - 1 \in 1 .. Len(s) - 1 /\ t[a - 1] = x
    BY <1>1, <1>6, <2>1
  <2> QED BY <1>1, <2>2 DEF Range
<1> QED BY <1>1, <1>3, <1>4, <1>5, <1>6 DEF t

-----------------------------------------------------------------------------
(* How a step may change the handlers: h starts, asks again or is done.    *)
Fields == DOMAIN Idle

HasAsked(h, P) ==
  /\ DOMAIN task' = DOMAIN task
  /\ \A g \in Handlers \ {h} : task'[g] = task[g]
  /\ DOMAIN task'[h] = Fields
  /\ <<task'[h].op, task'[h].req.a>> \in P
  /\ mounted' = mounted

Enters(h, P) ==
  /\ HasAsked(h, P)
  /\ task[h] = Idle
  /\ waiters' = Append(waiters, h)
  /\ answer' = answer

Again(h, P) ==
  /\ HasAsked(h, P)
  /\ waiters # <<>>
  /\ h = Head(waiters)
  /\ waiters' = Append(Tail(waiters), h)
  /\ answer' = NoAnswer

Leaves(h) ==
  /\ waiters # <<>>
  /\ h = Head(waiters)
  /\ task' = [task EXCEPT ![h] = Idle]
  /\ waiters' = Tail(waiters)
  /\ answer' = NoAnswer
  /\ mounted' = mounted

LEMMA AskEffect ==
  ASSUME NEW h \in Handlers, DOMAIN task = Handlers, NEW t, DOMAIN t = Fields,
         NEW r, NEW ws, Ask(h, t, r, ws)
  PROVE  /\ HasAsked(h, {<<t.op, r.a>>})
         /\ waiters' = Append(ws, h)
         /\ task'[h].req = r
         /\ task'[h].fh = t.fh
         /\ task'[h].i = t.i
         /\ task'[h].pos = t.pos
         /\ task'[h].got = t.got
BY DEF Ask, HasAsked, Fields, Idle

LEMMA EnterEffect ==
  ASSUME NEW h \in Handlers, DOMAIN task = Handlers, NEW t, DOMAIN t = Fields,
         NEW r, Start(h), Ask(h, t, r, waiters), NEW P, <<t.op, r.a>> \in P
  PROVE  Enters(h, P)
<1>1. HasAsked(h, {<<t.op, r.a>>}) /\ waiters' = Append(waiters, h)
  BY AskEffect
<1> QED BY <1>1 DEF Enters, HasAsked, Start

LEMMA AgainEffect ==
  ASSUME NEW h \in Handlers, DOMAIN task = Handlers, NEW t, DOMAIN t = Fields,
         NEW r, NEW ops, NEW k, Answered(h, ops, k), Ask(h, t, r, Rest),
         NEW P, <<t.op, r.a>> \in P
  PROVE  Again(h, P)
<1>1. HasAsked(h, {<<t.op, r.a>>}) /\ waiters' = Append(Tail(waiters), h)
  BY AskEffect DEF Rest
<1> QED BY <1>1 DEF Again, HasAsked, Answered

LEMMA LeaveEffect ==
  ASSUME NEW h, NEW ops, NEW k, Answered(h, ops, k), Finish(h, Rest)
  PROVE  Leaves(h)
BY DEF Leaves, Answered, Finish, Rest

(* What a request of the kernel does to the handlers.                      *)
Untouched == UNCHANGED <<task, waiters, mounted, answer>>

OnePath == {<<"unlink", "fu">>, <<"rmdir", "fU">>, <<"mkdir", "fD">>}

LEMMA OnNameStep ==
  ASSUME NEW h \in Handlers, DOMAIN task = Handlers, NEW op, NEW i, NEW n, NEW r,
         OnName(h, op, i, n, r), <<op, r.a>> \in OnePath
  PROVE  Untouched \/ Enters(h, OnePath)
<1> DEFINE t == [Idle EXCEPT !.op = op, !.dirs = {i}, !.p = Child(i, n),
                             !.keys = <<<<i, n>>>>]
<1>1. CASE Unmapped(i)
  BY <1>1 DEF OnName, Unmapped, Start, Untouched
<1>2. CASE ~Unmapped(i)
  <2>1. Start(h) /\ Ask(h, t, r, waiters)
    BY <1>2 DEF OnName
  <2>2. DOMAIN t = Fields /\ t.op = op
    BY DEF Idle, Fields
  <2> HIDE DEF t
  <2> QED BY <2>1, <2>2, EnterEffect
<1> QED BY <1>1, <1>2

LEMMA LookupStep ==
  ASSUME NEW h \in Handlers, DOMAIN task = Handlers, NEW i, NEW n, Lookup(h, i, n)
  PROVE  Untouched \/ Enters(h, {<<"lookup", "fg">>})
<1> DEFINE p == Child(i, n)
           j == IF p \in DOMAIN inodeOf THEN inodeOf[p] ELSE None
           t == [Idle EXCEPT !.op = "lookup", !.dirs = {i}, !.p = p,
                             !.i = j, !.keys = <<<<i, n>>>>]
<1>1. CASE Unmapped(i)
  BY <1>1 DEF Lookup, Unmapped, Start, Untouched
<1>2. CASE ~Unmapped(i)
  <2>1. Start(h) /\ Ask(h, t, PathReq("fg", p), waiters)
    BY <1>2 DEF Lookup
  <2>2. DOMAIN t = Fields /\ <<t.op, PathReq("fg", p).a>> = <<"lookup", "fg">>
    BY DEF Idle, Fields, PathReq, Blank
  <2> HIDE DEF t, p
  <2> QED BY <2>1, <2>2, EnterEffect
<1> QED BY <1>1, <1>2

LEMMA InodeStep ==
  ASSUME NEW h \in Handlers, DOMAIN task = Handlers, NEW i, NEW m,
         Getattr(h, i) \/ Open(h, i, m) \/ Opendir(h, i)
  PROVE  \/ Untouched
         \/ Enters(h, {<<"getattr", "fg">>, <<"open", "fo">>, <<"opendir", "fd">>})
<1> DEFINE P == {<<"getattr", "fg">>, <<"open", "fo">>, <<"opendir", "fd">>}
           t(op) == [Idle EXCEPT !.op = op, !.i = i]
<1>1. CASE Unmapped(i)
  BY <1>1 DEF Getattr, Open, Opendir, Unmapped, Start, Untouched
<1>2. CASE ~Unmapped(i)
  <2>1. /\ Start(h)
        /\ \/ Ask(h, t("getattr"), StatReq(i), waiters)
           \/ Ask(h, t("open"), OpenReq(pathOf[i], m), waiters)
           \/ Ask(h, t("opendir"), PathReq("fd", pathOf[i]), waiters)
    BY <1>2 DEF Getattr, Open, Opendir
  <2>2. \A op : DOMAIN t(op) = Fields /\ t(op).op = op
    BY DEF Idle, Fields
  <2>3. /\ StatReq(i).a = "fg"
        /\ OpenReq(pathOf[i], m).a = "fo"
        /\ PathReq("fd", pathOf[i]).a = "fd"
    BY DEF StatReq, OpenReq, PathReq, Blank
  <2>4. PICK op, r : Ask(h, t(op), r, waiters) /\ <<op, r.a>> \in P
    BY <2>1, <2>3
  <2>5. DOMAIN t(op) = Fields /\ <<t(op).op, r.a>> \in P
    BY <2>2, <2>4
  <2> HIDE DEF t, P
  <2>6. Enters(h, P)
    BY <2>1, <2>4, <2>5, EnterEffect
  <2> QED BY <2>6 DEF P
<1> QED BY <1>1, <1>2

LEMMA CreateStep ==
  ASSUME NEW h \in Handlers, DOMAIN task = Handlers, NEW i, NEW n, NEW m,
         Create(h, i, n, m)
  PROVE  Untouched \/ Enters(h, {<<"create", "fn">>})
<1> DEFINE p == Child(i, n)
           t == [Idle EXCEPT !.op = "create", !.dirs = {i}, !.p = p,
                             !.i = InodeFor(p), !.keys = <<<<i, n>>>>]
           r == [PathReq("fn", p) EXCEPT !.m = m]
<1>1. CASE Unmapped(i)
  BY <1>1 DEF Create, Unmapped, Start, Untouched
<1>2. CASE ~Unmapped(i)
  <2>1. Start(h) /\ Ask(h, t, r, waiters)
    BY <1>2 DEF Create
  <2>2. DOMAIN t = Fields /\ <<t.op, r.a>> = <<"create", "fn">>
    BY DEF Idle, Fields, PathReq, Blank
  <2> HIDE DEF t, r
  <2> QED BY <2>1, <2>2, EnterEffect
<1> QED BY <1>1, <1>2

LEMMA RenameStep ==
  ASSUME NEW h \in Handlers, DOMAIN task = Handlers, NEW i, NEW n, NEW j, NEW m,
         NEW x, RenameCall(h, i, n, j, m, x)
  PROVE  Untouched \/ Enters(h, {<<"rename", "fm">>})
<1> DEFINE t == [Idle EXCEPT !.op = "rename", !.dirs = {i, j},
                             !.p = Child(i, n), !.keys = <<<<i, n>>, <<j, m>>>>]
           r == MoveReq(Child(i, n), Child(j, m), x)
<1>1. CASE Unmapped(i) \/ Unmapped(j)
  BY <1>1 DEF RenameCall, Unmapped, Start, Untouched
<1>2. CASE ~Unmapped(i) /\ ~Unmapped(j)
  <2>1. Start(h) /\ Ask(h, t, r, waiters)
    BY <1>2 DEF RenameCall
  <2>2. DOMAIN t = Fields /\ <<t.op, r.a>> = <<"rename", "fm">>
    BY DEF Idle, Fields, MoveReq, PathReq, Blank
  <2> HIDE DEF t, r
  <2> QED BY <2>1, <2>2, EnterEffect
<1> QED BY <1>1, <1>2

LEMMA ReadWriteStep ==
  ASSUME NEW h \in Handlers, DOMAIN task = Handlers, NEW fh, NEW a \in {"fr", "fw"},
         ReadWrite(h, fh, a)
  PROVE  Enters(h, {<<"io", "fr">>, <<"io", "fw">>})
<1> DEFINE t == [Idle EXCEPT !.op = "io", !.fh = fh, !.pos = 1]
           r == FdReq(a, fh)
<1>1. Start(h) /\ Ask(h, t, r, waiters)
  BY DEF ReadWrite
<1>2. DOMAIN t = Fields /\ t.op = "io" /\ r.a = a
  BY DEF Idle, Fields, FdReq, Blank
<1>3. <<t.op, r.a>> \in {<<"io", "fr">>, <<"io", "fw">>}
  BY <1>2
<1> HIDE DEF t, r
<1> QED BY <1>1, <1>2, <1>3, EnterEffect

LEMMA EntersMore ==
  ASSUME NEW h, NEW P, NEW Q, P \subseteq Q
  PROVE  /\ Enters(h, P) => Enters(h, Q)
         /\ Again(h, P) => Again(h, Q)
BY DEF Enters, Again, HasAsked

Died == mounted' = FALSE /\ UNCHANGED <<task, waiters>>

LEMMA ReleaseStep ==
  ASSUME NEW h \in Handlers, DOMAIN task = Handlers, NEW fh, Release(h, fh)
  PROVE  \/ Died /\ answer' = answer
         \/ /\ Enters(h, {<<"release", "fc">>})
            /\ task'[h].fh = fh
            /\ task'[h].req.fd = fh
<1> DEFINE t == [Idle EXCEPT !.op = "release", !.fh = fh]
           r == FdReq("fc", fh)
<1>1. CASE fdInode[fh] \in DOMAIN inodeFd
  <2>1. Start(h) /\ Ask(h, t, r, waiters)
    BY <1>1 DEF Release
  <2>2. DOMAIN t = Fields /\ <<t.op, r.a>> = <<"release", "fc">> /\ t.fh = fh /\ r.fd = fh
    BY DEF Idle, Fields, FdReq, Blank
  <2> HIDE DEF t, r
  <2>3. DOMAIN t = Fields /\ Ask(h, t, r, waiters)
    BY <2>1, <2>2
  <2>4. task'[h].fh = t.fh
    BY <2>3, AskEffect
  <2>5. task'[h].req = r
    BY <2>3 DEF Ask, Fields, Idle
  <2> QED BY <2>1, <2>2, <2>4, <2>5, EnterEffect
<1>2. CASE fdInode[fh] \notin DOMAIN inodeFd
  BY <1>2 DEF Release, Die, Died, Start
<1> QED BY <1>1, <1>2

Reads == {<<"readdir", "fg">>}

LEMMA ReaddirStep ==
  ASSUME NEW h \in Handlers, DOMAIN task = Handlers, NEW fh, Readdir(h, fh)
  PROVE  LET pos   == listing[fh].pos
             names == dirContent[fh].names
         IN  \/ /\ Untouched
                /\ listing' = [listing EXCEPT ![fh].end = "failed"]
             \/ /\ Untouched
                /\ pos = Len(names)
                /\ listing' = [listing EXCEPT ![fh].end = "done"]
             \/ /\ Enters(h, Reads)
                /\ pos < Len(names)
                /\ task'[h].fh = fh
                /\ task'[h].pos = pos
                /\ task'[h].got = <<>>
                /\ listing' = listing
<1> DEFINE d == dirContent[fh]
           s == [Idle EXCEPT !.op = "readdir", !.dirs = {d.i}, !.fh = fh,
                             !.pos = listing[fh].pos]
           u == [s EXCEPT !.p = pathOf[d.i]]
           p == Append(u.p, d.names[u.pos + 1])
           t == [u EXCEPT !.i = InodeFor(p)]
           r == PathReq("fg", p)
<1>1. s.pos = listing[fh].pos /\ u.fh = fh /\ u.pos = listing[fh].pos
  BY DEF Idle
<1>2. CASE Ask(h, t, r, waiters) /\ s.pos < Len(d.names) /\ listing' = listing
  <2>1. Start(h)
    BY DEF Readdir
  <2>2. DOMAIN t = Fields /\ <<t.op, r.a>> \in Reads /\ t.fh = fh /\ t.got = <<>>
    BY DEF Idle, Fields, PathReq, Blank, Reads
  <2>3. t.pos = listing[fh].pos
    BY DEF Idle
  <2>4. Ask(h, t, r, waiters)
    BY <1>2
  <2>5. listing[fh].pos < Len(d.names)
    BY <1>1, <1>2
  <2> HIDE DEF t, r, s
  <2>6. task'[h].fh = t.fh /\ task'[h].pos = t.pos /\ task'[h].got = t.got
    BY <2>2, <2>4, AskEffect
  <2>7. Enters(h, Reads)
    BY <2>1, <2>2, <2>4, EnterEffect
  <2> QED BY <1>2, <2>2, <2>3, <2>5, <2>6, <2>7
<1>3. CASE ~Ask(h, t, r, waiters)
  BY <1>1, <1>3 DEF Readdir, NextEntry, Start, Untouched
<1>4. CASE Ask(h, t, r, waiters) /\ ~(s.pos < Len(d.names) /\ listing' = listing)
  BY <1>1, <1>4 DEF Readdir, NextEntry, Start, Untouched
<1> QED BY <1>2, <1>3, <1>4

(* The first requests of the operations other than these two.              *)
Starts ==
  {<<"lookup", "fg">>, <<"getattr", "fg">>, <<"mkdir", "fD">>, <<"unlink", "fu">>,
   <<"rmdir", "fU">>, <<"rename", "fm">>, <<"create", "fn">>, <<"open", "fo">>,
   <<"io", "fr">>, <<"io", "fw">>, <<"opendir", "fd">>}

Tables == <<fdInode, handles, dirContent, lastDir, listing>>

LEMMA KernelSteps ==
  ASSUME NEW h \in Handlers, DOMAIN task = Handlers, Kernel(h)
  PROVE  \/ UNCHANGED Tables /\ (Untouched \/ Enters(h, Starts))
         \/ \E fh : Release(h, fh) \/ Readdir(h, fh) \/ Releasedir(h, fh)
<1> DEFINE Usual == UNCHANGED Tables /\ (Untouched \/ Enters(h, Starts))
<1>1. /\ OnePath \subseteq Starts
      /\ {<<"lookup", "fg">>} \subseteq Starts
      /\ {<<"getattr", "fg">>, <<"open", "fo">>, <<"opendir", "fd">>} \subseteq Starts
      /\ {<<"create", "fn">>} \subseteq Starts
      /\ {<<"rename", "fm">>} \subseteq Starts
      /\ {<<"io", "fr">>, <<"io", "fw">>} \subseteq Starts
  BY DEF Starts, OnePath
<1>2. ASSUME NEW i, NEW n, Lookup(h, i, n) PROVE Usual
  <2>1. UNCHANGED Tables
    BY <1>2 DEF Lookup, openVars, dirVars, kernelVars, Tables
  <2> QED BY <1>1, <1>2, <2>1, LookupStep, EntersMore
<1>3. ASSUME NEW i, NEW n, NEW m, Create(h, i, n, m) PROVE Usual
  <2>1. UNCHANGED Tables
    BY <1>3 DEF Create, openVars, dirVars, kernelVars, Tables
  <2> QED BY <1>1, <1>3, <2>1, CreateStep, EntersMore
<1>4. ASSUME NEW i, NEW n, Mkdir(h, i, n) \/ Unlink(h, i, n) \/ Rmdir(h, i, n)
      PROVE Usual
  <2>1. UNCHANGED Tables
    BY <1>4 DEF Mkdir, Unlink, Rmdir, openVars, dirVars, kernelVars, Tables
  <2>2. /\ <<"mkdir", PathReq("fD", Child(i, n)).a>> \in OnePath
        /\ <<"unlink", PathReq("fu", Child(i, n)).a>> \in OnePath
        /\ <<"rmdir", PathReq("fU", Child(i, n)).a>> \in OnePath
    BY DEF OnePath, PathReq, Blank
  <2>3. \/ OnName(h, "mkdir", i, n, PathReq("fD", Child(i, n)))
        \/ OnName(h, "unlink", i, n, PathReq("fu", Child(i, n)))
        \/ OnName(h, "rmdir", i, n, PathReq("fU", Child(i, n)))
    BY <1>4 DEF Mkdir, Unlink, Rmdir
  <2>4. Untouched \/ Enters(h, OnePath)
    BY <2>2, <2>3, OnNameStep
  <2> QED BY <1>1, <2>1, <2>4, EntersMore
<1>5. ASSUME NEW i, NEW n, NEW j, NEW m, NEW x, RenameCall(h, i, n, j, m, x)
      PROVE Usual
  <2>1. UNCHANGED Tables
    BY <1>5 DEF RenameCall, openVars, dirVars, kernelVars, Tables
  <2> QED BY <1>1, <1>5, <2>1, RenameStep, EntersMore
<1>6. ASSUME NEW i, NEW m, Getattr(h, i) \/ Open(h, i, m) \/ Opendir(h, i)
      PROVE Usual
  <2>1. UNCHANGED Tables
    BY <1>6 DEF Getattr, Open, Opendir, openVars, dirVars, kernelVars, Tables
  <2> QED BY <1>1, <1>6, <2>1, InodeStep, EntersMore
<1>7. ASSUME NEW i, Forget(h, i) PROVE Usual
  BY <1>7 DEF Forget, Start, openVars, dirVars, Tables, Untouched
<1>8. ASSUME NEW fh, NEW a \in {"fr", "fw"}, ReadWrite(h, fh, a) PROVE Usual
  <2>1. UNCHANGED Tables
    BY <1>8 DEF ReadWrite, openVars, dirVars, kernelVars, Tables
  <2> QED BY <1>1, <1>8, <2>1, ReadWriteStep, EntersMore
<1> HIDE DEF Usual
<1>9. Usual \/ \E fh : Release(h, fh) \/ Readdir(h, fh) \/ Releasedir(h, fh)
  BY <1>2, <1>3, <1>4, <1>5, <1>6, <1>7, <1>8 DEF Kernel
<1> QED BY <1>9 DEF Usual

(* What a handler that goes on does to the handlers: the usual cases leave *)
(* the tables alone.                                                       *)
Goes == {<<"mkdir", "fg">>, <<"create", "fo">>, <<"io", "fr">>, <<"io", "fw">>}

Usual(h) ==
  /\ UNCHANGED Tables
  /\ mounted
  /\ task[h].op \notin {"release", "readdir"}
  /\ ~Granted("fo")
  /\ Leaves(h) \/ Again(h, Goes)

LEMMA HeadRuns ==
  ASSUME WaitInv, waiters # <<>>
  PROVE  /\ Head(waiters) \in Handlers
         /\ <<task[Head(waiters)].op, task[Head(waiters)].req.a>> \in Requests
         /\ DOMAIN task = Handlers
         /\ DOMAIN task[Head(waiters)] = Fields
BY QueueTail DEF WaitInv, Fields

LEMMA LeavesUsual ==
  ASSUME WaitInv, NEW h,
         LookupNew(h) \/ StatOk(h) \/ Changed(h) \/ Refused(h) \/ CreateFail(h)
  PROVE  Usual(h)
<1>1. PICK ops, k : Answered(h, ops, k) /\ Finish(h, Rest)
  BY DEF LookupNew, StatOk, Changed, Refused, CreateFail
<1>2. Leaves(h)
  BY <1>1, LeaveEffect
<1>3. UNCHANGED Tables
  BY DEF LookupNew, StatOk, Changed, Refused, CreateFail, Tables, openVars, dirVars,
         kernelVars
<1>4. <<task[h].op, task[h].req.a>> \in Requests /\ h = Head(waiters)
  BY <1>1, HeadRuns DEF Answered
<1>5. mounted
  BY <1>1 DEF Answered
<1>6. task[h].op \notin {"release", "readdir"}
  BY DEF LookupNew, StatOk, Changed, Refused, CreateFail, Answered
<1>7. ~Granted("fo")
  <2>1. CASE LookupNew(h) \/ StatOk(h)
    BY <1>4, <2>1 DEF LookupNew, StatOk, Answered, Granted, Requests
  <2>2. CASE Changed(h)
    BY <1>4, <2>2 DEF Changed, Answered, Granted, Requests
  <2>3. CASE Refused(h) \/ CreateFail(h)
    BY <2>3 DEF Refused, CreateFail, Answered, Granted
  <2> QED BY <2>1, <2>2, <2>3
<1> QED BY <1>2, <1>3, <1>5, <1>6, <1>7 DEF Usual

LEMMA AgainUsual ==
  ASSUME WaitInv, NEW h, MadeDir(h) \/ Created(h) \/ MoreIO(h)
  PROVE  Usual(h)
<1>1. PICK ops, k : Answered(h, ops, k)
  BY DEF MadeDir, Created, MoreIO
<1>2. UNCHANGED Tables
  BY DEF MadeDir, Created, MoreIO, Tables, openVars, dirVars, kernelVars
<1>3. /\ h \in Handlers
      /\ h = Head(waiters)
      /\ DOMAIN task = Handlers
      /\ DOMAIN task[h] = Fields
      /\ <<task[h].op, task[h].req.a>> \in Requests
  BY <1>1, HeadRuns DEF Answered
<1>4. Again(h, Goes)
  <2>1. CASE MadeDir(h)
    <3> DEFINE t == [task[h] EXCEPT !.i = InodeFor(task[h].p)]
               r == PathReq("fg", task[h].p)
    <3>1. Ask(h, t, r, Rest)
      BY <2>1 DEF MadeDir
    <3>2. DOMAIN t = Fields /\ <<t.op, r.a>> \in Goes
      BY <1>3, <2>1 DEF MadeDir, Answered, Fields, Idle, PathReq, Blank, Goes
    <3> HIDE DEF t, r
    <3> QED BY <1>1, <1>3, <3>1, <3>2, AgainEffect
  <2>2. CASE Created(h)
    <3> DEFINE t == [task[h] EXCEPT !.i = InodeFor(task[h].p)]
               r == OpenReq(task[h].p, task[h].req.m)
    <3>1. Ask(h, t, r, Rest)
      BY <2>2 DEF Created
    <3>2. DOMAIN t = Fields /\ <<t.op, r.a>> \in Goes
      BY <1>3, <2>2 DEF Created, Answered, Fields, Idle, OpenReq, PathReq, Blank, Goes
    <3> HIDE DEF t, r
    <3> QED BY <1>1, <1>3, <3>1, <3>2, AgainEffect
  <2>3. CASE MoreIO(h)
    <3> DEFINE t == [task[h] EXCEPT !.pos = @ + 1]
               r == task[h].req
    <3>1. Ask(h, t, r, Rest)
      BY <2>3 DEF MoreIO
    <3>2. DOMAIN t = Fields /\ <<t.op, r.a>> \in Goes
      BY <1>3, <2>3 DEF MoreIO, Answered, Fields, Idle, Goes, Requests
    <3> HIDE DEF t, r
    <3> QED BY <1>1, <1>3, <3>1, <3>2, AgainEffect
  <2> QED BY <2>1, <2>2, <2>3
<1>5. mounted
  BY <1>1 DEF Answered
<1>6. task[h].op \notin {"release", "readdir"}
  BY DEF MadeDir, Created, MoreIO, Answered
<1>7. ~Granted("fo")
  BY <1>3 DEF MadeDir, Created, MoreIO, Answered, Granted, Requests
<1> QED BY <1>2, <1>4, <1>5, <1>6, <1>7 DEF Usual

(* The attributes of a directory's entry could not be got.                 *)
ReadFail(h) ==
  /\ Answered(h, {"readdir"}, "e")
  /\ Leaves(h)
  /\ listing' = [listing EXCEPT ![task[h].fh].end = "failed"]
  /\ UNCHANGED <<fdInode, handles, dirContent, lastDir>>

LEMMA StatFailStep ==
  ASSUME WaitInv, NEW h, StatFail(h)
  PROVE  Usual(h) \/ ReadFail(h)
<1>1. Leaves(h)
  BY LeaveEffect DEF StatFail
<1>2. UNCHANGED <<fdInode, handles, dirContent, lastDir>>
  BY DEF StatFail, openVars, dirVars
<1>3. ~Granted("fo") /\ task[h].op # "release" /\ mounted
  BY DEF StatFail, Answered, Granted
<1>4. CASE task[h].op = "readdir"
  BY <1>1, <1>2, <1>4 DEF StatFail, ReadFail, Answered
<1>5. CASE task[h].op # "readdir"
  <2>1. listing' = listing
    BY <1>5 DEF StatFail
  <2> QED BY <1>1, <1>2, <1>3, <1>5, <2>1 DEF Usual, Tables
<1> QED BY <1>4, <1>5

(* A request on an open descriptor has been answered.                      *)
Closed(h) ==
  /\ Answered(h, {"release"}, "r")
  /\ Leaves(h)
  /\ UNCHANGED Tables

LEMMA IODoneStep ==
  ASSUME WaitInv, NEW h, IODone(h)
  PROVE  Usual(h) \/ Closed(h)
<1>1. Leaves(h)
  BY LeaveEffect DEF IODone
<1>2. UNCHANGED Tables
  BY DEF IODone, Tables, openVars, dirVars, kernelVars
<1>3. CASE task[h].op = "release"
  BY <1>1, <1>2, <1>3 DEF IODone, Closed, Answered
<1>4. CASE task[h].op # "release"
  <2>1. task[h].op = "io" /\ mounted /\ h = Head(waiters) /\ waiters # <<>>
    BY <1>4 DEF IODone, Answered
  <2>2. ~Granted("fo")
    BY <2>1, HeadRuns DEF Granted, Requests
  <2> QED BY <1>1, <1>2, <2>1, <2>2 DEF Usual
<1> QED BY <1>3, <1>4

LEMMA ResumeSteps ==
  ASSUME WaitInv, NEW h, Resume(h)
  PROVE  \/ Usual(h) \/ ReadFail(h) \/ Closed(h) \/ IOFail(h)
         \/ Opened(h) \/ CreateOpened(h) \/ CreateOk(h)
         \/ DirOpened(h) \/ EntryOk(h) \/ EntryFull(h)
BY LeavesUsual, AgainUsual, StatFailStep, IODoneStep DEF Resume

LEMMA FreshStep ==
  ASSUME WaitInv, NEW h, CreateOpened(h)
  PROVE  \/ Leaves(h)
         \/ /\ Again(h, {<<"create", "fg">>})
            /\ task'[h].fh = answer.n
            /\ task'[h].i = task[h].i
<1>1. Answered(h, {"create"}, "r")
  BY DEF CreateOpened
<1>2. h \in Handlers /\ DOMAIN task = Handlers /\ DOMAIN task[h] = Fields
  BY <1>1, HeadRuns DEF Answered
<1>3. CASE task[h].i \in DOMAIN pathOf
  <2> DEFINE t == [task[h] EXCEPT !.fh = answer.n]
             r == StatReq(task[h].i)
  <2>1. Ask(h, t, r, Rest)
    BY <1>3 DEF CreateOpened
  <2>2. DOMAIN t = Fields /\ t.fh = answer.n /\ t.i = task[h].i
    BY <1>2 DEF Fields, Idle
  <2>3. <<t.op, r.a>> \in {<<"create", "fg">>}
    BY <1>1, <1>2 DEF Answered, Fields, Idle, StatReq, PathReq, Blank
  <2> HIDE DEF t, r
  <2>4. task'[h].fh = t.fh /\ task'[h].i = t.i
    BY <1>2, <2>1, <2>2, AskEffect
  <2> QED BY <1>1, <1>2, <2>1, <2>2, <2>3, <2>4, AgainEffect
<1>4. CASE task[h].i \notin DOMAIN pathOf
  BY <1>1, <1>4, LeaveEffect DEF CreateOpened
<1> QED BY <1>3, <1>4

(* An entry of a directory: the next one is asked for, or the listing is   *)
(* handed over.                                                            *)
LEMMA EntryStep ==
  ASSUME WaitInv, NEW h, EntryOk(h)
  PROVE  LET t     == task[h]
             names == dirContent[t.fh].names
             got   == Append(t.got, [n |-> names[t.pos + 1], i |-> t.i, k |-> answer.s])
         IN  \/ /\ t.pos + 1 < Len(names)
                /\ Again(h, Reads)
                /\ task'[h].fh = t.fh
                /\ task'[h].pos = t.pos + 1
                /\ task'[h].got = got
                /\ UNCHANGED Tables
             \/ /\ ~(t.pos + 1 < Len(names))
                /\ Listed(h, got, t.pos + 1)
                /\ Leaves(h)
<1> DEFINE names == dirContent[task[h].fh].names
           got == Append(task[h].got, [n |-> names[task[h].pos + 1], i |-> task[h].i,
                                       k |-> answer.s])
           u == [task[h] EXCEPT !.got = got, !.pos = @ + 1]
           p == Append(u.p, dirContent[u.fh].names[u.pos + 1])
           t == [u EXCEPT !.i = InodeFor(p)]
           r == PathReq("fg", p)
<1>1. Answered(h, {"readdir"}, "r")
  BY DEF EntryOk
<1>2. h \in Handlers /\ DOMAIN task = Handlers /\ DOMAIN task[h] = Fields
  BY <1>1, HeadRuns DEF Answered
<1>3. CASE task[h].pos + 1 < Len(names)
  <2>1. Ask(h, t, r, Rest) /\ UNCHANGED Tables
    BY <1>3 DEF EntryOk, NextEntry, Tables, openVars, dirVars, kernelVars
  <2> HIDE DEF got
  <2>2. DOMAIN t = Fields /\ t.fh = task[h].fh /\ t.pos = task[h].pos + 1 /\ t.got = got
    BY <1>2 DEF Fields, Idle
  <2>3. <<t.op, r.a>> \in Reads
    BY <1>1, <1>2 DEF Answered, Fields, Idle, PathReq, Blank, Reads
  <2> HIDE DEF t, r
  <2>4. task'[h].fh = t.fh /\ task'[h].pos = t.pos /\ task'[h].got = t.got
    BY <1>2, <2>1, <2>2 DEF Ask, Fields, Idle
  <2>5. Again(h, Reads)
    BY <1>1, <1>2, <2>1, <2>2, <2>3, AgainEffect
  <2> QED BY <1>3, <2>1, <2>2, <2>4, <2>5 DEF got
<1>4. CASE ~(task[h].pos + 1 < Len(names))
  <2>1. Listed(h, got, task[h].pos + 1)
    BY <1>4 DEF EntryOk
  <2> HIDE DEF got
  <2>2. Leaves(h)
    BY <1>1, <2>1, LeaveEffect DEF Listed
  <2> QED BY <1>4, <2>1, <2>2 DEF got
<1> QED BY <1>3, <1>4

LEMMA LeavesToo ==
  ASSUME WaitInv, NEW h, Opened(h) \/ CreateOk(h) \/ DirOpened(h) \/ EntryFull(h)
  PROVE  Leaves(h)
<1>1. PICK ops, k : Answered(h, ops, k) /\ Finish(h, Rest)
  BY DEF Opened, CreateOk, DirOpened, EntryFull, Listed
<1> QED BY <1>1, LeaveEffect

-----------------------------------------------------------------------------
(* The queue of Link.send holds the handlers that run.                     *)
LEMMA EntersWait ==
  ASSUME WaitInv, NEW h \in Handlers, Enters(h, Requests)
  PROVE  WaitInv'
<1>1. h \notin Range(waiters)
  BY DEF WaitInv, Enters
<1>2. waiters \in Seq(Handlers) /\ IsInjective(waiters)
  BY DEF WaitInv
<1>3. /\ Append(waiters, h) \in Seq(Handlers)
      /\ Append(waiters, h) # <<>>
      /\ IsInjective(Append(waiters, h))
      /\ Range(Append(waiters, h)) = Range(waiters) \cup {h}
  BY <1>1, <1>2, QueueAppend
<1>4. waiters' = Append(waiters, h)
  BY DEF Enters
<1>5. /\ waiters' \in Seq(Handlers)
      /\ waiters' # <<>>
      /\ IsInjective(waiters')
      /\ Range(waiters') = Range(waiters) \cup {h}
  BY <1>3, <1>4
<1>6. /\ DOMAIN task' = Handlers
      /\ \A g \in Handlers \ {h} : task'[g] = task[g]
      /\ DOMAIN task'[h] = DOMAIN Idle
      /\ <<task'[h].op, task'[h].req.a>> \in Requests
  BY DEF Enters, HasAsked, Fields, WaitInv
<1>7. task'[h] # Idle
  <2>1. task'[h].op # ""
    BY <1>6 DEF Requests
  <2>2. Idle.op = ""
    BY DEF Idle
  <2> QED BY <2>1, <2>2
<1>8. Range(waiters') = {g \in Handlers : task'[g] # Idle}
  BY <1>5, <1>6, <1>7 DEF WaitInv
<1>9. \A g \in Range(waiters') : <<task'[g].op, task'[g].req.a>> \in Requests
  BY <1>5, <1>6, <1>8 DEF WaitInv
<1>10. \A g \in Handlers : DOMAIN task'[g] = DOMAIN Idle
  BY <1>6 DEF WaitInv
<1> QED BY <1>5, <1>6, <1>8, <1>9, <1>10 DEF WaitInv

LEMMA AgainWait ==
  ASSUME WaitInv, NEW h, Again(h, Requests)
  PROVE  WaitInv'
<1>1. waiters \in Seq(Handlers) /\ IsInjective(waiters) /\ waiters # <<>> /\ h = Head(waiters)
  BY DEF WaitInv, Again
<1>2. /\ h \in Handlers
      /\ h \in Range(waiters)
      /\ Tail(waiters) \in Seq(Handlers)
      /\ IsInjective(Tail(waiters))
      /\ Range(Tail(waiters)) = Range(waiters) \ {h}
  BY <1>1, QueueTail
<1>3. PICK s \in Seq(Handlers) : s = Tail(waiters)
  BY <1>2
<1>4. /\ Append(s, h) \in Seq(Handlers)
      /\ Append(s, h) # <<>>
      /\ IsInjective(Append(s, h))
      /\ Range(Append(s, h)) = Range(s) \cup {h}
  <2>1. IsInjective(s) /\ h \notin Range(s)
    BY <1>2, <1>3
  <2> QED BY <1>2, <2>1, QueueAppend
<1>5. waiters' = Append(s, h)
  BY <1>3 DEF Again
<1>6. /\ waiters' \in Seq(Handlers)
      /\ waiters' # <<>>
      /\ IsInjective(waiters')
      /\ Range(waiters') = Range(waiters)
  BY <1>2, <1>3, <1>4, <1>5
<1>7. /\ DOMAIN task' = Handlers
      /\ \A g \in Handlers \ {h} : task'[g] = task[g]
      /\ DOMAIN task'[h] = DOMAIN Idle
      /\ <<task'[h].op, task'[h].req.a>> \in Requests
  BY DEF Again, HasAsked, Fields, WaitInv
<1>8. task'[h] # Idle
  <2>1. task'[h].op # ""
    BY <1>7 DEF Requests
  <2>2. Idle.op = ""
    BY DEF Idle
  <2> QED BY <2>1, <2>2
<1>9. Range(waiters') = {g \in Handlers : task'[g] # Idle}
  BY <1>2, <1>6, <1>7, <1>8 DEF WaitInv
<1>10. \A g \in Range(waiters') : <<task'[g].op, task'[g].req.a>> \in Requests
  BY <1>6, <1>7, <1>9 DEF WaitInv
<1>11. \A g \in Handlers : DOMAIN task'[g] = DOMAIN Idle
  BY <1>7 DEF WaitInv
<1> QED BY <1>6, <1>7, <1>9, <1>10, <1>11 DEF WaitInv

LEMMA LeavesWait ==
  ASSUME WaitInv, NEW h, Leaves(h)
  PROVE  WaitInv'
<1>1. waiters \in Seq(Handlers) /\ IsInjective(waiters) /\ waiters # <<>> /\ h = Head(waiters)
  BY DEF WaitInv, Leaves
<1>2. /\ h \in Handlers
      /\ h \in Range(waiters)
      /\ waiters' \in Seq(Handlers)
      /\ IsInjective(waiters')
      /\ Range(waiters') = Range(waiters) \ {h}
  BY <1>1, QueueTail DEF Leaves
<1>3. /\ DOMAIN task' = Handlers
      /\ \A g \in Handlers \ {h} : task'[g] = task[g]
      /\ task'[h] = Idle
      /\ answer' = NoAnswer
  BY <1>2 DEF Leaves, WaitInv
<1>4. Range(waiters') = {g \in Handlers : task'[g] # Idle}
  BY <1>2, <1>3 DEF WaitInv
<1>5. \A g \in Range(waiters') : <<task'[g].op, task'[g].req.a>> \in Requests
  BY <1>2, <1>3, <1>4 DEF WaitInv
<1>6. \A g \in Handlers : DOMAIN task'[g] = DOMAIN Idle
  BY <1>3 DEF WaitInv
<1> QED BY <1>2, <1>3, <1>4, <1>5, <1>6 DEF WaitInv

LEMMA StaysWait ==
  ASSUME WaitInv, UNCHANGED <<task, waiters>>,
         answer' = answer \/ answer' = NoAnswer \/ waiters # <<>>
  PROVE  WaitInv'
BY DEF WaitInv

LEMMA StepWait ==
  ASSUME WaitInv, [Next]_vars
  PROVE  WaitInv'
<1>1. DOMAIN task = Handlers
  BY DEF WaitInv
<1>2. ASSUME NEW h \in Handlers, Kernel(h) PROVE WaitInv'
  <2>1. CASE Untouched
    BY <2>1, StaysWait DEF Untouched
  <2>2. CASE Enters(h, Starts)
    <3>1. Starts \subseteq Requests
      BY DEF Starts, Requests
    <3> QED BY <2>2, <3>1, EntersMore, EntersWait
  <2>3. ASSUME NEW fh, Release(h, fh) PROVE WaitInv'
    <3>1. {<<"release", "fc">>} \subseteq Requests
      BY DEF Requests
    <3> QED BY <1>1, <2>3, <3>1, ReleaseStep, EntersMore, EntersWait, StaysWait DEF Died
  <2>4. ASSUME NEW fh, Readdir(h, fh) PROVE WaitInv'
    <3>1. Reads \subseteq Requests
      BY DEF Requests, Reads
    <3>2. Untouched \/ Enters(h, Reads)
      BY <1>1, <2>4, ReaddirStep
    <3> QED BY <2>1, <3>1, <3>2, EntersMore, EntersWait
  <2>5. ASSUME NEW fh, Releasedir(h, fh) PROVE WaitInv'
    BY <2>1, <2>5 DEF Releasedir, Start, Untouched
  <2> QED BY <1>1, <1>2, <2>1, <2>2, <2>3, <2>4, <2>5, KernelSteps
<1>3. ASSUME NEW h \in Handlers, Resume(h) PROVE WaitInv'
  <2>1. Goes \subseteq Requests /\ {<<"create", "fg">>} \subseteq Requests /\ Reads \subseteq Requests
    BY DEF Goes, Requests, Reads
  <2>2. CASE IOFail(h)
    BY <2>2, StaysWait DEF IOFail, Die, Answered
  <2>3. CASE Usual(h) \/ ReadFail(h) \/ Closed(h)
    BY <2>1, <2>3, LeavesWait, AgainWait, EntersMore DEF Usual, ReadFail, Closed
  <2>4. CASE CreateOpened(h) \/ EntryOk(h)
    <3>1. Leaves(h) \/ Again(h, {<<"create", "fg">>}) \/ Again(h, Reads)
      BY <2>4, FreshStep, EntryStep
    <3> QED BY <2>1, <3>1, LeavesWait, AgainWait, EntersMore
  <2>5. CASE Opened(h) \/ CreateOk(h) \/ DirOpened(h) \/ EntryFull(h)
    BY <2>5, LeavesToo, LeavesWait
  <2> QED BY <1>3, <2>2, <2>3, <2>4, <2>5, ResumeSteps
<1>4. CASE Host
  BY <1>2, <1>3, <1>4 DEF Host
<1>5. CASE Device
  BY <1>5, StaysWait DEF Device, hostVars, taskVars
<1>6. CASE Other
  BY <1>6, StaysWait DEF Other, hostVars, taskVars, Elsewhere
<1>7. CASE UNCHANGED vars
  BY <1>7, StaysWait DEF vars, hostVars, taskVars, devVars
<1> QED BY <1>4, <1>5, <1>6, <1>7 DEF Next

LEMMA InitWait == Init => WaitInv
<1> SUFFICES ASSUME Init PROVE WaitInv
  OBVIOUS
<1>1. /\ task = [h \in Handlers |-> Idle]
      /\ waiters = <<>>
      /\ answer = NoAnswer
  BY DEF Init, FuseInit, DevInit
<1>2. Range(waiters) = {} /\ IsInjective(waiters) /\ waiters \in Seq(Handlers)
  BY <1>1 DEF Range, IsInjective
<1> QED BY <1>1, <1>2 DEF WaitInv

(* Link.send's lock is held by handlers that run, each of them once.       *)
THEOREM WaitInvariance == Spec => []WaitInv
BY InitWait, StepWait, PTL DEF Spec

-----------------------------------------------------------------------------
(* The descriptors.  A handler that has gone on has taken its answer.      *)
LEMMA NoGrant ==
  ASSUME answer' = NoAnswer
  PROVE  \A a : ~Granted(a)'
BY DEF Granted, NoAnswer

LEMMA EnterGrant ==
  ASSUME WaitInv, NEW h \in Handlers, NEW P, Enters(h, P)
  PROVE  \A a : /\ Granted(a)' <=> Granted(a)
                /\ Granted(a) => /\ Head(waiters') = Head(waiters)
                                 /\ task'[Head(waiters')] = task[Head(waiters)]
<1>1. /\ waiters \in Seq(Handlers)
      /\ IsInjective(waiters)
      /\ h \notin Range(waiters)
      /\ waiters = <<>> => answer = NoAnswer
  BY DEF WaitInv, Enters
<1>2. waiters' = Append(waiters, h) /\ answer' = answer
  BY DEF Enters
<1>3. CASE waiters = <<>>
  <2>1. \A a : ~Granted(a)'
    BY <1>1, <1>2, <1>3, NoGrant
  <2>2. \A a : ~Granted(a)
    BY <1>3 DEF Granted
  <2> QED BY <2>1, <2>2
<1>4. CASE waiters # <<>>
  <2>1. Head(Append(waiters, h)) = Head(waiters) /\ Append(waiters, h) # <<>>
    BY <1>1, <1>4, QueueAppend
  <2>2. Head(waiters') = Head(waiters) /\ waiters' # <<>>
    BY <1>2, <2>1
  <2>3. Head(waiters) \in Handlers /\ Head(waiters) \in Range(waiters)
    BY <1>1, <1>4, QueueTail
  <2>4. task'[Head(waiters)] = task[Head(waiters)]
    BY <1>1, <2>3 DEF Enters, HasAsked
  <2> QED BY <1>2, <1>4, <2>2, <2>4 DEF Granted
<1> QED BY <1>3, <1>4

LEMMA IdleOp == Idle.op = ""
BY DEF Idle

(* Steps of other operations, and those that only read.                    *)
LEMMA DescFrame ==
  ASSUME DescInv, UNCHANGED <<fdInode, handles, fds, lastFd>>, mounted' => mounted,
         NEW h \in Handlers,
         \A g \in Handlers \ {h} : task'[g] = task[g],
         task[h].op # "release", task'[h].op # "release",
         ~(task'[h].op = "create" /\ task'[h].req.a = "fg"),
         Granted("fo") <=> Granted("fo")',
         Granted("fo") => answer' = answer,
         Granted("fc")' => Granted("fc") /\ Head(waiters') = Head(waiters)
                           /\ task'[Head(waiters')] = task[Head(waiters)]
  PROVE  DescInv'
<1>1. JustOpened' = JustOpened
  BY DEF JustOpened
<1>2. Closing' = Closing /\ \A g \in Closing : task'[g] = task[g]
  BY DEF Closing
<1>3. BeingClosed' = BeingClosed
  BY <1>2 DEF BeingClosed
<1>4. ASSUME NEW g \in Handlers
      PROVE  /\ Fresh(g)' => /\ task'[g].fh \in DOMAIN fdInode
                             /\ fdInode[task'[g].fh] = task'[g].i
             /\ g \in Closing' => /\ task'[g].req.fd = task'[g].fh
                                 /\ task'[g].fh \in (1 .. lastFd) \ DOMAIN fdInode
  <2>1. CASE g = h
    BY <1>2, <2>1 DEF Fresh, Closing
  <2>2. CASE g # h
    BY <1>2, <2>2 DEF Fresh, DescInv
  <2> QED BY <2>1, <2>2
<1>5. Granted("fo")' => answer'.n \in fds \ DOMAIN fdInode
  BY DEF DescInv
<1>6. Granted("fc")' => task'[Head(waiters')].fh \notin fds
  BY DEF DescInv
<1>7. mounted' => fds \ BeingClosed' = DOMAIN fdInode \cup JustOpened'
  BY <1>1, <1>3 DEF DescInv
<1> QED BY <1>4, <1>5, <1>6, <1>7 DEF DescInv

LEMMA EntersDesc ==
  ASSUME WaitInv, DescInv, NEW h \in Handlers, NEW P, Enters(h, P),
         P \subseteq Starts \cup Reads, UNCHANGED <<fdInode, handles, fds, lastFd>>
  PROVE  DescInv'
<1>1. \A g \in Handlers \ {h} : task'[g] = task[g]
  BY DEF Enters, HasAsked
<1>2. task[h].op # "release" /\ mounted' = mounted /\ answer' = answer
  BY IdleOp DEF Enters, HasAsked
<1>3. <<task'[h].op, task'[h].req.a>> \in Starts \cup Reads
  BY DEF Enters, HasAsked
<1>4. /\ task'[h].op # "release"
      /\ ~(task'[h].op = "create" /\ task'[h].req.a = "fg")
  BY <1>3 DEF Starts, Reads
<1> QED BY <1>1, <1>2, <1>4, EnterGrant, DescFrame

LEMMA LeavesDesc ==
  ASSUME WaitInv, DescInv, NEW h, Leaves(h), task[h].op # "release", ~Granted("fo"),
         UNCHANGED <<fdInode, handles, fds, lastFd>>
  PROVE  DescInv'
<1>1. h \in Handlers /\ DOMAIN task = Handlers
  BY HeadRuns DEF Leaves
<1>2. task'[h] = Idle /\ \A g \in Handlers \ {h} : task'[g] = task[g]
  BY <1>1 DEF Leaves
<1>3. \A a : ~Granted(a)'
  BY NoGrant DEF Leaves
<1>4. mounted' = mounted
  BY DEF Leaves
<1> QED BY <1>1, <1>2, <1>3, <1>4, IdleOp, DescFrame

LEMMA AgainDesc ==
  ASSUME WaitInv, DescInv, NEW h, NEW P, Again(h, P), P \subseteq Goes \cup Reads,
         task[h].op # "release", ~Granted("fo"),
         UNCHANGED <<fdInode, handles, fds, lastFd>>
  PROVE  DescInv'
<1>1. h \in Handlers /\ \A g \in Handlers \ {h} : task'[g] = task[g]
  BY HeadRuns DEF Again, HasAsked
<1>2. <<task'[h].op, task'[h].req.a>> \in Goes \cup Reads
  BY DEF Again, HasAsked
<1>3. /\ task'[h].op # "release"
      /\ ~(task'[h].op = "create" /\ task'[h].req.a = "fg")
  BY <1>2 DEF Goes, Reads
<1>4. \A a : ~Granted(a)'
  BY NoGrant DEF Again
<1>5. mounted' = mounted
  BY DEF Again, HasAsked
<1> QED BY <1>1, <1>3, <1>4, <1>5, DescFrame

LEMMA StaysDesc ==
  ASSUME WaitInv, DescInv, UNCHANGED <<task, waiters, answer, fdInode, handles, fds, lastFd>>,
         mounted' => mounted
  PROVE  DescInv'
<1>1. \A a : Granted(a)' <=> Granted(a)
  BY DEF Granted
<1>2. JustOpened' = JustOpened /\ BeingClosed' = BeingClosed /\ Closing' = Closing
  BY <1>1 DEF JustOpened, BeingClosed, Closing
<1>3. \A g \in Handlers : Fresh(g)' <=> Fresh(g)
  BY DEF Fresh
<1> QED BY <1>1, <1>2, <1>3 DEF DescInv

(* release: the descriptor leaves the map, and is being closed.            *)
LEMMA ReleaseDesc ==
  ASSUME WaitInv, DescInv, NEW h \in Handlers, NEW fh, Release(h, fh),
         UNCHANGED <<fds, lastFd>>
  PROVE  DescInv'
<1>1. /\ fh \in DOMAIN handles
      /\ \A g \in Handlers : task[g].fh # fh \/ task[g].op = "readdir"
      /\ handles' = Without(handles, fh)
      /\ fdInode' = Without(fdInode, fh)
  BY DEF Release
<1>2. /\ DOMAIN handles' = DOMAIN handles \ {fh}
      /\ \A x \in DOMAIN handles : x # fh => handles'[x] = handles[x]
      /\ DOMAIN fdInode' = DOMAIN fdInode \ {fh}
      /\ \A x \in DOMAIN fdInode : x # fh => fdInode'[x] = fdInode[x]
  BY <1>1, WithoutDef
<1>3. /\ fh \in DOMAIN fdInode
      /\ fh \in 1 .. lastFd
      /\ lastFd \in Nat
      /\ fds \subseteq 1 .. lastFd
      /\ DOMAIN fdInode \subseteq fds
  BY <1>1 DEF DescInv
<1>4. \A x \in DOMAIN handles' : x \in DOMAIN fdInode' /\ fdInode'[x] = handles'[x]
  BY <1>2 DEF DescInv
<1>5. \A g \in Handlers : Fresh(g) => task[g].fh # fh
  BY <1>1 DEF Fresh
<1>6. DOMAIN task = Handlers
  BY DEF WaitInv
<1>7. CASE Died /\ answer' = answer
  <2>1. \A a : Granted(a)' <=> Granted(a)
    BY <1>7 DEF Granted, Died
  <2>2. Closing' = Closing /\ \A g \in Handlers : Fresh(g)' <=> Fresh(g)
    BY <1>7 DEF Closing, Fresh, Died
  <2>3. \A g \in Handlers :
          /\ Fresh(g)' => /\ task'[g].fh \in DOMAIN fdInode'
                          /\ fdInode'[task'[g].fh] = task'[g].i
          /\ g \in Closing' => /\ task'[g].req.fd = task'[g].fh
                              /\ task'[g].fh \in (1 .. lastFd') \ DOMAIN fdInode'
    BY <1>2, <1>5, <1>7, <2>2 DEF DescInv, Died
  <2>4. /\ Granted("fo")' => answer'.n \in fds' \ DOMAIN fdInode'
        /\ Granted("fc")' => task'[Head(waiters')].fh \notin fds'
    BY <1>2, <1>7, <2>1 DEF DescInv, Died
  <2>5. ~mounted'
    BY <1>7 DEF Died
  <2> QED BY <1>2, <1>3, <1>4, <2>3, <2>4, <2>5 DEF DescInv
<1>8. CASE /\ Enters(h, {<<"release", "fc">>})
           /\ task'[h].fh = fh
           /\ task'[h].req.fd = fh
  <2>1. \A g \in Handlers \ {h} : task'[g] = task[g]
    BY <1>8 DEF Enters, HasAsked
  <2>2. task'[h].op = "release" /\ mounted' = mounted /\ answer' = answer
    BY <1>8 DEF Enters, HasAsked
  <2>3. Closing' = Closing \cup {h}
    BY <2>1, <2>2 DEF Closing
  <2>4. h \notin Closing
    BY <1>8, IdleOp DEF Closing, Enters
  <2>5. BeingClosed' = BeingClosed \cup {fh}
    BY <1>8, <2>1, <2>3, <2>4 DEF BeingClosed, Closing
  <2>6. \A a : /\ Granted(a)' <=> Granted(a)
               /\ Granted(a) => /\ Head(waiters') = Head(waiters)
                                /\ task'[Head(waiters')] = task[Head(waiters)]
    BY <1>8, EnterGrant
  <2>7. JustOpened' = JustOpened
    BY <2>2, <2>6 DEF JustOpened
  <2>8. fh \notin JustOpened
    BY <1>3 DEF JustOpened, DescInv
  <2>9. mounted' => fds' \ BeingClosed' = DOMAIN fdInode' \cup JustOpened'
    <3>1. mounted => fds \ BeingClosed = DOMAIN fdInode \cup JustOpened
      BY DEF DescInv
    <3> QED BY <1>2, <2>2, <2>5, <2>7, <2>8, <3>1
  <2>10. ASSUME NEW g \in Handlers
         PROVE  /\ Fresh(g)' => /\ task'[g].fh \in DOMAIN fdInode'
                                /\ fdInode'[task'[g].fh] = task'[g].i
                /\ g \in Closing' => /\ task'[g].req.fd = task'[g].fh
                                    /\ task'[g].fh \in (1 .. lastFd') \ DOMAIN fdInode'
    <3>1. CASE g = h
      BY <1>2, <1>3, <1>8, <2>2, <3>1 DEF Fresh
    <3>2. CASE g # h
      <4>1. Fresh(g)' <=> Fresh(g)
        BY <2>1, <3>2 DEF Fresh
      <4> QED BY <1>2, <1>5, <2>1, <2>3, <3>2, <4>1 DEF DescInv
    <3> QED BY <3>1, <3>2
  <2>11. /\ Granted("fo")' => answer'.n \in fds' \ DOMAIN fdInode'
         /\ Granted("fc")' => task'[Head(waiters')].fh \notin fds'
    BY <1>2, <2>2, <2>6 DEF DescInv
  <2> QED BY <1>2, <1>3, <1>4, <2>9, <2>10, <2>11 DEF DescInv
<1> QED BY <1>6, <1>7, <1>8, ReleaseStep

(* open: the descriptor that fo has returned enters the map.               *)
LEMMA OpenedDesc ==
  ASSUME WaitInv, DescInv, NEW h, Opened(h), UNCHANGED <<fds, lastFd>>
  PROVE  DescInv'
<1> DEFINE n == answer.n
           i == task[h].i
<1>1. /\ h = Head(waiters)
      /\ waiters # <<>>
      /\ task[h].op = "open"
      /\ answer.k = "r"
      /\ mounted
      /\ fdInode' = With(fdInode, n, i)
      /\ handles' = With(handles, n, i)
  BY DEF Opened, Answered, f_open
<1>2. /\ h \in Handlers
      /\ DOMAIN task = Handlers
      /\ <<task[h].op, task[h].req.a>> \in Requests
  BY <1>1, HeadRuns
<1>3. Granted("fo")
  <2>1. task[h].req.a = "fo"
    BY <1>1, <1>2 DEF Requests
  <2> QED BY <1>1, <2>1 DEF Granted
<1>4. Leaves(h)
  BY LeavesToo
<1>5. /\ task'[h] = Idle
      /\ \A g \in Handlers \ {h} : task'[g] = task[g]
      /\ mounted' = mounted
      /\ \A a : ~Granted(a)'
  BY <1>2, <1>4, NoGrant DEF Leaves
<1>6. /\ DOMAIN fdInode' = DOMAIN fdInode \cup {n}
      /\ fdInode'[n] = i
      /\ \A x \in DOMAIN fdInode : x # n => fdInode'[x] = fdInode[x]
      /\ DOMAIN handles' = DOMAIN handles \cup {n}
      /\ handles'[n] = i
      /\ \A x \in DOMAIN handles : x # n => handles'[x] = handles[x]
  BY <1>1 DEF With
<1> HIDE DEF n, i
<1>7. /\ n \in fds \ DOMAIN fdInode
      /\ fds \ BeingClosed = DOMAIN fdInode \cup {n}
  BY <1>1, <1>3 DEF DescInv, JustOpened, n
<1>8. Closing' = Closing
  BY <1>1, <1>5, IdleOp DEF Closing
<1>9. \A g \in Closing : g # h /\ task'[g] = task[g]
  BY <1>1, <1>5 DEF Closing
<1>10. BeingClosed' = BeingClosed
  BY <1>8, <1>9 DEF BeingClosed
<1>11. JustOpened' = {}
  BY <1>5 DEF JustOpened
<1>12. \A g \in Handlers : Fresh(g)' => g # h /\ Fresh(g)
  BY <1>5, IdleOp DEF Fresh
<1>13. ASSUME NEW g \in Handlers
       PROVE  /\ Fresh(g)' => /\ task'[g].fh \in DOMAIN fdInode'
                              /\ fdInode'[task'[g].fh] = task'[g].i
              /\ g \in Closing' => /\ task'[g].req.fd = task'[g].fh
                                  /\ task'[g].fh \in (1 .. lastFd') \ DOMAIN fdInode'
  <2>1. ASSUME Fresh(g)'
        PROVE  /\ task'[g].fh \in DOMAIN fdInode'
               /\ fdInode'[task'[g].fh] = task'[g].i
    BY <1>5, <1>6, <1>7, <1>12, <2>1 DEF DescInv
  <2>2. ASSUME g \in Closing'
        PROVE  /\ task'[g].req.fd = task'[g].fh
               /\ task'[g].fh \in (1 .. lastFd') \ DOMAIN fdInode'
    <3>1. task[g].fh \in BeingClosed
      BY <1>8, <2>2 DEF BeingClosed
    <3> QED BY <1>6, <1>7, <1>8, <1>9, <2>2, <3>1 DEF DescInv
  <2> QED BY <2>1, <2>2
<1>14. \A x \in DOMAIN handles' : x \in DOMAIN fdInode' /\ fdInode'[x] = handles'[x]
  BY <1>6, <1>7 DEF DescInv
<1>15. fds' \ BeingClosed' = DOMAIN fdInode' \cup JustOpened'
  BY <1>6, <1>7, <1>10, <1>11
<1>16. DOMAIN fdInode' \subseteq fds'
  BY <1>6, <1>7 DEF DescInv
<1> QED BY <1>5, <1>13, <1>14, <1>15, <1>16 DEF DescInv

(* create: the same, but the handle is the kernel's only later.            *)
LEMMA FreshDesc ==
  ASSUME WaitInv, DescInv, NEW h, CreateOpened(h), UNCHANGED <<fds, lastFd>>
  PROVE  DescInv'
<1> DEFINE n == answer.n
           i == task[h].i
<1>1. /\ h = Head(waiters)
      /\ waiters # <<>>
      /\ task[h].op = "create"
      /\ answer.k = "r"
      /\ mounted
      /\ Granted("fo")
      /\ fdInode' = With(fdInode, n, i)
      /\ handles' = handles
  BY DEF CreateOpened, Answered, f_open, Granted, kernelVars
<1>2. h \in Handlers /\ DOMAIN task = Handlers
  BY <1>1, HeadRuns
<1>3. /\ \A g \in Handlers \ {h} : task'[g] = task[g]
      /\ mounted' = mounted
      /\ \A a : ~Granted(a)'
      /\ \/ task'[h] = Idle
         \/ /\ task'[h].op = "create"
            /\ task'[h].fh = n
            /\ task'[h].i = i
  <2>1. CASE Leaves(h)
    BY <1>2, <2>1, NoGrant DEF Leaves
  <2>2. CASE /\ Again(h, {<<"create", "fg">>})
             /\ task'[h].fh = n
             /\ task'[h].i = i
    BY <2>2, NoGrant DEF Again, HasAsked
  <2> QED BY <2>1, <2>2, FreshStep
<1>4. /\ DOMAIN fdInode' = DOMAIN fdInode \cup {n}
      /\ fdInode'[n] = i
      /\ \A x \in DOMAIN fdInode : x # n => fdInode'[x] = fdInode[x]
  BY <1>1 DEF With
<1> HIDE DEF n, i
<1>5. /\ n \in fds \ DOMAIN fdInode
      /\ fds \ BeingClosed = DOMAIN fdInode \cup {n}
  BY <1>1 DEF DescInv, JustOpened, n
<1>6. Closing' = Closing
  BY <1>1, <1>3, IdleOp DEF Closing
<1>7. \A g \in Closing : g # h /\ task'[g] = task[g]
  BY <1>1, <1>3 DEF Closing
<1>8. BeingClosed' = BeingClosed
  BY <1>6, <1>7 DEF BeingClosed
<1>9. JustOpened' = {}
  BY <1>3 DEF JustOpened
<1>10. ASSUME NEW g \in Handlers
       PROVE  /\ Fresh(g)' => /\ task'[g].fh \in DOMAIN fdInode'
                              /\ fdInode'[task'[g].fh] = task'[g].i
              /\ g \in Closing' => /\ task'[g].req.fd = task'[g].fh
                                  /\ task'[g].fh \in (1 .. lastFd') \ DOMAIN fdInode'
  <2>1. ASSUME Fresh(g)'
        PROVE  /\ task'[g].fh \in DOMAIN fdInode'
               /\ fdInode'[task'[g].fh] = task'[g].i
    <3>1. CASE g = h
      BY <1>3, <1>4, <2>1, <3>1, IdleOp DEF Fresh
    <3>2. CASE g # h
      <4>1. Fresh(g)
        BY <1>3, <2>1, <3>2 DEF Fresh
      <4> QED BY <1>3, <1>4, <1>5, <3>2, <4>1 DEF DescInv
    <3> QED BY <3>1, <3>2
  <2>2. ASSUME g \in Closing'
        PROVE  /\ task'[g].req.fd = task'[g].fh
               /\ task'[g].fh \in (1 .. lastFd') \ DOMAIN fdInode'
    <3>1. task[g].fh \in BeingClosed
      BY <1>6, <2>2 DEF BeingClosed
    <3> QED BY <1>4, <1>5, <1>6, <1>7, <2>2, <3>1 DEF DescInv
  <2> QED BY <2>1, <2>2
<1>11. \A x \in DOMAIN handles' : x \in DOMAIN fdInode' /\ fdInode'[x] = handles'[x]
  BY <1>1, <1>4, <1>5 DEF DescInv
<1>12. fds' \ BeingClosed' = DOMAIN fdInode' \cup JustOpened'
  BY <1>4, <1>5, <1>8, <1>9
<1>13. DOMAIN fdInode' \subseteq fds'
  BY <1>4, <1>5 DEF DescInv
<1> QED BY <1>3, <1>10, <1>11, <1>12, <1>13 DEF DescInv

(* create ends: the kernel gets the handle.                                *)
LEMMA CreateOkDesc ==
  ASSUME WaitInv, DescInv, NEW h, CreateOk(h), UNCHANGED <<fds, lastFd>>
  PROVE  DescInv'
<1>1. /\ h = Head(waiters)
      /\ waiters # <<>>
      /\ Fresh(h)
      /\ fdInode' = fdInode
      /\ handles' = With(handles, task[h].fh, task[h].i)
  BY DEF CreateOk, Answered, Fresh, openVars
<1>2. h \in Handlers /\ Leaves(h)
  BY <1>1, HeadRuns, LeavesToo
<1>3. task[h].fh \in DOMAIN fdInode /\ fdInode[task[h].fh] = task[h].i
  BY <1>1, <1>2 DEF DescInv
<1>4. task[h].op # "release" /\ ~Granted("fo")
  BY <1>1 DEF Fresh, Granted
<1>5. /\ DOMAIN handles' = DOMAIN handles \cup {task[h].fh}
      /\ handles'[task[h].fh] = task[h].i
      /\ \A x \in DOMAIN handles : x # task[h].fh => handles'[x] = handles[x]
  BY <1>1 DEF With
<1>6. \A x \in DOMAIN handles' : x \in DOMAIN fdInode /\ fdInode[x] = handles'[x]
  BY <1>3, <1>5 DEF DescInv
<1>7. /\ task'[h] = Idle
      /\ \A g \in Handlers \ {h} : task'[g] = task[g]
      /\ mounted' = mounted
      /\ \A a : ~Granted(a)'
  BY <1>2, NoGrant DEF Leaves, WaitInv
<1>8. Closing' = Closing /\ \A g \in Closing : g # h
  BY <1>4, <1>7, IdleOp DEF Closing
<1>9. BeingClosed' = BeingClosed
  BY <1>7, <1>8 DEF BeingClosed, Closing
<1>10. JustOpened' = JustOpened
  BY <1>4, <1>7 DEF JustOpened
<1>11. \A g \in Handlers : Fresh(g)' => g # h /\ Fresh(g)
  BY <1>7, IdleOp DEF Fresh
<1>12. \A g \in Handlers :
         /\ Fresh(g)' => /\ task'[g].fh \in DOMAIN fdInode
                         /\ fdInode[task'[g].fh] = task'[g].i
         /\ g \in Closing' => /\ task'[g].req.fd = task'[g].fh
                             /\ task'[g].fh \in (1 .. lastFd) \ DOMAIN fdInode
  BY <1>7, <1>8, <1>11 DEF DescInv
<1> QED BY <1>1, <1>6, <1>7, <1>9, <1>10, <1>12 DEF DescInv

(* release ends: the device has closed the descriptor.                     *)
LEMMA ClosedDesc ==
  ASSUME WaitInv, DescInv, NEW h, Closed(h), UNCHANGED <<fds, lastFd>>
  PROVE  DescInv'
<1>1. /\ h = Head(waiters)
      /\ waiters # <<>>
      /\ task[h].op = "release"
      /\ answer.k = "r"
      /\ fdInode' = fdInode
      /\ handles' = handles
      /\ Leaves(h)
  BY DEF Closed, Answered, Tables
<1>2. h \in Handlers /\ DOMAIN task = Handlers /\ Granted("fc") /\ ~Granted("fo")
  BY <1>1, HeadRuns DEF Granted, Requests
<1>3. task[h].fh \notin fds
  BY <1>1, <1>2 DEF DescInv
<1>4. /\ task'[h] = Idle
      /\ \A g \in Handlers \ {h} : task'[g] = task[g]
      /\ mounted' = mounted
      /\ \A a : ~Granted(a)'
  BY <1>1, <1>2, NoGrant DEF Leaves
<1>5. Closing' = Closing \ {h}
  BY <1>1, <1>2, <1>4, IdleOp DEF Closing
<1>6. BeingClosed' \subseteq BeingClosed /\ BeingClosed \subseteq BeingClosed' \cup {task[h].fh}
  BY <1>4, <1>5 DEF BeingClosed, Closing
<1>7. JustOpened' = JustOpened
  BY <1>2, <1>4 DEF JustOpened
<1>8. mounted' => fds \ BeingClosed' = DOMAIN fdInode \cup JustOpened'
  BY <1>3, <1>4, <1>6, <1>7 DEF DescInv
<1>9. \A g \in Handlers : Fresh(g)' => g # h /\ Fresh(g)
  BY <1>4, IdleOp DEF Fresh
<1>10. \A g \in Handlers :
         /\ Fresh(g)' => /\ task'[g].fh \in DOMAIN fdInode
                         /\ fdInode[task'[g].fh] = task'[g].i
         /\ g \in Closing' => /\ task'[g].req.fd = task'[g].fh
                             /\ task'[g].fh \in (1 .. lastFd) \ DOMAIN fdInode
  BY <1>4, <1>5, <1>9 DEF DescInv
<1> QED BY <1>1, <1>4, <1>8, <1>10 DEF DescInv

(* An exception ends the mount, with its descriptors open.                 *)
LEMMA DiedDesc ==
  ASSUME WaitInv, DescInv, Died, answer' = NoAnswer,
         UNCHANGED <<fdInode, handles, fds, lastFd>>
  PROVE  DescInv'
<1>1. \A a : ~Granted(a)'
  BY NoGrant
<1>2. Closing' = Closing /\ \A g \in Handlers : Fresh(g)' <=> Fresh(g)
  BY DEF Closing, Fresh, Died
<1> QED BY <1>1, <1>2 DEF DescInv, Died

(* What the commands do to the table of open files.                        *)
LEMMA CommandFds ==
  ASSUME NEW r, Command(r)
  PROVE  \/ /\ r.a = "fo"
            /\ lastFd' = lastFd + 1
            /\ fds' = fds \cup {lastFd + 1}
            /\ answer'.k = "r"
            /\ answer'.n = lastFd + 1
         \/ /\ r.a = "fc"
            /\ fds' = fds \ {r.fd}
            /\ lastFd' = lastFd
         \/ /\ UNCHANGED <<fds, lastFd>>
            /\ answer'.k = "r" => r.a \notin {"fo", "fc"}
<1>1. CASE r.a = "fo" /\ cmd_fo(r)
  <2>1. CASE _add_f
    <3>1. /\ lastFd' = lastFd + 1
          /\ fds' = fds \cup {lastFd'}
          /\ answer' = [k |-> "r", s |-> "", n |-> lastFd', l |-> <<>>]
      BY <2>1 DEF _add_f, Reply
    <3>2. answer'.k = "r" /\ answer'.n = lastFd'
      BY <3>1
    <3> QED BY <1>1, <3>1, <3>2
  <2>2. CASE UNCHANGED <<fds, lastFd>> /\ (Crash \/ Missing(r.p))
    <3>1. answer'.k = "e"
      BY <2>2 DEF Crash, Missing, Fail
    <3> QED BY <2>2, <3>1
  <2> QED BY <1>1, <2>1, <2>2 DEF cmd_fo
<1>2. CASE r.a = "fc" /\ cmd_fc(r)
  BY <1>2 DEF cmd_fc, Done, Reply, Crash
<1>3. CASE r.a = "fg" /\ cmd_fg(r)
  BY <1>3 DEF cmd_fg
<1>4. CASE r.a = "fd" /\ cmd_fd(r)
  BY <1>4 DEF cmd_fd
<1>5. CASE \/ r.a = "fD" /\ cmd_fD(r)
           \/ r.a = "fn" /\ cmd_fn(r)
           \/ r.a = "fu" /\ cmd_fu(r)
           \/ r.a = "fU" /\ cmd_fU(r)
           \/ r.a = "fm" /\ cmd_fm(r)
  BY <1>5 DEF cmd_fD, cmd_fn, cmd_fu, cmd_fU, cmd_fm
<1>6. CASE \/ r.a = "fr" /\ cmd_fr(r)
           \/ r.a = "fw" /\ cmd_fw(r)
  BY <1>6 DEF cmd_fr, cmd_fw
<1> QED BY <1>1, <1>2, <1>3, <1>4, <1>5, <1>6 DEF Command

LEMMA DeviceDesc ==
  ASSUME WaitInv, DescInv, Device
  PROVE  DescInv'
<1> DEFINE h == Head(waiters)
           r == task[h].req
<1>1. /\ waiters # <<>>
      /\ Command(r)
      /\ UNCHANGED <<task, waiters, mounted, fdInode, handles>>
  BY DEF Device, hostVars, taskVars, openVars, kernelVars
<1>2. h \in Handlers /\ <<task[h].op, r.a>> \in Requests
  BY <1>1, HeadRuns
<1>3. answer = NoAnswer
  BY <1>1 DEF Command
<1>4. JustOpened = {}
  BY <1>3 DEF JustOpened, Granted, NoAnswer
<1>5. /\ Closing' = Closing
      /\ BeingClosed' = BeingClosed
      /\ \A g \in Handlers : Fresh(g)' <=> Fresh(g)
      /\ Head(waiters') = h
  BY <1>1 DEF Closing, BeingClosed, Fresh
<1>6. Granted("fo")' <=> answer'.k = "r" /\ r.a = "fo"
  BY <1>1 DEF Granted
<1>7. Granted("fc")' <=> answer'.k = "r" /\ r.a = "fc"
  BY <1>1 DEF Granted
<1> HIDE DEF h, r
<1>8. /\ lastFd \in Nat
      /\ fds \subseteq 1 .. lastFd
      /\ DOMAIN fdInode \subseteq fds
      /\ mounted => fds \ BeingClosed = DOMAIN fdInode
  BY <1>4 DEF DescInv
<1>9. CASE /\ r.a = "fo"
           /\ lastFd' = lastFd + 1
           /\ fds' = fds \cup {lastFd + 1}
           /\ answer'.k = "r"
           /\ answer'.n = lastFd + 1
  <2>1. lastFd + 1 \notin fds /\ lastFd' \in Nat /\ fds' \subseteq 1 .. lastFd'
    BY <1>8, <1>9
  <2>2. \A x \in BeingClosed : x \in 1 .. lastFd
    BY DEF DescInv, BeingClosed, Closing
  <2>3. \A g \in Handlers :
          /\ Fresh(g)' => /\ task'[g].fh \in DOMAIN fdInode'
                          /\ fdInode'[task'[g].fh] = task'[g].i
          /\ g \in Closing' => /\ task'[g].req.fd = task'[g].fh
                              /\ task'[g].fh \in (1 .. lastFd') \ DOMAIN fdInode'
    <3>1. 1 .. lastFd \subseteq 1 .. lastFd'
      BY <1>8, <1>9
    <3> QED BY <1>1, <1>5, <3>1 DEF DescInv
  <2>4. /\ Granted("fo")' => answer'.n \in fds' \ DOMAIN fdInode'
        /\ ~Granted("fc")'
    BY <1>1, <1>7, <1>8, <1>9, <2>1
  <2>5. mounted' => fds' \ BeingClosed' = DOMAIN fdInode' \cup JustOpened'
    <3>1. lastFd + 1 \notin BeingClosed
      BY <1>8, <2>2
    <3>2. JustOpened' = {lastFd + 1}
      BY <1>6, <1>9 DEF JustOpened
    <3> QED BY <1>1, <1>5, <1>8, <1>9, <3>1, <3>2
  <2>6. /\ DOMAIN fdInode' \subseteq fds'
        /\ \A x \in DOMAIN handles' : x \in DOMAIN fdInode' /\ fdInode'[x] = handles'[x]
    BY <1>1, <1>8, <1>9 DEF DescInv
  <2> QED BY <2>1, <2>3, <2>4, <2>5, <2>6 DEF DescInv
<1>10. CASE /\ r.a = "fc"
            /\ fds' = fds \ {r.fd}
            /\ lastFd' = lastFd
  <2>1. h \in Closing
    BY <1>2, <1>10 DEF Closing, Requests
  <2>2. r.fd = task[h].fh /\ task[h].fh \notin DOMAIN fdInode
    BY <1>2, <2>1 DEF DescInv, r
  <2>3. task[h].fh \in BeingClosed
    BY <2>1 DEF BeingClosed
  <2>4. JustOpened' = {}
    BY <1>6, <1>10 DEF JustOpened
  <2>5. mounted' => fds' \ BeingClosed' = DOMAIN fdInode' \cup JustOpened'
    BY <1>1, <1>5, <1>8, <1>10, <2>2, <2>3, <2>4
  <2>6. /\ ~Granted("fo")'
        /\ task'[Head(waiters')].fh \notin fds'
    BY <1>1, <1>5, <1>6, <1>10, <2>2
  <2>7. DOMAIN fdInode' \subseteq fds' /\ fds' \subseteq 1 .. lastFd'
    BY <1>1, <1>8, <1>10, <2>2
  <2> QED BY <1>1, <1>5, <1>8, <1>10, <2>5, <2>6, <2>7 DEF DescInv
<1>11. CASE /\ UNCHANGED <<fds, lastFd>>
            /\ answer'.k = "r" => r.a \notin {"fo", "fc"}
  <2>1. ~Granted("fo")' /\ ~Granted("fc")'
    BY <1>6, <1>7, <1>11
  <2>2. JustOpened' = {}
    BY <2>1 DEF JustOpened
  <2> QED BY <1>1, <1>4, <1>5, <1>11, <2>1, <2>2 DEF DescInv
<1> QED BY <1>1, <1>9, <1>10, <1>11, CommandFds

LEMMA StepDesc ==
  ASSUME WaitInv, DescInv, [Next]_vars
  PROVE  DescInv'
<1>1. DOMAIN task = Handlers
  BY DEF WaitInv
<1>2. ASSUME NEW h \in Handlers, Kernel(h), UNCHANGED <<fds, lastFd>> PROVE DescInv'
  <2>1. CASE Untouched /\ UNCHANGED <<fdInode, handles>>
    BY <1>2, <2>1, StaysDesc DEF Untouched
  <2>2. CASE UNCHANGED Tables /\ Enters(h, Starts)
    BY <1>2, <2>2, EntersDesc DEF Tables
  <2>3. ASSUME NEW fh, Release(h, fh) PROVE DescInv'
    BY <1>2, <2>3, ReleaseDesc
  <2>4. ASSUME NEW fh, Readdir(h, fh) PROVE DescInv'
    <3>1. UNCHANGED <<fdInode, handles>>
      BY <2>4 DEF Readdir, openVars
    <3>2. Untouched \/ Enters(h, Reads)
      BY <1>1, <2>4, ReaddirStep
    <3> QED BY <1>2, <2>1, <3>1, <3>2, EntersDesc
  <2>5. ASSUME NEW fh, Releasedir(h, fh) PROVE DescInv'
    BY <2>1, <2>5 DEF Releasedir, Start, Untouched, openVars
  <2> QED BY <1>1, <1>2, <2>1, <2>2, <2>3, <2>4, <2>5, KernelSteps DEF Tables
<1>3. ASSUME NEW h \in Handlers, Resume(h), UNCHANGED <<fds, lastFd>> PROVE DescInv'
  <2>1. CASE Usual(h)
    BY <1>3, <2>1, LeavesDesc, AgainDesc DEF Usual, Tables
  <2>2. CASE ReadFail(h)
    <3>1. task[h].op # "release" /\ ~Granted("fo")
      BY <2>2 DEF ReadFail, Answered, Granted
    <3> QED BY <1>3, <2>2, <3>1, LeavesDesc DEF ReadFail
  <2>3. CASE Closed(h)
    BY <1>3, <2>3, ClosedDesc
  <2>4. CASE IOFail(h)
    BY <1>3, <2>4, DiedDesc DEF IOFail, Died, Die, Answered, openVars, kernelVars
  <2>5. CASE Opened(h) \/ CreateOpened(h) \/ CreateOk(h)
    BY <1>3, <2>5, OpenedDesc, FreshDesc, CreateOkDesc
  <2>6. CASE DirOpened(h) \/ EntryOk(h) \/ EntryFull(h)
    <3>1. /\ task[h].op \in {"opendir", "readdir"}
          /\ h = Head(waiters)
          /\ waiters # <<>>
          /\ UNCHANGED <<fdInode, handles>>
      BY <2>6 DEF DirOpened, EntryOk, EntryFull, Listed, Answered, openVars, kernelVars
    <3>2. ~Granted("fo")
      BY <3>1, HeadRuns DEF Granted, Requests
    <3>3. Leaves(h) \/ Again(h, Reads)
      BY <2>6, LeavesToo, EntryStep
    <3> QED BY <1>3, <3>1, <3>2, <3>3, LeavesDesc, AgainDesc
  <2> QED BY <1>3, <2>1, <2>2, <2>3, <2>4, <2>5, <2>6, ResumeSteps
<1>4. CASE Host
  BY <1>2, <1>3, <1>4 DEF Host
<1>5. CASE Device
  BY <1>5, DeviceDesc
<1>6. CASE Other
  BY <1>6, StaysDesc DEF Other, hostVars, taskVars, openVars, kernelVars, Elsewhere
<1>7. CASE UNCHANGED vars
  BY <1>7, StaysDesc DEF vars, hostVars, taskVars, devVars, openVars, kernelVars
<1> QED BY <1>4, <1>5, <1>6, <1>7 DEF Next

LEMMA InitDesc == Init => DescInv
<1> SUFFICES ASSUME Init PROVE DescInv
  OBVIOUS
<1>1. /\ task = [h \in Handlers |-> Idle]
      /\ waiters = <<>>
      /\ fds = {}
      /\ lastFd = 0
      /\ fdInode = Restrict(<<>>, {})
      /\ handles = Restrict(<<>>, {})
  BY DEF Init, FuseInit, DevInit
<1>2. DOMAIN fdInode = {} /\ DOMAIN handles = {}
  BY <1>1 DEF Restrict
<1>3. Closing = {} /\ \A h \in Handlers : ~Fresh(h)
  BY <1>1, IdleOp DEF Closing, Fresh
<1>4. \A a : ~Granted(a)
  BY <1>1 DEF Granted
<1> QED BY <1>1, <1>2, <1>3, <1>4 DEF DescInv, BeingClosed, JustOpened

(* A descriptor is in the map from the step after fo's answer to release.  *)
THEOREM DescInvariance == Spec => [](WaitInv /\ DescInv)
<1>1. WaitInv /\ DescInv /\ [Next]_vars => (WaitInv /\ DescInv)'
  BY StepWait, StepDesc
<1> QED BY InitWait, InitDesc, <1>1, PTL DEF Spec

(* The handles that the kernel may use are open on the device, on the      *)
(* inode they were opened for.                                             *)
THEOREM HandlesStayOpen == Spec => []HandlesOpen
<1>1. DescInv => HandlesOpen
  BY DEF DescInv, HandlesOpen
<1> QED BY <1>1, DescInvariance, PTL

(* No descriptor of the device is lost between the awaits of a handler and *)
(* the maps of the mount.                                                  *)
THEOREM NoDescriptorLost == Spec => []DescriptorsMirrored
<1>1. ASSUME WaitInv, DescInv PROVE DescriptorsMirrored
  <2> DEFINE opened == {answer.n : h \in {g \in Range(waiters) : g \in Opening}}
  <2>1. CASE waiters = <<>>
    <3>1. opened = {} /\ JustOpened = {}
      BY <2>1 DEF Range, JustOpened, Granted
    <3> QED BY <1>1, <3>1 DEF DescInv, DescriptorsMirrored, BeingClosed
  <2>2. CASE waiters # <<>>
    <3>1. Head(waiters) \in Range(waiters) /\ Head(waiters) \in Handlers
      BY <1>1, <2>2, QueueTail DEF WaitInv
    <3>2. opened = JustOpened
      BY <2>2, <3>1 DEF JustOpened, Granted, Opening
    <3> QED BY <1>1, <3>2 DEF DescInv, DescriptorsMirrored, BeingClosed
  <2> QED BY <2>1, <2>2
<1> QED BY <1>1, DescInvariance, PTL

-----------------------------------------------------------------------------
(* The directory listings.                                                 *)
LEMMA ListingGrows ==
  ASSUME NEW S, NEW names \in Seq(S), NEW p \in 0 .. Len(names),
         NEW q \in p .. Len(names), NEW got, DOMAIN got = 1 .. q - p,
         \A x \in DOMAIN got : got[x].n = names[p + x]
  PROVE  SubSeq(names, 1, p) \o [x \in DOMAIN got |-> got[x].n] = SubSeq(names, 1, q)
<1> DEFINE v == [x \in DOMAIN got |-> got[x].n]
           u == SubSeq(names, 1, p)
           w == SubSeq(names, 1, q)
<1>1. /\ Len(names) \in Nat
      /\ p \in Nat /\ q \in Nat /\ q - p \in Nat
      /\ p <= Len(names) /\ q <= Len(names)
  OBVIOUS
<1>2. v \in Seq(S) /\ Len(v) = q - p /\ \A x \in 1 .. q - p : v[x] = names[p + x]
  <2>1. \A x \in 1 .. q - p : names[p + x] \in S
    BY <1>1
  <2>2. v \in [1 .. q - p -> S]
    BY <2>1
  <2> QED BY <1>1, <2>2
<1>3. u \in Seq(S) /\ Len(u) = p /\ \A x \in 1 .. p : u[x] = names[x]
  BY <1>1
<1>4. w \in Seq(S) /\ Len(w) = q /\ \A x \in 1 .. q : w[x] = names[x]
  BY <1>1
<1> HIDE DEF u, v, w
<1>5. /\ u \o v \in Seq(S)
      /\ Len(u \o v) = q
      /\ \A x \in 1 .. q : (u \o v)[x] = IF x <= p THEN u[x] ELSE v[x - p]
  <2>1. /\ u \o v \in Seq(S)
        /\ Len(u \o v) = Len(u) + Len(v)
        /\ \A x \in 1 .. Len(u) + Len(v) :
             (u \o v)[x] = IF x <= Len(u) THEN u[x] ELSE v[x - Len(u)]
    BY <1>2, <1>3, ConcatProperties
  <2> QED BY <1>1, <1>2, <1>3, <2>1
<1>6. ASSUME NEW x \in 1 .. q PROVE (u \o v)[x] = w[x]
  <2>1. CASE x <= p
    BY <1>1, <1>3, <1>4, <1>5, <2>1
  <2>2. CASE ~(x <= p)
    <3>1. x - p \in 1 .. q - p /\ p + (x - p) = x
      BY <1>1, <2>2
    <3> QED BY <1>2, <1>4, <1>5, <2>2, <3>1
  <2> QED BY <2>1, <2>2
<1>7. u \o v = w
  BY <1>1, <1>4, <1>5, <1>6
<1> QED BY <1>7 DEF u, v, w

LEMMA SeqDomain ==
  ASSUME NEW S, NEW s \in Seq(S)
  PROVE  DOMAIN s = 1 .. Len(s)
OBVIOUS

LEMMA GotGrows ==
  ASSUME NEW got, got \in Seq(Range(got)), NEW e
  PROVE  /\ Append(got, e) \in Seq(Range(Append(got, e)))
         /\ Len(got) \in Nat
         /\ Len(Append(got, e)) = Len(got) + 1
         /\ DOMAIN Append(got, e) = 1 .. Len(got) + 1
         /\ \A x \in 1 .. Len(got) : Append(got, e)[x] = got[x]
         /\ Append(got, e)[Len(got) + 1] = e
<1> DEFINE S == Range(got) \cup {e}
           t == Append(got, e)
<1>1. got \in Seq(S) /\ e \in S
  <2>1. got \in [1 .. Len(got) -> Range(got)] /\ Len(got) \in Nat
    OBVIOUS
  <2>2. got \in [1 .. Len(got) -> S]
    BY <2>1
  <2> QED BY <2>1, <2>2
<1> HIDE DEF S
<1>2. /\ t \in Seq(S)
      /\ Len(got) \in Nat
      /\ Len(t) = Len(got) + 1
      /\ DOMAIN t = 1 .. Len(got) + 1
      /\ \A x \in 1 .. Len(got) : t[x] = got[x]
      /\ t[Len(got) + 1] = e
  BY <1>1
<1> HIDE DEF t
<1>3. t = [x \in 1 .. Len(t) |-> t[x]] /\ Len(t) \in Nat
  BY <1>2
<1>4. t \in Seq(Range(t))
  <2>1. \A x \in 1 .. Len(t) : t[x] \in Range(t)
    BY <1>2 DEF Range
  <2>2. t \in [1 .. Len(t) -> Range(t)]
    BY <1>3, <2>1
  <2> QED BY <1>3, <2>2
<1> QED BY <1>2, <1>4 DEF t

(* Steps of operations other than readdir.                                 *)
LEMMA ListFrame ==
  ASSUME ListInv, UNCHANGED <<dirContent, lastDir, listing>>, NEW h \in Handlers,
         \A g \in Handlers \ {h} : task'[g] = task[g],
         task'[h].op # "readdir",
         Granted("fd")' => Granted("fd") /\ answer' = answer
  PROVE  ListInv'
<1>1. \A g \in Handlers : Reading(g)' => Reading(g) /\ task'[g] = task[g]
  BY DEF Reading
<1>2. \A fh \in DOMAIN listing : ListedTo(fh)'
  BY DEF ListInv, ListedTo
<1>3. ASSUME NEW g \in Handlers, Reading(g)' PROVE ReadsOn(g)'
  <2>1. ReadsOn(g) /\ task'[g] = task[g]
    BY <1>1, <1>3 DEF ListInv
  <2> QED BY <2>1 DEF ReadsOn
<1>4. \A g, k \in Handlers :
        Reading(g)' /\ Reading(k)' /\ task'[g].fh = task'[k].fh => g = k
  BY <1>1 DEF ListInv
<1>5. Granted("fd")' => answer'.l \in NameSeq
  BY DEF ListInv, NameSeq
<1> QED BY <1>2, <1>3, <1>4, <1>5 DEF ListInv

LEMMA StaysList ==
  ASSUME ListInv, UNCHANGED <<dirContent, lastDir, listing, task>>,
         Granted("fd")' => Granted("fd") /\ answer' = answer
  PROVE  ListInv'
<1>1. \A g \in Handlers : Reading(g)' <=> Reading(g)
  BY DEF Reading
<1>2. \A fh \in DOMAIN listing : ListedTo(fh)'
  BY DEF ListInv, ListedTo
<1>3. \A g \in Handlers : Reading(g)' => ReadsOn(g)'
  BY <1>1 DEF ListInv, ReadsOn
<1>4. Granted("fd")' => answer'.l \in NameSeq
  BY DEF ListInv, NameSeq
<1> QED BY <1>1, <1>2, <1>3, <1>4 DEF ListInv

(* A step that ends the listing of fh, which nobody reads afterwards.      *)
LEMMA EndList ==
  ASSUME ListInv, NEW fh \in DOMAIN listing, NEW e, NEW h \in Handlers,
         \A g \in Handlers \ {h} : task'[g] = task[g],
         \A g \in Handlers : Reading(g)' => Reading(g) /\ task'[g] = task[g],
         \A g \in Handlers : Reading(g)' => task[g].fh # fh,
         e = "done" => listing[fh].pos = Len(dirContent[fh].names),
         listing' = [listing EXCEPT ![fh].end = e],
         UNCHANGED <<dirContent, lastDir>>,
         Granted("fd")' => Granted("fd") /\ answer' = answer
  PROVE  ListInv'
<1>1. /\ DOMAIN listing' = DOMAIN listing
      /\ \A x \in DOMAIN listing : x # fh => listing'[x] = listing[x]
      /\ listing'[fh] = [listing[fh] EXCEPT !.end = e]
  OBVIOUS
<1>2. ASSUME NEW x \in DOMAIN listing' PROVE ListedTo(x)'
  <2>1. ListedTo(x)
    BY <1>1, <1>2 DEF ListInv
  <2>2. CASE x = fh
    <3>1. DOMAIN listing[x] = {"pos", "seen", "end"}
      BY <2>1 DEF ListedTo, NewDir
    <3>2. /\ DOMAIN listing'[x] = DOMAIN listing[x]
          /\ listing'[x].pos = listing[x].pos
          /\ listing'[x].seen = listing[x].seen
          /\ listing'[x].end = e
      BY <1>1, <2>2, <3>1
    <3> QED BY <2>1, <2>2, <3>2 DEF ListedTo, NameSeq
  <2>3. CASE x # fh
    BY <1>1, <2>1, <2>3 DEF ListedTo, NameSeq
  <2> QED BY <2>2, <2>3
<1>3. ASSUME NEW g \in Handlers, Reading(g)' PROVE ReadsOn(g)'
  <2>1. ReadsOn(g) /\ task'[g] = task[g] /\ task[g].fh # fh
    BY <1>3 DEF ListInv
  <2> QED BY <1>1, <2>1 DEF ReadsOn
<1>4. \A g, k \in Handlers :
        Reading(g)' /\ Reading(k)' /\ task'[g].fh = task'[k].fh => g = k
  BY DEF ListInv
<1>5. Granted("fd")' => answer'.l \in NameSeq
  BY DEF ListInv, NameSeq
<1> QED BY <1>1, <1>2, <1>3, <1>4, <1>5 DEF ListInv

(* opendir: the new handle is nobody's yet.                                *)
LEMMA DirOpenedList ==
  ASSUME WaitInv, ListInv, NEW h, DirOpened(h)
  PROVE  ListInv'
<1> DEFINE n == lastDir + 1
           c == [i |-> task[h].i, names |-> answer.l]
<1>1. /\ h = Head(waiters)
      /\ waiters # <<>>
      /\ task[h].op = "opendir"
      /\ answer.k = "r"
      /\ lastDir' = n
      /\ dirContent' = With(dirContent, n, c)
      /\ listing' = With(listing, n, NewDir)
  BY DEF DirOpened, Answered
<1>2. h \in Handlers /\ DOMAIN task = Handlers /\ Granted("fd")
  BY <1>1, HeadRuns DEF Granted, Requests
<1>3. answer.l \in NameSeq
  BY <1>2 DEF ListInv
<1>4. /\ task'[h] = Idle
      /\ \A g \in Handlers \ {h} : task'[g] = task[g]
      /\ \A a : ~Granted(a)'
  BY <1>2, LeavesToo, NoGrant DEF Leaves
<1>5. c.names = answer.l
  OBVIOUS
<1>6. /\ lastDir \in Nat
      /\ DOMAIN dirContent \subseteq 1 .. lastDir
      /\ DOMAIN listing = DOMAIN dirContent
  BY DEF ListInv
<1>7. n \in Nat /\ n \notin DOMAIN listing /\ DOMAIN dirContent \cup {n} \subseteq 1 .. n
  BY <1>6
<1> HIDE DEF n, c
<1>8. /\ DOMAIN dirContent' = DOMAIN dirContent \cup {n}
      /\ dirContent'[n] = c
      /\ \A x \in DOMAIN dirContent : x # n => dirContent'[x] = dirContent[x]
      /\ DOMAIN listing' = DOMAIN listing \cup {n}
      /\ listing'[n] = NewDir
      /\ \A x \in DOMAIN listing : x # n => listing'[x] = listing[x]
  BY <1>1 DEF With
<1>9. ASSUME NEW x \in DOMAIN listing' PROVE ListedTo(x)'
  <2>1. CASE x = n
    <3>1. NewDir.pos = 0 /\ NewDir.seen = <<>> /\ NewDir.end = ""
      BY DEF NewDir
    <3>2. /\ answer.l \in Seq(Names \cup {Xfn})
          /\ 0 \in 0 .. Len(answer.l)
          /\ SubSeq(answer.l, 1, 0) = <<>>
      BY <1>3 DEF NameSeq
    <3> QED BY <1>3, <1>5, <1>8, <2>1, <3>1, <3>2 DEF ListedTo, NameSeq
  <2>2. CASE x # n
    <3>1. x \in DOMAIN listing /\ x \in DOMAIN dirContent
      BY <1>6, <1>8, <1>9, <2>2
    <3>2. ListedTo(x) /\ listing'[x] = listing[x] /\ dirContent'[x] = dirContent[x]
      BY <1>8, <2>2, <3>1 DEF ListInv
    <3> QED BY <3>2 DEF ListedTo, NameSeq
  <2> QED BY <2>1, <2>2
<1>10. \A g \in Handlers : Reading(g)' => Reading(g) /\ task'[g] = task[g]
  BY <1>4, IdleOp DEF Reading
<1>11. ASSUME NEW g \in Handlers, Reading(g)' PROVE ReadsOn(g)'
  <2>1. ReadsOn(g) /\ task'[g] = task[g]
    BY <1>10, <1>11 DEF ListInv
  <2>2. task[g].fh \in DOMAIN listing /\ task[g].fh \in DOMAIN dirContent
    BY <1>6, <2>1 DEF ReadsOn
  <2>3. listing'[task[g].fh] = listing[task[g].fh] /\ dirContent'[task[g].fh] = dirContent[task[g].fh]
    BY <1>7, <1>8, <2>2
  <2> QED BY <1>8, <2>1, <2>3 DEF ReadsOn
<1>12. \A g, k \in Handlers :
         Reading(g)' /\ Reading(k)' /\ task'[g].fh = task'[k].fh => g = k
  BY <1>10 DEF ListInv
<1> QED BY <1>1, <1>4, <1>6, <1>7, <1>8, <1>9, <1>11, <1>12 DEF ListInv

(* The entries got by h are those between the names a and q.               *)
Gets(h, got, q, a, names) ==
  /\ a = listing[task[h].fh].pos
  /\ names = dirContent[task[h].fh].names
  /\ q \in a .. Len(names)
  /\ DOMAIN got = 1 .. q - a
  /\ \A x \in DOMAIN got : got[x].n = names[a + x]
  /\ Listed(h, got, q)

(* readdir returns them: the handle has been given the first q names.      *)
LEMMA ListedList ==
  ASSUME WaitInv, ListInv, NEW h \in Handlers, Leaves(h), Reading(h), NEW got, NEW q,
         NEW a, NEW names, Gets(h, got, q, a, names)
  PROVE  ListInv'
<1> DEFINE fh == task[h].fh
           l == listing[fh]
<1>0. /\ a = listing[task[h].fh].pos
      /\ names = dirContent[task[h].fh].names
      /\ q \in a .. Len(names)
      /\ DOMAIN got = 1 .. q - a
      /\ \A x \in DOMAIN got : got[x].n = names[a + x]
      /\ Listed(h, got, q)
  BY DEF Gets
<1>1. /\ listing' = [listing EXCEPT
           ![fh] = [pos |-> q, end |-> "",
                    seen |-> @.seen \o [x \in DOMAIN got |-> got[x].n]]]
      /\ UNCHANGED <<dirContent, lastDir>>
  BY <1>0 DEF Listed, dirVars
<1>2. fh \in DOMAIN listing /\ l.end = ""
  BY DEF ListInv, ReadsOn
<1>3. /\ names \in NameSeq
      /\ a \in 0 .. Len(names)
      /\ l.seen = SubSeq(names, 1, a)
  BY <1>0, <1>2 DEF ListInv, ListedTo
<1>4. l.seen \o [x \in DOMAIN got |-> got[x].n] = SubSeq(names, 1, q)
  <2>1. SubSeq(names, 1, a) \o [x \in DOMAIN got |-> got[x].n] = SubSeq(names, 1, q)
    BY <1>0, <1>3, ListingGrows DEF NameSeq
  <2> QED BY <1>3, <2>1
<1>5. /\ DOMAIN listing' = DOMAIN listing
      /\ \A x \in DOMAIN listing : x # fh => listing'[x] = listing[x]
      /\ listing'[fh] = [pos |-> q, end |-> "", seen |-> SubSeq(names, 1, q)]
  BY <1>1, <1>2, <1>4
<1>6. q \in 0 .. Len(names)
  <2>1. Len(names) \in Nat
    BY <1>3 DEF NameSeq
  <2> QED BY <1>0, <1>3, <2>1
<1>7. ASSUME NEW x \in DOMAIN listing' PROVE ListedTo(x)'
  <2>1. CASE x = fh
    <3>1. dirContent'[x].names = names
      BY <1>0, <1>1, <2>1
    <3>2. /\ DOMAIN listing'[x] = {"pos", "seen", "end"}
          /\ listing'[x].pos = q
          /\ listing'[x].end = ""
          /\ listing'[x].seen = SubSeq(names, 1, q)
      <4>1. PICK r : r = [pos |-> q, end |-> "", seen |-> SubSeq(names, 1, q)]
        OBVIOUS
      <4>2. r.pos = q /\ r.end = "" /\ r.seen = SubSeq(names, 1, q)
        BY <4>1
      <4>3. DOMAIN r = {"pos", "seen", "end"}
        BY <4>1
      <4>4. listing'[x] = r
        BY <1>5, <2>1, <4>1
      <4> QED BY <4>2, <4>3, <4>4
    <3>3. DOMAIN NewDir = {"pos", "seen", "end"}
      BY DEF NewDir
    <3> QED BY <1>3, <1>6, <3>1, <3>2, <3>3 DEF ListedTo, NameSeq
  <2>2. CASE x # fh
    <3>1. ListedTo(x) /\ listing'[x] = listing[x]
      BY <1>5, <1>7, <2>2 DEF ListInv
    <3> QED BY <1>1, <3>1 DEF ListedTo, NameSeq
  <2> QED BY <2>1, <2>2
<1>8. /\ task'[h] = Idle
      /\ \A g \in Handlers \ {h} : task'[g] = task[g]
      /\ \A r : ~Granted(r)'
  BY NoGrant DEF Leaves, WaitInv
<1>9. \A g \in Handlers : Reading(g)' => Reading(g) /\ task'[g] = task[g] /\ g # h
  BY <1>8, IdleOp DEF Reading
<1>10. ASSUME NEW g \in Handlers, Reading(g)' PROVE ReadsOn(g)'
  <2>1. ReadsOn(g) /\ task'[g] = task[g] /\ task[g].fh # fh
    BY <1>9, <1>10 DEF ListInv
  <2>2. listing'[task[g].fh] = listing[task[g].fh]
    BY <1>5, <2>1 DEF ReadsOn
  <2> QED BY <1>1, <1>5, <2>1, <2>2 DEF ReadsOn
<1>11. \A g, k \in Handlers :
         Reading(g)' /\ Reading(k)' /\ task'[g].fh = task'[k].fh => g = k
  BY <1>9 DEF ListInv
<1> QED BY <1>1, <1>5, <1>7, <1>8, <1>10, <1>11 DEF ListInv

LEMMA EntryList ==
  ASSUME WaitInv, ListInv, NEW h, EntryOk(h) \/ EntryFull(h)
  PROVE  ListInv'
<1> DEFINE t == task[h]
           l == listing[t.fh]
           names == dirContent[t.fh].names
           e == [n |-> names[t.pos + 1], i |-> t.i, k |-> answer.s]
           got == Append(t.got, e)
<1>1. h = Head(waiters) /\ waiters # <<>> /\ Reading(h)
  BY DEF EntryOk, EntryFull, Answered, Reading
<1>2. h \in Handlers
  BY <1>1, HeadRuns
<1>3. /\ t.fh \in DOMAIN listing
      /\ l.end = ""
      /\ t.pos \in l.pos .. Len(names) - 1
      /\ t.got \in Seq(Range(t.got))
      /\ Len(t.got) = t.pos - l.pos
      /\ \A x \in DOMAIN t.got : t.got[x].n = names[l.pos + x]
  BY <1>1, <1>2 DEF ListInv, ReadsOn
<1>4. l.pos \in Nat /\ Len(names) \in Nat
  <2>1. names \in NameSeq /\ l.pos \in 0 .. Len(names)
    BY <1>3 DEF ListInv, ListedTo
  <2> QED BY <2>1 DEF NameSeq
<1>5. e.n = names[t.pos + 1]
  OBVIOUS
<1>6. PICK a \in Nat, b \in Nat, c \in Nat :
        /\ a = l.pos /\ b = t.pos /\ c = Len(names)
        /\ a <= b /\ b < c
        /\ Len(t.got) = b - a
        /\ DOMAIN t.got = 1 .. b - a
        /\ \A x \in DOMAIN t.got : t.got[x].n = names[a + x]
        /\ e.n = names[b + 1]
  <2> HIDE DEF t, l, names, e
  <2>1. PICK a \in Nat, c \in Nat : a = l.pos /\ c = Len(names)
    BY <1>4
  <2>2. t.pos \in a .. c - 1 /\ Len(t.got) = t.pos - a
    BY <1>3, <2>1
  <2>3. PICK b \in Nat : b = t.pos
    BY <2>2
  <2>4. a <= b /\ b < c /\ Len(t.got) = b - a
    BY <2>2, <2>3
  <2>5. DOMAIN t.got = 1 .. b - a
    BY <1>3, <2>4, SeqDomain
  <2> QED BY <1>3, <1>5, <2>1, <2>3, <2>4, <2>5
<1> HIDE DEF e
<1>7. /\ got \in Seq(Range(got))
      /\ Len(t.got) \in Nat
      /\ Len(got) = Len(t.got) + 1
      /\ DOMAIN got = 1 .. Len(t.got) + 1
      /\ \A x \in 1 .. Len(t.got) : got[x] = t.got[x]
      /\ got[Len(t.got) + 1] = e
  BY <1>3, GotGrows
<1> HIDE DEF t, l, names, got
<1>8. /\ Len(got) = b + 1 - a
      /\ DOMAIN got = 1 .. b + 1 - a
      /\ b + 1 \in a .. c
      /\ b \in a .. c
  BY <1>6, <1>7
<1>9. \A x \in DOMAIN got : got[x].n = names[a + x]
  <2> SUFFICES ASSUME NEW x \in DOMAIN got PROVE got[x].n = names[a + x]
    OBVIOUS
  <2>1. CASE x \in 1 .. b - a
    BY <1>6, <1>7, <2>1
  <2>2. CASE x = b - a + 1
    <3>1. a + x = b + 1
      BY <2>2
    <3> QED BY <1>6, <1>7, <2>2, <3>1
  <2> QED BY <1>6, <1>8, <2>1, <2>2
<1>10. CASE EntryFull(h)
  <2>1. Listed(h, t.got, t.pos) /\ Leaves(h)
    BY <1>10, LeavesToo DEF EntryFull, t
  <2>2. Listed(h, t.got, b)
    BY <1>6, <2>1
  <2>3. a = listing[task[h].fh].pos /\ names = dirContent[task[h].fh].names
    BY <1>6 DEF t, l, names
  <2>4. /\ b \in a .. Len(names)
        /\ DOMAIN t.got = 1 .. b - a
        /\ \A x \in DOMAIN t.got : t.got[x].n = names[a + x]
    BY <1>6, <1>8
  <2>5. PICK G, N : G = t.got /\ N = names
    OBVIOUS
  <2>6. Gets(h, G, b, a, N)
    BY <2>2, <2>3, <2>4, <2>5 DEF Gets
  <2> QED BY <1>1, <1>2, <2>1, <2>6, ListedList
<1>11. CASE Listed(h, got, t.pos + 1) /\ Leaves(h)
  <2>1. Listed(h, got, b + 1)
    BY <1>6, <1>11
  <2>2. a = listing[task[h].fh].pos /\ names = dirContent[task[h].fh].names
    BY <1>6 DEF t, l, names
  <2>3. b + 1 \in a .. Len(names) /\ DOMAIN got = 1 .. b + 1 - a
    BY <1>6, <1>8
  <2>4. PICK G, N : G = got /\ N = names
    OBVIOUS
  <2>5. Gets(h, G, b + 1, a, N)
    BY <1>9, <2>1, <2>2, <2>3, <2>4 DEF Gets
  <2> QED BY <1>1, <1>2, <1>11, <2>5, ListedList
<1>12. CASE /\ t.pos + 1 < Len(names)
            /\ Again(h, Reads)
            /\ task'[h].fh = t.fh
            /\ task'[h].pos = t.pos + 1
            /\ task'[h].got = got
            /\ UNCHANGED Tables
  <2>1. /\ \A g \in Handlers \ {h} : task'[g] = task[g]
        /\ task'[h].op = "readdir"
    BY <1>12 DEF Again, HasAsked, Reads
  <2>2. \A r : ~Granted(r)'
    BY <1>12, NoGrant DEF Again
  <2>3. UNCHANGED <<dirContent, lastDir, listing>>
    BY <1>12 DEF Tables
  <2>4. \A fh \in DOMAIN listing : ListedTo(fh)'
    BY <2>3 DEF ListInv, ListedTo
  <2>5. ASSUME NEW g \in Handlers, Reading(g)' PROVE ReadsOn(g)'
    <3>1. CASE g = h
      <4>1. b + 1 \in a .. c - 1
        BY <1>6, <1>12
      <4>2. /\ task'[g].fh = t.fh /\ task'[g].pos = b + 1 /\ task'[g].got = got
            /\ listing'[t.fh].pos = a /\ Len(dirContent'[t.fh].names) = c
            /\ listing'[t.fh].end = ""
            /\ t.fh \in DOMAIN listing'
            /\ dirContent'[t.fh].names = names
        BY <1>3, <1>6, <1>12, <2>3, <3>1 DEF l, names
      <4>3. /\ task'[g].pos \in listing'[t.fh].pos .. Len(dirContent'[t.fh].names) - 1
            /\ task'[g].got \in Seq(Range(task'[g].got))
            /\ Len(task'[g].got) = task'[g].pos - listing'[t.fh].pos
        <5>1. b + 1 \in listing'[t.fh].pos .. Len(dirContent'[t.fh].names) - 1
          BY <4>1, <4>2
        <5>2. got \in Seq(Range(got)) /\ Len(got) = b + 1 - listing'[t.fh].pos
          BY <1>7, <1>8, <4>2
        <5>3. task'[g].pos = b + 1 /\ task'[g].got = got
          BY <4>2
        <5>4. task'[g].got \in Seq(Range(task'[g].got))
          BY <5>2, <5>3
        <5>5. task'[g].pos \in listing'[t.fh].pos .. Len(dirContent'[t.fh].names) - 1
          BY <5>1, <5>3
        <5>6. Len(task'[g].got) = task'[g].pos - listing'[t.fh].pos
          <6>1. PICK m : m = listing'[t.fh].pos
            OBVIOUS
          <6>2. PICK s : s = task'[g].got
            OBVIOUS
          <6>3. m = a /\ s = got /\ Len(s) = b + 1 - a
            BY <1>8, <4>2, <5>3, <6>1, <6>2
          <6> QED BY <5>3, <6>1, <6>2, <6>3
        <5> QED BY <5>4, <5>5, <5>6
      <4>4. \A x \in DOMAIN task'[g].got :
              task'[g].got[x].n = dirContent'[t.fh].names[listing'[t.fh].pos + x]
        BY <1>9, <4>2
      <4> QED BY <4>2, <4>3, <4>4 DEF ReadsOn
    <3>2. CASE g # h
      <4>1. ReadsOn(g) /\ task'[g] = task[g]
        BY <2>1, <2>5, <3>2 DEF ListInv, Reading
      <4> QED BY <2>3, <4>1 DEF ReadsOn
    <3> QED BY <3>1, <3>2
  <2>6. \A g \in Handlers : /\ Reading(g)' <=> Reading(g)
                            /\ task'[g].fh = task[g].fh
    BY <1>1, <1>12, <2>1 DEF Reading, t
  <2>7. \A g, k \in Handlers :
          Reading(g)' /\ Reading(k)' /\ task'[g].fh = task'[k].fh => g = k
    BY <2>6 DEF ListInv
  <2> QED BY <2>2, <2>3, <2>4, <2>5, <2>7 DEF ListInv
<1>13. EntryOk(h) => \/ Listed(h, got, t.pos + 1) /\ Leaves(h)
                     \/ /\ t.pos + 1 < Len(names)
                        /\ Again(h, Reads)
                        /\ task'[h].fh = t.fh
                        /\ task'[h].pos = t.pos + 1
                        /\ task'[h].got = got
                        /\ UNCHANGED Tables
  BY EntryStep DEF t, names, got, e
<1> QED BY <1>10, <1>11, <1>12, <1>13

(* readdir begins, or finds nothing to return.                             *)
LEMMA ReaddirList ==
  ASSUME WaitInv, ListInv, NEW h \in Handlers, NEW fh, Readdir(h, fh)
  PROVE  ListInv'
<1>1. /\ fh \in DOMAIN listing
      /\ listing[fh].end = ""
      /\ \A g \in Handlers : Reading(g) => task[g].fh # fh
      /\ UNCHANGED <<dirContent, lastDir>>
      /\ DOMAIN task = Handlers
  BY DEF Readdir, Reading, dirVars, WaitInv
<1>2. CASE Untouched /\ listing' = [listing EXCEPT ![fh].end = "failed"]
  <2>1. /\ \A g \in Handlers : Reading(g)' => Reading(g) /\ task'[g] = task[g]
        /\ \A g \in Handlers : Reading(g)' => task[g].fh # fh
        /\ Granted("fd")' => Granted("fd") /\ answer' = answer
        /\ \A g \in Handlers \ {h} : task'[g] = task[g]
    BY <1>1, <1>2 DEF Untouched, Reading, Granted
  <2> QED BY <1>1, <1>2, <2>1, EndList
<1>3. CASE /\ Untouched
           /\ listing[fh].pos = Len(dirContent[fh].names)
           /\ listing' = [listing EXCEPT ![fh].end = "done"]
  <2>1. /\ \A g \in Handlers : Reading(g)' => Reading(g) /\ task'[g] = task[g]
        /\ \A g \in Handlers : Reading(g)' => task[g].fh # fh
        /\ Granted("fd")' => Granted("fd") /\ answer' = answer
        /\ \A g \in Handlers \ {h} : task'[g] = task[g]
    BY <1>1, <1>3 DEF Untouched, Reading, Granted
  <2> QED BY <1>1, <1>3, <2>1, EndList
<1>4. CASE /\ Enters(h, Reads)
           /\ listing[fh].pos < Len(dirContent[fh].names)
           /\ task'[h].fh = fh
           /\ task'[h].pos = listing[fh].pos
           /\ task'[h].got = <<>>
           /\ listing' = listing
  <2>1. /\ \A g \in Handlers \ {h} : task'[g] = task[g]
        /\ answer' = answer
        /\ ~Reading(h)
    BY <1>4, IdleOp DEF Enters, HasAsked, Reading
  <2>2. Granted("fd")' => Granted("fd")
    BY <1>4, EnterGrant
  <2>3. \A x \in DOMAIN listing : ListedTo(x)'
    BY <1>1, <1>4 DEF ListInv, ListedTo
  <2>4. ASSUME NEW g \in Handlers, Reading(g)' PROVE ReadsOn(g)'
    <3>1. CASE g = h
      <4>1. PICK a \in Nat, c \in Nat : a = listing[fh].pos /\ c = Len(dirContent[fh].names)
        <5>1. ListedTo(fh)
          BY <1>1 DEF ListInv
        <5>2. Len(dirContent[fh].names) \in Nat
          BY <5>1 DEF ListedTo, NameSeq
        <5> QED BY <5>1, <5>2 DEF ListedTo
      <4>2. a \in a .. c - 1
        BY <1>4, <4>1
      <4>3. /\ <<>> \in Seq(Range(<<>>))
            /\ Len(<<>>) = a - a
            /\ DOMAIN <<>> = {}
        OBVIOUS
      <4>4. /\ task'[g].fh = fh /\ task'[g].pos = a /\ task'[g].got = <<>>
            /\ listing'[fh].pos = a /\ Len(dirContent'[fh].names) = c
            /\ listing'[fh].end = "" /\ fh \in DOMAIN listing'
        BY <1>1, <1>4, <3>1, <4>1
      <4> QED BY <4>2, <4>3, <4>4 DEF ReadsOn
    <3>2. CASE g # h
      <4>1. ReadsOn(g) /\ task'[g] = task[g]
        BY <2>1, <2>4, <3>2 DEF ListInv, Reading
      <4> QED BY <1>1, <1>4, <4>1 DEF ReadsOn
    <3> QED BY <3>1, <3>2
  <2>5. ASSUME NEW g \in Handlers, NEW k \in Handlers,
               Reading(g)', Reading(k)', task'[g].fh = task'[k].fh
        PROVE  g = k
    BY <1>1, <1>4, <2>1, <2>5 DEF ListInv, Reading
  <2>6. Granted("fd")' => answer'.l \in NameSeq
    BY <2>1, <2>2 DEF ListInv, NameSeq
  <2> QED BY <1>1, <1>4, <2>3, <2>4, <2>5, <2>6 DEF ListInv
<1> QED BY <1>1, <1>2, <1>3, <1>4, ReaddirStep

(* A handle that is not being read is given back.                          *)
LEMMA ReleasedirList ==
  ASSUME ListInv, NEW h, NEW fh, Releasedir(h, fh)
  PROVE  ListInv'
<1>1. /\ \A g \in Handlers : Reading(g) => task[g].fh # fh
      /\ dirContent' = Without(dirContent, fh)
      /\ listing' = Without(listing, fh)
      /\ UNCHANGED <<task, waiters, lastDir, answer>>
  BY DEF Releasedir, Reading, Start
<1>2. /\ DOMAIN dirContent' = DOMAIN dirContent \ {fh}
      /\ \A x \in DOMAIN dirContent : x # fh => dirContent'[x] = dirContent[x]
      /\ DOMAIN listing' = DOMAIN listing \ {fh}
      /\ \A x \in DOMAIN listing : x # fh => listing'[x] = listing[x]
  BY <1>1, WithoutDef
<1>3. DOMAIN listing = DOMAIN dirContent /\ DOMAIN dirContent \subseteq 1 .. lastDir
  BY DEF ListInv
<1>4. ASSUME NEW x \in DOMAIN listing' PROVE ListedTo(x)'
  <2>1. x \in DOMAIN listing /\ x \in DOMAIN dirContent /\ x # fh
    BY <1>2, <1>3, <1>4
  <2>2. ListedTo(x) /\ listing'[x] = listing[x] /\ dirContent'[x] = dirContent[x]
    BY <1>2, <2>1 DEF ListInv
  <2> QED BY <2>2 DEF ListedTo, NameSeq
<1>5. \A g \in Handlers : Reading(g)' <=> Reading(g)
  BY <1>1 DEF Reading
<1>6. ASSUME NEW g \in Handlers, Reading(g)' PROVE ReadsOn(g)'
  <2>1. ReadsOn(g) /\ task'[g] = task[g] /\ task[g].fh # fh
    BY <1>1, <1>5, <1>6 DEF ListInv
  <2>2. PICK x : x = task[g].fh
    OBVIOUS
  <2>3. x \in DOMAIN listing /\ x \in DOMAIN dirContent /\ x # fh
    BY <1>3, <2>1, <2>2 DEF ReadsOn
  <2>4. listing'[x] = listing[x] /\ dirContent'[x] = dirContent[x] /\ x \in DOMAIN listing'
    BY <1>2, <2>3
  <2> QED BY <2>1, <2>2, <2>4 DEF ReadsOn
<1>7. Granted("fd")' => answer'.l \in NameSeq
  BY <1>1 DEF ListInv, NameSeq, Granted
<1>8. \A g, k \in Handlers :
        Reading(g)' /\ Reading(k)' /\ task'[g].fh = task'[k].fh => g = k
  BY <1>1, <1>5 DEF ListInv
<1>9. lastDir' \in Nat /\ DOMAIN dirContent' \subseteq 1 .. lastDir'
  BY <1>1, <1>2, <1>3 DEF ListInv
<1> QED BY <1>2, <1>3, <1>4, <1>6, <1>7, <1>8, <1>9 DEF ListInv

(* fd returns the names of a directory, each of them once.                 *)
LEMMA CommandNames ==
  ASSUME NEW r, Command(r), r.a = "fd", answer'.k = "r"
  PROVE  answer'.l \in NameSeq
<1>1. cmd_fd(r)
  BY DEF Command
<1>2. IsDir(fs, r.p)
  <2>1. ~Crash
    BY DEF Crash
  <2> QED BY <1>1, <2>1 DEF cmd_fd
<1>3. PICK l \in [1 .. Cardinality(Entries(r.p)) -> Entries(r.p)] : Reply("", 0, l)
  BY <1>1, <1>2 DEF cmd_fd
<1>4. answer'.l = l
  BY <1>3 DEF Reply
<1>5. Cardinality(Entries(r.p)) \in Nat
  <2>1. IsFiniteSet(Names \cup {Xfn})
    BY DeviceFSAssumption, FS_AddElement
  <2>2. Entries(r.p) \subseteq Names \cup {Xfn}
    BY DEF Entries
  <2>3. IsFiniteSet(Entries(r.p))
    BY <2>1, <2>2, FS_Subset
  <2> QED BY <2>3, FS_CardinalityType
<1>6. l \in Seq(Names \cup {Xfn})
  <2>1. PICK n \in Nat : n = Cardinality(Entries(r.p))
    BY <1>5
  <2>2. l \in [1 .. n -> Names \cup {Xfn}]
    BY <2>1 DEF Entries
  <2> QED BY <2>2
<1> QED BY <1>4, <1>6 DEF NameSeq

LEMMA StepList ==
  ASSUME WaitInv, ListInv, [Next]_vars
  PROVE  ListInv'
<1>1. DOMAIN task = Handlers
  BY DEF WaitInv
<1>2. ASSUME NEW h \in Handlers, Kernel(h) PROVE ListInv'
  <2>1. CASE UNCHANGED <<dirContent, lastDir, listing>> /\ Untouched
    BY <2>1, StaysList DEF Untouched, Granted
  <2>2. ASSUME NEW P, Enters(h, P), P \subseteq Starts \cup {<<"release", "fc">>},
               UNCHANGED <<dirContent, lastDir, listing>>
        PROVE  ListInv'
    <3>1. <<task'[h].op, task'[h].req.a>> \in Starts \cup {<<"release", "fc">>}
      BY <2>2 DEF Enters, HasAsked
    <3>2. task'[h].op # "readdir"
      BY <3>1 DEF Starts
    <3>3. \A g \in Handlers \ {h} : task'[g] = task[g]
      BY <2>2 DEF Enters, HasAsked
    <3>4. Granted("fd")' => Granted("fd") /\ answer' = answer
      BY <2>2, EnterGrant DEF Enters
    <3> QED BY <2>2, <3>2, <3>3, <3>4, ListFrame
  <2>3. ASSUME NEW fh, Release(h, fh) PROVE ListInv'
    <3>1. UNCHANGED <<dirContent, lastDir, listing>>
      BY <2>3 DEF Release, dirVars
    <3>2. CASE Died /\ answer' = answer
      BY <3>1, <3>2, StaysList DEF Died, Granted
    <3>3. CASE Enters(h, {<<"release", "fc">>})
      BY <2>2, <3>1, <3>3
    <3> QED BY <1>1, <2>3, <3>2, <3>3, ReleaseStep
  <2>4. CASE UNCHANGED Tables /\ Enters(h, Starts)
    BY <2>2, <2>4 DEF Tables
  <2> QED
    BY <1>1, <1>2, <2>1, <2>3, <2>4, KernelSteps, ReaddirList, ReleasedirList DEF Tables
<1>3. ASSUME NEW h \in Handlers, Resume(h) PROVE ListInv'
  <2>1. ASSUME NEW P, Leaves(h) \/ Again(h, P), P \subseteq Goes \cup {<<"create", "fg">>},
               UNCHANGED <<dirContent, lastDir, listing>>
        PROVE  ListInv'
    <3>1. \A a : ~Granted(a)'
      BY <2>1, NoGrant DEF Leaves, Again
    <3>2. CASE Leaves(h)
      <4>1. task'[h] = Idle /\ \A g \in Handlers \ {h} : task'[g] = task[g]
        BY <1>1, <3>2 DEF Leaves
      <4> QED BY <2>1, <3>1, <4>1, IdleOp, ListFrame
    <3>3. CASE Again(h, P)
      <4>1. /\ \A g \in Handlers \ {h} : task'[g] = task[g]
            /\ <<task'[h].op, task'[h].req.a>> \in Goes \cup {<<"create", "fg">>}
        BY <2>1, <3>3 DEF Again, HasAsked
      <4>2. task'[h].op # "readdir"
        BY <4>1 DEF Goes
      <4> QED BY <2>1, <3>1, <4>1, <4>2, ListFrame
    <3> QED BY <2>1, <3>2, <3>3
  <2>2. CASE Usual(h) \/ Closed(h)
    BY <2>1, <2>2 DEF Usual, Closed, Tables
  <2>3. CASE ReadFail(h)
    <3>1. /\ h = Head(waiters)
          /\ Reading(h)
          /\ Leaves(h)
          /\ listing' = [listing EXCEPT ![task[h].fh].end = "failed"]
          /\ UNCHANGED <<dirContent, lastDir>>
      BY <2>3 DEF ReadFail, Answered, Reading
    <3>2. task'[h] = Idle /\ \A g \in Handlers \ {h} : task'[g] = task[g]
      BY <1>1, <3>1 DEF Leaves
    <3>3. \A g \in Handlers : Reading(g)' => Reading(g) /\ task'[g] = task[g] /\ g # h
      BY <3>2, IdleOp DEF Reading
    <3>4. \A g \in Handlers : Reading(g)' => task[g].fh # task[h].fh
      BY <3>1, <3>3 DEF ListInv
    <3>5. task[h].fh \in DOMAIN listing
      BY <3>1 DEF ListInv, ReadsOn
    <3>6. ~Granted("fd")'
      BY <3>1, NoGrant DEF Leaves
    <3> QED BY <3>1, <3>2, <3>3, <3>4, <3>5, <3>6, EndList
  <2>4. CASE IOFail(h)
    <3>1. UNCHANGED <<dirContent, lastDir, listing, task>> /\ answer' = NoAnswer
      BY <2>4 DEF IOFail, Die, Answered, dirVars, kernelVars
    <3>2. ~Granted("fd")'
      BY <3>1, NoGrant
    <3> QED BY <3>1, <3>2, StaysList
  <2>5. CASE Opened(h) \/ CreateOk(h)
    <3>1. UNCHANGED <<dirContent, lastDir, listing>>
      BY <2>5 DEF Opened, CreateOk, dirVars
    <3> QED BY <2>1, <2>5, <3>1, LeavesToo
  <2>6. CASE CreateOpened(h)
    <3>1. UNCHANGED <<dirContent, lastDir, listing>>
      BY <2>6 DEF CreateOpened, dirVars, kernelVars
    <3> QED BY <2>1, <2>6, <3>1, FreshStep
  <2>7. CASE DirOpened(h) \/ EntryOk(h) \/ EntryFull(h)
    BY <2>7, DirOpenedList, EntryList
  <2> QED BY <1>3, <2>2, <2>3, <2>4, <2>5, <2>6, <2>7, ResumeSteps
<1>4. CASE Host
  BY <1>2, <1>3, <1>4 DEF Host
<1>5. CASE Device
  <2>1. /\ waiters # <<>>
        /\ Command(task[Head(waiters)].req)
        /\ UNCHANGED <<dirContent, lastDir, listing, task, waiters>>
    BY <1>5 DEF Device, hostVars, taskVars, dirVars, kernelVars
  <2>2. Granted("fd")' => answer'.l \in NameSeq
    BY <2>1, CommandNames DEF Granted
  <2>3. \A g \in Handlers : Reading(g)' <=> Reading(g)
    BY <2>1 DEF Reading
  <2>4. \A fh \in DOMAIN listing : ListedTo(fh)'
    BY <2>1 DEF ListInv, ListedTo
  <2>5. \A g \in Handlers : Reading(g)' => ReadsOn(g)'
    BY <2>1, <2>3 DEF ListInv, ReadsOn
  <2> QED BY <2>1, <2>2, <2>3, <2>4, <2>5 DEF ListInv
<1>6. CASE Other \/ UNCHANGED vars
  <2>1. UNCHANGED <<dirContent, lastDir, listing, task, waiters, answer>>
    BY <1>6 DEF Other, Elsewhere, vars, hostVars, taskVars, devVars, dirVars, kernelVars
  <2> QED BY <2>1, StaysList DEF Granted
<1> QED BY <1>4, <1>5, <1>6 DEF Next

LEMMA InitList == Init => ListInv
<1> SUFFICES ASSUME Init PROVE ListInv
  OBVIOUS
<1>1. /\ task = [h \in Handlers |-> Idle]
      /\ waiters = <<>>
      /\ lastDir = 0
      /\ dirContent = Restrict(<<>>, {})
      /\ listing = Restrict(<<>>, {})
  BY DEF Init, FuseInit
<1>2. DOMAIN dirContent = {} /\ DOMAIN listing = {}
  BY <1>1 DEF Restrict
<1>3. \A h \in Handlers : ~Reading(h)
  BY <1>1, IdleOp DEF Reading
<1>4. ~Granted("fd")
  BY <1>1 DEF Granted
<1> QED BY <1>1, <1>2, <1>3, <1>4 DEF ListInv

(* A handle's listing is read by one call at a time, which goes on where   *)
(* the one before has stopped.                                             *)
THEOREM ListInvariance == Spec => [](WaitInv /\ ListInv)
<1>1. WaitInv /\ ListInv /\ [Next]_vars => (WaitInv /\ ListInv)'
  BY StepWait, StepList
<1> QED BY InitWait, InitList, <1>1, PTL DEF Spec

(* However a listing is cut into calls of readdir, and whatever else runs  *)
(* in between, what has been returned is an initial part of the names the  *)
(* device has sent, all of them at "done".                                 *)
THEOREM ListedAsSent == Spec => []ListedInOrder
<1>1. ASSUME ListInv PROVE ListedInOrder
  <2> SUFFICES ASSUME NEW fh \in DOMAIN listing
               PROVE  LET l == listing[fh]
                          names == dirContent[fh].names
                      IN  /\ l.seen = SubSeq(names, 1, l.pos)
                          /\ l.end = "done" => l.seen = names
    BY DEF ListedInOrder
  <2>1. ListedTo(fh)
    BY <1>1 DEF ListInv
  <2>2. PICK names \in Seq(Names \cup {Xfn}) : names = dirContent[fh].names
    BY <2>1 DEF ListedTo, NameSeq
  <2>3. SubSeq(names, 1, Len(names)) = names
    OBVIOUS
  <2> QED BY <2>1, <2>2, <2>3 DEF ListedTo
<1> QED BY <1>1, ListInvariance, PTL

-----------------------------------------------------------------------------
(* With, seen through its domain and values.                               *)
LEMMA WithDef ==
  ASSUME NEW f, NEW k, NEW v
  PROVE  /\ DOMAIN With(f, k, v) = DOMAIN f \cup {k}
         /\ With(f, k, v)[k] = v
         /\ \A x \in DOMAIN f : x # k => With(f, k, v)[x] = f[x]
BY DEF With

(* Paths: a child, and the way up.                                         *)
LEMMA ChildPath ==
  ASSUME NEW p \in Path, NEW n \in Names \cup {Xfn}
  PROVE  /\ Append(p, n) \in Path
         /\ Append(p, n) # Root
<1> DEFINE S == Names \cup {Xfn}
<1>1. n \in S /\ p \in Seq(S)
  BY DEF Path
<1> HIDE DEF S
<1>2. Append(p, n) \in Seq(S) /\ Len(Append(p, n)) = Len(p) + 1 /\ Len(p) \in Nat
  BY <1>1, AppendProperties
<1>3. Append(p, n) # <<>>
  BY <1>2
<1> QED BY <1>2, <1>3 DEF Path, Root, S

LEMMA RootPath == Root \in Path
BY DEF Path, Root

LEMMA PathFacts ==
  ASSUME NEW p \in Path
  PROVE  /\ Len(p) \in Nat
         /\ DOMAIN p = 1 .. Len(p)
         /\ \A k \in 1 .. Len(p) : p[k] \in Names \cup {Xfn}
         /\ p # Root <=> Len(p) > 0
BY DEF Path, Root

LEMMA SamePath ==
  ASSUME NEW p \in Path, NEW q \in Path, Len(p) = Len(q),
         \A k \in 1 .. Len(p) : p[k] = q[k]
  PROVE  p = q
BY SeqEqual DEF Path

LEMMA ParentPath ==
  ASSUME NEW p \in Path, p # Root
  PROVE  /\ Parent(p) \in Path
         /\ Len(Parent(p)) = Len(p) - 1
         /\ \A k \in 1 .. Len(p) - 1 : Parent(p)[k] = p[k]
<1> DEFINE S == Names \cup {Xfn}
<1>1. p \in Seq(S) /\ Len(p) \in Nat /\ Len(p) > 0
  BY PathFacts DEF Path
<1> HIDE DEF S
<1>2. PICK m \in Nat : m = Len(p) - 1
  BY <1>1
<1>3. \A i \in 1 .. m : p[i] \in S
  BY <1>1, <1>2
<1>4. /\ SubSeq(p, 1, m) \in Seq(S)
      /\ Len(SubSeq(p, 1, m)) = m
      /\ \A k \in 1 .. m : SubSeq(p, 1, m)[k] = p[k]
  BY <1>3, SubSeqProperties
<1>5. /\ SubSeq(p, 1, Len(p) - 1) \in Seq(S)
      /\ Len(SubSeq(p, 1, Len(p) - 1)) = Len(p) - 1
      /\ \A k \in 1 .. Len(p) - 1 : SubSeq(p, 1, Len(p) - 1)[k] = p[k]
  BY <1>2, <1>4
<1> QED BY <1>5 DEF Path, Parent, S

LEMMA WithinDef ==
  ASSUME NEW p \in Path, NEW q \in Path
  PROVE  Within(p, q) <=> Len(p) <= Len(q) /\ \A k \in 1 .. Len(p) : q[k] = p[k]
<1>1. Len(p) \in Nat /\ Len(q) \in Nat
  BY PathFacts
<1>2. CASE Len(p) <= Len(q)
  <2>1. /\ SubSeq(q, 1, Len(p)) \in Path
        /\ Len(SubSeq(q, 1, Len(p))) = Len(p)
        /\ \A k \in 1 .. Len(p) : SubSeq(q, 1, Len(p))[k] = q[k]
    BY <1>1, <1>2 DEF Path
  <2> DEFINE s == SubSeq(q, 1, Len(p))
  <2> HIDE DEF s
  <2>2. s = p <=> \A k \in 1 .. Len(p) : q[k] = p[k]
    BY <2>1, SamePath DEF s
  <2> QED BY <1>2, <2>2 DEF Within, s
<1>3. CASE ~(Len(p) <= Len(q))
  BY <1>3 DEF Within
<1> QED BY <1>2, <1>3

LEMMA WithinUp ==
  ASSUME NEW p \in Path, NEW q \in Path, q # Root
  PROVE  /\ Within(p, Parent(q)) => Within(p, q) /\ p # q
         /\ Within(p, q) /\ p # q => Within(p, Parent(q))
         /\ Within(Parent(q), q) /\ Parent(q) # q
<1>1. /\ Len(p) \in Nat
      /\ Len(q) \in Nat
      /\ Len(q) > 0
      /\ Parent(q) \in Path
      /\ Len(Parent(q)) = Len(q) - 1
      /\ \A k \in 1 .. Len(q) - 1 : Parent(q)[k] = q[k]
  BY PathFacts, ParentPath
<1>2. ASSUME Within(p, q), p # q PROVE Within(p, Parent(q))
  <2>1. Len(p) <= Len(q) /\ \A k \in 1 .. Len(p) : q[k] = p[k]
    BY <1>2, WithinDef
  <2>2. Len(p) # Len(q)
    BY <1>2, <2>1, SamePath
  <2> QED BY <1>1, <2>1, <2>2, WithinDef
<1>3. ASSUME Within(p, Parent(q)) PROVE Within(p, q) /\ p # q
  <2>1. Len(p) <= Len(q) - 1 /\ \A k \in 1 .. Len(p) : Parent(q)[k] = p[k]
    BY <1>1, <1>3, WithinDef
  <2>2. Within(p, q)
    BY <1>1, <2>1, WithinDef
  <2> QED BY <1>1, <2>1, <2>2
<1>4. Within(Parent(q), q) /\ Parent(q) # q
  BY <1>1, WithinDef
<1> QED BY <1>2, <1>3, <1>4

(* What is under p, put under q instead; and back.                         *)
Moved(p, q, x) == q \o SubSeq(x, Len(p) + 1, Len(x))

IsMoved(p, q, x, y) ==
  /\ y \in Path
  /\ Len(y) = Len(q) + (Len(x) - Len(p))
  /\ \A k \in 1 .. Len(q) : y[k] = q[k]
  /\ \A k \in 1 .. Len(x) - Len(p) : y[Len(q) + k] = x[Len(p) + k]

LEMMA MovedDef ==
  ASSUME NEW p \in Path, NEW q \in Path, NEW x \in Path, Within(p, x)
  PROVE  IsMoved(p, q, x, Moved(p, q, x))
<1>1. Len(p) \in Nat /\ Len(q) \in Nat /\ Len(x) \in Nat /\ Len(p) <= Len(x)
  BY PathFacts DEF Within
<1> DEFINE s == SubSeq(x, Len(p) + 1, Len(x))
<1>2. /\ s \in Path
      /\ Len(s) = Len(x) - Len(p)
      /\ \A k \in 1 .. Len(x) - Len(p) : s[k] = x[Len(p) + k]
  <2>1. Len(p) + 1 \in 1 .. Len(x) + 1
    BY <1>1
  <2> QED BY <1>1, <2>1, SubSeqProperties DEF Path
<1> HIDE DEF s
<1>3. /\ q \o s \in Path
      /\ Len(q \o s) = Len(q) + Len(s)
      /\ \A k \in 1 .. Len(q) : (q \o s)[k] = q[k]
      /\ \A k \in 1 .. Len(s) : (q \o s)[Len(q) + k] = s[k]
  <2>1. q \o s \in Path /\ Len(q \o s) = Len(q) + Len(s)
    BY <1>2, ConcatProperties DEF Path
  <2>2. \A k \in 1 .. Len(q) + Len(s) :
          (q \o s)[k] = IF k <= Len(q) THEN q[k] ELSE s[k - Len(q)]
    BY <1>2, ConcatProperties DEF Path
  <2>3. Len(s) \in Nat
    BY <1>1, <1>2
  <2> QED BY <1>1, <2>1, <2>2, <2>3
<1> QED BY <1>1, <1>2, <1>3 DEF Moved, s, IsMoved

LEMMA MovedBack ==
  ASSUME NEW p \in Path, NEW q \in Path, NEW x \in Path, Within(p, x)
  PROVE  /\ Moved(p, q, x) \in Path
         /\ Within(q, Moved(p, q, x))
         /\ Moved(q, p, Moved(p, q, x)) = x
         /\ x = p => Moved(p, q, x) = q
         /\ x # p => /\ x # Root
                     /\ Moved(p, q, x) # Root
                     /\ Within(p, Parent(x))
                     /\ Parent(Moved(p, q, x)) = Moved(p, q, Parent(x))
<1>1. Len(p) \in Nat /\ Len(q) \in Nat /\ Len(x) \in Nat /\ Len(p) <= Len(x)
  BY PathFacts DEF Within
<1>2. PICK y : y = Moved(p, q, x)
  OBVIOUS
<1>3. /\ y \in Path
      /\ Len(y) = Len(q) + (Len(x) - Len(p))
      /\ \A k \in 1 .. Len(q) : y[k] = q[k]
      /\ \A k \in 1 .. Len(x) - Len(p) : y[Len(q) + k] = x[Len(p) + k]
  <2>1. IsMoved(p, q, x, y)
    BY <1>2, MovedDef
  <2> QED BY <2>1 DEF IsMoved
<1>4. Within(q, y)
  BY <1>1, <1>3, WithinDef
<1>5. \A k \in 1 .. Len(p) : x[k] = p[k]
  BY WithinDef
<1>6. Moved(q, p, y) = x
  <2>1. PICK z : z = Moved(q, p, y)
    OBVIOUS
  <2>2. /\ z \in Path
        /\ Len(z) = Len(p) + (Len(y) - Len(q))
        /\ \A k \in 1 .. Len(p) : z[k] = p[k]
        /\ \A k \in 1 .. Len(y) - Len(q) : z[Len(p) + k] = y[Len(q) + k]
    <3>1. IsMoved(q, p, y, z)
      BY <1>3, <1>4, <2>1, MovedDef
    <3> QED BY <3>1 DEF IsMoved
  <2>3. Len(z) = Len(x) /\ Len(y) - Len(q) = Len(x) - Len(p)
    BY <1>1, <1>3, <2>2
  <2>4. ASSUME NEW k \in 1 .. Len(x) PROVE z[k] = x[k]
    <3>1. CASE k <= Len(p)
      BY <1>1, <1>5, <2>2, <3>1
    <3>2. CASE k > Len(p)
      <4>1. k - Len(p) \in 1 .. Len(x) - Len(p) /\ Len(p) + (k - Len(p)) = k
        BY <1>1, <3>2
      <4>2. z[k] = y[Len(q) + (k - Len(p))]
        BY <2>2, <2>3, <4>1
      <4>3. y[Len(q) + (k - Len(p))] = x[k]
        BY <1>3, <4>1
      <4> QED BY <4>2, <4>3
    <3> QED BY <1>1, <3>1, <3>2
  <2> QED BY <2>1, <2>2, <2>3, <2>4, SamePath
<1>7. x = p => y = q
  BY <1>1, <1>3, SamePath
<1>8. ASSUME x # p
      PROVE  /\ x # Root
             /\ y # Root
             /\ Within(p, Parent(x))
             /\ Parent(y) = Moved(p, q, Parent(x))
  <2>1. Len(x) > Len(p)
    BY <1>1, <1>5, <1>8, SamePath
  <2>2. x # Root /\ y # Root
    BY <1>1, <1>3, <2>1, PathFacts
  <2>3. Within(p, Parent(x))
    BY <1>8, <2>2, WithinUp
  <2>4. PICK u, v : u = Parent(x) /\ v = Parent(y)
    OBVIOUS
  <2>5. /\ u \in Path /\ v \in Path
        /\ Len(u) = Len(x) - 1
        /\ Len(v) = Len(y) - 1
        /\ \A k \in 1 .. Len(x) - 1 : u[k] = x[k]
        /\ \A k \in 1 .. Len(y) - 1 : v[k] = y[k]
    BY <1>3, <2>2, <2>4, ParentPath
  <2>6. PICK w : w = Moved(p, q, u)
    OBVIOUS
  <2>7. /\ w \in Path
        /\ Len(w) = Len(q) + (Len(u) - Len(p))
        /\ \A k \in 1 .. Len(q) : w[k] = q[k]
        /\ \A k \in 1 .. Len(u) - Len(p) : w[Len(q) + k] = u[Len(p) + k]
    <3>1. IsMoved(p, q, u, w)
      BY <2>3, <2>4, <2>5, <2>6, MovedDef
    <3> QED BY <3>1 DEF IsMoved
  <2>8. Len(w) = Len(v) /\ Len(v) = Len(q) + (Len(x) - Len(p)) - 1
    BY <1>1, <1>3, <2>5, <2>7
  <2>9. ASSUME NEW k \in 1 .. Len(v) PROVE w[k] = v[k]
    <3>1. v[k] = y[k]
      BY <1>1, <1>3, <2>5, <2>8
    <3>2. CASE k <= Len(q)
      BY <1>1, <1>3, <2>7, <3>1, <3>2
    <3>3. CASE k > Len(q)
      <4>1. PICK j : j = k - Len(q)
        OBVIOUS
      <4>2. /\ j \in 1 .. Len(u) - Len(p)
            /\ j \in 1 .. Len(x) - Len(p)
            /\ Len(q) + j = k
            /\ Len(p) + j \in 1 .. Len(x) - 1
        BY <1>1, <2>5, <2>8, <3>3, <4>1
      <4>3. w[k] = u[Len(p) + j]
        BY <2>7, <4>2
      <4>4. u[Len(p) + j] = x[Len(p) + j]
        BY <2>5, <4>2
      <4>5. y[k] = x[Len(p) + j]
        BY <1>3, <4>2
      <4> QED BY <3>1, <4>3, <4>4, <4>5
    <3> QED BY <1>1, <2>8, <3>2, <3>3
  <2>10. v = w
    BY <2>5, <2>7, <2>8, <2>9, SamePath
  <2> QED BY <2>2, <2>3, <2>4, <2>6, <2>10
<1> QED BY <1>2, <1>3, <1>4, <1>6, <1>7, <1>8
-----------------------------------------------------------------------------
(* Trees.                                                                  *)
LEMMA Least ==
  ASSUME NEW S \in SUBSET Nat, S # {}
  PROVE  \E m \in S : \A k \in S : m <= k
<1> DEFINE R == OpToRel(<, Nat)
<1>1. IsWellFoundedOn(R, Nat) BY NatLessThanWellFounded
<1>2. \A x, y \in Nat : x < y => <<x, y>> \in R BY DEF OpToRel
<1> HIDE DEF R
<1>3. PICK m \in S : \A k \in S : <<k, m>> \notin R BY <1>1, WFMin
<1>4. ASSUME NEW k \in S PROVE m <= k
  <2>1. <<k, m>> \notin R BY <1>3
  <2>2. k \in Nat /\ m \in Nat OBVIOUS
  <2>3. ~(k < m) BY <2>1, <2>2, <1>2
  <2> QED BY <2>2, <2>3
<1> QED BY <1>3, <1>4

(* Whatever is above a path of the tree is in the tree: the shortest path  *)
(* below q that is there has its parent there, unless it is q itself.      *)
LEMMA Ancestors ==
  ASSUME NEW f, IsTree(f), NEW y \in DOMAIN f, NEW q \in Path, Within(q, y)
  PROVE  q \in DOMAIN f
<1> DEFINE S == {n \in Nat : \E z \in DOMAIN f : Len(z) = n /\ Within(q, z)}
<1>1. DOMAIN f \subseteq Path
  BY DEF IsTree
<1>2. S \in SUBSET Nat /\ Len(y) \in S
  BY <1>1, PathFacts
<1>3. PICK m \in S : \A k \in S : m <= k
  BY <1>2, Least
<1>4. PICK z \in DOMAIN f : Len(z) = m /\ Within(q, z)
  BY <1>3
<1>5. z \in Path
  BY <1>1
<1>6. CASE z = q
  BY <1>6
<1>7. CASE z # q
  <2>1. z # Root
    <3>1. Len(q) \in Nat /\ (z # Root <=> Len(z) > 0)
      BY <1>5, PathFacts
    <3>2. Len(q) <= Len(z) /\ (q # Root <=> Len(q) > 0)
      BY <1>4, PathFacts DEF Within
    <3> QED BY <1>7, <3>1, <3>2
  <2>2. Within(q, Parent(z)) /\ Len(Parent(z)) = Len(z) - 1 /\ Parent(z) \in Path
    BY <1>4, <1>5, <1>7, <2>1, WithinUp, ParentPath
  <2>3. Parent(z) \in DOMAIN f
    BY <2>1 DEF IsTree, IsDir
  <2>4. Len(Parent(z)) \in Nat
    BY <2>2, PathFacts
  <2>5. Len(Parent(z)) \in S
    BY <2>2, <2>3, <2>4
  <2>6. m <= Len(z) - 1 /\ m \in Nat
    BY <1>3, <2>2, <2>5
  <2> QED BY <1>4, <2>6
<1> QED BY <1>6, <1>7

LEMMA TreeWith ==
  ASSUME NEW f, IsTree(f), NEW p \in Path, NEW v \in {"d", "f"},
         Room(f, p) \/ (IsFile(f, p) /\ v = "f")
  PROVE  IsTree(With(f, p, v))
<1>1. PICK g : g = With(f, p, v)
  OBVIOUS
<1>2. /\ DOMAIN g = DOMAIN f \cup {p}
      /\ g[p] = v
      /\ \A x \in DOMAIN f : x # p => g[x] = f[x]
  BY <1>1 DEF With
<1>3. p # Root
  BY DEF Room, IsFile, IsTree, IsDir
<1>4. DOMAIN g \subseteq Path /\ \A x \in DOMAIN g : g[x] \in {"d", "f"}
  BY <1>2 DEF IsTree
<1>5. IsDir(g, Root)
  BY <1>2, <1>3 DEF IsTree, IsDir
<1>6. ASSUME NEW x, IsDir(f, x) PROVE IsDir(g, x)
  <2>1. x # p
    BY <1>6 DEF Room, IsFile, IsDir
  <2> QED BY <1>2, <1>6, <2>1 DEF IsDir
<1>7. ASSUME NEW x \in DOMAIN g \ {Root} PROVE IsDir(f, Parent(x))
  <2>1. CASE x \in DOMAIN f
    BY <1>7, <2>1 DEF IsTree
  <2>2. CASE x \notin DOMAIN f
    BY <1>2, <1>7, <2>2 DEF Room, IsFile
  <2> QED BY <2>1, <2>2
<1> QED BY <1>1, <1>4, <1>5, <1>6, <1>7 DEF IsTree

LEMMA TreeWithout ==
  ASSUME NEW f, IsTree(f), NEW p \in Path, p # Root,
         IsFile(f, p) \/ IsEmpty(f, p)
  PROVE  IsTree(Without(f, p))
<1>1. PICK g : g = Without(f, p)
  OBVIOUS
<1>2. /\ DOMAIN g = DOMAIN f \ {p}
      /\ \A x \in DOMAIN f : x # p => g[x] = f[x]
  BY <1>1, WithoutDef
<1>3. DOMAIN g \subseteq Path /\ \A x \in DOMAIN g : g[x] \in {"d", "f"}
  BY <1>2 DEF IsTree
<1>4. IsDir(g, Root)
  BY <1>2 DEF IsTree, IsDir
<1>5. ASSUME NEW x \in DOMAIN g \ {Root} PROVE IsDir(g, Parent(x))
  <2>1. x \in DOMAIN f /\ x # p /\ x \in Path /\ x # Root
    BY <1>2, <1>3, <1>5
  <2>2. IsDir(f, Parent(x))
    BY <2>1 DEF IsTree
  <2>3. Parent(x) # p
    <3>1. CASE IsFile(f, p)
      BY <2>2, <3>1 DEF IsFile, IsDir
    <3>2. CASE IsEmpty(f, p)
      BY <2>1, <3>2, WithinUp DEF IsEmpty
    <3> QED BY <3>1, <3>2
  <2> QED BY <1>2, <2>2, <2>3 DEF IsDir
<1> QED BY <1>1, <1>3, <1>4, <1>5 DEF IsTree

Under(f, p) == {x \in DOMAIN f : Within(p, x)}
Placed(f, p, q) == {Moved(p, q, x) : x \in Under(f, p)}

AfterMove(f, p, q, g) ==
  /\ DOMAIN g = (DOMAIN f \ Under(f, p)) \cup Placed(f, p, q)
  /\ \A x \in Under(f, p) : g[Moved(p, q, x)] = f[x]
  /\ \A y \in DOMAIN f \ Under(f, p) : y \notin Placed(f, p, q) => g[y] = f[y]

LEMMA MoveDef ==
  ASSUME NEW f, DOMAIN f \subseteq Path, NEW p \in Path, NEW q \in Path,
         NEW g, g = Move(f, p, q)
  PROVE  AfterMove(f, p, q, g)
<1> DEFINE moved == Under(f, p)
           news  == Placed(f, p, q)
<1>1. g = [y \in (DOMAIN f \ moved) \cup news |->
             IF y \in news THEN f[Moved(q, p, y)] ELSE f[y]]
  BY DEF Move, Moved, Under, Placed
<1>2. ASSUME NEW x \in moved PROVE Moved(q, p, Moved(p, q, x)) = x
  BY MovedBack DEF Under
<1>3. \A x \in moved : Moved(p, q, x) \in news
  BY DEF Placed
<1> HIDE DEF moved, news
<1>4. \A x \in moved : g[Moved(p, q, x)] = f[x]
  BY <1>1, <1>2, <1>3
<1>5. \A y \in DOMAIN f \ moved : y \notin news => g[y] = f[y]
  BY <1>1
<1>6. DOMAIN g = (DOMAIN f \ moved) \cup news
  BY <1>1
<1> QED BY <1>4, <1>5, <1>6 DEF moved, news, AfterMove

(* A rename leaves a tree: nothing of p's stays behind, and nothing of q's *)
(* was there, or it was q alone.                                           *)
LEMMA TreeMove ==
  ASSUME NEW f, IsTree(f), NEW p \in Path, NEW q \in Path, CanMove(f, p, q)
  PROVE  IsTree(Move(f, p, q))
<1>0. PICK moved, news : moved = Under(f, p) /\ news = Placed(f, p, q)
  OBVIOUS
<1>a. \A y : y \in news <=> \E x \in moved : y = Moved(p, q, x)
  BY <1>0 DEF Placed
<1>1. PICK g : g = Move(f, p, q)
  OBVIOUS
<1>2. /\ DOMAIN f \subseteq Path
      /\ \A x \in DOMAIN f : f[x] \in {"d", "f"}
      /\ \A x \in DOMAIN f \ {Root} : IsDir(f, Parent(x))
      /\ IsDir(f, Root)
  BY DEF IsTree
<1>3. /\ DOMAIN g = (DOMAIN f \ moved) \cup news
      /\ \A x \in moved : g[Moved(p, q, x)] = f[x]
      /\ \A y \in DOMAIN f \ moved : y \notin news => g[y] = f[y]
  <2>1. DOMAIN f \subseteq Path
    BY <1>2
  <2>2. AfterMove(f, p, q, g)
    BY <1>1, <2>1, MoveDef
  <2> QED BY <1>0, <2>2 DEF AfterMove
<1>4. \A x \in moved : /\ Moved(p, q, x) \in Path
                       /\ Within(q, Moved(p, q, x))
                       /\ x = p => Moved(p, q, x) = q
                       /\ x # p => /\ x # Root
                                   /\ Within(p, Parent(x))
                                   /\ Parent(Moved(p, q, x)) = Moved(p, q, Parent(x))
  BY <1>0, <1>2, MovedBack DEF Under
<1>5. \A y \in news : y \in Path /\ Within(q, y)
  BY <1>a, <1>4
<1>6. p \in DOMAIN f /\ p # Root /\ p \in moved
  <2>1. p \in DOMAIN f /\ p # Root
    BY DEF CanMove
  <2>2. Within(p, p)
    BY PathFacts, WithinDef
  <2> QED BY <1>0, <2>1, <2>2 DEF Under
<1>7. q # Root
  <2>1. CASE p = q
    BY <1>6, <2>1
  <2>2. CASE Room(f, q)
    BY <2>2 DEF Room
  <2>3. CASE IsEmpty(f, q) /\ p # q
    <3>1. \A x \in Path : Within(Root, x)
      BY RootPath, PathFacts, WithinDef DEF Root
    <3> QED BY <1>2, <1>6, <2>3, <3>1 DEF IsEmpty
  <2> QED BY <2>1, <2>2, <2>3 DEF CanMove
<1>8. IsDir(f, Parent(q)) /\ Parent(q) \in Path
  <2>1. q \in DOMAIN f \/ Room(f, q)
    BY DEF CanMove
  <2> QED BY <1>2, <1>7, <2>1, ParentPath DEF Room
\* A path that stays and is under q is q itself.
<1>9. ASSUME NEW y \in DOMAIN f \ moved, Within(q, y) PROVE y = q
  <2>1. CASE p = q
    BY <1>0, <1>9, <2>1 DEF Under
  <2>2. CASE IsEmpty(f, q)
    BY <1>9, <2>2 DEF IsEmpty
  <2>3. CASE Room(f, q)
    BY <1>9, <2>3, Ancestors DEF Room
  <2> QED BY <2>1, <2>2, <2>3 DEF CanMove
<1>10. ASSUME NEW y \in DOMAIN g PROVE y \in Path /\ g[y] \in {"d", "f"}
  <2>1. CASE y \in news
    <3>1. PICK x \in moved : y = Moved(p, q, x)
      BY <1>a, <2>1
    <3>2. x \in DOMAIN f
      BY <1>0 DEF Under
    <3> QED BY <1>2, <1>3, <1>4, <3>1, <3>2
  <2>2. CASE y \notin news
    BY <1>2, <1>3, <1>10, <2>2
  <2> QED BY <2>1, <2>2
\* What is not under q keeps its place, if it is not under p.
<1>11. ASSUME NEW y, IsDir(f, y), y \notin moved, y \notin news PROVE IsDir(g, y)
  BY <1>3, <1>11 DEF IsDir
<1>12. IsDir(g, Root)
  <2>1. Root \notin moved
    <3>1. Len(Root) = 0 /\ Len(p) > 0
      BY <1>6, PathFacts DEF Root
    <3> QED BY <1>0, <3>1 DEF Under, Within
  <2>2. Root \notin news
    <3>1. Len(Root) = 0 /\ Len(q) > 0
      BY <1>7, PathFacts DEF Root
    <3> QED BY <1>5, <3>1 DEF Within
  <2> QED BY <1>2, <1>11, <2>1, <2>2
<1>13. ASSUME NEW y \in DOMAIN g \ {Root} PROVE IsDir(g, Parent(y))
  <2>1. ASSUME NEW x \in moved, x # p, y = Moved(p, q, x) PROVE IsDir(g, Parent(y))
    <3>1. x \in DOMAIN f \ {Root} /\ Parent(y) = Moved(p, q, Parent(x)) /\ Within(p, Parent(x))
      BY <1>0, <1>4, <2>1 DEF Under
    <3>2. IsDir(f, Parent(x))
      BY <1>2, <3>1
    <3>3. Parent(x) \in moved
      BY <1>0, <3>1, <3>2 DEF Under, IsDir
    <3>4. Moved(p, q, Parent(x)) \in news
      BY <1>a, <3>3
    <3> QED BY <1>3, <3>1, <3>2, <3>3, <3>4 DEF IsDir
  <2>2. CASE y = q
    <3>1. Parent(q) \notin news
      <4>1. Len(Parent(q)) = Len(q) - 1 /\ Len(q) \in Nat
        BY <1>7, ParentPath, PathFacts
      <4> QED BY <1>5, <4>1 DEF Within
    <3>2. CASE p = q
      <4>1. Parent(q) \notin moved
        <5>1. ~Within(p, Parent(q))
          BY <1>7, <3>2, WithinUp
        <5> QED BY <1>0, <5>1 DEF Under
      <4> QED BY <1>8, <1>11, <2>2, <3>1, <4>1
    <3>3. CASE ~Within(p, q)
      <4>1. Parent(q) \notin moved
        <5>1. ~Within(p, Parent(q))
          BY <1>7, <3>3, WithinUp
        <5> QED BY <1>0, <5>1 DEF Under
      <4> QED BY <1>8, <1>11, <2>2, <3>1, <4>1
    <3> QED BY <3>2, <3>3 DEF CanMove
  <2>3. CASE y # q /\ y \notin news
    <3>1. y \in DOMAIN f \ {Root} /\ y \notin moved /\ y \in Path
      BY <1>2, <1>3, <1>13, <2>3
    <3>2. IsDir(f, Parent(y)) /\ Parent(y) \in Path
      BY <1>2, <3>1, ParentPath
    <3>3. Parent(y) \notin moved
      <4>1. ~Within(p, y)
        BY <1>0, <3>1 DEF Under
      <4> QED BY <1>0, <3>1, <4>1, WithinUp DEF Under
    <3>4. Parent(y) \notin news
      <4>1. ~Within(q, y)
        BY <1>9, <2>3, <3>1
      <4> QED BY <1>5, <3>1, <4>1, WithinUp
    <3> QED BY <1>11, <3>2, <3>3, <3>4
  <2>4. CASE y # q /\ y \in news
    <3>1. PICK x \in moved : y = Moved(p, q, x)
      BY <1>a, <2>4
    <3>2. x # p
      BY <1>4, <2>4, <3>1
    <3> QED BY <2>1, <3>1, <3>2
  <2> QED BY <2>2, <2>3, <2>4
<1>14. DOMAIN g \subseteq Path /\ \A x \in DOMAIN g : g[x] \in {"d", "f"}
  BY <1>10
<1> QED BY <1>1, <1>12, <1>13, <1>14 DEF IsTree

LEMMA TreeRename ==
  ASSUME NEW s, IsTree(s.fs), NEW p \in Path, NEW q \in Path
  PROVE  IsTree(Rename(s, p, q).fs)
BY TreeMove DEF Rename

LEMMA TreeExchange ==
  ASSUME NEW f, IsTree(f), NEW p \in Path, NEW q \in Path, NEW third \in Path
  PROVE  IsTree(Exchange(f, p, q, third).fs)
<1>1. PICK zero : zero = [ok |-> TRUE, fs |-> f]
  OBVIOUS
<1>2. PICK one : one = Rename(zero, p, third)
  OBVIOUS
<1>3. PICK two : two = Rename(one, q, p)
  OBVIOUS
<1>4. IsTree(zero.fs)
  BY <1>1
<1>5. IsTree(one.fs)
  BY <1>2, <1>4, TreeRename
<1>6. IsTree(two.fs)
  BY <1>3, <1>5, TreeRename
<1>7. Exchange(f, p, q, third) = Rename(two, third, q)
  BY <1>1, <1>2, <1>3 DEF Exchange
<1> QED BY <1>6, <1>7, TreeRename

-----------------------------------------------------------------------------
(* What the device does leaves a tree.                                     *)
Replied == wedged' \in BOOLEAN /\ answer'.k \in {"", "r", "e"}

LEMMA ReplyTyped ==
  ASSUME wedged \in BOOLEAN
  PROVE  /\ \A s, n, l : Reply(s, n, l) => Replied
         /\ \A s : Fail(s) => Replied
         /\ Crash => Replied
<1>1. ASSUME NEW s, NEW n, NEW l, Reply(s, n, l) PROVE Replied
  <2>1. wedged' = wedged
    BY <1>1 DEF Reply
  <2>2. answer'.k = "r"
    BY <1>1 DEF Reply
  <2> QED BY <2>1, <2>2 DEF Replied
<1>2. ASSUME NEW s, Fail(s) PROVE Replied
  <2>1. wedged' = wedged
    BY <1>2 DEF Fail
  <2>2. answer'.k = "e"
    BY <1>2 DEF Fail
  <2> QED BY <2>1, <2>2 DEF Replied
<1>3. ASSUME Crash PROVE Replied
  <2>1. wedged' = TRUE
    BY <1>3 DEF Crash
  <2>2. answer'.k = "e"
    BY <1>3 DEF Crash
  <2> QED BY <2>1, <2>2 DEF Replied
<1> QED BY <1>1, <1>2, <1>3

LEMMA CommandReplied ==
  ASSUME wedged \in BOOLEAN, NEW r, Command(r)
  PROVE  Replied
<1>1. CASE cmd_fg(r) \/ cmd_fd(r) \/ cmd_fD(r) \/ cmd_fn(r)
  BY <1>1, ReplyTyped DEF cmd_fg, cmd_fd, cmd_fD, cmd_fn, Missing, Done
<1>2. CASE cmd_fu(r) \/ cmd_fU(r)
  BY <1>2, ReplyTyped DEF cmd_fu, cmd_fU, Missing, Done
<1>3. CASE cmd_fm(r)
  BY <1>3, ReplyTyped DEF cmd_fm, Done
<1>4. CASE cmd_fo(r) \/ cmd_fr(r) \/ cmd_fw(r) \/ cmd_fc(r)
  BY <1>4, ReplyTyped DEF cmd_fo, cmd_fr, cmd_fw, cmd_fc, _add_f, Missing, Done
<1> QED BY <1>1, <1>2, <1>3, <1>4 DEF Command

LEMMA CommandTree ==
  ASSUME IsTree(fs), NEW r, r.p \in Path, r.q \in Path, Command(r)
  PROVE  IsTree(fs')
<1>1. CASE fs' = fs
  BY <1>1
<1>2. CASE cmd_fg(r) \/ cmd_fd(r) \/ cmd_fr(r) \/ cmd_fw(r) \/ cmd_fc(r)
  BY <1>2 DEF cmd_fg, cmd_fd, cmd_fr, cmd_fw, cmd_fc, Missing
<1>3. CASE cmd_fD(r)
  <2>1. fs' = fs \/ (Room(fs, r.p) /\ fs' = With(fs, r.p, "d"))
    BY <1>3 DEF cmd_fD
  <2> QED BY <2>1, TreeWith
<1>4. CASE cmd_fn(r)
  <2>1. fs' = fs \/ ((Room(fs, r.p) \/ IsFile(fs, r.p)) /\ fs' = With(fs, r.p, "f"))
    BY <1>4 DEF cmd_fn
  <2> QED BY <2>1, TreeWith
<1>5. CASE cmd_fo(r)
  <2>1. fs' = fs \/ ((Room(fs, r.p) \/ IsFile(fs, r.p)) /\ fs' = With(fs, r.p, "f"))
    BY <1>5 DEF cmd_fo, Missing
  <2> QED BY <2>1, TreeWith
<1>6. CASE cmd_fu(r)
  <2>1. fs' = fs \/ (IsFile(fs, r.p) /\ fs' = Without(fs, r.p))
    BY <1>6 DEF cmd_fu, Missing
  <2>2. IsFile(fs, r.p) => r.p # Root
    BY DEF IsFile, IsTree, IsDir
  <2> QED BY <2>1, <2>2, TreeWithout
<1>7. CASE cmd_fU(r)
  <2>1. fs' = fs \/ (IsEmpty(fs, r.p) /\ r.p # Root /\ fs' = Without(fs, r.p))
    BY <1>7 DEF cmd_fU, Missing
  <2> QED BY <2>1, TreeWithout
<1>8. CASE cmd_fm(r)
  <2>1. PICK s, third : /\ third = <<Xfn>>
                        /\ s = IF r.x = "x" THEN Exchange(fs, r.p, r.q, third)
                                            ELSE Rename([ok |-> TRUE, fs |-> fs], r.p, r.q)
                        /\ fs' = fs \/ fs' = s.fs
    BY <1>8 DEF cmd_fm
  <2>2. third \in Path
    <3>1. Append(Root, Xfn) = <<Xfn>>
      BY DEF Root
    <3> QED BY <2>1, <3>1, RootPath, ChildPath
  <2>3. IsTree(Exchange(fs, r.p, r.q, third).fs)
    BY <2>2, TreeExchange
  <2>4. IsTree(Rename([ok |-> TRUE, fs |-> fs], r.p, r.q).fs)
    <3>1. PICK z : z = [ok |-> TRUE, fs |-> fs]
      OBVIOUS
    <3>2. z.fs = fs
      BY <3>1
    <3>3. IsTree(z.fs)
      BY <3>2
    <3>4. IsTree(Rename(z, r.p, r.q).fs)
      BY <3>3, TreeRename
    <3> QED BY <3>1, <3>4
  <2> QED BY <2>1, <2>3, <2>4
<1> QED BY <1>1, <1>2, <1>3, <1>4, <1>5, <1>6, <1>7, <1>8 DEF Command

LEMMA ElsewhereTree ==
  ASSUME IsTree(fs), Elsewhere
  PROVE  IsTree(fs')
<1>1. PICK n \in Names :
        \/ Room(fs, <<n>>) /\ \E k \in {"d", "f"} : fs' = With(fs, <<n>>, k)
        \/ <<n>> \in DOMAIN fs /\ IsEmpty(fs, <<n>>) /\ fs' = Without(fs, <<n>>)
  BY DEF Elsewhere
<1>2. PICK p : p = <<n>>
  OBVIOUS
<1>3. p \in Path /\ p # Root
  <2>1. Append(Root, n) = <<n>>
    BY DEF Root
  <2> QED BY <1>2, <2>1, RootPath, ChildPath
<1>4. CASE Room(fs, p) /\ \E k \in {"d", "f"} : fs' = With(fs, p, k)
  BY <1>3, <1>4, TreeWith
<1>5. CASE IsEmpty(fs, p) /\ fs' = Without(fs, p)
  BY <1>3, <1>5, TreeWithout
<1> QED BY <1>1, <1>2, <1>4, <1>5

-----------------------------------------------------------------------------
(* The maps keep their types.                                              *)
LEMMA WithFun ==
  ASSUME NEW S, NEW f, f \in [DOMAIN f -> S], NEW k, NEW v \in S
  PROVE  With(f, k, v) \in [DOMAIN With(f, k, v) -> S]
BY DEF With

LEMMA WithoutFun ==
  ASSUME NEW S, NEW f, f \in [DOMAIN f -> S], NEW k
  PROVE  Without(f, k) \in [DOMAIN Without(f, k) -> S]
BY DEF Without, Restrict

LEMMA WiderFun ==
  ASSUME NEW S, NEW T, S \subseteq T, NEW f, f \in [DOMAIN f -> S]
  PROVE  f \in [DOMAIN f -> T]
OBVIOUS

LEMMA WiderRange ==
  ASSUME NEW m \in Nat, NEW n \in Nat, m <= n
  PROVE  1 .. m \subseteq 1 .. n /\ 0 .. m \subseteq 0 .. n
OBVIOUS

MapStep ==
  \/ UNCHANGED mapVars
  \/ \E p \in Path : i_add(p)
  \/ \E i : i_del(i)

LEMMA MapStepTyped ==
  ASSUME InodeInv, Numbered, MapStep
  PROVE  Numbered' /\ lastInode' \in Nat /\ lastInode <= lastInode'
<1>1. lastInode \in Nat
  BY DEF InodeInv
<1>2. CASE UNCHANGED mapVars
  BY <1>1, <1>2 DEF mapVars, Numbered
<1>3. ASSUME NEW p \in Path, i_add(p)
      PROVE  Numbered' /\ lastInode' \in Nat /\ lastInode <= lastInode'
  <2>1. CASE p \in DOMAIN inodeOf
    BY <1>2, <1>3, <2>1 DEF i_add
  <2>2. CASE p \notin DOMAIN inodeOf
    <3>1. PICK n : n = lastInode + 1
      OBVIOUS
    <3>2. lastInode' = n /\ pathOf' = With(pathOf, n, p) /\ inodeOf' = With(inodeOf, p, n)
      BY <1>3, <2>2, <3>1 DEF i_add
    <3>3. n \in Nat /\ lastInode <= n /\ n \in 1 .. n /\ 1 .. lastInode \subseteq 1 .. n
      BY <1>1, <3>1
    <3>4. inodeOf \in [DOMAIN inodeOf -> 1 .. n]
      BY <3>3, WiderFun DEF Numbered
    <3>5. With(inodeOf, p, n) \in [DOMAIN With(inodeOf, p, n) -> 1 .. n]
      BY <3>3, <3>4, WithFun
    <3>6. With(pathOf, n, p) \in [DOMAIN With(pathOf, n, p) -> Path]
      BY <1>3, WithFun DEF Numbered
    <3> QED BY <3>2, <3>3, <3>5, <3>6 DEF Numbered
  <2> QED BY <2>1, <2>2
<1>4. ASSUME NEW i, i_del(i)
      PROVE  Numbered' /\ lastInode' \in Nat /\ lastInode <= lastInode'
  <2>1. CASE i \notin DOMAIN pathOf
    BY <1>2, <1>4, <2>1 DEF i_del
  <2>2. CASE i \in DOMAIN pathOf
    <3>1. PICK p : p = pathOf[i]
      OBVIOUS
    <3>2. lastInode' = lastInode /\ pathOf' = Without(pathOf, i) /\ inodeOf' = Without(inodeOf, p)
      BY <1>4, <2>2, <3>1 DEF i_del
    <3>3. Without(inodeOf, p) \in [DOMAIN Without(inodeOf, p) -> 1 .. lastInode]
      BY WithoutFun DEF Numbered
    <3>4. Without(pathOf, i) \in [DOMAIN Without(pathOf, i) -> Path]
      BY WithoutFun DEF Numbered
    <3> QED BY <1>1, <3>2, <3>3, <3>4 DEF Numbered
  <2> QED BY <2>1, <2>2
<1> QED BY <1>2, <1>3, <1>4 DEF MapStep

(* The inode that i_add gives or finds names the path.                     *)
LEMMA AddFor ==
  ASSUME InodeInv, NEW p, i_add(p), NEW j, j = InodeFor(p)
  PROVE  /\ j \in 1 .. lastInode'
         /\ j \in DOMAIN pathOf' /\ pathOf'[j] = p
         /\ p \in DOMAIN inodeOf' /\ inodeOf'[p] = j
<1>1. lastInode \in Nat /\ DOMAIN pathOf \subseteq 1 .. lastInode /\ MapsAgree
  BY DEF InodeInv
<1>2. CASE p \in DOMAIN inodeOf
  BY <1>1, <1>2 DEF i_add, mapVars, InodeFor, MapsAgree
<1>3. CASE p \notin DOMAIN inodeOf
  <2>1. /\ j = lastInode + 1
        /\ lastInode' = j
        /\ pathOf' = With(pathOf, j, p)
        /\ inodeOf' = With(inodeOf, p, j)
    BY <1>3 DEF i_add, InodeFor
  <2>2. DOMAIN With(pathOf, j, p) = DOMAIN pathOf \cup {j} /\ With(pathOf, j, p)[j] = p
    BY DEF With
  <2>3. DOMAIN With(inodeOf, p, j) = DOMAIN inodeOf \cup {p} /\ With(inodeOf, p, j)[p] = j
    BY DEF With
  <2>4. j \in 1 .. j
    BY <1>1, <2>1
  <2> QED BY <2>1, <2>2, <2>3, <2>4
<1> QED BY <1>2, <1>3

-----------------------------------------------------------------------------
(* A step of the handler h.                                                *)
HandlerStep(h) ==
  /\ MapStep
  /\ \A g \in Handlers \ {h} : task'[g] = task[g]
  /\ task'[h] = task[h] \/ HandlerOK(task'[h], lastInode', pathOf')

(* The others' inodes keep their paths, or lose them.                      *)
LEMMA OthersOK ==
  ASSUME InodeInv, MapStep, lastInode' \in Nat, lastInode <= lastInode',
         NEW t, HandlerOK(t, lastInode, pathOf)
  PROVE  HandlerOK(t, lastInode', pathOf')
<1>1. InodesKept
  <2>1. MapChange
    BY DEF MapStep, MapChange
  <2> QED BY <2>1, ChangeKeeps
<1>2. lastInode \in Nat
  BY DEF InodeInv
<1>3. t.i \in 0 .. lastInode
  BY DEF HandlerOK
<1>4. ASSUME t.op \in Entering, t.i \in DOMAIN pathOf' PROVE pathOf'[t.i] = t.p
  <2>1. t.i \in DOMAIN pathOf
    BY <1>1, <1>2, <1>3, <1>4 DEF InodesKept
  <2> QED BY <1>1, <1>4, <2>1 DEF InodesKept, HandlerOK, Resolves
<1>5. 1 .. lastInode \subseteq 1 .. lastInode' /\ 0 .. lastInode \subseteq 0 .. lastInode'
  BY <1>2, WiderRange
<1>6. Resolves(t, pathOf')
  BY <1>4 DEF Resolves
<1> QED BY <1>5, <1>6 DEF HandlerOK

LEMMA HandlersStep ==
  ASSUME InodeInv, Numbered, HandlersOK, NEW h \in Handlers, HandlerStep(h)
  PROVE  Numbered' /\ HandlersOK' /\ lastInode' \in Nat /\ lastInode <= lastInode'
<1>1. Numbered' /\ lastInode' \in Nat /\ lastInode <= lastInode' /\ MapStep
  BY MapStepTyped DEF HandlerStep
<1>2. ASSUME NEW g \in Handlers PROVE HandlerOK(task'[g], lastInode', pathOf')
  <2>1. HandlerOK(task[g], lastInode, pathOf)
    BY DEF HandlersOK
  <2>2. HandlerOK(task[g], lastInode', pathOf')
    BY <1>1, <2>1, OthersOK
  <2> QED BY <2>2 DEF HandlerStep
<1> QED BY <1>1, <1>2 DEF HandlersOK

(* A handler that asks for r in the state t.                               *)
Sound(t, r, n, f) ==
  /\ DOMAIN t = Fields
  /\ {t.p, r.p, r.q} \subseteq Path
  /\ t.i \in 0 .. n
  /\ t.op \in {"create", "open", "readdir"} => t.i # None
  /\ \A e \in Range(t.got) : e.i \in 1 .. n
  /\ Resolves(t, f)

LEMMA AskOK ==
  ASSUME NEW h \in Handlers, DOMAIN task = Handlers, NEW t, NEW r, NEW ws,
         Ask(h, t, r, ws), Sound(t, r, lastInode', pathOf'), MapStep
  PROVE  HandlerStep(h)
<1>1. PICK u : u = task'[h]
  OBVIOUS
<1>2. u = [t EXCEPT !.req = r] /\ \A g \in Handlers \ {h} : task'[g] = task[g]
  BY <1>1 DEF Ask
<1>3. DOMAIN t = Fields
  BY DEF Sound
<1>4. u.p = t.p /\ u.i = t.i /\ u.op = t.op /\ u.got = t.got /\ u.req = r
  BY <1>2, <1>3 DEF Fields, Idle
<1>5. PICK n, f : n = lastInode' /\ f = pathOf'
  OBVIOUS
<1>6. Sound(t, r, n, f)
  BY <1>5
<1>7. HandlerOK(u, n, f)
  BY <1>4, <1>6 DEF Sound, HandlerOK, Resolves
<1> QED BY <1>1, <1>2, <1>5, <1>7 DEF HandlerStep

LEMMA IdleOK ==
  ASSUME NEW n \in Nat, NEW f
  PROVE  HandlerOK(Idle, n, f)
<1>1. /\ Idle.p = Root /\ Idle.req.p = Root /\ Idle.req.q = Root
      /\ Idle.i = 0 /\ Idle.op = "" /\ Idle.got = <<>>
  BY DEF Idle, Blank, None
<1>2. Range(<<>>) = {}
  BY DEF Range
<1>3. {Idle.p, Idle.req.p, Idle.req.q} \subseteq Path
  BY <1>1, RootPath
<1>4. Idle.i \in 0 .. n /\ Idle.op \notin Entering /\ Idle.op \notin {"create", "open", "readdir"}
  <2>1. Idle.i = 0 /\ Idle.op = ""
    BY <1>1
  <2>2. 0 \in 0 .. n
    OBVIOUS
  <2>3. Idle.i \in 0 .. n
    BY <2>1, <2>2, Zenon
  <2> QED BY <2>1, <2>3 DEF Entering
<1>5. \A e \in Range(Idle.got) : e.i \in 1 .. n
  BY <1>1, <1>2
<1>6. Resolves(Idle, f)
  BY <1>4 DEF Resolves
<1> QED BY <1>3, <1>4, <1>5, <1>6 DEF HandlerOK

LEMMA FinishOK ==
  ASSUME InodeInv, Numbered, NEW h \in Handlers, DOMAIN task = Handlers, MapStep,
         task' = [task EXCEPT ![h] = Idle]
  PROVE  HandlerStep(h)
<1>1. lastInode' \in Nat
  BY MapStepTyped
<1>2. PICK n, f : n = lastInode' /\ f = pathOf'
  OBVIOUS
<1>3. HandlerOK(Idle, n, f)
  BY <1>1, <1>2, IdleOK
<1>4. task'[h] = Idle /\ \A g \in Handlers \ {h} : task'[g] = task[g]
  OBVIOUS
<1> QED BY <1>2, <1>3, <1>4 DEF HandlerStep

-----------------------------------------------------------------------------
(* How a step of the host may change the descriptors and the kernel's      *)
(* inodes.                                                                 *)
OpenStep ==
  /\ \/ fdInode' = fdInode
     \/ \E k : fdInode' = Without(fdInode, k)
     \/ \E k : \E i \in 1 .. lastInode : fdInode' = With(fdInode, k, i)
  /\ \/ inodeFd' = inodeFd
     \/ \E k : inodeFd' = Without(inodeFd, k)
     \/ \E k : \E fd \in 1 .. lastFd : inodeFd' = With(inodeFd, k, fd)
  /\ DOMAIN known' \subseteq DOMAIN known \cup 1 .. lastInode'

LEMMA TableStep ==
  ASSUME NEW S, NEW f, f \in [DOMAIN f -> S], NEW g,
         \/ g = f
         \/ \E k : g = Without(f, k)
         \/ \E k : \E v \in S : g = With(f, k, v)
  PROVE  g \in [DOMAIN g -> S]
<1>1. ASSUME NEW k, g = Without(f, k) PROVE g \in [DOMAIN g -> S]
  <2>1. Without(f, k) \in [DOMAIN Without(f, k) -> S]
    BY WithoutFun
  <2> QED BY <1>1, <2>1
<1>2. ASSUME NEW k, NEW v \in S, g = With(f, k, v) PROVE g \in [DOMAIN g -> S]
  <2>1. With(f, k, v) \in [DOMAIN With(f, k, v) -> S]
    BY WithFun
  <2> QED BY <1>2, <2>1
<1> QED BY <1>1, <1>2

LEMMA OpenStepTyped ==
  ASSUME OpenTyped, OpenStep, lastFd' = lastFd,
         lastInode \in Nat, lastInode' \in Nat, lastInode <= lastInode'
  PROVE  OpenTyped'
<1>1. 1 .. lastInode \subseteq 1 .. lastInode'
  BY WiderRange
<1>2. fdInode' \in [DOMAIN fdInode' -> 1 .. lastInode]
  <2>1. PICK S, f, g : S = 1 .. lastInode /\ f = fdInode /\ g = fdInode'
    OBVIOUS
  <2>2. f \in [DOMAIN f -> S]
    BY <2>1 DEF OpenTyped
  <2>3. \/ g = f
        \/ \E k : g = Without(f, k)
        \/ \E k : \E v \in S : g = With(f, k, v)
    BY <2>1 DEF OpenStep
  <2>4. g \in [DOMAIN g -> S]
    BY <2>2, <2>3, TableStep
  <2> QED BY <2>1, <2>4
<1>3. inodeFd' \in [DOMAIN inodeFd' -> 1 .. lastFd]
  <2>1. PICK S, f, g : S = 1 .. lastFd /\ f = inodeFd /\ g = inodeFd'
    OBVIOUS
  <2>2. f \in [DOMAIN f -> S]
    BY <2>1 DEF OpenTyped
  <2>3. \/ g = f
        \/ \E k : g = Without(f, k)
        \/ \E k : \E v \in S : g = With(f, k, v)
    BY <2>1 DEF OpenStep
  <2>4. g \in [DOMAIN g -> S]
    BY <2>2, <2>3, TableStep
  <2> QED BY <2>1, <2>4
<1>4. fdInode' \in [DOMAIN fdInode' -> 1 .. lastInode']
  BY <1>1, <1>2, WiderFun
<1>5. DOMAIN known' \subseteq 1 .. lastInode'
  BY <1>1 DEF OpenTyped, OpenStep
<1> QED BY <1>3, <1>4, <1>5 DEF OpenTyped

LEMMA SameOpen ==
  ASSUME UNCHANGED openVars, DOMAIN known' \subseteq DOMAIN known
  PROVE  OpenStep
BY DEF openVars, OpenStep

-----------------------------------------------------------------------------
(* Requests of the kernel.                                                 *)
LEMMA ReqFields ==
  /\ \A a, p : PathReq(a, p).p = p /\ PathReq(a, p).q = Root
  /\ \A a, fd : FdReq(a, fd).p = Root /\ FdReq(a, fd).q = Root
  /\ \A p, m : OpenReq(p, m).p = p /\ OpenReq(p, m).q = Root
  /\ \A p, m : [PathReq("fn", p) EXCEPT !.m = m].p = p
               /\ [PathReq("fn", p) EXCEPT !.m = m].q = Root
  /\ \A p, q, x : MoveReq(p, q, x).p = p /\ MoveReq(p, q, x).q = q
<1>1. \A a, p : PathReq(a, p).p = p /\ PathReq(a, p).q = Root
  BY DEF PathReq, Blank
<1>2. \A a, fd : FdReq(a, fd).p = Root /\ FdReq(a, fd).q = Root
  BY DEF FdReq, Blank
<1>3. \A p, m : OpenReq(p, m).p = p /\ OpenReq(p, m).q = Root
  BY DEF OpenReq, PathReq, Blank
<1>4. \A p, m : [PathReq("fn", p) EXCEPT !.m = m].p = p
                /\ [PathReq("fn", p) EXCEPT !.m = m].q = Root
  BY DEF PathReq, Blank
<1>5. \A p, q, x : MoveReq(p, q, x).p = p /\ MoveReq(p, q, x).q = q
  BY DEF MoveReq, PathReq, Blank
<1> QED BY <1>1, <1>2, <1>3, <1>4, <1>5

LEMMA Rests ==
  ASSUME NEW h, UNCHANGED <<task, mapVars>>
  PROVE  HandlerStep(h)
BY DEF HandlerStep, MapStep

LEMMA EmptyRange == Range(<<>>) = {}
BY DEF Range

(* A handler that starts with the inode t.i.                               *)
LEMMA StartSound ==
  ASSUME NEW t, NEW r, NEW n \in Nat, NEW f, DOMAIN t = Fields, t.got = <<>>,
         t.p \in Path, r.p \in Path, r.q \in Path, t.i \in 0 .. n,
         t.op \in {"create", "open", "readdir"} => t.i # None,
         Resolves(t, f)
  PROVE  Sound(t, r, n, f)
<1>1. \A e \in Range(t.got) : e.i \in 1 .. n
  BY EmptyRange
<1> QED BY <1>1 DEF Sound

LEMMA ChildOK ==
  ASSUME Known, NEW i \in DOMAIN pathOf, NEW n \in Names
  PROVE  Child(i, n) \in Path
<1>1. pathOf[i] \in Path
  BY DEF Known, TypeInv, Numbered
<1> QED BY <1>1, ChildPath DEF Child

(* A start that leaves the maps alone.                                     *)
LEMMA StartOK ==
  ASSUME Known, NEW h \in Handlers, NEW t, NEW r, Ask(h, t, r, waiters),
         UNCHANGED mapVars, DOMAIN t = Fields, t.got = <<>>,
         t.p \in Path, r.p \in Path, r.q \in Path, t.i \in 0 .. lastInode,
         t.op \in {"create", "open", "readdir"} => t.i # None,
         Resolves(t, pathOf)
  PROVE  HandlerStep(h)
<1>1. PICK n, f : n = lastInode /\ f = pathOf
  OBVIOUS
<1>2. n \in Nat /\ n = lastInode' /\ f = pathOf'
  BY <1>1 DEF Known, InodeInv, mapVars
<1>3. Sound(t, r, n, f)
  BY <1>1, <1>2, StartSound
<1>4. MapStep /\ DOMAIN task = Handlers
  BY DEF MapStep, Known, WaitInv
<1> QED BY <1>2, <1>3, <1>4, AskOK

LEMMA OnNameOK ==
  ASSUME Known, NEW h \in Handlers, NEW op \in {"mkdir", "unlink", "rmdir"},
         NEW i, NEW n \in Names, NEW a, OnName(h, op, i, n, PathReq(a, Child(i, n)))
  PROVE  HandlerStep(h)
<1>1. CASE Unmapped(i)
  BY <1>1, Rests DEF Unmapped
<1>2. CASE ~Unmapped(i)
  <2>1. PICK t, r : /\ t = [Idle EXCEPT !.op = op, !.dirs = {i}, !.p = Child(i, n),
                                        !.keys = <<<<i, n>>>>]
                    /\ r = PathReq(a, Child(i, n))
    OBVIOUS
  <2>2. i \in DOMAIN pathOf /\ Ask(h, t, r, waiters) /\ UNCHANGED mapVars
    BY <1>2, <2>1 DEF OnName
  <2>3. /\ DOMAIN t = Fields
        /\ t.got = <<>>
        /\ t.p = Child(i, n)
        /\ t.i = None
        /\ t.op = op
    BY <2>1 DEF Idle, Fields
  <2>4. t.p \in Path /\ r.p \in Path /\ r.q \in Path
    BY <2>1, <2>2, <2>3, ChildOK, ReqFields, RootPath
  <2>5. t.i \in 0 .. lastInode /\ t.i \notin DOMAIN pathOf
    BY <2>3 DEF Known, InodeInv, None
  <2> QED BY <2>2, <2>3, <2>4, <2>5, StartOK DEF Resolves
<1> QED BY <1>1, <1>2

LEMMA LookupOK ==
  ASSUME Known, NEW h \in Handlers, NEW i, NEW n \in Names, Lookup(h, i, n)
  PROVE  HandlerStep(h)
<1>1. CASE Unmapped(i)
  BY <1>1, Rests DEF Unmapped
<1>2. CASE ~Unmapped(i)
  <2>1. PICK p, j : p = Child(i, n) /\ j = IF p \in DOMAIN inodeOf THEN inodeOf[p] ELSE None
    OBVIOUS
  <2>2. PICK t, r : /\ t = [Idle EXCEPT !.op = "lookup", !.dirs = {i}, !.p = p,
                                        !.i = j, !.keys = <<<<i, n>>>>]
                    /\ r = PathReq("fg", p)
    OBVIOUS
  <2>3. i \in DOMAIN pathOf /\ Ask(h, t, r, waiters) /\ UNCHANGED mapVars
    BY <1>2, <2>1, <2>2 DEF Lookup
  <2>4. /\ DOMAIN t = Fields
        /\ t.got = <<>>
        /\ t.p = p
        /\ t.i = j
        /\ t.op = "lookup"
    BY <2>2 DEF Idle, Fields
  <2>5. t.p \in Path /\ r.p \in Path /\ r.q \in Path
    BY <2>1, <2>2, <2>3, <2>4, ChildOK, ReqFields, RootPath
  <2>6. j \in 0 .. lastInode /\ (j \in DOMAIN pathOf => pathOf[j] = p)
    <3>1. lastInode \in Nat /\ DOMAIN pathOf \subseteq 1 .. lastInode /\ MapsAgree
      BY DEF Known, InodeInv
    <3> QED BY <2>1, <3>1 DEF MapsAgree, None
  <2> QED BY <2>3, <2>4, <2>5, <2>6, StartOK DEF Resolves
<1> QED BY <1>1, <1>2

LEMMA OnInodeOK ==
  ASSUME Known, NEW h \in Handlers, NEW i \in DOMAIN known, NEW r, NEW t,
         DOMAIN t = Fields, t.got = <<>>, t.p = Root, t.i = i,
         t.op \in {"getattr", "open", "opendir"}, r.p \in Path, r.q \in Path,
         Ask(h, t, r, waiters), UNCHANGED mapVars
  PROVE  HandlerStep(h)
<1>1. i \in 0 .. lastInode /\ i # None
  BY DEF Known, TypeInv, OpenTyped, InodeInv, None
<1>2. Resolves(t, pathOf)
  BY DEF Resolves, Entering
<1> QED BY <1>1, <1>2, RootPath, StartOK

LEMMA InodeOK ==
  ASSUME Known, NEW h \in Handlers, NEW i \in DOMAIN known, NEW m,
         Getattr(h, i) \/ Open(h, i, m) \/ Opendir(h, i)
  PROVE  HandlerStep(h)
<1>1. CASE Unmapped(i)
  BY <1>1, Rests DEF Unmapped
<1>2. CASE ~Unmapped(i)
  <2>1. UNCHANGED mapVars /\ i \in DOMAIN pathOf
    BY <1>2 DEF Getattr, Open, Opendir
  <2>2. pathOf[i] \in Path
    BY <2>1 DEF Known, TypeInv, Numbered
  <2>3. CASE Getattr(h, i)
    <3>0. PICK t : t = [Idle EXCEPT !.op = "getattr", !.i = i]
      OBVIOUS
    <3>1. Ask(h, t, StatReq(i), waiters)
      BY <1>2, <2>3, <3>0 DEF Getattr
    <3>2. StatReq(i).p \in Path /\ StatReq(i).q \in Path
      BY <2>2, ReqFields, RootPath DEF StatReq
    <3>3. /\ DOMAIN t = Fields /\ t.got = <<>> /\ t.p = Root /\ t.i = i
          /\ t.op \in {"getattr", "open", "opendir"}
      BY <3>0 DEF Idle, Fields
    <3> QED BY <2>1, <3>1, <3>2, <3>3, OnInodeOK
  <2>4. CASE Open(h, i, m)
    <3>0. PICK t : t = [Idle EXCEPT !.op = "open", !.i = i]
      OBVIOUS
    <3>1. Ask(h, t, OpenReq(pathOf[i], m), waiters)
      BY <1>2, <2>4, <3>0 DEF Open
    <3>2. OpenReq(pathOf[i], m).p \in Path /\ OpenReq(pathOf[i], m).q \in Path
      BY <2>2, ReqFields, RootPath
    <3>3. /\ DOMAIN t = Fields /\ t.got = <<>> /\ t.p = Root /\ t.i = i
          /\ t.op \in {"getattr", "open", "opendir"}
      BY <3>0 DEF Idle, Fields
    <3> QED BY <2>1, <3>1, <3>2, <3>3, OnInodeOK
  <2>5. CASE Opendir(h, i)
    <3>0. PICK t : t = [Idle EXCEPT !.op = "opendir", !.i = i]
      OBVIOUS
    <3>1. Ask(h, t, PathReq("fd", pathOf[i]), waiters)
      BY <1>2, <2>5, <3>0 DEF Opendir
    <3>2. PathReq("fd", pathOf[i]).p \in Path /\ PathReq("fd", pathOf[i]).q \in Path
      BY <2>2, ReqFields, RootPath
    <3>3. /\ DOMAIN t = Fields /\ t.got = <<>> /\ t.p = Root /\ t.i = i
          /\ t.op \in {"getattr", "open", "opendir"}
      BY <3>0 DEF Idle, Fields
    <3> QED BY <2>1, <3>1, <3>2, <3>3, OnInodeOK
  <2> QED BY <2>3, <2>4, <2>5
<1> QED BY <1>1, <1>2

LEMMA RenameOK ==
  ASSUME Known, NEW h \in Handlers, NEW i, NEW n \in Names, NEW j, NEW m \in Names,
         NEW x, RenameCall(h, i, n, j, m, x)
  PROVE  HandlerStep(h)
<1>1. CASE Unmapped(i) \/ Unmapped(j)
  BY <1>1, Rests DEF Unmapped
<1>2. CASE ~Unmapped(i) /\ ~Unmapped(j)
  <2>1. PICK t, r : /\ t = [Idle EXCEPT !.op = "rename", !.dirs = {i, j},
                               !.p = Child(i, n), !.keys = <<<<i, n>>, <<j, m>>>>]
                    /\ r = MoveReq(Child(i, n), Child(j, m), x)
    OBVIOUS
  <2>2. i \in DOMAIN pathOf /\ j \in DOMAIN pathOf /\ Ask(h, t, r, waiters) /\ UNCHANGED mapVars
    BY <1>2, <2>1 DEF RenameCall
  <2>3. /\ DOMAIN t = Fields
        /\ t.got = <<>>
        /\ t.p = Child(i, n)
        /\ t.i = None
        /\ t.op = "rename"
    BY <2>1 DEF Idle, Fields
  <2>4. t.p \in Path /\ r.p \in Path /\ r.q \in Path
    BY <2>1, <2>2, <2>3, ChildOK, ReqFields
  <2>5. t.i \in 0 .. lastInode
    BY <2>3 DEF Known, InodeInv, None
  <2>6. Resolves(t, pathOf)
    BY <2>3 DEF Resolves, Entering
  <2> QED BY <2>2, <2>3, <2>4, <2>5, <2>6, StartOK
<1> QED BY <1>1, <1>2

LEMMA CreateOK ==
  ASSUME Known, NEW h \in Handlers, NEW i, NEW n \in Names, NEW m, Create(h, i, n, m)
  PROVE  HandlerStep(h)
<1>1. CASE Unmapped(i)
  BY <1>1, Rests DEF Unmapped
<1>2. CASE ~Unmapped(i)
  <2>1. PICK p, j : p = Child(i, n) /\ j = InodeFor(p)
    OBVIOUS
  <2>2. PICK t, r : /\ t = [Idle EXCEPT !.op = "create", !.dirs = {i}, !.p = p,
                                        !.i = j, !.keys = <<<<i, n>>>>]
                    /\ r = [PathReq("fn", p) EXCEPT !.m = m]
    OBVIOUS
  <2>3. i \in DOMAIN pathOf /\ Ask(h, t, r, waiters) /\ i_add(p)
    BY <1>2, <2>1, <2>2 DEF Create
  <2>4. /\ DOMAIN t = Fields
        /\ t.got = <<>>
        /\ t.p = p
        /\ t.i = j
        /\ t.op = "create"
    BY <2>2 DEF Idle, Fields
  <2>5. p \in Path /\ t.p \in Path /\ r.p \in Path /\ r.q \in Path
    BY <2>1, <2>2, <2>3, <2>4, ChildOK, ReqFields, RootPath
  <2>6. MapStep /\ DOMAIN task = Handlers
    BY <2>3, <2>5 DEF MapStep, Known, WaitInv
  <2>7. j \in 1 .. lastInode' /\ pathOf'[j] = p
    BY <2>1, <2>3, AddFor DEF Known
  <2>8. PICK l, f : l = lastInode' /\ f = pathOf'
    OBVIOUS
  <2>9. l \in Nat
    BY <2>6, <2>8, MapStepTyped DEF Known, TypeInv
  <2>10. t.i \in 0 .. l /\ t.i # None /\ Resolves(t, f)
    BY <2>4, <2>7, <2>8, <2>9 DEF None, Resolves
  <2>11. Sound(t, r, l, f)
    BY <2>4, <2>5, <2>9, <2>10, StartSound
  <2> QED BY <2>3, <2>6, <2>8, <2>11, AskOK
<1> QED BY <1>1, <1>2

LEMMA ReadWriteOK ==
  ASSUME Known, NEW h \in Handlers, NEW fh, NEW a, ReadWrite(h, fh, a)
  PROVE  HandlerStep(h)
<1>1. PICK t, r : t = [Idle EXCEPT !.op = "io", !.fh = fh, !.pos = 1] /\ r = FdReq(a, fh)
  OBVIOUS
<1>2. Ask(h, t, r, waiters) /\ UNCHANGED mapVars
  BY <1>1 DEF ReadWrite
<1>3. DOMAIN t = Fields /\ t.got = <<>> /\ t.p = Root /\ t.i = None /\ t.op = "io"
  BY <1>1 DEF Idle, Fields
<1>4. t.p \in Path /\ r.p \in Path /\ r.q \in Path
  BY <1>1, <1>3, ReqFields, RootPath
<1>5. t.i \in 0 .. lastInode
  BY <1>3 DEF Known, InodeInv, None
<1>6. Resolves(t, pathOf)
  BY <1>3 DEF Resolves, Entering
<1> QED BY <1>2, <1>3, <1>4, <1>5, <1>6, StartOK

LEMMA ReleaseOK ==
  ASSUME Known, NEW h \in Handlers, NEW fh, Release(h, fh)
  PROVE  HandlerStep(h)
<1>1. UNCHANGED mapVars
  BY DEF Release
<1>2. CASE fdInode[fh] \in DOMAIN inodeFd
  <2>1. PICK t, r : t = [Idle EXCEPT !.op = "release", !.fh = fh] /\ r = FdReq("fc", fh)
    OBVIOUS
  <2>2. Ask(h, t, r, waiters)
    BY <1>2, <2>1 DEF Release
  <2>3. DOMAIN t = Fields /\ t.got = <<>> /\ t.p = Root /\ t.i = None /\ t.op = "release"
    BY <2>1 DEF Idle, Fields
  <2>4. t.p \in Path /\ r.p \in Path /\ r.q \in Path
    BY <2>1, <2>3, ReqFields, RootPath
  <2>5. t.i \in 0 .. lastInode
    BY <2>3 DEF Known, InodeInv, None
  <2>6. Resolves(t, pathOf)
    BY <2>3 DEF Resolves, Entering
  <2> QED BY <1>1, <2>2, <2>3, <2>4, <2>5, <2>6, StartOK
<1>3. CASE fdInode[fh] \notin DOMAIN inodeFd
  <2>1. task' = task
    BY <1>3 DEF Release, Die
  <2> QED BY <1>1, <2>1, Rests
<1> QED BY <1>2, <1>3

LEMMA ReleaseOpen ==
  ASSUME NEW h, NEW fh, Release(h, fh)
  PROVE  OpenStep
BY DEF Release, OpenStep

(* The next name of a directory.                                           *)
LEMMA NextEntryOK ==
  ASSUME Known, NEW h \in Handlers, NEW t, NEW ws, NextEntry(h, t, ws),
         DOMAIN t = Fields, t.op = "readdir", t.p \in Path,
         \A e \in Range(t.got) : e.i \in 1 .. lastInode,
         dirContent[t.fh].names \in NameSeq,
         t.pos + 1 \in 1 .. Len(dirContent[t.fh].names)
  PROVE  HandlerStep(h)
<1>1. PICK n, p : /\ n = dirContent[t.fh].names[t.pos + 1]
                  /\ p = Append(t.p, n)
  OBVIOUS
<1>2. PICK j : j = InodeFor(p)
  OBVIOUS
<1>3. PICK u, r : u = [t EXCEPT !.i = j] /\ r = PathReq("fg", p)
  OBVIOUS
<1>4. i_add(p) /\ Ask(h, u, r, ws)
  BY <1>1, <1>2, <1>3 DEF NextEntry
<1>5. p \in Path
  <2>1. PICK names, k : names = dirContent[t.fh].names /\ k = t.pos + 1
    OBVIOUS
  <2>2. names[k] \in Names \cup {Xfn}
    BY <2>1, ElementOfSeq DEF NameSeq
  <2> QED BY <1>1, <2>1, <2>2, ChildPath
<1>6. /\ DOMAIN u = Fields /\ u.got = t.got /\ u.p = t.p /\ u.i = j /\ u.op = "readdir"
  BY <1>3 DEF Idle, Fields
<1>7. MapStep /\ DOMAIN task = Handlers
  BY <1>4, <1>5 DEF MapStep, Known, WaitInv
<1>8. j \in 1 .. lastInode' /\ lastInode' \in Nat /\ lastInode <= lastInode' /\ lastInode \in Nat
  BY <1>2, <1>4, <1>7, AddFor, MapStepTyped DEF Known, TypeInv, InodeInv
<1>9. PICK l, f : l = lastInode' /\ f = pathOf'
  OBVIOUS
<1>10. u.i \in 0 .. l /\ u.i # None
  BY <1>6, <1>8, <1>9 DEF None
<1>11. 1 .. lastInode \subseteq 1 .. l
  BY <1>8, <1>9, WiderRange
<1>12. \A e \in Range(u.got) : e.i \in 1 .. l
  BY <1>6, <1>11
<1>13. Resolves(u, f)
  BY <1>6 DEF Resolves, Entering
<1>14. {u.p, r.p, r.q} \subseteq Path
  BY <1>3, <1>5, <1>6, ReqFields, RootPath
<1>15. Sound(u, r, l, f)
  BY <1>6, <1>10, <1>12, <1>13, <1>14 DEF Sound
<1> QED BY <1>4, <1>7, <1>9, <1>15, AskOK

LEMMA ReaddirOK ==
  ASSUME Known, NEW h \in Handlers, NEW fh, Readdir(h, fh)
  PROVE  HandlerStep(h)
<1>1. PICK d : d = dirContent[fh]
  OBVIOUS
<1>2. PICK s : s = [Idle EXCEPT !.op = "readdir", !.dirs = {d.i}, !.fh = fh,
                                !.pos = listing[fh].pos]
  OBVIOUS
<1>3. PICK t : t = [s EXCEPT !.p = pathOf[d.i]]
  OBVIOUS
<1>4. \/ UNCHANGED <<task, mapVars>>
      \/ /\ d.i \in DOMAIN pathOf
         /\ s.pos < Len(d.names)
         /\ NextEntry(h, t, waiters)
  BY <1>1, <1>2, <1>3 DEF Readdir
<1>5. CASE /\ d.i \in DOMAIN pathOf
           /\ s.pos < Len(d.names)
           /\ NextEntry(h, t, waiters)
  <2>1. /\ DOMAIN t = Fields /\ t.op = "readdir" /\ t.p = pathOf[d.i] /\ t.got = <<>>
        /\ t.fh = fh /\ t.pos = listing[fh].pos /\ s.pos = t.pos
    BY <1>2, <1>3 DEF Idle, Fields
  <2>2. t.p \in Path
    BY <1>5, <2>1 DEF Known, TypeInv, Numbered
  <2>3. \A e \in Range(t.got) : e.i \in 1 .. lastInode
    BY <2>1, EmptyRange
  <2>4. fh \in DOMAIN listing
    BY DEF Readdir
  <2>5. d.names \in NameSeq /\ listing[fh].pos \in 0 .. Len(d.names)
    BY <1>1, <2>4 DEF Known, ListInv, ListedTo
  <2>6. t.pos + 1 \in 1 .. Len(d.names)
    <3>1. PICK k, m : k = t.pos /\ m = Len(d.names)
      OBVIOUS
    <3>2. m \in Nat
      BY <2>5, <3>1, LenProperties DEF NameSeq
    <3>3. k \in 0 .. m /\ k < m
      BY <1>5, <2>1, <2>5, <3>1
    <3>4. k + 1 \in 1 .. m
      BY <3>2, <3>3
    <3> QED BY <3>1, <3>4
  <2>7. dirContent[t.fh].names = d.names
    BY <1>1, <2>1
  <2> QED BY <1>5, <2>1, <2>2, <2>3, <2>5, <2>6, <2>7, NextEntryOK
<1> QED BY <1>4, <1>5, Rests

(* Whatever the kernel asks for.                                           *)
LEMMA KernelTyped ==
  ASSUME Known, NEW h \in Handlers, Kernel(h)
  PROVE  HandlerStep(h) /\ OpenStep
<1> DEFINE Goal == HandlerStep(h) /\ OpenStep
<1>1. UNCHANGED openVars /\ UNCHANGED known => OpenStep
  BY SameOpen
<1>2. ASSUME NEW i, NEW n \in Names, Lookup(h, i, n) PROVE Goal
  BY <1>1, <1>2, LookupOK DEF Lookup, kernelVars
<1>3. ASSUME NEW i, NEW n \in Names, Mkdir(h, i, n) \/ Unlink(h, i, n) \/ Rmdir(h, i, n)
      PROVE Goal
  BY <1>1, <1>3, OnNameOK DEF Mkdir, Unlink, Rmdir, kernelVars
<1>4. ASSUME NEW i, NEW n \in Names, NEW m, Create(h, i, n, m) PROVE Goal
  BY <1>1, <1>4, CreateOK DEF Create, kernelVars
<1>5. ASSUME NEW i, NEW n \in Names, NEW j, NEW m \in Names, NEW x,
             RenameCall(h, i, n, j, m, x)
      PROVE Goal
  BY <1>1, <1>5, RenameOK DEF RenameCall, kernelVars
<1>6. ASSUME NEW i \in DOMAIN known, NEW m, Getattr(h, i) \/ Open(h, i, m) \/ Opendir(h, i)
      PROVE Goal
  BY <1>1, <1>6, InodeOK DEF Getattr, Open, Opendir, kernelVars
<1>7. ASSUME NEW i, Forget(h, i) PROVE Goal
  <2>1. UNCHANGED openVars /\ UNCHANGED <<task, mapVars>> /\ known' = Without(known, i)
    BY <1>7 DEF Forget
  <2>2. DOMAIN known' \subseteq DOMAIN known
    BY <2>1, WithoutDef
  <2> QED BY <2>1, <2>2, Rests, SameOpen
<1>8. ASSUME NEW fh, NEW a, ReadWrite(h, fh, a) PROVE Goal
  BY <1>1, <1>8, ReadWriteOK DEF ReadWrite, kernelVars
<1>9. ASSUME NEW fh, Release(h, fh) PROVE Goal
  BY <1>9, ReleaseOK, ReleaseOpen
<1>10. ASSUME NEW fh, Readdir(h, fh) PROVE Goal
  BY <1>1, <1>10, ReaddirOK DEF Readdir
<1>11. ASSUME NEW fh, Releasedir(h, fh) PROVE Goal
  BY <1>1, <1>11, Rests DEF Releasedir
<1> HIDE DEF Goal
<1>12. Goal
  BY <1>2, <1>3, <1>4, <1>5, <1>6, <1>7, <1>8, <1>9, <1>10, <1>11 DEF Kernel
<1> QED BY <1>12 DEF Goal

-----------------------------------------------------------------------------
(* The handler that has got its answer.                                    *)
LEMMA Mine ==
  ASSUME Known, NEW h, NEW ops, NEW k, Answered(h, ops, k)
  PROVE  /\ h \in Handlers /\ DOMAIN task = Handlers /\ DOMAIN task[h] = Fields
         /\ HandlerOK(task[h], lastInode, pathOf)
         /\ lastInode \in Nat
         /\ task[h].op \in ops /\ <<task[h].op, task[h].req.a>> \in Requests
<1>1. h \in Handlers /\ DOMAIN task = Handlers /\ DOMAIN task[h] = Fields
      /\ <<task[h].op, task[h].req.a>> \in Requests
  BY HeadRuns DEF Answered, Known
<1> QED BY <1>1 DEF Known, TypeInv, HandlersOK, InodeInv, Answered

LEMMA LeaveOK ==
  ASSUME Known, NEW h \in Handlers, Finish(h, Rest), MapStep
  PROVE  HandlerStep(h)
BY FinishOK DEF Known, TypeInv, WaitInv, Finish

(* It asks again, and its path or inode may have changed.                  *)
LEMMA AskAgainOK ==
  ASSUME Known, NEW h \in Handlers, NEW t, NEW r, Ask(h, t, r, Rest), UNCHANGED mapVars,
         DOMAIN t = Fields, HandlerOK(task[h], lastInode, pathOf),
         t.p = task[h].p, t.i = task[h].i, t.op = task[h].op, t.got = task[h].got,
         r.p \in Path, r.q \in Path
  PROVE  HandlerStep(h)
<1>1. PICK n, f, s : n = lastInode /\ f = pathOf /\ s = task[h]
  OBVIOUS
<1>2. n = lastInode' /\ f = pathOf'
  BY <1>1 DEF mapVars
<1>3. HandlerOK(s, n, f) /\ t.p = s.p /\ t.i = s.i /\ t.op = s.op /\ t.got = s.got
  BY <1>1
<1>4. Sound(t, r, n, f)
  BY <1>3 DEF Sound, HandlerOK, Resolves
<1>5. MapStep /\ DOMAIN task = Handlers
  BY DEF MapStep, Known, WaitInv
<1> QED BY <1>2, <1>4, <1>5, AskOK

(* Its path has got an inode.                                              *)
LEMMA MadeOK ==
  ASSUME Known, NEW h \in Handlers, NEW t, NEW r, Ask(h, t, r, Rest),
         HandlerOK(task[h], lastInode, pathOf), i_add(task[h].p),
         DOMAIN t = Fields, t.p = task[h].p, t.i = InodeFor(task[h].p),
         t.got = task[h].got, r.p \in Path, r.q \in Path
  PROVE  HandlerStep(h)
<1>1. PICK p, j : p = task[h].p /\ j = InodeFor(p)
  OBVIOUS
<1>2. p \in Path /\ i_add(p)
  BY <1>1 DEF HandlerOK
<1>3. MapStep /\ DOMAIN task = Handlers
  BY <1>2 DEF MapStep, Known, WaitInv
<1>4. /\ j \in 1 .. lastInode' /\ pathOf'[j] = p
      /\ lastInode' \in Nat /\ lastInode <= lastInode' /\ lastInode \in Nat
  BY <1>1, <1>2, <1>3, AddFor, MapStepTyped DEF Known, TypeInv, InodeInv
<1>5. PICK l, f : l = lastInode' /\ f = pathOf'
  OBVIOUS
<1>6. t.i \in 0 .. l /\ t.i # None
  BY <1>1, <1>4, <1>5 DEF None
<1>7. 1 .. lastInode \subseteq 1 .. l
  BY <1>4, <1>5, WiderRange
<1>8. \A e \in Range(t.got) : e.i \in 1 .. l
  BY <1>7 DEF HandlerOK
<1>9. Resolves(t, f)
  BY <1>1, <1>4, <1>5 DEF Resolves
<1>10. Sound(t, r, l, f)
  BY <1>1, <1>2, <1>6, <1>8, <1>9 DEF Sound
<1> QED BY <1>3, <1>5, <1>10, AskOK

LEMMA LookupNewOK ==
  ASSUME Known, NEW h, LookupNew(h)
  PROVE  HandlerStep(h) /\ OpenStep
<1>1. /\ h \in Handlers
      /\ HandlerOK(task[h], lastInode, pathOf)
  BY Mine DEF LookupNew
<1>2. PICK p, j : p = task[h].p /\ j = InodeFor(p)
  OBVIOUS
<1>3. p \in Path /\ i_add(p)
  BY <1>1, <1>2 DEF HandlerOK, LookupNew
<1>4. MapStep
  BY <1>3 DEF MapStep
<1>5. HandlerStep(h)
  BY <1>1, <1>4, LeaveOK DEF LookupNew
<1>6. j \in 1 .. lastInode'
  BY <1>2, <1>3, AddFor DEF Known
<1>7. DOMAIN known' = DOMAIN known \cup {j}
  BY <1>2 DEF LookupNew, Learn, With
<1>8. OpenStep
  BY <1>6, <1>7 DEF LookupNew, openVars, OpenStep
<1> QED BY <1>5, <1>8

LEMMA LearnOK ==
  ASSUME Known, NEW h, StatOk(h) \/ CreateOk(h)
  PROVE  HandlerStep(h) /\ OpenStep
<1>1. /\ h \in Handlers
      /\ HandlerOK(task[h], lastInode, pathOf)
      /\ lastInode \in Nat
  BY Mine DEF StatOk, CreateOk
<1>2. UNCHANGED mapVars /\ Finish(h, Rest)
  BY DEF StatOk, CreateOk
<1>3. HandlerStep(h)
  BY <1>1, <1>2, LeaveOK DEF MapStep
<1>4. PICK j : j = task[h].i
  OBVIOUS
<1>5. j # None
  BY <1>1, <1>4 DEF StatOk, CreateOk, Answered, HandlerOK
<1>6. j \in 1 .. lastInode'
  BY <1>1, <1>2, <1>4, <1>5 DEF HandlerOK, None, mapVars
<1>7. DOMAIN known' = DOMAIN known \cup {j}
  BY <1>4 DEF StatOk, CreateOk, Learn, With
<1>8. OpenStep
  BY <1>6, <1>7 DEF StatOk, CreateOk, openVars, OpenStep
<1> QED BY <1>3, <1>8

LEMMA EndsOK ==
  ASSUME Known, NEW h, \/ StatFail(h) \/ Changed(h) \/ Refused(h) \/ CreateFail(h)
                       \/ IODone(h) \/ DirOpened(h)
  PROVE  HandlerStep(h) /\ OpenStep
<1>1. h \in Handlers
  BY Mine DEF StatFail, Changed, Refused, CreateFail, IODone, DirOpened
<1>2. MapStep
  BY DEF StatFail, Changed, Refused, CreateFail, IODone, DirOpened, MapStep
<1>3. Finish(h, Rest)
  BY DEF StatFail, Changed, Refused, CreateFail, IODone, DirOpened
<1>4. UNCHANGED openVars /\ UNCHANGED known
  BY DEF StatFail, Changed, Refused, CreateFail, IODone, DirOpened, kernelVars
<1> QED BY <1>1, <1>2, <1>3, <1>4, LeaveOK, SameOpen

LEMMA MadeDirOK ==
  ASSUME Known, NEW h, MadeDir(h) \/ Created(h)
  PROVE  HandlerStep(h) /\ OpenStep
<1>1. /\ h \in Handlers /\ DOMAIN task[h] = Fields
      /\ HandlerOK(task[h], lastInode, pathOf)
  BY Mine DEF MadeDir, Created
<1>2. PICK t : t = [task[h] EXCEPT !.i = InodeFor(task[h].p)]
  OBVIOUS
<1>3. PICK r : /\ r = PathReq("fg", task[h].p) \/ r = OpenReq(task[h].p, task[h].req.m)
               /\ Ask(h, t, r, Rest)
  BY <1>2 DEF MadeDir, Created
<1>4. /\ DOMAIN t = Fields /\ t.p = task[h].p /\ t.i = InodeFor(task[h].p)
      /\ t.got = task[h].got
  BY <1>1, <1>2 DEF Fields, Idle
<1>5. r.p \in Path /\ r.q \in Path
  BY <1>1, <1>3, ReqFields, RootPath DEF HandlerOK
<1>6. i_add(task[h].p)
  BY DEF MadeDir, Created
<1>7. HandlerStep(h)
  BY <1>1, <1>3, <1>4, <1>5, <1>6, MadeOK
<1>8. UNCHANGED openVars /\ UNCHANGED known
  BY DEF MadeDir, Created, kernelVars
<1> QED BY <1>7, <1>8, SameOpen

LEMMA MoreIOOK ==
  ASSUME Known, NEW h, MoreIO(h)
  PROVE  HandlerStep(h) /\ OpenStep
<1>1. /\ h \in Handlers /\ DOMAIN task[h] = Fields
      /\ HandlerOK(task[h], lastInode, pathOf)
  BY Mine DEF MoreIO
<1>2. PICK t, r : t = [task[h] EXCEPT !.pos = @ + 1] /\ r = task[h].req
  OBVIOUS
<1>3. Ask(h, t, r, Rest) /\ UNCHANGED mapVars
  BY <1>2 DEF MoreIO
<1>4. /\ DOMAIN t = Fields /\ t.p = task[h].p /\ t.i = task[h].i /\ t.op = task[h].op
      /\ t.got = task[h].got
  BY <1>1, <1>2 DEF Fields, Idle
<1>5. r.p \in Path /\ r.q \in Path
  BY <1>1, <1>2 DEF HandlerOK
<1>6. HandlerStep(h)
  BY <1>1, <1>3, <1>4, <1>5, AskAgainOK
<1>7. UNCHANGED openVars /\ UNCHANGED known
  BY DEF MoreIO, kernelVars
<1> QED BY <1>6, <1>7, SameOpen

(* The descriptor that has just been opened.                               *)
LEMMA OpenedOK ==
  ASSUME Known, NEW h, Opened(h) \/ CreateOpened(h)
  PROVE  HandlerStep(h) /\ OpenStep
<1>1. /\ h \in Handlers /\ DOMAIN task = Handlers /\ DOMAIN task[h] = Fields
      /\ HandlerOK(task[h], lastInode, pathOf)
      /\ lastInode \in Nat
      /\ task[h].op \in {"open", "create"}
      /\ <<task[h].op, task[h].req.a>> \in Requests
      /\ UNCHANGED mapVars
  BY Mine DEF Opened, CreateOpened
<1>2. PICK fd, j : fd = answer.n /\ j = task[h].i
  OBVIOUS
<1>3. fd \in 1 .. lastFd
  <2>1. task[h].req.a = "fo"
    BY <1>1 DEF Opened, CreateOpened, Answered, Requests
  <2>2. Granted("fo")
    BY <2>1 DEF Opened, CreateOpened, Answered, Granted
  <2> QED BY <1>2, <2>2 DEF Known, DescInv
<1>4. j \in 1 .. lastInode
  BY <1>1, <1>2 DEF HandlerOK, None
<1>5. fdInode' = With(fdInode, fd, j) /\ inodeFd' = With(inodeFd, j, fd) /\ known' = known
  BY <1>2 DEF Opened, CreateOpened, f_open, kernelVars
<1>6. OpenStep
  BY <1>3, <1>4, <1>5 DEF OpenStep
<1>7. CASE Finish(h, Rest)
  BY <1>1, <1>6, <1>7, LeaveOK DEF MapStep
<1>8. CASE ~Finish(h, Rest)
  <2>1. PICK t, r : t = [task[h] EXCEPT !.fh = answer.n] /\ r = StatReq(task[h].i)
    OBVIOUS
  <2>2. Ask(h, t, r, Rest) /\ task[h].i \in DOMAIN pathOf
    BY <1>8, <2>1 DEF Opened, CreateOpened
  <2>3. /\ DOMAIN t = Fields /\ t.p = task[h].p /\ t.i = task[h].i /\ t.op = task[h].op
        /\ t.got = task[h].got
    BY <1>1, <2>1 DEF Fields, Idle
  <2>4. pathOf[task[h].i] \in Path
    BY <2>2 DEF Known, TypeInv, Numbered
  <2>5. r.p \in Path /\ r.q \in Path
    BY <2>1, <2>4, ReqFields, RootPath DEF StatReq
  <2>6. HandlerStep(h)
    BY <1>1, <2>2, <2>3, <2>5, AskAgainOK
  <2> QED BY <1>6, <2>6
<1> QED BY <1>7, <1>8

LEMMA ListedOK ==
  ASSUME Known, NEW h \in Handlers, NEW got, NEW pos, Listed(h, got, pos),
         \A e \in Range(got) : e.i \in 1 .. lastInode
  PROVE  HandlerStep(h) /\ OpenStep
<1>1. UNCHANGED mapVars /\ Finish(h, Rest) /\ UNCHANGED openVars
  BY DEF Listed
<1>2. HandlerStep(h)
  BY <1>1, LeaveOK DEF MapStep
<1>3. DOMAIN known' = DOMAIN known \cup {e.i : e \in Range(got)}
  BY DEF Listed
<1>4. \A x \in {e.i : e \in Range(got)} : x \in 1 .. lastInode
  OBVIOUS
<1>5. DOMAIN known' \subseteq DOMAIN known \cup 1 .. lastInode'
  BY <1>1, <1>3, <1>4 DEF mapVars
<1>6. OpenStep
  BY <1>1, <1>5 DEF openVars, OpenStep
<1> QED BY <1>2, <1>6

LEMMA EntryFullOK ==
  ASSUME Known, NEW h, EntryFull(h)
  PROVE  HandlerStep(h) /\ OpenStep
<1>1. h \in Handlers /\ HandlerOK(task[h], lastInode, pathOf)
  BY Mine DEF EntryFull
<1>2. \A e \in Range(task[h].got) : e.i \in 1 .. lastInode
  BY <1>1 DEF HandlerOK
<1> QED BY <1>1, <1>2, ListedOK DEF EntryFull

LEMMA RangeAppend ==
  ASSUME NEW S, NEW s \in Seq(S), NEW e
  PROVE  Range(Append(s, e)) = Range(s) \cup {e}
<1> DEFINE t == Append(s, e)
<1>1. /\ Len(s) \in Nat
      /\ DOMAIN s = 1 .. Len(s)
      /\ DOMAIN t = 1 .. Len(s) + 1
      /\ \A a \in 1 .. Len(s) : t[a] = s[a]
      /\ t[Len(s) + 1] = e
  OBVIOUS
<1> HIDE DEF t
<1>2. \A x \in Range(t) : x \in Range(s) \cup {e}
  BY <1>1 DEF Range
<1>3. \A x \in Range(s) : x \in Range(t)
  BY <1>1 DEF Range
<1>4. e \in Range(t)
  BY <1>1 DEF Range
<1> QED BY <1>2, <1>3, <1>4 DEF t

LEMMA EntryOkOK ==
  ASSUME Known, NEW h, EntryOk(h)
  PROVE  HandlerStep(h) /\ OpenStep
<1>1. /\ h \in Handlers /\ DOMAIN task[h] = Fields
      /\ HandlerOK(task[h], lastInode, pathOf)
      /\ lastInode \in Nat
      /\ task[h].op = "readdir"
  <2>1. Answered(h, {"readdir"}, "r")
    BY DEF EntryOk
  <2>2. task[h].op = "readdir"
    BY <2>1 DEF Answered
  <2>3. PICK ops, k : Answered(h, ops, k)
    BY <2>1
  <2>4. /\ h \in Handlers /\ DOMAIN task[h] = Fields
        /\ HandlerOK(task[h], lastInode, pathOf)
        /\ lastInode \in Nat
    BY <2>3, Mine
  <2> QED BY <2>2, <2>4
<1>2. PICK s, names : s = task[h] /\ names = dirContent[s.fh].names
  OBVIOUS
<1>3. PICK e, got : /\ e = [n |-> names[s.pos + 1], i |-> s.i, k |-> answer.s]
                    /\ got = Append(s.got, e)
  OBVIOUS
<1>4. ReadsOn(h) /\ ListedTo(s.fh)
  BY <1>1, <1>2 DEF Known, ListInv, Reading, ReadsOn
<1>5. /\ s.got \in Seq(Range(s.got))
      /\ names \in NameSeq
      /\ listing[s.fh].pos \in 0 .. Len(names)
      /\ s.pos \in listing[s.fh].pos .. Len(names) - 1
  BY <1>2, <1>4 DEF ReadsOn, ListedTo
<1>6. e.i \in 1 .. lastInode
  BY <1>1, <1>2, <1>3 DEF HandlerOK, None
<1>7. \A x \in Range(got) : x.i \in 1 .. lastInode
  <2>1. Range(got) = Range(s.got) \cup {e}
    BY <1>3, <1>5, RangeAppend
  <2> QED BY <1>1, <1>2, <1>6, <2>1 DEF HandlerOK
<1>8. CASE s.pos + 1 < Len(names)
  <2>1. PICK t : t = [s EXCEPT !.got = got, !.pos = @ + 1]
    OBVIOUS
  <2>2. NextEntry(h, t, Rest) /\ UNCHANGED openVars /\ UNCHANGED known
    BY <1>2, <1>3, <1>8, <2>1 DEF EntryOk, kernelVars
  <2>3. /\ DOMAIN t = Fields /\ t.op = "readdir" /\ t.p = s.p /\ t.got = got
        /\ t.fh = s.fh /\ t.pos = s.pos + 1
    BY <1>1, <1>2, <2>1 DEF Fields, Idle
  <2>4. t.p \in Path
    BY <1>1, <1>2, <2>3 DEF HandlerOK
  <2>5. t.pos + 1 \in 1 .. Len(names)
    <3>1. PICK k, m, l : k = s.pos /\ m = Len(names) /\ l = listing[s.fh].pos
      OBVIOUS
    <3>2. m \in Nat
      BY <1>5, <3>1, LenProperties DEF NameSeq
    <3>3. l \in 0 .. m /\ k \in l .. m - 1 /\ k + 1 < m
      BY <1>5, <1>8, <3>1
    <3>4. (k + 1) + 1 \in 1 .. m
      BY <3>2, <3>3
    <3> QED BY <2>3, <3>1, <3>4
  <2>6. dirContent[t.fh].names = names
    BY <1>2, <2>3
  <2>7. HandlerStep(h)
    BY <1>1, <1>5, <1>7, <2>2, <2>3, <2>4, <2>5, <2>6, NextEntryOK
  <2> QED BY <2>2, <2>7, SameOpen
<1>9. CASE ~(s.pos + 1 < Len(names))
  <2>1. Listed(h, got, s.pos + 1)
    BY <1>2, <1>3, <1>9 DEF EntryOk
  <2> QED BY <1>1, <1>7, <2>1, ListedOK
<1> QED BY <1>8, <1>9

LEMMA IOFailOK ==
  ASSUME Known, NEW h, IOFail(h)
  PROVE  HandlerStep(h) /\ OpenStep
<1>1. UNCHANGED <<task, mapVars>> /\ UNCHANGED openVars /\ UNCHANGED known
  BY DEF IOFail, Die, kernelVars
<1> QED BY <1>1, Rests, SameOpen

LEMMA ResumeTyped ==
  ASSUME Known, NEW h, Resume(h)
  PROVE  HandlerStep(h) /\ OpenStep
BY LookupNewOK, LearnOK, EndsOK, MadeDirOK, MoreIOOK, OpenedOK, EntryFullOK, EntryOkOK,
   IOFailOK DEF Resume

(* A request of the kernel leaves the device's answer alone, a handler     *)
(* that goes on takes it.                                                  *)
LEMMA KernelAnswer ==
  ASSUME NEW h \in Handlers, Kernel(h)
  PROVE  UNCHANGED answer
<1>1. ASSUME NEW i, NEW n,
             \/ Lookup(h, i, n) \/ Mkdir(h, i, n) \/ Unlink(h, i, n)
             \/ Rmdir(h, i, n) \/ \E m \in Modes : Create(h, i, n, m)
             \/ \E j, m, x : RenameCall(h, i, n, j, m, x)
      PROVE  UNCHANGED answer
  BY <1>1 DEF Lookup, Mkdir, Unlink, Rmdir, Create, RenameCall, OnName, Start
<1>2. ASSUME NEW i, \/ Getattr(h, i) \/ Opendir(h, i) \/ Forget(h, i)
                    \/ \E m \in Modes : Open(h, i, m)
      PROVE  UNCHANGED answer
  BY <1>2 DEF Getattr, Opendir, Forget, Open, Start
<1>3. ASSUME NEW fh, \/ Release(h, fh) \/ Readdir(h, fh) \/ Releasedir(h, fh)
                     \/ \E a \in {"fr", "fw"} : ReadWrite(h, fh, a)
      PROVE  UNCHANGED answer
  BY <1>3 DEF Release, Readdir, Releasedir, ReadWrite, Start
<1> QED BY <1>1, <1>2, <1>3 DEF Kernel

LEMMA ResumeAnswered ==
  ASSUME NEW h, Resume(h)
  PROVE  \E ops, k : Answered(h, ops, k)
BY DEF Resume, LookupNew, StatOk, StatFail, MadeDir, Changed, Refused, Created,
   CreateFail, Opened, CreateOpened, CreateOk, MoreIO, IODone, IOFail, DirOpened,
   EntryOk, EntryFull

LEMMA HostAnswer ==
  ASSUME NEW h \in Handlers, Kernel(h) \/ Resume(h)
  PROVE  answer' = answer \/ answer' = NoAnswer
BY KernelAnswer, ResumeAnswered DEF Answered

(* The device counts its descriptors up.                                   *)
LEMMA LastFdGrows ==
  ASSUME DescInv, Device \/ Other \/ UNCHANGED vars
  PROVE  lastFd' \in Nat /\ lastFd <= lastFd'
<1>1. lastFd \in Nat
  BY DEF DescInv
<1>2. lastFd' = lastFd \/ lastFd' = lastFd + 1
  <2>1. CASE Device
    BY <2>1, CommandFds DEF Device
  <2>2. CASE Other
    BY <2>2 DEF Other, Elsewhere
  <2>3. CASE UNCHANGED vars
    BY <2>3 DEF vars, devVars
  <2> QED BY <2>1, <2>2, <2>3
<1> QED BY <1>1, <1>2

(* The whole step.                                                         *)
LEMMA StepTyped ==
  ASSUME Known, [Next]_vars
  PROVE  TypeInv'
<1>1. CASE Host
  <2>1. PICK h \in Handlers : HandlerStep(h) /\ OpenStep
    BY <1>1, KernelTyped, ResumeTyped DEF Host
  <2>2. UNCHANGED <<fs, fds, lastFd, wedged, others>>
    BY <1>1 DEF Host
  <2>3. Numbered' /\ HandlersOK' /\ lastInode' \in Nat /\ lastInode <= lastInode'
    BY <2>1, HandlersStep DEF Known, TypeInv
  <2>4. OpenTyped'
    BY <2>1, <2>2, <2>3, OpenStepTyped DEF Known, TypeInv, InodeInv
  <2>5. DeviceTyped'
    <3>1. answer' = answer \/ answer' = NoAnswer
      BY <1>1, HostAnswer DEF Host
    <3>2. answer.k \in {"", "r", "e"} /\ NoAnswer.k = ""
      BY DEF Known, TypeInv, DeviceTyped, NoAnswer
    <3>3. answer'.k = answer.k \/ answer'.k = NoAnswer.k
      BY <3>1
    <3>4. answer'.k \in {"", "r", "e"}
      BY <3>2, <3>3
    <3> QED BY <2>2, <3>4 DEF Known, TypeInv, DeviceTyped
  <2> QED BY <2>3, <2>4, <2>5 DEF TypeInv
<1>2. CASE UNCHANGED hostVars
  <2>1. Numbered' /\ HandlersOK'
    BY <1>2 DEF hostVars, mapVars, taskVars, Known, TypeInv, Numbered, HandlersOK
  <2>2. lastFd \in Nat /\ lastFd' \in Nat /\ lastFd <= lastFd'
    <3>1. CASE Host
      BY <3>1 DEF Host, Known, DescInv
    <3>2. CASE Device \/ Other \/ UNCHANGED vars
      BY <3>2, LastFdGrows DEF Known, DescInv
    <3> QED BY <3>1, <3>2 DEF Next
  <2>3. OpenTyped'
    <3>1. 1 .. lastFd \subseteq 1 .. lastFd'
      BY <2>2, WiderRange
    <3>2. inodeFd \in [DOMAIN inodeFd -> 1 .. lastFd']
      BY <3>1, WiderFun DEF Known, TypeInv, OpenTyped
    <3> QED BY <1>2, <3>2 DEF hostVars, mapVars, openVars, kernelVars, Known, TypeInv, OpenTyped
  <2>4. DeviceTyped'
    <3>1. CASE Device
      <4>1. PICK r : r = task[Head(waiters)].req /\ Command(r)
        BY <3>1 DEF Device
      <4>2. r.p \in Path /\ r.q \in Path
        <5>1. Head(waiters) \in Handlers
          BY <3>1, QueueTail DEF Device, Known, WaitInv
        <5> QED BY <4>1, <5>1 DEF Known, TypeInv, HandlersOK, HandlerOK
      <4>3. IsTree(fs')
        BY <4>1, <4>2, CommandTree DEF Known, TypeInv, DeviceTyped
      <4>4. Replied
        BY <4>1, CommandReplied DEF Known, TypeInv, DeviceTyped
      <4> QED BY <4>3, <4>4 DEF DeviceTyped, Replied
    <3>2. CASE Other
      BY <3>2, ElsewhereTree DEF Other, Elsewhere, Known, TypeInv, DeviceTyped
    <3>3. CASE UNCHANGED vars
      BY <3>3 DEF vars, devVars, Known, TypeInv, DeviceTyped
    <3>4. CASE Host
      BY <1>1, <3>4 DEF TypeInv
    <3> QED BY <3>1, <3>2, <3>3, <3>4 DEF Next
  <2> QED BY <2>1, <2>3, <2>4 DEF TypeInv
<1> QED BY <1>1, <1>2 DEF Next, Device, Other, vars

LEMMA InitTyped == Init => TypeInv
<1> SUFFICES ASSUME Init PROVE TypeInv
  OBVIOUS
<1>1. DeviceTyped
  BY DeviceFSAssumption DEF Init, DevInit, DeviceTyped, NoAnswer
<1>2. pathOf = [i \in {ROOT} |-> Root] /\ inodeOf = [p \in {Root} |-> ROOT] /\ lastInode = 1
  BY DEF Init, FuseInit, ROOT
<1>3. 1 \in 1 .. lastInode
  BY <1>2
<1>4. Numbered
  BY <1>2, <1>3, RootPath DEF Numbered, ROOT
<1>5. OpenTyped
  <2>1. DOMAIN fdInode = {} /\ DOMAIN inodeFd = {} /\ fdInode = [x \in {} |-> 0]
        /\ inodeFd = [x \in {} |-> 0]
    BY DEF Init, FuseInit, Restrict
  <2>2. DOMAIN known = {1}
    BY DEF Init, FuseInit, ROOT
  <2> QED BY <1>3, <2>1, <2>2 DEF OpenTyped
<1>6. HandlersOK
  BY <1>2, IdleOK DEF Init, FuseInit, HandlersOK
<1> QED BY <1>1, <1>4, <1>5, <1>6 DEF TypeInv

(* Paths, inodes and descriptors are what they are taken for, the file     *)
(* system of the device is a tree, and an inode that a handler has found   *)
(* or made before an await (in lookup, mkdir and create) is, when it has a *)
(* path at all afterwards, that of the path it was found for.              *)
THEOREM TypeInvariance == Spec => []Known
<1>1. Init => Known
  BY InitMaps, InitWait, InitDesc, InitList, InitTyped DEF Known
<1>2. Known /\ [Next]_vars => Known'
  <2> SUFFICES ASSUME Known, [Next]_vars PROVE Known'
    OBVIOUS
  <2>1. InodeInv'
    BY StepMaps, ChangeKeeps DEF Known
  <2>2. WaitInv' /\ DescInv' /\ ListInv'
    BY StepWait, StepDesc, StepList DEF Known
  <2>3. TypeInv'
    BY StepTyped
  <2> QED BY <2>1, <2>2, <2>3 DEF Known
<1> QED BY <1>1, <1>2, PTL DEF Spec

(* The types of the mount and of the device it works on.                   *)
THEOREM TypesOfMount == Spec => []TypeOK
<1>1. Known => TypeOK
  BY DEF Known, InodeInv, WaitInv, DescInv, ListInv, TypeInv, DeviceTyped, Numbered,
     OpenTyped, TypeOK, DevTypeOK
<1> QED BY <1>1, TypeInvariance, PTL

-----------------------------------------------------------------------------
(* The steps EntryResolves speaks of.                                      *)
GoesOn(h) ==
  /\ task[h].op \in Entering
  /\ h = Head(waiters)
  /\ answer.k = "r"
  /\ answer' = NoAnswer

GoesOnWith(h) ==
  IF task'[h] # Idle THEN task'[h].i
  ELSE IF task[h].i # None THEN task[h].i
  ELSE inodeOf'[task[h].p]

AsksForInode(h) == task[h].i = None \/ task[h].req.a \in {"fD", "fn"}

Right(h) ==
  /\ AsksForInode(h) => GoesOnWith(h) \in DOMAIN pathOf'
  /\ GoesOnWith(h) \in DOMAIN pathOf' => pathOf'[GoesOnWith(h)] = task[h].p

(* i_add has mapped the path to the inode.                                 *)
LEMMA AddedFor ==
  ASSUME Known, NEW p \in Path, i_add(p)
  PROVE  /\ InodeFor(p) \in DOMAIN pathOf' /\ pathOf'[InodeFor(p)] = p
         /\ inodeOf'[p] = InodeFor(p)
<1>1. CASE p \in DOMAIN inodeOf
  BY <1>1 DEF i_add, InodeFor, mapVars, Known, InodeInv, MapsAgree
<1>2. CASE p \notin DOMAIN inodeOf
  BY <1>2 DEF i_add, InodeFor, With
<1> QED BY <1>1, <1>2

LEMMA NewRight ==
  ASSUME Known, NEW h, LookupNew(h)
  PROVE  Right(h)
<1>1. PICK ops, k : Answered(h, ops, k)
  BY DEF LookupNew
<1>2. h \in Handlers /\ DOMAIN task = Handlers /\ HandlerOK(task[h], lastInode, pathOf)
  BY <1>1, Mine
<1>3. task' = [task EXCEPT ![h] = Idle] /\ task[h].i = None /\ i_add(task[h].p)
  BY DEF LookupNew, Finish
<1>4. task'[h] = Idle
  BY <1>2, <1>3
<1>5. GoesOnWith(h) = inodeOf'[task[h].p]
  BY <1>3, <1>4 DEF GoesOnWith
<1>6. PICK p : p = task[h].p /\ p \in Path
  BY <1>2 DEF HandlerOK
<1> QED BY <1>3, <1>5, <1>6, AddedFor DEF Right

LEMMA MadeRight ==
  ASSUME Known, NEW h, MadeDir(h) \/ Created(h)
  PROVE  Right(h)
<1>1. PICK ops, k : Answered(h, ops, k)
  BY DEF MadeDir, Created
<1>2. /\ h \in Handlers /\ DOMAIN task = Handlers /\ HandlerOK(task[h], lastInode, pathOf)
      /\ DOMAIN task[h] = Fields
  BY <1>1, Mine
<1>3. PICK p, j : p = task[h].p /\ p \in Path /\ j = InodeFor(p)
  BY <1>2 DEF HandlerOK
<1>4. j \in DOMAIN pathOf' /\ pathOf'[j] = p
  BY <1>3, AddedFor DEF MadeDir, Created
<1>5. task'[h].i = j /\ task'[h].op = task[h].op
  <2>1. PICK t : t = [task[h] EXCEPT !.i = InodeFor(task[h].p)]
    OBVIOUS
  <2>2. PICK r : Ask(h, t, r, Rest)
    BY <2>1 DEF MadeDir, Created
  <2>3. t.i = j /\ t.op = task[h].op /\ DOMAIN t = Fields
    BY <1>2, <1>3, <2>1 DEF Fields, Idle
  <2> QED BY <1>2, <2>2, <2>3 DEF Ask, Fields, Idle
<1>6. task[h].op # ""
  BY DEF MadeDir, Created, Answered
<1>7. task'[h] # Idle
  BY <1>5, <1>6, IdleOp
<1> QED BY <1>3, <1>4, <1>5, <1>7 DEF Right, GoesOnWith

LEMMA FoundRight ==
  ASSUME Known, NEW h, GoesOn(h), StatOk(h) \/ CreateOpened(h) \/ CreateOk(h)
  PROVE  Right(h)
<1>1. PICK ops, k : Answered(h, ops, k)
  BY DEF StatOk, CreateOpened, CreateOk
<1>2. /\ h \in Handlers /\ DOMAIN task = Handlers /\ HandlerOK(task[h], lastInode, pathOf)
      /\ DOMAIN task[h] = Fields
      /\ task[h].op \in Entering
  BY <1>1, Mine DEF GoesOn
<1>3. UNCHANGED mapVars /\ task[h].i # None /\ task[h].req.a \notin {"fD", "fn"}
  BY <1>2 DEF StatOk, CreateOpened, CreateOk, HandlerOK, Answered
<1>4. task[h].i \in DOMAIN pathOf' => pathOf'[task[h].i] = task[h].p
  BY <1>2, <1>3 DEF HandlerOK, Resolves, mapVars
<1>5. task'[h] = Idle \/ task'[h].i = task[h].i
  <2>1. CASE Finish(h, Rest)
    BY <1>2, <2>1 DEF Finish
  <2>2. CASE ~Finish(h, Rest)
    <3>1. PICK t : t = [task[h] EXCEPT !.fh = answer.n]
      OBVIOUS
    <3>2. PICK r : Ask(h, t, r, Rest)
      BY <2>2, <3>1 DEF StatOk, CreateOpened, CreateOk
    <3>3. t.i = task[h].i /\ DOMAIN t = Fields
      BY <1>2, <3>1 DEF Fields, Idle
    <3> QED BY <1>2, <3>2, <3>3 DEF Ask, Fields, Idle
  <2> QED BY <2>1, <2>2
<1>6. GoesOnWith(h) = task[h].i
  BY <1>3, <1>5 DEF GoesOnWith
<1> QED BY <1>3, <1>4, <1>6 DEF Right, AsksForInode

LEMMA StepRight ==
  ASSUME Known, [Next]_vars, NEW h \in Handlers, GoesOn(h)
  PROVE  Right(h)
<1>1. waiters # <<>> /\ answer # answer'
  <2>1. NoAnswer.k = "" /\ answer.k = "r" /\ answer' = NoAnswer
    BY DEF GoesOn, NoAnswer
  <2>2. answer # NoAnswer
    BY <2>1
  <2> QED BY <2>1, <2>2 DEF Known, WaitInv
<1>2. CASE Host
  <2>1. PICK g \in Handlers : Kernel(g) \/ Resume(g)
    BY <1>2 DEF Host
  <2>2. Resume(g)
    BY <1>1, <2>1, KernelAnswer
  <2>3. PICK ops, k : Answered(g, ops, k)
    BY <2>2, ResumeAnswered
  <2>4. g = h
    BY <2>3 DEF Answered, GoesOn
  <2>5. task[h].op \in Entering /\ answer.k = "r"
    BY DEF GoesOn
  <2>6. \/ LookupNew(h) \/ StatOk(h) \/ MadeDir(h) \/ Created(h) \/ CreateOpened(h)
        \/ CreateOk(h)
    BY <2>2, <2>4, <2>5 DEF Resume, StatFail, Changed, Refused, CreateFail, Opened, MoreIO,
       IODone, IOFail, DirOpened, EntryOk, EntryFull, Answered, Entering
  <2> QED BY <2>6, NewRight, MadeRight, FoundRight
<1>3. CASE Device
  BY <1>1, <1>3 DEF Device, Command, GoesOn, NoAnswer
<1>4. CASE Other \/ UNCHANGED vars
  BY <1>1, <1>4 DEF Other, Elsewhere, vars, devVars
<1> QED BY <1>2, <1>3, <1>4 DEF Next

(* An entry handed out by lookup, mkdir or create never is another path's. *)
THEOREM EntriesResolve == Spec => EntryResolves
<1>1. Known /\ [Next]_vars => [\A h \in Handlers : GoesOn(h) => Right(h)]_vars
  BY StepRight
<1>2. EntryResolves <=> [][\A h \in Handlers : GoesOn(h) => Right(h)]_vars
  BY PTL DEF EntryResolves, GoesOn, Right, GoesOnWith, AsksForInode, Entering
<1> QED BY <1>1, <1>2, TypeInvariance, PTL DEF Spec

=============================================================================
