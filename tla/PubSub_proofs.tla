----------------------------- MODULE PubSub_proofs -----------------------------
(***************************************************************************)
(* The connections of the device, the subscriptions at both their ends,    *)
(* and the messages that callbacks get, for any number of multiplexers,    *)
(* topics, subscriptions and messages.                                     *)
(***************************************************************************)
EXTENDS PubSubInv, FiniteSetTheorems, SequenceTheorems, TLAPS

Kinds == {"none", "h", "m", "ms", "mu", "p"}
Named == Topics \cup {NoTopic}

\* Messages and tasks, numbers unbounded
Parcels == [a : Kinds, nr : Int, t : Named, r : BOOLEAN, n : Int]
Copies  == [a : {"m"}, nr : Int, t : Named, r : BOOLEAN, n : Int]
Task    == [nr : Int, t : Named, r : BOOLEAN, on : {"on", "leaving", "ended"}, q : Seq(Copies)]
Wish    == [t : Topics, r : BOOLEAN]

SubsTyped ==
    /\ sub_nr \in Int /\ wishes \in Seq(Wish)
    /\ DOMAIN subs \subseteq Int /\ IsFiniteSet(DOMAIN subs)
    /\ \A nr \in DOMAIN subs : subs[nr] \in Topics
DeviceTyped ==
    /\ sock \in [Conns -> {"none", "open", "closed"}]
    /\ client \in Conns \cup {0} /\ clients \subseteq Conns
    /\ SubsTyped
    /\ prog \in [at : {"idle", "sending", "packing", "stop", "stopping"},
                 c : Conns \cup {0}, m : Parcels]
MuxTyped ==
    /\ mux \in [Conns -> {"off", "init", "up", "ended"}]
    /\ tasks \in [Conns -> Seq(Task)]
    /\ broker \in Int
NetTyped ==
    /\ toDev \in [Conns -> Seq(Parcels)]
    /\ fromDev \in [Conns -> Seq(Parcels)]

\* An h is the first message of a multiplexer, and the only one; before it
\* has been handled, its connection is not the client.
Hello ==
    \A c \in Conns :
      /\ mux[c] = "off" => toDev[c] = <<>> /\ tasks[c] = <<>> /\ client # c
      /\ \A k \in 1..Len(toDev[c]) : toDev[c][k].a = "h" => k = 1 /\ client # c

\* Each open socket is held in one place
Linked ==
    /\ \A c \in Conns : sock[c] = "open" <=> (c = client \/ c \in clients)
    /\ client \notin clients

\* Tracked, at each point of stop
Tracking ==
    ~raced =>
      /\ Linked
      /\ prog.at \in {"stop", "stopping"} => ~listening /\ client = 0
      /\ ~listening => prog.at \in {"stop", "stopping"} \/ (client = 0 /\ clients = {})

TrackInv == DeviceTyped /\ MuxTyped /\ NetTyped /\ Hello /\ Tracking

-----------------------------------------------------------------------------
(* Messages and channels.                                                  *)

LEMMA MsgType ==
  ASSUME NEW a \in Kinds, NEW nr \in Int, NEW t \in Named, NEW r \in BOOLEAN, NEW n \in Int
  PROVE  Msg(a, nr, t, r, n) \in Parcels
BY DEF Msg, Parcels

LEMMA MSType ==
  ASSUME NEW nr \in Int, NEW t \in Named
  PROVE  MS(nr, t, FALSE) \in Parcels
BY DEF MS, Msg, Parcels, Kinds

LEMMA PlainType ==
  ASSUME NEW a \in Kinds
  PROVE  Plain(a) \in Parcels /\ Plain(a).a = a
BY DEF Plain, Msg, Parcels, Named

LEMMA ConnsAreNumbers == \A c \in Conns : c \in Int /\ c # 0
BY PubSubAssumption DEF Conns

\* What opened sends is a sequence of messages.
LEMMA ResubscriptionsType ==
  ASSUME DeviceTyped
  PROVE  Resubscriptions \in Seq(Parcels)
<1> DEFINE S == DOMAIN subs
           nrs == SetToSeq(S)
<1>1. /\ Cardinality(S) \in Nat /\ ExistsBijection(1..Cardinality(S), S)
  BY FS_CardinalityType DEF DeviceTyped, SubsTyped
<1>2. \E f \in [1..Cardinality(S) -> S] : IsInjective(f)
  BY <1>1 DEF ExistsBijection, Bijection, Injection, IsInjective
<1>3. nrs \in [1..Cardinality(S) -> S]
  BY <1>2 DEF SetToSeq
<1>4. nrs \in Seq(S) /\ Len(nrs) = Cardinality(S)
  BY <1>1, <1>3
<1>5. ASSUME NEW k \in 1..Len(nrs) PROVE MS(nrs[k], subs[nrs[k]], FALSE) \in Parcels
  <2>1. nrs[k] \in Int /\ subs[nrs[k]] \in Named
    BY <1>3, <1>4 DEF DeviceTyped, SubsTyped, Named
  <2> QED BY <2>1, MSType
<1> DEFINE rs == [k \in 1..Len(nrs) |-> MS(nrs[k], subs[nrs[k]], FALSE)]
<1>6. rs \in [1..Len(nrs) -> Parcels]
  BY <1>5
<1>7. Len(nrs) \in Nat BY <1>1, <1>4
<1>8. rs \in Seq(Parcels)
  <2> HIDE DEF rs
  <2> QED BY <1>6, <1>7
<1> QED BY <1>8 DEF Resubscriptions

LEMMA ToMuxType ==
  ASSUME NetTyped, NEW c \in Conns, NEW ms \in Seq(Parcels)
  PROVE  ToMux(c, ms) \in [Conns -> Seq(Parcels)]
BY DEF NetTyped, ToMux

LEMMA ToDeviceType ==
  ASSUME NetTyped, NEW c \in Conns, NEW m \in Parcels
  PROVE  ToDevice(c, m) \in [Conns -> Seq(Parcels)]
BY DEF NetTyped, ToDevice

\* Only a first message may be an h.
LEMMA ToDeviceHello ==
  ASSUME NetTyped, Hello, NEW c \in Conns, NEW m \in Parcels, client' = client,
         toDev' = ToDevice(c, m),
         \/ m.a # "h" /\ mux[c] # "off" /\ mux' = mux
         \/ mux[c] = "off" /\ mux' = [mux EXCEPT ![c] = "init"],
         MuxTyped,
         \A d \in Conns : mux[d] = "off" => tasks'[d] = tasks[d]
  PROVE  Hello'
<1> SUFFICES ASSUME NEW d \in Conns
    PROVE /\ mux'[d] = "off" => toDev'[d] = <<>> /\ tasks'[d] = <<>> /\ client' # d
          /\ \A k \in 1..Len(toDev'[d]) : toDev'[d][k].a = "h" => k = 1 /\ client' # d
  BY DEF Hello
<1>1. CASE toDev'[d] = toDev[d]
  BY <1>1 DEF Hello, MuxTyped, ToDevice, NetTyped
<1>2. CASE toDev'[d] # toDev[d]
  <2>1. d = c /\ toDev'[d] = Append(toDev[c], m)
    BY <1>2 DEF ToDevice, NetTyped
  <2>2. mux'[d] # "off"
    BY <2>1 DEF MuxTyped
  <2>3. toDev[c] \in Seq(Parcels)
    BY DEF NetTyped
  <2>4. CASE mux[c] = "off"
    <3>1. toDev[c] = <<>> /\ client # c BY <2>4 DEF Hello
    <3>2. Len(toDev'[d]) = 1 BY <2>1, <2>3, <3>1
    <3> QED BY <2>1, <2>2, <3>1, <3>2
  <2>5. CASE mux[c] # "off"
    <3>1. m.a # "h" BY <2>5
    <3>2. \A k \in 1..Len(toDev'[d]) :
            toDev'[d][k] = IF k = Len(toDev[c]) + 1 THEN m ELSE toDev[c][k]
      BY <2>1, <2>3
    <3>3. Len(toDev'[d]) = Len(toDev[c]) + 1 /\ Len(toDev[c]) \in Nat
      BY <2>1, <2>3
    <3> QED BY <2>1, <2>2, <2>3, <3>1, <3>2, <3>3 DEF Hello
  <2> QED BY <2>4, <2>5
<1> QED BY <1>1, <1>2

-----------------------------------------------------------------------------
(* What leaves a part of the invariant alone.                              *)

LEMMA DeviceFrame ==
  ASSUME DeviceTyped, UNCHANGED <<sock, client, clients, subVars, prog>>
  PROVE  DeviceTyped'
BY DEF DeviceTyped, SubsTyped, subVars

LEMMA HelloFrame ==
  ASSUME Hello, UNCHANGED <<mux, toDev, client>>,
         \A c \in Conns : mux[c] = "off" => tasks'[c] = <<>>
  PROVE  Hello'
BY DEF Hello

\* Channels to the device that are only emptied, and the client's place
\* given up
LEMMA HelloLess ==
  ASSUME Hello, UNCHANGED <<mux, tasks>>, client' \in {0, client},
         \A c \in Conns : toDev'[c] \in {<<>>, toDev[c]}
  PROVE  Hello'
<1> SUFFICES ASSUME NEW c \in Conns
    PROVE /\ mux'[c] = "off" => toDev'[c] = <<>> /\ tasks'[c] = <<>> /\ client' # c
          /\ \A k \in 1..Len(toDev'[c]) : toDev'[c][k].a = "h" => k = 1 /\ client' # c
  BY DEF Hello
<1>1. c # 0 BY ConnsAreNumbers
<1>2. CASE toDev'[c] = <<>>
  BY <1>1, <1>2 DEF Hello
<1>3. CASE toDev'[c] = toDev[c]
  BY <1>1, <1>3 DEF Hello
<1> QED BY <1>2, <1>3

LEMMA TrackingFrame ==
  ASSUME Tracking, UNCHANGED <<listening, sock, client, clients, raced>>,
         prog'.at \in {"stop", "stopping"} <=> prog.at \in {"stop", "stopping"}
  PROVE  Tracking'
BY DEF Tracking, Linked

\* The first message is taken from the channel of c.
LEMMA TakenType ==
  ASSUME NetTyped, NEW c \in Conns, toDev[c] # <<>>
  PROVE  /\ Taken(c) \in [Conns -> Seq(Parcels)]
         /\ \A d \in Conns : d # c => Taken(c)[d] = toDev[d]
         /\ Len(Taken(c)[c]) = Len(toDev[c]) - 1
         /\ \A k \in 1..Len(Taken(c)[c]) : Taken(c)[c][k] = toDev[c][k + 1]
BY DEF NetTyped, Taken

LEMMA HelloTaken ==
  ASSUME NetTyped, Hello, NEW c \in Conns, toDev[c] # <<>>, toDev' = Taken(c),
         UNCHANGED <<mux, tasks>>, client' \in {client, c}
  PROVE  Hello'
<1> SUFFICES ASSUME NEW d \in Conns
    PROVE /\ mux'[d] = "off" => toDev'[d] = <<>> /\ tasks'[d] = <<>> /\ client' # d
          /\ \A k \in 1..Len(toDev'[d]) : toDev'[d][k].a = "h" => k = 1 /\ client' # d
  BY DEF Hello
<1>1. CASE d # c
  BY <1>1, TakenType DEF Hello
<1>2. CASE d = c
  <2>1. mux[c] # "off" BY DEF Hello
  <2>2. toDev[c] \in Seq(Parcels) BY DEF NetTyped
  <2>3. \A k \in 1..Len(toDev'[c]) : k + 1 \in 1..Len(toDev[c]) /\ k + 1 # 1
    BY <2>2, TakenType
  <2>4. \A k \in 1..Len(toDev'[c]) : toDev'[c][k].a # "h"
    BY <2>3, TakenType DEF Hello
  <2> QED BY <1>2, <2>1, <2>4
<1> QED BY <1>1, <1>2

-----------------------------------------------------------------------------

LEMMA TrackInit == Init => TrackInv
<1> SUFFICES ASSUME Init PROVE TrackInv OBVIOUS
<1>1. 0 \notin Conns BY ConnsAreNumbers
<1>2. DeviceTyped
  <2>1. SubsTyped
    <3>1. PICK p \in Plans : wishes = p.wishes BY DEF Init
    <3>2. DOMAIN subs = {} /\ sub_nr = 1 BY DEF Init
    <3>3. wishes \in Seq(Wish) BY <3>1, PubSubAssumption DEF PlanOK, Wish
    <3> QED BY <3>2, <3>3, FS_EmptySet DEF SubsTyped
  <2> QED BY <2>1, PlainType DEF Init, DeviceTyped, Idle, Doing, Kinds
<1>3. MuxTyped /\ NetTyped
  BY DEF Init, MuxTyped, NetTyped
<1>4. Hello /\ Tracking
  BY <1>1 DEF Init, Hello, Tracking, Linked, Idle, Doing
<1> QED BY <1>2, <1>3, <1>4 DEF TrackInv

\* A socket that closes
LEMMA CloseTrack ==
  ASSUME DeviceTyped, NetTyped, Hello, NEW c \in Conns, Close(c), UNCHANGED <<mux, tasks>>
  PROVE  /\ toDev' \in [Conns -> Seq(Parcels)] /\ Hello'
         /\ sock' = [sock EXCEPT ![c] = "closed"]
         /\ sock' \in [Conns -> {"none", "open", "closed"}]
         /\ client' \in Conns \cup {0} /\ clients' \subseteq Conns
         /\ client = c => client' = 0 /\ clients' = clients
         /\ client # c => client' = client /\ clients' = clients \ {c}
<1>1. /\ toDev' \in [Conns -> Seq(Parcels)]
      /\ \A d \in Conns : toDev'[d] \in {<<>>, toDev[d]}
  BY DEF Close, NetTyped
<1>2. client' \in {0, client}
  BY DEF Close
<1>3. Hello' BY <1>1, <1>2, HelloLess
<1> QED BY <1>1, <1>3 DEF Close, DeviceTyped

\* Its connection is no longer the client nor waits.
LEMMA CloseLinked ==
  ASSUME DeviceTyped, NetTyped, Hello, Linked, NEW c \in Conns, Close(c), UNCHANGED <<mux, tasks>>
  PROVE  Linked'
<1>1. c # 0 /\ \A d \in Conns : d # 0 BY ConnsAreNumbers
<1>2. \A d \in Conns : sock'[d] = IF d = c THEN "closed" ELSE sock[d]
  BY CloseTrack DEF DeviceTyped
<1>3. \A d \in Conns : sock[d] = "open" <=> (d = client \/ d \in clients)
  BY DEF Linked
<1>4. CASE client = c
  <2>1. client' = 0 /\ clients' = clients /\ c \notin clients
    BY <1>4, CloseTrack DEF Linked
  <2>2. \A d \in Conns : sock'[d] = "open" <=> (d = client' \/ d \in clients')
    BY <1>1, <1>2, <1>3, <1>4, <2>1
  <2>3. client' \notin clients'
    BY <1>1, <2>1 DEF DeviceTyped
  <2> QED BY <2>2, <2>3 DEF Linked
<1>5. CASE client # c
  <2>1. client' = client /\ clients' = clients \ {c}
    BY <1>5, CloseTrack
  <2>2. \A d \in Conns : sock'[d] = "open" <=> (d = client' \/ d \in clients')
    BY <1>2, <1>3, <1>5, <2>1
  <2>3. client' \notin clients'
    BY <2>1 DEF Linked
  <2> QED BY <2>2, <2>3 DEF Linked
<1> QED BY <1>4, <1>5

LEMMA CloseTracking ==
  ASSUME DeviceTyped, NetTyped, Hello, Tracking, NEW c \in Conns, Close(c), UNCHANGED <<mux, tasks>>,
         UNCHANGED <<listening, prog, raced>>
  PROVE  Tracking'
BY CloseLinked, CloseTrack, ConnsAreNumbers DEF Tracking

-----------------------------------------------------------------------------
(* The callbacks of the device.                                            *)

LEMMA AcceptStep ==
  ASSUME TrackInv, NEW c \in Conns, Accept(c)
  PROVE  TrackInv'
<1> USE DEF TrackInv
<1>1. DeviceTyped'
  BY DEF Accept, DeviceTyped, SubsTyped, subVars
<1>2. MuxTyped' /\ Hello'
  BY HelloFrame DEF Accept, MuxTyped, muxVars, Hello
<1>3. NetTyped'
  <2>1. <<Plain("h")>> \in Seq(Parcels) BY PlainType DEF Kinds
  <2> QED BY <2>1, ToMuxType DEF Accept, NetTyped
<1>4. Tracking'
  BY DEF Accept, DeviceTyped, Tracking, Linked, history
<1> QED BY <1>1, <1>2, <1>3, <1>4

LEMMA ReadEOFStep ==
  ASSUME TrackInv, NEW c \in Conns, ReadEOF(c)
  PROVE  TrackInv'
<1> USE DEF TrackInv
<1>0. Close(c) /\ UNCHANGED <<mux, tasks>>
  BY DEF ReadEOF, muxVars
<1>1. DeviceTyped'
  BY <1>0, CloseTrack DEF ReadEOF, DeviceTyped, SubsTyped, subVars
<1>2. MuxTyped' /\ Hello' /\ NetTyped'
  BY <1>0, CloseTrack DEF ReadEOF, MuxTyped, muxVars, NetTyped
<1>4. Tracking'
  BY <1>0, CloseTracking DEF ReadEOF, history
<1> QED BY <1>1, <1>2, <1>4

\* The new client's connection was in clients, and the old client's is closed.
LEMMA OpenedStep ==
  ASSUME TrackInv, ~raced, NEW c \in Conns, Opened(c)
  PROVE  TrackInv'
<1> USE DEF TrackInv
<1>0. /\ Processing(c, "h") /\ Replace(c, "closed", Resubscriptions)
      /\ sock[c] = "open" /\ toDev[c] # <<>>
      /\ UNCHANGED <<listening, subVars, prog, muxVars>>
  BY DEF Opened, Replace, Processing, subVars
<1>1. client # c
  <2>1. toDev[c] \in Seq(Parcels) BY DEF NetTyped
  <2>2. 1 \in 1..Len(toDev[c]) /\ toDev[c][1].a = "h"
    BY <1>0, <2>1 DEF Processing
  <2> QED BY <2>2 DEF Hello
<1>2. /\ Taken(c) \in [Conns -> Seq(Parcels)]
      /\ toDev' \in [Conns -> Seq(Parcels)]
      /\ toDev'[c] = Taken(c)[c]
      /\ \A d \in Conns : d # c => toDev'[d] \in {<<>>, toDev[d]}
  <2>1. CASE client = 0
    BY <1>0, <2>1, TakenType DEF Replace
  <2>2. CASE client # 0
    <3>1. client \in Conns BY <2>2 DEF DeviceTyped
    <3>2. toDev' = [Taken(c) EXCEPT ![client] = <<>>] BY <1>0, <2>2 DEF Replace
    <3>3. <<>> \in Seq(Parcels) OBVIOUS
    <3> QED BY <1>0, <1>1, <3>1, <3>2, <3>3, TakenType
  <2> QED BY <2>1, <2>2
<1>3. DeviceTyped'
  BY <1>0 DEF Replace, DeviceTyped, SubsTyped, subVars
<1>4. MuxTyped'
  BY <1>0 DEF MuxTyped, muxVars
<1>5. NetTyped'
  BY <1>0, <1>2, ToMuxType, ResubscriptionsType DEF Replace, NetTyped
<1>6. Hello'
  <2> SUFFICES ASSUME NEW d \in Conns
      PROVE /\ mux'[d] = "off" => toDev'[d] = <<>> /\ tasks'[d] = <<>> /\ client' # d
            /\ \A k \in 1..Len(toDev'[d]) : toDev'[d][k].a = "h" => k = 1 /\ client' # d
    BY DEF Hello
  <2>0. UNCHANGED <<mux, tasks>> /\ client' = c BY <1>0 DEF muxVars, Replace
  <2>1. CASE d # c
    <3>1. CASE toDev'[d] = <<>> BY <2>0, <2>1, <3>1 DEF Hello
    <3>2. CASE toDev'[d] = toDev[d] BY <2>0, <2>1, <3>2 DEF Hello
    <3> QED BY <1>2, <2>1, <3>1, <3>2
  <2>2. CASE d = c
    <3>1. mux[c] # "off" BY <1>0 DEF Hello
    <3>2. toDev[c] \in Seq(Parcels) BY DEF NetTyped
    <3>3. \A k \in 1..Len(toDev'[c]) : k + 1 \in 1..Len(toDev[c]) /\ k + 1 # 1
      BY <1>0, <1>2, <3>2, TakenType
    <3>4. \A k \in 1..Len(toDev'[c]) : toDev'[c][k].a # "h"
      BY <1>0, <1>2, <3>3, TakenType DEF Hello
    <3> QED BY <2>0, <2>2, <3>1, <3>4
  <2> QED BY <2>1, <2>2
<1>7. Tracking'
  <2> SUFFICES ASSUME ~raced' PROVE Tracking' BY DEF Tracking
  <2>1. prog.at \notin {"stop", "stopping"} BY <1>0 DEF Replace
  <2>2. 0 \notin Conns BY ConnsAreNumbers
  <2> QED BY <1>0, <1>1, <2>1, <2>2 DEF Replace, DeviceTyped, Tracking, Linked
<1> QED BY <1>3, <1>4, <1>5, <1>6, <1>7

\* A message that changes no connection: it is taken, or c is stuck.
LEMMA HandledStep ==
  ASSUME TrackInv, NEW c \in Conns, NEW a, Processing(c, a), Stick(c) \/ Handles(c), Stays,
         SubsTyped'
  PROVE  TrackInv'
<1> USE DEF TrackInv
<1>0. /\ toDev[c] # <<>> /\ UNCHANGED <<listening, prog, muxVars>>
      /\ UNCHANGED <<sock, client, clients, fromDev, raced>>
  BY DEF Processing, Stays
<1>1. DeviceTyped' /\ MuxTyped' /\ Tracking'
  BY <1>0, TrackingFrame DEF DeviceTyped, MuxTyped, muxVars
<1>2. fromDev' \in [Conns -> Seq(Parcels)]
  BY <1>0 DEF NetTyped
<1>3. UNCHANGED <<mux, tasks>> BY <1>0 DEF muxVars
<1>4. CASE Stick(c)
  <2>1. /\ toDev' \in [Conns -> Seq(Parcels)]
        /\ \A d \in Conns : toDev'[d] \in {<<>>, toDev[d]}
    BY <1>4 DEF Stick, NetTyped
  <2>2. Hello' BY <1>0, <1>3, <2>1, HelloLess
  <2> QED BY <1>1, <1>2, <2>1, <2>2 DEF NetTyped
<1>5. CASE Handles(c)
  <2>0. toDev' = Taken(c) BY <1>5 DEF Handles
  <2>1. Hello' BY <1>0, <1>3, <2>0, HelloTaken
  <2>2. toDev' \in [Conns -> Seq(Parcels)] BY <1>0, <2>0, TakenType
  <2> QED BY <1>1, <1>2, <2>1, <2>2 DEF NetTyped
<1> QED BY <1>4, <1>5

LEMMA MessageStep ==
  ASSUME TrackInv, NEW c \in Conns, Message(c)
  PROVE  TrackInv'
<1>1. Processing(c, "m") /\ (Stick(c) \/ Handles(c)) /\ Stays /\ subs' = subs
  BY DEF Message
<1>2. SubsTyped' BY <1>1 DEF Processing, TrackInv, DeviceTyped, SubsTyped
<1> QED BY <1>1, <1>2, HandledStep

LEMMA PongStep ==
  ASSUME TrackInv, NEW c \in Conns, Pong(c)
  PROVE  TrackInv'
<1>1. Processing(c, "p") /\ (Stick(c) \/ Handles(c)) /\ Stays /\ subs' = subs
  BY DEF Pong
<1>2. SubsTyped' BY <1>1 DEF Processing, TrackInv, DeviceTyped, SubsTyped
<1> QED BY <1>1, <1>2, HandledStep

LEMMA RemovedStep ==
  ASSUME TrackInv, NEW c \in Conns, Removed(c)
  PROVE  TrackInv'
<1> DEFINE nr == Head(toDev[c]).nr
<1>1. /\ Processing(c, "mu") /\ (Stick(c) \/ Handles(c)) /\ Stays
      /\ subs' = subs \/ subs' = Without(subs, nr)
  BY DEF Removed
<1>2. SubsTyped BY DEF TrackInv, DeviceTyped
<1>3. UNCHANGED <<sub_nr, wishes>> BY <1>1 DEF Processing
<1>4. IsFiniteSet(DOMAIN subs \ {nr}) BY <1>2, FS_RemoveElement DEF SubsTyped
<1> HIDE DEF nr
<1>5. SubsTyped' BY <1>1, <1>2, <1>3, <1>4 DEF SubsTyped, Without
<1> QED BY <1>1, <1>5, HandledStep

-----------------------------------------------------------------------------
(* The main program of the device.                                         *)

\* A step of the program that neither begins nor ends a stop
LEMMA ProgramFrame ==
  ASSUME TrackInv, UNCHANGED <<connVars, muxVars, toDev>>, raced' = raced,
         fromDev' \in [Conns -> Seq(Parcels)],
         prog.at \in {"idle", "sending", "packing"},
         NEW at \in {"idle", "sending", "packing"}, NEW d \in Conns \cup {0}, NEW m \in Parcels,
         prog' = Doing(at, d, m),
         SubsTyped'
  PROVE  TrackInv'
<1> USE DEF TrackInv, connVars, muxVars
<1>1. DeviceTyped'
  BY DEF DeviceTyped, Doing
<1>2. MuxTyped' /\ NetTyped' /\ Hello'
  BY HelloFrame DEF MuxTyped, NetTyped, Hello
<1>3. Tracking'
  BY TrackingFrame DEF Doing
<1> QED BY <1>1, <1>2, <1>3

\* What Then leaves the program doing
LEMMA ThenDoing ==
  ASSUME NEW m \in Parcels, Then(m)
  PROVE  \E at \in {"idle", "sending", "packing"}, w \in Parcels : prog' = Doing(at, 0, w)
<1>1. Plain("none") \in Parcels BY PlainType DEF Kinds
<1> QED BY <1>1 DEF Then, Idle

\* A table with one more entry
LEMMA WithType ==
  ASSUME NEW f, NEW nr \in Int, NEW t, DOMAIN f \subseteq Int, IsFiniteSet(DOMAIN f)
  PROVE  /\ DOMAIN With(f, nr, t) \subseteq Int /\ IsFiniteSet(DOMAIN With(f, nr, t))
         /\ \A x \in DOMAIN With(f, nr, t) :
              With(f, nr, t)[x] = t \/ (x \in DOMAIN f /\ With(f, nr, t)[x] = f[x])
<1>1. IsFiniteSet(DOMAIN f \cup {nr}) BY FS_AddElement
<1> QED BY <1>1 DEF With

LEMMA SubscribeCallStep ==
  ASSUME TrackInv, NEW nr \in Int, SubscribeCall(nr), sub_nr' \in Int
  PROVE  TrackInv'
<1> USE DEF TrackInv
<1> DEFINE v == Head(wishes)
<1>1. wishes \in Seq(Wish) /\ wishes # <<>>
  BY DEF SubscribeCall, DeviceTyped, SubsTyped
<1>2. v \in Wish /\ wishes' \in Seq(Wish)
  BY <1>1 DEF SubscribeCall
<1>3. Enter(nr, v) BY DEF SubscribeCall
<1>4. MS(nr, v.t, v.r) \in Parcels
  BY <1>2, MsgType DEF MS, Wish, Named, Kinds
<1>5. /\ UNCHANGED <<connVars, muxVars, toDev, raced>> /\ prog.at = "idle"
      /\ fromDev' = fromDev
  BY DEF SubscribeCall, netVars
<1> HIDE DEF v
<1>6. PICK at \in {"idle", "sending", "packing"}, w \in Parcels : prog' = Doing(at, 0, w)
  BY <1>3, <1>4, ThenDoing DEF Enter
<1>7. SubsTyped'
  <2>1. subs' = With(subs, nr, v.t) /\ v.t \in Topics
    BY <1>2, <1>3 DEF Enter, Wish
  <2>2. SubsTyped BY DEF DeviceTyped
  <2>3. /\ DOMAIN subs' \subseteq Int /\ IsFiniteSet(DOMAIN subs')
        /\ \A x \in DOMAIN subs' : subs'[x] = v.t \/ (x \in DOMAIN subs /\ subs'[x] = subs[x])
    BY <2>1, <2>2, WithType DEF SubsTyped
  <2> QED BY <1>2, <2>1, <2>2, <2>3 DEF SubsTyped
<1> QED BY <1>5, <1>6, <1>7, ProgramFrame DEF NetTyped

LEMMA SubscribeStep ==
  ASSUME TrackInv, Subscribe \/ \E nr \in Chosen : SubscribeAs(nr)
  PROVE  TrackInv'
<1>1. sub_nr \in Int BY DEF TrackInv, DeviceTyped, SubsTyped
<1>2. CASE Subscribe
  BY <1>1, <1>2, SubscribeCallStep DEF Subscribe
<1>3. CASE \E nr \in Chosen : SubscribeAs(nr)
  BY <1>1, <1>3, SubscribeCallStep, PubSubAssumption DEF SubscribeAs
<1> QED BY <1>2, <1>3

LEMMA UnsubscribeStep ==
  ASSUME TrackInv, NEW nr \in DOMAIN subs, Unsubscribe(nr)
  PROVE  TrackInv'
<1> USE DEF TrackInv
<1>1. MU(nr) \in Parcels
  <2>1. nr \in Int /\ 0 \in Int /\ NoTopic \in Named /\ "mu" \in Kinds /\ FALSE \in BOOLEAN
    BY DEF DeviceTyped, SubsTyped, Named, Kinds
  <2> QED BY <2>1, MsgType DEF MU
<1>2. PICK at \in {"idle", "sending", "packing"}, w \in Parcels : prog' = Doing(at, 0, w)
  BY <1>1, ThenDoing DEF Unsubscribe
<1>3. SubsTyped'
  BY FS_RemoveElement DEF Unsubscribe, Without, DeviceTyped, SubsTyped
<1>4. /\ UNCHANGED <<connVars, muxVars, toDev, raced>> /\ prog.at = "idle"
      /\ fromDev' = fromDev
  BY DEF Unsubscribe, netVars, history
<1> QED BY <1>2, <1>3, <1>4, ProgramFrame DEF NetTyped

LEMMA PublishStep ==
  ASSUME TrackInv, NEW t \in Topics, Publish(t)
  PROVE  TrackInv'
<1> USE DEF TrackInv
<1>1. Msg("m", 0, t, FALSE, 0) \in Parcels
  BY DEF Msg, Parcels, Named, Kinds
<1>2. PICK at \in {"idle", "sending", "packing"}, w \in Parcels : prog' = Doing(at, 0, w)
  BY <1>1, ThenDoing DEF Publish
<1>3. /\ UNCHANGED <<connVars, subVars, muxVars, toDev, raced>> /\ prog.at = "idle"
      /\ fromDev' = fromDev
  BY DEF Publish, history
<1>4. SubsTyped'
  BY <1>3 DEF DeviceTyped, SubsTyped, subVars
<1> QED BY <1>2, <1>3, <1>4, ProgramFrame DEF NetTyped

LEMMA SendStep ==
  ASSUME TrackInv, SendBegin \/ SendEnd
  PROVE  TrackInv'
<1> USE DEF TrackInv
<1>1. prog.m \in Parcels /\ prog.c \in Conns \cup {0} /\ client \in Conns \cup {0}
  BY DEF DeviceTyped
<1>2. Plain("none") \in Parcels BY PlainType DEF Kinds
<1>3. PICK at \in {"idle", "sending", "packing"}, d \in Conns \cup {0}, w \in Parcels :
        prog' = Doing(at, d, w)
  BY <1>1, <1>2 DEF SendBegin, SendEnd, Idle
<1>4. /\ UNCHANGED <<connVars, subVars, muxVars, toDev, raced>>
      /\ prog.at \in {"sending", "packing"}
  BY DEF SendBegin, SendEnd, netVars, history
<1>5. SubsTyped'
  BY <1>4 DEF DeviceTyped, SubsTyped, subVars
<1>6. fromDev' \in [Conns -> Seq(Parcels)]
  <2>1. CASE fromDev' = fromDev BY <2>1 DEF NetTyped
  <2>2. CASE sock[prog.c] = "open" /\ fromDev' = ToMux(prog.c, <<prog.m>>)
    <3>1. <<prog.m>> \in Seq(Parcels) BY <1>1
    <3>2. CASE prog.c \in Conns BY <2>2, <3>1, <3>2, ToMuxType
    <3>3. CASE prog.c \notin Conns
      <4>1. prog.c \notin DOMAIN fromDev BY <3>3 DEF NetTyped
      <4>2. [fromDev EXCEPT ![prog.c] = @ \o <<prog.m>>] = fromDev
        BY <4>1 DEF NetTyped
      <4> QED BY <2>2, <4>2 DEF ToMux, NetTyped
    <3> QED BY <3>2, <3>3
  <2> QED BY <2>1, <2>2 DEF SendBegin, SendEnd, netVars
<1> QED BY <1>3, <1>4, <1>5, <1>6, ProgramFrame

\* What the program does while it stops leaves the types alone.
LEMMA StopFrame ==
  ASSUME TrackInv, UNCHANGED <<subVars, muxVars, fromDev>>,
         NEW at \in {"idle", "stop", "stopping"}, NEW m \in Parcels,
         prog' \in {prog, Doing(at, 0, m)},
         \/ \E c \in Conns : Close(c)
         \/ UNCHANGED <<sock, clients, toDev>> /\ client' \in {0, client}
  PROVE  DeviceTyped' /\ MuxTyped' /\ NetTyped' /\ Hello'
<1> USE DEF TrackInv
<1>1. UNCHANGED <<mux, tasks, broker>> BY DEF muxVars
<1>2. prog' \in [at : {"idle", "sending", "packing", "stop", "stopping"},
                 c : Conns \cup {0}, m : Parcels]
  BY DEF DeviceTyped, Doing
<1>3. CASE \E c \in Conns : Close(c)
  BY <1>1, <1>2, <1>3, CloseTrack DEF DeviceTyped, SubsTyped, MuxTyped, NetTyped, subVars
<1>4. CASE UNCHANGED <<sock, clients, toDev>> /\ client' \in {0, client}
  <2>1. Hello' BY <1>1, <1>4, HelloLess
  <2> QED BY <1>1, <1>2, <1>4, <2>1 DEF DeviceTyped, SubsTyped, MuxTyped, NetTyped, subVars
<1> QED BY <1>3, <1>4

LEMMA StopBeginStep ==
  ASSUME TrackInv, StopBegin
  PROVE  TrackInv'
<1> USE DEF TrackInv
<1>0. Idle.m \in Parcels BY PlainType DEF Idle, Doing, Kinds
<1>1. /\ UNCHANGED <<subVars, muxVars, fromDev, raced>> /\ ~listening'
      /\ prog.at = "idle" /\ listening
  BY DEF StopBegin, history
<1>2. CASE client = 0
  <2>1. prog' = Doing("stopping", 0, Idle.m) /\ UNCHANGED <<sock, client, clients, toDev>>
    BY <1>2 DEF StopBegin
  <2>2. DeviceTyped' /\ MuxTyped' /\ NetTyped' /\ Hello'
    BY <1>0, <1>1, <2>1, StopFrame
  <2>3. Tracking' BY <1>1, <1>2, <2>1 DEF Tracking, Linked, Doing
  <2> QED BY <2>2, <2>3
<1>3. CASE client # 0
  <2>1. prog' = Doing("stop", 0, Idle.m) /\ Close(client) /\ client \in Conns
    BY <1>3 DEF StopBegin, DeviceTyped
  <2>2. DeviceTyped' /\ MuxTyped' /\ NetTyped' /\ Hello'
    BY <1>0, <1>1, <2>1, StopFrame
  <2>3. Tracking'
    <3>1. UNCHANGED <<mux, tasks>> BY <1>1 DEF muxVars
    <3>2. Linked => Linked' BY <2>1, <3>1, CloseLinked
    <3>3. client' = 0 BY <2>1 DEF Close
    <3> QED BY <1>1, <2>1, <3>2, <3>3 DEF Tracking, Doing
  <2> QED BY <2>2, <2>3
<1> QED BY <1>2, <1>3

LEMMA StopClearsStep ==
  ASSUME TrackInv, StopClears
  PROVE  TrackInv'
<1> USE DEF TrackInv
<1>0. Idle.m \in Parcels BY PlainType DEF Idle, Doing, Kinds
<1>1. /\ UNCHANGED <<subVars, muxVars, fromDev, raced, listening, sock, clients, toDev>>
      /\ prog.at = "stop" /\ prog' = Doing("stopping", 0, Idle.m) /\ client' = 0
  BY DEF StopClears, netVars, history
<1>2. DeviceTyped' /\ MuxTyped' /\ NetTyped' /\ Hello'
  BY <1>0, <1>1, StopFrame
<1>3. Tracking'
  BY <1>1 DEF Tracking, Linked, Doing
<1> QED BY <1>2, <1>3

LEMMA StopLoopStep ==
  ASSUME TrackInv, StopLoop
  PROVE  TrackInv'
<1> USE DEF TrackInv
<1>0. Plain("none") \in Parcels BY PlainType DEF Kinds
<1>1. UNCHANGED <<subVars, muxVars, fromDev, raced, listening>> /\ prog.at = "stopping"
  BY DEF StopLoop, history
<1>2. CASE clients = {}
  <2>1. prog' = Doing("idle", 0, Plain("none")) /\ UNCHANGED <<sock, client, clients, toDev>>
    BY <1>2 DEF StopLoop, Idle
  <2>2. DeviceTyped' /\ MuxTyped' /\ NetTyped' /\ Hello'
    BY <1>0, <1>1, <2>1, StopFrame
  <2>3. Tracking'
    BY <1>1, <1>2, <2>1 DEF Tracking, Linked, Doing
  <2> QED BY <2>2, <2>3
<1>3. CASE clients # {}
  <2>1. PICK c \in clients : Close(c)
    BY <1>3 DEF StopLoop
  <2>2. c \in Conns /\ prog' = prog
    BY <1>3, <2>1 DEF StopLoop, DeviceTyped
  <2>3. DeviceTyped' /\ MuxTyped' /\ NetTyped' /\ Hello'
    BY <1>0, <1>1, <2>1, <2>2, StopFrame
  <2>4. UNCHANGED <<mux, tasks>> BY <1>1 DEF muxVars
  <2>5. Tracking' BY <1>1, <2>1, <2>2, <2>4, CloseTracking
  <2> QED BY <2>3, <2>5
<1> QED BY <1>2, <1>3

LEMMA StartStep ==
  ASSUME TrackInv, Start
  PROVE  TrackInv'
<1> USE DEF TrackInv
<1>1. DeviceTyped' /\ MuxTyped' /\ NetTyped' /\ Hello'
  BY DeviceFrame, HelloFrame DEF Start, MuxTyped, NetTyped, Hello, netVars, muxVars
<1>2. Tracking'
  BY DEF Start, Tracking, Linked, history
<1> QED BY <1>1, <1>2

-----------------------------------------------------------------------------
(* The multiplexers.                                                       *)

\* A step of a multiplexer that puts nothing into a channel to the device
LEMMA MuxFrame ==
  ASSUME TrackInv, UNCHANGED <<devVars, toDev>>, raced' = raced,
         mux' \in [Conns -> {"off", "init", "up", "ended"}],
         tasks' \in [Conns -> Seq(Task)], broker' \in Int,
         fromDev' \in [Conns -> Seq(Parcels)],
         \A c \in Conns : mux'[c] = "off" => mux[c] = "off" /\ tasks'[c] = tasks[c]
  PROVE  TrackInv'
<1> USE DEF TrackInv, devVars, connVars
<1>1. DeviceTyped' BY DeviceFrame
<1>2. MuxTyped' /\ NetTyped' BY DEF MuxTyped, NetTyped
<1>3. Hello' BY DEF Hello
<1>4. Tracking' BY TrackingFrame
<1> QED BY <1>1, <1>2, <1>3, <1>4

LEMMA MuxConnectStep ==
  ASSUME TrackInv, NEW c \in Conns, MuxConnect(c)
  PROVE  TrackInv'
<1> USE DEF TrackInv
<1>0. Plain("h") \in Parcels BY PlainType DEF Kinds
<1>1. /\ UNCHANGED <<devVars, tasks, broker, fromDev, raced>>
      /\ mux[c] = "off" /\ mux' = [mux EXCEPT ![c] = "init"]
      /\ toDev' = ToDevice(c, Plain("h"))
  BY DEF MuxConnect, history
<1>2. UNCHANGED connVars /\ UNCHANGED subVars /\ prog' = prog
  BY <1>1 DEF devVars
<1>3. DeviceTyped' /\ Tracking'
  BY <1>1, <1>2, DeviceFrame, TrackingFrame DEF connVars
<1>4. MuxTyped' BY <1>1 DEF MuxTyped
<1>5. NetTyped' BY <1>0, <1>1, ToDeviceType DEF NetTyped
<1>6. Hello' BY <1>0, <1>1, <1>2, ToDeviceHello DEF connVars
<1> QED BY <1>3, <1>4, <1>5, <1>6

LEMMA MuxEndStep ==
  ASSUME TrackInv, NEW c \in Conns, MuxEnd(c)
  PROVE  TrackInv'
<1>1. /\ UNCHANGED <<devVars, toDev, raced, broker>>
      /\ mux' = [mux EXCEPT ![c] = "ended"]
      /\ tasks' = [tasks EXCEPT ![c] = <<>>]
      /\ fromDev' = [fromDev EXCEPT ![c] = <<>>]
  BY DEF MuxEnd, Ends, history
<1>2. <<>> \in Seq(Task) /\ <<>> \in Seq(Parcels) OBVIOUS
<1>3. /\ mux' \in [Conns -> {"off", "init", "up", "ended"}]
      /\ tasks' \in [Conns -> Seq(Task)] /\ broker' \in Int
      /\ fromDev' \in [Conns -> Seq(Parcels)]
      /\ \A d \in Conns : mux'[d] = "off" => mux[d] = "off" /\ tasks'[d] = tasks[d]
  BY <1>1, <1>2 DEF TrackInv, MuxTyped, NetTyped
<1> QED BY <1>1, <1>3, MuxFrame

\* What Reading leaves, and what it takes
LEMMA ReadingTyped ==
  ASSUME TrackInv, NEW c \in Conns, NEW a, Reading(c, a)
  PROVE  /\ UNCHANGED <<devVars, toDev>> /\ raced' = raced
         /\ fromDev' \in [Conns -> Seq(Parcels)]
         /\ Head(fromDev[c]) \in Parcels
         /\ mux[c] # "off" /\ mux[c] # "ended"
<1>1. fromDev[c] \in Seq(Parcels) /\ fromDev[c] # <<>>
  BY DEF TrackInv, NetTyped, Reading
<1>2. Head(fromDev[c]) \in Parcels /\ Tail(fromDev[c]) \in Seq(Parcels)
  BY <1>1
<1> QED BY <1>2 DEF Reading, TrackInv, NetTyped

LEMMA MuxHelloStep ==
  ASSUME TrackInv, NEW c \in Conns, MuxHello(c)
  PROVE  TrackInv'
<1>1. /\ UNCHANGED <<devVars, toDev>> /\ raced' = raced
      /\ fromDev' \in [Conns -> Seq(Parcels)]
      /\ UNCHANGED <<tasks, broker>>
      /\ mux' \in {mux, [mux EXCEPT ![c] = "up"]}
  BY ReadingTyped DEF MuxHello
<1>2. /\ mux' \in [Conns -> {"off", "init", "up", "ended"}]
      /\ tasks' \in [Conns -> Seq(Task)] /\ broker' \in Int
      /\ \A d \in Conns : mux'[d] = "off" => mux[d] = "off" /\ tasks'[d] = tasks[d]
  BY <1>1 DEF TrackInv, MuxTyped
<1> QED BY <1>1, <1>2, MuxFrame

LEMMA MuxMSStep ==
  ASSUME TrackInv, NEW c \in Conns, MuxMS(c)
  PROVE  TrackInv'
<1> DEFINE m == Head(fromDev[c])
           task == [nr |-> m.nr, t |-> m.t, r |-> m.r, on |-> "on", q |-> <<>>]
<1>1. /\ UNCHANGED <<devVars, toDev>> /\ raced' = raced
      /\ fromDev' \in [Conns -> Seq(Parcels)] /\ m \in Parcels /\ mux[c] # "off"
  BY ReadingTyped DEF MuxMS
<1>2. UNCHANGED <<mux, broker>> /\ tasks' = [tasks EXCEPT ![c] = Append(@, task)]
  BY DEF MuxMS
<1>3. task \in Task
  <2>1. <<>> \in Seq(Copies) OBVIOUS
  <2> QED BY <1>1, <2>1 DEF Task, Parcels
<1>4. tasks[c] \in Seq(Task) BY DEF TrackInv, MuxTyped
<1>5. Append(tasks[c], task) \in Seq(Task) BY <1>3, <1>4
<1>6. /\ mux' \in [Conns -> {"off", "init", "up", "ended"}]
      /\ tasks' \in [Conns -> Seq(Task)] /\ broker' \in Int
      /\ \A d \in Conns : mux'[d] = "off" => mux[d] = "off" /\ tasks'[d] = tasks[d]
  BY <1>1, <1>2, <1>5 DEF TrackInv, MuxTyped
<1> HIDE DEF m, task
<1> QED BY <1>1, <1>6, MuxFrame

LEMMA MuxRefusedStep ==
  ASSUME TrackInv, NEW c \in Conns, MuxRefused(c)
  PROVE  TrackInv'
<1>1. /\ UNCHANGED <<devVars, toDev>> /\ raced' = raced
      /\ fromDev' \in [Conns -> Seq(Parcels)]
      /\ UNCHANGED <<mux, tasks, broker>>
  BY ReadingTyped DEF MuxRefused
<1>2. /\ mux' \in [Conns -> {"off", "init", "up", "ended"}]
      /\ tasks' \in [Conns -> Seq(Task)] /\ broker' \in Int
      /\ \A d \in Conns : mux'[d] = "off" => mux[d] = "off" /\ tasks'[d] = tasks[d]
  BY <1>1 DEF TrackInv, MuxTyped
<1> QED BY <1>1, <1>2, MuxFrame

\* A task that is set in its place, if there is one
LEMMA TasksWith ==
  ASSUME MuxTyped, NEW c \in Conns, NEW k, NEW f,
         k \in DOMAIN tasks[c] => f \in Task,
         tasks' = [tasks EXCEPT ![c] = [tasks[c] EXCEPT ![k] = f]]
  PROVE  /\ tasks' \in [Conns -> Seq(Task)]
         /\ \A d \in Conns : d # c => tasks'[d] = tasks[d]
<1>1. tasks[c] \in Seq(Task) BY DEF MuxTyped
<1>2. CASE k \in DOMAIN tasks[c]
  <2>1. [tasks[c] EXCEPT ![k] = f] \in Seq(Task) BY <1>1, <1>2
  <2> QED BY <2>1 DEF MuxTyped
<1>3. CASE k \notin DOMAIN tasks[c]
  <2>1. [tasks[c] EXCEPT ![k] = f] = tasks[c] BY <1>1, <1>3
  <2> QED BY <2>1 DEF MuxTyped
<1> QED BY <1>2, <1>3

\* A multiplexer without tasks has not been started, or has tasks none the less
LEMMA TasksFrame ==
  ASSUME TrackInv, NEW c \in Conns, mux[c] # "off", UNCHANGED <<devVars, toDev>>, raced' = raced,
         UNCHANGED <<mux, broker>>, fromDev' \in [Conns -> Seq(Parcels)],
         NEW k, NEW f, k \in DOMAIN tasks[c] => f \in Task,
         tasks' = [tasks EXCEPT ![c] = [tasks[c] EXCEPT ![k] = f]]
  PROVE  TrackInv'
<1>1. /\ tasks' \in [Conns -> Seq(Task)]
      /\ \A d \in Conns : d # c => tasks'[d] = tasks[d]
  BY TasksWith DEF TrackInv
<1>2. /\ mux' \in [Conns -> {"off", "init", "up", "ended"}] /\ broker' \in Int
      /\ \A d \in Conns : mux'[d] = "off" => mux[d] = "off" /\ tasks'[d] = tasks[d]
  BY <1>1 DEF TrackInv, MuxTyped
<1> QED BY <1>1, <1>2, MuxFrame

LEMMA MuxMUStep ==
  ASSUME TrackInv, NEW c \in Conns, MuxMU(c)
  PROVE  TrackInv'
<1> DEFINE k == msubs[c][Head(fromDev[c]).nr]
           f == [tasks[c][k] EXCEPT !.on = "leaving"]
<1>1. /\ UNCHANGED <<devVars, toDev>> /\ raced' = raced /\ mux[c] # "off"
      /\ fromDev' \in [Conns -> Seq(Parcels)] /\ UNCHANGED <<mux, broker>>
  BY ReadingTyped DEF MuxMU
<1>2. CASE tasks' = tasks
  <2>1. /\ mux' \in [Conns -> {"off", "init", "up", "ended"}]
        /\ tasks' \in [Conns -> Seq(Task)] /\ broker' \in Int
        /\ \A d \in Conns : mux'[d] = "off" => mux[d] = "off" /\ tasks'[d] = tasks[d]
    BY <1>1, <1>2 DEF TrackInv, MuxTyped
  <2> QED BY <1>1, <2>1, MuxFrame
<1>3. CASE tasks' = [tasks EXCEPT ![c][k].on = "leaving"]
  <2>1. tasks' = [tasks EXCEPT ![c] = [tasks[c] EXCEPT ![k] = f]]
    BY <1>3
  <2>2. tasks[c] \in Seq(Task) BY DEF TrackInv, MuxTyped
  <2>3. ASSUME k \in DOMAIN tasks[c] PROVE f \in Task
    <3>1. tasks[c][k] \in Task BY <2>2, <2>3
    <3> QED BY <3>1 DEF Task
  <2> HIDE DEF k, f
  <2> QED BY <1>1, <2>1, <2>3, TasksFrame
<1> QED BY <1>2, <1>3 DEF MuxMU

\* A task that is left, or ends
LEMMA BecomesTyped ==
  ASSUME TrackInv, NEW c \in Conns, NEW k \in DOMAIN tasks[c], NEW on \in {"on", "leaving", "ended"},
         Becomes(c, k, on)
  PROVE  /\ UNCHANGED <<devVars, mux, broker, fromDev>> /\ raced' = raced
         /\ mux[c] # "off" /\ tasks[c][k] \in Task
         /\ [tasks[c][k] EXCEPT !.on = on, !.q = <<>>] \in Task
         /\ tasks' = [tasks EXCEPT ![c] = [tasks[c] EXCEPT ![k] =
                         [tasks[c][k] EXCEPT !.on = on, !.q = <<>>]]]
<1>1. tasks[c] \in Seq(Task) /\ tasks[c] # <<>>
  BY DEF TrackInv, MuxTyped
<1>2. mux[c] # "off" BY <1>1 DEF TrackInv, Hello
<1>3. tasks[c][k] \in Task BY <1>1
<1>4. tasks' = [tasks EXCEPT ![c] = [tasks[c] EXCEPT ![k] =
                  [tasks[c][k] EXCEPT !.on = on, !.q = <<>>]]]
  BY <1>1, <1>3 DEF Becomes, TrackInv, MuxTyped, Task
<1>5. [tasks[c][k] EXCEPT !.on = on, !.q = <<>>] \in Task
  <2>1. <<>> \in Seq(Copies) OBVIOUS
  <2> QED BY <1>3, <2>1 DEF Task
<1>6. UNCHANGED <<devVars, mux, broker, fromDev>> /\ raced' = raced
  BY DEF Becomes, history
<1> QED BY <1>2, <1>3, <1>4, <1>5, <1>6

LEMMA TaskEndsStep ==
  ASSUME TrackInv, NEW c \in Conns, NEW k \in DOMAIN tasks[c], TaskEnds(c, k)
  PROVE  TrackInv'
<1> DEFINE f == [tasks[c][k] EXCEPT !.on = "ended", !.q = <<>>]
<1>1. Becomes(c, k, "ended") /\ toDev' = toDev
  BY DEF TaskEnds
<1>2. /\ UNCHANGED <<devVars, toDev>> /\ raced' = raced /\ UNCHANGED <<mux, broker>>
      /\ fromDev' = fromDev /\ mux[c] # "off" /\ f \in Task
      /\ tasks' = [tasks EXCEPT ![c] = [tasks[c] EXCEPT ![k] = f]]
  BY <1>1, BecomesTyped
<1>3. fromDev' \in [Conns -> Seq(Parcels)] BY <1>2 DEF TrackInv, NetTyped
<1> HIDE DEF f
<1> QED BY <1>2, <1>3, TasksFrame

\* Deliver appends to the queues of tasks.
LEMMA DeliverTyped ==
  ASSUME MuxTyped, NEW t \in Named, Deliver(t)
  PROVE  /\ tasks' \in [Conns -> Seq(Task)] /\ broker' \in Int
         /\ \A c \in Conns : tasks[c] = <<>> => tasks'[c] = <<>>
<1> DEFINE M(c, k) == Msg("m", tasks[c][k].nr, t, FALSE, broker')
<1>1. broker' \in Int BY DEF Deliver, MuxTyped
<1>2. ASSUME NEW c \in Conns
      PROVE  /\ tasks'[c] \in Seq(Task) /\ DOMAIN tasks'[c] = DOMAIN tasks[c]
             /\ tasks[c] = <<>> => tasks'[c] = <<>>
  <2>1. tasks[c] \in Seq(Task) BY DEF MuxTyped
  <2>2. DOMAIN tasks[c] = 1..Len(tasks[c]) /\ Len(tasks[c]) \in Nat BY <2>1
  <2>3. ASSUME NEW k \in DOMAIN tasks[c]
        PROVE  (IF tasks[c][k].on = "on" /\ tasks[c][k].t = t
                THEN [tasks[c][k] EXCEPT !.q = Append(@, M(c, k))]
                ELSE tasks[c][k]) \in Task
    <3>1. tasks[c][k] \in Task BY <2>1
    <3>2. M(c, k) \in Copies BY <1>1, <3>1 DEF Msg, Copies, Task
    <3>3. tasks[c][k].q \in Seq(Copies) BY <3>1 DEF Task
    <3>4. Append(tasks[c][k].q, M(c, k)) \in Seq(Copies)
      <4> HIDE DEF M
      <4> QED BY <3>2, <3>3
    <3> QED BY <3>1, <3>4 DEF Task
  <2>4. tasks'[c] = [k \in DOMAIN tasks[c] |->
                       IF tasks[c][k].on = "on" /\ tasks[c][k].t = t
                       THEN [tasks[c][k] EXCEPT !.q = Append(@, M(c, k))]
                       ELSE tasks[c][k]]
    BY DEF Deliver
  <2>5. tasks'[c] \in [1..Len(tasks[c]) -> Task] BY <2>2, <2>3, <2>4
  <2>6. tasks'[c] \in Seq(Task) /\ Len(tasks'[c]) = Len(tasks[c]) BY <2>2, <2>5
  <2>7. DOMAIN tasks'[c] = DOMAIN tasks[c] BY <2>2, <2>5
  <2>8. tasks[c] = <<>> => tasks'[c] = <<>> BY <2>1, <2>6
  <2> QED BY <2>6, <2>7, <2>8
<1>3. tasks' = [c \in Conns |-> tasks'[c]] BY DEF Deliver
<1> QED BY <1>1, <1>2, <1>3

\* A message of the broker's
LEMMA DeliverFrame ==
  ASSUME TrackInv, NEW t \in Named, Deliver(t), UNCHANGED <<devVars, toDev, mux>>, raced' = raced,
         fromDev' \in [Conns -> Seq(Parcels)]
  PROVE  TrackInv'
<1>1. /\ tasks' \in [Conns -> Seq(Task)] /\ broker' \in Int
      /\ \A c \in Conns : tasks[c] = <<>> => tasks'[c] = <<>>
  BY DeliverTyped DEF TrackInv
<1>2. /\ mux' \in [Conns -> {"off", "init", "up", "ended"}]
      /\ \A c \in Conns : mux'[c] = "off" => mux[c] = "off" /\ tasks'[c] = tasks[c]
  BY <1>1 DEF TrackInv, MuxTyped, Hello
<1> QED BY <1>1, <1>2, MuxFrame

LEMMA MuxMStep ==
  ASSUME TrackInv, NEW c \in Conns, MuxM(c)
  PROVE  TrackInv'
<1>1. /\ UNCHANGED <<devVars, toDev>> /\ raced' = raced
      /\ fromDev' \in [Conns -> Seq(Parcels)] /\ Head(fromDev[c]) \in Parcels
  BY ReadingTyped DEF MuxM
<1>2. Head(fromDev[c]).t \in Named /\ Deliver(Head(fromDev[c]).t) /\ mux' = mux
  BY <1>1 DEF MuxM, Parcels
<1> QED BY <1>1, <1>2, DeliverFrame

LEMMA OtherStep ==
  ASSUME TrackInv, NEW t \in Topics, Other(t)
  PROVE  TrackInv'
<1>1. t \in Named BY DEF Named
<1>2. /\ Deliver(t) /\ UNCHANGED <<devVars, toDev, mux>> /\ raced' = raced
      /\ fromDev' \in [Conns -> Seq(Parcels)]
  BY DEF Other, history, TrackInv, NetTyped
<1> QED BY <1>1, <1>2, DeliverFrame

\* A message other than h goes to a device's channel.
LEMMA SentFrame ==
  ASSUME TrackInv, NEW c \in Conns, mux[c] # "off", NEW m \in Parcels, m.a # "h",
         toDev' = ToDevice(c, m), UNCHANGED <<devVars, mux, broker, fromDev>>, raced' = raced,
         tasks' \in [Conns -> Seq(Task)],
         \A d \in Conns : d # c => tasks'[d] = tasks[d]
  PROVE  TrackInv'
<1> USE DEF TrackInv
<1>1. DeviceTyped' /\ Tracking'
  BY DeviceFrame, TrackingFrame DEF devVars, connVars
<1>2. MuxTyped' BY DEF MuxTyped
<1>3. NetTyped' BY ToDeviceType DEF NetTyped
<1>4. client' = client BY DEF devVars, connVars
<1>5. Hello' BY <1>4, ToDeviceHello
<1> QED BY <1>1, <1>2, <1>3, <1>5

LEMMA ForwardStep ==
  ASSUME TrackInv, NEW c \in Conns, NEW k \in DOMAIN tasks[c], Forward(c, k)
  PROVE  TrackInv'
<1> DEFINE m == Head(tasks[c][k].q)
           f == [tasks[c][k] EXCEPT !.q = Tail(@)]
<1>1. tasks[c] \in Seq(Task) /\ tasks[c] # <<>> BY DEF TrackInv, MuxTyped
<1>2. mux[c] # "off" BY <1>1 DEF TrackInv, Hello
<1>3. tasks[c][k] \in Task BY <1>1
<1>4. tasks[c][k].q \in Seq(Copies) /\ tasks[c][k].q # <<>>
  BY <1>3 DEF Task, Forward
<1>5. m \in Copies /\ Tail(tasks[c][k].q) \in Seq(Copies) BY <1>4
<1>6. m \in Parcels /\ m.a # "h" BY <1>5 DEF Copies, Parcels, Kinds
<1>7. f \in Task BY <1>3, <1>5 DEF Task
<1>8. tasks' = [tasks EXCEPT ![c] = [tasks[c] EXCEPT ![k] = f]]
  BY <1>1, <1>3 DEF Forward, TrackInv, MuxTyped, Task
<1>9. /\ toDev' = ToDevice(c, m) /\ UNCHANGED <<devVars, mux, broker, fromDev>>
      /\ raced' = raced
  BY DEF Forward, history
<1> HIDE DEF m, f
<1>10. /\ tasks' \in [Conns -> Seq(Task)]
       /\ \A d \in Conns : d # c => tasks'[d] = tasks[d]
  BY <1>7, <1>8, TasksWith DEF TrackInv
<1> QED BY <1>2, <1>6, <1>9, <1>10, SentFrame

LEMMA TaskFailsStep ==
  ASSUME TrackInv, NEW c \in Conns, NEW k \in DOMAIN tasks[c], TaskFails(c, k)
  PROVE  TrackInv'
<1> DEFINE f == [tasks[c][k] EXCEPT !.on = "leaving", !.q = <<>>]
           m == MU(tasks[c][k].nr)
<1>1. Becomes(c, k, "leaving") /\ toDev' = ToDevice(c, m)
  BY DEF TaskFails
<1>2. /\ UNCHANGED <<devVars, mux, broker, fromDev>> /\ raced' = raced
      /\ mux[c] # "off" /\ tasks[c][k] \in Task /\ f \in Task
      /\ tasks' = [tasks EXCEPT ![c] = [tasks[c] EXCEPT ![k] = f]]
  BY <1>1, BecomesTyped
<1>3. m \in Parcels /\ m.a # "h"
  BY <1>2 DEF MU, Msg, Task, Parcels, Kinds, Named
<1> HIDE DEF m, f
<1>4. /\ tasks' \in [Conns -> Seq(Task)]
      /\ \A d \in Conns : d # c => tasks'[d] = tasks[d]
  BY <1>2, TasksWith DEF TrackInv
<1> QED BY <1>1, <1>2, <1>3, <1>4, SentFrame

LEMMA PingStep ==
  ASSUME TrackInv, NEW c \in Conns, Ping(c)
  PROVE  TrackInv'
<1>1. Plain("p") \in Parcels /\ Plain("p").a # "h" BY PlainType DEF Kinds
<1>2. /\ toDev' = ToDevice(c, Plain("p")) /\ UNCHANGED <<devVars, mux, broker, fromDev, tasks>>
      /\ raced' = raced /\ mux[c] # "off"
  BY DEF Ping, muxVars, history
<1>3. tasks' \in [Conns -> Seq(Task)] BY <1>2 DEF TrackInv, MuxTyped
<1> QED BY <1>1, <1>2, <1>3, SentFrame

-----------------------------------------------------------------------------

LEMMA TrackStep == TrackInv /\ [Next]_vars => TrackInv'
<1> SUFFICES ASSUME TrackInv, [Next]_vars PROVE TrackInv' OBVIOUS
<1>1. CASE Next
  <2>1. ~raced /\ Steps BY <1>1 DEF Next
  <2>2. ASSUME NEW c \in Conns, Callbacks(c) PROVE TrackInv'
    BY <2>1, <2>2, AcceptStep, ReadEOFStep, OpenedStep, MessageStep, RemovedStep, PongStep
    DEF Callbacks
  <2>3. ASSUME NEW c \in Conns,
               \/ Tasks(c) \/ MuxConnect(c) \/ MuxEnd(c) \/ Ping(c)
               \/ \E k \in DOMAIN tasks[c] : TaskFails(c, k)
        PROVE  TrackInv'
    <3>1. CASE Tasks(c)
      BY <3>1, MuxHelloStep, MuxMSStep, MuxRefusedStep, MuxMUStep, MuxMStep, TaskEndsStep,
         ForwardStep DEF Tasks
    <3> QED BY <2>3, <3>1, MuxConnectStep, MuxEndStep, PingStep, TaskFailsStep
  <2>4. CASE \/ Program \/ StopBegin \/ Start
             \/ Subscribe \/ \E nr \in Chosen : SubscribeAs(nr)
             \/ \E nr \in DOMAIN subs : Unsubscribe(nr)
    BY <2>4, SendStep, StopBeginStep, StopClearsStep, StopLoopStep, StartStep,
       SubscribeStep, UnsubscribeStep DEF Program
  <2>5. CASE \E t \in Topics : Publish(t) \/ Other(t)
    BY <2>5, PublishStep, OtherStep
  <2> QED BY <2>1, <2>2, <2>3, <2>4, <2>5 DEF Steps
<1>2. CASE UNCHANGED vars
  <2>1. UNCHANGED <<connVars, subVars, prog, muxVars, netVars, history>>
    BY <1>2 DEF vars
  <2> QED BY <2>1 DEF TrackInv, DeviceTyped, SubsTyped, MuxTyped, NetTyped, Hello, Tracking, Linked,
                      connVars, subVars, muxVars, netVars, history
<1> QED BY <1>1, <1>2

\* Each open socket of the device is held in one place, the client or those
\* that wait, where stop finds and closes it: one connection at most serves,
\* unless an h arrives while stop runs (ufuse.py:489, :503).
THEOREM ConnectionsTracked == Spec => []Tracked
<1>1. TrackInv => Tracked
  BY DEF TrackInv, Tracking, Linked, Tracked
<1> QED BY <1>1, TrackInit, TrackStep, PTL DEF Spec

-----------------------------------------------------------------------------
(* Channels: what comes, when a message is taken or added.                 *)

LEMMA TailFacts ==
  ASSUME NEW ch \in Seq(Parcels), ch # <<>>
  PROVE  /\ Tail(ch) \in Seq(Parcels) /\ Len(ch) \in Nat \ {0}
         /\ Len(Tail(ch)) = Len(ch) - 1
         /\ Head(ch) = ch[1] /\ ch[1] \in Parcels
         /\ \A j \in 1..Len(ch) - 1 : Tail(ch)[j] = ch[j + 1]
OBVIOUS

LEMMA AppendFacts ==
  ASSUME NEW ch \in Seq(Parcels), NEW x \in Parcels
  PROVE  /\ Append(ch, x) \in Seq(Parcels) /\ Len(ch) \in Nat
         /\ Len(Append(ch, x)) = Len(ch) + 1 /\ Append(ch, x)[Len(ch) + 1] = x
         /\ \A j \in 1..Len(ch) : Append(ch, x)[j] = ch[j]
OBVIOUS

LEMMA ComesTail ==
  ASSUME NEW ch \in Seq(Parcels), ch # <<>>, NEW p, NEW a, NEW nr
  PROVE  /\ \A i \in Nat : Comes(ch, p, a, nr, i + 1) => Comes(Tail(ch), p, a, nr, i)
         /\ Comes(ch, p, a, nr, 0) => Is(Head(ch), a, nr) \/ Comes(Tail(ch), p, a, nr, 0)
<1>0. /\ Len(ch) \in Nat \ {0} /\ Len(Tail(ch)) = Len(ch) - 1 /\ Head(ch) = ch[1]
      /\ \A j \in 1..Len(ch) - 1 : Tail(ch)[j] = ch[j + 1]
  BY TailFacts
<1>1. ASSUME NEW i \in Nat, Comes(ch, p, a, nr, i + 1)
      PROVE  Comes(Tail(ch), p, a, nr, i)
  <2>1. CASE Is(p, a, nr)
    BY <2>1 DEF Comes
  <2>2. CASE ~Is(p, a, nr)
    <3>1. PICK j \in (i + 1) + 1..Len(ch) : Is(ch[j], a, nr)
      BY <1>1, <2>2 DEF Comes
    <3>2. j - 1 \in i + 1..Len(ch) - 1 /\ Tail(ch)[j - 1] = ch[(j - 1) + 1] /\ (j - 1) + 1 = j
      BY <1>0, <3>1
    <3> QED BY <1>0, <3>1, <3>2 DEF Comes
  <2> QED BY <2>1, <2>2
<1>2. ASSUME Comes(ch, p, a, nr, 0), ~Is(Head(ch), a, nr)
      PROVE  Comes(Tail(ch), p, a, nr, 0)
  <2>1. CASE Is(p, a, nr)
    BY <2>1 DEF Comes
  <2>2. CASE ~Is(p, a, nr)
    <3>1. PICK j \in 1..Len(ch) : Is(ch[j], a, nr)
      BY <1>2, <2>2 DEF Comes
    <3>2. j # 1 BY <1>0, <1>2, <3>1
    <3>3. j - 1 \in 1..Len(ch) - 1 /\ Tail(ch)[j - 1] = ch[(j - 1) + 1] /\ (j - 1) + 1 = j
      BY <1>0, <3>1, <3>2
    <3> QED BY <1>0, <3>1, <3>3 DEF Comes
  <2> QED BY <2>1, <2>2
<1> QED BY <1>1, <1>2

\* A longer channel, in which pend may have found its place
LEMMA ComesLonger ==
  ASSUME NEW ch \in Seq(Parcels), NEW x \in Parcels, NEW p, NEW a, NEW nr, NEW q,
         NEW i \in 0..Len(ch), Comes(ch, p, a, nr, i),
         Is(p, a, nr) => q = p \/ x = p
  PROVE  Comes(Append(ch, x), q, a, nr, i)
<1>0. /\ Len(ch) \in Nat /\ Len(Append(ch, x)) = Len(ch) + 1 /\ Append(ch, x)[Len(ch) + 1] = x
      /\ \A j \in 1..Len(ch) : Append(ch, x)[j] = ch[j]
  BY AppendFacts
<1>1. CASE Is(p, a, nr)
  <2>1. CASE q = p BY <1>1, <2>1 DEF Comes
  <2>2. CASE x = p
    <3>1. Len(ch) + 1 \in i + 1..Len(Append(ch, x)) BY <1>0
    <3> QED BY <1>0, <1>1, <2>2, <3>1 DEF Comes
  <2> QED BY <1>1, <2>1, <2>2
<1>2. CASE ~Is(p, a, nr)
  <2>1. PICK j \in i + 1..Len(ch) : Is(ch[j], a, nr) BY <1>2 DEF Comes
  <2>2. j \in i + 1..Len(Append(ch, x)) /\ j \in 1..Len(ch) BY <1>0, <2>1
  <2> QED BY <1>0, <2>1, <2>2 DEF Comes
<1> QED BY <1>1, <1>2

\* What Told says of the message m, at place i
Said(ch, wt, used, p, D, m, i) ==
    m.a \in {"ms", "mu"} =>
      /\ m.nr \in used
      /\ m.nr \notin D =>
           IF m.a = "mu" THEN m.nr \notin DOMAIN wt
           ELSE IF m.nr \in DOMAIN wt THEN What(m) = wt[m.nr]
           ELSE Comes(ch, p, "mu", m.nr, i)

LEMMA ToldIs ==
  ASSUME NEW ch, NEW wt, NEW used, NEW p, NEW D
  PROVE  Told(ch, wt, used, p, D) <=> \A i \in 1..Len(ch) : Said(ch, wt, used, p, D, ch[i], i)
BY DEF Told, Said

LEMMA ToldTail ==
  ASSUME NEW ch \in Seq(Parcels), ch # <<>>, NEW wt, NEW used, NEW p, NEW D,
         Told(ch, wt, used, p, D)
  PROVE  Told(Tail(ch), wt, used, p, D)
<1>0. /\ Len(ch) \in Nat \ {0} /\ Len(Tail(ch)) = Len(ch) - 1
      /\ \A j \in 1..Len(ch) - 1 : Tail(ch)[j] = ch[j + 1]
  BY TailFacts
<1> SUFFICES ASSUME NEW i \in 1..Len(Tail(ch))
    PROVE  Said(Tail(ch), wt, used, p, D, Tail(ch)[i], i)
  BY ToldIs
<1>1. PICK m : m = Tail(ch)[i] OBVIOUS
<1>2. i + 1 \in 1..Len(ch) /\ m = ch[i + 1] /\ i \in Nat BY <1>0, <1>1
<1>3. Said(ch, wt, used, p, D, m, i + 1) BY <1>2, ToldIs
<1>4. Comes(ch, p, "mu", m.nr, i + 1) => Comes(Tail(ch), p, "mu", m.nr, i)
  BY <1>2, ComesTail
<1> QED BY <1>1, <1>3, <1>4 DEF Said

\* A message that is true when it is sent
Fits(m, wt, used, D) ==
    m.a \in {"ms", "mu"} =>
      /\ m.nr \in used
      /\ m.nr \notin D =>
           IF m.a = "mu" THEN m.nr \notin DOMAIN wt
           ELSE m.nr \in DOMAIN wt /\ What(m) = wt[m.nr]

LEMMA ToldLonger ==
  ASSUME NEW ch \in Seq(Parcels), NEW x \in Parcels, NEW p, NEW q, NEW wt, NEW used, NEW D,
         Told(ch, wt, used, p, D), p.a = "mu" => q = p \/ x = p, Fits(x, wt, used, D)
  PROVE  Told(Append(ch, x), wt, used, q, D)
<1>0. /\ Len(ch) \in Nat /\ Len(Append(ch, x)) = Len(ch) + 1 /\ Append(ch, x)[Len(ch) + 1] = x
      /\ \A j \in 1..Len(ch) : Append(ch, x)[j] = ch[j]
  BY AppendFacts
<1> SUFFICES ASSUME NEW i \in 1..Len(Append(ch, x))
    PROVE  Said(Append(ch, x), wt, used, q, D, Append(ch, x)[i], i)
  BY ToldIs
<1>1. CASE i = Len(ch) + 1
  <2>1. Append(ch, x)[i] = x BY <1>0, <1>1
  <2> QED BY <2>1 DEF Said, Fits
<1>2. CASE i # Len(ch) + 1
  <2>1. i \in 1..Len(ch) /\ i \in 0..Len(ch) BY <1>0, <1>2
  <2>2. PICK m : m = ch[i] OBVIOUS
  <2>3. Said(ch, wt, used, p, D, m, i) BY <2>1, <2>2, ToldIs
  <2>4. Is(p, "mu", m.nr) => q = p \/ x = p BY DEF Is
  <2>5. Comes(ch, p, "mu", m.nr, i) => Comes(Append(ch, x), q, "mu", m.nr, i)
    BY <2>1, <2>4, ComesLonger
  <2>6. Append(ch, x)[i] = m BY <1>0, <2>1, <2>2
  <2> QED BY <2>3, <2>5, <2>6 DEF Said
<1> QED BY <1>1, <1>2

\* What Once says of the message m, an ms, at place i
Single(ch, tk, p, m, i) ==
    /\ ~Is(p, "ms", m.nr)
    /\ \A k \in 1..Len(tk) : tk[k].nr # m.nr
    /\ \A j \in 1..Len(ch) : Is(ch[j], "ms", m.nr) => j = i

Lone(tk, p, D) ==
    \A k \in 1..Len(tk) : tk[k].nr \notin D =>
      /\ ~Is(p, "ms", tk[k].nr)
      /\ \A l \in 1..Len(tk) : tk[l].nr = tk[k].nr => l = k

LEMMA OnceIs ==
  ASSUME NEW ch, NEW tk, NEW p, NEW D
  PROVE  Once(ch, tk, p, D) <=>
           /\ \A i \in 1..Len(ch) : ch[i].a = "ms" /\ ch[i].nr \notin D => Single(ch, tk, p, ch[i], i)
           /\ Lone(tk, p, D)
BY DEF Once, Single, Lone

LEMMA OnceTail ==
  ASSUME NEW ch \in Seq(Parcels), ch # <<>>, NEW tk, NEW p, NEW D, Once(ch, tk, p, D)
  PROVE  Once(Tail(ch), tk, p, D)
<1>0. /\ Len(ch) \in Nat \ {0} /\ Len(Tail(ch)) = Len(ch) - 1
      /\ \A j \in 1..Len(ch) - 1 : Tail(ch)[j] = ch[j + 1]
  BY TailFacts
<1>1. Lone(tk, p, D) BY OnceIs
<1>2. ASSUME NEW i \in 1..Len(Tail(ch)), Tail(ch)[i].a = "ms", Tail(ch)[i].nr \notin D
      PROVE  Single(Tail(ch), tk, p, Tail(ch)[i], i)
  <2>1. PICK m : m = Tail(ch)[i] OBVIOUS
  <2>2. i + 1 \in 1..Len(ch) /\ m = ch[i + 1] BY <1>0, <2>1
  <2>3. Single(ch, tk, p, m, i + 1) BY <1>2, <2>1, <2>2, OnceIs
  <2>4. ASSUME NEW j \in 1..Len(Tail(ch)), Is(Tail(ch)[j], "ms", m.nr) PROVE j = i
    <3>1. j + 1 \in 1..Len(ch) /\ Is(ch[j + 1], "ms", m.nr) BY <1>0, <2>4
    <3>2. j + 1 = i + 1 BY <2>3, <3>1 DEF Single
    <3> QED BY <3>2
  <2> QED BY <2>1, <2>3, <2>4 DEF Single
<1> QED BY <1>1, <1>2, OnceIs

\* Of the messages ms, only that which was about to be sent is added.
LEMMA OnceLonger ==
  ASSUME NEW ch \in Seq(Parcels), NEW x \in Parcels, NEW tk, NEW p, NEW q, NEW D,
         Once(ch, tk, p, D), q.a # "ms", x.a = "ms" => x = p
  PROVE  Once(Append(ch, x), tk, q, D)
<1>0. /\ Len(ch) \in Nat /\ Len(Append(ch, x)) = Len(ch) + 1 /\ Append(ch, x)[Len(ch) + 1] = x
      /\ \A j \in 1..Len(ch) : Append(ch, x)[j] = ch[j]
  BY AppendFacts
<1>1. \A n : ~Is(q, "ms", n) BY DEF Is
<1>2. Lone(tk, p, D) BY OnceIs
<1>3. Lone(tk, q, D) BY <1>1, <1>2 DEF Lone
<1>4. ASSUME NEW i \in 1..Len(Append(ch, x)),
             Append(ch, x)[i].a = "ms", Append(ch, x)[i].nr \notin D
      PROVE  Single(Append(ch, x), tk, q, Append(ch, x)[i], i)
  <2>1. CASE i = Len(ch) + 1
    <3>1. Append(ch, x)[i] = x /\ x = p /\ x.a = "ms" /\ x.nr \notin D BY <1>0, <1>4, <2>1
    <3>2. Is(p, "ms", x.nr) BY <3>1 DEF Is
    <3>3. \A k \in 1..Len(tk) : tk[k].nr # x.nr BY <1>2, <3>1, <3>2 DEF Lone
    <3>4. ASSUME NEW j \in 1..Len(Append(ch, x)), Is(Append(ch, x)[j], "ms", x.nr) PROVE j = i
      <4>1. CASE j = Len(ch) + 1 BY <2>1, <4>1
      <4>2. CASE j # Len(ch) + 1
        <5>1. j \in 1..Len(ch) /\ Append(ch, x)[j] = ch[j] BY <1>0, <4>2
        <5>2. ch[j].a = "ms" /\ ch[j].nr = x.nr BY <3>4, <5>1 DEF Is
        <5>3. ~Is(p, "ms", ch[j].nr) BY <3>1, <5>1, <5>2, OnceIs DEF Single
        <5> QED BY <3>2, <5>2, <5>3
      <4> QED BY <4>1, <4>2
    <3> QED BY <1>1, <3>1, <3>3, <3>4 DEF Single
  <2>2. CASE i # Len(ch) + 1
    <3>1. i \in 1..Len(ch) /\ Append(ch, x)[i] = ch[i] BY <1>0, <2>2
    <3>2. PICK m : m = ch[i] OBVIOUS
    <3>3. m.a = "ms" /\ m.nr \notin D BY <1>4, <3>1, <3>2
    <3>4. Single(ch, tk, p, m, i) BY <3>1, <3>2, <3>3, OnceIs
    <3>5. ASSUME NEW j \in 1..Len(Append(ch, x)), Is(Append(ch, x)[j], "ms", m.nr) PROVE j = i
      <4>1. CASE j = Len(ch) + 1
        <5>1. Is(x, "ms", m.nr) BY <1>0, <3>5, <4>1
        <5>2. x = p BY <5>1 DEF Is
        <5> QED BY <3>4, <5>1, <5>2 DEF Single
      <4>2. CASE j # Len(ch) + 1
        <5>1. j \in 1..Len(ch) /\ Append(ch, x)[j] = ch[j] BY <1>0, <4>2
        <5> QED BY <3>4, <3>5, <5>1 DEF Single
      <4> QED BY <4>1, <4>2
    <3> QED BY <1>1, <3>1, <3>2, <3>4, <3>5 DEF Single
  <2> QED BY <2>1, <2>2
<1> QED BY <1>3, <1>4, OnceIs

\* The ends of numbers that the device is to read
LEMMA EndedTail ==
  ASSUME NEW td \in Seq(Parcels), td # <<>>, NEW nr
  PROVE  /\ Ended(Tail(td), nr) => Ended(td, nr)
         /\ Ended(td, nr) => Is(Head(td), "mu", nr) \/ Ended(Tail(td), nr)
<1>0. /\ Len(td) \in Nat \ {0} /\ Len(Tail(td)) = Len(td) - 1 /\ Head(td) = td[1]
      /\ \A j \in 1..Len(td) - 1 : Tail(td)[j] = td[j + 1]
  BY TailFacts
<1>1. ASSUME Ended(Tail(td), nr) PROVE Ended(td, nr)
  <2>1. PICK j \in 1..Len(Tail(td)) : Is(Tail(td)[j], "mu", nr) BY <1>1 DEF Ended
  <2>2. j + 1 \in 1..Len(td) /\ Is(td[j + 1], "mu", nr) BY <1>0, <2>1
  <2> QED BY <2>2 DEF Ended
<1>2. ASSUME Ended(td, nr), ~Is(Head(td), "mu", nr) PROVE Ended(Tail(td), nr)
  <2>1. PICK j \in 1..Len(td) : Is(td[j], "mu", nr) BY <1>2 DEF Ended
  <2>2. j # 1 BY <1>0, <1>2, <2>1
  <2>3. j - 1 \in 1..Len(Tail(td)) /\ Tail(td)[j - 1] = td[(j - 1) + 1] /\ (j - 1) + 1 = j
    BY <1>0, <2>1, <2>2
  <2> QED BY <2>1, <2>3 DEF Ended
<1> QED BY <1>1, <1>2

LEMMA EndedAppend ==
  ASSUME NEW td \in Seq(Parcels), NEW x \in Parcels, NEW nr
  PROVE  Ended(Append(td, x), nr) <=> Ended(td, nr) \/ Is(x, "mu", nr)
<1>0. /\ Len(td) \in Nat /\ Len(Append(td, x)) = Len(td) + 1 /\ Append(td, x)[Len(td) + 1] = x
      /\ \A j \in 1..Len(td) : Append(td, x)[j] = td[j]
  BY AppendFacts
<1>1. ASSUME Ended(Append(td, x), nr), ~Is(x, "mu", nr) PROVE Ended(td, nr)
  <2>1. PICK j \in 1..Len(Append(td, x)) : Is(Append(td, x)[j], "mu", nr) BY <1>1 DEF Ended
  <2>2. j # Len(td) + 1 BY <1>0, <1>1, <2>1
  <2>3. j \in 1..Len(td) BY <1>0, <2>2
  <2> QED BY <1>0, <2>1, <2>3 DEF Ended
<1>2. ASSUME Ended(td, nr) PROVE Ended(Append(td, x), nr)
  <2>1. PICK j \in 1..Len(td) : Is(td[j], "mu", nr) BY <1>2 DEF Ended
  <2>2. j \in 1..Len(Append(td, x)) /\ Append(td, x)[j] = td[j] BY <1>0
  <2> QED BY <2>1, <2>2 DEF Ended
<1>3. ASSUME Is(x, "mu", nr) PROVE Ended(Append(td, x), nr)
  <2>1. Len(td) + 1 \in 1..Len(Append(td, x)) BY <1>0
  <2> QED BY <1>0, <1>3, <2>1 DEF Ended
<1> QED BY <1>1, <1>2, <1>3

\* Some task of number nr has failed or been cancelled.
Gone(tk, nr) == \E k \in 1..Len(tk) : tk[k].nr = nr /\ tk[k].on # "on"

LEMMA FailedIs ==
  ASSUME NEW td, NEW tk, NEW D
  PROVE  Failed(td, tk, D) <=> \A nr : Ended(td, nr) /\ nr \notin D => Gone(tk, nr)
<1>1. ASSUME Failed(td, tk, D), NEW nr, Ended(td, nr), nr \notin D PROVE Gone(tk, nr)
  <2>1. PICK j \in 1..Len(td) : td[j].a = "mu" /\ td[j].nr = nr BY <1>1 DEF Ended, Is
  <2> QED BY <1>1, <2>1 DEF Failed, Gone
<1>2. ASSUME \A nr : Ended(td, nr) /\ nr \notin D => Gone(tk, nr) PROVE Failed(td, tk, D)
  <2> SUFFICES ASSUME NEW j \in 1..Len(td), td[j].a = "mu", td[j].nr \notin D
      PROVE  Gone(tk, td[j].nr)
    BY DEF Failed, Gone
  <2>1. Ended(td, td[j].nr) BY DEF Ended, Is
  <2> QED BY <1>2, <2>1
<1> QED BY <1>1, <1>2

-----------------------------------------------------------------------------
(* Each way in which the channels, the tables and the program change.      *)

\* What Served says of the task x
Serves(ch, td, x, wt, used, p, D) ==
    /\ x.nr \in used
    /\ x.nr \notin D =>
         IF x.on # "on" THEN x.nr \notin DOMAIN wt \/ Ended(td, x.nr)
         ELSE IF x.nr \in DOMAIN wt THEN What(x) = wt[x.nr]
         ELSE Comes(ch, p, "mu", x.nr, 0)

LEMMA ServedIs ==
  ASSUME NEW ch, NEW td, NEW tk, NEW wt, NEW used, NEW p, NEW D
  PROVE  Served(ch, td, tk, wt, used, p, D) <=>
           \A k \in 1..Len(tk) : Serves(ch, td, tk[k], wt, used, p, D)
BY DEF Served, Serves

\* Nothing is said of more numbers, and more numbers have been used.
LEMMA SyncLess ==
  ASSUME NEW ch, NEW td, NEW tk, NEW tb, NEW wt, NEW used, NEW p, NEW D, NEW used2, NEW D2,
         Sync(ch, td, tk, tb, wt, used, p, D), used \subseteq used2, D \subseteq D2
  PROVE  Sync(ch, td, tk, tb, wt, used2, p, D2)
<1>1. Told(ch, wt, used2, p, D2) BY DEF Sync, Told
<1>2. Once(ch, tk, p, D2) BY DEF Sync, Once
<1>3. Served(ch, td, tk, wt, used2, p, D2) BY DEF Sync, Served
<1>4. Failed(td, tk, D2) BY DEF Sync, Failed
<1>5. Awaited(ch, td, tk, wt, p, D2) BY DEF Sync, Awaited
<1>6. Leads(tk, tb, D2) BY DEF Sync, Leads
<1> QED BY <1>1, <1>2, <1>3, <1>4, <1>5, <1>6 DEF Sync

\* What came before still comes: the tasks are served as they were.
LEMMA ServedFrame ==
  ASSUME NEW ch, NEW ch2, NEW td, NEW tk, NEW wt, NEW used, NEW p, NEW q, NEW D,
         Served(ch, td, tk, wt, used, p, D), Awaited(ch, td, tk, wt, p, D),
         \A a \in {"ms", "mu"} : \A nr : Comes(ch, p, a, nr, 0) /\ nr \notin D => Comes(ch2, q, a, nr, 0)
  PROVE  Served(ch2, td, tk, wt, used, q, D) /\ Awaited(ch2, td, tk, wt, q, D)
BY DEF Served, Awaited

\* The multiplexer takes a message of another kind, or about another number.
LEMMA SyncTakes ==
  ASSUME NEW ch \in Seq(Parcels), ch # <<>>, NEW td, NEW tk, NEW tb, NEW wt, NEW used, NEW p, NEW D,
         Head(ch).a \notin {"ms", "mu"} \/ Head(ch).nr \in D,
         Sync(ch, td, tk, tb, wt, used, p, D)
  PROVE  Sync(Tail(ch), td, tk, tb, wt, used, p, D)
<1>1. Told(Tail(ch), wt, used, p, D) /\ Once(Tail(ch), tk, p, D)
  BY ToldTail, OnceTail DEF Sync
<1>2. \A a \in {"ms", "mu"} : \A nr : Comes(ch, p, a, nr, 0) /\ nr \notin D => Comes(Tail(ch), p, a, nr, 0)
  BY ComesTail DEF Is
<1> QED BY <1>1, <1>2, ServedFrame DEF Sync

\* The program sends the message it was about to send.
LEMMA SyncSends ==
  ASSUME NEW ch \in Seq(Parcels), NEW p \in Parcels, NEW td, NEW tk, NEW tb, NEW wt, NEW used, NEW q, NEW D,
         Sync(ch, td, tk, tb, wt, used, p, D), Fits(p, wt, used, D), q.a # "ms"
  PROVE  Sync(Append(ch, p), td, tk, tb, wt, used, q, D)
<1>1. Told(Append(ch, p), wt, used, q, D) /\ Once(Append(ch, p), tk, q, D)
  BY ToldLonger, OnceLonger DEF Sync
<1>2. 0 \in 0..Len(ch) OBVIOUS
<1>3. \A a \in {"ms", "mu"} : \A nr : Comes(ch, p, a, nr, 0) /\ nr \notin D => Comes(Append(ch, p), q, a, nr, 0)
  BY <1>2, ComesLonger
<1> QED BY <1>1, <1>3, ServedFrame DEF Sync

\* It begins or ends to send a message of another kind.
LEMMA SyncPends ==
  ASSUME NEW ch, NEW td, NEW tk, NEW tb, NEW wt, NEW used, NEW p, NEW q, NEW D,
         p.a \notin {"ms", "mu"}, q.a \notin {"ms", "mu"}, Sync(ch, td, tk, tb, wt, used, p, D)
  PROVE  Sync(ch, td, tk, tb, wt, used, q, D)
<1>1. \A a \in {"ms", "mu"} : \A nr, i : Comes(ch, p, a, nr, i) => Comes(ch, q, a, nr, i)
  BY DEF Comes, Is
<1>2. Told(ch, wt, used, q, D) BY <1>1 DEF Sync, Told
<1>3. Once(ch, tk, q, D) BY DEF Sync, Once, Is
<1> QED BY <1>1, <1>2, <1>3, ServedFrame DEF Sync

\* The multiplexer starts a task.
LEMMA SyncMS ==
  ASSUME NEW ch \in Seq(Parcels), ch # <<>>, Head(ch).a = "ms", NEW td,
         NEW tk \in Seq(Task), NEW tb, NEW wt, NEW used, NEW p, NEW D,
         Sync(ch, td, tk, tb, wt, used, p, D),
         NEW f \in Task, f.nr = Head(ch).nr, What(f) = What(Head(ch)), f.on = "on"
  PROVE  Sync(Tail(ch), td, Append(tk, f), With(tb, f.nr, Len(tk) + 1), wt, used, p, D)
<1>0. /\ Told(ch, wt, used, p, D) /\ Once(ch, tk, p, D)
      /\ Served(ch, td, tk, wt, used, p, D) /\ Failed(td, tk, D)
      /\ Awaited(ch, td, tk, wt, p, D) /\ Leads(tk, tb, D)
  BY DEF Sync
<1> DEFINE tk2 == Append(tk, f)
           n == Len(tk) + 1
<1>1. /\ Len(tk) \in Nat /\ Len(tk2) = n /\ tk2[n] = f
      /\ \A k \in 1..Len(tk) : tk2[k] = tk[k]
      /\ \A k \in 1..Len(tk2) : k = n \/ k \in 1..Len(tk)
      /\ \A k \in 1..Len(tk) : k \in 1..Len(tk2) /\ k # n
      /\ n \in 1..Len(tk2)
  OBVIOUS
<1> HIDE DEF tk2, n
<1>2. /\ 1 \in 1..Len(ch) /\ Head(ch) = ch[1] /\ ch[1].a = "ms" /\ ch[1].nr = f.nr
      /\ What(ch[1]) = What(f) /\ Len(Tail(ch)) = Len(ch) - 1 /\ Len(ch) \in Nat
      /\ \A j \in 1..Len(ch) - 1 : Tail(ch)[j] = ch[j + 1]
  BY TailFacts
<1>3. Said(ch, wt, used, p, D, ch[1], 1) BY <1>0, <1>2, ToldIs
<1>4. f.nr \notin D => Single(ch, tk, p, ch[1], 1) BY <1>0, <1>2, OnceIs
<1>5. \A nr : Comes(ch, p, "mu", nr, 0) => Comes(Tail(ch), p, "mu", nr, 0)
  BY <1>2, ComesTail DEF Is
<1>6. Told(Tail(ch), wt, used, p, D) /\ Once(Tail(ch), tk, p, D)
  BY <1>0, ToldTail, OnceTail
<1>7. Lone(tk2, p, D)
  <2> SUFFICES ASSUME NEW k \in 1..Len(tk2), tk2[k].nr \notin D
      PROVE  /\ ~Is(p, "ms", tk2[k].nr)
             /\ \A l \in 1..Len(tk2) : tk2[l].nr = tk2[k].nr => l = k
    BY DEF Lone
  <2>1. Lone(tk, p, D) BY <1>0, OnceIs
  <2>2. f.nr \notin D => ~Is(p, "ms", f.nr) /\ \A l \in 1..Len(tk) : tk[l].nr # f.nr
    BY <1>2, <1>4 DEF Single
  <2>3. CASE k = n BY <1>1, <2>2, <2>3
  <2>4. CASE k # n
    <3>1. k \in 1..Len(tk) /\ tk2[k] = tk[k] BY <1>1, <2>4
    <3> QED BY <1>1, <2>1, <2>2, <3>1 DEF Lone
  <2> QED BY <2>3, <2>4
<1>8. Once(Tail(ch), tk2, p, D)
  <2> SUFFICES ASSUME NEW i \in 1..Len(Tail(ch)), Tail(ch)[i].a = "ms", Tail(ch)[i].nr \notin D
      PROVE  Single(Tail(ch), tk2, p, Tail(ch)[i], i)
    BY <1>7, OnceIs
  <2>1. PICK m : m = Tail(ch)[i] OBVIOUS
  <2>2. Single(Tail(ch), tk, p, m, i) BY <1>6, <2>1, OnceIs
  <2>3. i + 1 \in 1..Len(ch) /\ m = ch[i + 1] /\ i + 1 # 1 BY <1>2, <2>1
  <2>4. f.nr # m.nr
    <3> SUFFICES ASSUME f.nr = m.nr PROVE FALSE OBVIOUS
    <3>1. Single(ch, tk, p, ch[1], 1) BY <1>4, <2>1
    <3>2. Is(ch[i + 1], "ms", ch[1].nr) BY <1>2, <2>1, <2>3 DEF Is
    <3> QED BY <2>3, <3>1, <3>2 DEF Single
  <2>5. \A k \in 1..Len(tk2) : tk2[k].nr # m.nr BY <1>1, <2>2, <2>4 DEF Single
  <2> QED BY <2>1, <2>2, <2>5 DEF Single
<1>9. Served(Tail(ch), td, tk2, wt, used, p, D)
  <2> SUFFICES ASSUME NEW k \in 1..Len(tk2) PROVE Serves(Tail(ch), td, tk2[k], wt, used, p, D)
    BY ServedIs
  <2>1. CASE k = n
    <3>1. Comes(ch, p, "mu", f.nr, 0 + 1) => Comes(Tail(ch), p, "mu", f.nr, 0)
      BY ComesTail
    <3>2. f.nr \in used /\ (f.nr \notin D => IF f.nr \in DOMAIN wt THEN What(f) = wt[f.nr]
                                             ELSE Comes(ch, p, "mu", f.nr, 1))
      BY <1>2, <1>3 DEF Said
    <3> QED BY <1>1, <2>1, <3>1, <3>2 DEF Serves
  <2>2. CASE k # n
    <3>1. k \in 1..Len(tk) /\ tk2[k] = tk[k] BY <1>1, <2>2
    <3>2. Serves(ch, td, tk[k], wt, used, p, D) BY <1>0, <3>1, ServedIs
    <3> QED BY <1>5, <3>1, <3>2 DEF Serves
  <2> QED BY <2>1, <2>2
<1>10. Failed(td, tk2, D)
  <2>1. \A nr : Gone(tk, nr) => Gone(tk2, nr) BY <1>1 DEF Gone
  <2> QED BY <1>0, <2>1, FailedIs
<1>11. Awaited(Tail(ch), td, tk2, wt, p, D)
  <2> SUFFICES ASSUME NEW nr \in DOMAIN wt \ D
      PROVE  \/ Comes(Tail(ch), p, "ms", nr, 0) \/ Ended(td, nr)
             \/ \E k \in 1..Len(tk2) : tk2[k].on = "on" /\ tk2[k].nr = nr
    BY DEF Awaited
  <2>1. CASE nr = f.nr BY <1>1, <2>1
  <2>2. CASE nr # f.nr
    <3>1. Comes(ch, p, "ms", nr, 0) => Comes(Tail(ch), p, "ms", nr, 0)
      BY <1>2, <2>2, ComesTail DEF Is
    <3> QED BY <1>0, <1>1, <3>1 DEF Awaited
  <2> QED BY <2>1, <2>2
<1>12. Leads(tk2, With(tb, f.nr, n), D)
  <2> DEFINE tb2 == With(tb, f.nr, n)
  <2>1. /\ DOMAIN tb2 = DOMAIN tb \cup {f.nr} /\ tb2[f.nr] = n
        /\ \A nr \in DOMAIN tb : nr # f.nr => tb2[nr] = tb[nr]
    BY DEF With
  <2> HIDE DEF tb2
  <2>2. ASSUME NEW nr \in DOMAIN tb2
        PROVE  /\ tb2[nr] \in 1..Len(tk2) /\ tk2[tb2[nr]].nr = nr
               /\ nr \notin D => tk2[tb2[nr]].on # "ended"
    <3>1. CASE nr = f.nr BY <1>1, <2>1, <3>1
    <3>2. CASE nr # f.nr
      <4>1. nr \in DOMAIN tb /\ tb2[nr] = tb[nr] BY <2>1, <2>2, <3>2
      <4>2. /\ tb[nr] \in 1..Len(tk) /\ tk[tb[nr]].nr = nr
            /\ nr \notin D => tk[tb[nr]].on # "ended"
        BY <1>0, <4>1 DEF Leads
      <4> QED BY <1>1, <4>1, <4>2
    <3> QED BY <3>1, <3>2
  <2>3. ASSUME NEW k \in 1..Len(tk2), tk2[k].on # "ended", tk2[k].nr \notin D
        PROVE  tk2[k].nr \in DOMAIN tb2 /\ tb2[tk2[k].nr] = k
    <3>1. CASE k = n BY <1>1, <2>1, <3>1
    <3>2. CASE k # n
      <4>1. k \in 1..Len(tk) /\ tk2[k] = tk[k] BY <1>1, <3>2
      <4>2. tk[k].nr \in DOMAIN tb /\ tb[tk[k].nr] = k BY <1>0, <2>3, <4>1 DEF Leads
      <4>3. tk[k].nr # f.nr BY <1>2, <1>4, <2>3, <4>1 DEF Single
      <4> QED BY <2>1, <4>1, <4>2, <4>3
    <3> QED BY <3>1, <3>2
  <2>4. Leads(tk2, tb2, D) BY <2>2, <2>3 DEF Leads
  <2> QED BY <2>4 DEF tb2
<1>13. Sync(Tail(ch), td, tk2, With(tb, f.nr, n), wt, used, p, D)
  BY <1>6, <1>8, <1>9, <1>10, <1>11, <1>12 DEF Sync
<1> QED BY <1>13 DEF tk2, n

\* Tasks that have the same numbers and topics
Same(tk, tk2) ==
    /\ Len(tk2) = Len(tk)
    /\ \A k \in 1..Len(tk) : tk2[k].nr = tk[k].nr /\ What(tk2[k]) = What(tk[k])

LEMMA OnceSame ==
  ASSUME NEW ch, NEW tk, NEW tk2, NEW p, NEW D, Once(ch, tk, p, D), Same(tk, tk2)
  PROVE  Once(ch, tk2, p, D)
BY DEF Once, Same

\* It cancels the task of a number, if there is one that is on.
LEMMA SyncMU ==
  ASSUME NEW ch \in Seq(Parcels), ch # <<>>, Head(ch).a = "mu", NEW td,
         NEW tk \in Seq(Task), NEW tb, NEW wt, NEW used, NEW p, NEW D,
         Sync(ch, td, tk, tb, wt, used, p, D),
         NEW tk2, Same(tk, tk2),
         \A k \in 1..Len(tk) :
            tk2[k].on = IF /\ Head(ch).nr \in DOMAIN tb /\ k = tb[Head(ch).nr]
                           /\ tk[k].on = "on"
                        THEN "leaving" ELSE tk[k].on
  PROVE  Sync(Tail(ch), td, tk2, tb, wt, used, p, D)
<1>0. /\ Told(ch, wt, used, p, D) /\ Once(ch, tk, p, D)
      /\ Served(ch, td, tk, wt, used, p, D) /\ Failed(td, tk, D)
      /\ Awaited(ch, td, tk, wt, p, D) /\ Leads(tk, tb, D)
  BY DEF Sync
<1>1. PICK n : n = Head(ch).nr OBVIOUS
<1>2. n \notin D => n \notin DOMAIN wt
  <2>1. 1 \in 1..Len(ch) /\ Head(ch) = ch[1] BY TailFacts
  <2>2. Said(ch, wt, used, p, D, ch[1], 1) BY <1>0, <2>1, ToldIs
  <2> QED BY <1>1, <2>1, <2>2 DEF Said
<1>3. Told(Tail(ch), wt, used, p, D) /\ Once(Tail(ch), tk2, p, D)
  BY <1>0, ToldTail, OnceTail, OnceSame
<1>4. \A k \in 1..Len(tk) : tk[k].nr # n => tk2[k].on = tk[k].on
  <2> TAKE k \in 1..Len(tk)
  <2>1. n \in DOMAIN tb /\ k = tb[n] => tk[k].nr = n BY <1>0 DEF Leads
  <2> QED BY <1>1, <2>1
<1>5. \A k \in 1..Len(tk) : tk[k].nr = n /\ n \notin D => tk2[k].on # "on"
  <2> TAKE k \in 1..Len(tk)
  <2>1. tk[k].nr = n /\ tk[k].on = "on" /\ n \notin D => n \in DOMAIN tb /\ tb[n] = k
    BY <1>0 DEF Leads
  <2> QED BY <1>1, <2>1
<1>6. \A a \in {"ms", "mu"} : \A nr : nr # n \/ a = "ms" =>
        (Comes(ch, p, a, nr, 0) => Comes(Tail(ch), p, a, nr, 0))
  BY <1>1, ComesTail DEF Is
<1>7. Served(Tail(ch), td, tk2, wt, used, p, D)
  <2> SUFFICES ASSUME NEW k \in 1..Len(tk) PROVE Serves(Tail(ch), td, tk2[k], wt, used, p, D)
    BY ServedIs DEF Same
  <2>1. Serves(ch, td, tk[k], wt, used, p, D) BY <1>0, ServedIs
  <2>2. tk2[k].nr = tk[k].nr /\ What(tk2[k]) = What(tk[k]) BY DEF Same
  <2>3. CASE tk[k].nr = n BY <1>2, <1>5, <2>1, <2>2, <2>3 DEF Serves
  <2>4. CASE tk[k].nr # n BY <1>4, <1>6, <2>1, <2>2, <2>4 DEF Serves
  <2> QED BY <2>3, <2>4
<1>8. Failed(td, tk2, D)
  <2>1. \A k \in 1..Len(tk) : tk[k].on # "on" => tk2[k].on # "on" OBVIOUS
  <2>2. \A nr : Gone(tk, nr) => Gone(tk2, nr) BY <2>1 DEF Gone, Same
  <2> QED BY <1>0, <2>2, FailedIs
<1>9. Awaited(Tail(ch), td, tk2, wt, p, D)
  <2> SUFFICES ASSUME NEW nr \in DOMAIN wt \ D
      PROVE  \/ Comes(Tail(ch), p, "ms", nr, 0) \/ Ended(td, nr)
             \/ \E k \in 1..Len(tk2) : tk2[k].on = "on" /\ tk2[k].nr = nr
    BY DEF Awaited
  <2>1. nr # n BY <1>2
  <2> QED BY <1>0, <1>4, <1>6, <2>1 DEF Awaited, Same
<1>10. Leads(tk2, tb, D)
  <2>1. \A k \in 1..Len(tk) : tk2[k].on = "ended" <=> tk[k].on = "ended" OBVIOUS
  <2> QED BY <1>0, <2>1 DEF Leads, Same
<1> QED BY <1>3, <1>7, <1>8, <1>9, <1>10 DEF Sync

\* A task fails, and the device is told.
LEMMA SyncFails ==
  ASSUME NEW ch, NEW td \in Seq(Parcels), NEW tk \in Seq(Task), NEW tb, NEW wt, NEW used, NEW p, NEW D,
         Sync(ch, td, tk, tb, wt, used, p, D),
         NEW l \in 1..Len(tk), NEW x \in Parcels, Is(x, "mu", tk[l].nr),
         tk[l].on = "on", NEW tk2, Same(tk, tk2),
         \A k \in 1..Len(tk) : tk2[k].on = IF k = l THEN "leaving" ELSE tk[k].on
  PROVE  Sync(ch, Append(td, x), tk2, tb, wt, used, p, D)
<1>0. /\ Told(ch, wt, used, p, D) /\ Once(ch, tk, p, D)
      /\ Served(ch, td, tk, wt, used, p, D) /\ Failed(td, tk, D)
      /\ Awaited(ch, td, tk, wt, p, D) /\ Leads(tk, tb, D)
  BY DEF Sync
<1>1. PICK n : n = tk[l].nr OBVIOUS
<1>2. PICK td2 : td2 = Append(td, x) OBVIOUS
<1>3. \A nr : Ended(td2, nr) <=> Ended(td, nr) \/ nr = n
  BY <1>1, <1>2, EndedAppend DEF Is
<1>4. Served(ch, td2, tk2, wt, used, p, D)
  <2> SUFFICES ASSUME NEW k \in 1..Len(tk) PROVE Serves(ch, td2, tk2[k], wt, used, p, D)
    BY ServedIs DEF Same
  <2>1. Serves(ch, td, tk[k], wt, used, p, D) BY <1>0, ServedIs
  <2>2. tk2[k].nr = tk[k].nr /\ What(tk2[k]) = What(tk[k]) BY DEF Same
  <2>3. CASE k = l BY <1>1, <1>3, <2>1, <2>2, <2>3 DEF Serves
  <2>4. CASE k # l BY <1>3, <2>1, <2>2, <2>4 DEF Serves
  <2> QED BY <2>3, <2>4
<1>5. Failed(td2, tk2, D)
  <2>1. \A nr : Gone(tk, nr) => Gone(tk2, nr) BY DEF Gone, Same
  <2>2. Gone(tk2, n) BY <1>1 DEF Gone, Same
  <2> QED BY <1>0, <1>3, <2>1, <2>2, FailedIs
<1>6. Awaited(ch, td2, tk2, wt, p, D)
  <2> SUFFICES ASSUME NEW nr \in DOMAIN wt \ D
      PROVE  \/ Comes(ch, p, "ms", nr, 0) \/ Ended(td2, nr)
             \/ \E k \in 1..Len(tk2) : tk2[k].on = "on" /\ tk2[k].nr = nr
    BY DEF Awaited
  <2>1. CASE nr = n BY <1>3, <2>1
  <2>2. CASE nr # n BY <1>0, <1>1, <1>3, <2>2 DEF Awaited, Same
  <2> QED BY <2>1, <2>2
<1>7. Leads(tk2, tb, D)
  <2>1. \A k \in 1..Len(tk) : tk2[k].on = "ended" <=> tk[k].on = "ended" OBVIOUS
  <2> QED BY <1>0, <2>1 DEF Leads, Same
<1>8. Once(ch, tk2, p, D) BY <1>0, OnceSame
<1> QED BY <1>0, <1>2, <1>4, <1>5, <1>6, <1>7, <1>8 DEF Sync

\* A task that is left ends, and takes the entry of its number with it.
LEMMA SyncEnds ==
  ASSUME NEW ch, NEW td, NEW tk \in Seq(Task), NEW tb, NEW wt, NEW used, NEW p, NEW D,
         Sync(ch, td, tk, tb, wt, used, p, D),
         NEW l \in 1..Len(tk), tk[l].on = "leaving", NEW tk2, Same(tk, tk2),
         \A k \in 1..Len(tk) : tk2[k].on = IF k = l THEN "ended" ELSE tk[k].on
  PROVE  Sync(ch, td, tk2, Without(tb, tk[l].nr), wt, used, p, D)
<1>0. /\ Told(ch, wt, used, p, D) /\ Once(ch, tk, p, D)
      /\ Served(ch, td, tk, wt, used, p, D) /\ Failed(td, tk, D)
      /\ Awaited(ch, td, tk, wt, p, D) /\ Leads(tk, tb, D)
  BY DEF Sync
<1>1. \A k \in 1..Len(tk) : tk2[k].on = "on" <=> tk[k].on = "on" OBVIOUS
<1>2. Served(ch, td, tk2, wt, used, p, D)
  <2> SUFFICES ASSUME NEW k \in 1..Len(tk) PROVE Serves(ch, td, tk2[k], wt, used, p, D)
    BY ServedIs DEF Same
  <2>1. Serves(ch, td, tk[k], wt, used, p, D) BY <1>0, ServedIs
  <2>2. tk2[k].nr = tk[k].nr /\ What(tk2[k]) = What(tk[k]) BY DEF Same
  <2> QED BY <1>1, <2>1, <2>2 DEF Serves
<1>3. Failed(td, tk2, D)
  <2>1. \A nr : Gone(tk, nr) => Gone(tk2, nr) BY <1>1 DEF Gone, Same
  <2> QED BY <1>0, <2>1, FailedIs
<1>4. Awaited(ch, td, tk2, wt, p, D)
  BY <1>0, <1>1 DEF Awaited, Same
<1>5. Leads(tk2, Without(tb, tk[l].nr), D)
  <2> DEFINE tb2 == Without(tb, tk[l].nr)
  <2>0. DOMAIN tb2 = DOMAIN tb \ {tk[l].nr} /\ \A nr \in DOMAIN tb2 : tb2[nr] = tb[nr]
    BY DEF Without
  <2> HIDE DEF tb2
  <2>1. ASSUME NEW nr \in DOMAIN tb2
        PROVE  /\ tb2[nr] \in 1..Len(tk2) /\ tk2[tb2[nr]].nr = nr
               /\ nr \notin D => tk2[tb2[nr]].on # "ended"
    <3>1. /\ tb[nr] \in 1..Len(tk) /\ tk[tb[nr]].nr = nr
          /\ nr \notin D => tk[tb[nr]].on # "ended"
      BY <1>0, <2>0 DEF Leads
    <3>2. tb[nr] # l BY <2>0, <3>1
    <3> QED BY <2>0, <3>1, <3>2 DEF Same
  <2>2. ASSUME NEW k \in 1..Len(tk2), tk2[k].on # "ended", tk2[k].nr \notin D
        PROVE  tk2[k].nr \in DOMAIN tb2 /\ tb2[tk2[k].nr] = k
    <3>1. k # l /\ k \in 1..Len(tk) /\ tk[k].on # "ended" /\ tk2[k].nr = tk[k].nr
      BY <2>2 DEF Same
    <3>2. tk[k].nr \in DOMAIN tb /\ tb[tk[k].nr] = k BY <1>0, <2>2, <3>1 DEF Leads
    <3>3. tk[k].nr # tk[l].nr BY <1>0, <2>2, <3>1 DEF Once
    <3> QED BY <2>0, <3>1, <3>2, <3>3
  <2>3. Leads(tk2, tb2, D) BY <2>1, <2>2 DEF Leads
  <2> QED BY <2>3 DEF tb2
<1>6. Once(ch, tk2, p, D) BY <1>0, OnceSame
<1> QED BY <1>0, <1>2, <1>3, <1>4, <1>5, <1>6 DEF Sync

\* Only the queues of the tasks change, and what the device is to read of
\* other things.
LEMMA SyncQueues ==
  ASSUME NEW ch, NEW td, NEW tk \in Seq(Task), NEW tb, NEW wt, NEW used, NEW p, NEW D,
         Sync(ch, td, tk, tb, wt, used, p, D), NEW td2,
         \A nr : Ended(td, nr) <=> Ended(td2, nr), NEW tk2, Same(tk, tk2),
         \A k \in 1..Len(tk) : tk2[k].on = tk[k].on
  PROVE  Sync(ch, td2, tk2, tb, wt, used, p, D)
<1>0. /\ Told(ch, wt, used, p, D) /\ Once(ch, tk, p, D)
      /\ Served(ch, td, tk, wt, used, p, D) /\ Failed(td, tk, D)
      /\ Awaited(ch, td, tk, wt, p, D) /\ Leads(tk, tb, D)
  BY DEF Sync
<1>1. Served(ch, td2, tk2, wt, used, p, D)
  <2> SUFFICES ASSUME NEW k \in 1..Len(tk) PROVE Serves(ch, td2, tk2[k], wt, used, p, D)
    BY ServedIs DEF Same
  <2>1. Serves(ch, td, tk[k], wt, used, p, D) BY <1>0, ServedIs
  <2>2. tk2[k].nr = tk[k].nr /\ What(tk2[k]) = What(tk[k]) BY DEF Same
  <2> QED BY <2>1, <2>2 DEF Serves
<1>2. Awaited(ch, td2, tk2, wt, p, D) BY <1>0 DEF Awaited, Same
<1>3. Leads(tk2, tb, D) BY <1>0 DEF Leads, Same
<1>4. Failed(td2, tk2, D)
  <2>1. \A nr : Gone(tk, nr) => Gone(tk2, nr) BY DEF Gone, Same
  <2> QED BY <1>0, <2>1, FailedIs
<1>5. Once(ch, tk2, p, D) BY <1>0, OnceSame
<1> QED BY <1>0, <1>1, <1>2, <1>3, <1>4, <1>5 DEF Sync

LEMMA PendsNothing == Plain("none").a \notin {"ms", "mu"}
BY DEF Plain, Msg

LEMMA MessageOf ==
  /\ \A nr, t, r : MS(nr, t, r).a = "ms" /\ MS(nr, t, r).nr = nr /\ What(MS(nr, t, r)) = [t |-> t, r |-> r]
  /\ \A nr : MU(nr).a = "mu" /\ MU(nr).nr = nr
BY DEF MS, MU, Msg, What

\* The program subscribes, with a new number or with one that is adrift.
LEMMA SyncSubscribes ==
  ASSUME NEW ch, NEW td, NEW tk, NEW tb, NEW wt, NEW used, NEW D,
         NEW p, p.a \notin {"ms", "mu"}, NEW q, NEW n, Is(q, "ms", n),
         NEW wt2, DOMAIN wt2 = DOMAIN wt \cup {n}, \A nr \in DOMAIN wt \ {n} : wt2[nr] = wt[nr],
         n \in D \/ n \notin used,
         Sync(ch, td, tk, tb, wt, used, p, D)
  PROVE  Sync(ch, td, tk, tb, wt2, used \cup {n}, q, D)
<1>0. /\ Told(ch, wt, used, p, D) /\ Once(ch, tk, p, D)
      /\ Served(ch, td, tk, wt, used, p, D) /\ Failed(td, tk, D)
      /\ Awaited(ch, td, tk, wt, p, D) /\ Leads(tk, tb, D)
  BY DEF Sync
<1>1. /\ \A a \in {"ms", "mu"} : \A nr, i : Comes(ch, p, a, nr, i) => Comes(ch, q, a, nr, i)
      /\ \A nr : nr # n => ~Is(q, "ms", nr)
      /\ Comes(ch, q, "ms", n, 0)
  BY DEF Comes, Is
<1>2. Told(ch, wt2, used \cup {n}, q, D)
  <2> SUFFICES ASSUME NEW i \in 1..Len(ch) PROVE Said(ch, wt2, used \cup {n}, q, D, ch[i], i)
    BY ToldIs
  <2>1. Said(ch, wt, used, p, D, ch[i], i) BY <1>0, ToldIs
  <2>2. PICK m : m = ch[i] OBVIOUS
  <2>3. CASE m.nr = n BY <2>1, <2>2, <2>3 DEF Said
  <2>4. CASE m.nr # n BY <1>1, <2>1, <2>2, <2>4 DEF Said
  <2> QED BY <2>3, <2>4
<1>3. Once(ch, tk, q, D)
  <2>1. ASSUME NEW i \in 1..Len(ch), ch[i].a = "ms", ch[i].nr \notin D PROVE Single(ch, tk, q, ch[i], i)
    <3>1. Single(ch, tk, p, ch[i], i) BY <1>0, <2>1, OnceIs
    <3>2. ch[i].nr # n
      <4>1. Said(ch, wt, used, p, D, ch[i], i) BY <1>0, ToldIs
      <4> QED BY <2>1, <4>1 DEF Said
    <3> QED BY <1>1, <3>1, <3>2 DEF Single
  <2>2. ASSUME NEW k \in 1..Len(tk), tk[k].nr \notin D PROVE tk[k].nr # n
    <3>1. Serves(ch, td, tk[k], wt, used, p, D) BY <1>0, ServedIs
    <3> QED BY <2>2, <3>1 DEF Serves
  <2>3. Lone(tk, p, D) BY <1>0, OnceIs
  <2>4. Lone(tk, q, D) BY <1>1, <2>2, <2>3 DEF Lone
  <2> QED BY <2>1, <2>4, OnceIs
<1>4. Served(ch, td, tk, wt2, used \cup {n}, q, D)
  <2> SUFFICES ASSUME NEW k \in 1..Len(tk) PROVE Serves(ch, td, tk[k], wt2, used \cup {n}, q, D)
    BY ServedIs
  <2>1. Serves(ch, td, tk[k], wt, used, p, D) BY <1>0, ServedIs
  <2>2. CASE tk[k].nr = n BY <2>1, <2>2 DEF Serves
  <2>3. CASE tk[k].nr # n BY <1>1, <2>1, <2>3 DEF Serves
  <2> QED BY <2>2, <2>3
<1>5. Awaited(ch, td, tk, wt2, q, D)
  <2> SUFFICES ASSUME NEW nr \in DOMAIN wt2 \ D
      PROVE  \/ Comes(ch, q, "ms", nr, 0) \/ Ended(td, nr)
             \/ \E k \in 1..Len(tk) : tk[k].on = "on" /\ tk[k].nr = nr
    BY DEF Awaited
  <2>1. CASE nr = n BY <1>1, <2>1
  <2>2. CASE nr # n
    <3>1. nr \in DOMAIN wt \ D BY <2>2
    <3> QED BY <1>0, <1>1, <3>1 DEF Awaited
  <2> QED BY <2>1, <2>2
<1> QED BY <1>0, <1>2, <1>3, <1>4, <1>5 DEF Sync

\* It ends a subscription.
LEMMA SyncUnsubscribes ==
  ASSUME NEW ch, NEW td, NEW tk, NEW tb, NEW wt, NEW used, NEW D,
         NEW p, p.a \notin {"ms", "mu"}, NEW q, NEW n, Is(q, "mu", n),
         NEW wt2, DOMAIN wt2 = DOMAIN wt \ {n}, \A nr \in DOMAIN wt2 : wt2[nr] = wt[nr],
         Sync(ch, td, tk, tb, wt, used, p, D)
  PROVE  Sync(ch, td, tk, tb, wt2, used, q, D)
<1>0. /\ Told(ch, wt, used, p, D) /\ Once(ch, tk, p, D)
      /\ Served(ch, td, tk, wt, used, p, D) /\ Failed(td, tk, D)
      /\ Awaited(ch, td, tk, wt, p, D) /\ Leads(tk, tb, D)
  BY DEF Sync
<1>1. /\ \A a \in {"ms", "mu"} : \A nr, i : Comes(ch, p, a, nr, i) => Comes(ch, q, a, nr, i)
      /\ \A i : Comes(ch, q, "mu", n, i)
      /\ \A nr : ~Is(q, "ms", nr)
  BY DEF Comes, Is
<1>2. Told(ch, wt2, used, q, D)
  <2> SUFFICES ASSUME NEW i \in 1..Len(ch) PROVE Said(ch, wt2, used, q, D, ch[i], i)
    BY ToldIs
  <2>1. Said(ch, wt, used, p, D, ch[i], i) BY <1>0, ToldIs
  <2>2. CASE ch[i].nr = n BY <1>1, <2>1, <2>2 DEF Said
  <2>3. CASE ch[i].nr # n BY <1>1, <2>1, <2>3 DEF Said
  <2> QED BY <2>2, <2>3
<1>3. Once(ch, tk, q, D) BY <1>0, <1>1 DEF Once
<1>4. Served(ch, td, tk, wt2, used, q, D)
  <2> SUFFICES ASSUME NEW k \in 1..Len(tk) PROVE Serves(ch, td, tk[k], wt2, used, q, D)
    BY ServedIs
  <2>1. Serves(ch, td, tk[k], wt, used, p, D) BY <1>0, ServedIs
  <2>2. CASE tk[k].nr = n BY <1>1, <2>1, <2>2 DEF Serves
  <2>3. CASE tk[k].nr # n BY <1>1, <2>1, <2>3 DEF Serves
  <2> QED BY <2>2, <2>3
<1>5. Awaited(ch, td, tk, wt2, q, D) BY <1>0, <1>1 DEF Awaited
<1> QED BY <1>0, <1>2, <1>3, <1>4, <1>5 DEF Sync

\* The device reads that the task of n has failed, and ends its subscription.
LEMMA SyncRemoves ==
  ASSUME NEW ch, NEW td \in Seq(Parcels), td # <<>>, NEW tk, NEW tb, NEW wt, NEW used, NEW p, NEW D,
         NEW n, Is(Head(td), "mu", n), n \notin D => ~Is(p, "ms", n),
         NEW wt2, DOMAIN wt2 = DOMAIN wt \ {n}, \A nr \in DOMAIN wt2 : wt2[nr] = wt[nr],
         Sync(ch, td, tk, tb, wt, used, p, D)
  PROVE  Sync(ch, Tail(td), tk, tb, wt2, used, p, D)
<1>0. /\ Told(ch, wt, used, p, D) /\ Once(ch, tk, p, D)
      /\ Served(ch, td, tk, wt, used, p, D) /\ Failed(td, tk, D)
      /\ Awaited(ch, td, tk, wt, p, D) /\ Leads(tk, tb, D)
  BY DEF Sync
<1>1. \A nr : /\ Ended(Tail(td), nr) => Ended(td, nr)
              /\ Ended(td, nr) /\ nr # n => Ended(Tail(td), nr)
  BY EndedTail DEF Is
<1>2. n \notin D => Gone(tk, n)
  <2>1. 1 \in 1..Len(td) /\ Head(td) = td[1] BY TailFacts
  <2>2. Ended(td, n) BY <2>1 DEF Ended
  <2> QED BY <1>0, <2>2, FailedIs
<1>3. Told(ch, wt2, used, p, D)
  <2> SUFFICES ASSUME NEW i \in 1..Len(ch) PROVE Said(ch, wt2, used, p, D, ch[i], i)
    BY ToldIs
  <2>1. Said(ch, wt, used, p, D, ch[i], i) BY <1>0, ToldIs
  <2>2. CASE ch[i].nr = n
    <3>1. ASSUME n \notin D PROVE ch[i].a # "ms"
      <4> SUFFICES ASSUME ch[i].a = "ms" PROVE FALSE OBVIOUS
      <4>1. Single(ch, tk, p, ch[i], i) BY <1>0, <2>2, <3>1, OnceIs
      <4> QED BY <1>2, <2>2, <3>1, <4>1 DEF Single, Gone
    <3> QED BY <2>1, <2>2, <3>1 DEF Said
  <2>3. CASE ch[i].nr # n BY <2>1, <2>3 DEF Said
  <2> QED BY <2>2, <2>3
<1>4. Served(ch, Tail(td), tk, wt2, used, p, D)
  <2> SUFFICES ASSUME NEW k \in 1..Len(tk) PROVE Serves(ch, Tail(td), tk[k], wt2, used, p, D)
    BY ServedIs
  <2>1. Serves(ch, td, tk[k], wt, used, p, D) BY <1>0, ServedIs
  <2>2. CASE tk[k].nr = n
    <3>1. ASSUME n \notin D PROVE tk[k].on # "on"
      <4>1. Lone(tk, p, D) BY <1>0, OnceIs
      <4>2. PICK l \in 1..Len(tk) : tk[l].nr = n /\ tk[l].on # "on" BY <1>2, <3>1 DEF Gone
      <4>3. l = k BY <2>2, <3>1, <4>1, <4>2 DEF Lone
      <4> QED BY <4>2, <4>3
    <3> QED BY <2>1, <2>2, <3>1 DEF Serves
  <2>3. CASE tk[k].nr # n BY <1>1, <2>1, <2>3 DEF Serves
  <2> QED BY <2>2, <2>3
<1>5. Failed(Tail(td), tk, D) BY <1>0, <1>1, FailedIs
<1>6. Awaited(ch, Tail(td), tk, wt2, p, D) BY <1>0, <1>1 DEF Awaited
<1> QED BY <1>0, <1>3, <1>4, <1>5, <1>6 DEF Sync

\* What opened sends: each subscription once, without r, and nothing else.
Again(nr) == MS(nr, subs[nr], FALSE)

LEMMA AgainIs ==
  ASSUME NEW nr
  PROVE  Again(nr).a = "ms" /\ Again(nr).nr = nr /\ Again(nr).t = subs[nr] /\ Again(nr).r = FALSE
BY DEF Again, MS, Msg

LEMMA Resubscribes ==
  ASSUME DeviceTyped
  PROVE  /\ \A k \in 1..Len(Resubscriptions) :
              \E nr \in DOMAIN subs : Resubscriptions[k] = Again(nr)
         /\ \A nr \in DOMAIN subs :
              \E k \in 1..Len(Resubscriptions) : Resubscriptions[k] = Again(nr)
         /\ \A k, l \in 1..Len(Resubscriptions) :
              Resubscriptions[k].nr = Resubscriptions[l].nr => k = l
<1> DEFINE S == DOMAIN subs
           nrs == SetToSeq(S)
           n == Cardinality(S)
<1>1. n \in Nat /\ ExistsBijection(1..n, S) /\ IsFiniteSet(S)
  BY FS_CardinalityType DEF DeviceTyped, SubsTyped
<1>2. \E f \in [1..n -> S] : IsInjective(f)
  BY <1>1 DEF ExistsBijection, Bijection, Injection, IsInjective
<1>3. nrs \in [1..n -> S] /\ IsInjective(nrs)
  BY <1>2 DEF SetToSeq
<1>4. nrs \in Injection(1..n, S)
  BY <1>3 DEF Injection, IsInjective
<1>5. Cardinality(1..n) = n BY <1>1, FS_Interval
<1>6. nrs \in Surjection(1..n, S) BY <1>1, <1>4, <1>5, FS_Injection
<1>7. \A nr \in S : \E k \in 1..n : nrs[k] = nr BY <1>6 DEF Surjection
<1>8. Len(nrs) = n BY <1>1, <1>3
<1>9. Resubscriptions = [k \in 1..n |-> Again(nrs[k])]
  BY <1>8 DEF Resubscriptions, Again
<1>10. Len(Resubscriptions) = n /\ \A k \in 1..n : Resubscriptions[k] = Again(nrs[k])
  BY <1>1, <1>9
<1>11. \A k, l \in 1..n : nrs[k] = nrs[l] => k = l BY <1>3 DEF IsInjective
<1> HIDE DEF nrs, n
<1>12. \A k \in 1..n : Resubscriptions[k].nr = nrs[k] BY <1>10, AgainIs
<1> QED BY <1>3, <1>7, <1>10, <1>11, <1>12

\* A new client hears of all subscriptions.
LEMMA SyncOpens ==
  ASSUME NEW ch \in Seq(Parcels), NEW rs \in Seq(Parcels), NEW td, NEW wt, NEW used, NEW p, NEW D,
         \A j \in 1..Len(td) : td[j].a # "mu",
         DOMAIN wt \subseteq used, \A nr : nr \notin D => ~Is(p, "ms", nr),
         \A i \in 1..Len(ch) : ch[i].a \notin {"ms", "mu"},
         \A k \in 1..Len(rs) : rs[k].a = "ms" /\ rs[k].nr \in DOMAIN wt /\ What(rs[k]) = wt[rs[k].nr],
         \A nr \in DOMAIN wt : \E k \in 1..Len(rs) : rs[k].nr = nr,
         \A k, l \in 1..Len(rs) : rs[k].nr = rs[l].nr => k = l
  PROVE  Sync(ch \o rs, td, <<>>, <<>>, wt, used, p, D)
<1> DEFINE ch2 == ch \o rs
<1>0. /\ Len(ch) \in Nat /\ Len(rs) \in Nat /\ Len(ch2) = Len(ch) + Len(rs)
      /\ \A i \in 1..Len(ch2) :
           ch2[i] = IF i <= Len(ch) THEN ch[i] ELSE rs[i - Len(ch)]
  OBVIOUS
<1> HIDE DEF ch2
<1>1. ASSUME NEW i \in 1..Len(ch2), ch2[i].a \in {"ms", "mu"}
      PROVE  i - Len(ch) \in 1..Len(rs) /\ ch2[i] = rs[i - Len(ch)]
  BY <1>0, <1>1
<1>2. Told(ch2, wt, used, p, D)
  <2> SUFFICES ASSUME NEW i \in 1..Len(ch2), ch2[i].a \in {"ms", "mu"}
      PROVE  Said(ch2, wt, used, p, D, ch2[i], i)
    BY ToldIs DEF Said
  <2>1. ch2[i].a = "ms" /\ ch2[i].nr \in DOMAIN wt /\ What(ch2[i]) = wt[ch2[i].nr]
    BY <1>1
  <2> QED BY <2>1 DEF Said
<1>3. Awaited(ch2, td, <<>>, wt, p, D)
  <2> SUFFICES ASSUME NEW nr \in DOMAIN wt PROVE Comes(ch2, p, "ms", nr, 0)
    BY DEF Awaited
  <2>1. PICK k \in 1..Len(rs) : rs[k].nr = nr OBVIOUS
  <2>2. PICK j \in Int : j = Len(ch) + k BY <1>0
  <2>3. j \in 0 + 1..Len(ch2) /\ ~(j <= Len(ch)) /\ j - Len(ch) = k
    BY <1>0, <2>2
  <2>4. ch2[j] = rs[k] BY <1>0, <2>3
  <2>5. Is(ch2[j], "ms", nr) BY <2>1, <2>4 DEF Is
  <2> QED BY <2>3, <2>5 DEF Comes
<1>4. /\ Served(ch2, td, <<>>, wt, used, p, D) /\ Leads(<<>>, <<>>, D)
      /\ Failed(td, <<>>, D)
  BY DEF Served, Leads, Failed
<1>5. Once(ch2, <<>>, p, D)
  <2>1. Lone(<<>>, p, D) BY DEF Lone
  <2>2. ASSUME NEW i \in 1..Len(ch2), ch2[i].a = "ms", ch2[i].nr \notin D
        PROVE  Single(ch2, <<>>, p, ch2[i], i)
    <3>1. ASSUME NEW j \in 1..Len(ch2), Is(ch2[j], "ms", ch2[i].nr) PROVE j = i
      <4>1. ch2[j].a = "ms" /\ ch2[j].nr = ch2[i].nr BY <3>1 DEF Is
      <4>2. /\ i - Len(ch) \in 1..Len(rs) /\ ch2[i] = rs[i - Len(ch)]
            /\ j - Len(ch) \in 1..Len(rs) /\ ch2[j] = rs[j - Len(ch)]
        BY <1>1, <2>2, <4>1
      <4>3. i - Len(ch) = j - Len(ch) BY <4>1, <4>2
      <4> QED BY <1>0, <4>3
    <3> QED BY <2>2, <3>1 DEF Single
  <2> QED BY <2>1, <2>2, OnceIs
<1> QED BY <1>2, <1>3, <1>4, <1>5 DEF Sync, ch2

-----------------------------------------------------------------------------
(* The steps of the multiplexers.                                          *)

LEMMA TablesTyped ==
  ASSUME TrackInv, NEW c \in Conns
  PROVE  fromDev[c] \in Seq(Parcels) /\ toDev[c] \in Seq(Parcels) /\ tasks[c] \in Seq(Task)
BY DEF TrackInv, NetTyped, MuxTyped

\* What concerns the device alone
LEMMA Undisturbed ==
  ASSUME UNCHANGED devVars, raw' = raw
  PROVE  /\ UNCHANGED <<sock, stuck, client, clients, subs, asked, prog>>
         /\ Want' = Want /\ \A d : Pend(d)' = Pend(d)
BY DEF devVars, connVars, subVars, Want, Pend, Sending

LEMMA EndingIs ==
  Ending <=> \A c \in Conns : client = c =>
               \A nr : Ended(toDev[c], nr) =>
                 nr \in DOMAIN asked /\ (nr \notin adrift => ~Is(Pend(c), "ms", nr))
BY DEF Ending, Ended, Is

\* No end comes to the client that did not, and the program is about to
\* subscribe to no number that it was not, but new ones.
LEMMA EndingFrame ==
  ASSUME Ending, DOMAIN asked \subseteq DOMAIN asked', adrift \subseteq adrift',
         NEW N, \A nr \in N : nr \notin DOMAIN asked \/ nr \in adrift',
         \A d \in Conns : client' = d =>
           /\ client = d
           /\ \A nr : Ended(toDev'[d], nr) => Ended(toDev[d], nr)
           /\ \A nr : Is(Pend(d)', "ms", nr) => Is(Pend(d), "ms", nr) \/ nr \in N
  PROVE  Ending'
<1> SUFFICES ASSUME NEW d \in Conns, client' = d, NEW nr, Ended(toDev'[d], nr)
    PROVE  nr \in DOMAIN asked' /\ (nr \notin adrift' => ~Is(Pend(d)', "ms", nr))
  BY DEF Ending, Ended, Is
<1>1. client = d /\ Ended(toDev[d], nr) OBVIOUS
<1>2. nr \in DOMAIN asked /\ (nr \notin adrift => ~Is(Pend(d), "ms", nr))
  BY <1>1, EndingIs
<1> QED BY <1>2

LEMMA MuxAgrees ==
  ASSUME AgreeInv, ~raced, UNCHANGED devVars, raw' = raw, adrift \subseteq adrift',
         DOMAIN msubs' = Conns,
         \A d \in Conns : Waiting(d)' => Waiting(d),
         \A d \in Conns : Waiting(d) /\ Unknown(d) => Unknown(d)',
         Ending', Ceased',
         \A d \in Conns : client = d /\ d \notin stuck /\ mux'[d] # "ended" => InSync(d)'
  PROVE  AgreeInv'
<1>1. Telling /\ Packing /\ Unheard /\ Known BY DEF AgreeInv
<1>2. /\ UNCHANGED <<sock, stuck, client, clients, subs, asked, prog>> /\ Want' = Want
  BY Undisturbed
<1>3. Telling' BY <1>1, <1>2 DEF Telling
<1>4. Packing' /\ Known' BY <1>1, <1>2 DEF Packing, Known
<1>5. Unheard' BY <1>1 DEF Unheard
<1> QED BY <1>2, <1>3, <1>4, <1>5 DEF AgreeInv

\* A step of one multiplexer, which says nothing new to the device
LEMMA MuxAgreesAt ==
  ASSUME TrackInv, AgreeInv, ~raced, NEW c \in Conns, UNCHANGED devVars, raw' = raw,
         adrift \subseteq adrift', DOMAIN msubs' = Conns,
         \A d \in Conns : d # c => /\ mux'[d] = mux[d] /\ fromDev'[d] = fromDev[d]
                                   /\ toDev'[d] = toDev[d]
                                   /\ tasks'[d] = tasks[d] /\ msubs'[d] = msubs[d],
         mux'[c] = "off" => mux[c] = "off",
         HelloComes(c)' => HelloComes(c),
         \A nr : Ended(toDev'[c], nr) => Ended(toDev[c], nr),
         Waiting(c) /\ Unknown(c) => Unknown(c)',
         mux'[c] = "ended" => tasks'[c] = <<>>,
         mux'[c] # "ended" => mux[c] # "ended",
         mux'[c] # "ended" /\ InSync(c) => InSync(c)'
  PROVE  AgreeInv'
<1>1. /\ UNCHANGED <<sock, stuck, client, clients, subs, asked, prog>> /\ Want' = Want
      /\ \A d : Pend(d)' = Pend(d)
  BY Undisturbed
<1>2. /\ Ending /\ Ceased
      /\ \A d \in Conns : client = d /\ d \notin stuck /\ mux[d] # "ended" => InSync(d)
  BY DEF AgreeInv
<1>3. \A d \in Conns : HelloComes(d)' => HelloComes(d) BY DEF HelloComes
<1>4. \A d \in Conns : Waiting(d)' => Waiting(d) BY <1>1, <1>3 DEF Waiting
<1>5. \A d \in Conns : Waiting(d) /\ Unknown(d) => Unknown(d)' BY <1>1 DEF Unknown
<1>6. Ending'
  <2>1. \A d \in Conns : client' = d =>
           /\ client = d
           /\ \A nr : Ended(toDev'[d], nr) => Ended(toDev[d], nr)
           /\ \A nr : Is(Pend(d)', "ms", nr) => Is(Pend(d), "ms", nr) \/ nr \in {}
    BY <1>1
  <2>2. DOMAIN asked \subseteq DOMAIN asked' BY <1>1
  <2> QED BY <1>2, <2>1, <2>2, EndingFrame
<1>7. Ceased' BY <1>2 DEF Ceased
<1>8. ASSUME NEW d \in Conns, client = d, d \notin stuck, mux'[d] # "ended" PROVE InSync(d)'
  <2>1. CASE d = c BY <1>2, <1>8, <2>1
  <2>2. CASE d # c
    <3>1. Sync(fromDev[d], toDev[d], tasks[d], msubs[d], Want, DOMAIN asked, Pend(d), adrift)
      BY <1>2, <1>8, <2>2 DEF InSync
    <3>2. Sync(fromDev[d], toDev[d], tasks[d], msubs[d], Want, DOMAIN asked, Pend(d), adrift')
      BY <3>1, SyncLess
    <3> QED BY <1>1, <2>2, <3>2 DEF InSync
  <2> QED BY <2>1, <2>2
<1> QED BY <1>4, <1>5, <1>6, <1>7, <1>8, MuxAgrees

\* What the reader finds, and leaves
LEMMA ReadingAgrees ==
  ASSUME TrackInv, NEW c \in Conns, NEW a, Reading(c, a)
  PROVE  /\ UNCHANGED devVars /\ UNCHANGED <<toDev, raced, raw>>
         /\ fromDev[c] # <<>> /\ Head(fromDev[c]).a \in a
         /\ mux[c] # "ended" /\ mux[c] # "off"
         /\ fromDev'[c] = Tail(fromDev[c])
         /\ \A d \in Conns : d # c => fromDev'[d] = fromDev[d]
         /\ HelloComes(c)' => HelloComes(c)
         /\ Unknown(c) => /\ Head(fromDev[c]).a \notin {"ms", "mu"}
                          /\ \A i \in 1..Len(fromDev'[c]) : fromDev'[c][i].a \notin {"ms", "mu"}
<1>0. /\ UNCHANGED devVars /\ UNCHANGED <<toDev, raced, raw>>
      /\ fromDev[c] # <<>> /\ Head(fromDev[c]).a \in a
      /\ mux[c] \in {"init", "up"}
      /\ fromDev' = [fromDev EXCEPT ![c] = Tail(@)]
  BY DEF Reading
<1>1. fromDev[c] \in Seq(Parcels) BY TablesTyped
<1>2. /\ fromDev'[c] = Tail(fromDev[c])
      /\ \A d \in Conns : d # c => fromDev'[d] = fromDev[d]
  BY <1>0 DEF TrackInv, NetTyped
<1>3. ASSUME Unknown(c)
      PROVE  /\ Head(fromDev[c]).a \notin {"ms", "mu"}
             /\ \A i \in 1..Len(fromDev'[c]) : fromDev'[c][i].a \notin {"ms", "mu"}
  <2>1. /\ Len(fromDev[c]) \in Nat \ {0} /\ Len(Tail(fromDev[c])) = Len(fromDev[c]) - 1
        /\ Head(fromDev[c]) = fromDev[c][1]
        /\ \A j \in 1..Len(fromDev[c]) - 1 : Tail(fromDev[c])[j] = fromDev[c][j + 1]
    BY <1>0, <1>1, TailFacts
  <2>2. \A i \in 1..Len(fromDev[c]) : fromDev[c][i].a \notin {"ms", "mu"}
    BY <1>3 DEF Unknown
  <2>3. 1 \in 1..Len(fromDev[c]) /\ \A j \in 1..Len(fromDev[c]) - 1 : j + 1 \in 1..Len(fromDev[c])
    BY <2>1
  <2> QED BY <1>2, <2>1, <2>2, <2>3
<1>4. HelloComes(c)' => HelloComes(c) BY <1>0 DEF HelloComes
<1> QED BY <1>0, <1>2, <1>3, <1>4

\* A step of the reader that says nothing to the device
LEMMA ReadsAgree ==
  ASSUME TrackInv, AgreeInv, ~raced, NEW c \in Conns, NEW a, Reading(c, a),
         adrift \subseteq adrift', DOMAIN msubs' = Conns, mux'[c] \notin {"off", "ended"},
         \A d \in Conns : d # c => mux'[d] = mux[d] /\ tasks'[d] = tasks[d] /\ msubs'[d] = msubs[d],
         Unknown(c) => tasks'[c] = <<>> /\ msubs'[c] = <<>>,
         Sync(fromDev[c], toDev[c], tasks[c], msubs[c], Want, DOMAIN asked, Pend(c), adrift)
         => Sync(Tail(fromDev[c]), toDev[c], tasks'[c], msubs'[c], Want, DOMAIN asked, Pend(c), adrift')
  PROVE  AgreeInv'
<1>1. /\ UNCHANGED devVars /\ UNCHANGED <<toDev, raced, raw>>
      /\ mux[c] # "ended" /\ mux[c] # "off"
      /\ fromDev'[c] = Tail(fromDev[c])
      /\ \A d \in Conns : d # c => fromDev'[d] = fromDev[d]
      /\ HelloComes(c)' => HelloComes(c)
      /\ Unknown(c) => \A i \in 1..Len(fromDev'[c]) : fromDev'[c][i].a \notin {"ms", "mu"}
  BY ReadingAgrees
<1>2. Want' = Want /\ Pend(c)' = Pend(c) /\ UNCHANGED <<asked, prog>> BY <1>1, Undisturbed
<1>3. InSync(c) => InSync(c)' BY <1>1, <1>2 DEF InSync
<1>4. Unknown(c) => Unknown(c)' BY <1>1, <1>2 DEF Unknown
<1> QED BY <1>1, <1>3, <1>4, MuxAgreesAt

LEMMA MuxHelloAgrees ==
  ASSUME TrackInv, AgreeInv, ~raced, NEW c \in Conns, MuxHello(c)
  PROVE  AgreeInv'
<1>1. /\ Reading(c, {"h"}) /\ UNCHANGED <<tasks, msubs, adrift>>
      /\ mux' = [mux EXCEPT ![c] = "up"]
  BY DEF MuxHello
<1>2. /\ mux'[c] = "up" /\ \A d \in Conns : d # c => mux'[d] = mux[d]
      /\ DOMAIN msubs' = Conns
  BY <1>1 DEF TrackInv, MuxTyped, AgreeInv
<1>3. fromDev[c] \in Seq(Parcels) /\ fromDev[c] # <<>> /\ Head(fromDev[c]).a = "h"
  BY <1>1, TablesTyped, ReadingAgrees
<1>4. Sync(fromDev[c], toDev[c], tasks[c], msubs[c], Want, DOMAIN asked, Pend(c), adrift)
      => Sync(Tail(fromDev[c]), toDev[c], tasks[c], msubs[c], Want, DOMAIN asked, Pend(c), adrift)
  BY <1>3, SyncTakes
<1>5. Unknown(c) => tasks'[c] = <<>> /\ msubs'[c] = <<>> BY <1>1 DEF Unknown
<1> QED BY <1>1, <1>2, <1>4, <1>5, ReadsAgree

\* The broker refuses: if it was a subscription, its number is adrift.
LEMMA MuxRefusedAgrees ==
  ASSUME TrackInv, AgreeInv, ~raced, NEW c \in Conns, MuxRefused(c)
  PROVE  AgreeInv'
<1>1. /\ Reading(c, {"ms", "m"}) /\ UNCHANGED <<mux, tasks, msubs>>
      /\ adrift' = IF Head(fromDev[c]).a = "ms" THEN adrift \cup {Head(fromDev[c]).nr} ELSE adrift
  BY DEF MuxRefused
<1>2. /\ fromDev[c] \in Seq(Parcels) /\ fromDev[c] # <<>> /\ Head(fromDev[c]).a \in {"ms", "m"}
      /\ mux[c] \notin {"off", "ended"}
  BY <1>1, TablesTyped, ReadingAgrees
<1>3. adrift \subseteq adrift' /\ (Head(fromDev[c]).a \notin {"ms", "mu"} \/ Head(fromDev[c]).nr \in adrift')
  BY <1>1, <1>2
<1>4. ASSUME Sync(fromDev[c], toDev[c], tasks[c], msubs[c], Want, DOMAIN asked, Pend(c), adrift)
      PROVE  Sync(Tail(fromDev[c]), toDev[c], tasks[c], msubs[c], Want, DOMAIN asked, Pend(c), adrift')
  <2>1. Sync(fromDev[c], toDev[c], tasks[c], msubs[c], Want, DOMAIN asked, Pend(c), adrift')
    BY <1>3, <1>4, SyncLess
  <2> QED BY <1>2, <1>3, <2>1, SyncTakes
<1>5. Unknown(c) => tasks'[c] = <<>> /\ msubs'[c] = <<>> BY <1>1 DEF Unknown
<1>6. DOMAIN msubs' = Conns BY <1>1 DEF AgreeInv
<1> QED BY <1>1, <1>2, <1>3, <1>4, <1>5, <1>6, ReadsAgree

LEMMA MuxMSAgrees ==
  ASSUME TrackInv, AgreeInv, ~raced, NEW c \in Conns, MuxMS(c)
  PROVE  AgreeInv'
<1>0. PICK m : m = Head(fromDev[c]) OBVIOUS
<1>1. PICK f : f = [nr |-> m.nr, t |-> m.t, r |-> m.r, on |-> "on", q |-> <<>>] OBVIOUS
<1>2. /\ Reading(c, {"ms"}) /\ UNCHANGED <<mux, adrift>>
      /\ tasks' = [tasks EXCEPT ![c] = Append(@, f)]
      /\ msubs' = [msubs EXCEPT ![c] = With(@, m.nr, Len(tasks'[c]))]
  BY <1>0, <1>1 DEF MuxMS
<1>3. /\ fromDev[c] # <<>> /\ m.a = "ms" /\ mux[c] \notin {"off", "ended"}
      /\ Unknown(c) => m.a \notin {"ms", "mu"}
  BY <1>0, <1>2, ReadingAgrees
<1>4. fromDev[c] \in Seq(Parcels) /\ tasks[c] \in Seq(Task) BY TablesTyped
<1>5. m \in Parcels BY <1>0, <1>3, <1>4, TailFacts
<1>6. f \in Task
  <2>1. <<>> \in Seq(Copies) OBVIOUS
  <2> QED BY <1>1, <1>5, <2>1 DEF Task, Parcels
<1>7. f.nr = m.nr /\ What(f) = What(m) /\ f.on = "on" BY <1>1 DEF What
<1>8. tasks'[c] = Append(tasks[c], f) /\ \A d \in Conns : d # c => tasks'[d] = tasks[d]
  BY <1>2 DEF TrackInv, MuxTyped
<1>9. Len(tasks'[c]) = Len(tasks[c]) + 1 BY <1>4, <1>6, <1>8
<1>10. /\ DOMAIN msubs' = Conns
       /\ msubs'[c] = With(msubs[c], f.nr, Len(tasks[c]) + 1)
       /\ \A d \in Conns : d # c => msubs'[d] = msubs[d]
  BY <1>2, <1>7, <1>9 DEF AgreeInv
<1>11. ASSUME Sync(fromDev[c], toDev[c], tasks[c], msubs[c], Want, DOMAIN asked, Pend(c), adrift)
       PROVE  Sync(Tail(fromDev[c]), toDev[c], tasks'[c], msubs'[c], Want, DOMAIN asked, Pend(c), adrift)
  <2>1. Head(fromDev[c]).a = "ms" /\ f.nr = Head(fromDev[c]).nr /\ What(f) = What(Head(fromDev[c]))
    BY <1>0, <1>3, <1>7
  <2>2. Sync(Tail(fromDev[c]), toDev[c], Append(tasks[c], f), With(msubs[c], f.nr, Len(tasks[c]) + 1),
             Want, DOMAIN asked, Pend(c), adrift)
    BY <1>3, <1>4, <1>6, <1>7, <1>11, <2>1, SyncMS
  <2> QED BY <1>8, <1>10, <2>2
<1>12. ~Unknown(c) BY <1>3
<1> QED BY <1>2, <1>3, <1>8, <1>10, <1>11, <1>12, ReadsAgree

LEMMA MuxMUAgrees ==
  ASSUME TrackInv, AgreeInv, ~raced, NEW c \in Conns, MuxMU(c)
  PROVE  AgreeInv'
<1>0. PICK n : n = Head(fromDev[c]).nr OBVIOUS
<1>1. /\ Reading(c, {"mu"}) /\ UNCHANGED <<mux, msubs, adrift>>
      /\ tasks' = IF n \in DOMAIN msubs[c] /\ tasks[c][msubs[c][n]].on = "on"
                  THEN [tasks EXCEPT ![c][msubs[c][n]].on = "leaving"] ELSE tasks
  BY <1>0 DEF MuxMU
<1>2. /\ fromDev[c] # <<>> /\ Head(fromDev[c]).a = "mu" /\ mux[c] \notin {"off", "ended"}
      /\ Unknown(c) => Head(fromDev[c]).a \notin {"ms", "mu"}
  BY <1>1, ReadingAgrees
<1>3. fromDev[c] \in Seq(Parcels) /\ tasks[c] \in Seq(Task) BY TablesTyped
<1>4. \A d \in Conns : d # c => tasks'[d] = tasks[d]
  BY <1>1 DEF TrackInv, MuxTyped
<1>5. ASSUME Sync(fromDev[c], toDev[c], tasks[c], msubs[c], Want, DOMAIN asked, Pend(c), adrift)
      PROVE  Sync(Tail(fromDev[c]), toDev[c], tasks'[c], msubs[c], Want, DOMAIN asked, Pend(c), adrift)
  <2>1. n \in DOMAIN msubs[c] => msubs[c][n] \in 1..Len(tasks[c])
    BY <1>5 DEF Sync, Leads
  <2>2. PICK tk2 : tk2 = tasks'[c] OBVIOUS
  <2>3. /\ Same(tasks[c], tk2)
        /\ \A k \in 1..Len(tasks[c]) :
             tk2[k].on = IF n \in DOMAIN msubs[c] /\ k = msubs[c][n] /\ tasks[c][k].on = "on"
                         THEN "leaving" ELSE tasks[c][k].on
    <3>1. CASE ~(n \in DOMAIN msubs[c] /\ tasks[c][msubs[c][n]].on = "on")
      BY <1>1, <1>3, <2>2, <3>1 DEF Same
    <3>2. CASE n \in DOMAIN msubs[c] /\ tasks[c][msubs[c][n]].on = "on"
      <4>1. PICK l \in 1..Len(tasks[c]) : l = msubs[c][n] BY <2>1, <3>2
      <4>2. PICK g : g = [tasks[c][l] EXCEPT !.on = "leaving"] OBVIOUS
      <4>3. tasks[c][l] \in Task BY <1>3
      <4>4. g \in Task /\ g.nr = tasks[c][l].nr /\ What(g) = What(tasks[c][l]) /\ g.on = "leaving"
        BY <4>2, <4>3 DEF Task, What
      <4>5. tk2 = [tasks[c] EXCEPT ![l] = g]
        BY <1>1, <2>2, <3>2, <4>1, <4>2 DEF TrackInv, MuxTyped
      <4>6. /\ Len(tk2) = Len(tasks[c])
            /\ \A k \in 1..Len(tasks[c]) : tk2[k] = IF k = l THEN g ELSE tasks[c][k]
        BY <1>3, <4>4, <4>5
      <4> QED BY <3>2, <4>1, <4>4, <4>6 DEF Same
    <3> QED BY <3>1, <3>2
  <2>4. Sync(Tail(fromDev[c]), toDev[c], tk2, msubs[c], Want, DOMAIN asked, Pend(c), adrift)
    <3>1. \A k \in 1..Len(tasks[c]) :
            tk2[k].on = IF /\ Head(fromDev[c]).nr \in DOMAIN msubs[c] /\ k = msubs[c][Head(fromDev[c]).nr]
                           /\ tasks[c][k].on = "on"
                        THEN "leaving" ELSE tasks[c][k].on
      BY <1>0, <2>3
    <3> QED BY <1>2, <1>3, <1>5, <2>3, <3>1, SyncMU
  <2> QED BY <2>2, <2>4
<1>6. ~Unknown(c) BY <1>2
<1>7. DOMAIN msubs' = Conns BY <1>1 DEF AgreeInv
<1> QED BY <1>1, <1>2, <1>4, <1>5, <1>6, <1>7, ReadsAgree

\* The table of tasks with one task changed
LEMMA TaskChanges ==
  ASSUME TrackInv, NEW c \in Conns, NEW k \in DOMAIN tasks[c], NEW g \in Task,
         g.nr = tasks[c][k].nr, What(g) = What(tasks[c][k]),
         tasks'[c] = [tasks[c] EXCEPT ![k] = g]
  PROVE  /\ k \in 1..Len(tasks[c]) /\ tasks[c] # <<>>
         /\ Same(tasks[c], tasks'[c])
         /\ \A l \in 1..Len(tasks[c]) : tasks'[c][l].on = IF l = k THEN g.on ELSE tasks[c][l].on
<1>1. tasks[c] \in Seq(Task) BY TablesTyped
<1>2. k \in 1..Len(tasks[c]) /\ tasks[c] # <<>> BY <1>1
<1>4. PICK tk2 : tk2 = tasks'[c] OBVIOUS
<1>5. /\ Len(tk2) = Len(tasks[c])
      /\ \A l \in 1..Len(tasks[c]) : tk2[l] = IF l = k THEN g ELSE tasks[c][l]
  BY <1>1, <1>2, <1>4
<1>6. Same(tasks[c], tk2) BY <1>5 DEF Same
<1> QED BY <1>2, <1>4, <1>5, <1>6

\* What a task of TaskEnds and TaskFails becomes
LEMMA BecomesAgrees ==
  ASSUME TrackInv, NEW c \in Conns, NEW k \in DOMAIN tasks[c], NEW on \in {"on", "leaving", "ended"},
         Becomes(c, k, on)
  PROVE  /\ UNCHANGED devVars /\ UNCHANGED <<mux, fromDev, raw, raced, adrift>>
         /\ k \in 1..Len(tasks[c]) /\ tasks[c] # <<>>
         /\ \A d \in Conns : d # c => tasks'[d] = tasks[d]
         /\ Same(tasks[c], tasks'[c])
         /\ \A l \in 1..Len(tasks[c]) : tasks'[c][l].on = IF l = k THEN on ELSE tasks[c][l].on
<1>1. PICK g : g = [tasks[c][k] EXCEPT !.on = on, !.q = <<>>] OBVIOUS
<1>2. /\ tasks[c][k] \in Task /\ g \in Task
      /\ tasks'[c] = [tasks[c] EXCEPT ![k] = g] /\ \A d \in Conns : d # c => tasks'[d] = tasks[d]
  <2>1. tasks[c][k] \in Task /\ [tasks[c][k] EXCEPT !.on = on, !.q = <<>>] \in Task
    BY BecomesTyped
  <2>2. tasks' = [tasks EXCEPT ![c] = [tasks[c] EXCEPT ![k] = g]]
    <3>1. tasks[c] \in Seq(Task) BY TablesTyped
    <3> QED BY <1>1, <2>1, <3>1 DEF Becomes, TrackInv, MuxTyped, Task
  <2> QED BY <1>1, <2>1, <2>2 DEF TrackInv, MuxTyped
<1>3. g.nr = tasks[c][k].nr /\ What(g) = What(tasks[c][k]) /\ g.on = on
  BY <1>1, <1>2 DEF Task, What
<1>4. UNCHANGED devVars /\ UNCHANGED <<mux, fromDev, raw, raced, adrift>>
  BY DEF Becomes, history
<1> QED BY <1>2, <1>3, <1>4, TaskChanges

LEMMA TaskEndsAgrees ==
  ASSUME TrackInv, AgreeInv, ~raced, NEW c \in Conns, NEW k \in DOMAIN tasks[c], TaskEnds(c, k)
  PROVE  AgreeInv'
<1>1. /\ tasks[c][k].on = "leaving" /\ Becomes(c, k, "ended") /\ toDev' = toDev
      /\ msubs' = [msubs EXCEPT ![c] = Without(@, tasks[c][k].nr)]
  BY DEF TaskEnds
<1>2. /\ UNCHANGED devVars /\ UNCHANGED <<mux, fromDev, raw, raced, adrift>>
      /\ k \in 1..Len(tasks[c]) /\ tasks[c] # <<>>
      /\ \A d \in Conns : d # c => tasks'[d] = tasks[d]
      /\ Same(tasks[c], tasks'[c])
      /\ \A l \in 1..Len(tasks[c]) : tasks'[c][l].on = IF l = k THEN "ended" ELSE tasks[c][l].on
  BY <1>1, BecomesAgrees
<1>3. /\ DOMAIN msubs' = Conns
      /\ msubs'[c] = Without(msubs[c], tasks[c][k].nr)
      /\ \A d \in Conns : d # c => msubs'[d] = msubs[d]
  BY <1>1 DEF AgreeInv
<1>4. Want' = Want /\ Pend(c)' = Pend(c) /\ UNCHANGED <<asked, prog>> BY <1>2, Undisturbed
<1>5. ASSUME InSync(c) PROVE InSync(c)'
  <2>1. tasks[c] \in Seq(Task) BY TablesTyped
  <2>2. PICK tk2 : tk2 = tasks'[c] OBVIOUS
  <2>3. Sync(fromDev[c], toDev[c], tk2, Without(msubs[c], tasks[c][k].nr), Want, DOMAIN asked, Pend(c), adrift)
    BY <1>1, <1>2, <1>5, <2>1, <2>2, SyncEnds DEF InSync
  <2> QED BY <1>1, <1>2, <1>3, <1>4, <2>2, <2>3 DEF InSync
<1>6. ~Unknown(c) BY <1>2 DEF Unknown
<1>7. /\ HelloComes(c)' => HelloComes(c)
      /\ mux'[c] = "ended" => tasks'[c] = <<>>
  BY <1>1, <1>2 DEF HelloComes, AgreeInv, Ceased
<1> QED BY <1>1, <1>2, <1>3, <1>5, <1>6, <1>7, MuxAgreesAt

\* What is sent to the device
LEMMA Sent ==
  ASSUME TrackInv, NEW c \in Conns, NEW m \in Parcels, toDev' = ToDevice(c, m)
  PROVE  /\ \A d \in Conns : d # c => toDev'[d] = toDev[d]
         /\ toDev'[c] = toDev[c] \/ toDev'[c] = Append(toDev[c], m)
         /\ sock[c] # "closed" /\ c \notin stuck => toDev'[c] = Append(toDev[c], m)
         /\ m.a # "h" /\ HelloComes(c)' => HelloComes(c)
         /\ \A nr : Ended(toDev'[c], nr) => Ended(toDev[c], nr) \/ Is(m, "mu", nr)
         /\ \A nr : Ended(toDev[c], nr) => Ended(toDev'[c], nr)
<1>1. toDev[c] \in Seq(Parcels) BY TablesTyped
<1>2. /\ \A d \in Conns : d # c => toDev'[d] = toDev[d]
      /\ toDev'[c] = toDev[c] \/ toDev'[c] = Append(toDev[c], m)
      /\ sock[c] # "closed" /\ c \notin stuck => toDev'[c] = Append(toDev[c], m)
  BY DEF ToDevice, TrackInv, NetTyped
<1>3. \A nr : /\ Ended(toDev'[c], nr) => Ended(toDev[c], nr) \/ Is(m, "mu", nr)
              /\ Ended(toDev[c], nr) => Ended(toDev'[c], nr)
  <2> TAKE nr
  <2>1. CASE toDev'[c] = toDev[c] BY <2>1
  <2>2. CASE toDev'[c] = Append(toDev[c], m) BY <1>1, <2>2, EndedAppend
  <2> QED BY <1>2, <2>1, <2>2
<1>4. ASSUME m.a # "h", HelloComes(c)' PROVE HelloComes(c)
  <2>1. CASE toDev'[c] = toDev[c] BY <1>4, <2>1 DEF HelloComes
  <2>2. CASE toDev'[c] = Append(toDev[c], m)
    <3>1. PICK k \in 1..Len(toDev'[c]) : toDev'[c][k].a = "h" BY <1>4 DEF HelloComes
    <3>2. k # Len(toDev[c]) + 1 /\ k \in 1..Len(toDev[c]) + 1
      BY <1>1, <1>4, <2>2, <3>1, AppendFacts
    <3>3. k \in 1..Len(toDev[c]) BY <1>1, <3>2
    <3> QED BY <1>1, <2>2, <3>1, <3>3, AppendFacts DEF HelloComes
  <2> QED BY <1>2, <2>1, <2>2
<1> QED BY <1>2, <1>3, <1>4

\* A task fails, and the device is to hear so.
LEMMA TaskFailsAgrees ==
  ASSUME TrackInv, AgreeInv, ~raced, NEW c \in Conns, NEW k \in DOMAIN tasks[c], TaskFails(c, k)
  PROVE  AgreeInv'
<1>0. PICK n : n = tasks[c][k].nr OBVIOUS
<1>1. PICK x : x = MU(n) OBVIOUS
<1>2. /\ tasks[c][k].on = "on" /\ Becomes(c, k, "leaving") /\ toDev' = ToDevice(c, x)
      /\ msubs' = msubs
  BY <1>0, <1>1 DEF TaskFails
<1>3. /\ UNCHANGED devVars /\ UNCHANGED <<mux, fromDev, raw, raced, adrift>>
      /\ k \in 1..Len(tasks[c]) /\ tasks[c] # <<>>
      /\ \A d \in Conns : d # c => tasks'[d] = tasks[d]
      /\ Same(tasks[c], tasks'[c])
      /\ \A l \in 1..Len(tasks[c]) : tasks'[c][l].on = IF l = k THEN "leaving" ELSE tasks[c][l].on
  BY <1>2, BecomesAgrees
<1>4. tasks[c] \in Seq(Task) /\ tasks[c][k] \in Task /\ toDev[c] \in Seq(Parcels)
  BY <1>3, TablesTyped
<1>5. x \in Parcels /\ x.a = "mu" /\ x.nr = n
  BY <1>0, <1>1, <1>4 DEF MU, Msg, Task, Parcels, Kinds, Named
<1>6. /\ \A d \in Conns : d # c => toDev'[d] = toDev[d]
      /\ toDev'[c] = toDev[c] \/ toDev'[c] = Append(toDev[c], x)
      /\ sock[c] # "closed" /\ c \notin stuck => toDev'[c] = Append(toDev[c], x)
      /\ HelloComes(c)' => HelloComes(c)
      /\ \A nr : Ended(toDev'[c], nr) => Ended(toDev[c], nr) \/ Is(x, "mu", nr)
  BY <1>2, <1>5, Sent
<1>7. /\ UNCHANGED <<sock, stuck, client, clients, subs, asked, prog>> /\ Want' = Want
      /\ \A d : Pend(d)' = Pend(d)
  BY <1>3, Undisturbed
<1>8. /\ Ending /\ Ceased /\ Unheard /\ DOMAIN msubs' = Conns
      /\ \A d \in Conns : client = d /\ d \notin stuck /\ mux[d] # "ended" => InSync(d)
  BY <1>2 DEF AgreeInv
<1>9. mux[c] # "ended" BY <1>3, <1>8 DEF Ceased
<1>10. ~Unknown(c) /\ ~Waiting(c) BY <1>3, <1>8 DEF Unknown, Unheard
<1>11. \A d \in Conns : Waiting(d)' => Waiting(d)
  <2>1. \A d \in Conns : HelloComes(d)' => HelloComes(d) BY <1>6 DEF HelloComes
  <2> QED BY <1>3, <1>7, <2>1 DEF Waiting
<1>12. \A d \in Conns : Waiting(d) /\ Unknown(d) => Unknown(d)'
  BY <1>2, <1>3, <1>6, <1>7, <1>10 DEF Unknown
<1>13. ASSUME client = c, c \notin stuck PROVE InSync(c)' /\ n \in DOMAIN asked /\ (n \notin adrift => ~Is(Pend(c), "ms", n))
  <2>1. Sync(fromDev[c], toDev[c], tasks[c], msubs[c], Want, DOMAIN asked, Pend(c), adrift)
    BY <1>8, <1>9, <1>13 DEF InSync
  <2>2. n \in DOMAIN asked /\ (n \notin adrift => ~Is(Pend(c), "ms", n))
    <3>1. Served(fromDev[c], toDev[c], tasks[c], Want, DOMAIN asked, Pend(c), adrift)
          /\ Once(fromDev[c], tasks[c], Pend(c), adrift)
      BY <2>1 DEF Sync
    <3> QED BY <1>0, <1>3, <3>1 DEF Served, Once
  <2>3. sock[c] # "closed"
    BY <1>13 DEF TrackInv, Tracking, Linked
  <2>4. PICK tk2 : tk2 = tasks'[c] OBVIOUS
  <2>5. Is(x, "mu", tasks[c][k].nr) BY <1>0, <1>5 DEF Is
  <2>6. Sync(fromDev[c], Append(toDev[c], x), tk2, msubs[c], Want, DOMAIN asked, Pend(c), adrift)
    BY <1>2, <1>3, <1>4, <1>5, <2>1, <2>4, <2>5, SyncFails
  <2> QED BY <1>2, <1>3, <1>6, <1>7, <1>13, <2>2, <2>3, <2>4, <2>6 DEF InSync
<1>14. Ending'
  <2> SUFFICES ASSUME NEW d \in Conns, client = d, NEW nr, Ended(toDev'[d], nr)
      PROVE  nr \in DOMAIN asked /\ (nr \notin adrift => ~Is(Pend(d), "ms", nr))
    BY <1>3, <1>7 DEF Ending, Ended, Is
  <2>1. CASE Ended(toDev[d], nr) BY <1>8, <2>1, EndingIs
  <2>2. CASE ~Ended(toDev[d], nr)
    <3>1. d = c /\ nr = n BY <1>5, <1>6, <2>2 DEF Is
    <3>2. c \notin stuck
      <4>1. toDev' = toDev \/ c \notin stuck BY <1>2 DEF ToDevice
      <4> QED BY <2>2, <4>1
    <3> QED BY <1>13, <3>1, <3>2
  <2> QED BY <2>1, <2>2
<1>15. Ceased' BY <1>3, <1>8, <1>9 DEF Ceased
<1>16. ASSUME NEW d \in Conns, client = d, d \notin stuck, mux'[d] # "ended" PROVE InSync(d)'
  <2>1. CASE d = c BY <1>13, <1>16, <2>1
  <2>2. CASE d # c BY <1>2, <1>3, <1>6, <1>7, <1>8, <1>16, <2>2 DEF InSync
  <2> QED BY <2>1, <2>2
<1> QED BY <1>3, <1>8, <1>11, <1>12, <1>14, <1>15, <1>16, MuxAgrees

\* Deliver changes nothing but queues.
LEMMA DeliverAlike ==
  ASSUME TrackInv, NEW t \in Named, Deliver(t), NEW c \in Conns
  PROVE  /\ Same(tasks[c], tasks'[c])
         /\ \A k \in 1..Len(tasks[c]) : tasks'[c][k].on = tasks[c][k].on
         /\ tasks[c] = <<>> => tasks'[c] = <<>>
<1>1. tasks[c] \in Seq(Task) BY TablesTyped
<1>2. /\ tasks'[c] \in Seq(Task)
      /\ tasks[c] = <<>> => tasks'[c] = <<>>
  BY DeliverTyped DEF TrackInv
<1>3. PICK b : b = broker' OBVIOUS
<1> DEFINE M(k) == Msg("m", tasks[c][k].nr, t, FALSE, b)
<1>4. tasks'[c] = [k \in DOMAIN tasks[c] |->
                     IF tasks[c][k].on = "on" /\ tasks[c][k].t = t
                     THEN [tasks[c][k] EXCEPT !.q = Append(@, M(k))]
                     ELSE tasks[c][k]]
  BY <1>3 DEF Deliver
<1> HIDE DEF M
<1>5. DOMAIN tasks'[c] = DOMAIN tasks[c] BY <1>4
<1>6. Len(tasks'[c]) = Len(tasks[c])
  <2>1. PICK u : u = tasks'[c] OBVIOUS
  <2>2. PICK v : v = tasks[c] OBVIOUS
  <2>3. u \in Seq(Task) /\ v \in Seq(Task) /\ DOMAIN u = DOMAIN v BY <1>1, <1>2, <1>5, <2>1, <2>2
  <2>4. PICK i \in Nat : i = Len(u) /\ DOMAIN u = 1..i BY <2>3
  <2>5. PICK j \in Nat : j = Len(v) /\ DOMAIN v = 1..j BY <2>3
  <2>6. i = j
    <3>1. 1..i = 1..j BY <2>3, <2>4, <2>5
    <3>2. i > j => i \in 1..i /\ i \notin 1..j OBVIOUS
    <3>3. j > i => j \in 1..j /\ j \notin 1..i OBVIOUS
    <3> QED BY <3>1, <3>2, <3>3
  <2> QED BY <2>1, <2>2, <2>4, <2>5, <2>6
<1>7. ASSUME NEW k \in 1..Len(tasks[c])
      PROVE  /\ tasks'[c][k].nr = tasks[c][k].nr
             /\ What(tasks'[c][k]) = What(tasks[c][k])
             /\ tasks'[c][k].on = tasks[c][k].on
  <2>1. PICK r : r = tasks[c][k] OBVIOUS
  <2>2. r \in Task /\ k \in DOMAIN tasks[c] BY <1>1, <2>1
  <2>3. PICK r2 : r2 = tasks'[c][k] OBVIOUS
  <2>4. r2 = r \/ r2 = [r EXCEPT !.q = Append(@, M(k))]
    BY <1>4, <2>1, <2>2, <2>3
  <2>5. r2.nr = r.nr /\ What(r2) = What(r) /\ r2.on = r.on BY <2>2, <2>4 DEF Task, What
  <2> QED BY <2>1, <2>3, <2>5
<1> QED BY <1>2, <1>6, <1>7 DEF Same

\* The broker gives a message to all tasks that subscribe to its topic.
LEMMA DeliverAgrees ==
  ASSUME TrackInv, AgreeInv, ~raced, NEW t \in Named, Deliver(t), UNCHANGED devVars,
         UNCHANGED <<raw, adrift, mux, msubs, toDev>>,
         \A d \in Conns : Unknown(d) =>
           \A i \in 1..Len(fromDev'[d]) : fromDev'[d][i].a \notin {"ms", "mu"},
         \A d \in Conns : InSync(d) =>
           Sync(fromDev'[d], toDev[d], tasks[d], msubs[d], Want, DOMAIN asked, Pend(d), adrift)
  PROVE  AgreeInv'
<1>1. /\ UNCHANGED <<sock, stuck, client, clients, subs, asked, prog>> /\ Want' = Want
      /\ \A d : Pend(d)' = Pend(d)
  BY Undisturbed
<1>2. /\ Ending /\ Ceased /\ DOMAIN msubs' = Conns
      /\ \A d \in Conns : client = d /\ d \notin stuck /\ mux[d] # "ended" => InSync(d)
  BY DEF AgreeInv
<1>3. \A d \in Conns : Waiting(d)' => Waiting(d) BY <1>1 DEF Waiting, HelloComes
<1>4. ASSUME NEW d \in Conns, Unknown(d) PROVE Unknown(d)'
  <2>1. tasks'[d] = <<>> BY <1>4, DeliverAlike DEF Unknown
  <2> QED BY <1>1, <1>4, <2>1 DEF Unknown
<1>5. Ending' BY <1>1, <1>2 DEF Ending
<1>6. Ceased' BY <1>2, DeliverAlike DEF Ceased
<1>7. ASSUME NEW d \in Conns, InSync(d) PROVE InSync(d)'
  <2>1. tasks[d] \in Seq(Task) BY TablesTyped
  <2>2. PICK ch : ch = fromDev'[d] OBVIOUS
  <2>3. PICK tk2 : tk2 = tasks'[d] OBVIOUS
  <2>4. Same(tasks[d], tk2) /\ \A k \in 1..Len(tasks[d]) : tk2[k].on = tasks[d][k].on
    BY <2>3, DeliverAlike
  <2>5. Sync(ch, toDev[d], tasks[d], msubs[d], Want, DOMAIN asked, Pend(d), adrift)
    BY <1>7, <2>2
  <2>6. Sync(ch, toDev[d], tk2, msubs[d], Want, DOMAIN asked, Pend(d), adrift)
    BY <2>1, <2>4, <2>5, SyncQueues
  <2> QED BY <1>1, <2>2, <2>3, <2>6 DEF InSync
<1> QED BY <1>2, <1>3, <1>4, <1>5, <1>6, <1>7, MuxAgrees

LEMMA MuxMAgrees ==
  ASSUME TrackInv, AgreeInv, ~raced, NEW c \in Conns, MuxM(c)
  PROVE  AgreeInv'
<1>1. /\ Reading(c, {"m"}) /\ UNCHANGED <<mux, msubs, adrift>> /\ Deliver(Head(fromDev[c]).t)
  BY DEF MuxM
<1>2. /\ UNCHANGED devVars /\ UNCHANGED <<toDev, raced, raw>>
      /\ fromDev[c] # <<>> /\ Head(fromDev[c]).a \in {"m"}
      /\ fromDev'[c] = Tail(fromDev[c])
      /\ \A d \in Conns : d # c => fromDev'[d] = fromDev[d]
      /\ Unknown(c) => \A i \in 1..Len(fromDev'[c]) : fromDev'[c][i].a \notin {"ms", "mu"}
  BY <1>1, ReadingAgrees
<1>3. PICK t \in Named : Deliver(t)
  <2>1. Head(fromDev[c]) \in Parcels BY <1>2, TablesTyped, TailFacts
  <2> QED BY <1>1, <2>1 DEF Parcels
<1>4. ASSUME NEW d \in Conns, InSync(d)
      PROVE  Sync(fromDev'[d], toDev[d], tasks[d], msubs[d], Want, DOMAIN asked, Pend(d), adrift)
  <2>1. CASE d # c BY <1>2, <1>4, <2>1 DEF InSync
  <2>2. CASE d = c
    <3>1. fromDev[c] \in Seq(Parcels) BY TablesTyped
    <3>2. Sync(Tail(fromDev[c]), toDev[c], tasks[c], msubs[c], Want, DOMAIN asked, Pend(c), adrift)
      BY <1>2, <1>4, <2>2, <3>1, SyncTakes DEF InSync
    <3> QED BY <1>2, <2>2, <3>2
  <2> QED BY <2>1, <2>2
<1>5. \A d \in Conns : Unknown(d) =>
        \A i \in 1..Len(fromDev'[d]) : fromDev'[d][i].a \notin {"ms", "mu"}
  BY <1>2 DEF Unknown
<1> QED BY <1>1, <1>2, <1>3, <1>4, <1>5, DeliverAgrees

LEMMA OtherAgrees ==
  ASSUME TrackInv, AgreeInv, ~raced, NEW t \in Topics, Other(t)
  PROVE  AgreeInv'
<1>1. /\ Deliver(t) /\ t \in Named /\ UNCHANGED devVars
      /\ UNCHANGED <<raw, adrift, mux, msubs, toDev, fromDev>>
  BY DEF Other, Named, history
<1>2. \A d \in Conns : Unknown(d) =>
        \A i \in 1..Len(fromDev'[d]) : fromDev'[d][i].a \notin {"ms", "mu"}
  BY <1>1 DEF Unknown
<1>3. \A d \in Conns : InSync(d) =>
        Sync(fromDev'[d], toDev[d], tasks[d], msubs[d], Want, DOMAIN asked, Pend(d), adrift)
  BY <1>1 DEF InSync
<1> QED BY <1>1, <1>2, <1>3, DeliverAgrees

LEMMA ForwardAgrees ==
  ASSUME TrackInv, AgreeInv, ~raced, NEW c \in Conns, NEW k \in DOMAIN tasks[c], Forward(c, k)
  PROVE  AgreeInv'
<1>1. tasks[c] \in Seq(Task) BY TablesTyped
<1>2. tasks[c][k] \in Task BY <1>1
<1>3. PICK m : m = Head(tasks[c][k].q) OBVIOUS
<1>4. PICK g : g = [tasks[c][k] EXCEPT !.q = Tail(@)] OBVIOUS
<1>5. /\ toDev' = ToDevice(c, m) /\ tasks[c][k].q # <<>>
      /\ UNCHANGED devVars /\ UNCHANGED <<mux, msubs, fromDev, raw, adrift>>
      /\ tasks' = [tasks EXCEPT ![c][k].q = Tail(@)]
  BY <1>3 DEF Forward, history
<1>6. /\ m \in Parcels /\ m.a = "m"
      /\ g \in Task /\ g.nr = tasks[c][k].nr /\ What(g) = What(tasks[c][k]) /\ g.on = tasks[c][k].on
  <2>1. tasks[c][k].q \in Seq(Copies) BY <1>2 DEF Task
  <2>2. m \in Copies /\ Tail(tasks[c][k].q) \in Seq(Copies) BY <1>3, <1>5, <2>1
  <2>3. m \in Parcels /\ m.a = "m" BY <2>2 DEF Copies, Parcels, Kinds
  <2> QED BY <1>2, <1>4, <2>2, <2>3 DEF Task, What
<1>7. tasks'[c] = [tasks[c] EXCEPT ![k] = g] /\ \A d \in Conns : d # c => tasks'[d] = tasks[d]
  BY <1>1, <1>2, <1>4, <1>5 DEF TrackInv, MuxTyped, Task
<1>8. /\ k \in 1..Len(tasks[c]) /\ tasks[c] # <<>>
      /\ Same(tasks[c], tasks'[c])
      /\ \A l \in 1..Len(tasks[c]) : tasks'[c][l].on = tasks[c][l].on
  BY <1>6, <1>7, TaskChanges
<1>9. /\ \A d \in Conns : d # c => toDev'[d] = toDev[d]
      /\ HelloComes(c)' => HelloComes(c)
      /\ \A nr : Ended(toDev[c], nr) <=> Ended(toDev'[c], nr)
  BY <1>5, <1>6, Sent DEF Is
<1>10. Want' = Want /\ Pend(c)' = Pend(c) /\ UNCHANGED <<asked, prog>> BY <1>5, Undisturbed
<1>11. ASSUME InSync(c) PROVE InSync(c)'
  <2>1. PICK tk2 : tk2 = tasks'[c] OBVIOUS
  <2>2. PICK td2 : td2 = toDev'[c] OBVIOUS
  <2>3. Sync(fromDev[c], td2, tk2, msubs[c], Want, DOMAIN asked, Pend(c), adrift)
    BY <1>1, <1>8, <1>9, <1>11, <2>1, <2>2, SyncQueues DEF InSync
  <2> QED BY <1>5, <1>10, <2>1, <2>2, <2>3 DEF InSync
<1>12. ~Unknown(c) BY <1>8 DEF Unknown
<1>13. DOMAIN msubs' = Conns /\ (mux'[c] = "ended" => tasks'[c] = <<>>)
  BY <1>5, <1>8 DEF AgreeInv, Ceased
<1> QED BY <1>5, <1>7, <1>9, <1>11, <1>12, <1>13, MuxAgreesAt

LEMMA PingAgrees ==
  ASSUME TrackInv, AgreeInv, ~raced, NEW c \in Conns, Ping(c)
  PROVE  AgreeInv'
<1>0. PICK m : m = Plain("p") OBVIOUS
<1>1. /\ toDev' = ToDevice(c, m) /\ mux[c] = "up"
      /\ UNCHANGED devVars /\ UNCHANGED <<mux, tasks, msubs, fromDev, raw, adrift>>
  BY <1>0 DEF Ping, muxVars, history
<1>2. m \in Parcels /\ m.a = "p" BY <1>0, PlainType DEF Kinds
<1>3. /\ \A d \in Conns : d # c => toDev'[d] = toDev[d]
      /\ HelloComes(c)' => HelloComes(c)
      /\ \A nr : Ended(toDev[c], nr) <=> Ended(toDev'[c], nr)
  BY <1>1, <1>2, Sent DEF Is
<1>4. Want' = Want /\ Pend(c)' = Pend(c) /\ UNCHANGED <<asked, prog>> BY <1>1, Undisturbed
<1>5. tasks[c] \in Seq(Task) /\ toDev[c] \in Seq(Parcels) BY TablesTyped
<1>6. ASSUME InSync(c) PROVE InSync(c)'
  <2>1. PICK td2 : td2 = toDev'[c] OBVIOUS
  <2>2. Same(tasks[c], tasks[c]) BY DEF Same
  <2>3. Sync(fromDev[c], td2, tasks[c], msubs[c], Want, DOMAIN asked, Pend(c), adrift)
    BY <1>3, <1>5, <1>6, <2>1, <2>2, SyncQueues DEF InSync
  <2> QED BY <1>1, <1>4, <2>1, <2>3 DEF InSync
<1>7. ASSUME Unknown(c) PROVE Unknown(c)'
  <2>1. \A nr : ~Ended(toDev'[c], nr) BY <1>3, <1>7 DEF Unknown, Ended, Is
  <2>2. \A j \in 1..Len(toDev'[c]) : toDev'[c][j].a # "mu" BY <2>1 DEF Ended, Is
  <2> QED BY <1>1, <1>4, <1>7, <2>2 DEF Unknown
<1>8. DOMAIN msubs' = Conns BY <1>1 DEF AgreeInv
<1> QED BY <1>1, <1>3, <1>6, <1>7, <1>8, MuxAgreesAt

LEMMA MuxEndAgrees ==
  ASSUME TrackInv, AgreeInv, ~raced, NEW c \in Conns, MuxEnd(c)
  PROVE  AgreeInv'
<1>1. /\ mux' = [mux EXCEPT ![c] = "ended"] /\ tasks' = [tasks EXCEPT ![c] = <<>>]
      /\ msubs' = [msubs EXCEPT ![c] = <<>>] /\ fromDev' = [fromDev EXCEPT ![c] = <<>>]
      /\ UNCHANGED devVars /\ UNCHANGED <<toDev, raw, adrift>>
  BY DEF MuxEnd, Ends, history
<1>2. /\ mux'[c] = "ended" /\ tasks'[c] = <<>> /\ msubs'[c] = <<>> /\ fromDev'[c] = <<>>
      /\ \A d \in Conns : d # c => /\ fromDev'[d] = fromDev[d] /\ tasks'[d] = tasks[d]
                                   /\ msubs'[d] = msubs[d] /\ mux'[d] = mux[d]
      /\ DOMAIN msubs' = Conns
  BY <1>1 DEF TrackInv, MuxTyped, NetTyped, AgreeInv
<1>3. prog' = prog BY <1>1 DEF devVars
<1>4. Unknown(c) => Unknown(c)' BY <1>1, <1>2, <1>3 DEF Unknown
<1>5. HelloComes(c)' => HelloComes(c) BY <1>1 DEF HelloComes
<1> QED BY <1>1, <1>2, <1>4, <1>5, MuxAgreesAt

\* A multiplexer that starts: nobody knows it yet.
LEMMA MuxConnectAgrees ==
  ASSUME TrackInv, AgreeInv, ~raced, NEW c \in Conns, MuxConnect(c)
  PROVE  AgreeInv'
<1>0. PICK m : m = Plain("h") OBVIOUS
<1>1. /\ mux[c] = "off" /\ mux' = [mux EXCEPT ![c] = "init"]
      /\ toDev' = ToDevice(c, m)
      /\ UNCHANGED devVars /\ UNCHANGED <<tasks, msubs, fromDev, raw, adrift>>
  BY <1>0 DEF MuxConnect, history
<1>2. m \in Parcels /\ m.a = "h" BY <1>0, PlainType DEF Kinds
<1>3. /\ UNCHANGED <<sock, stuck, client, clients, subs, asked, prog>> /\ Want' = Want
      /\ \A d : Pend(d)' = Pend(d)
  BY <1>1, Undisturbed
<1>4. /\ Ending /\ Ceased /\ DOMAIN msubs' = Conns
      /\ \A d \in Conns : client = d /\ d \notin stuck /\ mux[d] # "ended" => InSync(d)
  BY <1>1 DEF AgreeInv
<1>5. /\ mux'[c] = "init" /\ \A d \in Conns : d # c => mux'[d] = mux[d] /\ toDev'[d] = toDev[d]
      /\ \A nr : Ended(toDev'[c], nr) => Ended(toDev[c], nr)
  BY <1>1, <1>2, Sent DEF Is, TrackInv, MuxTyped
<1>6. \A d \in Conns : Waiting(d)' => Waiting(d)
  BY <1>1, <1>3, <1>5 DEF Waiting, HelloComes
<1>7. ASSUME NEW d \in Conns, Unknown(d) PROVE Unknown(d)'
  <2>1. \A j \in 1..Len(toDev'[d]) : toDev'[d][j].a # "mu"
    <3>1. \A nr : ~Ended(toDev'[d], nr) BY <1>5, <1>7 DEF Unknown, Ended, Is
    <3> QED BY <3>1 DEF Ended, Is
  <2> QED BY <1>1, <1>3, <1>7, <2>1 DEF Unknown
<1>8. client # c BY <1>1 DEF TrackInv, Hello
<1>9. Ending' BY <1>1, <1>3, <1>4, <1>5, <1>8 DEF Ending
<1>10. Ceased' BY <1>1, <1>4, <1>5 DEF Ceased
<1>11. ASSUME NEW d \in Conns, client = d, d \notin stuck, mux'[d] # "ended" PROVE InSync(d)'
  <2>1. d # c /\ mux[d] # "ended" BY <1>5, <1>8, <1>11
  <2>2. InSync(d) /\ toDev'[d] = toDev[d] BY <1>4, <1>5, <1>11, <2>1
  <2> QED BY <1>1, <1>3, <2>2 DEF InSync
<1> QED BY <1>1, <1>4, <1>6, <1>7, <1>9, <1>10, <1>11, MuxAgrees

-----------------------------------------------------------------------------
(* The steps of the device.                                                *)

\* More in a channel to a multiplexer
LEMMA ToMuxAt ==
  ASSUME TrackInv, NEW c \in Conns, NEW ms \in Seq(Parcels), fromDev' = ToMux(c, ms)
  PROVE  /\ \A d \in Conns : d # c => fromDev'[d] = fromDev[d]
         /\ mux[c] # "ended" => fromDev'[c] = fromDev[c] \o ms
         /\ mux[c] = "ended" => fromDev'[c] = fromDev[c]
BY DEF ToMux, TrackInv, NetTyped

LEMMA OneMore ==
  ASSUME NEW ch \in Seq(Parcels), NEW x \in Parcels
  PROVE  ch \o <<x>> = Append(ch, x)
OBVIOUS

\* The client has been heard of.
LEMMA ClientHeard ==
  ASSUME TrackInv, ~raced, NEW d \in Conns, client = d
  PROVE  ~Waiting(d) /\ sock[d] = "open"
BY DEF TrackInv, Tracking, Linked, Hello, Waiting, HelloComes

LEMMA NoEnds ==
  ASSUME NEW td, NEW td2, \A nr : Ended(td2, nr) => Ended(td, nr),
         \A j \in 1..Len(td) : td[j].a # "mu"
  PROVE  \A j \in 1..Len(td2) : td2[j].a # "mu"
BY DEF Ended, Is

\* A step of the device that is not about subscriptions
LEMMA QuietAgrees ==
  ASSUME TrackInv, AgreeInv, ~raced, UNCHANGED <<subs, asked, raw, adrift, mux, tasks, msubs>>,
         Packing', client' \in {0, client}, stuck \subseteq stuck',
         \/ prog' = prog
         \/ prog.at \notin {"sending", "packing"} /\ prog'.at \notin {"sending", "packing"},
         \A d \in Conns : /\ client' = d => fromDev'[d] = fromDev[d]
                          /\ (\A i \in 1..Len(fromDev[d]) : fromDev[d][i].a \notin {"ms", "mu"})
                             => \A i \in 1..Len(fromDev'[d]) : fromDev'[d][i].a \notin {"ms", "mu"}
                          /\ Waiting(d)' => Waiting(d)
                          /\ \A nr : Ended(toDev'[d], nr) => Ended(toDev[d], nr)
                          /\ client' = d /\ d \notin stuck'
                             => \A nr : Ended(toDev[d], nr) => Ended(toDev'[d], nr)
  PROVE  AgreeInv'
<1>1. /\ Known /\ Telling /\ Ending /\ Unheard /\ Ceased /\ DOMAIN msubs = Conns
      /\ \A d \in Conns : client = d /\ d \notin stuck /\ mux[d] # "ended" => InSync(d)
  BY DEF AgreeInv
<1>2. Want' = Want /\ Pend(0)' = Pend(0) /\ \A d \in Conns : Pend(d)' = Pend(d)
  BY DEF Want, Pend, Sending
<1>3. Known' /\ Ceased' BY <1>1 DEF Known, Ceased
<1>4. Telling'
  <2>1. CASE prog' = prog
    <3>1. prog.at = "packing" /\ sock'[prog.c] = "open" => sock[prog.c] = "open"
      <4> SUFFICES ASSUME prog.at = "packing", sock'[prog.c] = "open" PROVE sock[prog.c] = "open"
        OBVIOUS
      <4>1. client' = prog.c /\ prog.c \in Conns BY <2>1 DEF Packing
      <4>2. client = prog.c BY <4>1, ConnsAreNumbers
      <4> QED BY <4>1, <4>2, ClientHeard
    <3> QED BY <1>1, <1>2, <2>1, <3>1 DEF Telling
  <2>2. CASE prog'.at \notin {"sending", "packing"} BY <2>2 DEF Telling
  <2> QED BY <2>1, <2>2
<1>5. Unheard'
  <2> SUFFICES ASSUME NEW d \in Conns, Waiting(d)' PROVE Unknown(d)'
    BY DEF Unheard
  <2>1. Unknown(d) BY <1>1 DEF Unheard
  <2>2. prog'.at = "packing" => prog'.c # d BY <2>1 DEF Unknown
  <2>3. \A j \in 1..Len(toDev[d]) : toDev[d][j].a # "mu" BY <2>1 DEF Unknown
  <2>4. \A j \in 1..Len(toDev'[d]) : toDev'[d][j].a # "mu" BY <2>3, NoEnds
  <2> QED BY <2>1, <2>2, <2>4 DEF Unknown
<1>6. Ending'
  <2>1. \A d \in Conns : client' = d =>
           /\ client = d
           /\ \A nr : Ended(toDev'[d], nr) => Ended(toDev[d], nr)
           /\ \A nr : Is(Pend(d)', "ms", nr) => Is(Pend(d), "ms", nr) \/ nr \in {}
    BY <1>2, ConnsAreNumbers
  <2> QED BY <1>1, <2>1, EndingFrame
<1>7. ASSUME NEW d \in Conns, client' = d, d \notin stuck', mux'[d] # "ended" PROVE InSync(d)'
  <2>1. client = d /\ d \notin stuck BY <1>7, ConnsAreNumbers
  <2>2. Sync(fromDev[d], toDev[d], tasks[d], msubs[d], Want, DOMAIN asked, Pend(d), adrift)
    BY <1>1, <1>7, <2>1 DEF InSync
  <2>3. PICK td2 : td2 = toDev'[d] OBVIOUS
  <2>4. \A nr : Ended(toDev[d], nr) <=> Ended(td2, nr) BY <1>7, <2>3
  <2>5. tasks[d] \in Seq(Task) /\ Same(tasks[d], tasks[d]) BY TablesTyped DEF Same
  <2>6. Sync(fromDev[d], td2, tasks[d], msubs[d], Want, DOMAIN asked, Pend(d), adrift)
    BY <2>2, <2>4, <2>5, SyncQueues
  <2> QED BY <1>2, <1>7, <2>3, <2>6 DEF InSync
<1> QED BY <1>1, <1>3, <1>4, <1>5, <1>6, <1>7 DEF AgreeInv

LEMMA AcceptAgrees ==
  ASSUME TrackInv, AgreeInv, ~raced, NEW c \in Conns, Accept(c)
  PROVE  AgreeInv'
<1>0. PICK x : x = Plain("h") OBVIOUS
<1>1. /\ sock[c] = "none" /\ sock' = [sock EXCEPT ![c] = "open"]
      /\ fromDev' = ToMux(c, <<x>>) /\ clients' = clients \cup {c}
      /\ UNCHANGED <<client, stuck, subs, asked, raw, adrift, prog, mux, tasks, msubs, toDev>>
  BY <1>0 DEF Accept, muxVars, subVars, history
<1>2. x \in Parcels /\ x.a \notin {"ms", "mu"} BY <1>0, PlainType DEF Kinds
<1>3. \A d \in Conns : d # c => sock'[d] = sock[d] BY <1>1 DEF TrackInv, DeviceTyped
<1>4. Packing'
  <2>1. Packing BY DEF AgreeInv
  <2>2. prog.at = "packing" => prog.c # c BY <1>1, <2>1 DEF Packing
  <2> QED BY <1>1, <1>3, <2>1, <2>2 DEF Packing
<1>5. /\ \A d \in Conns : d # c => fromDev'[d] = fromDev[d]
      /\ fromDev'[c] = fromDev[c] \/ fromDev'[c] = Append(fromDev[c], x)
  <2>1. <<x>> \in Seq(Parcels) /\ fromDev[c] \in Seq(Parcels) BY <1>2, TablesTyped
  <2> QED BY <1>1, <1>2, <2>1, ToMuxAt, OneMore
<1>6. client # c BY <1>1, ClientHeard
<1>7. ASSUME NEW d \in Conns
      PROVE  /\ client' = d => fromDev'[d] = fromDev[d]
             /\ (\A i \in 1..Len(fromDev[d]) : fromDev[d][i].a \notin {"ms", "mu"})
                => \A i \in 1..Len(fromDev'[d]) : fromDev'[d][i].a \notin {"ms", "mu"}
             /\ Waiting(d)' => Waiting(d)
  <2>1. client' = d => fromDev'[d] = fromDev[d] BY <1>1, <1>5, <1>6
  <2>2. Waiting(d)' => Waiting(d) BY <1>1, <1>3 DEF Waiting, HelloComes
  <2>3. ASSUME \A i \in 1..Len(fromDev[d]) : fromDev[d][i].a \notin {"ms", "mu"},
               NEW i \in 1..Len(fromDev'[d])
        PROVE  fromDev'[d][i].a \notin {"ms", "mu"}
    <3>1. CASE fromDev'[d] = fromDev[d] BY <2>3, <3>1
    <3>2. CASE fromDev'[d] = Append(fromDev[d], x)
      <4>1. fromDev[d] \in Seq(Parcels) BY TablesTyped
      <4>2. i \in 1..Len(fromDev[d]) \/ i = Len(fromDev[d]) + 1
        BY <1>2, <2>3, <3>2, <4>1, AppendFacts
      <4> QED BY <1>2, <2>3, <3>2, <4>1, <4>2, AppendFacts
    <3> QED BY <1>5, <3>1, <3>2
  <2> QED BY <2>1, <2>2, <2>3
<1> QED BY <1>1, <1>4, <1>7, QuietAgrees

\* What closing a connection leaves of it
LEMMA CloseLeaves ==
  ASSUME TrackInv, NEW c \in Conns, Close(c)
  PROVE  /\ client' \in {0, client} /\ client' # c
         /\ \A d \in Conns : d # c => toDev'[d] = toDev[d] /\ sock'[d] = sock[d]
         /\ sock'[c] = "closed"
         /\ \A d \in Conns : /\ sock'[d] = "none" => sock[d] = "none"
                             /\ d \in clients' => d \in clients
                             /\ HelloComes(d)' => HelloComes(d)
                             /\ \A nr : Ended(toDev'[d], nr) => Ended(toDev[d], nr)
                             /\ client' = d => toDev'[d] = toDev[d]
<1>1. /\ \A d \in Conns : sock'[d] = IF d = c THEN "closed" ELSE sock[d]
      /\ \A d \in Conns : toDev'[d] = IF d = c THEN <<>> ELSE toDev[d]
      /\ client' = IF client = c THEN 0 ELSE client
      /\ clients' \subseteq clients
  BY DEF Close, TrackInv, DeviceTyped, NetTyped
<1>2. ASSUME NEW d \in Conns
      PROVE  /\ HelloComes(d)' => HelloComes(d)
             /\ \A nr : Ended(toDev'[d], nr) => Ended(toDev[d], nr)
  <2>1. CASE d = c
    <3>1. Len(toDev'[d]) = 0 BY <1>1, <2>1
    <3> QED BY <3>1 DEF HelloComes, Ended
  <2>2. CASE d # c BY <1>1, <2>2 DEF HelloComes
  <2> QED BY <2>1, <2>2
<1>3. client' # c BY <1>1, ConnsAreNumbers
<1> QED BY <1>1, <1>2, <1>3

LEMMA ClosesAgree ==
  ASSUME TrackInv, AgreeInv, ~raced, NEW c \in Conns, Close(c), Packing',
         UNCHANGED <<stuck, subs, asked, raw, adrift, mux, tasks, msubs, fromDev>>,
         \/ prog' = prog
         \/ prog.at \notin {"sending", "packing"} /\ prog'.at \notin {"sending", "packing"}
  PROVE  AgreeInv'
<1>1. /\ client' \in {0, client}
      /\ \A d \in Conns : /\ sock'[d] = "none" => sock[d] = "none"
                          /\ d \in clients' => d \in clients
                          /\ HelloComes(d)' => HelloComes(d)
                          /\ \A nr : Ended(toDev'[d], nr) => Ended(toDev[d], nr)
                          /\ client' = d => toDev'[d] = toDev[d]
  BY CloseLeaves
<1>2. \A d \in Conns : Waiting(d)' => Waiting(d) BY <1>1 DEF Waiting
<1> QED BY <1>1, <1>2, QuietAgrees

LEMMA ReadEOFAgrees ==
  ASSUME TrackInv, AgreeInv, ~raced, NEW c \in Conns, ReadEOF(c)
  PROVE  AgreeInv'
<1>1. /\ Close(c)
      /\ UNCHANGED <<stuck, subs, asked, raw, adrift, prog, mux, tasks, msubs, fromDev>>
  BY DEF ReadEOF, muxVars, subVars, history
<1>2. Packing'
  <2>1. Packing BY DEF AgreeInv
  <2>2. /\ client' \in {0, client} /\ client' # c /\ sock'[c] = "closed"
        /\ \A d \in Conns : d # c => sock'[d] = sock[d]
    BY <1>1, CloseLeaves
  <2>3. client # c => client' = client
    BY <1>1 DEF Close
  <2> QED BY <1>1, <2>1, <2>2, <2>3 DEF Packing
<1> QED BY <1>1, <1>2, ClosesAgree

\* A message that is taken, or that c is stuck with
LEMMA HandledAgrees ==
  ASSUME TrackInv, AgreeInv, ~raced, NEW c \in Conns, NEW a, Processing(c, a),
         (a # "mu" /\ Handles(c)) \/ Stick(c), Stays, UNCHANGED subs
  PROVE  AgreeInv'
<1>1. /\ toDev[c] # <<>> /\ Head(toDev[c]).a = a
      /\ UNCHANGED <<subs, asked, prog, mux, tasks, msubs>>
      /\ UNCHANGED <<sock, client, clients, fromDev, raw, adrift>>
  BY DEF Processing, muxVars, subVars, Stays
<1>2. Packing' BY <1>1 DEF AgreeInv, Packing
<1>3. toDev[c] \in Seq(Parcels) BY TablesTyped
<1>4. \A d \in Conns : d # c => toDev'[d] = toDev[d]
  BY <1>1, TakenType DEF Stick, Handles, TrackInv, NetTyped
<1>5. /\ HelloComes(c)' => HelloComes(c)
      /\ \A nr : Ended(toDev'[c], nr) => Ended(toDev[c], nr)
      /\ c \notin stuck' => \A nr : Ended(toDev[c], nr) => Ended(toDev'[c], nr)
  <2>1. CASE Stick(c)
    <3>1. toDev'[c] = <<>> /\ c \in stuck' BY <2>1 DEF Stick, TrackInv, NetTyped
    <3>2. Len(toDev'[c]) = 0 BY <3>1
    <3> QED BY <3>1, <3>2 DEF HelloComes, Ended
  <2>2. CASE a # "mu" /\ Handles(c)
    <3>1. toDev'[c] = Tail(toDev[c]) BY <2>2 DEF Handles, Taken, TrackInv, NetTyped
    <3>2. \A k \in 1..Len(toDev'[c]) : k + 1 \in 1..Len(toDev[c]) /\ toDev'[c][k] = toDev[c][k + 1]
      BY <1>1, <1>3, <3>1, TailFacts
    <3>3. HelloComes(c)' => HelloComes(c) BY <3>2 DEF HelloComes
    <3>4. \A nr : Ended(toDev'[c], nr) <=> Ended(toDev[c], nr)
      BY <1>1, <1>3, <2>2, <3>1, EndedTail DEF Is
    <3> QED BY <3>3, <3>4
  <2> QED BY <2>1, <2>2
<1>6. stuck \subseteq stuck' BY DEF Stick, Handles
<1>7. \A d \in Conns : Waiting(d)' => Waiting(d)
  BY <1>1, <1>4, <1>5 DEF Waiting, HelloComes
<1>8. client' \in {0, client} BY <1>1
<1>9. ASSUME NEW d \in Conns
      PROVE /\ \A nr : Ended(toDev'[d], nr) => Ended(toDev[d], nr)
            /\ d \notin stuck' => \A nr : Ended(toDev[d], nr) => Ended(toDev'[d], nr)
  BY <1>4, <1>5
<1> QED BY <1>1, <1>2, <1>6, <1>7, <1>8, <1>9, QuietAgrees

LEMMA MessageAgrees ==
  ASSUME TrackInv, AgreeInv, ~raced, NEW c \in Conns, Message(c)
  PROVE  AgreeInv'
<1>1. Processing(c, "m") /\ Stays /\ UNCHANGED subs /\ (Handles(c) \/ Stick(c))
  BY DEF Message
<1> QED BY <1>1, HandledAgrees

LEMMA PongAgrees ==
  ASSUME TrackInv, AgreeInv, ~raced, NEW c \in Conns, Pong(c)
  PROVE  AgreeInv'
<1>1. Processing(c, "p") /\ Stays /\ UNCHANGED subs /\ (Handles(c) \/ Stick(c))
  BY DEF Pong
<1> QED BY <1>1, HandledAgrees

LEMMA StopAgrees ==
  ASSUME TrackInv, AgreeInv, ~raced, StopBegin \/ StopClears \/ StopLoop \/ Start
  PROVE  AgreeInv'
<1>1. /\ UNCHANGED <<stuck, subs, asked, raw, adrift, mux, tasks, msubs, fromDev>>
      /\ prog.at \notin {"sending", "packing"} /\ prog'.at \notin {"sending", "packing"}
  BY DEF StopBegin, StopClears, StopLoop, Start, subVars, muxVars, netVars, history, Doing, Idle
<1>2. Packing' BY <1>1 DEF Packing
<1>3. CASE \E c \in Conns : Close(c) BY <1>1, <1>2, <1>3, ClosesAgree
<1>4. CASE UNCHANGED <<toDev, sock, clients>> /\ client' \in {0, client}
  <2>1. \A d \in Conns : Waiting(d)' => Waiting(d) BY <1>1, <1>4 DEF Waiting, HelloComes
  <2> QED BY <1>1, <1>2, <1>4, <2>1, QuietAgrees
<1>5. (\E c \in Conns : Close(c)) \/ (UNCHANGED <<toDev, sock, clients>> /\ client' \in {0, client})
  <2>1. client \in Conns \cup {0} /\ clients \subseteq Conns BY DEF TrackInv, DeviceTyped
  <2>2. CASE StopBegin BY <2>1, <2>2 DEF StopBegin
  <2>3. CASE StopClears BY <2>3 DEF StopClears, netVars
  <2>4. CASE StopLoop BY <2>1, <2>4 DEF StopLoop
  <2>5. CASE Start BY <2>5 DEF Start, netVars
  <2> QED BY <2>2, <2>3, <2>4, <2>5
<1> QED BY <1>3, <1>4, <1>5

\* The new client was unknown, and hears of everything.
LEMMA OpenedAgrees ==
  ASSUME TrackInv, AgreeInv, ~raced, NEW c \in Conns, Opened(c)
  PROVE  AgreeInv'
<1>1. /\ toDev[c] # <<>> /\ Head(toDev[c]).a = "h" /\ sock[c] = "open"
      /\ UNCHANGED <<stuck, subs, asked, prog, mux, tasks, msubs>>
      /\ client' = c /\ clients' = clients \ {c}
      /\ fromDev' = ToMux(c, Resubscriptions)
      /\ sock' = IF client = 0 THEN sock ELSE [sock EXCEPT ![client] = "closed"]
      /\ toDev' = IF client = 0 THEN Taken(c) ELSE [Taken(c) EXCEPT ![client] = <<>>]
      /\ raw' = {}
      /\ adrift' = adrift \cup (IF prog.at = "sending" /\ prog.m.a = "ms" THEN {prog.m.nr} ELSE {})
  BY DEF Opened, Replace, Processing, muxVars
<1>2. /\ Known /\ Telling /\ Packing /\ Unheard /\ Ceased /\ DOMAIN msubs = Conns
  BY DEF AgreeInv
<1>3. toDev[c] \in Seq(Parcels) /\ fromDev[c] \in Seq(Parcels) BY TablesTyped
<1>4. HelloComes(c)
  <2>1. 1 \in 1..Len(toDev[c]) /\ toDev[c][1].a = "h" BY <1>1, <1>3, TailFacts
  <2> QED BY <2>1 DEF HelloComes
<1>5. Unknown(c) BY <1>2, <1>4 DEF Unheard, Waiting
<1>6. mux[c] # "off" /\ client # c
  BY <1>1, <1>4 DEF TrackInv, Hello, HelloComes
<1>7. /\ \A d \in Conns : d # c => toDev'[d] \in {<<>>, toDev[d]}
      /\ toDev'[c] = Taken(c)[c]
  <2>1. CASE client = 0 BY <1>1, <2>1, TakenType DEF TrackInv
  <2>2. CASE client # 0
    <3>1. client \in Conns BY <2>2 DEF TrackInv, DeviceTyped
    <3>2. /\ Taken(c) \in [Conns -> Seq(Parcels)]
          /\ \A d \in Conns : d # c => Taken(c)[d] = toDev[d]
      BY <1>1, TakenType DEF TrackInv
    <3>3. toDev' = [Taken(c) EXCEPT ![client] = <<>>] BY <1>1, <2>2
    <3> QED BY <1>6, <3>1, <3>2, <3>3
  <2> QED BY <2>1, <2>2
<1>8. /\ Len(toDev'[c]) = Len(toDev[c]) - 1
      /\ \A k \in 1..Len(toDev'[c]) : /\ k + 1 \in 1..Len(toDev[c]) /\ k + 1 # 1
                                      /\ toDev'[c][k] = toDev[c][k + 1]
  <2>1. /\ Len(toDev'[c]) = Len(toDev[c]) - 1
        /\ \A k \in 1..Len(toDev'[c]) : toDev'[c][k] = toDev[c][k + 1]
    BY <1>1, <1>7, TakenType DEF TrackInv
  <2>2. \A k \in 1..Len(toDev'[c]) : k + 1 \in 1..Len(toDev[c]) /\ k + 1 # 1
    BY <1>3, <2>1
  <2> QED BY <2>1, <2>2
<1>9. /\ ~HelloComes(c)'
      /\ \A k \in 1..Len(toDev'[c]) : toDev'[c][k].a # "mu"
  <2>1. \A k \in 1..Len(toDev'[c]) : toDev'[c][k].a # "h" BY <1>8 DEF TrackInv, Hello
  <2>2. \A k \in 1..Len(toDev'[c]) : toDev'[c][k].a # "mu" BY <1>5, <1>8 DEF Unknown
  <2> QED BY <2>1, <2>2 DEF HelloComes
<1>10. ASSUME NEW d \in Conns, d # c
       PROVE  /\ HelloComes(d)' => HelloComes(d)
              /\ (\A j \in 1..Len(toDev[d]) : toDev[d][j].a # "mu")
                 => \A j \in 1..Len(toDev'[d]) : toDev'[d][j].a # "mu"
  <2>1. CASE toDev'[d] = <<>>
    <3>1. Len(toDev'[d]) = 0 BY <2>1
    <3> QED BY <3>1 DEF HelloComes
  <2>2. CASE toDev'[d] = toDev[d] BY <2>2 DEF HelloComes
  <2> QED BY <1>7, <1>10, <2>1, <2>2
<1>11. /\ \A d \in Conns : sock'[d] = "none" => sock[d] = "none"
       /\ \A d \in Conns : client = d => sock'[d] = "closed"
       /\ \A d \in Conns : sock'[d] = sock[d] \/ client = d
  BY <1>1, ConnsAreNumbers DEF TrackInv, DeviceTyped
<1>12. prog.at = "packing" => prog.c \in Conns /\ sock'[prog.c] \notin {"none", "open"}
  <2> SUFFICES ASSUME prog.at = "packing"
      PROVE  prog.c \in Conns /\ sock'[prog.c] \notin {"none", "open"}
    OBVIOUS
  <2>1. /\ prog.c \in Conns /\ sock[prog.c] # "none"
        /\ sock[prog.c] = "open" => client = prog.c
    BY <1>2 DEF Packing
  <2> QED BY <1>11, <2>1
<1>13. Packing' BY <1>1, <1>12 DEF Packing
<1>14. Known' /\ Ceased' BY <1>1, <1>2 DEF Known, Ceased
<1>15. Telling'
  <2> SUFFICES ASSUME prog.at \in {"sending", "packing"}, prog.m.a \in {"ms", "mu"}
      PROVE  /\ prog.m.nr \in DOMAIN asked
             /\ (prog.at = "packing" => sock'[prog.c] = "open") /\ prog.m.nr \notin adrift' =>
                  prog.m.a = "mu" /\ prog.m.nr \notin DOMAIN subs
    BY <1>1 DEF Telling
  <2>1. prog.m.nr \in DOMAIN asked BY <1>2 DEF Telling
  <2>2. ASSUME prog.at = "packing" => sock'[prog.c] = "open", prog.m.nr \notin adrift'
        PROVE  prog.m.a = "mu" /\ prog.m.nr \notin DOMAIN subs
    <3>1. prog.at = "sending" BY <1>12, <2>2
    <3>2. prog.m.a = "mu" /\ prog.m.nr \notin adrift BY <1>1, <2>2, <3>1
    <3> QED BY <1>2, <3>1, <3>2 DEF Telling
  <2> QED BY <2>1, <2>2
<1>16. \A d \in Conns : d # c => fromDev'[d] = fromDev[d]
  BY <1>1, ResubscriptionsType, ToMuxAt DEF TrackInv
<1>17. Unheard'
  <2> SUFFICES ASSUME NEW d \in Conns, Waiting(d)' PROVE Unknown(d)'
    BY DEF Unheard
  <2>1. d # c
    <3>1. ~Waiting(c)' BY <1>1, <1>6, <1>9, <1>11 DEF Waiting
    <3> QED BY <3>1
  <2>2. Unknown(d) BY <1>1, <1>2, <1>10, <1>11, <2>1 DEF Unheard, Waiting
  <2> QED BY <1>1, <1>10, <1>16, <2>1, <2>2 DEF Unknown
<1>18. Ending' BY <1>1, <1>9 DEF Ending
<1>19. ASSUME mux[c] # "ended" PROVE InSync(c)'
  <2>1. PICK rs \in Seq(Parcels) : rs = Resubscriptions
    BY ResubscriptionsType DEF TrackInv
  <2>2. fromDev'[c] = fromDev[c] \o rs BY <1>1, <1>19, <2>1, ToMuxAt
  <2>3. DOMAIN Want' = DOMAIN subs /\ \A nr \in DOMAIN subs : What(Again(nr)) = Want'[nr]
    <3>1. \A nr : What(Again(nr)) = [t |-> subs[nr], r |-> FALSE] BY AgainIs DEF What
    <3>2. \A nr : (nr \in {}) = FALSE OBVIOUS
    <3>3. Want' = [nr \in DOMAIN subs |-> [t |-> subs[nr], r |-> nr \in {}]] BY <1>1 DEF Want
    <3> QED BY <3>1, <3>2, <3>3
  <2>4. /\ \A k \in 1..Len(rs) : rs[k].a = "ms" /\ rs[k].nr \in DOMAIN Want' /\ What(rs[k]) = Want'[rs[k].nr]
        /\ \A nr \in DOMAIN Want' : \E k \in 1..Len(rs) : rs[k].nr = nr
        /\ \A k, l \in 1..Len(rs) : rs[k].nr = rs[l].nr => k = l
    <3>1. /\ \A k \in 1..Len(rs) : \E nr \in DOMAIN subs : rs[k] = Again(nr)
          /\ \A nr \in DOMAIN subs : \E k \in 1..Len(rs) : rs[k] = Again(nr)
          /\ \A k, l \in 1..Len(rs) : rs[k].nr = rs[l].nr => k = l
      BY <2>1, Resubscribes DEF TrackInv
    <3>2. ASSUME NEW k \in 1..Len(rs)
          PROVE  rs[k].a = "ms" /\ rs[k].nr \in DOMAIN Want' /\ What(rs[k]) = Want'[rs[k].nr]
      <4>1. PICK nr \in DOMAIN subs : rs[k] = Again(nr) BY <3>1
      <4>2. rs[k].a = "ms" /\ rs[k].nr = nr BY <4>1, AgainIs
      <4> QED BY <2>3, <4>1, <4>2
    <3>3. ASSUME NEW nr \in DOMAIN Want' PROVE \E k \in 1..Len(rs) : rs[k].nr = nr
      <4>1. PICK k \in 1..Len(rs) : rs[k] = Again(nr) BY <2>3, <3>1
      <4> QED BY <4>1, AgainIs
    <3> QED BY <3>1, <3>2, <3>3
  <2>5. DOMAIN Want' \subseteq DOMAIN asked BY <1>2, <2>3 DEF Known
  <2>6. \A i \in 1..Len(fromDev[c]) : fromDev[c][i].a \notin {"ms", "mu"} BY <1>5 DEF Unknown
  <2>7. PICK p : p = Pend(c)' OBVIOUS
  <2>8. \A nr : nr \notin adrift' => ~Is(p, "ms", nr)
    <3>1. CASE prog.at = "sending" BY <1>1, <2>7, <3>1 DEF Pend, Sending, Is
    <3>2. CASE prog.at # "sending"
      <4>1. ~Sending(c)' BY <1>1, <1>5, <3>2 DEF Sending, Unknown
      <4>2. p = Plain("none") BY <2>7, <4>1 DEF Pend
      <4> QED BY <4>2, PendsNothing DEF Is
    <3> QED BY <3>1, <3>2
  <2>9. PICK td : td = toDev'[c] OBVIOUS
  <2>10. PICK wt : wt = Want' OBVIOUS
  <2>11. PICK D : D = adrift' OBVIOUS
  <2>12. Sync(fromDev[c] \o rs, td, <<>>, <<>>, wt, DOMAIN asked, p, D)
    BY <1>3, <1>9, <2>4, <2>5, <2>6, <2>8, <2>9, <2>10, <2>11, SyncOpens
  <2> QED BY <1>1, <1>5, <2>2, <2>7, <2>9, <2>10, <2>11, <2>12 DEF InSync, Unknown
<1> QED BY <1>1, <1>2, <1>13, <1>14, <1>15, <1>17, <1>18, <1>19 DEF AgreeInv

\* The client reads that a task has failed.
LEMMA RemovedAgrees ==
  ASSUME TrackInv, AgreeInv, ~raced, NEW c \in Conns, Removed(c)
  PROVE  AgreeInv'
<1>0. PICK n : n = Head(toDev[c]).nr OBVIOUS
<1>1. /\ Processing(c, "mu") /\ Stays
      /\ IF n \in DOMAIN subs THEN subs' = Without(subs, n) /\ Handles(c)
         ELSE Stick(c) /\ UNCHANGED subs
  BY <1>0 DEF Removed
<1>2. CASE n \notin DOMAIN subs BY <1>1, <1>2, HandledAgrees
<1>3. CASE n \in DOMAIN subs
  <2>1. /\ toDev[c] # <<>> /\ Head(toDev[c]).a = "mu" /\ sock[c] = "open"
        /\ UNCHANGED <<asked, prog, mux, tasks, msubs>>
        /\ UNCHANGED <<sock, client, clients, fromDev, raw, adrift, stuck>>
        /\ subs' = Without(subs, n) /\ toDev' = Taken(c)
    BY <1>1, <1>3 DEF Processing, muxVars, Stays, Handles
  <2>2. toDev[c] \in Seq(Parcels) BY TablesTyped
  <2>3. toDev'[c] = Tail(toDev[c]) /\ \A d \in Conns : d # c => toDev'[d] = toDev[d]
    BY <2>1 DEF Taken, TrackInv, NetTyped
  <2>4. 1 \in 1..Len(toDev[c]) /\ Head(toDev[c]) = toDev[c][1] BY <2>1, <2>2, TailFacts
  <2>5. /\ Known /\ Telling /\ Packing /\ Ending /\ Unheard /\ Ceased /\ DOMAIN msubs = Conns
        /\ \A d \in Conns : client = d /\ d \notin stuck /\ mux[d] # "ended" => InSync(d)
    BY DEF AgreeInv
  <2>6. client = c
    <3>1. ~Unknown(c) BY <2>1, <2>4 DEF Unknown
    <3>2. c \notin clients BY <2>5, <3>1 DEF Unheard, Waiting
    <3> QED BY <2>1, <3>2 DEF TrackInv, Tracking, Linked
  <2>7. n \in DOMAIN asked /\ (n \notin adrift => ~Is(Pend(c), "ms", n))
    BY <1>0, <2>1, <2>4, <2>5, <2>6 DEF Ending
  <2>8. /\ DOMAIN Want' = DOMAIN Want \ {n} /\ \A nr \in DOMAIN Want' : Want'[nr] = Want[nr]
        /\ DOMAIN subs' = DOMAIN subs \ {n} /\ DOMAIN Want' = DOMAIN subs'
    BY <2>1 DEF Without, Want
  <2>9. \A d : Pend(d)' = Pend(d) BY <2>1 DEF Pend, Sending
  <2>10. ASSUME NEW d \in Conns
         PROVE  /\ HelloComes(d)' => HelloComes(d)
                /\ \A nr : Ended(toDev'[d], nr) => Ended(toDev[d], nr)
    <3>1. CASE d # c BY <2>3, <3>1 DEF HelloComes
    <3>2. CASE d = c
      <4>1. \A k \in 1..Len(toDev'[c]) : k + 1 \in 1..Len(toDev[c]) /\ toDev'[c][k] = toDev[c][k + 1]
        BY <2>1, <2>2, <2>3, TailFacts
      <4>2. \A nr : Ended(toDev'[c], nr) => Ended(toDev[c], nr) BY <2>1, <2>2, <2>3, EndedTail
      <4> QED BY <3>2, <4>1, <4>2 DEF HelloComes
    <3> QED BY <3>1, <3>2
  <2>11. Known' /\ Packing' /\ Ceased' BY <2>1, <2>5, <2>8 DEF Known, Packing, Ceased
  <2>12. Telling'
    <3> SUFFICES ASSUME prog.at \in {"sending", "packing"}, prog.m.a \in {"ms", "mu"}
        PROVE  /\ prog.m.nr \in DOMAIN asked
               /\ (prog.at = "packing" => sock[prog.c] = "open") /\ prog.m.nr \notin adrift =>
                    IF prog.m.a = "mu" THEN prog.m.nr \notin DOMAIN subs'
                    ELSE prog.m.nr \in DOMAIN subs' /\ What(prog.m) = Want'[prog.m.nr]
      BY <2>1 DEF Telling
    <3>1. prog.m.nr \in DOMAIN asked BY <2>5 DEF Telling
    <3>2. ASSUME prog.at = "packing" => sock[prog.c] = "open", prog.m.nr \notin adrift
          PROVE  IF prog.m.a = "mu" THEN prog.m.nr \notin DOMAIN subs'
                 ELSE prog.m.nr \in DOMAIN subs' /\ What(prog.m) = Want'[prog.m.nr]
      <4>1. IF prog.m.a = "mu" THEN prog.m.nr \notin DOMAIN subs
            ELSE prog.m.nr \in DOMAIN subs /\ What(prog.m) = Want[prog.m.nr]
        BY <2>5, <3>2 DEF Telling
      <4>2. Pend(c) = prog.m
        BY <2>5, <2>6, <3>2 DEF Pend, Sending, Packing
      <4>3. prog.m.a # "mu" => prog.m.nr # n BY <2>7, <3>2, <4>2 DEF Is
      <4> QED BY <2>8, <4>1, <4>3
    <3> QED BY <3>1, <3>2
  <2>13. Unheard'
    <3> SUFFICES ASSUME NEW d \in Conns, Waiting(d)' PROVE Unknown(d)' BY DEF Unheard
    <3>1. Unknown(d) BY <2>1, <2>5, <2>10 DEF Unheard, Waiting
    <3>2. \A j \in 1..Len(toDev[d]) : toDev[d][j].a # "mu" BY <3>1 DEF Unknown
    <3>3. \A j \in 1..Len(toDev'[d]) : toDev'[d][j].a # "mu" BY <2>10, <3>2, NoEnds
    <3> QED BY <2>1, <3>1, <3>3 DEF Unknown
  <2>14. Ending'
    <3>1. \A d \in Conns : client' = d =>
             /\ client = d
             /\ \A nr : Ended(toDev'[d], nr) => Ended(toDev[d], nr)
             /\ \A nr : Is(Pend(d)', "ms", nr) => Is(Pend(d), "ms", nr) \/ nr \in {}
      BY <2>1, <2>9, <2>10
    <3> QED BY <2>1, <2>5, <3>1, EndingFrame
  <2>15. ASSUME c \notin stuck, mux[c] # "ended" PROVE InSync(c)'
    <3>1. Sync(fromDev[c], toDev[c], tasks[c], msubs[c], Want, DOMAIN asked, Pend(c), adrift)
      BY <2>5, <2>6, <2>15 DEF InSync
    <3>2. PICK wt2 : wt2 = Want' OBVIOUS
    <3>3. Is(Head(toDev[c]), "mu", n) BY <1>0, <2>1 DEF Is
    <3>4. DOMAIN wt2 = DOMAIN Want \ {n} /\ \A nr \in DOMAIN wt2 : wt2[nr] = Want[nr]
      BY <2>8, <3>2
    <3>5. Sync(fromDev[c], Tail(toDev[c]), tasks[c], msubs[c], wt2, DOMAIN asked, Pend(c), adrift)
      BY <2>1, <2>2, <2>7, <3>1, <3>3, <3>4, SyncRemoves
    <3> QED BY <2>1, <2>3, <2>9, <3>2, <3>5 DEF InSync
  <2> QED BY <2>1, <2>5, <2>6, <2>11, <2>12, <2>13, <2>14, <2>15 DEF AgreeInv
<1> QED BY <1>2, <1>3

\* A step of the main program, from idle, or on its way to send
LEMMA ProgramAgrees ==
  ASSUME TrackInv, AgreeInv, ~raced, UNCHANGED connVars, UNCHANGED <<mux, tasks, msubs, toDev>>,
         Known', Telling', Packing', Ending',
         \A d \in Conns : d # client => fromDev'[d] = fromDev[d],
         prog'.at = "packing" => prog'.c = client,
         \A d \in Conns : client = d /\ d \notin stuck /\ mux[d] # "ended" => InSync(d)'
  PROVE  AgreeInv'
<1>1. UNCHANGED <<client, clients, sock, stuck>> BY DEF connVars
<1>2. Unheard'
  <2> SUFFICES ASSUME NEW d \in Conns, Waiting(d)' PROVE Unknown(d)' BY DEF Unheard
  <2>1. Waiting(d) BY <1>1 DEF Waiting, HelloComes
  <2>2. Unknown(d) BY <2>1 DEF AgreeInv, Unheard
  <2>3. d # client BY <2>1, ClientHeard
  <2> QED BY <2>2, <2>3 DEF Unknown
<1>3. Ceased' /\ DOMAIN msubs' = Conns BY DEF AgreeInv, Ceased
<1> QED BY <1>1, <1>2, <1>3 DEF AgreeInv

LEMMA SendBeginAgrees ==
  ASSUME TrackInv, AgreeInv, ~raced, SendBegin
  PROVE  AgreeInv'
<1>1. /\ prog.at = "sending"
      /\ prog' = IF client = 0 THEN Idle ELSE Doing("packing", client, prog.m)
      /\ UNCHANGED connVars
      /\ UNCHANGED <<subs, asked, raw, adrift, mux, tasks, msubs, toDev, fromDev>>
  BY DEF SendBegin, subVars, muxVars, netVars, history
<1>2. /\ Known /\ Telling /\ Ending
      /\ \A d \in Conns : client = d /\ d \notin stuck /\ mux[d] # "ended" => InSync(d)
  BY DEF AgreeInv
<1>3. Known' /\ Want' = Want /\ UNCHANGED <<client, sock>> BY <1>1, <1>2 DEF Known, Want, connVars
<1>4. Telling' BY <1>1, <1>2, <1>3 DEF Telling, Idle, Doing
<1>5. prog'.at = "packing" => client # 0 /\ prog'.c = client BY <1>1 DEF Idle, Doing
<1>6. Packing'
  <2>1. client # 0 => client \in Conns /\ sock[client] = "open"
    BY ClientHeard DEF TrackInv, DeviceTyped
  <2> QED BY <1>3, <1>5, <2>1 DEF Packing
<1>7. \A d \in Conns : client = d => Pend(d)' = Pend(d)
  <2> SUFFICES ASSUME NEW d \in Conns, client = d PROVE Pend(d)' = Pend(d) OBVIOUS
  <2>1. client # 0 BY ConnsAreNumbers
  <2> QED BY <1>1, <2>1 DEF Pend, Sending, Doing
<1>8. Ending' BY <1>1, <1>2, <1>3, <1>7 DEF Ending
<1>9. \A d \in Conns : client = d /\ d \notin stuck /\ mux[d] # "ended" => InSync(d)'
  BY <1>1, <1>2, <1>3, <1>7 DEF InSync
<1> QED BY <1>1, <1>3, <1>4, <1>5, <1>6, <1>8, <1>9, ProgramAgrees

LEMMA SendEndAgrees ==
  ASSUME TrackInv, AgreeInv, ~raced, SendEnd
  PROVE  AgreeInv'
<1>1. /\ prog.at = "packing" /\ prog' = Idle /\ prog'.at = "idle"
      /\ fromDev' = IF sock[prog.c] = "open" THEN ToMux(prog.c, <<prog.m>>) ELSE fromDev
      /\ UNCHANGED connVars
      /\ UNCHANGED <<subs, asked, raw, adrift, mux, tasks, msubs, toDev>>
  BY DEF SendEnd, subVars, muxVars, history, Idle, Doing
<1>2. /\ Known /\ Telling /\ Packing /\ Ending
      /\ \A d \in Conns : client = d /\ d \notin stuck /\ mux[d] # "ended" => InSync(d)
  BY DEF AgreeInv
<1>3. Known' /\ Telling' /\ Packing' /\ Want' = Want /\ client' = client
  BY <1>1, <1>2 DEF Known, Telling, Packing, Want, connVars
<1>4. prog.m \in Parcels /\ prog.c \in Conns BY <1>1, <1>2 DEF TrackInv, DeviceTyped, Packing
<1>5. PICK m \in Parcels : m = prog.m BY <1>4
<1>6. <<m>> \in Seq(Parcels) BY <1>5
<1>7. sock[prog.c] = "open" <=> client = prog.c
  BY <1>1, <1>2, <1>4, ClientHeard DEF Packing
<1>8. \A d \in Conns : d # client => fromDev'[d] = fromDev[d]
  BY <1>1, <1>4, <1>5, <1>6, <1>7, ToMuxAt
<1>9. \A d : Pend(d)' = Plain("none") BY <1>1 DEF Pend, Sending
<1>10. Ending' BY <1>1, <1>2, <1>3, <1>9, PendsNothing DEF Ending, Is
<1>11. ASSUME NEW d \in Conns, client = d, d \notin stuck, mux[d] # "ended" PROVE InSync(d)'
  <2>1. Sync(fromDev[d], toDev[d], tasks[d], msubs[d], Want, DOMAIN asked, Pend(d), adrift)
    BY <1>2, <1>11 DEF InSync
  <2>2. CASE d # prog.c
    <3>1. fromDev' = fromDev BY <1>1, <1>7, <1>11, <2>2
    <3>2. Pend(d) = Plain("none") BY <1>1, <2>2 DEF Pend, Sending
    <3> QED BY <1>1, <1>3, <1>9, <2>1, <3>1, <3>2 DEF InSync
  <2>3. CASE d = prog.c
    <3>1. fromDev[d] \in Seq(Parcels) BY TablesTyped
    <3>2. fromDev'[d] = fromDev[d] \o <<m>>
      BY <1>1, <1>4, <1>5, <1>6, <1>7, <1>11, <2>3, ToMuxAt
    <3>3. fromDev'[d] = Append(fromDev[d], m) BY <3>1, <3>2, OneMore
    <3>4. Pend(d) = m BY <1>1, <1>5, <2>3 DEF Pend, Sending
    <3>5. Fits(m, Want, DOMAIN asked, adrift)
      <4>1. DOMAIN Want = DOMAIN subs BY DEF Want
      <4>2. sock[prog.c] = "open" BY <1>7, <1>11, <2>3
      <4> QED BY <1>1, <1>2, <1>5, <4>1, <4>2 DEF Telling, Fits
    <3>6. PICK q : q = Plain("none") OBVIOUS
    <3>7. Sync(Append(fromDev[d], m), toDev[d], tasks[d], msubs[d], Want, DOMAIN asked, q, adrift)
      BY <2>1, <3>1, <3>4, <3>5, <3>6, PendsNothing, SyncSends
    <3> QED BY <1>1, <1>3, <1>9, <3>3, <3>6, <3>7 DEF InSync
  <2> QED BY <2>2, <2>3
<1> QED BY <1>1, <1>3, <1>8, <1>10, <1>11, ProgramAgrees

\* What Then leaves the program with, for the client and in general
LEMMA ThenPends ==
  ASSUME NEW m, Then(m)
  PROVE  /\ prog'.at \in {"idle", "sending"}
         /\ prog'.at = "sending" => prog'.m = m
         /\ client # 0 => \A d : Pend(d)' = m
BY DEF Then, Idle, Doing, Pend, Sending

\* What Enter leaves to be wanted
LEMMA EnterWants ==
  ASSUME NEW nr, NEW w \in Wish, Enter(nr, w)
  PROVE  /\ DOMAIN Want' = DOMAIN Want \cup {nr}
         /\ Want'[nr] = [t |-> w.t, r |-> w.r]
         /\ \A x \in DOMAIN Want \ {nr} : Want'[x] = Want[x]
<1>1. /\ subs' = With(subs, nr, w.t)
      /\ raw' = IF w.r THEN raw \cup {nr} ELSE raw \ {nr}
  BY DEF Enter
<1>2. DOMAIN subs' = DOMAIN subs \cup {nr} /\ subs'[nr] = w.t
      /\ \A x \in DOMAIN subs \ {nr} : subs'[x] = subs[x]
  BY <1>1 DEF With
<1>3. w.r \in BOOLEAN BY DEF Wish
<1>4. (nr \in raw') = w.r
  <2>1. CASE w.r BY <1>1, <2>1
  <2>2. CASE ~w.r
    <3>1. (nr \in raw') = FALSE BY <1>1, <2>2
    <3>2. w.r = FALSE BY <1>3, <2>2
    <3> QED BY <3>1, <3>2
  <2> QED BY <1>3, <2>1, <2>2
<1>5. \A x : x # nr => (x \in raw' <=> x \in raw) BY <1>1
<1>6. DOMAIN Want' = DOMAIN subs' /\ DOMAIN Want = DOMAIN subs BY DEF Want
<1>7. Want'[nr] = [t |-> subs'[nr], r |-> nr \in raw'] BY <1>2 DEF Want
<1>8. ASSUME NEW x \in DOMAIN Want \ {nr} PROVE Want'[x] = Want[x]
  <2>1. Want'[x] = [t |-> subs'[x], r |-> x \in raw'] BY <1>2, <1>6, <1>8 DEF Want
  <2>2. Want[x] = [t |-> subs[x], r |-> x \in raw] BY <1>6, <1>8 DEF Want
  <2> QED BY <1>2, <1>5, <1>6, <1>8, <2>1, <2>2
<1> QED BY <1>2, <1>4, <1>6, <1>7, <1>8

LEMMA SubscribeCallAgrees ==
  ASSUME TrackInv, AgreeInv, ~raced, NEW n, SubscribeCall(n)
  PROVE  AgreeInv'
<1>0. PICK w : w = Head(wishes) OBVIOUS
<1>1. PICK q : q = MS(n, w.t, w.r) OBVIOUS
<1>2. /\ prog.at = "idle" /\ wishes # <<>> /\ Enter(n, w) /\ Then(q)
      /\ subs' = With(subs, n, w.t) /\ asked' = With(asked, n, AskedFor(n) \cup {w})
      /\ adrift' = IF n \in DOMAIN asked THEN adrift \cup {n} ELSE adrift
      /\ UNCHANGED connVars /\ UNCHANGED <<mux, tasks, msubs, toDev, fromDev>>
  BY <1>0, <1>1 DEF SubscribeCall, Enter, muxVars, netVars
<1>3. w \in Wish BY <1>0, <1>2 DEF TrackInv, DeviceTyped, SubsTyped
<1>4. q.a = "ms" /\ q.nr = n /\ What(q) = [t |-> w.t, r |-> w.r]
  BY <1>1 DEF MS, Msg, What
<1>5. /\ Known /\ Ending
      /\ \A d \in Conns : client = d /\ d \notin stuck /\ mux[d] # "ended" => InSync(d)
  BY DEF AgreeInv
<1>6. /\ DOMAIN Want' = DOMAIN Want \cup {n}
      /\ Want'[n] = [t |-> w.t, r |-> w.r]
      /\ \A x \in DOMAIN Want \ {n} : Want'[x] = Want[x]
  BY <1>2, <1>3, EnterWants
<1>7. DOMAIN subs' = DOMAIN subs \cup {n} /\ DOMAIN asked' = DOMAIN asked \cup {n}
  BY <1>2 DEF With
<1>8. adrift \subseteq adrift' /\ (n \notin DOMAIN asked \/ n \in adrift') BY <1>2
<1>9. UNCHANGED <<client, sock, stuck>> BY <1>2 DEF connVars
<1>10. /\ prog'.at \in {"idle", "sending"} /\ (prog'.at = "sending" => prog'.m = q)
       /\ client # 0 => \A d : Pend(d)' = q
  BY <1>2, ThenPends
<1>11. Known' BY <1>5, <1>7 DEF Known
<1>12. Telling' /\ Packing'
  BY <1>4, <1>6, <1>7, <1>10 DEF Telling, Packing
<1>13. Ending'
  <2>1. PICK N : N = {n} OBVIOUS
  <2>2. \A nr \in N : nr \notin DOMAIN asked \/ nr \in adrift' BY <1>8, <2>1
  <2>3. \A d \in Conns : client' = d =>
           /\ client = d
           /\ \A nr : Ended(toDev'[d], nr) => Ended(toDev[d], nr)
           /\ \A nr : Is(Pend(d)', "ms", nr) => Is(Pend(d), "ms", nr) \/ nr \in N
    BY <1>2, <1>4, <1>9, <1>10, <2>1, ConnsAreNumbers DEF Is
  <2>4. DOMAIN asked \subseteq DOMAIN asked' BY <1>7
  <2> QED BY <1>5, <1>8, <2>2, <2>3, <2>4, EndingFrame
<1>14. ASSUME NEW d \in Conns, client = d, d \notin stuck, mux[d] # "ended" PROVE InSync(d)'
  <2>1. Pend(d)' = q BY <1>10, <1>14, ConnsAreNumbers
  <2>2. PICK p : p = Pend(d) OBVIOUS
  <2>3. p.a \notin {"ms", "mu"} BY <1>2, <2>2, PendsNothing DEF Pend, Sending
  <2>4. Sync(fromDev[d], toDev[d], tasks[d], msubs[d], Want, DOMAIN asked, p, adrift)
    BY <1>5, <1>14, <2>2 DEF InSync
  <2>5. PICK D : D = adrift' OBVIOUS
  <2>6. Sync(fromDev[d], toDev[d], tasks[d], msubs[d], Want, DOMAIN asked, p, D)
    BY <1>8, <2>4, <2>5, SyncLess
  <2>7. PICK wt2 : wt2 = Want' OBVIOUS
  <2>8. DOMAIN wt2 = DOMAIN Want \cup {n} /\ \A nr \in DOMAIN Want \ {n} : wt2[nr] = Want[nr]
    BY <1>6, <2>7
  <2>9. Is(q, "ms", n) BY <1>4 DEF Is
  <2>10. n \in D \/ n \notin DOMAIN asked BY <1>8, <2>5
  <2>11. Sync(fromDev[d], toDev[d], tasks[d], msubs[d], wt2, DOMAIN asked \cup {n}, q, D)
    BY <2>3, <2>6, <2>8, <2>9, <2>10, SyncSubscribes
  <2> QED BY <1>2, <1>7, <2>1, <2>5, <2>7, <2>11 DEF InSync
<1> QED BY <1>2, <1>10, <1>11, <1>12, <1>13, <1>14, ProgramAgrees

LEMMA UnsubscribeAgrees ==
  ASSUME TrackInv, AgreeInv, ~raced, NEW n \in DOMAIN subs, Unsubscribe(n)
  PROVE  AgreeInv'
<1>0. PICK q : q = MU(n) OBVIOUS
<1>1. /\ prog.at = "idle" /\ subs' = Without(subs, n) /\ Then(q)
      /\ UNCHANGED connVars
      /\ UNCHANGED <<asked, raw, adrift, mux, tasks, msubs, toDev, fromDev>>
  BY <1>0 DEF Unsubscribe, muxVars, netVars, history
<1>2. q.a = "mu" /\ q.nr = n BY <1>0, MessageOf
<1>3. /\ Known /\ Ending
      /\ \A d \in Conns : client = d /\ d \notin stuck /\ mux[d] # "ended" => InSync(d)
  BY DEF AgreeInv
<1>4. /\ DOMAIN subs' = DOMAIN subs \ {n} /\ UNCHANGED <<client, sock, stuck>>
      /\ DOMAIN Want' = DOMAIN Want \ {n} /\ \A nr \in DOMAIN Want' : Want'[nr] = Want[nr]
  BY <1>1 DEF Without, Want, connVars
<1>5. Known' BY <1>1, <1>3, <1>4 DEF Known
<1>6. /\ prog'.at \in {"idle", "sending"} /\ (prog'.at = "sending" => prog'.m = q)
      /\ client # 0 => \A d : Pend(d)' = q
  BY <1>1, ThenPends
<1>7. Telling' /\ Packing'
  <2>1. n \in DOMAIN asked BY <1>3 DEF Known
  <2> QED BY <1>1, <1>2, <1>4, <1>6, <2>1 DEF Telling, Packing
<1>8. Ending' BY <1>1, <1>2, <1>3, <1>4, <1>6, ConnsAreNumbers DEF Ending, Is
<1>9. ASSUME NEW d \in Conns, client = d, d \notin stuck, mux[d] # "ended" PROVE InSync(d)'
  <2>1. Pend(d)' = q BY <1>6, <1>9, ConnsAreNumbers
  <2>2. PICK p : p = Pend(d) OBVIOUS
  <2>3. p.a \notin {"ms", "mu"} BY <1>1, <2>2, PendsNothing DEF Pend, Sending
  <2>4. Sync(fromDev[d], toDev[d], tasks[d], msubs[d], Want, DOMAIN asked, p, adrift)
    BY <1>3, <1>9, <2>2 DEF InSync
  <2>5. PICK wt2 : wt2 = Want' OBVIOUS
  <2>6. DOMAIN wt2 = DOMAIN Want \ {n} /\ \A nr \in DOMAIN wt2 : wt2[nr] = Want[nr]
    BY <1>4, <2>5
  <2>7. Is(q, "mu", n) BY <1>2 DEF Is
  <2>8. Sync(fromDev[d], toDev[d], tasks[d], msubs[d], wt2, DOMAIN asked, q, adrift)
    BY <2>3, <2>4, <2>6, <2>7, SyncUnsubscribes
  <2> QED BY <1>1, <2>1, <2>5, <2>8 DEF InSync
<1> QED BY <1>1, <1>5, <1>6, <1>7, <1>8, <1>9, ProgramAgrees

LEMMA PublishAgrees ==
  ASSUME TrackInv, AgreeInv, ~raced, NEW t \in Topics, Publish(t)
  PROVE  AgreeInv'
<1>0. PICK q : q = Msg("m", 0, t, FALSE, 0) OBVIOUS
<1>1. /\ prog.at = "idle" /\ Then(q)
      /\ UNCHANGED connVars
      /\ UNCHANGED <<subs, asked, raw, adrift, mux, tasks, msubs, toDev, fromDev>>
  BY <1>0 DEF Publish, subVars, muxVars, history
<1>2. q.a = "m" BY <1>0 DEF Msg
<1>3. /\ Known /\ Ending
      /\ \A d \in Conns : client = d /\ d \notin stuck /\ mux[d] # "ended" => InSync(d)
  BY DEF AgreeInv
<1>4. Known' /\ Want' = Want /\ client' = client BY <1>1, <1>3 DEF Known, Want, connVars
<1>5. /\ prog'.at \in {"idle", "sending"} /\ (prog'.at = "sending" => prog'.m = q)
      /\ client # 0 => \A d : Pend(d)' = q
  BY <1>1, ThenPends
<1>6. Telling' /\ Packing' BY <1>2, <1>5 DEF Telling, Packing
<1>7. Ending' BY <1>1, <1>2, <1>3, <1>4, <1>5, ConnsAreNumbers DEF Ending, Is
<1>8. ASSUME NEW d \in Conns, client = d, d \notin stuck, mux[d] # "ended" PROVE InSync(d)'
  <2>1. Pend(d)' = q BY <1>5, <1>8, ConnsAreNumbers
  <2>2. PICK p : p = Pend(d) OBVIOUS
  <2>3. p.a \notin {"ms", "mu"} BY <1>1, <2>2, PendsNothing DEF Pend, Sending
  <2>4. Sync(fromDev[d], toDev[d], tasks[d], msubs[d], Want, DOMAIN asked, p, adrift)
    BY <1>3, <1>8, <2>2 DEF InSync
  <2>5. q.a \notin {"ms", "mu"} BY <1>2
  <2>6. Sync(fromDev[d], toDev[d], tasks[d], msubs[d], Want, DOMAIN asked, q, adrift)
    BY <2>3, <2>4, <2>5, SyncPends
  <2> QED BY <1>1, <1>4, <2>1, <2>6 DEF InSync
<1> QED BY <1>1, <1>4, <1>5, <1>6, <1>7, <1>8, ProgramAgrees

-----------------------------------------------------------------------------

LEMMA AgreeInit == Init => AgreeInv
<1> SUFFICES ASSUME Init PROVE AgreeInv OBVIOUS
<1>1. /\ subs = <<>> /\ prog = Idle /\ prog.at = "idle" /\ client = 0 /\ DOMAIN msubs = Conns
      /\ \A c \in Conns : /\ tasks[c] = <<>> /\ msubs[c] = <<>> /\ fromDev[c] = <<>>
                          /\ toDev[c] = <<>>
  BY DEF Init, Idle, Doing
<1>2. Known /\ Telling /\ Packing BY <1>1 DEF Known, Telling, Packing
<1>3. Unheard /\ Ceased BY <1>1 DEF Unheard, Unknown, Ceased
<1>4. Ending BY <1>1, ConnsAreNumbers DEF Ending
<1> QED BY <1>1, <1>2, <1>3, <1>4, ConnsAreNumbers DEF AgreeInv

LEMMA AgreeStep == TrackInv /\ AgreeInv /\ [Next]_vars => AgreeInv'
<1> SUFFICES ASSUME TrackInv, AgreeInv, [Next]_vars PROVE AgreeInv' OBVIOUS
<1>1. CASE Next
  <2>1. ~raced /\ Steps BY <1>1 DEF Next
  <2>2. ASSUME NEW c \in Conns, Callbacks(c) PROVE AgreeInv'
    BY <2>1, <2>2, AcceptAgrees, ReadEOFAgrees, OpenedAgrees, MessageAgrees, RemovedAgrees,
       PongAgrees DEF Callbacks
  <2>3. ASSUME NEW c \in Conns, Tasks(c) PROVE AgreeInv'
    BY <2>1, <2>3, MuxHelloAgrees, MuxMSAgrees, MuxRefusedAgrees, MuxMUAgrees, MuxMAgrees,
       TaskEndsAgrees, ForwardAgrees DEF Tasks
  <2>4. ASSUME NEW c \in Conns, MuxConnect(c) \/ MuxEnd(c) \/ Ping(c)
        PROVE  AgreeInv'
    BY <2>1, <2>4, MuxConnectAgrees, MuxEndAgrees, PingAgrees
  <2>5. ASSUME NEW c \in Conns, NEW k \in DOMAIN tasks[c], TaskFails(c, k) PROVE AgreeInv'
    BY <2>1, <2>5, TaskFailsAgrees
  <2>6. CASE Program \/ StopBegin \/ Start
    BY <2>1, <2>6, SendBeginAgrees, SendEndAgrees, StopAgrees DEF Program
  <2>7. CASE Subscribe \/ \E nr \in Chosen : SubscribeAs(nr)
    BY <2>1, <2>7, SubscribeCallAgrees DEF Subscribe, SubscribeAs
  <2>8. CASE \E nr \in DOMAIN subs : Unsubscribe(nr)
    BY <2>1, <2>8, UnsubscribeAgrees
  <2>9. CASE \E t \in Topics : Publish(t) \/ Other(t)
    BY <2>1, <2>9, PublishAgrees, OtherAgrees
  <2> QED BY <2>1, <2>2, <2>3, <2>4, <2>5, <2>6, <2>7, <2>8, <2>9 DEF Steps
<1>2. CASE UNCHANGED vars
  <2>1. UNCHANGED <<connVars, subVars, prog, muxVars, netVars, history>>
    BY <1>2 DEF vars
  <2>2. /\ UNCHANGED <<subs, asked, prog, client, clients, sock, stuck>>
        /\ UNCHANGED <<mux, tasks, msubs, toDev, fromDev, raw, adrift, raced>>
    BY <2>1 DEF connVars, subVars, muxVars, netVars, history
  <2>3. Want' = Want BY <2>2 DEF Want
  <2>4. \A c : Pend(c)' = Pend(c) BY <2>2 DEF Pend, Sending
  <2>5. \A c : InSync(c) => InSync(c)' BY <2>2, <2>3, <2>4 DEF InSync
  <2>6. (Telling => Telling') /\ (Packing => Packing') /\ (Known => Known') /\ (Ceased => Ceased')
    BY <2>2, <2>3 DEF Telling, Packing, Known, Ceased
  <2>7. (Ending => Ending') /\ (Unheard => Unheard')
    BY <2>2, <2>4 DEF Ending, Unheard, Waiting, HelloComes, Unknown
  <2> QED BY <2>2, <2>5, <2>6, <2>7 DEF AgreeInv
<1> QED BY <1>1, <1>2

\* Of each number that is not adrift: what the channel to the multiplexer and
\* the program's next message say, the failures that the device has still to
\* read of, and the multiplexer's tasks add up to what the program wants, with
\* its topic and its flag r.  This carries TablesAgree.
THEOREM AgreeInvariance == Spec => [](TrackInv /\ AgreeInv)
BY TrackInit, AgreeInit, TrackStep, AgreeStep, PTL DEF Spec

\* When nothing is under way, the multiplexer of the client has one task, and
\* an entry that leads to it, for each subscription of the program and for no
\* other, whatever connections came and went, wherever the program was
\* interrupted, and whichever tasks have failed; but for the numbers adrift:
\* used again, subscribed while opened repeated them, or refused.
THEOREM TablesDoAgree == Spec => []TablesAgree
<1>1. TrackInv /\ AgreeInv => TablesAgree
  <2> SUFFICES ASSUME TrackInv, AgreeInv, NEW c \in Conns, Quiet(c), ~raced PROVE Agree(c)
    BY DEF TablesAgree
  <2>1. /\ client = c /\ mux[c] = "up" /\ prog.at = "idle" /\ c \notin stuck
        /\ fromDev[c] = <<>> /\ \A m \in Range(toDev[c]) : m.a # "mu"
        /\ \A tk \in Range(tasks[c]) : tk.on \in {"on", "ended"}
    BY DEF Quiet
  <2>2. Pend(c) = Plain("none") BY <2>1 DEF Pend, Sending
  <2>3. Sync(<<>>, toDev[c], tasks[c], msubs[c], Want, DOMAIN asked, Plain("none"), adrift)
    BY <2>1, <2>2 DEF AgreeInv, InSync
  <2>4. \A a \in {"ms", "mu"} : \A nr : ~Comes(<<>>, Plain("none"), a, nr, 0)
    BY PendsNothing DEF Comes, Is
  <2>5. tasks[c] \in Seq(Task) /\ DOMAIN tasks[c] = 1..Len(tasks[c]) BY TablesTyped
  <2>6. \A nr : ~Ended(toDev[c], nr)
    <3>1. toDev[c] \in Seq(Parcels) BY TablesTyped
    <3>2. \A j \in 1..Len(toDev[c]) : toDev[c][j] \in Range(toDev[c]) BY <3>1 DEF Range
    <3> QED BY <2>1, <3>2 DEF Ended, Is
  <2>7. DOMAIN Want = DOMAIN subs BY DEF Want
  <2>8. \A k \in 1..Len(tasks[c]) : tasks[c][k].on = "on" /\ tasks[c][k].nr \notin adrift =>
          tasks[c][k].nr \in DOMAIN subs /\ What(tasks[c][k]) = Want[tasks[c][k].nr]
    BY <2>3, <2>4, <2>7 DEF Sync, Served
  <2>9. \A nr \in DOMAIN subs \ adrift :
          \E k \in 1..Len(tasks[c]) : tasks[c][k].on = "on" /\ tasks[c][k].nr = nr
    BY <2>3, <2>4, <2>6, <2>7 DEF Sync, Awaited
  <2>10. PICK w : w = Want OBVIOUS
  <2>11. Range(tasks[c]) = {tasks[c][k] : k \in 1..Len(tasks[c])} BY <2>5 DEF Range
  <2>12. Forwarded(c) \subseteq Wanted
    <3> SUFFICES ASSUME NEW x \in Range(tasks[c]), x.on = "on", x.nr \notin adrift
        PROVE  <<x.nr, What(x)>> \in Wanted
      BY DEF Forwarded
    <3>1. x.nr \in DOMAIN subs \ adrift /\ What(x) = Want[x.nr] BY <2>8, <2>11
    <3> QED BY <3>1 DEF Wanted
  <2>13. Wanted \subseteq Forwarded(c)
    <3> SUFFICES ASSUME NEW nr \in DOMAIN subs \ adrift PROVE <<nr, Want[nr]>> \in Forwarded(c)
      BY DEF Wanted
    <3>1. PICK k \in 1..Len(tasks[c]) : tasks[c][k].on = "on" /\ tasks[c][k].nr = nr BY <2>9
    <3>2. tasks[c][k] \in Range(tasks[c]) BY <2>11
    <3>3. What(tasks[c][k]) = Want[nr] BY <2>8, <3>1
    <3> QED BY <3>1, <3>2, <3>3 DEF Forwarded
  <2>14. \A k \in DOMAIN tasks[c] : tasks[c][k].on = "on" /\ tasks[c][k].nr \notin adrift =>
           tasks[c][k].nr \in DOMAIN msubs[c] /\ msubs[c][tasks[c][k].nr] = k
    BY <2>3, <2>5 DEF Sync, Leads
  <2> QED BY <2>12, <2>13, <2>14 DEF Agree
<1> QED BY <1>1, AgreeInvariance, PTL

-----------------------------------------------------------------------------
(* Messages on their way to the callbacks, when one is taken, added, or    *)
(* goes from a queue to the channel.                                       *)

LEMMA RangeIs ==
  ASSUME NEW S, NEW s \in Seq(S)
  PROVE  /\ \A i \in 1..Len(s) : s[i] \in Range(s)
         /\ \A x \in Range(s) : \E i \in 1..Len(s) : x = s[i]
<1>1. DOMAIN s = 1..Len(s) OBVIOUS
<1> QED BY <1>1 DEF Range

LEMMA RangeEmpty == Range(<<>>) = {}
BY DEF Range

LEMMA RangeTail ==
  ASSUME NEW S, NEW s \in Seq(S), s # <<>>
  PROVE  Range(Tail(s)) \subseteq Range(s) /\ Head(s) \in Range(s)
<1>1. /\ Tail(s) \in Seq(S) /\ Len(s) \in Nat \ {0} /\ Len(Tail(s)) = Len(s) - 1 /\ Head(s) = s[1]
      /\ \A j \in 1..Len(s) - 1 : Tail(s)[j] = s[j + 1]
  OBVIOUS
<1>2. ASSUME NEW x \in Range(Tail(s)) PROVE x \in Range(s)
  <2>1. PICK i \in 1..Len(Tail(s)) : x = Tail(s)[i] BY <1>1, <1>2, RangeIs
  <2>2. i + 1 \in 1..Len(s) /\ x = s[i + 1] BY <1>1, <2>1
  <2> QED BY <2>2, RangeIs
<1>3. 1 \in 1..Len(s) BY <1>1
<1> QED BY <1>1, <1>2, <1>3, RangeIs

LEMMA RangeConcat ==
  ASSUME NEW S, NEW s \in Seq(S), NEW r \in Seq(S)
  PROVE  Range(s \o r) \subseteq Range(s) \cup Range(r)
<1> SUFFICES ASSUME NEW x \in Range(s \o r) PROVE x \in Range(s) \cup Range(r)
  OBVIOUS
<1>1. s \o r \in Seq(S) /\ Len(s \o r) = Len(s) + Len(r) /\ Len(s) \in Nat /\ Len(r) \in Nat
  OBVIOUS
<1>2. PICK i \in 1..Len(s \o r) : x = (s \o r)[i] BY <1>1, RangeIs
<1>3. CASE i <= Len(s)
  <2>1. i \in 1..Len(s) /\ x = s[i] BY <1>1, <1>2, <1>3
  <2> QED BY <2>1, RangeIs
<1>4. CASE i > Len(s)
  <2>1. i - Len(s) \in 1..Len(r) /\ x = r[i - Len(s)] BY <1>1, <1>2, <1>4
  <2> QED BY <2>1, RangeIs
<1> QED BY <1>1, <1>2, <1>3, <1>4

LEMMA RangeAppend ==
  ASSUME NEW S, NEW s \in Seq(S), NEW x \in S
  PROVE  Range(Append(s, x)) \subseteq Range(s) \cup {x}
<1> SUFFICES ASSUME NEW y \in Range(Append(s, x)) PROVE y \in Range(s) \cup {x}
  OBVIOUS
<1>1. /\ Append(s, x) \in Seq(S) /\ Len(Append(s, x)) = Len(s) + 1 /\ Len(s) \in Nat
      /\ Append(s, x)[Len(s) + 1] = x
      /\ \A i \in 1..Len(s) : Append(s, x)[i] = s[i]
  OBVIOUS
<1>2. PICK i \in 1..Len(Append(s, x)) : y = Append(s, x)[i] BY <1>1, RangeIs
<1>3. CASE i = Len(s) + 1 BY <1>1, <1>2, <1>3
<1>4. CASE i # Len(s) + 1
  <2>1. i \in 1..Len(s) /\ y = s[i] BY <1>1, <1>2, <1>4
  <2> QED BY <2>1, RangeIs
<1> QED BY <1>3, <1>4

LEMMA CalledNow ==
  ASSUME NEW m, NEW n, NEW cd, NEW T, Uncalled(n, cd, T), Differ(m, n, T)
  PROVE  Uncalled(n, cd \cup {Call(m)}, T)
BY DEF Uncalled, Differ, Call

LEMMA NovelEmpty ==
  ASSUME NEW td, NEW tk, NEW T, NEW cd, NEW b, Novel(td, tk, cd, b, T)
  PROVE  Novel(<<>>, tk, cd, b, T)
<1>1. Len(<<>>) = 0 OBVIOUS
<1>2. Late(<<>>, cd, b, T) BY <1>1 DEF Late
<1>3. \A k \in 1..Len(tk) : Queued(tk[k].q, <<>>, cd, b, T) BY <1>1 DEF Novel, Queued
<1> QED BY <1>2, <1>3 DEF Novel

\* Queues that are emptied, and tasks that are new
LEMMA NovelFewer ==
  ASSUME NEW td, NEW tk, NEW tk2, NEW T, NEW cd, NEW b, Novel(td, tk, cd, b, T),
         \A k \in 1..Len(tk2) : tk2[k].q = <<>> \/ (k \in 1..Len(tk) /\ tk2[k].q = tk[k].q)
  PROVE  Novel(td, tk2, cd, b, T)
<1>1. Len(<<>>) = 0 OBVIOUS
<1>2. Queued(<<>>, td, cd, b, T) /\ \A q : Apart(q, <<>>, T) /\ Apart(<<>>, q, T)
  BY <1>1 DEF Queued, Apart
<1>3. \A k \in 1..Len(tk2) : Queued(tk2[k].q, td, cd, b, T)
  BY <1>2 DEF Novel
<1>4. \A k, l \in 1..Len(tk2) : k # l => Apart(tk2[k].q, tk2[l].q, T)
  BY <1>2 DEF Novel
<1> QED BY <1>3, <1>4 DEF Novel

\* The first message is taken; if it is one for a callback, it may be called.
LEMMA NovelTaken ==
  ASSUME NEW td \in Seq(Parcels), td # <<>>, NEW tk, NEW T, NEW cd, NEW b, Novel(td, tk, cd, b, T)
  PROVE  /\ Novel(Tail(td), tk, cd, b, T)
         /\ Head(td).a = "m" => /\ Uncalled(Head(td), cd, T) /\ Head(td).n <= b
                                /\ Novel(Tail(td), tk, cd \cup {Call(Head(td))}, b, T)
<1>0. /\ Len(td) \in Nat \ {0} /\ Len(Tail(td)) = Len(td) - 1 /\ Head(td) = td[1]
      /\ \A j \in 1..Len(td) - 1 : Tail(td)[j] = td[j + 1]
  BY TailFacts
<1>1. \A j \in 1..Len(Tail(td)) : j + 1 \in 1..Len(td) /\ Tail(td)[j] = td[j + 1] /\ 1 < j + 1
  BY <1>0
<1>2. 1 \in 1..Len(td) BY <1>0
<1>3. ASSUME NEW c2, c2 = cd \/ (Head(td).a = "m" /\ c2 = cd \cup {Call(Head(td))})
      PROVE  Novel(Tail(td), tk, c2, b, T)
  <2>1. Late(Tail(td), c2, b, T)
    <3>1. \A i \in 1..Len(Tail(td)) : Tail(td)[i].a = "m" =>
            /\ Tail(td)[i].n <= b /\ Uncalled(Tail(td)[i], cd, T)
            /\ Head(td).a = "m" => Differ(Head(td), Tail(td)[i], T)
      BY <1>0, <1>1, <1>2 DEF Novel, Late
    <3>0. \A i \in 1..Len(Tail(td)) : Tail(td)[i].a = "m" => Uncalled(Tail(td)[i], c2, T)
      BY <1>3, <3>1, CalledNow
    <3>2. \A i, j \in 1..Len(Tail(td)) : i < j => i + 1 < j + 1 OBVIOUS
    <3> QED BY <1>1, <3>0, <3>1, <3>2 DEF Novel, Late
  <2>2. ASSUME NEW k \in 1..Len(tk) PROVE Queued(tk[k].q, Tail(td), c2, b, T)
    <3>1. PICK q : q = tk[k].q OBVIOUS
    <3>2. Queued(q, td, cd, b, T) BY <3>1 DEF Novel
    <3>3. \A i \in 1..Len(q) : q[i].n <= b /\ Uncalled(q[i], c2, T)
      <4>1. \A i \in 1..Len(q) : /\ q[i].n <= b /\ Uncalled(q[i], cd, T)
                                 /\ Head(td).a = "m" => Differ(Head(td), q[i], T)
        BY <1>0, <1>2, <3>2 DEF Queued
      <4> QED BY <1>3, <4>1, CalledNow
    <3>4. \A i \in 1..Len(q), j \in 1..Len(Tail(td)) :
            Tail(td)[j].a = "m" => Differ(Tail(td)[j], q[i], T)
      BY <1>1, <3>2 DEF Queued
    <3>5. Queued(q, Tail(td), c2, b, T) BY <3>2, <3>3, <3>4 DEF Queued
    <3> QED BY <3>1, <3>5
  <2> QED BY <2>1, <2>2 DEF Novel
<1>4. Head(td).a = "m" => Uncalled(Head(td), cd, T) /\ Head(td).n <= b
  BY <1>0, <1>2 DEF Novel, Late
<1> QED BY <1>3, <1>4

\* Another kind of message is added.
LEMMA NovelOther ==
  ASSUME NEW td \in Seq(Parcels), NEW x \in Parcels, x.a # "m", NEW tk, NEW T, NEW cd, NEW b,
         Novel(td, tk, cd, b, T)
  PROVE  Novel(Append(td, x), tk, cd, b, T)
<1>0. /\ Len(Append(td, x)) = Len(td) + 1 /\ Len(td) \in Nat /\ Append(td, x)[Len(td) + 1] = x
      /\ \A j \in 1..Len(td) : Append(td, x)[j] = td[j]
  OBVIOUS
<1>1. \A j \in 1..Len(Append(td, x)) : Append(td, x)[j].a = "m" =>
        j \in 1..Len(td) /\ Append(td, x)[j] = td[j]
  BY <1>0
<1>2. Late(Append(td, x), cd, b, T) BY <1>1 DEF Novel, Late
<1>3. \A k \in 1..Len(tk) : Queued(tk[k].q, Append(td, x), cd, b, T)
  BY <1>1 DEF Novel, Queued
<1> QED BY <1>2, <1>3 DEF Novel

\* A task's first message goes to the channel, or nowhere.
LEMMA NovelForwards ==
  ASSUME NEW td \in Seq(Parcels), NEW tk, NEW tk2, NEW k \in 1..Len(tk), NEW T, NEW cd, NEW b,
         NEW q \in Seq(Copies), q # <<>>, tk[k].q = q, Len(tk2) = Len(tk), tk2[k].q = Tail(q),
         \A l \in 1..Len(tk) : l # k => tk2[l].q = tk[l].q,
         Novel(td, tk, cd, b, T)
  PROVE  /\ Novel(td, tk2, cd, b, T)
         /\ Novel(Append(td, Head(q)), tk2, cd, b, T)
<1> DEFINE td2 == Append(td, Head(q))
<1>0. /\ Len(q) \in Nat \ {0} /\ Len(Tail(q)) = Len(q) - 1 /\ Head(q) = q[1] /\ Head(q) \in Copies
      /\ \A j \in 1..Len(q) - 1 : Tail(q)[j] = q[j + 1]
  OBVIOUS
<1>1. /\ Len(td2) = Len(td) + 1 /\ Len(td) \in Nat /\ td2[Len(td) + 1] = q[1]
      /\ \A j \in 1..Len(td) : td2[j] = td[j]
  BY <1>0 DEF Copies, Parcels, Kinds
<1>2. /\ \A j \in 1..Len(Tail(q)) : j + 1 \in 1..Len(q) /\ Tail(q)[j] = q[j + 1] /\ 1 < j + 1
      /\ 1 \in 1..Len(q)
  BY <1>0
<1>3. \A j \in 1..Len(td2) : j = Len(td) + 1 \/ (j \in 1..Len(td) /\ j # Len(td) + 1) BY <1>1
<1> HIDE DEF td2
<1>4. Queued(q, td, cd, b, T) /\ Late(td, cd, b, T) BY DEF Novel
<1>5. Late(td2, cd, b, T)
  <2>1. \A i \in 1..Len(td2) : td2[i].a = "m" => td2[i].n <= b /\ Uncalled(td2[i], cd, T)
    BY <1>1, <1>2, <1>3, <1>4 DEF Late, Queued
  <2>2. ASSUME NEW i \in 1..Len(td2), NEW j \in 1..Len(td2), i < j, td2[i].a = "m", td2[j].a = "m"
        PROVE  Differ(td2[i], td2[j], T)
    <3>1. i \in 1..Len(td) /\ td2[i] = td[i] BY <1>1, <2>2
    <3>2. CASE j = Len(td) + 1 BY <1>1, <1>2, <1>4, <2>2, <3>1, <3>2 DEF Queued
    <3>3. CASE j # Len(td) + 1 BY <1>1, <1>3, <1>4, <2>2, <3>1, <3>3 DEF Late
    <3> QED BY <3>2, <3>3
  <2> QED BY <2>1, <2>2 DEF Late
<1>6. Queued(Tail(q), td, cd, b, T)
  <2>1. \A i, j \in 1..Len(Tail(q)) : i < j => i + 1 < j + 1 OBVIOUS
  <2>2. \A i \in 1..Len(Tail(q)) : Tail(q)[i].n <= b /\ Uncalled(Tail(q)[i], cd, T)
    BY <1>2, <1>4 DEF Queued
  <2>3. \A i, j \in 1..Len(Tail(q)) : i < j => Differ(Tail(q)[i], Tail(q)[j], T)
    BY <1>2, <1>4, <2>1 DEF Queued
  <2>4. \A i \in 1..Len(Tail(q)), j \in 1..Len(td) : td[j].a = "m" => Differ(td[j], Tail(q)[i], T)
    BY <1>2, <1>4 DEF Queued
  <2> QED BY <2>2, <2>3, <2>4 DEF Queued
<1>7. Queued(Tail(q), td2, cd, b, T)
  <2>1. \A i \in 1..Len(Tail(q)) : Differ(q[1], Tail(q)[i], T)
    BY <1>2, <1>4 DEF Queued
  <2>2. \A i \in 1..Len(Tail(q)), j \in 1..Len(td2) :
          td2[j].a = "m" => Differ(td2[j], Tail(q)[i], T)
    BY <1>1, <1>3, <1>6, <2>1 DEF Queued
  <2> QED BY <1>6, <2>2 DEF Queued
<1>8. ASSUME NEW l \in 1..Len(tk), l # k
      PROVE  /\ Queued(tk2[l].q, td, cd, b, T) /\ Queued(tk2[l].q, td2, cd, b, T)
             /\ Apart(tk2[l].q, Tail(q), T) /\ Apart(Tail(q), tk2[l].q, T)
  <2>1. PICK r : r = tk2[l].q OBVIOUS
  <2>2. Queued(r, td, cd, b, T) /\ Apart(r, q, T) /\ Apart(q, r, T) BY <1>8, <2>1 DEF Novel
  <2>3. Apart(r, Tail(q), T) /\ Apart(Tail(q), r, T) BY <1>2, <2>2 DEF Apart
  <2>4. \A i \in 1..Len(r), j \in 1..Len(td2) : td2[j].a = "m" => Differ(td2[j], r[i], T)
    BY <1>1, <1>2, <1>3, <2>2 DEF Apart, Queued
  <2>5. Queued(r, td2, cd, b, T) BY <2>2, <2>4 DEF Queued
  <2> QED BY <2>1, <2>2, <2>3, <2>5
<1>9. \A i, j \in 1..Len(tk2) : i # j => Apart(tk2[i].q, tk2[j].q, T)
  BY <1>8 DEF Novel
<1> QED BY <1>4, <1>5, <1>6, <1>7, <1>8, <1>9 DEF Novel, td2

\* The broker's next message goes into queues of different numbers, but for
\* those in T.
LEMMA NovelDelivers ==
  ASSUME NEW td \in Seq(Parcels), NEW tk \in Seq(Task), NEW tk2, NEW t, NEW T, NEW cd, NEW b \in Int,
         Novel(td, tk, cd, b, T), \A x \in cd : x[2] <= b, Len(tk2) = Len(tk),
         \A k \in 1..Len(tk) :
           tk2[k].q = IF tk[k].on = "on" /\ tk[k].t = t
                      THEN Append(tk[k].q, Msg("m", tk[k].nr, t, FALSE, b + 1)) ELSE tk[k].q,
         \A k, l \in 1..Len(tk) :
           tk[k].on = "on" /\ tk[l].on = "on" /\ tk[k].nr = tk[l].nr
           => k = l \/ tk[k].nr \in T,
         \A x \in cd : x[2] \in Int
  PROVE  Novel(td, tk2, cd, b + 1, T)
<1> DEFINE On(k) == tk[k].on = "on" /\ tk[k].t = t
           new(k) == Msg("m", tk[k].nr, t, FALSE, b + 1)
<1>1. \A n \in Int : n <= b => n <= b + 1 /\ n # b + 1 OBVIOUS
<1>2. \A i \in 1..Len(td) : td[i].n \in Int
  <2>1. \A i \in 1..Len(td) : td[i] \in Parcels OBVIOUS
  <2> QED BY <2>1 DEF Parcels
<1>3. \A k \in 1..Len(tk) : tk[k].q \in Seq(Copies) /\ tk[k].nr \in Int
  <2>1. \A k \in 1..Len(tk) : tk[k] \in Task OBVIOUS
  <2> QED BY <2>1 DEF Task
<1>4. \A k \in 1..Len(tk) : \A i \in 1..Len(tk[k].q) : tk[k].q[i].n \in Int
  <2> TAKE k \in 1..Len(tk)
  <2>1. PICK q \in Seq(Copies) : q = tk[k].q BY <1>3
  <2>2. \A i \in 1..Len(q) : q[i] \in Copies BY <2>1
  <2> QED BY <2>1, <2>2 DEF Copies
<1>5. Late(td, cd, b + 1, T) BY <1>1, <1>2 DEF Novel, Late
<1>6. \A k \in 1..Len(tk) : new(k).n = b + 1 /\ new(k).nr = tk[k].nr BY DEF Msg
<1>7. ASSUME NEW k \in 1..Len(tk) PROVE Queued(tk2[k].q, td, cd, b + 1, T)
  <2>1. PICK q \in Seq(Copies) : q = tk[k].q BY <1>3
  <2>2. Queued(q, td, cd, b, T) /\ \A i \in 1..Len(q) : q[i].n \in Int
    BY <1>4, <2>1 DEF Novel
  <2>3. Queued(q, td, cd, b + 1, T) BY <1>1, <2>2 DEF Queued
  <2>4. CASE On(k)
    <3>1. PICK x : x = new(k) OBVIOUS
    <3>2. PICK q2 : q2 = tk2[k].q OBVIOUS
    <3>3. q2 = Append(q, x) BY <2>1, <2>4, <3>1, <3>2
    <3>4. /\ Len(q2) = Len(q) + 1 /\ Len(q) \in Nat /\ q2[Len(q) + 1] = x
          /\ \A j \in 1..Len(q) : q2[j] = q[j]
      BY <2>1, <3>3
    <3>5. x.n = b + 1 BY <1>6, <3>1
    <3>6. Uncalled(x, cd, T)
      <4>1. \A y \in cd : y[2] # b + 1 BY <1>1
      <4> QED BY <3>5, <4>1 DEF Call, Uncalled
    <3>7. \A i \in 1..Len(q2) : q2[i].n <= b + 1 /\ Uncalled(q2[i], cd, T)
      <4> SUFFICES ASSUME NEW i \in 1..Len(q2)
          PROVE  q2[i].n <= b + 1 /\ Uncalled(q2[i], cd, T)
        OBVIOUS
      <4>1. CASE q2[i] = x BY <3>5, <3>6, <4>1
      <4>2. CASE i \in 1..Len(q) /\ q2[i] = q[i] BY <2>3, <4>2 DEF Queued
      <4>3. i = Len(q) + 1 \/ i \in 1..Len(q) BY <3>4
      <4> QED BY <3>4, <4>1, <4>2, <4>3
    <3>8. \A i \in 1..Len(q) : Differ(q[i], x, T)
      <4>1. \A i \in 1..Len(q) : q[i].n # b + 1 BY <1>1, <2>2 DEF Queued
      <4> QED BY <3>5, <4>1 DEF Call, Differ
    <3>9. \A i, j \in 1..Len(q2) : i < j => Differ(q2[i], q2[j], T)
      <4> SUFFICES ASSUME NEW i \in 1..Len(q2), NEW j \in 1..Len(q2), i < j
          PROVE  Differ(q2[i], q2[j], T)
        OBVIOUS
      <4>1. i \in 1..Len(q) BY <3>4
      <4>2. CASE j = Len(q) + 1 BY <3>4, <3>8, <4>1, <4>2
      <4>3. CASE j # Len(q) + 1
        <5>1. PICK n \in Nat : n = Len(q) /\ Len(q2) = n + 1 BY <3>4
        <5>2. j \in 1..n + 1 /\ j # n + 1 BY <4>3, <5>1
        <5>3. j \in 1..n BY <5>2
        <5>4. j \in 1..Len(q) BY <5>1, <5>3
        <5> QED BY <2>2, <3>4, <4>1, <5>4 DEF Queued
      <4> QED BY <4>2, <4>3
    <3>10. \A j \in 1..Len(td) : td[j].a = "m" => Differ(td[j], x, T)
      <4>1. \A j \in 1..Len(td) : td[j].a = "m" => td[j].n # b + 1 BY <1>1, <1>2 DEF Novel, Late
      <4> QED BY <3>5, <4>1 DEF Call, Differ
    <3>11. \A i \in 1..Len(q2), j \in 1..Len(td) : td[j].a = "m" => Differ(td[j], q2[i], T)
      <4>1. \A i \in 1..Len(q2) : q2[i] = x \/ (i \in 1..Len(q) /\ q2[i] = q[i])
        <5>1. PICK n \in Nat : n = Len(q) /\ Len(q2) = n + 1 BY <3>4
        <5>2. \A i \in 1..Len(q2) : i = n + 1 \/ i \in 1..n BY <5>1
        <5> QED BY <3>4, <5>1, <5>2
      <4> QED BY <2>2, <3>10, <4>1 DEF Queued
    <3>12. Queued(q2, td, cd, b + 1, T) BY <3>7, <3>9, <3>11 DEF Queued
    <3> QED BY <3>2, <3>12
  <2>5. CASE ~On(k) BY <2>1, <2>3, <2>5
  <2> QED BY <2>4, <2>5
<1>8. ASSUME NEW k \in 1..Len(tk), NEW l \in 1..Len(tk), k # l PROVE Apart(tk2[k].q, tk2[l].q, T)
  <2>1. PICK q \in Seq(Copies) : q = tk[k].q BY <1>3
  <2>2. PICK r \in Seq(Copies) : r = tk[l].q BY <1>3
  <2>3. /\ Apart(q, r, T)
        /\ \A i \in 1..Len(q) : q[i].n # b + 1
        /\ \A i \in 1..Len(r) : r[i].n # b + 1
    BY <1>1, <1>4, <1>8, <2>1, <2>2 DEF Novel, Queued
  <2>4. PICK x : x = new(k) OBVIOUS
  <2>5. PICK y : y = new(l) OBVIOUS
  <2>6. x.n = b + 1 /\ y.n = b + 1 /\ x.nr = tk[k].nr /\ y.nr = tk[l].nr BY <1>6, <2>4, <2>5
  <2>7. PICK q2 : q2 = tk2[k].q OBVIOUS
  <2>8. PICK r2 : r2 = tk2[l].q OBVIOUS
  <2>9. /\ \A i \in 1..Len(q2) : \/ i \in 1..Len(q) /\ q2[i] = q[i]
                                 \/ On(k) /\ q2[i] = x
        /\ \A i \in 1..Len(r2) : \/ i \in 1..Len(r) /\ r2[i] = r[i]
                                 \/ On(l) /\ r2[i] = y
    <3>1. q2 = IF On(k) THEN Append(q, x) ELSE q BY <2>1, <2>4, <2>7
    <3>2. r2 = IF On(l) THEN Append(r, y) ELSE r BY <2>2, <2>5, <2>8
    <3>3. ASSUME NEW i \in 1..Len(q2)
          PROVE  (i \in 1..Len(q) /\ q2[i] = q[i]) \/ (On(k) /\ q2[i] = x)
      <4>1. CASE On(k)
        <5>1. q2 = Append(q, x) BY <3>1, <4>1
        <5>2. Len(q2) = Len(q) + 1 /\ Len(q) \in Nat BY <5>1
        <5> QED BY <4>1, <5>1, <5>2
      <4>2. CASE ~On(k) BY <3>1, <4>2
      <4> QED BY <4>1, <4>2
    <3>4. ASSUME NEW i \in 1..Len(r2)
          PROVE  (i \in 1..Len(r) /\ r2[i] = r[i]) \/ (On(l) /\ r2[i] = y)
      <4>1. CASE On(l)
        <5>1. r2 = Append(r, y) BY <3>2, <4>1
        <5>2. Len(r2) = Len(r) + 1 /\ Len(r) \in Nat BY <5>1
        <5> QED BY <4>1, <5>1, <5>2
      <4>2. CASE ~On(l) BY <3>2, <4>2
      <4> QED BY <4>1, <4>2
    <3> QED BY <3>3, <3>4
  <2>10. On(k) /\ On(l) => Differ(x, y, T)
    <3>1. On(k) /\ On(l) => x.nr # y.nr \/ x.nr \in T BY <1>8, <2>6
    <3> QED BY <3>1 DEF Call, Differ
  <2>11. ASSUME NEW i \in 1..Len(q2), NEW j \in 1..Len(r2) PROVE Differ(q2[i], r2[j], T)
    <3>1. CASE i \in 1..Len(q) /\ q2[i] = q[i]
      <4>1. CASE j \in 1..Len(r) /\ r2[j] = r[j] BY <2>3, <3>1, <4>1 DEF Apart
      <4>2. CASE r2[j] = y BY <2>3, <2>6, <3>1, <4>2 DEF Call, Differ
      <4> QED BY <2>9, <4>1, <4>2
    <3>2. CASE On(k) /\ q2[i] = x
      <4>1. CASE j \in 1..Len(r) /\ r2[j] = r[j] BY <2>3, <2>6, <3>2, <4>1 DEF Call, Differ
      <4>2. CASE On(l) /\ r2[j] = y BY <2>10, <3>2, <4>2
      <4> QED BY <2>9, <4>1, <4>2
    <3> QED BY <2>9, <3>1, <3>2
  <2> QED BY <2>7, <2>8, <2>11 DEF Apart
<1> QED BY <1>5, <1>7, <1>8 DEF Novel

\* More numbers of which nothing is said
LEMMA NovelMore ==
  ASSUME NEW td, NEW tk, NEW T, NEW T2, T \subseteq T2, NEW cd, NEW b, Novel(td, tk, cd, b, T)
  PROVE  Novel(td, tk, cd, b, T2)
<1>1. /\ \A m : Uncalled(m, cd, T) => Uncalled(m, cd, T2)
      /\ \A m, n : Differ(m, n, T) => Differ(m, n, T2)
  BY DEF Uncalled, Differ
<1>2. Late(td, cd, b, T2) BY <1>1 DEF Novel, Late
<1>3. \A q : Queued(q, td, cd, b, T) => Queued(q, td, cd, b, T2) BY <1>1 DEF Queued
<1>4. \A q, r : Apart(q, r, T) => Apart(q, r, T2) BY <1>1 DEF Apart
<1> QED BY <1>2, <1>3, <1>4 DEF Novel

-----------------------------------------------------------------------------
(* What each step of a multiplexer does to its tasks.                      *)

\* Tasks that keep their numbers and topics, and are not on again
Kept(c) ==
  /\ tasks'[c] \in Seq(Task) /\ Same(tasks[c], tasks'[c])
  /\ \A l \in 1..Len(tasks[c]) : tasks'[c][l].on = "on" => tasks[c][l].on = "on"
Elsewhere(c) == \A d \in Conns : d # c => tasks'[d] = tasks[d]

LEMMA KeptSame ==
  ASSUME TrackInv, NEW c \in Conns, tasks'[c] = tasks[c]
  PROVE  Kept(c)
BY TablesTyped DEF Kept, Same

\* Task k is set to g; the task f can become g.
Put(c, k, g) == tasks' = [tasks EXCEPT ![c] = [tasks[c] EXCEPT ![k] = g]]
Follows(g, f) == /\ g \in Task /\ g.nr = f.nr /\ What(g) = What(f)
                 /\ g.on = "on" => f.on = "on"

LEMMA ChangedTask ==
  ASSUME TrackInv, NEW c \in Conns, NEW k, NEW g,
         Put(c, k, g), k \in DOMAIN tasks[c] => Follows(g, tasks[c][k])
  PROVE  /\ Kept(c) /\ Elsewhere(c)
         /\ \A l \in 1..Len(tasks[c]) : tasks'[c][l] = IF l = k THEN g ELSE tasks[c][l]
<1>1. tasks' \in [Conns -> Seq(Task)] /\ \A d \in Conns : d # c => tasks'[d] = tasks[d]
  BY TasksWith DEF TrackInv, Follows, Put
<1>2. tasks[c] \in Seq(Task) /\ DOMAIN tasks[c] = 1..Len(tasks[c]) BY TablesTyped
<1>3. tasks'[c] = [tasks[c] EXCEPT ![k] = g] BY DEF TrackInv, MuxTyped, Put
<1>4. CASE k \in DOMAIN tasks[c]
  <2>1. PICK tk2 : tk2 = tasks'[c] OBVIOUS
  <2>2. /\ Len(tk2) = Len(tasks[c])
        /\ \A l \in 1..Len(tasks[c]) : tk2[l] = IF l = k THEN g ELSE tasks[c][l]
    BY <1>2, <1>3, <1>4, <2>1
  <2>3. Same(tasks[c], tk2) BY <1>2, <1>4, <2>2 DEF Same, Follows
  <2>4. \A l \in 1..Len(tasks[c]) : tk2[l].on = "on" => tasks[c][l].on = "on"
    BY <1>2, <1>4, <2>2 DEF Follows
  <2> QED BY <1>1, <2>1, <2>2, <2>3, <2>4 DEF Kept, Elsewhere
<1>5. CASE k \notin DOMAIN tasks[c]
  <2>1. [tasks[c] EXCEPT ![k] = g] = tasks[c] BY <1>2, <1>5
  <2>2. \A l \in 1..Len(tasks[c]) : l # k BY <1>2, <1>5
  <2> QED BY <1>1, <1>3, <2>1, <2>2, KeptSame DEF Elsewhere
<1> QED BY <1>4, <1>5

LEMMA MuxMSTasks ==
  ASSUME TrackInv, NEW c \in Conns, MuxMS(c)
  PROVE  \E f \in Task :
           /\ f.nr = Head(fromDev[c]).nr /\ f.t = Head(fromDev[c]).t /\ f.q = <<>>
           /\ tasks'[c] = Append(tasks[c], f) /\ Elsewhere(c)
<1>0. PICK m : m = Head(fromDev[c]) OBVIOUS
<1>1. PICK f : f = [nr |-> m.nr, t |-> m.t, r |-> m.r, on |-> "on", q |-> <<>>] OBVIOUS
<1>2. Reading(c, {"ms"}) /\ tasks' = [tasks EXCEPT ![c] = Append(@, f)]
  BY <1>0, <1>1 DEF MuxMS
<1>3. m \in Parcels BY <1>0, <1>2, TablesTyped, TailFacts DEF Reading
<1>4. f \in Task /\ f.nr = m.nr /\ f.t = m.t /\ f.q = <<>>
  <2>1. <<>> \in Seq(Copies) OBVIOUS
  <2> QED BY <1>1, <1>3, <2>1 DEF Task, Parcels
<1>5. tasks'[c] = Append(tasks[c], f) /\ Elsewhere(c)
  BY <1>2 DEF TrackInv, MuxTyped, Elsewhere
<1> QED BY <1>0, <1>4, <1>5

LEMMA MuxMUTasks ==
  ASSUME TrackInv, NEW c \in Conns, MuxMU(c)
  PROVE  /\ Kept(c) /\ Elsewhere(c)
         /\ \A l \in 1..Len(tasks[c]) : tasks'[c][l].q = tasks[c][l].q
<1>1. tasks[c] \in Seq(Task) BY TablesTyped
<1>2. CASE tasks' = tasks BY <1>2, KeptSame DEF Elsewhere
<1>3. CASE tasks' # tasks
  <2>1. PICK k : k = msubs[c][Head(fromDev[c]).nr] OBVIOUS
  <2>2. PICK g : g = [tasks[c][k] EXCEPT !.on = "leaving"] BY Zenon
  <2>3. Put(c, k, g)
    <3>1. tasks' = [tasks EXCEPT ![c][k].on = "leaving"] BY <1>3, <2>1 DEF MuxMU
    <3>2. tasks' = [tasks EXCEPT ![c] = [tasks[c] EXCEPT ![k] = [tasks[c][k] EXCEPT !.on = "leaving"]]]
      BY <3>1
    <3> QED BY <2>2, <3>2 DEF Put
  <2>4. ASSUME k \in DOMAIN tasks[c]
        PROVE  Follows(g, tasks[c][k]) /\ g.q = tasks[c][k].q
    <3>1. tasks[c][k] \in Task BY <1>1, <2>4
    <3>2. /\ g \in Task /\ g.nr = tasks[c][k].nr /\ What(g) = What(tasks[c][k])
          /\ g.q = tasks[c][k].q /\ g.on # "on"
      BY <2>2, <3>1 DEF Task, What
    <3> QED BY <3>2 DEF Follows
  <2>5. /\ Kept(c) /\ Elsewhere(c)
        /\ \A l \in 1..Len(tasks[c]) : tasks'[c][l] = IF l = k THEN g ELSE tasks[c][l]
    BY <2>3, <2>4, ChangedTask
  <2>6. \A l \in 1..Len(tasks[c]) : l \in DOMAIN tasks[c] BY <1>1
  <2> QED BY <2>4, <2>5, <2>6
<1> QED BY <1>2, <1>3

LEMMA BecomesTasks ==
  ASSUME TrackInv, NEW c \in Conns, NEW k \in DOMAIN tasks[c], NEW on \in {"leaving", "ended"},
         Becomes(c, k, on)
  PROVE  /\ Kept(c) /\ Elsewhere(c) /\ k \in 1..Len(tasks[c])
         /\ \A l \in 1..Len(tasks[c]) : tasks'[c][l].q = <<>> \/ tasks'[c][l].q = tasks[c][l].q
<1>1. PICK g : g = [tasks[c][k] EXCEPT !.on = on, !.q = <<>>] OBVIOUS
<1>2. tasks[c][k] \in Task /\ g \in Task /\ Put(c, k, g)
  <2>1. tasks[c][k] \in Task /\ [tasks[c][k] EXCEPT !.on = on, !.q = <<>>] \in Task
    BY BecomesTyped
  <2>2. tasks[c] \in Seq(Task) BY TablesTyped
  <2> QED BY <1>1, <2>1, <2>2 DEF Becomes, TrackInv, MuxTyped, Task, Put
<1>3. Follows(g, tasks[c][k]) /\ g.q = <<>>
  <2>1. g.nr = tasks[c][k].nr /\ What(g) = What(tasks[c][k]) /\ g.on # "on" /\ g.q = <<>>
    BY <1>1, <1>2 DEF Task, What
  <2> QED BY <1>2, <2>1 DEF Follows
<1>4. k \in 1..Len(tasks[c])
  <2>1. tasks[c] \in Seq(Task) BY TablesTyped
  <2> QED BY <2>1
<1>5. /\ Kept(c) /\ Elsewhere(c)
      /\ \A l \in 1..Len(tasks[c]) : tasks'[c][l] = IF l = k THEN g ELSE tasks[c][l]
  BY <1>2, <1>3, ChangedTask
<1> QED BY <1>3, <1>4, <1>5

LEMMA ForwardTasks ==
  ASSUME TrackInv, NEW c \in Conns, NEW k \in DOMAIN tasks[c], Forward(c, k)
  PROVE  /\ Kept(c) /\ Elsewhere(c) /\ k \in 1..Len(tasks[c])
         /\ tasks[c][k].q \in Seq(Copies) /\ tasks[c][k].q # <<>>
         /\ tasks'[c][k].q = Tail(tasks[c][k].q)
         /\ \A l \in 1..Len(tasks[c]) : l # k => tasks'[c][l].q = tasks[c][l].q
<1>1. tasks[c] \in Seq(Task) BY TablesTyped
<1>2. k \in 1..Len(tasks[c]) /\ tasks[c][k] \in Task BY <1>1
<1>3. PICK g : g = [tasks[c][k] EXCEPT !.q = Tail(@)] OBVIOUS
<1>4. tasks[c][k].q \in Seq(Copies) /\ tasks[c][k].q # <<>> BY <1>2 DEF Task, Forward
<1>5. /\ g \in Task /\ g.nr = tasks[c][k].nr /\ What(g) = What(tasks[c][k])
      /\ g.q = Tail(tasks[c][k].q) /\ g.on = tasks[c][k].on
  <2>1. Tail(tasks[c][k].q) \in Seq(Copies) BY <1>4
  <2> QED BY <1>2, <1>3, <2>1 DEF Task, What
<1>6. tasks' = [tasks EXCEPT ![c][k].q = Tail(@)] BY DEF Forward
<1>7. Put(c, k, g) BY <1>1, <1>2, <1>3, <1>6 DEF TrackInv, MuxTyped, Task, Put
<1>8. /\ Kept(c) /\ Elsewhere(c)
      /\ \A l \in 1..Len(tasks[c]) : tasks'[c][l] = IF l = k THEN g ELSE tasks[c][l]
  <2>1. Follows(g, tasks[c][k]) BY <1>5 DEF Follows
  <2> QED BY <1>7, <2>1, ChangedTask
<1> QED BY <1>2, <1>4, <1>5, <1>8

LEMMA DeliverTasks ==
  ASSUME TrackInv, NEW t \in Named, Deliver(t), NEW c \in Conns
  PROVE  /\ Kept(c)
         /\ \A k \in 1..Len(tasks[c]) :
              tasks'[c][k].q = IF tasks[c][k].on = "on" /\ tasks[c][k].t = t
                               THEN Append(tasks[c][k].q, Msg("m", tasks[c][k].nr, t, FALSE, broker + 1))
                               ELSE tasks[c][k].q
<1>1. tasks[c] \in Seq(Task) BY TablesTyped
<1>2. Kept(c)
  <2>1. tasks'[c] \in Seq(Task) BY DeliverTyped DEF TrackInv
  <2> QED BY <2>1, DeliverAlike DEF Kept
<1>3. PICK b : b = broker + 1 OBVIOUS
<1> DEFINE M(k) == Msg("m", tasks[c][k].nr, t, FALSE, b)
<1>4. tasks'[c] = [k \in DOMAIN tasks[c] |->
                     IF tasks[c][k].on = "on" /\ tasks[c][k].t = t
                     THEN [tasks[c][k] EXCEPT !.q = Append(@, M(k))]
                     ELSE tasks[c][k]]
  BY <1>3 DEF Deliver
<1> HIDE DEF M
<1>5. ASSUME NEW k \in 1..Len(tasks[c])
      PROVE  tasks'[c][k].q = IF tasks[c][k].on = "on" /\ tasks[c][k].t = t
                              THEN Append(tasks[c][k].q, M(k)) ELSE tasks[c][k].q
  <2>1. PICK r : r = tasks[c][k] OBVIOUS
  <2>2. r \in Task /\ k \in DOMAIN tasks[c] BY <1>1, <2>1
  <2>3. PICK r2 : r2 = tasks'[c][k] OBVIOUS
  <2>4. r2 = IF r.on = "on" /\ r.t = t THEN [r EXCEPT !.q = Append(@, M(k))] ELSE r
    BY <1>4, <2>1, <2>2, <2>3
  <2>5. r2.q = IF r.on = "on" /\ r.t = t THEN Append(r.q, M(k)) ELSE r.q
    BY <2>2, <2>4 DEF Task
  <2> QED BY <2>1, <2>3, <2>5
<1> QED BY <1>2, <1>3, <1>5 DEF M

-----------------------------------------------------------------------------
(* Messages have a topic that their number was subscribed to.              *)

\* What is new on the channels and among the tasks
NewFrom == \A c \in Conns : \A m \in Range(fromDev'[c]) :
             m.a = "ms" => m \in Range(fromDev[c]) \/ Meant(m, asked)
NewTo == \A c \in Conns : \A m \in Range(toDev'[c]) :
           m.a = "m" => m \in Range(toDev[c]) \/ Meant(m, asked)
NewTasks == \A c \in Conns : \A tk \in Range(tasks'[c]) :
              tk \in Range(tasks[c]) \/ MeantTask(tk, asked)

\* What the program has subscribed to, and what it says of it
NewAsked ==
  /\ \A nr \in DOMAIN asked : nr \in DOMAIN asked' /\ asked[nr] \subseteq asked'[nr]
  /\ \A nr \in DOMAIN subs' : nr \in DOMAIN asked' /\ \E w \in asked'[nr] : w.t = subs'[nr]
  /\ prog'.m.a = "ms" => prog'.m = prog.m \/ Meant(prog'.m, asked')

LEMMA MeantStep ==
  ASSUME MeantInv, NewAsked, NewFrom, NewTo, NewTasks
  PROVE  MeantInv'
<1>1. \A m : Meant(m, asked) => Meant(m, asked') BY DEF NewAsked, Meant
<1>2. \A tk : MeantTask(tk, asked) => MeantTask(tk, asked') BY <1>1 DEF MeantTask
<1>3. ASSUME NEW c \in Conns
      PROVE  /\ \A m \in Range(fromDev'[c]) : m.a = "ms" => Meant(m, asked')
             /\ \A m \in Range(toDev'[c]) : m.a = "m" => Meant(m, asked')
             /\ \A tk \in Range(tasks'[c]) : MeantTask(tk, asked')
  BY <1>1, <1>2 DEF MeantInv, NewFrom, NewTo, NewTasks
<1>4. prog'.m.a = "ms" => Meant(prog'.m, asked') BY <1>1 DEF MeantInv, NewAsked
<1> QED BY <1>3, <1>4 DEF MeantInv, NewAsked

\* A step in which the program does not call subscribe
LEMMA SameAsked ==
  ASSUME MeantInv, asked' = asked, prog'.m = prog.m \/ prog'.m.a # "ms",
         \A nr \in DOMAIN subs' : nr \in DOMAIN subs /\ subs'[nr] = subs[nr]
  PROVE  NewAsked
BY DEF MeantInv, NewAsked

LEMMA PlainKinds == \A a : Plain(a).a = a
BY DEF Plain, Msg

LEMMA SameNews ==
  /\ fromDev' = fromDev => NewFrom
  /\ toDev' = toDev => NewTo
  /\ tasks' = tasks => NewTasks
BY DEF NewFrom, NewTo, NewTasks

\* What is taken from the channels to the device
LEMMA TakenTo ==
  ASSUME TrackInv,
         \A d \in Conns : \/ toDev'[d] = toDev[d] \/ toDev'[d] = <<>>
                          \/ toDev[d] # <<>> /\ toDev'[d] = Tail(toDev[d])
  PROVE  NewTo
<1> SUFFICES ASSUME NEW d \in Conns PROVE Range(toDev'[d]) \subseteq Range(toDev[d])
  BY DEF NewTo
<1>1. toDev[d] \in Seq(Parcels) BY TablesTyped
<1> QED BY <1>1, RangeEmpty, RangeTail

\* The device sends ms, of which those that are subscriptions are right.
LEMMA MoreFrom ==
  ASSUME TrackInv, NEW c \in Conns, NEW ms \in Seq(Parcels), fromDev' = ToMux(c, ms),
         \A m \in Range(ms) : m.a = "ms" => Meant(m, asked)
  PROVE  NewFrom
<1> SUFFICES ASSUME NEW d \in Conns
    PROVE  Range(fromDev'[d]) \subseteq Range(fromDev[d]) \cup Range(ms)
  BY DEF NewFrom
<1>1. fromDev[c] \in Seq(Parcels) BY TablesTyped
<1>2. \/ fromDev'[d] = fromDev[d]
      \/ d = c /\ fromDev'[d] = fromDev[c] \o ms
  BY ToMuxAt
<1> QED BY <1>1, <1>2, RangeConcat

LEMMA OneMessage ==
  ASSUME NEW m \in Parcels
  PROVE  <<m>> \in Seq(Parcels) /\ Range(<<m>>) \subseteq {m}
<1>1. <<m>> \in Seq(Parcels) OBVIOUS
<1>2. Len(<<m>>) = 1 /\ <<m>>[1] = m OBVIOUS
<1>3. \A x \in Range(<<m>>) : \E i \in 1..Len(<<m>>) : x = <<m>>[i] BY <1>1, RangeIs
<1>4. \A i \in 1..1 : i = 1 OBVIOUS
<1> QED BY <1>1, <1>2, <1>3, <1>4

\* One message that is right if it is a subscription
LEMMA OneFrom ==
  ASSUME TrackInv, NEW c \in Conns, NEW m \in Parcels, fromDev' = ToMux(c, <<m>>),
         m.a = "ms" => Meant(m, asked)
  PROVE  NewFrom
<1>1. <<m>> \in Seq(Parcels) /\ Range(<<m>>) \subseteq {m} BY OneMessage
<1> QED BY <1>1, MoreFrom

LEMMA ReadFrom ==
  ASSUME TrackInv, NEW c \in Conns, NEW a, Reading(c, a)
  PROVE  NewFrom
<1> SUFFICES ASSUME NEW d \in Conns PROVE Range(fromDev'[d]) \subseteq Range(fromDev[d])
  BY DEF NewFrom
<1>1. fromDev[d] \in Seq(Parcels) BY TablesTyped
<1>2. /\ fromDev[c] # <<>>
      /\ fromDev'[d] = fromDev[d] \/ (d = c /\ fromDev'[d] = Tail(fromDev[d]))
  BY ReadingAgrees
<1> QED BY <1>1, <1>2, RangeTail

LEMMA SentTo ==
  ASSUME TrackInv, NEW c \in Conns, NEW m \in Parcels, toDev' = ToDevice(c, m),
         m.a = "m" => Meant(m, asked)
  PROVE  NewTo
<1> SUFFICES ASSUME NEW d \in Conns PROVE Range(toDev'[d]) \subseteq Range(toDev[d]) \cup {m}
  BY DEF NewTo
<1>1. toDev[d] \in Seq(Parcels) BY TablesTyped
<1>2. toDev'[d] = toDev[d] \/ (d = c /\ toDev'[d] = Append(toDev[d], m)) BY Sent
<1> QED BY <1>1, <1>2, RangeAppend

LEMMA KeptMeant ==
  ASSUME TrackInv, MeantInv, NEW c \in Conns, Kept(c),
         \A l \in 1..Len(tasks[c]) : \A m \in Range(tasks'[c][l].q) :
           \/ m \in Range(tasks[c][l].q)
           \/ m.nr = tasks[c][l].nr /\ m.t = tasks[c][l].t
  PROVE  \A tk \in Range(tasks'[c]) : MeantTask(tk, asked)
<1> SUFFICES ASSUME NEW tk \in Range(tasks'[c]) PROVE MeantTask(tk, asked)
  OBVIOUS
<1>1. tasks[c] \in Seq(Task) /\ tasks'[c] \in Seq(Task) /\ Len(tasks'[c]) = Len(tasks[c])
  BY TablesTyped DEF Kept, Same
<1>2. PICK tk2 \in Seq(Task) : tk2 = tasks'[c] BY <1>1
<1>3. PICK k \in 1..Len(tk2) : tk = tk2[k] BY <1>2, RangeIs
<1>4. k \in 1..Len(tasks[c]) /\ tasks[c][k] \in Range(tasks[c]) BY <1>1, <1>2, <1>3, RangeIs
<1>5. MeantTask(tasks[c][k], asked) BY <1>4 DEF MeantInv
<1>6. tk.nr = tasks[c][k].nr /\ tk.t = tasks[c][k].t
  <2>1. tk.nr = tasks[c][k].nr /\ What(tk) = What(tasks[c][k])
    BY <1>2, <1>3, <1>4 DEF Kept, Same
  <2> QED BY <2>1 DEF What
<1>7. \A m \in Range(tk.q) : m.nr = tk.nr /\ m.t = tk.t
  BY <1>2, <1>3, <1>4, <1>5, <1>6 DEF MeantTask
<1> QED BY <1>5, <1>6, <1>7 DEF MeantTask, Meant

\* A step in which the program says nothing new
LEMMA DeviceMeant ==
  ASSUME MeantInv, UNCHANGED <<subs, asked>>, prog'.m = prog.m \/ prog'.m.a # "ms",
         NewFrom, NewTo, NewTasks
  PROVE  MeantInv'
BY SameAsked, MeantStep

LEMMA ClosedTo ==
  ASSUME TrackInv, NEW c \in Conns, Close(c)
  PROVE  NewTo
<1>1. \A d \in Conns : toDev'[d] = toDev[d] \/ toDev'[d] = <<>>
  BY DEF Close, TrackInv, NetTyped
<1> QED BY <1>1, TakenTo

LEMMA AcceptMeant ==
  ASSUME TrackInv, MeantInv, NEW c \in Conns, Accept(c)
  PROVE  MeantInv'
<1>1. /\ UNCHANGED <<subs, asked, prog, toDev, tasks>> /\ fromDev' = ToMux(c, <<Plain("h")>>)
  BY DEF Accept, subVars, muxVars
<1>2. Plain("h") \in Parcels /\ Plain("h").a # "ms" BY PlainType, PlainKinds DEF Kinds
<1>3. NewFrom BY <1>1, <1>2, OneFrom
<1> QED BY <1>1, <1>3, SameNews, DeviceMeant

LEMMA ReadEOFMeant ==
  ASSUME TrackInv, MeantInv, NEW c \in Conns, ReadEOF(c)
  PROVE  MeantInv'
<1>1. UNCHANGED <<subs, asked, prog, fromDev, tasks>> /\ Close(c) BY DEF ReadEOF, subVars, muxVars
<1> QED BY <1>1, SameNews, ClosedTo, DeviceMeant

\* A message that is taken, or that c is stuck with
LEMMA HandledTo ==
  ASSUME TrackInv, NEW c \in Conns, toDev[c] # <<>>, Stick(c) \/ Handles(c)
  PROVE  /\ \A d \in Conns : d # c => toDev'[d] = toDev[d]
         /\ toDev'[c] = <<>> \/ toDev'[c] = Tail(toDev[c])
         /\ stuck \subseteq stuck'
         /\ NewTo
<1>1. /\ \A d \in Conns : d # c => toDev'[d] = toDev[d]
      /\ toDev'[c] = <<>> \/ toDev'[c] = Tail(toDev[c])
      /\ stuck \subseteq stuck'
  BY DEF Stick, Handles, Taken, TrackInv, NetTyped
<1>2. NewTo BY <1>1, TakenTo
<1> QED BY <1>1, <1>2

\* What a message other than h leaves
LEMMA HandledSame ==
  ASSUME NEW c, Message(c) \/ Removed(c) \/ Pong(c)
  PROVE  /\ UNCHANGED <<asked, prog, fromDev, mux, tasks, broker, sock, client, clients, twice, raced>>
         /\ toDev[c] # <<>> /\ Head(toDev[c]).a # "h" /\ sock[c] = "open"
         /\ Stick(c) \/ Handles(c)
         /\ subs' = subs \/ \E nr : subs' = Without(subs, nr)
BY DEF Message, Removed, Pong, Processing, Stays, muxVars

LEMMA MessageMeant ==
  ASSUME TrackInv, MeantInv, NEW c \in Conns, Message(c) \/ Removed(c) \/ Pong(c)
  PROVE  MeantInv'
<1>1. /\ UNCHANGED <<asked, prog, fromDev, tasks>> /\ toDev[c] # <<>>
      /\ Stick(c) \/ Handles(c)
      /\ subs' = subs \/ \E nr : subs' = Without(subs, nr)
  BY HandledSame
<1>2. \A nr \in DOMAIN subs' : nr \in DOMAIN subs /\ subs'[nr] = subs[nr]
  BY <1>1 DEF Without
<1>3. NewTo BY <1>1, HandledTo
<1> QED BY <1>1, <1>2, <1>3, SameNews, SameAsked, MeantStep

\* What becomes of the channels when c is opened
LEMMA OpenedTo ==
  ASSUME TrackInv, NEW c \in Conns, Opened(c)
  PROVE  /\ \A d \in Conns : d # c => toDev'[d] = <<>> \/ toDev'[d] = toDev[d]
         /\ toDev'[c] = Tail(toDev[c]) /\ toDev[c] # <<>> /\ Head(toDev[c]).a = "h"
         /\ client # c /\ HelloComes(c)
<1>1. /\ toDev[c] # <<>> /\ Head(toDev[c]).a = "h"
      /\ toDev' = IF client = 0 THEN Taken(c) ELSE [Taken(c) EXCEPT ![client] = <<>>]
  BY DEF Opened, Replace, Processing
<1>2. toDev[c] \in Seq(Parcels) BY TablesTyped
<1>3. 1 \in 1..Len(toDev[c]) /\ toDev[c][1].a = "h" BY <1>1, <1>2, TailFacts
<1>4. client # c /\ HelloComes(c) BY <1>3 DEF TrackInv, Hello, HelloComes
<1>5. /\ Taken(c) \in [Conns -> Seq(Parcels)]
      /\ \A d \in Conns : d # c => Taken(c)[d] = toDev[d]
      /\ Taken(c)[c] = Tail(toDev[c])
  <2>1. Taken(c)[c] = Tail(toDev[c]) BY DEF Taken, TrackInv, NetTyped
  <2> QED BY <1>1, <2>1, TakenType DEF TrackInv
<1>6. client # 0 => client \in Conns BY DEF TrackInv, DeviceTyped
<1>7. CASE client = 0 BY <1>1, <1>4, <1>5, <1>7
<1>8. CASE client # 0
  <2>1. toDev' = [Taken(c) EXCEPT ![client] = <<>>] BY <1>1, <1>8
  <2> QED BY <1>1, <1>4, <1>5, <1>6, <1>8, <2>1
<1> QED BY <1>7, <1>8

LEMMA OpenedMeant ==
  ASSUME TrackInv, MeantInv, NEW c \in Conns, Opened(c)
  PROVE  MeantInv'
<1>1. UNCHANGED <<subs, asked, prog, tasks>> /\ fromDev' = ToMux(c, Resubscriptions)
  BY DEF Opened, Replace, Processing, muxVars
<1>2. PICK rs \in Seq(Parcels) : rs = Resubscriptions
  BY ResubscriptionsType DEF TrackInv
<1>3. ASSUME NEW m \in Range(rs) PROVE Meant(m, asked)
  <2>1. PICK k \in 1..Len(rs) : m = rs[k] BY RangeIs
  <2>2. PICK nr \in DOMAIN subs : m = Again(nr)
    BY <1>2, <2>1, Resubscribes DEF TrackInv
  <2>3. m.nr = nr /\ m.t = subs[nr] BY <2>2, AgainIs
  <2> QED BY <2>3 DEF Meant, MeantInv
<1>4. NewFrom BY <1>1, <1>2, <1>3, MoreFrom
<1>5. NewTo BY OpenedTo, TakenTo
<1> QED BY <1>1, <1>4, <1>5, SameNews, DeviceMeant

\* The main program
LEMMA SubscribeCallMeant ==
  ASSUME TrackInv, MeantInv, NEW n, SubscribeCall(n)
  PROVE  MeantInv'
<1>0. PICK w : w = Head(wishes) OBVIOUS
<1>1. PICK q : q = MS(n, w.t, w.r) OBVIOUS
<1>2. /\ Then(q) /\ subs' = With(subs, n, w.t) /\ asked' = With(asked, n, AskedFor(n) \cup {w})
      /\ UNCHANGED <<tasks, toDev, fromDev>>
  BY <1>0, <1>1 DEF SubscribeCall, Enter, muxVars, netVars
<1>3. q.a = "ms" /\ q.nr = n /\ q.t = w.t BY <1>1 DEF MS, Msg
<1>4. /\ DOMAIN subs' = DOMAIN subs \cup {n} /\ subs'[n] = w.t
      /\ \A nr \in DOMAIN subs : nr # n => subs'[nr] = subs[nr]
  BY <1>2 DEF With
<1>5. /\ DOMAIN asked' = DOMAIN asked \cup {n} /\ asked'[n] = AskedFor(n) \cup {w}
      /\ \A nr \in DOMAIN asked : nr # n => asked'[nr] = asked[nr]
  BY <1>2 DEF With
<1>6. w \in asked'[n] /\ (n \in DOMAIN asked => asked[n] \subseteq asked'[n])
  BY <1>5 DEF AskedFor
<1>7. \A nr \in DOMAIN asked : nr \in DOMAIN asked' /\ asked[nr] \subseteq asked'[nr]
  BY <1>5, <1>6
<1>8. ASSUME NEW nr \in DOMAIN subs'
      PROVE  nr \in DOMAIN asked' /\ \E v \in asked'[nr] : v.t = subs'[nr]
  <2>1. CASE nr = n BY <1>4, <1>5, <1>6, <2>1
  <2>2. CASE nr # n
    <3>1. nr \in DOMAIN subs /\ subs'[nr] = subs[nr] BY <1>4, <2>2
    <3>2. nr \in DOMAIN asked /\ \E v \in asked[nr] : v.t = subs[nr] BY <3>1 DEF MeantInv
    <3> QED BY <1>7, <3>1, <3>2
  <2> QED BY <2>1, <2>2
<1>9. prog'.m = q \/ prog'.m.a # "ms" BY <1>2, PlainKinds DEF Then, Doing, Idle
<1>10. Meant(q, asked') BY <1>3, <1>5, <1>6 DEF Meant
<1>11. NewAsked BY <1>7, <1>8, <1>9, <1>10 DEF NewAsked
<1> QED BY <1>2, <1>11, SameNews, MeantStep

LEMMA UnsubscribeMeant ==
  ASSUME TrackInv, MeantInv, NEW nr \in DOMAIN subs, Unsubscribe(nr)
  PROVE  MeantInv'
<1>1. /\ subs' = Without(subs, nr) /\ Then(MU(nr))
      /\ UNCHANGED <<asked, tasks, toDev, fromDev>>
  BY DEF Unsubscribe, muxVars, netVars
<1>2. prog'.m.a # "ms" BY <1>1, PlainKinds, MessageOf DEF Then, Doing, Idle
<1>3. \A x \in DOMAIN subs' : x \in DOMAIN subs /\ subs'[x] = subs[x] BY <1>1 DEF Without
<1> QED BY <1>1, <1>2, <1>3, SameNews, SameAsked, MeantStep

LEMMA PublishMeant ==
  ASSUME TrackInv, MeantInv, NEW t \in Topics, Publish(t)
  PROVE  MeantInv'
<1>1. UNCHANGED <<subs, asked, tasks, toDev, fromDev>> /\ Then(Msg("m", 0, t, FALSE, 0))
  BY DEF Publish, subVars, muxVars
<1>2. prog'.m.a # "ms" BY <1>1, PlainKinds DEF Then, Doing, Idle, Msg
<1> QED BY <1>1, <1>2, SameNews, DeviceMeant

LEMMA SendMeant ==
  ASSUME TrackInv, AgreeInv, ~raced, MeantInv, SendBegin \/ SendEnd
  PROVE  MeantInv'
<1>1. CASE SendBegin
  <2>1. UNCHANGED <<subs, asked, tasks, toDev, fromDev>> BY <1>1 DEF SendBegin, subVars, muxVars, netVars
  <2>2. prog'.m = prog.m \/ prog'.m.a # "ms"
    BY <1>1, PlainKinds DEF SendBegin, Doing, Idle
  <2> QED BY <2>1, <2>2, SameNews, DeviceMeant
<1>2. CASE SendEnd
  <2>1. /\ UNCHANGED <<subs, asked, tasks, toDev>> /\ prog.at = "packing" /\ prog' = Idle
        /\ fromDev' = IF sock[prog.c] = "open" THEN ToMux(prog.c, <<prog.m>>) ELSE fromDev
    BY <1>2 DEF SendEnd, subVars, muxVars
  <2>2. prog.c \in Conns /\ prog.m \in Parcels
    BY <2>1 DEF AgreeInv, Packing, TrackInv, DeviceTyped
  <2>3. prog.m.a = "ms" => Meant(prog.m, asked) BY DEF MeantInv
  <2>4. NewFrom
    <3>1. CASE fromDev' = fromDev BY <3>1, SameNews
    <3>2. CASE fromDev' = ToMux(prog.c, <<prog.m>>) BY <2>2, <2>3, <3>2, OneFrom
    <3> QED BY <2>1, <3>1, <3>2
  <2>5. prog'.m.a # "ms" BY <2>1, PlainKinds DEF Idle, Doing
  <2> QED BY <2>1, <2>4, <2>5, SameNews, DeviceMeant
<1> QED BY <1>1, <1>2

LEMMA StopMeant ==
  ASSUME TrackInv, MeantInv, StopBegin \/ StopClears \/ StopLoop \/ Start
  PROVE  MeantInv'
<1>1. UNCHANGED <<subs, asked, tasks, fromDev>>
  BY DEF StopBegin, StopClears, StopLoop, Start, subVars, muxVars, netVars
<1>2. prog'.m = prog.m \/ prog'.m.a # "ms"
  BY PlainKinds DEF StopBegin, StopClears, StopLoop, Start, Doing, Idle
<1>3. NewTo
  <2>1. client \in Conns \cup {0} /\ clients \subseteq Conns BY DEF TrackInv, DeviceTyped
  <2>2. (\E c \in Conns : Close(c)) \/ toDev' = toDev
    <3>1. CASE StopBegin BY <2>1, <3>1 DEF StopBegin
    <3>2. CASE StopClears BY <3>2 DEF StopClears, netVars
    <3>3. CASE StopLoop BY <2>1, <3>3 DEF StopLoop
    <3>4. CASE Start BY <3>4 DEF Start, netVars
    <3> QED BY <3>1, <3>2, <3>3, <3>4
  <2> QED BY <2>2, ClosedTo, SameNews
<1> QED BY <1>1, <1>2, <1>3, SameNews, DeviceMeant

\* A step of the multiplexers
LEMMA MuxMeant ==
  ASSUME MeantInv, UNCHANGED devVars, NewFrom, NewTo,
         \A c \in Conns :
           \/ tasks'[c] = tasks[c]
           \/ \A tk \in Range(tasks'[c]) : tk \in Range(tasks[c]) \/ MeantTask(tk, asked)
  PROVE  MeantInv'
<1>1. UNCHANGED <<subs, asked, prog>> BY DEF devVars, subVars
<1>2. NewTasks BY DEF NewTasks
<1> QED BY <1>1, <1>2, DeviceMeant

LEMMA MuxStartMeant ==
  ASSUME TrackInv, MeantInv, NEW c \in Conns, MuxConnect(c) \/ Ping(c) \/ MuxEnd(c)
  PROVE  MeantInv'
<1>0. UNCHANGED devVars BY DEF MuxConnect, Ping, MuxEnd, Ends
<1>1. NewTo
  <2>1. \A a \in {"h", "p"} : Plain(a) \in Parcels /\ Plain(a).a # "m"
    BY PlainType, PlainKinds DEF Kinds
  <2>2. \/ toDev' = toDev \/ toDev' = ToDevice(c, Plain("h"))
        \/ toDev' = ToDevice(c, Plain("p"))
    BY DEF MuxConnect, Ping, MuxEnd, Ends
  <2> QED BY <2>1, <2>2, SameNews, SentTo
<1>2. NewFrom
  <2>1. CASE fromDev' = fromDev BY <2>1, SameNews
  <2>2. CASE MuxEnd(c)
    <3>1. \A d \in Conns : fromDev'[d] = fromDev[d] \/ fromDev'[d] = <<>>
      BY <2>2 DEF MuxEnd, Ends, TrackInv, NetTyped
    <3> QED BY <3>1, RangeEmpty DEF NewFrom
  <2>3. MuxConnect(c) \/ Ping(c) => fromDev' = fromDev BY DEF MuxConnect, Ping
  <2> QED BY <2>1, <2>2, <2>3
<1>3. \A d \in Conns : tasks'[d] = tasks[d] \/ tasks'[d] = <<>>
  <2>1. CASE MuxEnd(c) BY <2>1 DEF MuxEnd, Ends, TrackInv, MuxTyped
  <2>2. MuxConnect(c) \/ Ping(c) => tasks' = tasks BY DEF MuxConnect, Ping, muxVars
  <2> QED BY <2>1, <2>2
<1> QED BY <1>0, <1>1, <1>2, <1>3, RangeEmpty, MuxMeant

\* The reader takes a message, and starts no task.
LEMMA ReadsMeant ==
  ASSUME TrackInv, MeantInv, NEW c \in Conns, MuxHello(c) \/ MuxRefused(c) \/ MuxMU(c)
  PROVE  MeantInv'
<1>1. PICK a : Reading(c, a)
  <2>1. MuxHello(c) => Reading(c, {"h"}) BY DEF MuxHello
  <2>2. MuxRefused(c) => Reading(c, {"ms", "m"}) BY DEF MuxRefused
  <2>3. MuxMU(c) => Reading(c, {"mu"}) BY Zenon DEF MuxMU
  <2> QED BY <2>1, <2>2, <2>3, Zenon
<1>2. UNCHANGED <<devVars, toDev>> BY <1>1 DEF Reading
<1>3. NewFrom BY <1>1, ReadFrom
<1>4. CASE tasks' = tasks BY <1>2, <1>3, <1>4, SameNews, MuxMeant
<1>5. CASE MuxMU(c)
  <2>1. /\ Kept(c) /\ Elsewhere(c)
        /\ \A l \in 1..Len(tasks[c]) : tasks'[c][l].q = tasks[c][l].q
    BY <1>5, MuxMUTasks
  <2>2. \A tk \in Range(tasks'[c]) : MeantTask(tk, asked) BY <2>1, KeptMeant
  <2> QED BY <1>2, <1>3, <2>1, <2>2, SameNews, MuxMeant DEF Elsewhere
<1> QED BY <1>4, <1>5 DEF MuxHello, MuxRefused

LEMMA MuxMSMeant ==
  ASSUME TrackInv, MeantInv, NEW c \in Conns, MuxMS(c)
  PROVE  MeantInv'
<1>1. Reading(c, {"ms"}) BY DEF MuxMS
<1>2. UNCHANGED <<devVars, toDev>> /\ fromDev[c] # <<>> /\ Head(fromDev[c]).a = "ms"
  BY <1>1 DEF Reading
<1>3. PICK f \in Task : /\ f.nr = Head(fromDev[c]).nr /\ f.t = Head(fromDev[c]).t /\ f.q = <<>>
                        /\ tasks'[c] = Append(tasks[c], f) /\ Elsewhere(c)
  BY MuxMSTasks
<1>4. fromDev[c] \in Seq(Parcels) /\ tasks[c] \in Seq(Task) BY TablesTyped
<1>5. Head(fromDev[c]) \in Range(fromDev[c]) BY <1>2, <1>4, RangeTail
<1>6. Meant(Head(fromDev[c]), asked) BY <1>2, <1>5 DEF MeantInv
<1>7. MeantTask(f, asked) BY <1>3, <1>6, RangeEmpty DEF MeantTask, Meant
<1>8. Range(tasks'[c]) \subseteq Range(tasks[c]) \cup {f} BY <1>3, <1>4, RangeAppend
<1>9. NewFrom /\ NewTo BY <1>1, <1>2, ReadFrom, SameNews
<1> QED BY <1>2, <1>3, <1>7, <1>8, <1>9, MuxMeant DEF Elsewhere

LEMMA TaskEndsMeant ==
  ASSUME TrackInv, MeantInv, NEW c \in Conns, NEW k \in DOMAIN tasks[c],
         TaskEnds(c, k) \/ TaskFails(c, k)
  PROVE  MeantInv'
<1>1. PICK on \in {"leaving", "ended"} : Becomes(c, k, on) BY DEF TaskEnds, TaskFails
<1>2. UNCHANGED <<devVars, fromDev>> BY <1>1 DEF Becomes
<1>3. /\ Kept(c) /\ Elsewhere(c) /\ k \in 1..Len(tasks[c])
      /\ \A l \in 1..Len(tasks[c]) : tasks'[c][l].q = <<>> \/ tasks'[c][l].q = tasks[c][l].q
  BY <1>1, BecomesTasks
<1>4. \A tk \in Range(tasks'[c]) : MeantTask(tk, asked) BY <1>3, RangeEmpty, KeptMeant
<1>5. NewTo
  <2>1. CASE toDev' = toDev BY <2>1, SameNews
  <2>2. CASE toDev' = ToDevice(c, MU(tasks[c][k].nr))
    <3>1. tasks[c] \in Seq(Task) BY TablesTyped
    <3>2. tasks[c][k] \in Task BY <1>3, <3>1
    <3>3. MU(tasks[c][k].nr) \in Parcels BY <3>2 DEF MU, Msg, Task, Parcels, Kinds, Named
    <3> QED BY <2>2, <3>3, MessageOf, SentTo
  <2> QED BY <2>1, <2>2 DEF TaskEnds, TaskFails
<1> QED BY <1>2, <1>3, <1>4, <1>5, SameNews, MuxMeant DEF Elsewhere

LEMMA ForwardMeant ==
  ASSUME TrackInv, MeantInv, NEW c \in Conns, NEW k \in DOMAIN tasks[c], Forward(c, k)
  PROVE  MeantInv'
<1>1. PICK q : q = tasks[c][k].q OBVIOUS
<1>2. /\ UNCHANGED <<devVars, fromDev>> /\ q # <<>> /\ toDev' = ToDevice(c, Head(q))
  BY <1>1 DEF Forward
<1>3. /\ Kept(c) /\ Elsewhere(c) /\ k \in 1..Len(tasks[c])
      /\ q \in Seq(Copies) /\ tasks'[c][k].q = Tail(q)
      /\ \A l \in 1..Len(tasks[c]) : l # k => tasks'[c][l].q = tasks[c][l].q
  BY <1>1, ForwardTasks
<1>4. Head(q) \in Range(q) /\ Range(Tail(q)) \subseteq Range(q) BY <1>2, <1>3, RangeTail
<1>5. \A tk \in Range(tasks'[c]) : MeantTask(tk, asked)
  BY <1>1, <1>3, <1>4, KeptMeant
<1>6. tasks[c] \in Seq(Task) BY TablesTyped
<1>7. tasks[c][k] \in Range(tasks[c]) BY <1>3, <1>6, RangeIs
<1>8. Meant(Head(q), asked) BY <1>1, <1>4, <1>7 DEF MeantInv, MeantTask, Meant
<1>9. Head(q) \in Parcels
  <2>1. Head(q) \in Copies BY <1>2, <1>3
  <2> QED BY <2>1 DEF Copies, Parcels, Kinds
<1>10. NewTo BY <1>2, <1>8, <1>9, SentTo
<1> QED BY <1>2, <1>3, <1>5, <1>10, SameNews, MuxMeant DEF Elsewhere

LEMMA DeliverMeant ==
  ASSUME TrackInv, MeantInv, NEW t \in Named, Deliver(t), NEW c \in Conns
  PROVE  \A tk \in Range(tasks'[c]) : MeantTask(tk, asked)
<1>1. tasks[c] \in Seq(Task) BY TablesTyped
<1>2. ASSUME NEW l \in 1..Len(tasks[c]), NEW m \in Range(tasks'[c][l].q)
      PROVE  m \in Range(tasks[c][l].q) \/ (m.nr = tasks[c][l].nr /\ m.t = tasks[c][l].t)
  <2>1. PICK tk : tk = tasks[c][l] OBVIOUS
  <2>2. tk \in Task BY <1>1, <2>1
  <2>3. PICK x : x = Msg("m", tk.nr, t, FALSE, broker + 1) OBVIOUS
  <2>4. tasks'[c][l].q = IF tk.on = "on" /\ tk.t = t THEN Append(tk.q, x) ELSE tk.q
    BY <2>1, <2>3, DeliverTasks
  <2>5. tk.q \in Seq(Copies) /\ tk.nr \in Int /\ tk.t \in Named BY <2>2 DEF Task
  <2>6. x \in Copies /\ x.nr = tk.nr /\ x.t = t
    BY <2>3, <2>5 DEF Msg, Copies, TrackInv, MuxTyped
  <2>7. Range(Append(tk.q, x)) \subseteq Range(tk.q) \cup {x} BY <2>5, <2>6, RangeAppend
  <2> QED BY <1>2, <2>1, <2>4, <2>6, <2>7
<1>3. Kept(c) BY DeliverTasks
<1> QED BY <1>2, <1>3, KeptMeant

LEMMA MuxMMeant ==
  ASSUME TrackInv, MeantInv, NEW c \in Conns, MuxM(c)
  PROVE  MeantInv'
<1>1. Reading(c, {"m"}) /\ Deliver(Head(fromDev[c]).t) BY DEF MuxM
<1>2. /\ UNCHANGED <<devVars, toDev>> /\ NewFrom /\ fromDev[c] # <<>>
  BY <1>1, ReadFrom DEF Reading
<1>3. Head(fromDev[c]).t \in Named
  <2>1. Head(fromDev[c]) \in Parcels BY <1>2, TablesTyped, TailFacts
  <2> QED BY <2>1 DEF Parcels
<1> QED BY <1>1, <1>2, <1>3, SameNews, DeliverMeant, MuxMeant

LEMMA OtherMeant ==
  ASSUME TrackInv, MeantInv, NEW t \in Topics, Other(t)
  PROVE  MeantInv'
<1>1. UNCHANGED <<devVars, toDev, fromDev>> /\ Deliver(t) /\ t \in Named
  BY DEF Other, Named
<1> QED BY <1>1, SameNews, DeliverMeant, MuxMeant

LEMMA MeantKept ==
  ASSUME TrackInv, AgreeInv, ~raced, MeantInv, Steps
  PROVE  MeantInv'
<1>1. ASSUME NEW c \in Conns, Callbacks(c) PROVE MeantInv'
  BY <1>1, AcceptMeant, ReadEOFMeant, OpenedMeant, MessageMeant DEF Callbacks
<1>2. ASSUME NEW c \in Conns, Tasks(c) PROVE MeantInv'
  BY <1>2, ReadsMeant, MuxMSMeant, MuxMMeant, TaskEndsMeant, ForwardMeant DEF Tasks
<1>3. ASSUME NEW c \in Conns, MuxConnect(c) \/ MuxEnd(c) \/ Ping(c) PROVE MeantInv'
  BY <1>3, MuxStartMeant
<1>4. ASSUME NEW c \in Conns, NEW k \in DOMAIN tasks[c], TaskFails(c, k) PROVE MeantInv'
  BY <1>4, TaskEndsMeant
<1>5. CASE Program \/ StopBegin \/ Start BY <1>5, SendMeant, StopMeant DEF Program
<1>6. CASE Subscribe \/ \E nr \in Chosen : SubscribeAs(nr)
  BY <1>6, SubscribeCallMeant DEF Subscribe, SubscribeAs
<1>7. CASE \E nr \in DOMAIN subs : Unsubscribe(nr) BY <1>7, UnsubscribeMeant
<1>8. CASE \E t \in Topics : Publish(t) \/ Other(t) BY <1>8, PublishMeant, OtherMeant
<1> QED BY <1>1, <1>2, <1>3, <1>4, <1>5, <1>6, <1>7, <1>8 DEF Steps

-----------------------------------------------------------------------------
(* Connections that have not been opened.                                  *)

\* A step of the device, which takes from channels, accepts and closes
LEMMA GreetingDevice ==
  ASSUME TrackInv, Greeting, mux' = mux,
         \A d \in Conns : mux[d] = "off" => sock'[d] = "none" /\ d \notin stuck',
         \A d \in Conns : sock'[d] = "none" \/ d \in clients' =>
           (sock[d] = "none" \/ d \in clients) /\ toDev'[d] = toDev[d],
         \A d \in Conns : \/ toDev'[d] = toDev[d] \/ toDev'[d] = <<>>
                          \/ toDev[d] # <<>> /\ toDev'[d] = Tail(toDev[d])
  PROVE  Greeting'
<1> SUFFICES ASSUME NEW d \in Conns
    PROVE  /\ mux[d] = "off" => sock'[d] = "none" /\ d \notin stuck'
           /\ mux[d] # "off" /\ (sock'[d] = "none" \/ d \in clients') => HelloComes(d)'
           /\ HelloComes(d)' => Silent(d)'
  BY DEF Greeting
<1>1. toDev[d] \in Seq(Parcels) BY TablesTyped
<1>2. Range(toDev'[d]) \subseteq Range(toDev[d]) BY <1>1, RangeEmpty, RangeTail
<1>3. toDev'[d] = toDev[d] => (HelloComes(d)' <=> HelloComes(d)) BY DEF HelloComes
<1>4. ASSUME HelloComes(d)' PROVE Silent(d)'
  <2>0. <<>> \in Seq(Parcels) /\ (toDev[d] # <<>> => Tail(toDev[d]) \in Seq(Parcels))
    BY <1>1
  <2>1. PICK ch \in Seq(Parcels) : ch = toDev'[d] BY <1>1, <2>0
  <2>2. PICK k \in 1..Len(ch) : ch[k].a = "h" BY <1>4, <2>1 DEF HelloComes
  <2>3. ch[k] \in Range(toDev[d]) BY <1>2, <2>1, RangeIs
  <2>4. PICK j \in 1..Len(toDev[d]) : ch[k] = toDev[d][j] BY <1>1, <2>3, RangeIs
  <2>5. HelloComes(d) BY <2>2, <2>4 DEF HelloComes
  <2> QED BY <1>2, <2>5 DEF Greeting, Silent
<1> QED BY <1>3, <1>4 DEF Greeting

\* A step of the multiplexers that sends the device nothing
LEMMA GreetingMux ==
  ASSUME Greeting, UNCHANGED <<sock, stuck, clients, toDev>>,
         \A d \in Conns : mux'[d] = "off" <=> mux[d] = "off"
  PROVE  Greeting'
BY DEF Greeting, HelloComes, Silent

\* One that sends c a message
LEMMA GreetingSent ==
  ASSUME TrackInv, Greeting, NEW c \in Conns, NEW m \in Parcels, m.a # "h", toDev' = ToDevice(c, m),
         UNCHANGED <<sock, stuck, clients, mux>>, HelloComes(c) => m.a # "m"
  PROVE  Greeting'
<1> SUFFICES ASSUME NEW d \in Conns
    PROVE  /\ mux[d] = "off" => sock[d] = "none" /\ d \notin stuck
           /\ mux[d] # "off" /\ (sock[d] = "none" \/ d \in clients) => HelloComes(d)'
           /\ HelloComes(d)' => Silent(d)'
  BY DEF Greeting
<1>1. toDev[d] \in Seq(Parcels) BY TablesTyped
<1>2. toDev'[d] = toDev[d] \/ (d = c /\ toDev'[d] = Append(toDev[d], m)) BY Sent
<1>3. HelloComes(d)' => HelloComes(d)
  <2>1. CASE d = c BY <2>1, Sent
  <2>2. CASE d # c BY <1>2, <2>2 DEF HelloComes
  <2> QED BY <2>1, <2>2
<1>4. HelloComes(d) => HelloComes(d)'
  <2>1. /\ Len(Append(toDev[d], m)) = Len(toDev[d]) + 1 /\ Len(toDev[d]) \in Nat
        /\ \A j \in 1..Len(toDev[d]) : Append(toDev[d], m)[j] = toDev[d][j]
    BY <1>1
  <2>2. \A j \in 1..Len(toDev[d]) : j \in 1..Len(toDev'[d]) /\ toDev'[d][j] = toDev[d][j]
    BY <1>2, <2>1
  <2> QED BY <2>2 DEF HelloComes
<1>5. ASSUME HelloComes(d) PROVE Silent(d)'
  <2>1. Silent(d) BY <1>5 DEF Greeting
  <2>2. Range(Append(toDev[d], m)) \subseteq Range(toDev[d]) \cup {m} BY <1>1, RangeAppend
  <2>3. CASE toDev'[d] = toDev[d] BY <2>1, <2>3 DEF Silent
  <2>4. CASE d = c /\ toDev'[d] = Append(toDev[d], m) BY <1>5, <2>1, <2>2, <2>4 DEF Silent
  <2> QED BY <1>2, <2>3, <2>4
<1> QED BY <1>3, <1>4, <1>5 DEF Greeting

\* A message other than h can only be the client's.
LEMMA ProcessingClient ==
  ASSUME TrackInv, ~raced, Greeting, NEW c \in Conns,
         sock[c] = "open", toDev[c] # <<>>, Head(toDev[c]).a # "h"
  PROVE  client = c /\ c \notin clients /\ mux[c] # "off"
<1>1. mux[c] # "off" BY DEF Greeting
<1>2. ~HelloComes(c)
  <2>1. toDev[c] \in Seq(Parcels) BY TablesTyped
  <2>2. Head(toDev[c]) = toDev[c][1] BY <2>1, TailFacts
  <2> QED BY <2>2 DEF TrackInv, Hello, HelloComes
<1>3. c \notin clients BY <1>1, <1>2 DEF Greeting
<1> QED BY <1>1, <1>3 DEF TrackInv, Tracking, Linked

\* A connection is closed that is the client or waits.
LEMMA CloseGreets ==
  ASSUME TrackInv, ~raced, Greeting, NEW c \in Conns, sock[c] = "open", Close(c),
         UNCHANGED <<mux, stuck>>
  PROVE  Greeting'
<1>1. /\ \A d \in Conns : sock'[d] = IF d = c THEN "closed" ELSE sock[d]
      /\ \A d \in Conns : toDev'[d] = IF d = c THEN <<>> ELSE toDev[d]
      /\ clients' = IF client = c THEN clients ELSE clients \ {c}
  BY DEF Close, TrackInv, DeviceTyped, NetTyped
<1>2. client \notin clients BY DEF TrackInv, Tracking, Linked
<1>3. c \notin clients' /\ clients' \subseteq clients BY <1>1, <1>2
<1>4. mux[c] # "off" BY DEF Greeting
<1>5. \A d \in Conns : mux[d] = "off" => sock'[d] = "none" /\ d \notin stuck'
  BY <1>1, <1>4 DEF Greeting
<1>6. \A d \in Conns : sock'[d] = "none" \/ d \in clients' =>
        (sock[d] = "none" \/ d \in clients) /\ toDev'[d] = toDev[d]
  BY <1>1, <1>3
<1> QED BY <1>1, <1>5, <1>6, GreetingDevice

LEMMA AcceptGreets ==
  ASSUME TrackInv, Greeting, NEW c \in Conns, Accept(c)
  PROVE  Greeting'
<1>1. /\ sock[c] = "none" /\ mux[c] \in {"init", "ended"}
      /\ sock' = [sock EXCEPT ![c] = "open"] /\ clients' = clients \cup {c}
      /\ UNCHANGED <<mux, stuck, toDev>>
  BY DEF Accept, muxVars
<1>2. \A d \in Conns : sock'[d] = IF d = c THEN "open" ELSE sock[d]
  BY <1>1 DEF TrackInv, DeviceTyped
<1>3. \A d \in Conns : mux[d] = "off" => sock'[d] = "none" /\ d \notin stuck'
  BY <1>1, <1>2 DEF Greeting
<1>4. \A d \in Conns : sock'[d] = "none" \/ d \in clients' =>
        (sock[d] = "none" \/ d \in clients) /\ toDev'[d] = toDev[d]
  BY <1>1, <1>2
<1> QED BY <1>1, <1>3, <1>4, GreetingDevice

LEMMA OpenedGreets ==
  ASSUME TrackInv, ~raced, Greeting, NEW c \in Conns, Opened(c)
  PROVE  Greeting'
<1>1. /\ sock[c] = "open" /\ clients' = clients \ {c}
      /\ sock' = IF client = 0 THEN sock ELSE [sock EXCEPT ![client] = "closed"]
      /\ UNCHANGED <<mux, stuck>>
      /\ toDev' = IF client = 0 THEN Taken(c) ELSE [Taken(c) EXCEPT ![client] = <<>>]
  BY DEF Opened, Replace, Processing, muxVars
<1>2. /\ toDev[c] # <<>> /\ toDev'[c] = Tail(toDev[c]) /\ client # c
      /\ \A d \in Conns : d # c => toDev'[d] = <<>> \/ toDev'[d] = toDev[d]
  BY OpenedTo
<1>3. \A d \in Conns : d # c /\ d # client => toDev'[d] = toDev[d]
  <2>1. /\ Taken(c) \in [Conns -> Seq(Parcels)]
        /\ \A d \in Conns : d # c => Taken(c)[d] = toDev[d]
    BY <1>2, TakenType DEF TrackInv
  <2> QED BY <1>1, <2>1
<1>4. /\ client \in Conns => sock[client] = "open" /\ client \notin clients
      /\ client \in Conns \cup {0}
  BY DEF TrackInv, DeviceTyped, Tracking, Linked
<1>5. /\ \A d \in Conns : d # client => sock'[d] = sock[d]
      /\ client \in Conns => sock'[client] = "closed"
  BY <1>1, <1>4, ConnsAreNumbers DEF TrackInv, DeviceTyped
<1>6. \A d \in Conns : mux[d] = "off" => sock'[d] = "none" /\ d \notin stuck'
  BY <1>1, <1>4, <1>5 DEF Greeting
<1>7. \A d \in Conns : sock'[d] = "none" \/ d \in clients' =>
        (sock[d] = "none" \/ d \in clients) /\ toDev'[d] = toDev[d]
  BY <1>1, <1>2, <1>3, <1>4, <1>5
<1> QED BY <1>1, <1>2, <1>6, <1>7, GreetingDevice

LEMMA HandledGreets ==
  ASSUME TrackInv, ~raced, Greeting, NEW c \in Conns, Message(c) \/ Removed(c) \/ Pong(c)
  PROVE  Greeting'
<1>1. /\ UNCHANGED <<sock, clients, mux>> /\ toDev[c] # <<>> /\ sock[c] = "open"
      /\ Head(toDev[c]).a # "h" /\ (Stick(c) \/ Handles(c))
  BY HandledSame
<1>2. stuck' \subseteq stuck \cup {c} BY <1>1 DEF Stick, Handles
<1>3. c \notin clients /\ mux[c] # "off" BY <1>1, ProcessingClient
<1>4. /\ \A d \in Conns : d # c => toDev'[d] = toDev[d]
      /\ toDev'[c] = <<>> \/ toDev'[c] = Tail(toDev[c])
  BY <1>1, HandledTo
<1>5. \A d \in Conns : mux[d] = "off" => sock'[d] = "none" /\ d \notin stuck'
  BY <1>1, <1>2, <1>3 DEF Greeting
<1>6. \A d \in Conns : sock'[d] = "none" \/ d \in clients' =>
        (sock[d] = "none" \/ d \in clients) /\ toDev'[d] = toDev[d]
  BY <1>1, <1>3, <1>4
<1> QED BY <1>1, <1>4, <1>5, <1>6, GreetingDevice

\* What the main program does
Programs ==
  \/ Program \/ StopBegin \/ Start \/ Subscribe \/ \E nr \in Chosen : SubscribeAs(nr)
  \/ (\E nr \in DOMAIN subs : Unsubscribe(nr)) \/ \E t \in Topics : Publish(t)

LEMMA ProgramSame ==
  ASSUME TrackInv, Programs
  PROVE  /\ UNCHANGED <<mux, tasks, broker, stuck, called, twice>>
         /\ \/ UNCHANGED <<sock, client, clients, toDev>>
            \/ UNCHANGED <<sock, clients, toDev>> /\ client' = 0
            \/ \E c \in Conns : Close(c) /\ (c = client \/ c \in clients)
<1>1. client \in Conns \cup {0} /\ clients \subseteq Conns BY DEF TrackInv, DeviceTyped
<1>2. CASE StopBegin BY <1>1, <1>2 DEF StopBegin, muxVars, history
<1>3. CASE StopClears BY <1>3 DEF StopClears, muxVars, netVars, history
<1>4. CASE StopLoop BY <1>1, <1>4 DEF StopLoop, muxVars, history
<1>5. CASE Start BY <1>5 DEF Start, muxVars, netVars, history
<1>6. CASE SendBegin \/ SendEnd BY <1>6 DEF SendBegin, SendEnd, connVars, muxVars, netVars, history
<1>7. ASSUME NEW n, SubscribeCall(n)
      PROVE  UNCHANGED <<mux, tasks, broker, stuck, called, twice, sock, client, clients, toDev>>
  BY <1>7 DEF SubscribeCall, connVars, muxVars, netVars
<1>8. CASE Subscribe BY <1>7, <1>8 DEF Subscribe
<1>9. ASSUME NEW n, SubscribeAs(n)
      PROVE  UNCHANGED <<mux, tasks, broker, stuck, called, twice, sock, client, clients, toDev>>
  BY <1>7, <1>9 DEF SubscribeAs
<1>10. CASE \E nr \in Chosen : SubscribeAs(nr) BY <1>9, <1>10
<1>11. ASSUME NEW n, Unsubscribe(n)
       PROVE  UNCHANGED <<mux, tasks, broker, stuck, called, twice, sock, client, clients, toDev>>
  BY <1>11 DEF Unsubscribe, connVars, muxVars, netVars, history
<1>12. CASE \E nr \in DOMAIN subs : Unsubscribe(nr) BY <1>11, <1>12
<1>13. ASSUME NEW t, Publish(t)
       PROVE  UNCHANGED <<mux, tasks, broker, stuck, called, twice, sock, client, clients, toDev>>
  BY <1>13 DEF Publish, connVars, muxVars, history
<1>14. CASE \E t \in Topics : Publish(t) BY <1>13, <1>14
<1> QED BY <1>2, <1>3, <1>4, <1>5, <1>6, <1>8, <1>10, <1>12, <1>14 DEF Programs, Program

\* The main program closes, or leaves the connections alone.
LEMMA ProgramGreets ==
  ASSUME TrackInv, ~raced, Greeting, Programs
  PROVE  Greeting'
<1>1. UNCHANGED <<mux, stuck>> BY ProgramSame
<1>2. CASE UNCHANGED <<sock, clients, toDev>> BY <1>1, <1>2, GreetingMux
<1>3. CASE \E c \in Conns : Close(c) /\ (c = client \/ c \in clients)
  <2>1. PICK c \in Conns : Close(c) /\ (c = client \/ c \in clients) BY <1>3
  <2>2. sock[c] = "open" BY <2>1 DEF TrackInv, Tracking, Linked
  <2> QED BY <1>1, <2>1, <2>2, CloseGreets
<1> QED BY <1>2, <1>3, ProgramSame

\* What a step of a multiplexer leaves to the device
LEMMA MuxSame ==
  ASSUME NEW c \in Conns,
         \/ Tasks(c) \/ MuxConnect(c) \/ MuxEnd(c) \/ Ping(c)
         \/ \E k \in DOMAIN tasks[c] : TaskFails(c, k)
  PROVE  UNCHANGED <<sock, stuck, client, clients, called>>
<1>1. \A a : Reading(c, a) => UNCHANGED devVars /\ called' = called BY DEF Reading
<1>2. Tasks(c) => UNCHANGED devVars /\ called' = called
  <2>1. MuxHello(c) => UNCHANGED devVars /\ called' = called BY <1>1 DEF MuxHello
  <2>2. MuxMS(c) => UNCHANGED devVars /\ called' = called BY <1>1 DEF MuxMS
  <2>3. MuxRefused(c) => UNCHANGED devVars /\ called' = called BY <1>1 DEF MuxRefused
  <2>4. MuxMU(c) => UNCHANGED devVars /\ called' = called BY <1>1, Zenon DEF MuxMU
  <2>5. MuxM(c) => UNCHANGED devVars /\ called' = called BY <1>1 DEF MuxM
  <2>6. \A k : TaskEnds(c, k) \/ Forward(c, k) => UNCHANGED devVars /\ called' = called
    BY DEF TaskEnds, Becomes, Forward, history
  <2> QED BY <2>1, <2>2, <2>3, <2>4, <2>5, <2>6 DEF Tasks
<1>3. MuxConnect(c) \/ MuxEnd(c) \/ Ping(c) => UNCHANGED devVars /\ called' = called
  BY DEF MuxConnect, MuxEnd, Ends, Ping, history
<1>4. \A k : TaskFails(c, k) => UNCHANGED devVars /\ called' = called
  BY DEF TaskFails, Becomes, history
<1>5. UNCHANGED devVars /\ called' = called BY <1>2, <1>3, <1>4
<1> QED BY <1>5 DEF devVars, connVars

\* The reader and the end of a task tell the device nothing.
LEMMA ReadsGreet ==
  ASSUME TrackInv, Greeting, NEW c \in Conns, UNCHANGED <<sock, stuck, clients>>,
         \/ MuxHello(c) \/ MuxMS(c) \/ MuxRefused(c) \/ MuxMU(c) \/ MuxM(c)
         \/ \E k \in DOMAIN tasks[c] : TaskEnds(c, k)
  PROVE  Greeting'
<1>1. toDev' = toDev
  BY Zenon DEF MuxHello, MuxMS, MuxRefused, MuxMU, MuxM, Reading, TaskEnds
<1>2. CASE MuxHello(c)
  <2>1. mux[c] # "off" /\ mux' = [mux EXCEPT ![c] = "up"] BY <1>2 DEF MuxHello, Reading
  <2>2. \A d \in Conns : mux'[d] = "off" <=> mux[d] = "off" BY <2>1 DEF TrackInv, MuxTyped
  <2> QED BY <1>1, <2>2, GreetingMux
<1>3. CASE ~MuxHello(c)
  <2>1. mux' = mux BY <1>3, Zenon DEF MuxMS, MuxRefused, MuxMU, MuxM, TaskEnds, Becomes
  <2> QED BY <1>1, <2>1, GreetingMux
<1> QED BY <1>2, <1>3

\* A task that sends is one of a connection that has been opened.
LEMMA TaskSendsGreets ==
  ASSUME TrackInv, AgreeInv, ~raced, Greeting, NEW c \in Conns, NEW k \in DOMAIN tasks[c],
         UNCHANGED <<sock, stuck, clients>>, Forward(c, k) \/ TaskFails(c, k)
  PROVE  Greeting'
<1>1. tasks[c] \in Seq(Task) BY TablesTyped
<1>2. tasks[c][k] \in Task /\ tasks[c] # <<>> BY <1>1
<1>3. ~HelloComes(c) BY <1>2 DEF AgreeInv, Unheard, Unknown, Waiting
<1>4. mux' = mux BY DEF Forward, TaskFails, Becomes
<1>5. PICK m \in Parcels : m.a # "h" /\ toDev' = ToDevice(c, m)
  <2>1. CASE Forward(c, k)
    <3>1. tasks[c][k].q \in Seq(Copies) /\ tasks[c][k].q # <<>> BY <1>2, <2>1 DEF Task, Forward
    <3>2. Head(tasks[c][k].q) \in Copies BY <3>1
    <3>3. Head(tasks[c][k].q) \in Parcels /\ Head(tasks[c][k].q).a # "h"
      BY <3>2 DEF Copies, Parcels, Kinds
    <3> QED BY <2>1, <3>3 DEF Forward
  <2>2. CASE TaskFails(c, k)
    <3>1. MU(tasks[c][k].nr) \in Parcels BY <1>2 DEF MU, Msg, Task, Parcels, Kinds, Named
    <3> QED BY <2>2, <3>1, MessageOf DEF TaskFails
  <2> QED BY <2>1, <2>2
<1> QED BY <1>3, <1>4, <1>5, GreetingSent

LEMMA MuxConnectGreets ==
  ASSUME TrackInv, Greeting, NEW c \in Conns, MuxConnect(c), UNCHANGED <<sock, stuck, clients>>
  PROVE  Greeting'
<1>1. /\ mux[c] = "off" /\ mux' = [mux EXCEPT ![c] = "init"]
      /\ toDev' = ToDevice(c, Plain("h"))
  BY DEF MuxConnect
<1>2. PICK h \in Parcels : h = Plain("h") /\ h.a = "h" BY PlainType, PlainKinds DEF Kinds
<1>3. /\ toDev'[c] = Append(toDev[c], h) /\ toDev[c] = <<>>
      /\ \A d \in Conns : d # c => toDev'[d] = toDev[d] /\ mux'[d] = mux[d]
      /\ mux'[c] = "init"
  BY <1>1, <1>2 DEF Greeting, ToDevice, TrackInv, NetTyped, MuxTyped, Hello
<1>4. toDev'[c] = <<h>> BY <1>3
<1>5. Range(<<h>>) \subseteq {h} BY OneMessage
<1>6. Silent(c)' BY <1>2, <1>4, <1>5 DEF Silent
<1>7. HelloComes(c)'
  <2>1. Len(<<h>>) = 1 /\ <<h>>[1] = h OBVIOUS
  <2> QED BY <1>2, <1>4, <2>1 DEF HelloComes
<1>8. ASSUME NEW d \in Conns
      PROVE  /\ mux'[d] = "off" => sock[d] = "none" /\ d \notin stuck
             /\ mux'[d] # "off" /\ (sock[d] = "none" \/ d \in clients) => HelloComes(d)'
             /\ HelloComes(d)' => Silent(d)'
  <2>1. CASE d = c BY <1>3, <1>6, <1>7, <2>1
  <2>2. CASE d # c
    <3>1. (HelloComes(d)' <=> HelloComes(d)) /\ (Silent(d)' <=> Silent(d))
      BY <1>3, <2>2 DEF HelloComes, Silent
    <3> QED BY <1>3, <2>2, <3>1 DEF Greeting
  <2> QED BY <2>1, <2>2
<1> QED BY <1>8 DEF Greeting

\* The multiplexers
LEMMA MuxGreets ==
  ASSUME TrackInv, AgreeInv, ~raced, Greeting, NEW c \in Conns,
         \/ Tasks(c) \/ MuxConnect(c) \/ MuxEnd(c) \/ Ping(c)
         \/ \E k \in DOMAIN tasks[c] : TaskFails(c, k)
  PROVE  Greeting'
<1>0. UNCHANGED <<sock, stuck, clients>> BY MuxSame
<1>1. CASE Tasks(c) BY <1>0, <1>1, ReadsGreet, TaskSendsGreets DEF Tasks
<1>2. CASE MuxConnect(c) BY <1>0, <1>2, MuxConnectGreets
<1>3. CASE MuxEnd(c)
  <2>1. mux[c] # "off" /\ mux' = [mux EXCEPT ![c] = "ended"] /\ toDev' = toDev
    BY <1>3 DEF MuxEnd, Ends
  <2>2. \A d \in Conns : mux'[d] = "off" <=> mux[d] = "off" BY <2>1 DEF TrackInv, MuxTyped
  <2> QED BY <1>0, <2>1, <2>2, GreetingMux
<1>4. CASE Ping(c)
  <2>1. mux' = mux /\ toDev' = ToDevice(c, Plain("p")) BY <1>4 DEF Ping, muxVars
  <2>2. Plain("p") \in Parcels /\ Plain("p").a \notin {"h", "m"} BY PlainType, PlainKinds DEF Kinds
  <2> QED BY <1>0, <2>1, <2>2, GreetingSent
<1>5. CASE \E k \in DOMAIN tasks[c] : TaskFails(c, k) BY <1>0, <1>5, TaskSendsGreets
<1> QED BY <1>1, <1>2, <1>3, <1>4, <1>5

LEMMA OtherGreets ==
  ASSUME Greeting, NEW t \in Topics, Other(t)
  PROVE  Greeting'
<1>1. UNCHANGED <<devVars, mux, toDev>> BY DEF Other
<1>2. UNCHANGED <<sock, stuck, clients>> BY <1>1 DEF devVars, connVars
<1> QED BY <1>1, <1>2, GreetingMux

\* Every step is one of a callback, of the program, of a multiplexer or of
\* somebody else.
LEMMA StepsAre ==
  ASSUME Steps
  PROVE  \/ \E c \in Conns : Callbacks(c)
         \/ \E c \in Conns : \/ Tasks(c) \/ MuxConnect(c) \/ MuxEnd(c) \/ Ping(c)
                             \/ \E k \in DOMAIN tasks[c] : TaskFails(c, k)
         \/ Programs
         \/ \E t \in Topics : Other(t)
BY DEF Steps, Programs

LEMMA GreetingKept ==
  ASSUME TrackInv, AgreeInv, ~raced, Greeting, Steps
  PROVE  Greeting'
<1>1. ASSUME NEW c \in Conns, Callbacks(c) PROVE Greeting'
  <2>1. CASE ReadEOF(c)
    <3>1. sock[c] = "open" /\ Close(c) /\ UNCHANGED <<mux, stuck>>
      BY <2>1 DEF ReadEOF, muxVars
    <3> QED BY <3>1, CloseGreets
  <2> QED BY <1>1, <2>1, AcceptGreets, OpenedGreets, HandledGreets DEF Callbacks
<1> QED BY <1>1, StepsAre, MuxGreets, ProgramGreets, OtherGreets

-----------------------------------------------------------------------------
(* The client's messages.                                                  *)

\* What OnceInv says of the calls
Past == \A x \in called : x[2] \in Int /\ x[2] <= broker
Fresh == Past /\ \A c \in Conns : client = c => Novel(toDev[c], tasks[c], called, broker, twice)

\* The client's channel is as it was, shorter or empty, and a queue too; new
\* tasks have nothing in their queues.
LEMMA FreshLess ==
  ASSUME TrackInv, Fresh, UNCHANGED <<called, broker>>, twice \subseteq twice',
         client' \in {0, client},
         \A c \in Conns : client = c =>
           /\ \/ toDev'[c] = toDev[c] \/ toDev'[c] = <<>>
              \/ toDev[c] # <<>> /\ toDev'[c] = Tail(toDev[c])
           /\ \A k \in 1..Len(tasks'[c]) :
                tasks'[c][k].q = <<>> \/ (k \in 1..Len(tasks[c]) /\ tasks'[c][k].q = tasks[c][k].q)
  PROVE  Fresh'
<1> SUFFICES ASSUME NEW c \in Conns, client' = c
    PROVE Novel(toDev'[c], tasks'[c], called, broker, twice')
  BY DEF Fresh, Past
<1>1. client = c BY ConnsAreNumbers
<1>2. PICK td : td = toDev'[c] OBVIOUS
<1>3. PICK tk : tk = tasks'[c] OBVIOUS
<1>4. toDev[c] \in Seq(Parcels) BY TablesTyped
<1>5. Novel(toDev[c], tasks[c], called, broker, twice) BY <1>1 DEF Fresh
<1>6. Novel(td, tasks[c], called, broker, twice)
  <2>1. PICK od \in Seq(Parcels) : od = toDev[c] BY <1>4
  <2>2. CASE td = od BY <1>5, <2>1, <2>2
  <2>3. CASE td = <<>> BY <1>5, <2>3, NovelEmpty
  <2>4. CASE od # <<>> /\ td = Tail(od) BY <1>5, <2>1, <2>4, NovelTaken
  <2> QED BY <1>1, <1>2, <2>1, <2>2, <2>3, <2>4
<1>7. Novel(td, tk, called, broker, twice) BY <1>1, <1>3, <1>6, NovelFewer
<1>8. PICK T2 : T2 = twice' OBVIOUS
<1>9. Novel(td, tk, called, broker, T2) BY <1>7, <1>8, NovelMore
<1> QED BY <1>2, <1>3, <1>8, <1>9

LEMMA SameTasks ==
  ASSUME TrackInv, NEW c \in Conns, tasks'[c] = tasks[c]
  PROVE  \A k \in 1..Len(tasks'[c]) :
           tasks'[c][k].q = <<>> \/ (k \in 1..Len(tasks[c]) /\ tasks'[c][k].q = tasks[c][k].q)
OBVIOUS

\* A callback is called, and has not been called with that message.
LEMMA MessageFresh ==
  ASSUME TrackInv, ~raced, Greeting, Fresh, NEW c \in Conns, Message(c)
  PROVE  Fresh'
<1>1. /\ UNCHANGED <<tasks, broker, client, twice>> /\ toDev[c] # <<>> /\ sock[c] = "open"
      /\ Head(toDev[c]).a = "m"
      /\ \/ called' = called /\ Stick(c)
         \/ called' = called \cup {Call(Head(toDev[c]))} /\ Handles(c)
  BY DEF Message, Processing, Stays, muxVars, Call
<1>2. CASE called' = called /\ Stick(c) BY <1>1, <1>2, HandledTo, SameTasks, FreshLess
<1>3. CASE called' = called \cup {Call(Head(toDev[c]))} /\ Handles(c)
  <2>1. client = c BY <1>1, ProcessingClient
  <2>2. toDev[c] \in Seq(Parcels) /\ toDev'[c] = Tail(toDev[c])
    BY <1>3, TablesTyped DEF Handles, Taken, TrackInv, NetTyped
  <2>3. PICK td \in Seq(Parcels) : td = toDev[c] BY <2>2
  <2>4. Novel(td, tasks[c], called, broker, twice) BY <2>1, <2>3 DEF Fresh
  <2>5. /\ Head(td).n <= broker
        /\ Novel(Tail(td), tasks[c], called \cup {Call(Head(td))}, broker, twice)
    BY <1>1, <2>3, <2>4, NovelTaken
  <2>6. Call(Head(td))[2] \in Int /\ Call(Head(td))[2] <= broker
    <3>1. Head(td) \in Parcels BY <1>1, <2>3
    <3> QED BY <2>5, <3>1 DEF Call, Parcels
  <2>7. Past' BY <1>1, <1>3, <2>3, <2>6 DEF Fresh, Past
  <2>8. Novel(toDev'[c], tasks'[c], called', broker', twice') BY <1>1, <1>3, <2>2, <2>3, <2>5
  <2> QED BY <1>1, <2>1, <2>7, <2>8 DEF Fresh
<1> QED BY <1>1, <1>2, <1>3

\* A client that is opened has no messages yet.
LEMMA OpenedFresh ==
  ASSUME TrackInv, AgreeInv, ~raced, Greeting, Fresh, NEW c \in Conns, Opened(c)
  PROVE  Fresh'
<1>1. UNCHANGED <<tasks, broker, called, twice>> /\ client' = c
  BY DEF Opened, Replace, Processing, muxVars
<1>2. toDev'[c] = Tail(toDev[c]) /\ toDev[c] # <<>> /\ HelloComes(c) BY OpenedTo
<1>3. tasks[c] = <<>> BY <1>2 DEF AgreeInv, Unheard, Unknown, Waiting
<1>4. toDev[c] \in Seq(Parcels) /\ Tail(toDev[c]) \in Seq(Parcels)
  <2>1. toDev[c] \in Seq(Parcels) BY TablesTyped
  <2> QED BY <1>2, <2>1
<1>5. PICK td \in Seq(Parcels) : td = Tail(toDev[c]) BY <1>4
<1>6. \A m \in Range(td) : m.a # "m" BY <1>2, <1>4, <1>5, RangeTail DEF Greeting, Silent
<1>7. \A i \in 1..Len(td) : td[i].a # "m" BY <1>5, <1>6, RangeIs
<1>8. Len(<<>>) = 0 OBVIOUS
<1>9. Novel(td, <<>>, called, broker, twice) BY <1>7, <1>8 DEF Novel, Late
<1> QED BY <1>1, <1>2, <1>3, <1>5, <1>9 DEF Fresh, Past

LEMMA CallbacksFresh ==
  ASSUME TrackInv, AgreeInv, ~raced, Greeting, Fresh, NEW c \in Conns, Callbacks(c)
  PROVE  Fresh'
<1>1. CASE Accept(c)
  <2>1. UNCHANGED <<tasks, broker, called, twice, client, toDev>>
    BY <1>1 DEF Accept, muxVars, history
  <2> QED BY <2>1, SameTasks, FreshLess
<1>2. CASE ReadEOF(c)
  <2>1. /\ client' \in {0, client} /\ UNCHANGED <<tasks, broker, called, twice>>
        /\ \A d \in Conns : toDev'[d] = IF d = c THEN <<>> ELSE toDev[d]
    BY <1>2 DEF ReadEOF, Close, TrackInv, NetTyped, muxVars, history
  <2> QED BY <2>1, SameTasks, FreshLess
<1>3. CASE Removed(c) \/ Pong(c)
  <2>1. called' = called BY <1>3 DEF Removed, Pong
  <2>2. UNCHANGED <<tasks, broker, client, twice>> /\ toDev[c] # <<>> /\ (Stick(c) \/ Handles(c))
    BY <1>3, HandledSame
  <2> QED BY <2>1, <2>2, HandledTo, SameTasks, FreshLess
<1> QED BY <1>1, <1>2, <1>3, OpenedFresh, MessageFresh DEF Callbacks

LEMMA ProgramFresh ==
  ASSUME TrackInv, Fresh, Programs
  PROVE  Fresh'
<1>1. UNCHANGED <<tasks, broker, called, twice>> BY ProgramSame
<1>2. /\ client' \in {0, client}
      /\ \A d \in Conns : toDev'[d] = <<>> \/ toDev'[d] = toDev[d]
  <2>1. ASSUME NEW c \in Conns, Close(c)
        PROVE  client' \in {0, client} /\ \A d \in Conns : toDev'[d] = <<>> \/ toDev'[d] = toDev[d]
    BY <2>1 DEF Close, TrackInv, NetTyped
  <2> QED BY <2>1, ProgramSame
<1> QED BY <1>1, <1>2, SameTasks, FreshLess

\* A message other than one for a callback is sent.
LEMMA FreshSent ==
  ASSUME TrackInv, Fresh, NEW c \in Conns, NEW m \in Parcels, m.a # "m", toDev' = ToDevice(c, m),
         UNCHANGED <<called, broker, client, twice>>,
         \A d \in Conns : \A k \in 1..Len(tasks'[d]) :
           tasks'[d][k].q = <<>> \/ (k \in 1..Len(tasks[d]) /\ tasks'[d][k].q = tasks[d][k].q)
  PROVE  Fresh'
<1> SUFFICES ASSUME NEW d \in Conns, client = d
    PROVE Novel(toDev'[d], tasks'[d], called, broker, twice)
  BY DEF Fresh, Past
<1>1. Novel(toDev[d], tasks[d], called, broker, twice) /\ toDev[d] \in Seq(Parcels)
  BY TablesTyped DEF Fresh
<1>2. PICK tk2 : tk2 = tasks'[d] OBVIOUS
<1>3. Novel(toDev[d], tk2, called, broker, twice) BY <1>1, <1>2, NovelFewer
<1>4. toDev'[d] = toDev[d] \/ toDev'[d] = Append(toDev[d], m) BY Sent
<1> QED BY <1>1, <1>2, <1>3, <1>4, NovelOther

\* The broker's next message has not been in any place yet.
LEMMA DeliverFresh ==
  ASSUME TrackInv, OneIsOn, Fresh, NEW t \in Named, Deliver(t),
         UNCHANGED <<client, toDev, called, twice>>
  PROVE  Fresh'
<1>0. broker \in Int /\ broker' = broker + 1 BY DEF TrackInv, MuxTyped, Deliver
<1>1. Past' BY <1>0 DEF Fresh, Past
<1>2. ASSUME NEW c \in Conns, client = c PROVE Novel(toDev[c], tasks'[c], called, broker + 1, twice)
  <2>1. PICK tk \in Seq(Task) : tk = tasks[c] BY TablesTyped
  <2>2. PICK tk2 : tk2 = tasks'[c] OBVIOUS
  <2>3. toDev[c] \in Seq(Parcels) BY TablesTyped
  <2>4. Novel(toDev[c], tk, called, broker, twice) BY <1>2, <2>1 DEF Fresh
  <2>5. Len(tk2) = Len(tk) BY <2>1, <2>2, DeliverTasks DEF Kept, Same
  <2>6. \A k \in 1..Len(tk) :
          tk2[k].q = IF tk[k].on = "on" /\ tk[k].t = t
                     THEN Append(tk[k].q, Msg("m", tk[k].nr, t, FALSE, broker + 1)) ELSE tk[k].q
    BY <2>1, <2>2, DeliverTasks
  <2>7. \A k, l \in 1..Len(tk) :
          tk[k].on = "on" /\ tk[l].on = "on" /\ tk[k].nr = tk[l].nr => k = l \/ tk[k].nr \in twice
    BY <2>1 DEF OneIsOn
  <2>8. \A x \in called : x[2] \in Int /\ x[2] <= broker BY DEF Fresh, Past
  <2>9. Novel(toDev[c], tk2, called, broker + 1, twice)
    BY <1>0, <2>3, <2>4, <2>5, <2>6, <2>7, <2>8, NovelDelivers
  <2> QED BY <2>2, <2>9
<1>3. \A c \in Conns : client' = c => Novel(toDev'[c], tasks'[c], called', broker', twice')
  BY <1>0, <1>2
<1> QED BY <1>1, <1>3 DEF Fresh

\* A task's first message goes to the channel, or is lost with it.
LEMMA ForwardFresh ==
  ASSUME TrackInv, Fresh, NEW c \in Conns, NEW k \in DOMAIN tasks[c], Forward(c, k),
         client' = client
  PROVE  Fresh'
<1>1. PICK q : q = tasks[c][k].q OBVIOUS
<1>2. /\ toDev' = ToDevice(c, Head(q)) /\ UNCHANGED <<broker, called, twice>>
  BY <1>1 DEF Forward, history
<1>3. /\ k \in 1..Len(tasks[c]) /\ q \in Seq(Copies) /\ q # <<>>
      /\ tasks'[c][k].q = Tail(q) /\ Len(tasks'[c]) = Len(tasks[c])
      /\ \A l \in 1..Len(tasks[c]) : l # k => tasks'[c][l].q = tasks[c][l].q
      /\ \A d \in Conns : d # c => tasks'[d] = tasks[d]
  BY <1>1, ForwardTasks DEF Kept, Same, Elsewhere
<1>4. Head(q) \in Parcels
  <2>1. Head(q) \in Copies BY <1>3
  <2> QED BY <2>1 DEF Copies, Parcels, Kinds
<1>5. /\ \A d \in Conns : d # c => toDev'[d] = toDev[d]
      /\ toDev'[c] = toDev[c] \/ toDev'[c] = Append(toDev[c], Head(q))
  BY <1>2, <1>4, Sent
<1>6. ASSUME NEW d \in Conns, client = d PROVE Novel(toDev'[d], tasks'[d], called, broker, twice)
  <2>1. Novel(toDev[d], tasks[d], called, broker, twice) /\ toDev[d] \in Seq(Parcels)
    BY <1>6, TablesTyped DEF Fresh
  <2>2. CASE d # c BY <1>3, <1>5, <2>1, <2>2
  <2>3. CASE d = c
    <3>1. PICK tk2 : tk2 = tasks'[c] OBVIOUS
    <3>2. PICK tk : tk = tasks[c] OBVIOUS
    <3>3. PICK td \in Seq(Parcels) : td = toDev[c] BY <2>1, <2>3
    <3>4. /\ tk[k].q = q /\ Len(tk2) = Len(tk) /\ tk2[k].q = Tail(q) /\ k \in 1..Len(tk)
          /\ \A l \in 1..Len(tk) : l # k => tk2[l].q = tk[l].q
          /\ Novel(td, tk, called, broker, twice)
      BY <1>1, <1>3, <2>1, <2>3, <3>1, <3>2, <3>3
    <3>5. Novel(td, tk2, called, broker, twice) /\ Novel(Append(td, Head(q)), tk2, called, broker, twice)
      <4>1. q \in Seq(Copies) /\ q # <<>> BY <1>3
      <4>2. PICK cd : cd = called OBVIOUS
      <4>3. PICK b : b = broker OBVIOUS
      <4>4. PICK T : T = twice OBVIOUS
      <4>5. Novel(td, tk, cd, b, T) BY <3>4, <4>2, <4>3, <4>4
      <4>6. Novel(td, tk2, cd, b, T) /\ Novel(Append(td, Head(q)), tk2, cd, b, T)
        BY <3>4, <4>1, <4>5, NovelForwards
      <4> QED BY <4>2, <4>3, <4>4, <4>6
    <3> QED BY <1>5, <2>3, <3>1, <3>3, <3>5
  <2> QED BY <2>2, <2>3
<1> QED BY <1>2, <1>6 DEF Fresh, Past

\* A task is started, cancelled or failed, or ends.
LEMMA TasksFresh ==
  ASSUME TrackInv, Fresh, NEW c \in Conns, client' = client, called' = called,
         \/ MuxMS(c) \/ MuxMU(c)
         \/ \E k \in DOMAIN tasks[c] : TaskEnds(c, k) \/ TaskFails(c, k)
  PROVE  Fresh'
<1>0. tasks[c] \in Seq(Task) BY TablesTyped
<1>1. CASE MuxMS(c)
  <2>1. toDev' = toDev /\ broker' = broker /\ twice \subseteq twice'
    BY <1>1 DEF MuxMS, Reading
  <2>2. PICK f : f.q = <<>> /\ tasks'[c] = Append(tasks[c], f) /\ Elsewhere(c)
    BY <1>1, MuxMSTasks
  <2>3. PICK tk2 : tk2 = tasks'[c] OBVIOUS
  <2>4. \A k \in 1..Len(tk2) : tk2[k].q = <<>> \/ (k \in 1..Len(tasks[c]) /\ tk2[k] = tasks[c][k])
    BY <1>0, <2>2, <2>3
  <2>5. \A d \in Conns : \A k \in 1..Len(tasks'[d]) :
          tasks'[d][k].q = <<>> \/ (k \in 1..Len(tasks[d]) /\ tasks'[d][k].q = tasks[d][k].q)
    BY <2>2, <2>3, <2>4, SameTasks DEF Elsewhere
  <2> QED BY <2>1, <2>5, FreshLess
<1>2. CASE MuxMU(c)
  <2>1. UNCHANGED <<toDev, broker, twice>>
    <3>1. Reading(c, {"mu"}) /\ UNCHANGED <<broker, twice>> BY <1>2, Zenon DEF MuxMU
    <3> QED BY <3>1 DEF Reading
  <2>2. \A d \in Conns : \A k \in 1..Len(tasks'[d]) :
          tasks'[d][k].q = <<>> \/ (k \in 1..Len(tasks[d]) /\ tasks'[d][k].q = tasks[d][k].q)
    <3>1. /\ Kept(c) /\ Elsewhere(c) /\ Len(tasks'[c]) = Len(tasks[c])
          /\ \A l \in 1..Len(tasks[c]) : tasks'[c][l].q = tasks[c][l].q
      BY <1>2, MuxMUTasks DEF Kept, Same
    <3> QED BY <3>1, SameTasks DEF Elsewhere
  <2> QED BY <2>1, <2>2, FreshLess
<1>3. ASSUME NEW k \in DOMAIN tasks[c], NEW on \in {"leaving", "ended"}, Becomes(c, k, on)
      PROVE  \A d \in Conns : \A l \in 1..Len(tasks'[d]) :
               tasks'[d][l].q = <<>> \/ (l \in 1..Len(tasks[d]) /\ tasks'[d][l].q = tasks[d][l].q)
  <2>1. /\ Kept(c) /\ Elsewhere(c) /\ Len(tasks'[c]) = Len(tasks[c])
        /\ \A l \in 1..Len(tasks[c]) : tasks'[c][l].q = <<>> \/ tasks'[c][l].q = tasks[c][l].q
    BY <1>3, BecomesTasks DEF Kept, Same
  <2> QED BY <2>1, SameTasks DEF Elsewhere
<1>4. CASE \E k \in DOMAIN tasks[c] : TaskEnds(c, k)
  <2>1. PICK k \in DOMAIN tasks[c] : TaskEnds(c, k) BY <1>4
  <2>2. Becomes(c, k, "ended") /\ UNCHANGED <<toDev, broker, twice>>
    BY <2>1 DEF TaskEnds, Becomes, history
  <2> QED BY <1>3, <2>2, FreshLess
<1>5. CASE \E k \in DOMAIN tasks[c] : TaskFails(c, k)
  <2>1. PICK k \in DOMAIN tasks[c] : TaskFails(c, k) BY <1>5
  <2>2. PICK m : m = MU(tasks[c][k].nr) OBVIOUS
  <2>3. Becomes(c, k, "leaving") /\ toDev' = ToDevice(c, m) /\ UNCHANGED <<broker, twice>>
    BY <2>1, <2>2 DEF TaskFails, Becomes, history
  <2>4. k \in 1..Len(tasks[c]) /\ tasks[c][k] \in Task BY <1>0, <2>1
  <2>5. m \in Parcels /\ m.a # "m"
    <3>1. m \in Parcels BY <2>2, <2>4 DEF MU, Msg, Task, Parcels, Kinds, Named
    <3> QED BY <2>2, <3>1, MessageOf
  <2> QED BY <1>3, <2>3, <2>5, FreshSent
<1> QED BY <1>1, <1>2, <1>4, <1>5

LEMMA MuxFresh ==
  ASSUME TrackInv, OneIsOn, Fresh, NEW c \in Conns,
         \/ Tasks(c) \/ MuxConnect(c) \/ MuxEnd(c) \/ Ping(c)
         \/ \E k \in DOMAIN tasks[c] : TaskFails(c, k)
  PROVE  Fresh'
<1>0. client' = client /\ called' = called BY MuxSame
<1>1. CASE MuxHello(c) \/ MuxRefused(c)
  <2>1. UNCHANGED <<toDev, broker, tasks, twice>> BY <1>1 DEF MuxHello, MuxRefused, Reading
  <2> QED BY <1>0, <2>1, SameTasks, FreshLess
<1>2. CASE MuxM(c)
  <2>1. /\ fromDev[c] # <<>> /\ Deliver(Head(fromDev[c]).t) /\ UNCHANGED <<toDev, twice>>
    BY <1>2 DEF MuxM, Reading
  <2>2. Head(fromDev[c]).t \in Named
    <3>1. Head(fromDev[c]) \in Parcels BY <2>1, TablesTyped, TailFacts
    <3> QED BY <3>1 DEF Parcels
  <2> QED BY <1>0, <2>1, <2>2, DeliverFresh
<1>3. CASE \E k \in DOMAIN tasks[c] : Forward(c, k) BY <1>0, <1>3, ForwardFresh
<1>4. CASE MuxConnect(c) \/ Ping(c)
  <2>1. /\ UNCHANGED <<tasks, broker, twice>>
        /\ \E a \in {"h", "p"} : toDev' = ToDevice(c, Plain(a))
    BY <1>4 DEF MuxConnect, Ping, muxVars, history
  <2>2. \A a \in {"h", "p"} : Plain(a) \in Parcels /\ Plain(a).a # "m"
    BY PlainType, PlainKinds DEF Kinds
  <2> QED BY <1>0, <2>1, <2>2, SameTasks, FreshSent
<1>5. CASE MuxEnd(c)
  <2>1. /\ UNCHANGED <<broker, toDev, twice>>
        /\ \A d \in Conns : tasks'[d] = IF d = c THEN <<>> ELSE tasks[d]
    BY <1>5 DEF MuxEnd, Ends, TrackInv, MuxTyped, history
  <2>2. Len(<<>>) = 0 OBVIOUS
  <2> QED BY <1>0, <2>1, <2>2, FreshLess
<1>6. CASE \/ MuxMS(c) \/ MuxMU(c)
           \/ \E k \in DOMAIN tasks[c] : TaskEnds(c, k) \/ TaskFails(c, k)
  BY <1>0, <1>6, TasksFresh
<1> QED BY <1>1, <1>2, <1>3, <1>4, <1>5, <1>6 DEF Tasks

LEMMA OtherFresh ==
  ASSUME TrackInv, OneIsOn, Fresh, NEW t \in Topics, Other(t)
  PROVE  Fresh'
<1>1. UNCHANGED <<devVars, toDev, called, twice>> /\ Deliver(t) /\ t \in Named
  BY DEF Other, Named, history
<1>2. client' = client BY <1>1 DEF devVars, connVars
<1> QED BY <1>1, <1>2, DeliverFresh

-----------------------------------------------------------------------------
(* One task of each number is on.                                          *)

\* A step that starts no task
LEMMA OneKept ==
  ASSUME TrackInv, OneIsOn, twice' = twice, \A c \in Conns : Kept(c) \/ tasks'[c] = <<>>
  PROVE  OneIsOn'
<1> SUFFICES ASSUME NEW c \in Conns, NEW k \in 1..Len(tasks'[c]), NEW l \in 1..Len(tasks'[c]),
                    k # l, tasks'[c][k].on = "on", tasks'[c][l].on = "on",
                    tasks'[c][k].nr = tasks'[c][l].nr
             PROVE  tasks'[c][k].nr \in twice
  BY DEF OneIsOn
<1>1. Kept(c)
  <2>1. Len(<<>>) = 0 OBVIOUS
  <2> QED BY <2>1
<1>2. /\ k \in 1..Len(tasks[c]) /\ l \in 1..Len(tasks[c])
      /\ tasks[c][k].on = "on" /\ tasks[c][l].on = "on"
      /\ tasks'[c][k].nr = tasks[c][k].nr /\ tasks'[c][l].nr = tasks[c][l].nr
  BY <1>1 DEF Kept, Same
<1> QED BY <1>2 DEF OneIsOn

LEMMA MuxMSOne ==
  ASSUME TrackInv, OneIsOn, NEW c \in Conns, MuxMS(c)
  PROVE  OneIsOn'
<1>1. PICK f : f.nr = Head(fromDev[c]).nr /\ tasks'[c] = Append(tasks[c], f) /\ Elsewhere(c)
  BY MuxMSTasks
<1>2. tasks[c] \in Seq(Task) BY TablesTyped
<1>3. /\ twice \subseteq twice'
      /\ (\E tk \in Range(tasks[c]) : tk.on = "on" /\ tk.nr = f.nr) => f.nr \in twice'
  BY <1>1 DEF MuxMS
<1>4. PICK tk2 : tk2 = tasks'[c] OBVIOUS
<1>5. /\ Len(tk2) = Len(tasks[c]) + 1 /\ Len(tasks[c]) \in Nat /\ tk2[Len(tasks[c]) + 1] = f
      /\ \A k \in 1..Len(tasks[c]) : tk2[k] = tasks[c][k]
  BY <1>1, <1>2, <1>4
<1>6. \A k \in 1..Len(tasks[c]) : tasks[c][k].on = "on" /\ tasks[c][k].nr = f.nr => f.nr \in twice'
  BY <1>2, <1>3, RangeIs
<1>7. ASSUME NEW k \in 1..Len(tk2), NEW l \in 1..Len(tk2), k # l, tk2[k].on = "on", tk2[l].on = "on",
             tk2[k].nr = tk2[l].nr
      PROVE  tk2[k].nr \in twice'
  <2>1. CASE k = Len(tasks[c]) + 1
    <3>1. l \in 1..Len(tasks[c]) BY <1>5, <1>7, <2>1
    <3> QED BY <1>5, <1>6, <1>7, <2>1, <3>1
  <2>2. CASE l = Len(tasks[c]) + 1
    <3>1. k \in 1..Len(tasks[c]) BY <1>5, <1>7, <2>2
    <3> QED BY <1>5, <1>6, <1>7, <2>2, <3>1
  <2>3. CASE k # Len(tasks[c]) + 1 /\ l # Len(tasks[c]) + 1
    <3>1. /\ \A j \in 1..Len(tk2) : j # Len(tasks[c]) + 1 => j \in 1..Len(tasks[c])
          /\ k \in 1..Len(tasks[c]) /\ l \in 1..Len(tasks[c])
      <4>1. PICK n \in Nat : n = Len(tasks[c]) BY <1>5
      <4>2. \A j \in 1..n + 1 : j # n + 1 => j \in 1..n OBVIOUS
      <4> QED BY <1>5, <2>3, <4>1, <4>2
    <3> QED BY <1>3, <1>5, <1>7, <3>1 DEF OneIsOn
  <2> QED BY <2>1, <2>2, <2>3
<1>8. \A d \in Conns : d # c => tasks'[d] = tasks[d] BY <1>1 DEF Elsewhere
<1> QED BY <1>3, <1>4, <1>7, <1>8 DEF OneIsOn

LEMMA OneIsOnKept ==
  ASSUME TrackInv, OneIsOn, Steps
  PROVE  OneIsOn'
<1>1. CASE twice' = twice /\ tasks' = tasks BY <1>1 DEF OneIsOn
<1>2. ASSUME NEW c \in Conns, Callbacks(c) PROVE OneIsOn'
  <2>1. ReadEOF(c) \/ Accept(c) \/ Opened(c) => twice' = twice /\ tasks' = tasks
    BY DEF ReadEOF, Accept, Opened, Replace, Processing, muxVars, history
  <2> QED BY <1>1, <1>2, <2>1, HandledSame DEF Callbacks
<1>3. ASSUME Programs PROVE OneIsOn' BY <1>1, <1>3, ProgramSame
<1>4. ASSUME NEW c \in Conns, Elsewhere(c), Kept(c) \/ tasks'[c] = <<>>, twice' = twice
      PROVE  OneIsOn'
  <2>1. \A d \in Conns : Kept(d) \/ tasks'[d] = <<>> BY <1>4, KeptSame DEF Elsewhere
  <2> QED BY <1>4, <2>1, OneKept
<1>5. ASSUME NEW c \in Conns, Tasks(c) PROVE OneIsOn'
  <2>1. CASE MuxHello(c) \/ MuxRefused(c) BY <1>1, <2>1 DEF MuxHello, MuxRefused
  <2>2. CASE MuxMU(c)
    <3>1. twice' = twice BY <2>2, Zenon DEF MuxMU
    <3> QED BY <1>4, <2>2, <3>1, MuxMUTasks
  <2>3. CASE MuxM(c)
    <3>1. Reading(c, {"m"}) /\ Deliver(Head(fromDev[c]).t) /\ twice' = twice BY <2>3 DEF MuxM
    <3>2. Head(fromDev[c]) \in Parcels BY <3>1, TablesTyped, TailFacts DEF Reading
    <3>3. Head(fromDev[c]).t \in Named BY <3>2 DEF Parcels
    <3> QED BY <3>1, <3>3, DeliverTasks, OneKept
  <2>4. ASSUME NEW k \in DOMAIN tasks[c], TaskEnds(c, k) PROVE OneIsOn'
    <3>1. Becomes(c, k, "ended") /\ twice' = twice BY <2>4 DEF TaskEnds, Becomes, history
    <3> QED BY <1>4, <3>1, BecomesTasks
  <2>5. ASSUME NEW k \in DOMAIN tasks[c], Forward(c, k) PROVE OneIsOn'
    <3>1. twice' = twice BY <2>5 DEF Forward, history
    <3> QED BY <1>4, <2>5, <3>1, ForwardTasks
  <2> QED BY <1>5, <2>1, <2>2, <2>3, <2>4, <2>5, MuxMSOne DEF Tasks
<1>6. ASSUME NEW c \in Conns, MuxConnect(c) \/ MuxEnd(c) \/ Ping(c) PROVE OneIsOn'
  <2>1. MuxConnect(c) \/ Ping(c) => twice' = twice /\ tasks' = tasks
    BY DEF MuxConnect, Ping, muxVars, history
  <2>2. CASE MuxEnd(c)
    <3>1. tasks'[c] = <<>> /\ Elsewhere(c) /\ twice' = twice
      BY <2>2 DEF MuxEnd, Ends, TrackInv, MuxTyped, Elsewhere, history
    <3> QED BY <1>4, <3>1
  <2> QED BY <1>1, <1>6, <2>1, <2>2
<1>7. ASSUME NEW c \in Conns, NEW k \in DOMAIN tasks[c], TaskFails(c, k) PROVE OneIsOn'
  <2>1. Becomes(c, k, "leaving") /\ twice' = twice BY <1>7 DEF TaskFails, Becomes, history
  <2> QED BY <1>4, <2>1, BecomesTasks
<1>8. ASSUME NEW t \in Topics, Other(t) PROVE OneIsOn'
  <2>1. Deliver(t) /\ t \in Named /\ twice' = twice BY <1>8 DEF Other, Named, history
  <2> QED BY <2>1, DeliverTasks, OneKept
<1> QED BY <1>2, <1>3, <1>5, <1>6, <1>7, <1>8, StepsAre

-----------------------------------------------------------------------------

LEMMA OnceInit == Init => OnceInv
<1> SUFFICES ASSUME Init PROVE OnceInv OBVIOUS
<1>1. /\ asked = <<>> /\ subs = <<>> /\ prog = Idle /\ client = 0 /\ called = {} /\ clients = {}
      /\ stuck = {}
      /\ \A c \in Conns : /\ toDev[c] = <<>> /\ fromDev[c] = <<>> /\ tasks[c] = <<>>
                          /\ sock[c] = "none" /\ mux[c] = "off"
  BY DEF Init
<1>2. MeantInv
  <2>1. DOMAIN asked = {} /\ DOMAIN subs = {} BY <1>1
  <2>2. prog.m.a # "ms" BY <1>1, PlainKinds DEF Idle, Doing
  <2> QED BY <1>1, <2>1, <2>2, RangeEmpty DEF MeantInv
<1>3. Greeting
  <2>1. \A c \in Conns : Silent(c) BY <1>1, RangeEmpty DEF Silent
  <2> QED BY <1>1, <2>1 DEF Greeting
<1>4. OneIsOn
  <2>1. Len(<<>>) = 0 OBVIOUS
  <2> QED BY <1>1, <2>1 DEF OneIsOn
<1> QED BY <1>1, <1>2, <1>3, <1>4, ConnsAreNumbers DEF OnceInv

LEMMA OnceStep == TrackInv /\ AgreeInv /\ OnceInv /\ [Next]_vars => OnceInv'
<1> SUFFICES ASSUME TrackInv, AgreeInv, OnceInv, [Next]_vars PROVE OnceInv' OBVIOUS
<1>1. CASE Next
  <2>1. ~raced /\ Steps BY <1>1 DEF Next
  <2>2. MeantInv /\ Greeting /\ OneIsOn /\ Fresh BY <2>1 DEF OnceInv, Fresh, Past
  <2>3. MeantInv' /\ Greeting' /\ OneIsOn' BY <2>1, <2>2, MeantKept, GreetingKept, OneIsOnKept
  <2>4. Fresh'
    BY <2>1, <2>2, StepsAre, CallbacksFresh, MuxFresh, OtherFresh, ProgramFresh
  <2> QED BY <2>3, <2>4 DEF OnceInv, Fresh, Past
<1>2. CASE UNCHANGED vars
  <2>1. UNCHANGED <<connVars, subVars, prog, muxVars, netVars, history>>
    BY <1>2 DEF vars
  <2>2. UNCHANGED <<sock, stuck, client, clients, subs, asked, prog, mux, tasks, broker,
                    toDev, fromDev, called, twice, raced>>
    BY <2>1 DEF connVars, subVars, muxVars, netVars, history
  <2>3. (MeantInv => MeantInv') /\ (Greeting => Greeting') /\ (OneIsOn => OneIsOn')
    BY <2>2 DEF MeantInv, Greeting, HelloComes, Silent, OneIsOn
  <2> QED BY <2>2, <2>3 DEF OnceInv
<1> QED BY <1>1, <1>2

\* Where the broker's messages are on their way to the callbacks: each is of a
\* topic that its number was subscribed to, and is in one place, or has been
\* handed to the callback once, unless a multiplexer was told of its number
\* while a task of that number was running.  This carries Delivered.
THEOREM OnceInvariance == Spec => [](TrackInv /\ AgreeInv /\ OnceInv)
BY TrackInit, AgreeInit, OnceInit, TrackStep, AgreeStep, OnceStep, PTL DEF Spec

\* A callback gets messages of topics that the program subscribed to under its
\* number, whichever numbers it used again; and none of the broker's messages
\* twice, whatever multiplexers came, went and took over, and whatever was
\* under way from them when they did, but for numbers that a multiplexer was
\* told of twice.
THEOREM DeliversOnce == Spec => Delivered
<1>1. ASSUME TrackInv, AgreeInv, OnceInv, [Next]_vars
      PROVE  [\A c \in Conns : Message(c) /\ Head(toDev[c]).nr \in DOMAIN subs =>
                LET m == Head(toDev[c]) IN
                /\ \E w \in asked[m.nr] : m.t = w.t
                /\ m.nr \in twice \/ <<m.nr, m.n>> \notin called]_vars
  <2> SUFFICES ASSUME Next, NEW c \in Conns, Message(c)
      PROVE  LET m == Head(toDev[c]) IN
             /\ \E w \in asked[m.nr] : m.t = w.t
             /\ m.nr \in twice \/ <<m.nr, m.n>> \notin called
    BY <1>1
  <2>1. ~raced BY DEF Next
  <2>2. sock[c] = "open" /\ toDev[c] # <<>> /\ Head(toDev[c]).a = "m"
    BY DEF Message, Processing
  <2>3. client = c BY <1>1, <2>1, <2>2, ProcessingClient DEF OnceInv
  <2>4. PICK td \in Seq(Parcels) : td = toDev[c] BY <1>1, TablesTyped
  <2>5. Novel(td, tasks[c], called, broker, twice) BY <1>1, <2>1, <2>3, <2>4 DEF OnceInv
  <2>6. Uncalled(Head(td), called, twice) BY <2>2, <2>4, <2>5, NovelTaken
  <2>7. Head(td) \in Range(td) BY <2>2, <2>4, RangeTail
  <2>8. Meant(Head(td), asked) BY <1>1, <2>1, <2>2, <2>4, <2>7 DEF OnceInv, MeantInv
  <2> QED BY <2>4, <2>6, <2>8 DEF Call, Uncalled, Meant
<1> QED BY <1>1, OnceInvariance, PTL DEF Spec, Delivered

-----------------------------------------------------------------------------
(* What leaves the types alone.                                            *)

LEMMA NumbersAre == Numbers \subseteq Int /\ Messages \subseteq Parcels
<1>1. \A p \in Plans : \A k \in DOMAIN p.wishes : k \in Int
  <2> SUFFICES ASSUME NEW p \in Plans PROVE \A k \in DOMAIN p.wishes : k \in Int
    OBVIOUS
  <2>1. p.wishes \in Seq(Wish) BY PubSubAssumption DEF PlanOK, Wish
  <2>2. DOMAIN p.wishes = 1..Len(p.wishes) BY <2>1
  <2> QED BY <2>2
<1>2. \A k \in UNION {DOMAIN p.wishes : p \in Plans} : k \in Int BY <1>1
<1>3. Chosen \subseteq Int BY PubSubAssumption
<1> DEFINE K == UNION {DOMAIN p.wishes : p \in Plans}
<1>4. ASSUME NEW nr \in Numbers PROVE nr \in Int
  <2>1. nr \in {NumberOf(k) : k \in K} \/ nr \in Chosen BY DEF Numbers
  <2>2. CASE nr \in {NumberOf(k) : k \in K}
    <3> HIDE DEF K
    <3>1. PICK k \in K : nr = NumberOf(k) BY <2>2
    <3>2. k \in Int BY <1>2 DEF K
    <3> QED BY <3>1, <3>2 DEF NumberOf
  <2> QED BY <1>3, <2>1, <2>2
<1>5. Messages \subseteq Parcels
  <2>1. Numbers \cup {0} \subseteq Int /\ Nat \subseteq Int BY <1>4
  <2> QED BY <2>1 DEF Messages, Parcels, Kinds, Named
<1> QED BY <1>4, <1>5

LEMMA MessageTyped ==
  ASSUME NEW a \in Kinds, NEW nr \in Numbers \cup {0}, NEW t \in Named, NEW r \in BOOLEAN,
         NEW n \in Nat
  PROVE  Msg(a, nr, t, r, n) \in Messages
BY DEF Msg, Messages, Kinds, Named

LEMMA PlainTyped ==
  ASSUME NEW a \in Kinds
  PROVE  Plain(a) \in Messages
BY MessageTyped DEF Plain, Named

LEMMA IdleTyped == Idle.m \in Messages
BY PlainTyped DEF Idle, Doing, Kinds

\* The parts of Mail after a step
TypedFrom  == \A c \in Conns : Range(fromDev'[c]) \subseteq Messages
TypedTo    == \A c \in Conns : Range(toDev'[c]) \subseteq Messages
TypedTask(c) == \A k \in 1..Len(tasks'[c]) : /\ tasks'[c][k].nr \in Numbers \cup {0}
                                             /\ Range(tasks'[c][k].q) \subseteq Messages
TypedTasks == \A c \in Conns : TypedTask(c)

LEMMA MailStep ==
  TypedFrom /\ TypedTo /\ TypedTasks /\ prog'.m \in Messages /\ broker' \in Nat => Mail'
BY DEF TypedFrom, TypedTo, TypedTasks, TypedTask, Mail

LEMMA MailSame ==
  ASSUME Mail
  PROVE  /\ fromDev' = fromDev => TypedFrom
         /\ toDev' = toDev => TypedTo
         /\ tasks' = tasks => TypedTasks
         /\ prog' = prog => prog'.m \in Messages
         /\ broker' = broker => broker' \in Nat
BY DEF Mail, TypedFrom, TypedTo, TypedTasks, TypedTask

LEMMA TypedFromSent ==
  ASSUME TrackInv, Mail, NEW c \in Conns, NEW ms \in Seq(Parcels), fromDev' = ToMux(c, ms),
         Range(ms) \subseteq Messages
  PROVE  TypedFrom
<1> SUFFICES ASSUME NEW d \in Conns PROVE Range(fromDev'[d]) \subseteq Messages
  BY DEF TypedFrom
<1>1. fromDev[c] \in Seq(Parcels) BY TablesTyped
<1>2. fromDev'[d] = fromDev[d] \/ (d = c /\ fromDev'[d] = fromDev[c] \o ms) BY ToMuxAt
<1>3. Range(fromDev[c] \o ms) \subseteq Range(fromDev[c]) \cup Range(ms) BY <1>1, RangeConcat
<1> QED BY <1>2, <1>3 DEF Mail

LEMMA TypedFromRead ==
  ASSUME TrackInv, Mail, NEW c \in Conns, fromDev[c] # <<>>, fromDev'[c] = Tail(fromDev[c]),
         \A d \in Conns : d # c => fromDev'[d] = fromDev[d]
  PROVE  TypedFrom /\ Head(fromDev[c]) \in Messages
<1>1. fromDev[c] \in Seq(Parcels) BY TablesTyped
<1>2. Range(Tail(fromDev[c])) \subseteq Range(fromDev[c]) /\ Head(fromDev[c]) \in Range(fromDev[c])
  BY <1>1, RangeTail
<1> QED BY <1>2 DEF Mail, TypedFrom

LEMMA TypedToLess ==
  ASSUME TrackInv, Mail,
         \A d \in Conns : \/ toDev'[d] = toDev[d] \/ toDev'[d] = <<>>
                          \/ toDev[d] # <<>> /\ toDev'[d] = Tail(toDev[d])
  PROVE  TypedTo
<1> SUFFICES ASSUME NEW d \in Conns PROVE Range(toDev'[d]) \subseteq Messages
  BY DEF TypedTo
<1>1. toDev[d] \in Seq(Parcels) BY TablesTyped
<1>2. toDev[d] # <<>> => Range(Tail(toDev[d])) \subseteq Range(toDev[d]) BY <1>1, RangeTail
<1> QED BY <1>2, RangeEmpty DEF Mail

LEMMA TypedToSent ==
  ASSUME TrackInv, Mail, NEW c \in Conns, NEW m \in Messages, toDev' = ToDevice(c, m)
  PROVE  TypedTo
<1> SUFFICES ASSUME NEW d \in Conns PROVE Range(toDev'[d]) \subseteq Messages
  BY DEF TypedTo
<1>1. toDev[d] \in Seq(Parcels) /\ m \in Parcels BY TablesTyped, NumbersAre
<1>2. toDev'[d] = toDev[d] \/ (d = c /\ toDev'[d] = Append(toDev[d], m)) BY <1>1, Sent
<1>3. Range(Append(toDev[d], m)) \subseteq Range(toDev[d]) \cup {m} BY <1>1, RangeAppend
<1> QED BY <1>2, <1>3 DEF Mail

\* A multiplexer's tasks keep their numbers.
LEMMA KeptTyped ==
  ASSUME Mail, NEW c \in Conns, Kept(c),
         \A l \in 1..Len(tasks[c]) : Range(tasks'[c][l].q) \subseteq Messages
  PROVE  TypedTask(c)
BY DEF Mail, Kept, Same, TypedTask

LEMMA OtherTasks ==
  ASSUME Mail, NEW c \in Conns, TypedTask(c), Elsewhere(c)
  PROVE  TypedTasks
BY DEF Mail, TypedTask, TypedTasks, Elsewhere

LEMMA TabledSame ==
  ASSUME Tabled, msubs' = msubs, \A c \in Conns : Len(tasks'[c]) = Len(tasks[c])
  PROVE  Tabled'
BY DEF Tabled

LEMMA NumberingSame == Numbering /\ UNCHANGED subVars => Numbering'
BY DEF Numbering, subVars

\* The program or the multiplexer ends a subscription.
LEMMA NumberingLess ==
  ASSUME Numbering, UNCHANGED <<sub_nr, wishes, asked>>, NEW nr, subs' = Without(subs, nr)
  PROVE  Numbering'
<1>1. \A x \in DOMAIN subs' : x \in DOMAIN subs /\ subs'[x] = subs[x] BY DEF Without
<1> QED BY <1>1 DEF Numbering

-----------------------------------------------------------------------------
(* The device's callbacks.                                                 *)

LEMMA ResubscriptionsTyped ==
  ASSUME TrackInv, Numbering
  PROVE  /\ Resubscriptions \in Seq(Parcels)
         /\ \A m \in Range(Resubscriptions) : m \in Messages
<1>1. PICK rs \in Seq(Parcels) : rs = Resubscriptions
  BY ResubscriptionsType DEF TrackInv
<1>2. ASSUME NEW m \in Range(rs) PROVE m \in Messages
  <2>1. PICK k \in 1..Len(rs) : m = rs[k] BY RangeIs
  <2>2. PICK nr \in DOMAIN subs : m = Again(nr)
    BY <1>1, <2>1, Resubscribes DEF TrackInv
  <2>3. nr \in Numbers BY DEF Numbering
  <2>4. subs[nr] \in Named BY DEF TrackInv, DeviceTyped, SubsTyped, Named
  <2> QED BY <2>2, <2>3, <2>4, MessageTyped DEF Again, MS, Kinds
<1> QED BY <1>1, <1>2

LEMMA CallbackTo ==
  ASSUME TrackInv, NEW c \in Conns, Callbacks(c), NEW d \in Conns
  PROVE  \/ toDev'[d] = toDev[d] \/ toDev'[d] = <<>>
         \/ toDev[d] # <<>> /\ toDev'[d] = Tail(toDev[d])
<1>1. CASE Accept(c) BY <1>1 DEF Accept
<1>2. CASE ReadEOF(c) BY <1>2 DEF ReadEOF, Close, TrackInv, NetTyped
<1>3. CASE Opened(c) BY <1>3, OpenedTo
<1>4. CASE Message(c) \/ Removed(c) \/ Pong(c) BY <1>4, HandledSame, HandledTo
<1> QED BY <1>1, <1>2, <1>3, <1>4 DEF Callbacks

LEMMA CallbackSame ==
  ASSUME NEW c \in Conns, Callbacks(c)
  PROVE  /\ UNCHANGED <<listening, sub_nr, wishes, asked, prog, muxVars>>
         /\ stuck' \in {stuck, stuck \cup {c}}
         /\ subs' = subs \/ \E nr : subs' = Without(subs, nr)
         /\ \/ fromDev' = fromDev \/ fromDev' = ToMux(c, <<Plain("h")>>)
            \/ fromDev' = ToMux(c, Resubscriptions)
<1>1. CASE Accept(c) BY <1>1 DEF Accept, subVars
<1>2. CASE ReadEOF(c) BY <1>2 DEF ReadEOF, subVars
<1>3. CASE Opened(c) BY <1>3 DEF Opened, Replace, Processing
<1>4. CASE Message(c) \/ Removed(c) \/ Pong(c)
  <2>1. UNCHANGED <<listening, sub_nr, wishes, asked, prog, muxVars>>
    BY <1>4 DEF Message, Removed, Pong, Processing
  <2>2. Stick(c) \/ Handles(c) BY <1>4, HandledSame
  <2> QED BY <1>4, <2>1, <2>2, HandledSame DEF Stick, Handles
<1> QED BY <1>1, <1>2, <1>3, <1>4 DEF Callbacks

LEMMA CallbacksTyped ==
  ASSUME TrackInv, TypeInv, NEW c \in Conns, Callbacks(c)
  PROVE  TypeInv'
<1>1. /\ UNCHANGED <<listening, sub_nr, wishes, asked, prog, muxVars>>
      /\ stuck' \in {stuck, stuck \cup {c}}
  BY CallbackSame
<1>2. UNCHANGED <<tasks, msubs, broker>> BY <1>1 DEF muxVars
<1>3. Mail /\ Numbering /\ Tabled BY DEF TypeInv
<1>4. TypedTo BY <1>3, CallbackTo, TypedToLess
<1>5. TypedFrom
  <2>1. CASE fromDev' = fromDev BY <1>3, <2>1, MailSame
  <2>2. CASE fromDev' = ToMux(c, <<Plain("h")>>)
    <3>1. Plain("h") \in Messages /\ Plain("h") \in Parcels
      BY PlainTyped, NumbersAre DEF Kinds
    <3>2. PICK ms \in Seq(Parcels) : ms = <<Plain("h")>> /\ Range(ms) \subseteq {Plain("h")}
      BY <3>1, OneMessage
    <3> QED BY <1>3, <2>2, <3>1, <3>2, TypedFromSent
  <2>3. CASE fromDev' = ToMux(c, Resubscriptions)
    <3>1. PICK ms \in Seq(Parcels) : ms = Resubscriptions /\ \A m \in Range(ms) : m \in Messages
      BY <1>3, ResubscriptionsTyped
    <3> QED BY <1>3, <2>3, <3>1, TypedFromSent
  <2> QED BY <2>1, <2>2, <2>3, CallbackSame
<1>6. Mail' BY <1>1, <1>2, <1>3, <1>4, <1>5, MailSame, MailStep
<1>7. Numbering'
  <2>1. CASE subs' = subs BY <1>1, <1>3, <2>1, NumberingSame DEF subVars
  <2>2. CASE \E nr : subs' = Without(subs, nr) BY <1>1, <1>3, <2>2, NumberingLess
  <2> QED BY <2>1, <2>2, CallbackSame
<1>8. Tabled' BY <1>2, <1>3, TabledSame
<1>9. listening' \in BOOLEAN /\ stuck' \subseteq Conns BY <1>1 DEF TypeInv
<1> QED BY <1>6, <1>7, <1>8, <1>9 DEF TypeInv

-----------------------------------------------------------------------------
(* The device's main program.                                              *)

\* The next call of subscribe, and the number that it may be given
LEMMA NextCall ==
  ASSUME TrackInv, Numbering, wishes # <<>>, wishes' = Tail(wishes),
         sub_nr' \in {sub_nr, sub_nr + 2}
  PROVE  /\ \E p \in Plans : \E j \in 0..Len(p.wishes) - Len(wishes') : sub_nr' = NumberOf(j + 1)
         /\ sub_nr \in Numbers /\ Head(wishes) \in Wish
<1>1. PICK p \in Plans : \E j \in 0..Len(p.wishes) - Len(wishes) : sub_nr = NumberOf(j + 1)
  BY DEF Numbering
<1>2. PICK j \in 0..Len(p.wishes) - Len(wishes) : sub_nr = NumberOf(j + 1) BY <1>1
<1>3. PICK n \in Nat : n = Len(p.wishes) /\ DOMAIN p.wishes = 1..n
  BY PubSubAssumption DEF PlanOK
<1>4. /\ Len(wishes) \in Nat \ {0} /\ Len(wishes') = Len(wishes) - 1 /\ Head(wishes) \in Wish
  BY DEF TrackInv, DeviceTyped, SubsTyped
<1>5. sub_nr' = NumberOf(j + 1) \/ sub_nr' = NumberOf(j + 1 + 1) BY <1>2 DEF NumberOf
<1>6. {j, j + 1} \subseteq 0..n - Len(wishes') /\ j + 1 \in 1..n BY <1>2, <1>3, <1>4
<1>7. \E i \in 0..n - Len(wishes') : sub_nr' = NumberOf(i + 1) BY <1>5, <1>6
<1>8. sub_nr \in Numbers
  <2>1. j + 1 \in UNION {DOMAIN q.wishes : q \in Plans} BY <1>3, <1>6
  <2> QED BY <1>2, <2>1 DEF Numbers
<1> QED BY <1>3, <1>4, <1>7, <1>8

\* What the program says next is a message.
LEMMA ThenTyped ==
  ASSUME NEW m \in Messages, Then(m)
  PROVE  prog'.m \in Messages
BY IdleTyped DEF Then, Doing

\* A call of subscribe with a number
LEMMA SubscribeTyped ==
  ASSUME TrackInv, Numbering, NEW nr \in Numbers, SubscribeCall(nr), sub_nr' \in {sub_nr, sub_nr + 2}
  PROVE  Numbering' /\ prog'.m \in Messages
<1>1. PICK w : w = Head(wishes) OBVIOUS
<1>2. wishes # <<>> /\ wishes' = Tail(wishes) /\ Enter(nr, w)
  BY <1>1 DEF SubscribeCall
<1>3. w \in Wish BY <1>1, <1>2, NextCall
<1>4. /\ subs' = With(subs, nr, w.t) /\ asked' = With(asked, nr, AskedFor(nr) \cup {w})
      /\ Then(MS(nr, w.t, w.r))
  BY <1>2 DEF Enter
<1>5. PICK a : a = AskedFor(nr) \cup {w} OBVIOUS
<1>6. w \in a /\ a \subseteq Wish /\ (nr \in DOMAIN asked => asked[nr] \subseteq a)
  BY <1>3, <1>5 DEF AskedFor, Numbering, Wish
<1>7. asked' = With(asked, nr, a) BY <1>4, <1>5
<1>8. /\ DOMAIN asked' = DOMAIN asked \cup {nr} /\ asked'[nr] = a
      /\ \A x \in DOMAIN asked : x # nr => asked'[x] = asked[x]
  BY <1>7 DEF With
<1>9. /\ DOMAIN subs' = DOMAIN subs \cup {nr} /\ subs'[nr] = w.t
      /\ \A x \in DOMAIN subs : x # nr => subs'[x] = subs[x]
  BY <1>4 DEF With
<1>10. DOMAIN asked' \subseteq Numbers BY <1>8 DEF Numbering
<1>11. \A x \in DOMAIN asked' : asked'[x] \subseteq [t : Topics, r : BOOLEAN]
  BY <1>6, <1>8 DEF Numbering, Wish
<1>12. \A x \in DOMAIN subs' : x \in DOMAIN asked' /\ \E v \in asked'[x] : v.t = subs'[x]
  <2> SUFFICES ASSUME NEW x \in DOMAIN subs'
      PROVE  x \in DOMAIN asked' /\ \E v \in asked'[x] : v.t = subs'[x]
    OBVIOUS
  <2>1. CASE x = nr BY <1>6, <1>8, <1>9, <2>1
  <2>2. CASE x # nr BY <1>8, <1>9, <2>2 DEF Numbering
  <2> QED BY <2>1, <2>2
<1>13. Numbering' BY <1>2, <1>10, <1>11, <1>12, NextCall DEF Numbering
<1>14. MS(nr, w.t, w.r) \in Messages
  <2>1. w.t \in Named /\ w.r \in BOOLEAN BY <1>3 DEF Wish, Named
  <2> QED BY <2>1, MessageTyped DEF MS, Kinds
<1> QED BY <1>4, <1>13, <1>14, ThenTyped

\* A step of the program that sends nothing to a multiplexer
LEMMA ProgramTyped ==
  ASSUME TypeInv, UNCHANGED <<stuck, muxVars, fromDev>>, listening' \in BOOLEAN,
         Numbering', prog'.m \in Messages, TypedTo
  PROVE  TypeInv'
<1>1. UNCHANGED <<tasks, msubs, broker>> BY DEF muxVars
<1>2. Mail /\ Tabled BY DEF TypeInv
<1>3. TypedFrom /\ TypedTasks /\ broker' \in Nat BY <1>1, <1>2, MailSame
<1>4. Mail' BY <1>3, MailStep
<1>5. Tabled' BY <1>1, <1>2, TabledSame
<1> QED BY <1>4, <1>5 DEF TypeInv

LEMMA WishesTyped ==
  ASSUME TrackInv, TypeInv,
         \/ Subscribe \/ \E nr \in Chosen : SubscribeAs(nr)
         \/ \E nr \in DOMAIN subs : Unsubscribe(nr)
  PROVE  TypeInv'
<1>0. Numbering /\ Mail BY DEF TypeInv
<1>1. UNCHANGED <<connVars, muxVars, netVars>>
  BY DEF Subscribe, SubscribeAs, SubscribeCall, Unsubscribe
<1>2. UNCHANGED <<listening, stuck, fromDev, toDev>> BY <1>1 DEF connVars, netVars
<1>3. Numbering' /\ prog'.m \in Messages
  <2>1. CASE Subscribe
    <3>1. SubscribeCall(sub_nr) /\ sub_nr' = sub_nr + 2 BY <2>1 DEF Subscribe
    <3>2. wishes # <<>> /\ wishes' = Tail(wishes) BY <3>1 DEF SubscribeCall
    <3>3. PICK nr \in Numbers : nr = sub_nr BY <1>0, <3>1, <3>2, NextCall
    <3>4. SubscribeCall(nr) /\ sub_nr' \in {sub_nr, sub_nr + 2} BY <3>1, <3>3
    <3> QED BY <1>0, <3>4, SubscribeTyped
  <2>2. ASSUME NEW nr \in Chosen, SubscribeAs(nr) PROVE Numbering' /\ prog'.m \in Messages
    <3>1. nr \in Numbers BY DEF Numbers
    <3>2. SubscribeCall(nr) /\ sub_nr' \in {sub_nr, sub_nr + 2} BY <2>2 DEF SubscribeAs
    <3> QED BY <1>0, <3>1, <3>2, SubscribeTyped
  <2>3. ASSUME NEW nr \in DOMAIN subs, Unsubscribe(nr) PROVE Numbering' /\ prog'.m \in Messages
    <3>1. subs' = Without(subs, nr) /\ Then(MU(nr)) /\ UNCHANGED <<sub_nr, wishes, asked>>
      BY <2>3 DEF Unsubscribe
    <3>2. Numbering' BY <1>0, <3>1, NumberingLess
    <3>3. nr \in Numbers BY <1>0 DEF Numbering
    <3>4. MU(nr) \in Messages BY <3>3, MessageTyped DEF MU, Named, Kinds
    <3> QED BY <3>1, <3>2, <3>4, ThenTyped
  <2> QED BY <2>1, <2>2, <2>3
<1>4. TypedTo /\ listening' \in BOOLEAN BY <1>0, <1>2, MailSame DEF TypeInv
<1> QED BY <1>1, <1>2, <1>3, <1>4, ProgramTyped

LEMMA PublishTyped ==
  ASSUME TypeInv, NEW t \in Topics, Publish(t)
  PROVE  TypeInv'
<1>0. Numbering /\ Mail BY DEF TypeInv
<1>1. /\ UNCHANGED <<connVars, subVars, muxVars, toDev, fromDev>>
      /\ Then(Msg("m", 0, t, FALSE, 0))
  BY DEF Publish
<1>2. UNCHANGED <<listening, stuck>> BY <1>1 DEF connVars
<1>3. Msg("m", 0, t, FALSE, 0) \in Messages BY MessageTyped DEF Named, Kinds
<1>4. prog'.m \in Messages BY <1>1, <1>3, ThenTyped
<1>5. Numbering' BY <1>0, <1>1, NumberingSame
<1>6. TypedTo /\ listening' \in BOOLEAN BY <1>0, <1>1, <1>2, MailSame DEF TypeInv
<1> QED BY <1>1, <1>2, <1>4, <1>5, <1>6, ProgramTyped

LEMMA SendTyped ==
  ASSUME TrackInv, AgreeInv, ~raced, TypeInv, SendBegin \/ SendEnd
  PROVE  TypeInv'
<1>0. Numbering /\ Mail /\ Tabled BY DEF TypeInv
<1>1. UNCHANGED <<stuck, listening, toDev, broker, tasks, msubs, subVars>>
  BY DEF SendBegin, SendEnd, connVars, muxVars, netVars
<1>2. prog'.m \in Messages BY IdleTyped DEF SendBegin, SendEnd, Doing, TypeInv, Mail
<1>3. Numbering' /\ TypedTo /\ TypedTasks /\ Tabled' /\ broker' \in Nat
  BY <1>0, <1>1, NumberingSame, MailSame, TabledSame
<1>4. TypedFrom
  <2>1. CASE fromDev' = fromDev BY <1>0, <2>1, MailSame
  <2>2. CASE fromDev' # fromDev
    <3>1. prog.at = "packing" /\ fromDev' = ToMux(prog.c, <<prog.m>>)
      BY <2>2 DEF SendBegin, SendEnd, netVars
    <3>2. PICK c \in Conns : c = prog.c BY <3>1 DEF AgreeInv, Packing
    <3>3. PICK m \in Messages : m = prog.m BY <1>0 DEF Mail
    <3>4. m \in Parcels BY NumbersAre
    <3>5. PICK ms \in Seq(Parcels) : ms = <<m>> /\ Range(ms) \subseteq {m}
      BY <3>4, OneMessage
    <3>6. fromDev' = ToMux(c, ms) BY <3>1, <3>2, <3>3, <3>5
    <3> QED BY <1>0, <3>5, <3>6, TypedFromSent
  <2> QED BY <2>1, <2>2
<1>5. Mail' BY <1>2, <1>3, <1>4, MailStep
<1> QED BY <1>1, <1>3, <1>5 DEF TypeInv

LEMMA StopTyped ==
  ASSUME TrackInv, TypeInv, StopBegin \/ StopClears \/ StopLoop \/ Start
  PROVE  TypeInv'
<1>0. Numbering /\ Mail BY DEF TypeInv
<1>1. UNCHANGED <<stuck, subVars, muxVars, fromDev>>
  BY DEF StopBegin, StopClears, StopLoop, Start, netVars
<1>2. listening' \in BOOLEAN
  BY DEF StopBegin, StopClears, StopLoop, Start, TypeInv
<1>3. prog'.m \in Messages
  BY IdleTyped DEF StopBegin, StopClears, StopLoop, Start, Doing, TypeInv, Mail
<1>4. TypedTo
  <2>1. client \in Conns \cup {0} /\ clients \subseteq Conns BY DEF TrackInv, DeviceTyped
  <2>2. (\E c \in Conns : Close(c)) \/ toDev' = toDev
    <3>1. CASE StopBegin BY <2>1, <3>1 DEF StopBegin
    <3>2. CASE StopClears BY <3>2 DEF StopClears, netVars
    <3>3. CASE StopLoop BY <2>1, <3>3 DEF StopLoop
    <3>4. CASE Start BY <3>4 DEF Start, netVars
    <3> QED BY <3>1, <3>2, <3>3, <3>4
  <2>3. \A d \in Conns : toDev'[d] = toDev[d] \/ toDev'[d] = <<>>
    BY <2>2 DEF Close, TrackInv, NetTyped
  <2> QED BY <1>0, <2>3, TypedToLess
<1>5. Numbering' BY <1>0, <1>1, NumberingSame
<1> QED BY <1>1, <1>2, <1>3, <1>4, <1>5, ProgramTyped

LEMMA ProgramsTyped ==
  ASSUME TrackInv, AgreeInv, ~raced, TypeInv, Programs
  PROVE  TypeInv'
BY SendTyped, StopTyped, WishesTyped, PublishTyped DEF Programs, Program

-----------------------------------------------------------------------------
(* The multiplexers.                                                       *)

LEMMA MuxTypedStep ==
  ASSUME TypeInv, UNCHANGED devVars, TypedFrom, TypedTo, TypedTasks, broker' \in Nat, Tabled'
  PROVE  TypeInv'
<1>1. UNCHANGED <<listening, stuck, subVars, prog>> BY DEF devVars, connVars
<1>2. Mail /\ Numbering BY DEF TypeInv
<1>3. Mail' BY <1>1, <1>2, MailSame, MailStep
<1>4. Numbering' BY <1>1, <1>2, NumberingSame
<1> QED BY <1>1, <1>3, <1>4 DEF TypeInv

\* Its tasks get a message of the broker's, which is not the last yet.
LEMMA DeliverKeepsTypes ==
  ASSUME TrackInv, TypeInv, NEW t \in Named, Deliver(t), msubs' = msubs
  PROVE  TypedTasks /\ Tabled' /\ broker' \in Nat
<1>0. Mail /\ Tabled /\ broker \in Nat BY DEF TypeInv, Mail
<1>1. broker' = broker + 1 /\ broker + 1 \in Nat BY <1>0 DEF Deliver
<1>2. ASSUME NEW c \in Conns PROVE TypedTask(c)
  <2>1. Kept(c) BY DeliverTasks
  <2>2. ASSUME NEW l \in 1..Len(tasks[c]) PROVE Range(tasks'[c][l].q) \subseteq Messages
    <3>1. tasks[c] \in Seq(Task) BY TablesTyped
    <3>2. PICK tk \in Task : tk = tasks[c][l] BY <3>1
    <3>3. tk.nr \in Numbers \cup {0} /\ Range(tk.q) \subseteq Messages BY <1>0, <3>2 DEF Mail
    <3>4. PICK x : x = Msg("m", tk.nr, t, FALSE, broker + 1) OBVIOUS
    <3>5. tasks'[c][l].q = IF tk.on = "on" /\ tk.t = t THEN Append(tk.q, x) ELSE tk.q
      BY <3>2, <3>4, DeliverTasks
    <3>6. x \in Messages BY <1>1, <3>3, <3>4, MessageTyped DEF Kinds
    <3>7. x \in Copies /\ tk.q \in Seq(Copies) BY <1>1, <3>2, <3>4 DEF Msg, Copies, Task
    <3>8. Range(Append(tk.q, x)) \subseteq Range(tk.q) \cup {x} BY <3>7, RangeAppend
    <3> QED BY <3>3, <3>5, <3>6, <3>8
  <2> QED BY <1>0, <2>1, <2>2, KeptTyped
<1>3. TypedTasks BY <1>2 DEF TypedTasks
<1>4. \A c \in Conns : Len(tasks'[c]) = Len(tasks[c]) BY DeliverTasks DEF Kept, Same
<1>5. Tabled' BY <1>0, <1>4, TabledSame
<1> QED BY <1>1, <1>3, <1>5

LEMMA MuxStartTyped ==
  ASSUME TrackInv, AgreeInv, TypeInv, NEW c \in Conns, MuxConnect(c) \/ Ping(c) \/ MuxEnd(c)
  PROVE  TypeInv'
<1>0. Mail /\ Tabled BY DEF TypeInv
<1>1. UNCHANGED devVars /\ broker' = broker
  BY DEF MuxConnect, Ping, MuxEnd, Ends, muxVars
<1>2. TypedTo
  <2>1. \A a \in {"h", "p"} : Plain(a) \in Messages BY PlainTyped DEF Kinds
  <2>2. \/ toDev' = toDev \/ toDev' = ToDevice(c, Plain("h"))
        \/ toDev' = ToDevice(c, Plain("p"))
    BY DEF MuxConnect, Ping, MuxEnd, Ends
  <2> QED BY <1>0, <2>1, <2>2, MailSame, TypedToSent
<1>3. broker' \in Nat BY <1>0, <1>1, MailSame
<1>4. CASE MuxConnect(c) \/ Ping(c)
  <2>1. UNCHANGED <<tasks, msubs, fromDev>> BY <1>4 DEF MuxConnect, Ping, muxVars
  <2>2. TypedFrom /\ TypedTasks /\ Tabled' BY <1>0, <2>1, MailSame, TabledSame
  <2> QED BY <1>1, <1>2, <1>3, <2>2, MuxTypedStep
<1>5. CASE MuxEnd(c)
  <2>1. /\ tasks' = [tasks EXCEPT ![c] = <<>>] /\ msubs' = [msubs EXCEPT ![c] = <<>>]
        /\ fromDev' = [fromDev EXCEPT ![c] = <<>>]
    BY <1>5 DEF MuxEnd, Ends
  <2>2. ASSUME NEW d \in Conns
        PROVE  /\ fromDev'[d] = fromDev[d] \/ fromDev'[d] = <<>>
               /\ \/ tasks'[d] = tasks[d] /\ msubs'[d] = msubs[d]
                  \/ tasks'[d] = <<>> /\ msubs'[d] = <<>>
    BY <2>1 DEF TrackInv, NetTyped, MuxTyped, AgreeInv
  <2>3. Len(<<>>) = 0 /\ DOMAIN <<>> = {} OBVIOUS
  <2>4. TypedFrom BY <1>0, <2>2, RangeEmpty DEF TypedFrom, Mail
  <2>5. TypedTasks BY <1>0, <2>2, <2>3 DEF TypedTasks, TypedTask, Mail
  <2>6. Tabled' BY <1>0, <2>2, <2>3 DEF Tabled
  <2> QED BY <1>1, <1>2, <1>3, <2>4, <2>5, <2>6, MuxTypedStep
<1> QED BY <1>4, <1>5

\* A message is taken that is none for the broker.
LEMMA MuxReadsTyped ==
  ASSUME TrackInv, AgreeInv, TypeInv, NEW c \in Conns,
         MuxHello(c) \/ MuxMS(c) \/ MuxRefused(c) \/ MuxMU(c)
  PROVE  TypeInv'
<1>0. Mail /\ Tabled BY DEF TypeInv
<1>1. PICK a : Reading(c, a)
  <2>1. CASE MuxHello(c) BY <2>1 DEF MuxHello
  <2>2. CASE MuxMS(c) BY <2>2 DEF MuxMS
  <2>3. CASE MuxRefused(c) BY <2>3 DEF MuxRefused
  <2>4. CASE MuxMU(c) BY <2>4, Zenon DEF MuxMU
  <2> QED BY <2>1, <2>2, <2>3, <2>4
<1>2. broker' = broker
  <2>1. CASE MuxHello(c) BY <2>1 DEF MuxHello
  <2>2. CASE MuxMS(c) BY <2>2 DEF MuxMS
  <2>3. CASE MuxRefused(c) BY <2>3 DEF MuxRefused
  <2>4. CASE MuxMU(c) BY <2>4, Zenon DEF MuxMU
  <2> QED BY <2>1, <2>2, <2>3, <2>4
<1>3. /\ UNCHANGED devVars /\ toDev' = toDev /\ fromDev[c] # <<>>
      /\ fromDev'[c] = Tail(fromDev[c]) /\ \A d \in Conns : d # c => fromDev'[d] = fromDev[d]
  BY <1>1, ReadingAgrees
<1>4. TypedFrom /\ Head(fromDev[c]) \in Messages BY <1>0, <1>3, TypedFromRead
<1>5. TypedTo /\ broker' \in Nat BY <1>0, <1>2, <1>3, MailSame
<1>6. TypedTasks /\ Tabled'
  <2>1. CASE MuxHello(c) \/ MuxRefused(c)
    <3>1. UNCHANGED <<tasks, msubs>> BY <2>1 DEF MuxHello, MuxRefused
    <3> QED BY <1>0, <3>1, MailSame, TabledSame
  <2>2. CASE MuxMS(c)
    <3>1. PICK f \in Task : /\ f.nr = Head(fromDev[c]).nr /\ f.q = <<>>
                            /\ tasks'[c] = Append(tasks[c], f) /\ Elsewhere(c)
      BY <2>2, MuxMSTasks
    <3>2. tasks[c] \in Seq(Task) BY TablesTyped
    <3>3. f.nr \in Numbers \cup {0} /\ Range(f.q) \subseteq Messages
      BY <1>4, <3>1, RangeEmpty DEF Messages
    <3>4. /\ Len(tasks'[c]) = Len(tasks[c]) + 1 /\ Len(tasks[c]) \in Nat
          /\ \A k \in 1..Len(tasks'[c]) :
               tasks'[c][k] = f \/ (k \in 1..Len(tasks[c]) /\ tasks'[c][k] = tasks[c][k])
      BY <3>1, <3>2
    <3>5. TypedTask(c) BY <1>0, <3>3, <3>4 DEF TypedTask, Mail
    <3>6. TypedTasks BY <1>0, <3>1, <3>5, OtherTasks
    <3>7. PICK nr : msubs' = [msubs EXCEPT ![c] = With(@, nr, Len(tasks'[c]))]
      BY <2>2 DEF MuxMS
    <3>8. /\ msubs'[c] = With(msubs[c], nr, Len(tasks'[c]))
          /\ \A d \in Conns : d # c => msubs'[d] = msubs[d]
      BY <3>7 DEF AgreeInv
    <3>9. \A x \in DOMAIN msubs'[c] : msubs'[c][x] \in 1..Len(tasks'[c])
      BY <1>0, <3>4, <3>8 DEF With, Tabled
    <3>10. Tabled' BY <1>0, <3>1, <3>8, <3>9 DEF Tabled, Elsewhere
    <3> QED BY <3>6, <3>10
  <2>3. CASE MuxMU(c)
    <3>1. /\ Kept(c) /\ Elsewhere(c)
          /\ \A l \in 1..Len(tasks[c]) : tasks'[c][l].q = tasks[c][l].q
      BY <2>3, MuxMUTasks
    <3>2. msubs' = msubs BY <2>3, Zenon DEF MuxMU
    <3>3. \A l \in 1..Len(tasks[c]) : Range(tasks'[c][l].q) \subseteq Messages
      BY <1>0, <3>1 DEF Mail
    <3>4. TypedTask(c) BY <1>0, <3>1, <3>3, KeptTyped
    <3>5. TypedTasks BY <1>0, <3>1, <3>4, OtherTasks
    <3>6. \A d \in Conns : Len(tasks'[d]) = Len(tasks[d])
      BY <3>1 DEF Kept, Same, Elsewhere
    <3> QED BY <1>0, <3>2, <3>5, <3>6, TabledSame
  <2> QED BY <2>1, <2>2, <2>3
<1> QED BY <1>3, <1>4, <1>5, <1>6, MuxTypedStep

LEMMA MuxMTyped ==
  ASSUME TrackInv, TypeInv, NEW c \in Conns, MuxM(c)
  PROVE  TypeInv'
<1>0. Mail BY DEF TypeInv
<1>1. /\ UNCHANGED devVars /\ toDev' = toDev /\ fromDev[c] # <<>>
      /\ fromDev'[c] = Tail(fromDev[c]) /\ \A d \in Conns : d # c => fromDev'[d] = fromDev[d]
  BY ReadingAgrees DEF MuxM
<1>2. Deliver(Head(fromDev[c]).t) /\ msubs' = msubs BY DEF MuxM
<1>3. TypedFrom /\ Head(fromDev[c]) \in Messages /\ TypedTo
  BY <1>0, <1>1, TypedFromRead, MailSame
<1>4. PICK t \in Named : t = Head(fromDev[c]).t BY <1>3 DEF Messages, Named
<1>5. TypedTasks /\ Tabled' /\ broker' \in Nat BY <1>2, <1>4, DeliverKeepsTypes
<1> QED BY <1>1, <1>3, <1>5, MuxTypedStep

\* The tasks themselves
LEMMA TasksTyped ==
  ASSUME TrackInv, AgreeInv, TypeInv, NEW c \in Conns, NEW k \in DOMAIN tasks[c],
         TaskFails(c, k) \/ TaskEnds(c, k) \/ Forward(c, k)
  PROVE  TypeInv'
<1>0. Mail /\ Tabled BY DEF TypeInv
<1>1. UNCHANGED <<devVars, broker, fromDev>> BY DEF TaskFails, TaskEnds, Becomes, Forward
<1>2. TypedFrom /\ broker' \in Nat BY <1>0, <1>1, MailSame
<1>3. \A l \in 1..Len(tasks[c]) : Range(tasks[c][l].q) \subseteq Messages BY <1>0 DEF Mail
<1>4. ASSUME NEW on \in {"leaving", "ended"}, Becomes(c, k, on)
      PROVE  TypedTasks /\ \A d \in Conns : Len(tasks'[d]) = Len(tasks[d])
  <2>1. /\ Kept(c) /\ Elsewhere(c)
        /\ \A l \in 1..Len(tasks[c]) : tasks'[c][l].q = <<>> \/ tasks'[c][l].q = tasks[c][l].q
    BY <1>4, BecomesTasks
  <2>2. TypedTask(c) BY <1>0, <1>3, <2>1, RangeEmpty, KeptTyped
  <2>3. TypedTasks BY <1>0, <2>1, <2>2, OtherTasks
  <2> QED BY <2>1, <2>3 DEF Kept, Same, Elsewhere
<1>5. CASE TaskFails(c, k)
  <2>1. Becomes(c, k, "leaving") /\ msubs' = msubs /\ toDev' = ToDevice(c, MU(tasks[c][k].nr))
    BY <1>5 DEF TaskFails
  <2>2. TypedTasks /\ Tabled' BY <1>0, <1>4, <2>1, TabledSame
  <2>3. tasks[c][k].nr \in Numbers \cup {0}
    <3>1. DOMAIN tasks[c] = 1..Len(tasks[c]) BY TablesTyped
    <3> QED BY <1>0, <3>1 DEF Mail
  <2>4. PICK m \in Messages : m = MU(tasks[c][k].nr)
    BY <2>3, MessageTyped DEF MU, Named, Kinds
  <2>5. TypedTo BY <1>0, <2>1, <2>4, TypedToSent
  <2> QED BY <1>1, <1>2, <2>2, <2>5, MuxTypedStep
<1>6. CASE TaskEnds(c, k)
  <2>1. PICK nr : /\ Becomes(c, k, "ended") /\ toDev' = toDev
                  /\ msubs' = [msubs EXCEPT ![c] = Without(@, nr)]
    BY <1>6 DEF TaskEnds
  <2>2. TypedTasks /\ \A d \in Conns : Len(tasks'[d]) = Len(tasks[d]) BY <1>4, <2>1
  <2>3. /\ msubs'[c] = Without(msubs[c], nr)
        /\ \A d \in Conns : d # c => msubs'[d] = msubs[d]
    BY <2>1 DEF AgreeInv
  <2>4. ASSUME NEW d \in Conns, NEW x \in DOMAIN msubs'[d] PROVE msubs'[d][x] \in 1..Len(tasks'[d])
    <3>1. x \in DOMAIN msubs[d] /\ msubs'[d][x] = msubs[d][x] BY <2>3, <2>4 DEF Without
    <3> QED BY <1>0, <2>2, <3>1 DEF Tabled
  <2>5. Tabled' BY <2>4 DEF Tabled
  <2>6. TypedTo BY <1>0, <2>1, MailSame
  <2> QED BY <1>1, <1>2, <2>2, <2>5, <2>6, MuxTypedStep
<1>7. CASE Forward(c, k)
  <2>1. PICK q : q = tasks[c][k].q OBVIOUS
  <2>2. /\ Kept(c) /\ Elsewhere(c) /\ k \in 1..Len(tasks[c]) /\ q \in Seq(Copies) /\ q # <<>>
        /\ tasks'[c][k].q = Tail(q)
        /\ \A l \in 1..Len(tasks[c]) : l # k => tasks'[c][l].q = tasks[c][l].q
    BY <1>7, <2>1, ForwardTasks
  <2>3. Head(q) \in Range(q) /\ Range(Tail(q)) \subseteq Range(q) BY <2>2, RangeTail
  <2>4. Range(q) \subseteq Messages BY <1>3, <2>1, <2>2
  <2>5. \A l \in 1..Len(tasks[c]) : Range(tasks'[c][l].q) \subseteq Messages
    BY <1>3, <2>2, <2>3, <2>4
  <2>6. TypedTask(c) BY <1>0, <2>2, <2>5, KeptTyped
  <2>7. TypedTasks BY <1>0, <2>2, <2>6, OtherTasks
  <2>8. msubs' = msubs /\ toDev' = ToDevice(c, Head(q)) BY <1>7, <2>1 DEF Forward
  <2>9. TypedTo BY <1>0, <2>3, <2>4, <2>8, TypedToSent
  <2>10. \A d \in Conns : Len(tasks'[d]) = Len(tasks[d])
    BY <2>2 DEF Kept, Same, Elsewhere
  <2>11. Tabled' BY <1>0, <2>8, <2>10, TabledSame
  <2> QED BY <1>1, <1>2, <2>7, <2>9, <2>11, MuxTypedStep
<1> QED BY <1>5, <1>6, <1>7

LEMMA OtherTyped ==
  ASSUME TrackInv, TypeInv, NEW t \in Topics, Other(t)
  PROVE  TypeInv'
<1>0. Mail BY DEF TypeInv
<1>1. UNCHANGED <<devVars, msubs, toDev, fromDev>> /\ Deliver(t) BY DEF Other
<1>2. PICK s \in Named : s = t BY DEF Named
<1>3. TypedTasks /\ Tabled' /\ broker' \in Nat BY <1>1, <1>2, DeliverKeepsTypes
<1>4. TypedFrom /\ TypedTo BY <1>0, <1>1, MailSame
<1> QED BY <1>1, <1>3, <1>4, MuxTypedStep

-----------------------------------------------------------------------------

LEMMA TypesInit == Init => TypeInv
<1> SUFFICES ASSUME Init PROVE TypeInv OBVIOUS
<1>1. Numbering
  <2>1. DOMAIN asked = {} /\ DOMAIN subs = {} /\ sub_nr = 1 BY DEF Init
  <2>2. PICK p \in Plans : wishes = p.wishes BY DEF Init
  <2>3. PICK n \in Nat : n = Len(p.wishes) BY PubSubAssumption DEF PlanOK
  <2>4. 0 \in 0..n - n BY <2>3
  <2>5. 0 \in 0..Len(p.wishes) - Len(wishes) BY <2>2, <2>3, <2>4
  <2>6. sub_nr = NumberOf(0 + 1) BY <2>1 DEF NumberOf
  <2> QED BY <2>1, <2>5, <2>6 DEF Numbering
<1>2. Mail
  <2>1. prog.m \in Messages /\ broker \in Nat BY IdleTyped DEF Init
  <2>2. Len(<<>>) = 0 OBVIOUS
  <2>3. \A c \in Conns : fromDev[c] = <<>> /\ toDev[c] = <<>> /\ Len(tasks[c]) = 0
    BY <2>2 DEF Init
  <2> QED BY <2>1, <2>3, RangeEmpty DEF Mail
<1>3. Tabled BY DEF Init, Tabled
<1>4. listening \in BOOLEAN /\ stuck \subseteq Conns BY DEF Init
<1> QED BY <1>1, <1>2, <1>3, <1>4 DEF TypeInv

LEMMA TypesStep == TrackInv /\ AgreeInv /\ TypeInv /\ [Next]_vars => TypeInv'
<1> SUFFICES ASSUME TrackInv, AgreeInv, TypeInv, [Next]_vars PROVE TypeInv' OBVIOUS
<1>1. CASE Next
  <2>1. ~raced /\ Steps BY <1>1 DEF Next
  <2>2. CASE \E c \in Conns : Callbacks(c) BY <2>2, CallbacksTyped
  <2>3. CASE \E c \in Conns : \/ Tasks(c) \/ MuxConnect(c) \/ MuxEnd(c) \/ Ping(c)
                              \/ \E k \in DOMAIN tasks[c] : TaskFails(c, k)
    <3>1. PICK c \in Conns : \/ Tasks(c) \/ MuxConnect(c) \/ MuxEnd(c) \/ Ping(c)
                             \/ \E k \in DOMAIN tasks[c] : TaskFails(c, k)
      BY <2>3
    <3>2. CASE Tasks(c) BY <3>2, MuxReadsTyped, MuxMTyped, TasksTyped DEF Tasks
    <3> QED BY <3>1, <3>2, MuxStartTyped, TasksTyped
  <2>4. CASE Programs BY <2>1, <2>4, ProgramsTyped
  <2>5. CASE \E t \in Topics : Other(t) BY <2>5, OtherTyped
  <2> QED BY <2>1, <2>2, <2>3, <2>4, <2>5, StepsAre
<1>2. CASE UNCHANGED vars
  <2>1. UNCHANGED <<connVars, subVars, prog, muxVars, netVars>> BY <1>2 DEF vars
  <2>2. UNCHANGED <<listening, stuck, subs, sub_nr, wishes, asked, prog, tasks, msubs, broker,
                    toDev, fromDev>>
    BY <2>1 DEF connVars, subVars, muxVars, netVars
  <2>3. Numbering' /\ Mail' /\ Tabled' BY <2>2 DEF TypeInv, Numbering, Mail, Tabled
  <2> QED BY <2>2, <2>3 DEF TypeInv
<1> QED BY <1>1, <1>2

\* What the program can still do and which numbers it can use, that channels
\* and queues carry messages about such numbers only, and that tables lead to
\* tasks, whatever the plans, the numbers passed to subscribe, the failures of
\* tasks and the refusals of the broker; it carries TypeOK.
THEOREM TypeInvariance == Spec => [](TrackInv /\ AgreeInv /\ TypeInv)
BY TrackInit, AgreeInit, TypesInit, TrackStep, AgreeStep, TypesStep, PTL DEF Spec

\* Every variable has its type: each number that is subscribed has one of the
\* topics it was asked for, tables lead to tasks, and channels carry messages
\* about numbers that the program can use.
THEOREM TypesOfTables == Spec => []TypeOK
<1>1. TrackInv /\ AgreeInv /\ TypeInv => TypeOK
  <2> SUFFICES ASSUME TrackInv, AgreeInv, TypeInv PROVE TypeOK OBVIOUS
  <2>1. ASSUME NEW s \in Seq(Parcels), Range(s) \subseteq Messages PROVE s \in Seq(Messages)
    <3>1. \A i \in 1..Len(s) : s[i] \in Messages BY <2>1, RangeIs
    <3> QED BY <3>1
  <2>2. \A c \in Conns : /\ toDev[c] \in Seq(Messages) /\ fromDev[c] \in Seq(Messages)
                         /\ \A nr \in DOMAIN msubs[c] : msubs[c][nr] \in DOMAIN tasks[c]
    <3>1. \A c \in Conns : DOMAIN tasks[c] = 1..Len(tasks[c]) BY TablesTyped
    <3> QED BY <2>1, <3>1, TablesTyped DEF TypeInv, Mail, Tabled
  <2>3. /\ DOMAIN subs \subseteq DOMAIN asked /\ DOMAIN asked \subseteq Numbers
        /\ \A nr \in DOMAIN asked : asked[nr] \subseteq [t : Topics, r : BOOLEAN]
        /\ \A nr \in DOMAIN subs : \E w \in asked[nr] : w.t = subs[nr]
    BY DEF TypeInv, Numbering
  <2>4. prog.m \in Messages /\ listening \in BOOLEAN /\ stuck \subseteq Conns
    BY DEF TypeInv, Mail
  <2>5. /\ sock \in [Conns -> {"none", "open", "closed"}] /\ clients \subseteq Conns
        /\ client \in Conns \cup {0} /\ mux \in [Conns -> {"off", "init", "up", "ended"}]
        /\ prog.at \in {"idle", "sending", "packing", "stop", "stopping"}
    BY DEF TrackInv, DeviceTyped, MuxTyped
  <2> QED BY <2>2, <2>3, <2>4, <2>5 DEF TypeOK
<1> QED BY <1>1, TypeInvariance, PTL

=============================================================================
