------------------------- MODULE RequestOrder_proofs -------------------------
(***************************************************************************)
(* The order of requests and replies along the request path: OInv, and     *)
(* what follows from it; and the multiplexer's table mseq, which does not  *)
(* leak where every command replies: NoLeak.  For any set of Links, any    *)
(* outcomes of the commands, and any number of calls and pings.            *)
(***************************************************************************)
EXTENDS RequestPath_proofs

-----------------------------------------------------------------------------
(* Queues whose messages are in the order of their peers' numbers.         *)

\* e comes later than what s has of its peer.
Later(s, e) == \A a \in 1 .. Len(s) : s[a].d.from = e.d.from => s[a].d.n < e.d.n

LEMMA InOrderAppend ==
  ASSUME NEW S, NEW s \in Seq(S), NEW e \in S, InOrder(s), Later(s, e)
  PROVE  InOrder(Append(s, e))
<1> DEFINE t == Append(s, e)
<1>1. /\ Len(t) = Len(s) + 1 /\ Len(s) \in Nat
      /\ \A a \in 1 .. Len(s) : t[a] = s[a]
      /\ t[Len(s) + 1] = e
  OBVIOUS
<1> SUFFICES ASSUME NEW a \in 1 .. Len(t), NEW b \in 1 .. Len(t), a < b,
                    t[a].d.from = t[b].d.from
             PROVE  t[a].d.n < t[b].d.n
  BY DEF InOrder
<1>2. a \in 1 .. Len(s)
  BY <1>1
<1>3. CASE b = Len(s) + 1
  BY <1>1, <1>2, <1>3 DEF Later
<1>4. CASE b \in 1 .. Len(s)
  BY <1>1, <1>2, <1>4 DEF InOrder
<1> QED
  BY <1>1, <1>3, <1>4

LEMMA InOrderTail ==
  ASSUME NEW S, NEW s \in Seq(S), s # <<>>, InOrder(s)
  PROVE  /\ InOrder(Tail(s))
         /\ \A a \in 1 .. Len(Tail(s)) :
              Tail(s)[a].d.from = Head(s).d.from => Head(s).d.n < Tail(s)[a].d.n
<1>1. /\ Len(s) \in Nat \ {0} /\ Len(Tail(s)) = Len(s) - 1
      /\ \A a \in 1 .. Len(s) - 1 : Tail(s)[a] = s[a + 1]
      /\ Head(s) = s[1]
  BY TailLemma
<1> QED
  BY <1>1 DEF InOrder

LEMMA BeforeAppendRight ==
  ASSUME NEW S, NEW s \in Seq(S), NEW T, NEW t \in Seq(T), NEW e \in T,
         Before(s, t), Later(s, e)
  PROVE  Before(s, Append(t, e))
<1>1. /\ Len(Append(t, e)) = Len(t) + 1 /\ Len(t) \in Nat
      /\ \A b \in 1 .. Len(t) : Append(t, e)[b] = t[b]
      /\ Append(t, e)[Len(t) + 1] = e
  OBVIOUS
<1> SUFFICES ASSUME NEW a \in 1 .. Len(s), NEW b \in 1 .. Len(Append(t, e)),
                    s[a].d.from = Append(t, e)[b].d.from
             PROVE  s[a].d.n < Append(t, e)[b].d.n
  BY DEF Before
<1>2. CASE b = Len(t) + 1
  BY <1>1, <1>2 DEF Later
<1>3. CASE b \in 1 .. Len(t)
  BY <1>1, <1>3 DEF Before
<1> QED
  BY <1>1, <1>2, <1>3

LEMMA BeforeAppendLeft ==
  ASSUME NEW S, NEW s \in Seq(S), NEW T, NEW t \in Seq(T), NEW e \in S, Before(s, t),
         \A b \in 1 .. Len(t) : t[b].d.from = e.d.from => e.d.n < t[b].d.n
  PROVE  Before(Append(s, e), t)
<1>1. /\ Len(Append(s, e)) = Len(s) + 1 /\ Len(s) \in Nat
      /\ \A a \in 1 .. Len(s) : Append(s, e)[a] = s[a]
      /\ Append(s, e)[Len(s) + 1] = e
  OBVIOUS
<1> SUFFICES ASSUME NEW a \in 1 .. Len(Append(s, e)), NEW b \in 1 .. Len(t),
                    Append(s, e)[a].d.from = t[b].d.from
             PROVE  Append(s, e)[a].d.n < t[b].d.n
  BY DEF Before
<1>2. CASE a = Len(s) + 1
  BY <1>1, <1>2
<1>3. CASE a \in 1 .. Len(s)
  BY <1>1, <1>3 DEF Before
<1> QED
  BY <1>1, <1>2, <1>3

LEMMA BeforeTail ==
  ASSUME NEW S, NEW s \in Seq(S), s # <<>>, NEW T, NEW t \in Seq(T)
  PROVE  /\ Before(s, t) =>
              /\ Before(Tail(s), t)
              /\ \A b \in 1 .. Len(t) : t[b].d.from = Head(s).d.from => Head(s).d.n < t[b].d.n
         /\ Before(t, s) => Before(t, Tail(s)) /\ Later(t, Head(s))
<1>1. /\ Len(s) \in Nat \ {0} /\ Len(Tail(s)) = Len(s) - 1
      /\ \A a \in 1 .. Len(s) - 1 : Tail(s)[a] = s[a + 1]
      /\ Head(s) = s[1]
  BY TailLemma
<1> QED
  BY <1>1 DEF Before, Later

LEMMA AllLater ==
  ASSUME NEW T, NEW t \in Seq(T), NEW p, NEW n,
         \A b \in 1 .. Len(t) : t[b].d.from = p => n < t[b].d.n
  PROVE  \A x \in Range(t) : x.d.from = p => n < x.d.n
<1>1. \A x \in Range(t) : \E b \in 1 .. Len(t) : t[b] = x
  BY RangeIndex
<1> QED
  BY <1>1

LEMMA EmptyInOrder ==
  ASSUME NEW s
  PROVE  InOrder(<<>>) /\ Before(<<>>, s) /\ Before(s, <<>>)
BY EmptyLemma DEF InOrder, Before

-----------------------------------------------------------------------------
(* The types of the queues.                                                *)

LEMMA Queues ==
  ASSUME TypeOK
  PROVE  /\ \A l \in Links : up[l] \in Seq(ReqMsg) /\ down[l] \in Seq(RepMsg)
         /\ toDev \in Seq(ReqMsg) /\ sendq \in Seq(ReqMsg)
         /\ fromDev \in Seq(RepMsg) /\ reply \in Seq(Routed) /\ Len(reply) <= 1
         /\ \A p \in Peers : done[p] \in Seq(Request)
         /\ up \in [Links -> Seq(ReqMsg)] /\ down \in [Links -> Seq(RepMsg)]
         /\ done \in [Peers -> Seq(Request)]
BY DEF TypeOK, WireTypeOK, MuxTypeOK, DevTypeOK

\* Elements of the queues, by index
LEMMA Elements ==
  ASSUME IInv
  PROVE  /\ \A l \in Links : \A a \in 1 .. Len(up[l]) :
              Honest(up[l][a].d) /\ up[l][a].d.from = l /\ up[l][a].d \in Request
         /\ \A a \in 1 .. Len(sendq) : Honest(sendq[a].d) /\ sendq[a].d \in Request
         /\ \A a \in 1 .. Len(toDev) : Honest(toDev[a].d) /\ toDev[a].d \in Request
         /\ \A a \in 1 .. Len(fromDev) :
              Genuine(fromDev[a]) /\ fromDev[a].d \in Request
         /\ \A a \in 1 .. Len(reply) :
              Genuine(reply[a]) /\ reply[a].d \in Request /\ reply[a].to = reply[a].d.from
         /\ \A l \in Links : \A a \in 1 .. Len(down[l]) :
              Genuine(down[l][a]) /\ down[l][a].d.from = l /\ down[l][a].d \in Request
         /\ \A p \in Peers : \A a \in 1 .. Len(done[p]) :
              Honest(done[p][a]) /\ done[p][a].from = p /\ done[p][a] \in Request
<1>1. TypeOK /\ RequestInv
  BY DEF IInv
<1>2. \A l \in Links : \A a \in 1 .. Len(up[l]) :
        Honest(up[l][a].d) /\ up[l][a].d.from = l /\ up[l][a].d \in Request
  <2> SUFFICES ASSUME NEW l \in Links, NEW a \in 1 .. Len(up[l])
               PROVE  Honest(up[l][a].d) /\ up[l][a].d.from = l /\ up[l][a].d \in Request
    OBVIOUS
  <2>1. up[l] \in Seq(ReqMsg)
    BY <1>1, Queues
  <2>2. up[l][a] \in ReqMsg /\ up[l][a] \in Range(up[l])
    BY <2>1, RangeIndex
  <2> QED
    BY <1>1, <2>2 DEF RequestInv, UpInv, ReqMsg
<1>3. \A a \in 1 .. Len(sendq) : Honest(sendq[a].d) /\ sendq[a].d \in Request
  <2>1. \A a \in 1 .. Len(sendq) : sendq[a] \in ReqMsg /\ sendq[a] \in Range(sendq)
    BY <1>1, Typed, Indexed
  <2> QED
    BY <1>1, <2>1 DEF RequestInv, SendqInv, ReqMsg
<1>4. \A a \in 1 .. Len(toDev) : Honest(toDev[a].d) /\ toDev[a].d \in Request
  <2>1. \A a \in 1 .. Len(toDev) : toDev[a] \in ReqMsg /\ toDev[a] \in Range(toDev)
    BY <1>1, Typed, Indexed
  <2> QED
    BY <1>1, <2>1 DEF RequestInv, ToDevInv, ReqMsg
<1>5. \A a \in 1 .. Len(fromDev) : Genuine(fromDev[a]) /\ fromDev[a].d \in Request
  <2>1. \A a \in 1 .. Len(fromDev) : fromDev[a] \in RepMsg /\ fromDev[a] \in Range(fromDev)
    BY <1>1, Typed, Indexed
  <2> QED
    BY <1>1, <2>1 DEF RequestInv, FromDevInv, RepMsg
<1>6. \A a \in 1 .. Len(reply) :
        Genuine(reply[a]) /\ reply[a].d \in Request /\ reply[a].to = reply[a].d.from
  <2> SUFFICES ASSUME NEW a \in 1 .. Len(reply)
               PROVE  Genuine(reply[a]) /\ reply[a].d \in Request
                      /\ reply[a].to = reply[a].d.from
    OBVIOUS
  <2>1. reply \in Seq(Routed) /\ Len(reply) <= 1
    BY <1>1, Queues
  <2>2. a = 1 /\ reply # <<>> /\ reply[a] \in Routed
    BY <2>1
  <2> QED
    BY <1>1, <2>2 DEF RequestInv, ReplyInv, Routed
<1>7. \A l \in Links : \A a \in 1 .. Len(down[l]) :
        Genuine(down[l][a]) /\ down[l][a].d.from = l /\ down[l][a].d \in Request
  <2> SUFFICES ASSUME NEW l \in Links, NEW a \in 1 .. Len(down[l])
               PROVE  Genuine(down[l][a]) /\ down[l][a].d.from = l /\ down[l][a].d \in Request
    OBVIOUS
  <2>1. down[l] \in Seq(RepMsg)
    BY <1>1, Queues
  <2>2. down[l][a] \in RepMsg /\ down[l][a] \in Range(down[l])
    BY <2>1, RangeIndex
  <2> QED
    BY <1>1, <2>2 DEF RequestInv, DownInv, RepMsg
<1>8. \A p \in Peers : \A a \in 1 .. Len(done[p]) :
        Honest(done[p][a]) /\ done[p][a].from = p /\ done[p][a] \in Request
  <2> SUFFICES ASSUME NEW p \in Peers, NEW a \in 1 .. Len(done[p])
               PROVE  Honest(done[p][a]) /\ done[p][a].from = p /\ done[p][a] \in Request
    OBVIOUS
  <2>1. done[p] \in Seq(Request)
    BY <1>1, Queues
  <2>2. done[p][a] \in Request /\ done[p][a] \in Range(done[p])
    BY <2>1, RangeIndex
  <2> QED
    BY <1>1, <2>2 DEF RequestInv, DoneInv
<1> QED
  BY <1>2, <1>3, <1>4, <1>5, <1>6, <1>7, <1>8

-----------------------------------------------------------------------------
(* Parts of the invariant that a step does not touch.                      *)

LEMMA ForthFrame ==
  ASSUME ForthInv, UNCHANGED <<up, sendq, toDev>>
  PROVE  ForthInv'
BY DEF ForthInv, InOrder, Before

LEMMA PastFrame ==
  ASSUME PastInv, UNCHANGED <<up, sendq, toDev, done>>
  PROVE  PastInv'
BY DEF PastInv, Past

LEMMA ExecutedFrame ==
  ASSUME ExecutedInOrder, UNCHANGED done
  PROVE  ExecutedInOrder'
BY DEF ExecutedInOrder

\* Replies that get lost, and answers that are forgotten, do no harm.
LEMMA BackLess ==
  ASSUME BackInv, fromDev' \in {fromDev, <<>>}, reply' \in {reply, <<>>},
         \A l \in Links : down'[l] \in {down[l], <<>>},
         \A l \in Links : Answered(l)' => Answered(l) /\ call'[l] = call[l]
  PROVE  BackInv'
<1>1. InOrder(fromDev') /\ Before(reply', fromDev')
  BY EmptyInOrder DEF BackInv
<1>2. ASSUME NEW l \in Links
      PROVE  InOrder(down'[l]) /\ Before(down'[l], reply') /\ Before(down'[l], fromDev')
  BY EmptyInOrder DEF BackInv
<1>3. ASSUME NEW l \in Links, Answered(l)',
             NEW m \in Range(down'[l]) \cup Range(reply') \cup Range(fromDev')
      PROVE  m.d # call'[l]
  <2>1. m \in Range(down[l]) \cup Range(reply) \cup Range(fromDev)
    BY <1>3, EmptyLemma
  <2> QED
    BY <1>3, <2>1 DEF BackInv
<1> QED
  BY <1>1, <1>2, <1>3 DEF BackInv, InOrder, Before

\* A step that only loses replies
LEMMA OrderFrame ==
  ASSUME OInv, UNCHANGED <<up, sendq, toDev, done>>,
         fromDev' \in {fromDev, <<>>}, reply' \in {reply, <<>>},
         \A l \in Links : down'[l] \in {down[l], <<>>},
         \A l \in Links : Answered(l)' => Answered(l) /\ call'[l] = call[l]
  PROVE  OInv'
BY ForthFrame, PastFrame, ExecutedFrame, BackLess DEF OInv

LEMMA AnsweredFrame ==
  ASSUME UNCHANGED <<waiting, call>>, NEW l \in Links
  PROVE  Answered(l)' => Answered(l) /\ call'[l] = call[l]
BY DEF Answered

-----------------------------------------------------------------------------
(* The steps of a Link.                                                    *)

\* The end of a call
LEMMA DoneAnswered ==
  ASSUME IInv, NEW l \in Links, Done(l)
  PROVE  \A k \in Links : Answered(k)' => Answered(k) /\ call'[k] = call[k]
<1>1. \A k \in Links \ {l} : waiting'[k] = waiting[k] /\ call'[k] = call[k]
  BY DEF Done, IInv, TypeOK, LinkTypeOK
<1>2. DOMAIN waiting'[l] = {}
  <2>1. DOMAIN waiting[l] \subseteq {call[l].n}
    BY DEF IInv, OwnAnswer
  <2>2. DOMAIN waiting'[l] = DOMAIN waiting[l] \ {call[l].n}
    <3>1. waiting'[l] = Without(waiting[l], call[l].n)
      BY DEF Done, IInv, TypeOK, LinkTypeOK
    <3> QED
      BY <3>1 DEF Without, Restrict
  <2> QED
    BY <2>1, <2>2
<1> QED
  BY <1>1, <1>2 DEF Answered

LEMMA EndOrder ==
  ASSUME IInv, OInv, NEW l \in Links, Return(l) \/ Abort(l) \/ Leave(l),
         UNCHANGED <<muxVars, devVars>>
  PROVE  OInv'
<1>1. Done(l)
  BY DEF Return, Abort, Leave
<1>2. /\ UNCHANGED <<up, sendq, toDev, done, fromDev, reply>>
      /\ \A k \in Links : down'[k] \in {down[k], <<>>}
  BY DEF Return, Abort, Leave, wireVars, unixVars, tcpVars, muxVars, devVars, IInv, TypeOK, WireTypeOK
<1> QED
  BY <1>1, <1>2, DoneAnswered, OrderFrame

LEMMA ConnectOrder ==
  ASSUME IInv, OInv, NEW l \in Links, Connect(l), UNCHANGED <<muxVars, devVars>>
  PROVE  OInv'
<1>1. UNCHANGED <<up, sendq, toDev, done, fromDev, reply, down, waiting, call>>
  BY DEF Connect, tcpVars, linkVars, muxVars, devVars
<1> QED
  BY <1>1, AnsweredFrame, OrderFrame

\* A new request has a number above all of its Link.
LEMMA SendOrder ==
  ASSUME IInv, OInv, NEW l \in Links, NEW op \in Ops, Send(l, op),
         UNCHANGED <<muxVars, devVars>>
  PROVE  OInv'
<1>0. TypeOK /\ CallInv
  BY DEF IInv
<1> PICK n \in Nat \ {0} : n = seq[l] + 1
  BY <1>0 DEF TypeOK, LinkTypeOK
<1> DEFINE req == [from |-> l, n |-> n, op |-> op]
           msg == [i |-> n, d |-> req]
<1>1. UNCHANGED <<down, toDev, fromDev, sendq, reply, done>>
  BY DEF Send, tcpVars, muxVars, devVars
<1>2. /\ waiting' = [waiting EXCEPT ![l] = With(@, n, Event)]
      /\ call' = [call EXCEPT ![l] = req]
      /\ up' = [up EXCEPT ![l] = Append(@, msg)]
      /\ call[l] = NoCall
  BY <1>0 DEF Send, TypeOK, LinkTypeOK
<1>3. msg \in ReqMsg /\ seq[l] \in Nat /\ l \in Peers
  BY <1>0, WireAssumption DEF Request, ReqMsg, Peers, TypeOK, LinkTypeOK
<1>4. \A d \in Request : Honest(d) /\ d.from = l => d.n < n
  BY <1>3 DEF Honest, Request
<1>5. Later(up[l], msg) /\ Later(sendq, msg) /\ Later(toDev, msg)
  BY <1>4, Elements DEF Later
<1>6. /\ up'[l] = Append(up[l], msg)
      /\ \A k \in Links \ {l} : up'[k] = up[k]
  BY <1>0, <1>2, Queues
<1>7. ForthInv'
  <2>1. InOrder(up[l]) /\ Before(sendq, up[l]) /\ Before(toDev, up[l])
    BY DEF OInv, ForthInv
  <2>2. InOrder(up'[l]) /\ Before(sendq, up'[l]) /\ Before(toDev, up'[l])
    BY <1>0, <1>3, <1>5, <1>6, <2>1, Queues, InOrderAppend, BeforeAppendRight
  <2>3. \A k \in Links : /\ InOrder(up'[k])
                         /\ Before(sendq, up'[k])
                         /\ Before(toDev, up'[k])
    BY <1>6, <2>2 DEF OInv, ForthInv
  <2> QED
    BY <1>1, <2>3 DEF OInv, ForthInv
<1>8. PastInv'
  <2>1. \A r \in Range(done[l]) : r \in Request /\ Honest(r) /\ r.from = l
    BY <1>0, <1>3, Typed DEF IInv, RequestInv, DoneInv
  <2>2. \A r \in Range(done[l]) : r.n < n
    BY <1>4, <2>1
  <2>3. Range(up'[l]) = Range(up[l]) \cup {msg}
    BY <1>0, <1>3, <1>6, Queues, AppendLemma
  <2>4. ASSUME NEW k \in Links, NEW m \in Range(up'[k])
        PROVE  \A r \in Range(done[m.d.from]) : r.n < m.d.n
    <3>1. CASE k = l /\ m = msg
      BY <2>2, <3>1
    <3>2. CASE m \in Range(up[k])
      BY <3>2 DEF OInv, PastInv, Past
    <3> QED
      BY <1>6, <2>3, <3>1, <3>2
  <2> QED
    BY <1>1, <2>4 DEF OInv, PastInv, Past
<1>9. \A k \in Links : Answered(k)' => Answered(k) /\ call'[k] = call[k]
  <2>1. \A k \in Links \ {l} : waiting'[k] = waiting[k] /\ call'[k] = call[k]
    BY <1>0, <1>2 DEF TypeOK, LinkTypeOK
  <2>2. DOMAIN waiting[l] = {} /\ waiting'[l] = With(waiting[l], n, Event)
    BY <1>0, <1>2 DEF CallInv, TypeOK, LinkTypeOK
  <2>3. ~Answered(l)'
    <3>1. DOMAIN waiting'[l] = {n} /\ waiting'[l][n] = Event
      BY <2>2 DEF With
    <3>2. \A x \in DOMAIN waiting'[l] : waiting'[l][x] = Event
      BY <3>1
    <3> QED
      BY <3>2 DEF Answered
  <2> QED
    BY <2>1, <2>3 DEF Answered
<1> QED
  BY <1>1, <1>7, <1>8, <1>9, ExecutedFrame, BackLess DEF OInv

\* What comes later than e is about another request.
LEMMA LaterDiffers ==
  ASSUME NEW T, NEW t \in Seq(T), NEW e, e.d \in Request,
         \A b \in 1 .. Len(t) : t[b].d.from = e.d.from => e.d.n < t[b].d.n
  PROVE  \A m \in Range(t) : m.d # e.d
<1>1. e.d.n \in Nat
  BY DEF Request
<1>2. \A m \in Range(t) : \E b \in 1 .. Len(t) : t[b] = m
  BY RangeIndex
<1> SUFFICES ASSUME NEW m \in Range(t), m.d = e.d PROVE FALSE
  OBVIOUS
<1>3. PICK b \in 1 .. Len(t) : t[b] = m
  BY <1>2
<1>4. e.d.n < e.d.n
  BY <1>3
<1> QED
  BY <1>1, <1>4

\* The answer that a Link takes leaves the way back.
LEMMA LinkReaderOrder ==
  ASSUME IInv, OInv, NEW l \in Links, LinkReader(l), UNCHANGED <<muxVars, devVars>>
  PROVE  OInv'
<1>0. TypeOK /\ OwnAnswer /\ BackInv
  BY DEF IInv, OInv
<1> DEFINE m == Head(down[l])
<1>1. CASE m.i \in DOMAIN waiting[l] /\ waiting[l][m.i] # Event
  BY <1>1, EndOrder DEF LinkReader
<1>2. CASE ~(m.i \in DOMAIN waiting[l] /\ waiting[l][m.i] # Event)
  <2>1. /\ down[l] # <<>>
        /\ down' = [down EXCEPT ![l] = Tail(@)]
        /\ waiting' = IF m.i \in DOMAIN waiting[l]
                      THEN [waiting EXCEPT ![l][m.i] = Answer(m)]
                      ELSE waiting
    BY <1>2 DEF LinkReader
  <2>2. UNCHANGED <<up, toDev, fromDev, call, sendq, reply, done>>
    BY <1>2 DEF LinkReader, tcpVars, muxVars, devVars
  <2>3. down[l] \in Seq(RepMsg) /\ reply \in Seq(Routed) /\ fromDev \in Seq(RepMsg)
    BY <1>0, Queues
  <2>4. /\ m = down[l][1] /\ 1 \in 1 .. Len(down[l])
        /\ Tail(down[l]) \in Seq(RepMsg)
        /\ Range(Tail(down[l])) \subseteq Range(down[l])
    BY <2>1, <2>3, TailLemma
  <2>5. /\ down'[l] = Tail(down[l])
        /\ \A k \in Links \ {l} : down'[k] = down[k] /\ waiting'[k] = waiting[k]
    BY <1>0, <2>1, Queues DEF TypeOK, LinkTypeOK
  <2>6. Genuine(m) /\ m.d.from = l /\ m.d \in Request
    BY <2>4, Elements
  <2>7. /\ InOrder(Tail(down[l])) /\ Before(Tail(down[l]), reply)
        /\ Before(Tail(down[l]), fromDev)
    <3>1. InOrder(down[l]) /\ Before(down[l], reply) /\ Before(down[l], fromDev)
      BY <1>0 DEF BackInv
    <3> QED
      BY <2>1, <2>3, <3>1, InOrderTail, BeforeTail
  <2>8. \A x \in Range(Tail(down[l])) \cup Range(reply) \cup Range(fromDev) : x.d # m.d
    <3>1. InOrder(down[l]) /\ Before(down[l], reply) /\ Before(down[l], fromDev)
      BY <1>0 DEF BackInv
    <3>2. \A x \in Range(Tail(down[l])) : x.d # m.d
      BY <2>1, <2>3, <2>4, <2>6, <3>1, InOrderTail, LaterDiffers
    <3>3. \A x \in Range(reply) : x.d # m.d
      BY <2>1, <2>3, <2>6, <3>1, BeforeTail, LaterDiffers
    <3>4. \A x \in Range(fromDev) : x.d # m.d
      BY <2>1, <2>3, <2>6, <3>1, BeforeTail, LaterDiffers
    <3> QED
      BY <3>2, <3>3, <3>4
  <2> HIDE DEF m
  <2>9. ASSUME NEW k \in Links, Answered(k)',
               NEW x \in Range(down'[k]) \cup Range(reply) \cup Range(fromDev)
        PROVE  x.d # call[k]
    <3>1. CASE k # l \/ m.i \notin DOMAIN waiting[l]
      <4>1. waiting'[k] = waiting[k]
        BY <2>1, <2>5, <3>1
      <4>2. Answered(k)
        BY <2>9, <4>1 DEF Answered
      <4>3. x \in Range(down[k]) \cup Range(reply) \cup Range(fromDev)
        BY <2>4, <2>5, <2>9
      <4> QED
        BY <1>0, <4>2, <4>3 DEF BackInv
    <3>2. CASE k = l /\ m.i \in DOMAIN waiting[l]
      <4>1. m.i = m.d.n
        BY <2>4, <2>3, RangeIndex DEF IInv, RequestInv, DownInv
      <4>2. m.d = call[l]
        BY <1>0, <2>6, <3>2, <4>1 DEF OwnAnswer, Genuine, Honest
      <4> QED
        BY <2>5, <2>8, <2>9, <3>2, <4>2
    <3> QED
      BY <3>1, <3>2
  <2>10. BackInv'
    <3>1. \A k \in Links : /\ InOrder(down'[k])
                           /\ Before(down'[k], reply)
                           /\ Before(down'[k], fromDev)
      BY <1>0, <2>5, <2>7 DEF BackInv
    <3> QED
      BY <1>0, <2>2, <2>9, <3>1 DEF BackInv
  <2> QED
    BY <2>2, <2>10, ForthFrame, PastFrame, ExecutedFrame DEF OInv
<1> QED
  BY <1>1, <1>2

LEMMA LinkActOrder == ASSUME IInv, OInv, LinkAct PROVE OInv'
<1> PICK l \in Links : LinkStep(l)
  BY DEF LinkAct
<1>1. UNCHANGED <<muxVars, devVars>>
  BY DEF LinkAct
<1>2. CASE LinkEOF(l) \/ Close(l)
  <2>1. Leave(l)
    BY <1>2 DEF LinkEOF, Close
  <2> QED
    BY <1>1, <2>1, EndOrder
<1> QED
  BY <1>1, <1>2, ConnectOrder, SendOrder, EndOrder, LinkReaderOrder DEF LinkStep

-----------------------------------------------------------------------------
(* The steps of the multiplexer.                                           *)

\* A step that moves nothing
LEMMA StillOrder ==
  ASSUME OInv, UNCHANGED <<up, sendq, toDev, done, fromDev, reply, down, waiting, call>>
  PROVE  OInv'
BY AnsweredFrame, OrderFrame

\* A message that is queued comes after all that its peer has under way.
LEMMA QueuedOrder ==
  ASSUME IInv, OInv, NEW e \in ReqMsg, sendq' = Append(sendq, e),
         Later(sendq, e), Later(toDev, e), Past(e),
         \A l \in Links : /\ up'[l] \in Seq(ReqMsg) /\ InOrder(up'[l])
                          /\ Range(up'[l]) \subseteq Range(up[l])
                          /\ Before(sendq, up'[l]) /\ Before(toDev, up'[l]),
         \A l \in Links : \A b \in 1 .. Len(up'[l]) :
           up'[l][b].d.from = e.d.from => e.d.n < up'[l][b].d.n,
         UNCHANGED <<toDev, done, fromDev, reply, down, waiting, call>>
  PROVE  OInv'
<1>1. sendq \in Seq(ReqMsg) /\ toDev \in Seq(ReqMsg)
  BY Queues DEF IInv
<1>2. InOrder(sendq') /\ Before(toDev, sendq')
  BY <1>1, InOrderAppend, BeforeAppendRight DEF OInv, ForthInv
<1>3. \A l \in Links : Before(sendq', up'[l])
  BY <1>1, BeforeAppendLeft
<1>4. ForthInv'
  BY <1>2, <1>3 DEF OInv, ForthInv
<1>5. Range(sendq') = Range(sendq) \cup {e}
  BY <1>1, AppendLemma
<1>6. PastInv'
  BY <1>5 DEF OInv, PastInv, Past
<1> QED
  BY <1>4, <1>6, ExecutedFrame, BackLess, AnsweredFrame DEF OInv

LEMMA StreamReadOrder ==
  ASSUME IInv, OInv, NEW l \in Links, StreamRead(l), UNCHANGED <<linkVars, devVars>>
  PROVE  OInv'
<1>0. TypeOK
  BY DEF IInv
<1> DEFINE h == Head(up[l])
           e == [i |-> next_mid', d |-> h.d]
<1>1. /\ up[l] # <<>> /\ up' = [up EXCEPT ![l] = Tail(@)]
      /\ sendq' = Append(sendq, e) /\ next_mid' = next_mid + 1
      /\ UNCHANGED <<toDev, done, fromDev, reply, down, waiting, call>>
  BY DEF StreamRead, submit, tcpVars, linkVars, devVars
<1>2. /\ up[l] \in Seq(ReqMsg) /\ sendq \in Seq(ReqMsg) /\ toDev \in Seq(ReqMsg)
      /\ \A k \in Links : up[k] \in Seq(ReqMsg)
  BY <1>0, Queues
<1>3. /\ h = up[l][1] /\ 1 \in 1 .. Len(up[l]) /\ h \in Range(up[l])
      /\ Tail(up[l]) \in Seq(ReqMsg) /\ Range(Tail(up[l])) \subseteq Range(up[l])
  BY <1>1, <1>2, TailLemma
<1>4. h.d \in Request /\ h.d.from = l
  BY <1>3, Elements
<1>5. e \in ReqMsg
  BY <1>0, <1>1, <1>4 DEF ReqMsg, TypeOK, MuxTypeOK
<1>6. /\ up'[l] = Tail(up[l])
      /\ \A k \in Links \ {l} : up'[k] = up[k]
  BY <1>0, <1>1, Queues
<1>7. /\ InOrder(up[l]) /\ Before(sendq, up[l]) /\ Before(toDev, up[l])
      /\ \A k \in Links : InOrder(up[k]) /\ Before(sendq, up[k]) /\ Before(toDev, up[k])
  BY DEF OInv, ForthInv
<1>8. Later(sendq, h) /\ Later(toDev, h)
  BY <1>1, <1>2, <1>7, BeforeTail
<1>9. Later(sendq, e) /\ Later(toDev, e)
  BY <1>8 DEF Later
<1>10. Past(e)
  BY <1>3 DEF OInv, PastInv, Past
<1>11. /\ InOrder(Tail(up[l])) /\ Before(sendq, Tail(up[l])) /\ Before(toDev, Tail(up[l]))
       /\ \A b \in 1 .. Len(Tail(up[l])) :
            Tail(up[l])[b].d.from = h.d.from => h.d.n < Tail(up[l])[b].d.n
  BY <1>1, <1>2, <1>7, InOrderTail, BeforeTail
<1>12. \A k \in Links : /\ up'[k] \in Seq(ReqMsg) /\ InOrder(up'[k])
                        /\ Range(up'[k]) \subseteq Range(up[k])
                        /\ Before(sendq, up'[k]) /\ Before(toDev, up'[k])
  BY <1>2, <1>3, <1>6, <1>7, <1>11
<1>13. \A k \in Links : \A b \in 1 .. Len(up'[k]) :
         up'[k][b].d.from = e.d.from => e.d.n < up'[k][b].d.n
  <2>1. \A k \in Links : \A b \in 1 .. Len(up[k]) : up[k][b].d.from = k
    BY Elements
  <2> SUFFICES ASSUME NEW k \in Links, NEW b \in 1 .. Len(up'[k]),
                      up'[k][b].d.from = e.d.from
               PROVE  e.d.n < up'[k][b].d.n
    OBVIOUS
  <2>2. CASE k = l
    BY <1>6, <1>11, <2>2
  <2>3. CASE k # l
    BY <1>4, <1>6, <2>1, <2>3
  <2> QED
    BY <2>2, <2>3
<1> HIDE DEF e
<1> QED
  BY <1>1, <1>5, <1>9, <1>10, <1>12, <1>13, QueuedOrder

\* The watchdog numbers its pings upwards.
LEMMA ChatPingOrder ==
  ASSUME IInv, OInv, ChatPing, UNCHANGED <<linkVars, devVars>>
  PROVE  OInv'
<1>0. TypeOK
  BY DEF IInv
<1> PICK n \in Nat \ {0} : n = chat.n + 1
  BY <1>0 DEF TypeOK, MuxTypeOK
<1> DEFINE d == [from |-> Chat, n |-> n, op |-> "ok"]
           e == [i |-> next_mid', d |-> d]
<1>1. /\ sendq' = Append(sendq, e) /\ next_mid' = next_mid + 1
      /\ UNCHANGED <<up, toDev, done, fromDev, reply, down, waiting, call>>
  BY DEF ChatPing, submit, wireVars, unixVars, tcpVars, linkVars, devVars
<1>2. e \in ReqMsg /\ Chat \in Peers /\ Chat \notin Links
  BY <1>0, <1>1, WireAssumption DEF ReqMsg, Request, Outcomes, Peers, TypeOK, MuxTypeOK
<1>3. \A r \in Request : Honest(r) /\ r.from = Chat => r.n < n
  BY <1>0 DEF Honest, Request, TypeOK, MuxTypeOK
<1>4. Later(sendq, e) /\ Later(toDev, e)
  BY <1>3, Elements DEF Later
<1>5. Past(e)
  <2>1. \A r \in Range(done[Chat]) : r \in Request /\ Honest(r) /\ r.from = Chat
    BY <1>0, <1>2, Typed DEF IInv, RequestInv, DoneInv
  <2> QED
    BY <1>3, <2>1 DEF Past
<1>6. \A l \in Links : /\ up'[l] \in Seq(ReqMsg) /\ InOrder(up'[l])
                       /\ Range(up'[l]) \subseteq Range(up[l])
                       /\ Before(sendq, up'[l]) /\ Before(toDev, up'[l])
  BY <1>0, <1>1, Queues DEF OInv, ForthInv
<1>7. \A l \in Links : \A b \in 1 .. Len(up'[l]) :
        up'[l][b].d.from = e.d.from => e.d.n < up'[l][b].d.n
  BY <1>1, <1>2, Elements
<1> HIDE DEF e
<1> QED
  BY <1>1, <1>2, <1>4, <1>5, <1>6, <1>7, QueuedOrder

LEMMA SendOutOrder ==
  ASSUME IInv, OInv, SendOut, UNCHANGED <<linkVars, devVars>>
  PROVE  OInv'
<1>1. /\ sendq # <<>> /\ toDev' = Append(toDev, Head(sendq)) /\ sendq' = Tail(sendq)
      /\ UNCHANGED <<up, done, fromDev, reply, down, waiting, call>>
  BY DEF SendOut, unixVars, linkVars, devVars
<1>2. sendq \in Seq(ReqMsg) /\ toDev \in Seq(ReqMsg) /\ \A l \in Links : up[l] \in Seq(ReqMsg)
  BY Queues DEF IInv
<1>3. /\ Head(sendq) \in ReqMsg /\ Head(sendq) \in Range(sendq)
      /\ Tail(sendq) \in Seq(ReqMsg) /\ Range(Tail(sendq)) \subseteq Range(sendq)
  BY <1>1, <1>2, TailLemma
<1>4. /\ InOrder(sendq) /\ InOrder(toDev) /\ Before(toDev, sendq)
      /\ \A l \in Links : InOrder(up[l]) /\ Before(sendq, up[l]) /\ Before(toDev, up[l])
  BY DEF OInv, ForthInv
<1>5. /\ Before(toDev, Tail(sendq)) /\ Later(toDev, Head(sendq))
      /\ InOrder(Tail(sendq))
      /\ \A b \in 1 .. Len(Tail(sendq)) :
           Tail(sendq)[b].d.from = Head(sendq).d.from => Head(sendq).d.n < Tail(sendq)[b].d.n
  BY <1>1, <1>2, <1>4, BeforeTail, InOrderTail
<1>6. \A l \in Links : /\ Before(Tail(sendq), up[l])
                       /\ \A b \in 1 .. Len(up[l]) :
                            up[l][b].d.from = Head(sendq).d.from => Head(sendq).d.n < up[l][b].d.n
  BY <1>1, <1>2, <1>4, BeforeTail
<1>7. InOrder(toDev') /\ Before(toDev', sendq')
  BY <1>1, <1>2, <1>3, <1>4, <1>5, InOrderAppend, BeforeAppendLeft
<1>8. \A l \in Links : Before(toDev', up[l])
  BY <1>1, <1>2, <1>3, <1>4, <1>6, BeforeAppendLeft
<1>9. ForthInv'
  BY <1>1, <1>4, <1>5, <1>6, <1>7, <1>8 DEF ForthInv
<1>10. Range(toDev') = Range(toDev) \cup {Head(sendq)}
  BY <1>1, <1>2, <1>3, AppendLemma
<1>11. PastInv'
  BY <1>1, <1>3, <1>10 DEF OInv, PastInv, Past
<1> QED
  BY <1>1, <1>9, <1>11, ExecutedFrame, BackLess, AnsweredFrame DEF OInv

\* The reply that is passed on is the oldest.
LEMMA MuxReadOrder ==
  ASSUME IInv, OInv, MuxRead, UNCHANGED <<linkVars, devVars>>
  PROVE  OInv'
<1>0. TypeOK
  BY DEF IInv
<1> DEFINE h == Head(fromDev)
<1>1. /\ fromDev # <<>> /\ fromDev' = Tail(fromDev) /\ reply = <<>>
      /\ UNCHANGED <<up, sendq, toDev, done, down, waiting, call>>
  BY DEF MuxRead, unixVars, linkVars, devVars
<1>2. reply' = <<>> \/ \E r : reply' = <<r>> /\ r.d = h.d
  BY DEF MuxRead
<1>3. fromDev \in Seq(RepMsg) /\ \A l \in Links : down[l] \in Seq(RepMsg)
  BY <1>0, Queues
<1>4. /\ h \in Range(fromDev) /\ Tail(fromDev) \in Seq(RepMsg)
      /\ Range(Tail(fromDev)) \subseteq Range(fromDev)
  BY <1>1, <1>3, TailLemma
<1>5. /\ InOrder(Tail(fromDev))
      /\ \A b \in 1 .. Len(Tail(fromDev)) :
           Tail(fromDev)[b].d.from = h.d.from => h.d.n < Tail(fromDev)[b].d.n
  BY <1>1, <1>3, InOrderTail DEF OInv, BackInv
<1>6. \A l \in Links : Before(down[l], Tail(fromDev)) /\ Later(down[l], h)
  BY <1>1, <1>3, BeforeTail DEF OInv, BackInv
<1> HIDE DEF h
<1>7. Before(reply', Tail(fromDev)) /\ \A l \in Links : Before(down[l], reply')
  <2>1. CASE reply' = <<>>
    BY <2>1, EmptyInOrder
  <2>2. CASE \E r : reply' = <<r>> /\ r.d = h.d
    <3> PICK r : reply' = <<r>> /\ r.d = h.d
      BY <2>2
    <3>1. Len(reply') = 1 /\ reply'[1] = r
      OBVIOUS
    <3> QED
      BY <1>5, <1>6, <3>1 DEF Before, Later
  <2> QED
    BY <1>2, <2>1, <2>2
<1>8. \A m \in Range(reply') : m.d = h.d
  BY <1>2 DEF Range
<1>9. BackInv'
  <2>1. ASSUME NEW l \in Links, Answered(l),
               NEW m \in Range(down[l]) \cup Range(reply') \cup Range(fromDev')
        PROVE  m.d # call[l]
    BY <1>1, <1>4, <1>8, <2>1 DEF OInv, BackInv
  <2>2. InOrder(fromDev') /\ Before(reply', fromDev')
    BY <1>1, <1>5, <1>7
  <2>3. \A l \in Links : /\ InOrder(down'[l])
                         /\ Before(down'[l], reply')
                         /\ Before(down'[l], fromDev')
    BY <1>1, <1>6, <1>7 DEF OInv, BackInv
  <2> QED
    BY <1>1, <2>1, <2>2, <2>3, AnsweredFrame DEF BackInv
<1> QED
  BY <1>1, <1>9, ForthFrame, PastFrame, ExecutedFrame DEF OInv

LEMMA DeliverStreamOrder ==
  ASSUME IInv, OInv, NEW l \in Links, DeliverStream(l), UNCHANGED <<linkVars, devVars>>
  PROVE  OInv'
<1>0. TypeOK
  BY DEF IInv
<1> DEFINE r == reply[1]
           e == [k |-> r.k, i |-> r.i, d |-> r.d]
<1>1. /\ reply # <<>> /\ r.to = l /\ reply' = <<>>
      /\ down' \in {down, [down EXCEPT ![l] = Append(@, e)]}
      /\ UNCHANGED <<up, sendq, toDev, done, fromDev, waiting, call>>
  BY DEF DeliverStream, tcpVars, linkVars, devVars
<1>2. CASE down' = down
  BY <1>1, <1>2, AnsweredFrame, OrderFrame
<1>3. CASE down' = [down EXCEPT ![l] = Append(@, e)]
  <2>1. /\ down[l] \in Seq(RepMsg) /\ reply \in Seq(Routed) /\ Len(reply) <= 1
        /\ fromDev \in Seq(RepMsg)
    BY <1>0, Queues
  <2>2. Len(reply) = 1 /\ r \in Routed /\ r \in Range(reply)
    <3>1. /\ Len(reply) \in Nat \ {0} /\ Head(reply) = reply[1]
          /\ Head(reply) \in Routed /\ Head(reply) \in Range(reply)
      BY <1>1, <2>1, TailLemma
    <3>2. Len(reply) = 1
      <4>1. Len(reply) <= 1
        BY <2>1
      <4> QED
        BY <3>1, <4>1
    <3>3. r \in Routed /\ r \in Range(reply)
      BY <3>1
    <3> QED
      BY <3>2, <3>3
  <2>3. e \in RepMsg
    BY <2>2 DEF RepMsg, Routed
  <2>4. /\ down'[l] = Append(down[l], e)
        /\ \A k \in Links \ {l} : down'[k] = down[k]
    BY <1>0, <1>3, Queues
  <2>5. /\ InOrder(down[l]) /\ Before(down[l], reply) /\ Before(down[l], fromDev)
        /\ Before(reply, fromDev)
    BY DEF OInv, BackInv
  <2>6. /\ Later(down[l], e)
        /\ \A b \in 1 .. Len(fromDev) : fromDev[b].d.from = e.d.from => e.d.n < fromDev[b].d.n
    BY <2>2, <2>5 DEF Before, Later
  <2> HIDE DEF e
  <2>7. InOrder(down'[l]) /\ Before(down'[l], fromDev)
    BY <2>1, <2>3, <2>4, <2>5, <2>6, InOrderAppend, BeforeAppendLeft
  <2>8. Range(down'[l]) = Range(down[l]) \cup {e}
    BY <2>1, <2>3, <2>4, AppendLemma
  <2>9. e.d = r.d
    BY DEF e
  <2>10. BackInv'
    <3>1. ASSUME NEW k \in Links, Answered(k),
                 NEW m \in Range(down'[k]) \cup Range(reply') \cup Range(fromDev)
          PROVE  m.d # call[k]
      <4>1. m \notin Range(reply')
        BY <1>1, EmptyLemma
      <4>2. CASE k = l /\ m = e
        BY <2>2, <2>9, <3>1, <4>2 DEF OInv, BackInv
      <4>3. CASE m \in Range(down[k]) \cup Range(fromDev)
        BY <3>1, <4>3 DEF OInv, BackInv
      <4> QED
        BY <2>4, <2>8, <4>1, <4>2, <4>3
    <3>2. InOrder(fromDev') /\ Before(reply', fromDev')
      BY <1>1, EmptyInOrder DEF OInv, BackInv
    <3>3. \A k \in Links : /\ InOrder(down'[k])
                           /\ Before(down'[k], reply')
                           /\ Before(down'[k], fromDev')
      BY <1>1, <2>4, <2>7, EmptyInOrder DEF OInv, BackInv
    <3> QED
      BY <1>1, <3>1, <3>2, <3>3, AnsweredFrame DEF BackInv
  <2> QED
    BY <1>1, <2>10, ForthFrame, PastFrame, ExecutedFrame DEF OInv
<1> QED
  BY <1>1, <1>2, <1>3

LEMMA ShutOrder ==
  ASSUME IInv, OInv, Shut, UNCHANGED <<linkVars, devVars>>
  PROVE  OInv'
<1>1. /\ up' = [l \in Links |-> <<>>] /\ sendq' = <<>> /\ fromDev' = <<>> /\ reply' = <<>>
      /\ UNCHANGED <<toDev, done, down, waiting, call>>
  BY DEF Shut, linkVars, devVars
<1>2. ForthInv'
  BY <1>1, EmptyInOrder DEF OInv, ForthInv
<1>3. PastInv'
  <2>1. Range(sendq') = {} /\ \A l \in Links : Range(up'[l]) = {}
    BY <1>1, EmptyLemma
  <2> QED
    BY <1>1, <2>1 DEF OInv, PastInv, Past
<1> QED
  BY <1>1, <1>2, <1>3, ExecutedFrame, BackLess, AnsweredFrame DEF OInv

LEMMA MuxActOrder == ASSUME IInv, OInv, MuxAct PROVE OInv'
<1>1. MuxStep /\ UNCHANGED <<linkVars, devVars>>
  BY DEF MuxAct
<1>2. ASSUME NEW l \in Links, HandleStream(l) \/ StreamRead(l) \/ StreamEOF(l) \/ DeliverStream(l)
      PROVE  OInv'
  <2>1. CASE HandleStream(l) \/ StreamEOF(l)
    <3>1. UNCHANGED <<up, sendq, toDev, done, fromDev, reply, down, waiting, call>>
      BY <1>1, <2>1 DEF HandleStream, StreamEOF, tcpVars, linkVars, devVars
    <3> QED
      BY <3>1, StillOrder
  <2> QED
    BY <1>1, <1>2, <2>1, StreamReadOrder, DeliverStreamOrder
<1>3. CASE DeliverChat \/ ChatReturn
  <2>1. /\ UNCHANGED <<up, sendq, toDev, done, fromDev, down, waiting, call>>
        /\ reply' \in {reply, <<>>}
    BY <1>1, <1>3 DEF DeliverChat, ChatReturn, wireVars, unixVars, tcpVars, linkVars, devVars
  <2> QED
    BY <2>1, AnsweredFrame, OrderFrame
<1>4. CASE ChatTimeout \/ MuxDown
  BY <1>1, <1>4, ShutOrder DEF ChatTimeout, MuxDown
<1> QED
  BY <1>1, <1>2, <1>3, <1>4, SendOutOrder, MuxReadOrder, ChatPingOrder DEF MuxStep

-----------------------------------------------------------------------------
(* The steps of the device.                                                *)

\* The device has processed m, and may have run and answered it.
Response(m) == [k |-> Kind(m.d.op), i |-> m.i, d |-> m.d]
Processed(m) ==
  /\ toDev # <<>>
  /\ m = Head(toDev)
  /\ toDev' = Tail(toDev)
  /\ \/ UNCHANGED <<done, fromDev>>
     \/ /\ done' = [done EXCEPT ![m.d.from] = Append(@, m.d)]
        /\ fromDev' \in {fromDev, Append(fromDev, Response(m))}
  /\ UNCHANGED <<up, sendq, reply, down, waiting, call, seq>>

LEMMA ProcessEffect ==
  ASSUME IInv, UNCHANGED <<linkVars, muxVars>>,
         ProcessReply \/ ProcessQuiet \/ ProcessRaise \/ ProcessUnknown
  PROVE  \E m \in ReqMsg : Processed(m)
<1> DEFINE m == Head(toDev)
<1>1. /\ nbuf > 0 /\ toDev' = Tail(toDev)
      /\ UNCHANGED <<up, sendq, reply, down, waiting, call, seq>>
  BY DEF ProcessReply, ProcessQuiet, ProcessRaise, ProcessUnknown, Take, unixVars,
         linkVars, muxVars
<1>2. toDev # <<>> /\ toDev \in Seq(ReqMsg)
  BY <1>1, EmptyLemma DEF IInv, TypeOK, DevTypeOK, WireTypeOK
<1>3. m \in ReqMsg
  BY <1>2, TailLemma
<1>4. \/ UNCHANGED <<done, fromDev>>
      \/ /\ done' = [done EXCEPT ![m.d.from] = Append(@, m.d)]
         /\ fromDev' \in {fromDev, Append(fromDev, Response(m))}
  <2>1. CASE ProcessReply
    BY <2>1 DEF ProcessReply, Ran, send, Response
  <2>2. CASE ProcessQuiet
    BY <2>2 DEF ProcessQuiet, Ran
  <2>3. CASE ProcessRaise
    BY <2>3 DEF ProcessRaise, Ran, Take, send, Response, Kind
  <2>4. CASE ProcessUnknown
    BY <2>4 DEF ProcessUnknown
  <2> QED
    BY <2>1, <2>2, <2>3, <2>4
<1>5. Processed(m)
  BY <1>1, <1>2, <1>4 DEF Processed
<1> QED
  BY <1>3, <1>5

\* What has not been processed is later than what is, and what has run, earlier.
LEMMA ProcessOrder ==
  ASSUME IInv, OInv, NEW m \in ReqMsg, Processed(m)
  PROVE  OInv'
<1>0. TypeOK
  BY DEF IInv
<1>1. /\ toDev # <<>> /\ m = Head(toDev) /\ toDev' = Tail(toDev)
      /\ UNCHANGED <<up, sendq, reply, down, waiting, call>>
      /\ \/ UNCHANGED <<done, fromDev>>
         \/ /\ done' = [done EXCEPT ![m.d.from] = Append(@, m.d)]
            /\ fromDev' \in {fromDev, Append(fromDev, Response(m))}
  BY DEF Processed
<1>2. /\ toDev \in Seq(ReqMsg) /\ sendq \in Seq(ReqMsg) /\ fromDev \in Seq(RepMsg)
      /\ reply \in Seq(Routed) /\ done \in [Peers -> Seq(Request)]
      /\ \A l \in Links : up[l] \in Seq(ReqMsg) /\ down[l] \in Seq(RepMsg)
  BY <1>0, Queues
<1>3. /\ m \in Range(toDev) /\ Range(Tail(toDev)) \subseteq Range(toDev)
      /\ Tail(toDev) \in Seq(ReqMsg)
  BY <1>1, <1>2, TailLemma
<1>4. /\ m.d \in Request /\ m.d.from \in Peers /\ m.d.n \in Nat /\ Past(m)
      /\ Response(m) \in RepMsg
  BY <1>3, KindLemma DEF ReqMsg, RepMsg, Request, OInv, PastInv, Response
<1>5. /\ InOrder(toDev) /\ Before(toDev, sendq) /\ InOrder(sendq)
      /\ \A l \in Links : InOrder(up[l]) /\ Before(sendq, up[l]) /\ Before(toDev, up[l])
  BY DEF OInv, ForthInv
<1>6. /\ InOrder(Tail(toDev)) /\ Before(Tail(toDev), sendq)
      /\ \A b \in 1 .. Len(Tail(toDev)) :
           Tail(toDev)[b].d.from = m.d.from => m.d.n < Tail(toDev)[b].d.n
      /\ \A b \in 1 .. Len(sendq) : sendq[b].d.from = m.d.from => m.d.n < sendq[b].d.n
  BY <1>1, <1>2, <1>5, InOrderTail, BeforeTail
<1>7. \A l \in Links :
        /\ Before(Tail(toDev), up[l])
        /\ \A b \in 1 .. Len(up[l]) : up[l][b].d.from = m.d.from => m.d.n < up[l][b].d.n
  BY <1>1, <1>2, <1>5, BeforeTail
<1>8. ForthInv'
  BY <1>1, <1>5, <1>6, <1>7 DEF ForthInv
<1>9. CASE UNCHANGED <<done, fromDev>>
  <2>1. PastInv'
    BY <1>1, <1>3, <1>9 DEF OInv, PastInv, Past
  <2> QED
    BY <1>1, <1>8, <1>9, <2>1, ExecutedFrame, BackLess, AnsweredFrame DEF OInv
<1>10. CASE /\ done' = [done EXCEPT ![m.d.from] = Append(@, m.d)]
            /\ fromDev' \in {fromDev, Append(fromDev, Response(m))}
  <2>1. /\ done'[m.d.from] = Append(done[m.d.from], m.d)
        /\ \A p \in Peers \ {m.d.from} : done'[p] = done[p]
        /\ done[m.d.from] \in Seq(Request)
    BY <1>2, <1>4, <1>10
  <2>2. /\ Range(done'[m.d.from]) = Range(done[m.d.from]) \cup {m.d}
        /\ Len(done'[m.d.from]) = Len(done[m.d.from]) + 1
        /\ Len(done[m.d.from]) \in Nat
        /\ \A a \in 1 .. Len(done[m.d.from]) :
             /\ done'[m.d.from][a] = done[m.d.from][a]
             /\ done[m.d.from][a] \in Range(done[m.d.from])
        /\ done'[m.d.from][Len(done[m.d.from]) + 1] = m.d
    BY <1>4, <2>1, AppendLemma, RangeIndex
  <2>3. PastInv'
    <3>1. ASSUME NEW x, Past(x), x.d.from \in Peers, x.d.from = m.d.from => m.d.n < x.d.n
          PROVE  \A r \in Range(done'[x.d.from]) : r.n < x.d.n
      BY <2>1, <2>2, <3>1 DEF Past
    <3>2. \A x \in Range(Tail(toDev)) \cup Range(sendq) :
            x.d.from = m.d.from => m.d.n < x.d.n
      BY <1>2, <1>3, <1>6, AllLater
    <3>3. \A l \in Links : \A x \in Range(up[l]) : x.d.from = m.d.from => m.d.n < x.d.n
      BY <1>2, <1>7, AllLater
    <3>4. /\ \A x \in Range(Tail(toDev)) \cup Range(sendq) : Past(x)
          /\ \A l \in Links : \A x \in Range(up[l]) : Past(x)
      BY <1>3 DEF OInv, PastInv
    <3>5. \A x \in ReqMsg : x.d.from \in Peers
      BY DEF ReqMsg, Request
    <3>6. /\ \A x \in Range(Tail(toDev)) \cup Range(sendq) : x.d.from \in Peers
          /\ \A l \in Links : \A x \in Range(up[l]) : x.d.from \in Peers
      BY <1>0, <1>3, <3>5, Typed
    <3> QED
      BY <1>1, <3>1, <3>2, <3>3, <3>4, <3>6 DEF PastInv, Past
  <2>4. ExecutedInOrder'
    <3> SUFFICES ASSUME NEW p \in Peers, NEW a \in 1 .. Len(done'[p]),
                        NEW b \in 1 .. Len(done'[p]), a < b
                 PROVE  done'[p][a].n < done'[p][b].n
      BY DEF ExecutedInOrder
    <3>1. CASE p # m.d.from
      BY <2>1, <3>1 DEF OInv, ExecutedInOrder
    <3>2. CASE p = m.d.from /\ b \in 1 .. Len(done[p])
      <4>1. a \in 1 .. Len(done[p])
        BY <2>2, <3>2
      <4>2. done[p][a].n < done[p][b].n
        BY <3>2, <4>1 DEF OInv, ExecutedInOrder
      <4> QED
        BY <2>2, <3>2, <4>1, <4>2
    <3>3. CASE p = m.d.from /\ b = Len(done[p]) + 1
      <4>1. a \in 1 .. Len(done[p])
        BY <2>2, <3>3
      <4> QED
        BY <1>4, <2>2, <3>3, <4>1 DEF Past
    <3> QED
      BY <2>2, <3>1, <3>2, <3>3
  <2>5. BackInv'
    <3>1. CASE fromDev' = fromDev
      BY <1>1, <3>1, BackLess, AnsweredFrame DEF OInv
    <3>2. CASE fromDev' = Append(fromDev, Response(m))
      <4>1. \A r \in Request : r \in Range(done[r.from]) /\ r.from = m.d.from => r.n < m.d.n
        BY <1>4 DEF Past
      <4>2. Response(m).d = m.d
        BY DEF Response
      <4>3. /\ Later(fromDev, Response(m)) /\ Later(reply, Response(m))
            /\ \A l \in Links : Later(down[l], Response(m))
        BY <4>1, <4>2, Elements DEF Later, Genuine
      <4>4. /\ InOrder(fromDev) /\ Before(reply, fromDev)
            /\ \A l \in Links : Before(down[l], fromDev)
        BY DEF OInv, BackInv
      <4>5. /\ InOrder(fromDev') /\ Before(reply, fromDev')
            /\ \A l \in Links : Before(down[l], fromDev')
        BY <1>2, <1>4, <3>2, <4>3, <4>4, InOrderAppend, BeforeAppendRight
      <4>6. Range(fromDev') = Range(fromDev) \cup {Response(m)}
        BY <1>2, <1>4, <3>2, AppendLemma
      <4>7. ASSUME NEW l \in Links, Answered(l) PROVE m.d # call[l]
        <5>1. call[l] \in Range(done[l]) /\ call[l].from = l
          BY <4>7 DEF IInv, OwnAnswer, CallInv, Answered
        <5> QED
          BY <1>4, <5>1 DEF Past
      <4> QED
        BY <1>1, <4>2, <4>5, <4>6, <4>7, AnsweredFrame DEF OInv, BackInv
    <3> QED
      BY <1>10, <3>1, <3>2
  <2> QED
    BY <1>8, <2>3, <2>4, <2>5 DEF OInv
<1> QED
  BY <1>1, <1>9, <1>10

LEMMA DevActOrder == ASSUME IInv, OInv, DevAct PROVE OInv'
<1>1. DevStep /\ UNCHANGED <<linkVars, muxVars>>
  BY DEF DevAct
<1>2. CASE SchedRead \/ ReadStart \/ ReadEnd
  <2>1. UNCHANGED <<up, sendq, toDev, done, fromDev, reply, down, waiting, call>>
    BY <1>1, <1>2 DEF SchedRead, ReadStart, ReadEnd, wireVars, unixVars, tcpVars,
                      linkVars, muxVars
  <2> QED
    BY <2>1, StillOrder
<1>3. CASE ProcessReply \/ ProcessQuiet \/ ProcessRaise \/ ProcessUnknown
  BY <1>1, <1>3, ProcessEffect, ProcessOrder
<1> QED
  BY <1>1, <1>2, <1>3 DEF DevStep

-----------------------------------------------------------------------------
LEMMA InitOInv == Init => OInv
<1> SUFFICES ASSUME Init PROVE OInv
  OBVIOUS
<1> USE EmptyLemma, NothingLemma
        DEF Init, WireInit, LinkInit, MuxInit, DevInit
<1>1. ForthInv
  BY EmptyInOrder DEF ForthInv
<1>2. PastInv /\ ExecutedInOrder
  BY DEF PastInv, ExecutedInOrder
<1>3. BackInv
  BY EmptyInOrder DEF BackInv, Answered
<1> QED
  BY <1>1, <1>2, <1>3 DEF OInv

LEMMA NextOInv == IInv /\ OInv /\ [Next]_vars => OInv'
<1> SUFFICES ASSUME IInv, OInv, [Next]_vars PROVE OInv'
  OBVIOUS
<1>1. CASE NetAct
  <2>1. UNCHANGED <<up, sendq, toDev, done, fromDev, reply, down, waiting, call>>
    BY <1>1 DEF NetAct, ConnLost, unixVars, linkVars, muxVars, devVars
  <2> QED
    BY <2>1, StillOrder
<1>2. CASE UNCHANGED vars
  <2>1. UNCHANGED <<up, sendq, toDev, done, fromDev, reply, down, waiting, call>>
    BY <1>2 DEF vars, wireVars, unixVars, tcpVars, linkVars, muxVars, devVars
  <2> QED
    BY <2>1, StillOrder
<1> QED
  BY <1>1, <1>2, LinkActOrder, MuxActOrder, DevActOrder DEF Next

(* Requests stay in the order of their numbers all the way to the device,  *)
(* what has run is behind what has not, and replies come back in order:    *)
(* from Link.send to Link._cmd_r, whatever comes and goes on the way.      *)
THEOREM OrderInvariance == Spec => []OInv
<1>1. Init => OInv
  BY InitOInv
<1>2. IInv /\ OInv /\ [Next]_vars => OInv'
  BY NextOInv
<1> QED
  BY <1>1, <1>2, Invariance, PTL DEF Spec

(* UFuseClient._process runs the requests of each client in the order they *)
(* were made and none of them twice.                                       *)
THEOREM RunsInOrder == Spec => []ExecutedInOrder
<1>1. OInv => ExecutedInOrder
  BY DEF OInv
<1> QED
  BY <1>1, OrderInvariance, PTL

LEMMA SurvivesLemma == IInv /\ OInv => ReaderSurvives
<1> SUFFICES ASSUME IInv, OInv, NEW l \in Links, NEW a \in 1 .. Len(down[l])
             PROVE  /\ down[l][a].i \in DOMAIN waiting[l] => waiting[l][down[l][a].i] = Event
                    /\ \A b \in 1 .. Len(down[l]) : down[l][a].i = down[l][b].i => a = b
  BY DEF ReaderSurvives
<1>1. down[l] \in Seq(RepMsg)
  BY Queues DEF IInv
<1>2. \A b \in 1 .. Len(down[l]) :
        /\ down[l][b] \in Range(down[l])
        /\ Genuine(down[l][b]) /\ down[l][b].d.from = l /\ down[l][b].d \in Request
  BY <1>1, Elements, RangeIndex
<1>3. \A b \in 1 .. Len(down[l]) : down[l][b].i = down[l][b].d.n
  BY <1>2 DEF IInv, RequestInv, DownInv
<1>4. ASSUME down[l][a].i \in DOMAIN waiting[l], waiting[l][down[l][a].i] # Event
      PROVE  FALSE
  <2>1. Answered(l)
    BY <1>4 DEF Answered
  <2>2. down[l][a].i = call[l].n
    BY <1>4 DEF IInv, OwnAnswer
  <2>3. down[l][a].d = call[l]
    BY <1>2, <1>3, <2>2 DEF Genuine, Honest
  <2> QED
    BY <1>2, <2>1, <2>3 DEF OInv, BackInv
<1>5. ASSUME NEW b \in 1 .. Len(down[l]), down[l][a].i = down[l][b].i
      PROVE  a = b
  <2>1. down[l][a].d.n = down[l][b].d.n /\ down[l][a].d.n \in Nat
    BY <1>2, <1>3, <1>5 DEF Request
  <2>2. InOrder(down[l]) /\ down[l][a].d.from = down[l][b].d.from
    BY <1>2 DEF OInv, BackInv
  <2>3. ~(a < b) /\ ~(b < a)
    BY <2>1, <2>2 DEF InOrder
  <2> QED
    BY <2>3
<1> QED
  BY <1>4, <1>5

(* Link._cmd_r never meets an answer where it expects an Event, so that    *)
(* no reply ends the client's reader.                                      *)
THEOREM ReadersSurvive == Spec => []ReaderSurvives
BY SurvivesLemma, Invariance, OrderInvariance, PTL

-----------------------------------------------------------------------------
(* The table.                                                              *)

(* What a client asks for has one of the outcomes Ops, and a ping succeeds.*)
Asked(m) == m.d.op \in Ops \cup {"ok"}
AskedInv ==
  /\ \A m \in Range(sendq) \cup Range(toDev) : Asked(m)
  /\ \A l \in Links : \A m \in Range(up[l]) : Asked(m)

TInv == AskedInv /\ NoLeak

(* The outcomes that are reported with a reply.                            *)
EveryoneReplies == Ops \subseteq {"ok", "serr", "exc"}

\* Tail loses nothing but the head.
LEMMA TailRange ==
  ASSUME NEW S, NEW s \in Seq(S), s # <<>>
  PROVE  Range(Tail(s)) \subseteq Range(s) /\ Range(s) \subseteq Range(Tail(s)) \cup {Head(s)}
<1>1. /\ Len(s) \in Nat \ {0} /\ Head(s) = s[1] /\ DOMAIN s = 1 .. Len(s)
      /\ DOMAIN Tail(s) = 1 .. Len(s) - 1
      /\ \A a \in 1 .. Len(s) - 1 : Tail(s)[a] = s[a + 1]
  OBVIOUS
<1>2. ASSUME NEW x \in Range(s), x # Head(s) PROVE x \in Range(Tail(s))
  <2>1. PICK a \in 1 .. Len(s) : s[a] = x
    BY <1>1 DEF Range
  <2>2. a - 1 \in 1 .. Len(s) - 1
    BY <1>1, <1>2, <2>1
  <2>3. Tail(s)[a - 1] = x
    BY <1>1, <2>1, <2>2
  <2> QED
    BY <1>1, <2>2, <2>3 DEF Range
<1> QED
  BY <1>2, TailLemma

LEMMA AskedShrink ==
  ASSUME AskedInv, Range(sendq') \subseteq Range(sendq),
         Range(toDev') \subseteq Range(toDev) \cup Range(sendq),
         \A l \in Links : Range(up'[l]) \subseteq Range(up[l])
  PROVE  AskedInv'
BY DEF AskedInv, Asked

LEMMA TableFrame ==
  ASSUME TInv, UNCHANGED <<dsock, up, sendq, toDev, fromDev, mseq>>
  PROVE  TInv'
BY DEF TInv, AskedInv, Asked, NoLeak, OnTheWay

-----------------------------------------------------------------------------
(* The steps of a Link.                                                    *)

LEMMA SendTable ==
  ASSUME IInv, TInv, NEW l \in Links, NEW op \in Ops, Send(l, op),
         UNCHANGED <<muxVars, devVars>>
  PROVE  TInv'
<1>0. TypeOK
  BY DEF IInv
<1> PICK n \in Nat \ {0} : n = seq[l] + 1
  BY <1>0 DEF TypeOK, LinkTypeOK
<1> DEFINE req == [from |-> l, n |-> n, op |-> op]
           msg == [i |-> n, d |-> req]
<1>1. /\ UNCHANGED <<dsock, toDev, fromDev, sendq, mseq>>
      /\ up' = [up EXCEPT ![l] = Append(@, msg)]
      /\ msg \in ReqMsg
  BY <1>0, WireAssumption DEF Send, TypeOK, LinkTypeOK, tcpVars, muxVars,
                              Request, ReqMsg, Peers
<1>2. up \in [Links -> Seq(ReqMsg)]
  BY <1>0 DEF TypeOK, WireTypeOK
<1>3. /\ Range(up'[l]) = Range(up[l]) \cup {msg}
      /\ \A k \in Links \ {l} : up'[k] = up[k]
  BY <1>1, <1>2, AppendLemma
<1>4. Asked(msg)
  BY DEF Asked
<1>5. AskedInv'
  BY <1>1, <1>3, <1>4 DEF TInv, AskedInv, Asked
<1>6. NoLeak'
  BY <1>1 DEF TInv, NoLeak, OnTheWay
<1> QED
  BY <1>5, <1>6 DEF TInv

LEMMA LinkActTable == ASSUME IInv, TInv, LinkAct PROVE TInv'
<1> PICK l \in Links : LinkStep(l)
  BY DEF LinkAct
<1>1. UNCHANGED <<muxVars, devVars>>
  BY DEF LinkAct
<1>2. CASE Connect(l) \/ Return(l) \/ Abort(l) \/ LinkReader(l) \/ LinkEOF(l) \/ Close(l)
  <2>1. UNCHANGED <<dsock, up, sendq, toDev, fromDev, mseq>>
    BY <1>1, <1>2 DEF Connect, Return, Abort, LinkReader, LinkEOF, Close, Leave,
                      wireVars, unixVars, tcpVars, muxVars
  <2> QED
    BY <2>1, TableFrame
<1> QED
  BY <1>1, <1>2, SendTable DEF LinkStep

-----------------------------------------------------------------------------
(* The steps of the multiplexer.                                           *)

\* submit notes and queues the same id.
LEMMA SubmitTable ==
  ASSUME IInv, TInv, NEW p, NEW i, NEW d \in Request, submit(p, i, d),
         d.op \in Ops \cup {"ok"}, UNCHANGED <<dsock, toDev, fromDev>>,
         \A l \in Links : Range(up'[l]) \subseteq Range(up[l])
  PROVE  TInv'
<1>0. TypeOK
  BY DEF IInv
<1> PICK mid \in Nat \ {0} : mid = next_mid + 1
  BY <1>0 DEF TypeOK, MuxTypeOK
<1> DEFINE e == [i |-> mid, d |-> d]
<1>1. /\ mseq' = With(mseq, mid, <<sidOf[p], i>>)
      /\ sendq' = Append(sendq, e)
  BY DEF submit
<1>2. e \in ReqMsg /\ sendq \in Seq(ReqMsg)
  BY <1>0 DEF TypeOK, MuxTypeOK, ReqMsg
<1>3. Range(sendq') = Range(sendq) \cup {e}
  BY <1>1, <1>2, AppendLemma
<1>4. Asked(e)
  BY DEF Asked
<1>5. AskedInv'
  BY <1>3, <1>4 DEF TInv, AskedInv, Asked
<1>6. DOMAIN mseq' = DOMAIN mseq \cup {mid}
  BY <1>1, WithLemma
<1>7. e.i = mid
  OBVIOUS
<1> HIDE DEF e
<1>8. OnTheWay' = OnTheWay \cup {e}
  BY <1>3 DEF OnTheWay
<1>9. NoLeak'
  BY <1>6, <1>7, <1>8 DEF TInv, NoLeak
<1> QED
  BY <1>5, <1>9 DEF TInv

LEMMA StreamReadTable ==
  ASSUME IInv, TInv, NEW l \in Links, StreamRead(l), UNCHANGED <<linkVars, devVars>>
  PROVE  TInv'
<1>1. /\ up[l] # <<>> /\ up' = [up EXCEPT ![l] = Tail(@)]
      /\ submit(l, Head(up[l]).i, Head(up[l]).d)
      /\ UNCHANGED <<dsock, toDev, fromDev>>
  BY DEF StreamRead, tcpVars
<1>2. up \in [Links -> Seq(ReqMsg)]
  BY DEF IInv, TypeOK, WireTypeOK
<1>3. /\ Head(up[l]) \in ReqMsg /\ Head(up[l]) \in Range(up[l])
      /\ Range(Tail(up[l])) \subseteq Range(up[l])
  BY <1>1, <1>2, TailLemma
<1>4. \A k \in Links : Range(up'[k]) \subseteq Range(up[k])
  BY <1>1, <1>2, <1>3
<1>5. Head(up[l]).d \in Request /\ Head(up[l]).d.op \in Ops \cup {"ok"}
  BY <1>3 DEF ReqMsg, TInv, AskedInv, Asked
<1> QED
  BY <1>1, <1>4, <1>5, SubmitTable

LEMMA ChatPingTable ==
  ASSUME IInv, TInv, ChatPing, UNCHANGED <<linkVars, devVars>>
  PROVE  TInv'
<1> PICK n \in Nat \ {0} : n = chat.n + 1
  BY DEF IInv, TypeOK, MuxTypeOK
<1> DEFINE d == [from |-> Chat, n |-> n, op |-> "ok"]
<1>1. submit(Chat, n, d) /\ UNCHANGED <<dsock, up, toDev, fromDev>>
  BY DEF ChatPing, wireVars, unixVars, tcpVars
<1>2. d \in Request /\ d.op = "ok"
  BY DEF Request, Outcomes, Peers
<1> HIDE DEF d
<1> QED
  BY <1>1, <1>2, SubmitTable

LEMMA SendOutTable ==
  ASSUME IInv, TInv, SendOut, UNCHANGED <<linkVars, devVars>>
  PROVE  TInv'
<1>1. /\ sendq # <<>> /\ toDev' = Append(toDev, Head(sendq)) /\ sendq' = Tail(sendq)
      /\ UNCHANGED <<dsock, up, fromDev, mseq>>
  BY DEF SendOut, unixVars
<1>2. sendq \in Seq(ReqMsg) /\ toDev \in Seq(ReqMsg)
  BY DEF IInv, TypeOK, WireTypeOK, MuxTypeOK
<1>3. Head(sendq) \in ReqMsg /\ Head(sendq) \in Range(sendq)
  BY <1>1, <1>2, TailLemma
<1>4. Range(toDev') = Range(toDev) \cup {Head(sendq)}
  BY <1>1, <1>2, <1>3, AppendLemma
<1>5. Range(sendq') \subseteq Range(sendq) /\ Range(sendq) \subseteq Range(sendq') \cup {Head(sendq)}
  BY <1>1, <1>2, TailRange
<1>6. AskedInv'
  BY <1>1, <1>3, <1>4, <1>5, AskedShrink DEF TInv
<1>7. OnTheWay \subseteq OnTheWay'
  BY <1>1, <1>4, <1>5 DEF OnTheWay
<1>8. NoLeak'
  BY <1>1, <1>7 DEF TInv, NoLeak
<1> QED
  BY <1>6, <1>8 DEF TInv

\* The id that is answered leaves the table together with its reply.
LEMMA MuxReadTable ==
  ASSUME IInv, TInv, MuxRead, UNCHANGED <<linkVars, devVars>>
  PROVE  TInv'
<1> DEFINE m == Head(fromDev)
<1>1. /\ fromDev # <<>> /\ fromDev' = Tail(fromDev)
      /\ mseq' = Without(mseq, m.i)
      /\ UNCHANGED <<dsock, up, sendq, toDev>>
  BY DEF MuxRead, unixVars
<1>2. fromDev \in Seq(RepMsg)
  BY DEF IInv, TypeOK, WireTypeOK
<1>3. Range(fromDev) \subseteq Range(fromDev') \cup {m}
  BY <1>1, <1>2, TailRange
<1>4. DOMAIN mseq' = DOMAIN mseq \ {m.i}
  BY <1>1, WithoutLemma
<1>5. AskedInv'
  BY <1>1, AskedShrink DEF TInv
<1>6. NoLeak'
  BY <1>1, <1>3, <1>4 DEF TInv, NoLeak, OnTheWay
<1> QED
  BY <1>5, <1>6 DEF TInv

LEMMA ShutTable ==
  ASSUME TInv, Shut
  PROVE  TInv'
<1>1. /\ up' = [l \in Links |-> <<>>] /\ sendq' = <<>> /\ dsock' = "closed"
      /\ UNCHANGED toDev
  BY DEF Shut
<1>2. Range(sendq') = {} /\ \A l \in Links : Range(up'[l]) = {}
  BY <1>1, EmptyLemma
<1>3. AskedInv'
  BY <1>1, <1>2, AskedShrink DEF TInv
<1>4. NoLeak'
  BY <1>1 DEF NoLeak
<1> QED
  BY <1>3, <1>4 DEF TInv

LEMMA MuxActTable == ASSUME IInv, TInv, MuxAct PROVE TInv'
<1>1. MuxStep /\ UNCHANGED <<linkVars, devVars>>
  BY DEF MuxAct
<1>2. CASE \/ \E l \in Links : HandleStream(l) \/ StreamEOF(l) \/ DeliverStream(l)
           \/ DeliverChat \/ ChatReturn
  <2>1. UNCHANGED <<dsock, up, sendq, toDev, fromDev, mseq>>
    BY <1>2 DEF HandleStream, StreamEOF, DeliverStream, DeliverChat, ChatReturn,
                wireVars, unixVars, tcpVars
  <2> QED
    BY <2>1, TableFrame
<1>3. CASE ChatTimeout \/ MuxDown
  BY <1>3, ShutTable DEF ChatTimeout, MuxDown
<1> QED
  BY <1>1, <1>2, <1>3, StreamReadTable, SendOutTable, MuxReadTable, ChatPingTable
     DEF MuxStep

-----------------------------------------------------------------------------
(* The steps of the device: with EveryoneReplies, what leaves toDev is     *)
(* answered under its own id.                                              *)

LEMMA ProcessTable ==
  ASSUME EveryoneReplies, IInv, TInv,
         ProcessReply \/ ProcessQuiet \/ ProcessRaise \/ ProcessUnknown,
         UNCHANGED <<linkVars, muxVars>>
  PROVE  TInv'
<1> DEFINE m == Head(toDev)
           rep == [k |-> Kind(m.d.op), i |-> m.i, d |-> m.d]
<1>1. /\ nbuf > 0 /\ toDev' = Tail(toDev)
      /\ UNCHANGED <<dsock, up, sendq, mseq>>
  BY DEF ProcessReply, ProcessQuiet, ProcessRaise, ProcessUnknown, Take, unixVars, muxVars
<1>2. toDev # <<>> /\ toDev \in Seq(ReqMsg) /\ fromDev \in Seq(RepMsg)
  BY <1>1, EmptyLemma DEF IInv, TypeOK, DevTypeOK, WireTypeOK
<1>3. /\ m \in ReqMsg /\ m \in Range(toDev)
      /\ Range(toDev') \subseteq Range(toDev)
      /\ Range(toDev) \subseteq Range(toDev') \cup {m}
  BY <1>1, <1>2, TailLemma, TailRange
<1>4. m.d.op \in {"ok", "serr", "exc"}
  BY <1>3 DEF TInv, AskedInv, Asked, EveryoneReplies
<1>5. dsock = "open" => fromDev' = Append(fromDev, rep)
  BY <1>4 DEF ProcessReply, ProcessQuiet, ProcessRaise, ProcessUnknown, Take, send, Kind
<1>6. rep \in RepMsg
  BY <1>3, KindLemma DEF ReqMsg, RepMsg
<1>7. rep.i = m.i
  OBVIOUS
<1> HIDE DEF m, rep
<1>8. AskedInv'
  BY <1>1, <1>3, AskedShrink DEF TInv
<1>9. NoLeak'
  <2>1. CASE dsock # "open"
    BY <1>1, <2>1 DEF NoLeak
  <2>2. CASE dsock = "open"
    <3>1. Range(fromDev') = Range(fromDev) \cup {rep}
      <4>1. Range(Append(fromDev, rep)) = Range(fromDev) \cup {rep}
        BY <1>2, <1>6, AppendLemma
      <4> QED
        BY <1>5, <2>2, <4>1
    <3>2. DOMAIN mseq \subseteq {x.i : x \in OnTheWay}
      BY <2>2 DEF TInv, NoLeak
    <3>3. \A x \in OnTheWay : \E y \in OnTheWay' : y.i = x.i
      BY <1>1, <1>3, <1>7, <3>1 DEF OnTheWay
    <3> QED
      BY <1>1, <3>2, <3>3 DEF NoLeak
  <2> QED
    BY <2>1, <2>2
<1> QED
  BY <1>8, <1>9 DEF TInv

LEMMA NextTable ==
  ASSUME EveryoneReplies
  PROVE  IInv /\ TInv /\ [Next]_vars => TInv'
<1> SUFFICES ASSUME IInv, TInv, [Next]_vars PROVE TInv'
  OBVIOUS
<1>1. CASE DevAct
  <2>1. CASE SchedRead \/ ReadStart \/ ReadEnd
    <3>1. UNCHANGED <<dsock, up, sendq, toDev, fromDev, mseq>>
      BY <1>1, <2>1 DEF DevAct, SchedRead, ReadStart, ReadEnd, wireVars, unixVars,
                        tcpVars, muxVars
    <3> QED
      BY <3>1, TableFrame
  <2> QED
    BY <1>1, <2>1, ProcessTable DEF DevAct, DevStep
<1>2. CASE NetAct
  <2>1. /\ dsock' = "closed" /\ UNCHANGED <<up, sendq, toDev>>
    BY <1>2 DEF NetAct, ConnLost, unixVars, muxVars
  <2> QED
    BY <2>1, AskedShrink DEF TInv, NoLeak
<1>3. CASE UNCHANGED vars
  <2>1. UNCHANGED <<dsock, up, sendq, toDev, fromDev, mseq>>
    BY <1>3 DEF vars, wireVars, unixVars, tcpVars, muxVars
  <2> QED
    BY <2>1, TableFrame
<1> QED
  BY <1>1, <1>2, <1>3, LinkActTable, MuxActTable DEF Next

LEMMA InitTable == Init => TInv
<1> SUFFICES ASSUME Init PROVE TInv
  OBVIOUS
<1> USE EmptyLemma, NothingLemma
        DEF Init, WireInit, LinkInit, MuxInit, DevInit
<1>1. AskedInv
  BY DEF AskedInv
<1>2. NoLeak
  BY DEF NoLeak
<1> QED
  BY <1>1, <1>2 DEF TInv

(* While the connection stands, Multiplexer.mseq holds only entries whose  *)
(* request or reply is still on its way - provided that every command of   *)
(* the device replies; with IsHandled or UnknownCommand it does leak.      *)
THEOREM TableDoesNotLeak == ASSUME EveryoneReplies PROVE Spec => []NoLeak
<1>1. Init => TInv
  BY InitTable
<1>2. IInv /\ TInv /\ [Next]_vars => TInv'
  BY NextTable
<1>3. TInv => NoLeak
  BY DEF TInv
<1> QED
  BY <1>1, <1>2, <1>3, Invariance, PTL DEF Spec

=============================================================================
