------------------------- MODULE RequestPath_proofs -------------------------
(***************************************************************************)
(* Proofs about RequestPath, for any set of Links, any outcomes of the     *)
(* commands, and any number of calls and pings.                            *)
(***************************************************************************)
EXTENDS RequestPathInv, TLAPS

-----------------------------------------------------------------------------
(* Queues: what Append and Tail do to the elements of a sequence.          *)

LEMMA RangeIndex ==
  ASSUME NEW S, NEW s \in Seq(S)
  PROVE  /\ \A a \in 1 .. Len(s) : s[a] \in S /\ s[a] \in Range(s)
         /\ \A e \in Range(s) : e \in S /\ \E a \in 1 .. Len(s) : s[a] = e
BY DEF Range

LEMMA AppendLemma ==
  ASSUME NEW S, NEW s \in Seq(S), NEW e \in S
  PROVE  /\ Append(s, e) \in Seq(S)
         /\ Len(Append(s, e)) = Len(s) + 1
         /\ \A a \in 1 .. Len(s) : Append(s, e)[a] = s[a]
         /\ Append(s, e)[Len(s) + 1] = e
         /\ Range(Append(s, e)) = Range(s) \cup {e}
<1>1. /\ Append(s, e) \in Seq(S)
      /\ Len(Append(s, e)) = Len(s) + 1
      /\ \A a \in 1 .. Len(s) : Append(s, e)[a] = s[a]
      /\ Append(s, e)[Len(s) + 1] = e
  OBVIOUS
<1>2. DOMAIN s = 1 .. Len(s) /\ DOMAIN Append(s, e) = 1 .. Len(s) + 1
  OBVIOUS
<1>3. Range(Append(s, e)) = Range(s) \cup {e}
  BY <1>1, <1>2 DEF Range
<1> QED
  BY <1>1, <1>3

LEMMA TailLemma ==
  ASSUME NEW S, NEW s \in Seq(S), s # <<>>
  PROVE  /\ Head(s) \in S
         /\ Head(s) \in Range(s)
         /\ Head(s) = s[1]
         /\ Len(s) \in Nat \ {0}
         /\ Tail(s) \in Seq(S)
         /\ Len(Tail(s)) = Len(s) - 1
         /\ \A a \in 1 .. Len(s) - 1 : Tail(s)[a] = s[a + 1]
         /\ Range(Tail(s)) \subseteq Range(s)
<1>1. Len(s) \in Nat \ {0} /\ DOMAIN s = 1 .. Len(s)
  OBVIOUS
<1>2. /\ Head(s) \in S
      /\ Head(s) = s[1]
      /\ Tail(s) \in Seq(S)
      /\ Len(Tail(s)) = Len(s) - 1
      /\ \A a \in 1 .. Len(s) - 1 : Tail(s)[a] = s[a + 1]
  OBVIOUS
<1>3. DOMAIN Tail(s) = 1 .. Len(s) - 1
  BY <1>2
<1>4. Head(s) \in Range(s) /\ Range(Tail(s)) \subseteq Range(s)
  BY <1>1, <1>2, <1>3 DEF Range
<1> QED
  BY <1>1, <1>2, <1>4

LEMMA EmptyLemma ==
  ASSUME NEW S
  PROVE  /\ <<>> \in Seq(S)
         /\ Len(<<>>) = 0
         /\ Range(<<>>) = {}
BY DEF Range

LEMMA SingleLemma ==
  ASSUME NEW S, NEW e \in S
  PROVE  /\ <<e>> \in Seq(S)
         /\ <<e>> # <<>>
         /\ Len(<<e>>) = 1
         /\ <<e>>[1] = e
         /\ Range(<<e>>) = {e}
BY DEF Range

(* Ids along a queue.                                                      *)
LEMMA RisingAppend ==
  ASSUME NEW S, NEW s \in Seq(S), NEW e \in S, Rising(s),
         \A a \in 1 .. Len(s) : s[a].i < e.i
  PROVE  Rising(Append(s, e))
<1> DEFINE t == Append(s, e)
<1>1. /\ Len(t) = Len(s) + 1 /\ Len(s) \in Nat
      /\ \A a \in 1 .. Len(s) : t[a] = s[a]
      /\ t[Len(s) + 1] = e
  OBVIOUS
<1> SUFFICES ASSUME NEW a \in 1 .. Len(t), NEW b \in 1 .. Len(t), a < b
             PROVE  t[a].i < t[b].i
  BY DEF Rising
<1>2. a \in 1 .. Len(s)
  BY <1>1
<1>3. CASE b = Len(s) + 1
  BY <1>1, <1>2, <1>3
<1>4. CASE b \in 1 .. Len(s)
  BY <1>1, <1>2, <1>4 DEF Rising
<1> QED
  BY <1>1, <1>3, <1>4

LEMMA RisingTail ==
  ASSUME NEW S, NEW s \in Seq(S), s # <<>>, Rising(s)
  PROVE  /\ Rising(Tail(s))
         /\ \A a \in 1 .. Len(Tail(s)) : Head(s).i < Tail(s)[a].i
<1>1. /\ Len(s) \in Nat \ {0} /\ Len(Tail(s)) = Len(s) - 1
      /\ \A a \in 1 .. Len(s) - 1 : Tail(s)[a] = s[a + 1]
      /\ Head(s) = s[1]
  BY TailLemma
<1>2. \A a \in 1 .. Len(Tail(s)) : Head(s).i < Tail(s)[a].i
  BY <1>1 DEF Rising
<1>3. Rising(Tail(s))
  BY <1>1 DEF Rising
<1> QED
  BY <1>2, <1>3

LEMMA UnderAppendRight ==
  ASSUME NEW S, NEW s \in Seq(S), NEW T, NEW t \in Seq(T), NEW e \in T,
         Under(s, t), \A a \in 1 .. Len(s) : s[a].i < e.i
  PROVE  Under(s, Append(t, e))
<1>1. /\ Len(Append(t, e)) = Len(t) + 1 /\ Len(t) \in Nat
      /\ \A b \in 1 .. Len(t) : Append(t, e)[b] = t[b]
      /\ Append(t, e)[Len(t) + 1] = e
  OBVIOUS
<1> SUFFICES ASSUME NEW a \in 1 .. Len(s), NEW b \in 1 .. Len(Append(t, e))
             PROVE  s[a].i < Append(t, e)[b].i
  BY DEF Under
<1>2. CASE b = Len(t) + 1
  BY <1>1, <1>2
<1>3. CASE b \in 1 .. Len(t)
  BY <1>1, <1>3 DEF Under
<1> QED
  BY <1>1, <1>2, <1>3

LEMMA UnderAppendLeft ==
  ASSUME NEW S, NEW s \in Seq(S), NEW T, NEW t \in Seq(T), NEW e \in S,
         Under(s, t), \A b \in 1 .. Len(t) : e.i < t[b].i
  PROVE  Under(Append(s, e), t)
<1>1. /\ Len(Append(s, e)) = Len(s) + 1 /\ Len(s) \in Nat
      /\ \A a \in 1 .. Len(s) : Append(s, e)[a] = s[a]
      /\ Append(s, e)[Len(s) + 1] = e
  OBVIOUS
<1> SUFFICES ASSUME NEW a \in 1 .. Len(Append(s, e)), NEW b \in 1 .. Len(t)
             PROVE  Append(s, e)[a].i < t[b].i
  BY DEF Under
<1>2. CASE a = Len(s) + 1
  BY <1>1, <1>2
<1>3. CASE a \in 1 .. Len(s)
  BY <1>1, <1>3 DEF Under
<1> QED
  BY <1>1, <1>2, <1>3

LEMMA UnderTail ==
  ASSUME NEW S, NEW s \in Seq(S), s # <<>>, NEW T, NEW t \in Seq(T)
  PROVE  /\ Under(s, t) => /\ Under(Tail(s), t)
                           /\ \A b \in 1 .. Len(t) : Head(s).i < t[b].i
         /\ Under(t, s) => /\ Under(t, Tail(s))
                           /\ \A b \in 1 .. Len(t) : t[b].i < Head(s).i
<1>1. /\ Len(s) \in Nat \ {0} /\ Len(Tail(s)) = Len(s) - 1
      /\ \A a \in 1 .. Len(s) - 1 : Tail(s)[a] = s[a + 1]
      /\ Head(s) = s[1]
  BY TailLemma
<1> QED
  BY <1>1 DEF Under

LEMMA EmptyOrder ==
  ASSUME NEW s
  PROVE  Rising(<<>>) /\ Under(<<>>, s) /\ Under(s, <<>>)
BY EmptyLemma DEF Rising, Under

(* Tables.                                                                 *)
LEMMA WithLemma ==
  ASSUME NEW f, NEW k, NEW v
  PROVE  /\ DOMAIN With(f, k, v) = DOMAIN f \cup {k}
         /\ With(f, k, v)[k] = v
         /\ \A x \in DOMAIN f : x # k => With(f, k, v)[x] = f[x]
BY DEF With

LEMMA WithoutLemma ==
  ASSUME NEW f, NEW k
  PROVE  /\ DOMAIN Without(f, k) = DOMAIN f \ {k}
         /\ \A x \in DOMAIN f : x # k => Without(f, k)[x] = f[x]
BY DEF Without, Restrict

LEMMA NothingLemma == DOMAIN Nothing = {}
BY DEF Nothing, Restrict

LEMMA KindLemma == ASSUME NEW op PROVE Kind(op) \in {"r", "e"}
BY DEF Kind

LEMMA WithType ==
  ASSUME NEW D, NEW T, NEW f \in [D -> T], NEW k, NEW v \in T
  PROVE  With(f, k, v) \in [D \cup {k} -> T]
BY DEF With

LEMMA WithoutType ==
  ASSUME NEW D, NEW T, NEW f \in [D -> T], NEW k
  PROVE  Without(f, k) \in [D \ {k} -> T]
BY DEF Without, Restrict

-----------------------------------------------------------------------------
(* Types.  The type of `waiting` depends on CallInv, so the two go together.*)

LEMMA InitIInv == Init => IInv
<1> SUFFICES ASSUME Init PROVE IInv
  OBVIOUS
<1> USE WireAssumption, EmptyLemma, NothingLemma
        DEF Init, WireInit, LinkInit, MuxInit, DevInit
<1>1. TypeOK
  <2>1. WireTypeOK
    BY DEF WireTypeOK
  <2>2. Nothing \in [{} -> Slot] /\ Nothing \in [{} -> (1 .. next_stream) \X (Nat \ {0})]
    BY DEF Nothing, Restrict
  <2>3. LinkTypeOK
    BY <2>2 DEF LinkTypeOK
  <2>4. MuxTypeOK
    <3>1. next_stream \in {0, 1} /\ sidOf \in [Peers -> 0 .. next_stream]
      OBVIOUS
    <3>2. /\ DOMAIN streams = 1 .. next_stream
          /\ streams \in [DOMAIN streams -> Peers]
      BY DEF Peers
    <3>3. /\ DOMAIN mseq \subseteq 1 .. next_mid
          /\ mseq \in [DOMAIN mseq -> (1 .. next_stream) \X (Nat \ {0})]
      BY <2>2
    <3>4. /\ sendq \in Seq(ReqMsg) /\ reply \in Seq(Routed) /\ Len(reply) <= 1
          /\ chat \in [n : Nat, st : ChatStates]
      BY DEF ChatStates
    <3> QED
      BY <3>1, <3>2, <3>3, <3>4 DEF MuxTypeOK
  <2>5. DevTypeOK
    <3>1. nbuf \in 0 .. Len(toDev)
      BY DEF DevInit, WireInit
    <3>2. done \in [Peers -> Seq(Request)]
      BY DEF DevInit
    <3> QED
      BY <3>1, <3>2 DEF DevTypeOK, DevInit
  <2> QED
    BY <2>1, <2>3, <2>4, <2>5 DEF TypeOK
<1>2. CallInv /\ OwnAnswer
  BY DEF CallInv, OwnAnswer
<1>3. RequestInv
  BY DEF RequestInv, UpInv, SendqInv, ToDevInv, DoneInv,
                    FromDevInv, ReplyInv, DownInv
<1>4. StreamInv
  BY DEF StreamInv, Peers
<1>5. MidInv /\ Routable
  BY DEF MidInv, Routable, OnTheWay, Rising, Under
<1> QED
  BY <1>1, <1>2, <1>3, <1>4, <1>5 DEF IInv

-----------------------------------------------------------------------------
(* Parts of the invariant that a step does not touch.                      *)

LEMMA RequestFrame ==
  ASSUME RequestInv,
         UNCHANGED <<seq, call, chat, up, down, sendq, toDev, fromDev, reply, done>>
  PROVE  RequestInv'
BY DEF RequestInv, UpInv, SendqInv, ToDevInv, DoneInv, FromDevInv, ReplyInv,
       DownInv, Genuine, Honest

LEMMA MidFrame ==
  ASSUME MidInv, UNCHANGED <<sendq, toDev, fromDev, next_mid>>
  PROVE  MidInv'
BY DEF MidInv, Rising, Under, OnTheWay

LEMMA RouteFrame ==
  ASSUME Routable, UNCHANGED <<alive, sendq, toDev, fromDev, mseq, sidOf>>
  PROVE  Routable'
BY DEF Routable, OnTheWay

LEMMA CallFrame ==
  ASSUME CallInv, OwnAnswer, UNCHANGED <<linkVars, done>>
  PROVE  CallInv' /\ OwnAnswer'
BY DEF CallInv, OwnAnswer, linkVars

LEMMA StreamFrame ==
  ASSUME StreamInv, UNCHANGED <<streams, sidOf, msock>>
  PROVE  StreamInv'
BY DEF StreamInv

LEMMA LinkTypeFrame ==
  ASSUME LinkTypeOK, UNCHANGED linkVars
  PROVE  LinkTypeOK'
BY DEF LinkTypeOK, linkVars

LEMMA MuxTypeFrame ==
  ASSUME MuxTypeOK, UNCHANGED muxVars
  PROVE  MuxTypeOK'
BY DEF MuxTypeOK, muxVars

LEMMA DevTypeFrame ==
  ASSUME DevTypeOK, UNCHANGED <<devVars, toDev>>
  PROVE  DevTypeOK'
BY DEF DevTypeOK, devVars

LEMMA Typed ==
  ASSUME TypeOK
  PROVE  /\ \A l \in Links : \A m \in Range(up[l]) : m \in ReqMsg
         /\ \A l \in Links : \A m \in Range(down[l]) : m \in RepMsg
         /\ \A m \in Range(sendq) \cup Range(toDev) : m \in ReqMsg
         /\ \A m \in Range(fromDev) : m \in RepMsg
         /\ \A m \in Range(reply) : m \in Routed
         /\ \A p \in Peers : \A r \in Range(done[p]) : r \in Request
<1>1. /\ \A l \in Links : up[l] \in Seq(ReqMsg) /\ down[l] \in Seq(RepMsg)
      /\ toDev \in Seq(ReqMsg) /\ fromDev \in Seq(RepMsg)
  BY DEF TypeOK, WireTypeOK
<1>2. sendq \in Seq(ReqMsg) /\ reply \in Seq(Routed)
  BY DEF TypeOK, MuxTypeOK
<1>3. \A p \in Peers : done[p] \in Seq(Request)
  BY DEF TypeOK, DevTypeOK
<1> QED
  BY <1>1, <1>2, <1>3, RangeIndex

LEMMA Indexed ==
  ASSUME TypeOK
  PROVE  /\ Len(sendq) \in Nat /\ Len(toDev) \in Nat /\ Len(fromDev) \in Nat
         /\ \A a \in 1 .. Len(sendq) : sendq[a] \in Range(sendq)
         /\ \A a \in 1 .. Len(toDev) : toDev[a] \in Range(toDev)
         /\ \A a \in 1 .. Len(fromDev) : fromDev[a] \in Range(fromDev)
<1>1. toDev \in Seq(ReqMsg) /\ fromDev \in Seq(RepMsg)
  BY DEF TypeOK, WireTypeOK
<1>2. sendq \in Seq(ReqMsg)
  BY DEF TypeOK, MuxTypeOK
<1> QED
  BY <1>1, <1>2, RangeIndex

(* Messages that leave a queue leave the invariant in place, as long as    *)
(* requests stay honest.                                                   *)
LEMMA RequestShrink ==
  ASSUME TypeOK, RequestInv,
         \A d \in Request : Honest(d) => Honest(d)',
         \A l \in Links : Range(up'[l]) \subseteq Range(up[l]),
         \A l \in Links : Range(down'[l]) \subseteq Range(down[l]),
         Range(sendq') \subseteq Range(sendq),
         Range(toDev') \subseteq Range(toDev),
         Range(fromDev') \subseteq Range(fromDev),
         reply' \in {reply, <<>>},
         UNCHANGED done
  PROVE  RequestInv'
<1>1. UpInv' /\ SendqInv' /\ ToDevInv' /\ DoneInv'
  BY Typed DEF RequestInv, UpInv, SendqInv, ToDevInv, DoneInv, ReqMsg
<1>2. \A m \in RepMsg : Genuine(m) => Genuine(m)'
  BY DEF Genuine, RepMsg
<1>3. FromDevInv' /\ DownInv'
  BY <1>2, Typed DEF RequestInv, FromDevInv, DownInv
<1>4. ReplyInv'
  <2>1. CASE reply' = <<>>
    BY <2>1 DEF ReplyInv
  <2>2. CASE reply' = reply /\ reply # <<>>
    <3>1. reply[1] \in Routed
      BY <2>2 DEF TypeOK, MuxTypeOK
    <3>2. Genuine(reply[1]) => Genuine(reply[1])'
      BY <2>2, <3>1 DEF Genuine, Routed
    <3> QED
      BY <2>2, <3>2 DEF RequestInv, ReplyInv
  <2> QED
    BY <2>1, <2>2
<1> QED
  BY <1>1, <1>3, <1>4 DEF RequestInv

-----------------------------------------------------------------------------
(* The steps of a Link.                                                    *)

LEMMA ConnectStep ==
  ASSUME IInv, NEW l \in Links, Connect(l), UNCHANGED <<muxVars, devVars>>
  PROVE  IInv'
<1> USE DEF IInv, TypeOK
<1>1. UNCHANGED <<alive, msock, up, down, tcpVars, linkVars>>
  BY DEF Connect
<1>2. WireTypeOK'
  BY DEF Connect, WireTypeOK, tcpVars
<1> QED
  BY <1>1, <1>2, RequestFrame, MidFrame, RouteFrame, CallFrame, StreamFrame,
     LinkTypeFrame, MuxTypeFrame, DevTypeFrame
     DEF tcpVars, linkVars, muxVars, devVars

(* The end of a call, whichever way it ends.                               *)
LEMMA DoneLemma ==
  ASSUME IInv, NEW l \in Links, Done(l), UNCHANGED <<seq, chat, done>>
  PROVE  /\ LinkTypeOK' /\ CallInv' /\ OwnAnswer'
         /\ \A d \in Request : Honest(d) => Honest(d)'
<1> USE DEF IInv, TypeOK, Done
<1>1. /\ call' \in [Links -> Request \cup {NoCall}]
      /\ call'[l] = NoCall
      /\ \A k \in Links \ {l} : call'[k] = call[k]
  BY DEF LinkTypeOK
<1>2. /\ DOMAIN waiting' = Links
      /\ waiting'[l] = Without(waiting[l], call[l].n)
      /\ \A k \in Links \ {l} : waiting'[k] = waiting[k]
  BY DEF LinkTypeOK
<1>3. DOMAIN waiting'[l] = {}
  <2>1. DOMAIN waiting[l] \subseteq {call[l].n}
    BY DEF OwnAnswer
  <2>2. DOMAIN waiting'[l] = DOMAIN waiting[l] \ {call[l].n}
    BY <1>2, WithoutLemma
  <2> QED
    BY <2>1, <2>2
<1>4. waiting'[l] \in [{} -> Slot]
  BY <1>2, <1>3 DEF Without, Restrict
<1>5. LinkTypeOK'
  BY <1>1, <1>2, <1>4 DEF LinkTypeOK
<1>6. CallInv' /\ OwnAnswer'
  BY <1>1, <1>2, <1>3 DEF CallInv, OwnAnswer
<1>7. \A d \in Request : Honest(d) => Honest(d)'
  BY <1>1 DEF Honest, Request, NoCall
<1> QED
  BY <1>5, <1>6, <1>7

LEMMA ReturnAbortStep ==
  ASSUME IInv, NEW l \in Links, Return(l) \/ Abort(l),
         UNCHANGED <<muxVars, devVars>>
  PROVE  IInv'
<1> USE DEF IInv, TypeOK
<1>1. Done(l) /\ UNCHANGED <<wireVars, seq>>
  BY DEF Return, Abort
<1>2. UNCHANGED <<alive, lsock, msock, up, down, dsock, toDev, fromDev, seq,
                  streams, sidOf, next_mid, mseq, sendq, reply, chat, done>>
  BY <1>1 DEF wireVars, unixVars, tcpVars, muxVars, devVars
<1>3. WireTypeOK'
  BY <1>2 DEF WireTypeOK
<1>4. RequestInv'
  BY <1>1, <1>2, DoneLemma, RequestShrink
<1> QED
  BY <1>1, <1>2, <1>3, <1>4, DoneLemma, MidFrame, RouteFrame, StreamFrame,
     MuxTypeFrame, DevTypeFrame

LEMMA LeaveStep ==
  ASSUME IInv, NEW l \in Links, Leave(l), UNCHANGED <<muxVars, devVars>>
  PROVE  IInv'
<1> USE DEF IInv, TypeOK
<1>1. Done(l)
  BY DEF Leave
<1>2. UNCHANGED <<alive, msock, up, dsock, toDev, fromDev, seq,
                  streams, sidOf, next_mid, mseq, sendq, reply, chat, done>>
  BY DEF Leave, tcpVars, muxVars, devVars
<1>3. /\ WireTypeOK'
      /\ \A k \in Links : down'[k] \in {<<>>, down[k]}
  BY <1>2 DEF Leave, WireTypeOK
<1>4. \A k \in Links : Range(down'[k]) \subseteq Range(down[k])
  BY <1>3, EmptyLemma
<1>5. RequestInv'
  BY <1>1, <1>2, <1>4, DoneLemma, RequestShrink
<1> QED
  BY <1>1, <1>2, <1>3, <1>5, DoneLemma, MidFrame, RouteFrame, StreamFrame,
     MuxTypeFrame, DevTypeFrame

LEMMA SendStep ==
  ASSUME IInv, NEW l \in Links, NEW op \in Ops, Send(l, op),
         UNCHANGED <<muxVars, devVars>>
  PROVE  IInv'
<1> USE DEF IInv, TypeOK
<1> PICK n \in Nat \ {0} : n = seq[l] + 1
  BY DEF LinkTypeOK
<1> DEFINE req == [from |-> l, n |-> n, op |-> op]
           msg == [i |-> n, d |-> req]
<1>1. UNCHANGED <<alive, lsock, msock, down, dsock, toDev, fromDev, streams,
                  sidOf, next_mid, mseq, sendq, reply, chat, done>>
  BY DEF Send, tcpVars, muxVars, devVars
<1>2. /\ seq' = [seq EXCEPT ![l] = n]
      /\ call' = [call EXCEPT ![l] = req]
      /\ waiting' = [waiting EXCEPT ![l] = With(@, n, Event)]
      /\ up' = [up EXCEPT ![l] = Append(@, msg)]
      /\ call[l] = NoCall
  BY DEF Send, LinkTypeOK
<1>3. req \in Request /\ msg \in ReqMsg
  BY WireAssumption DEF Request, ReqMsg, Peers, LinkTypeOK
<1>4. waiting'[l] \in [{n} -> Slot] /\ waiting'[l][n] = Event
  <2>1. DOMAIN waiting[l] = {}
    BY <1>2 DEF CallInv
  <2> QED
    BY <1>2, <2>1 DEF LinkTypeOK, With, Slot
<1>5. WireTypeOK'
  BY <1>1, <1>2, <1>3, AppendLemma DEF WireTypeOK
<1>6. LinkTypeOK'
  BY <1>2, <1>3, <1>4 DEF LinkTypeOK
<1>7. CallInv' /\ OwnAnswer'
  BY <1>1, <1>2, <1>3, <1>4 DEF CallInv, OwnAnswer, LinkTypeOK, Request, NoCall
<1>8. \A d \in Request : Honest(d) => Honest(d)'
  BY <1>1, <1>2, <1>3 DEF Honest, LinkTypeOK, Request
<1>9. RequestInv'
  <2>1. Honest(req)'
    BY <1>1, <1>2, <1>3, WireAssumption DEF Honest, LinkTypeOK, Request
  <2>2. \A m \in RepMsg : Genuine(m) => Genuine(m)'
    BY <1>1, <1>8 DEF Genuine, RepMsg
  <2>3. UpInv'
    <3> SUFFICES ASSUME NEW k \in Links, NEW m \in Range(up'[k])
                 PROVE  Honest(m.d)' /\ m.d.from = k /\ m.i = m.d.n
      BY DEF UpInv
    <3>1. CASE k = l /\ m = msg
      BY <3>1, <2>1
    <3>2. CASE m \in Range(up[k])
      BY <3>2, <1>8, Typed DEF RequestInv, UpInv, ReqMsg
    <3>3. k = l => Range(up'[k]) = Range(up[k]) \cup {msg}
      BY <1>2, <1>3, AppendLemma DEF WireTypeOK
    <3>4. k # l => up'[k] = up[k]
      BY <1>2 DEF WireTypeOK
    <3> QED
      BY <3>1, <3>2, <3>3, <3>4
  <2>4. SendqInv' /\ ToDevInv' /\ DoneInv'
    BY <1>1, <1>8, Typed DEF RequestInv, SendqInv, ToDevInv, DoneInv, ReqMsg
  <2>5. FromDevInv' /\ DownInv'
    BY <1>1, <2>2, Typed DEF RequestInv, FromDevInv, DownInv
  <2>6. ReplyInv'
    <3>1. reply # <<>> => reply[1] \in Routed
      BY DEF MuxTypeOK
    <3>2. reply # <<>> /\ Genuine(reply[1]) => Genuine(reply[1])'
      BY <1>1, <1>8, <3>1 DEF Genuine, Routed
    <3> QED
      BY <1>1, <3>2 DEF RequestInv, ReplyInv
  <2> QED
    BY <2>3, <2>4, <2>5, <2>6 DEF RequestInv
<1> QED
  BY <1>1, <1>5, <1>6, <1>7, <1>9, MidFrame, RouteFrame, StreamFrame,
     MuxTypeFrame, DevTypeFrame

LEMMA LinkReaderStep ==
  ASSUME IInv, NEW l \in Links, LinkReader(l), UNCHANGED <<muxVars, devVars>>
  PROVE  IInv'
<1> USE DEF IInv, TypeOK
<1> DEFINE m == Head(down[l])
<1>1. CASE m.i \in DOMAIN waiting[l] /\ waiting[l][m.i] # Event
  BY <1>1, LeaveStep DEF LinkReader
<1>2. CASE ~(m.i \in DOMAIN waiting[l] /\ waiting[l][m.i] # Event)
  <2>1. /\ down[l] # <<>>
        /\ down' = [down EXCEPT ![l] = Tail(@)]
        /\ waiting' = IF m.i \in DOMAIN waiting[l]
                      THEN [waiting EXCEPT ![l][m.i] = Answer(m)]
                      ELSE waiting
    BY <1>2 DEF LinkReader
  <2>2. UNCHANGED <<alive, lsock, msock, up, dsock, toDev, fromDev, seq, call,
                  streams, sidOf, next_mid, mseq, sendq, reply, chat, done>>
    BY <1>2 DEF LinkReader, tcpVars, muxVars, devVars
  <2>3. /\ m \in RepMsg
        /\ m \in Range(down[l])
        /\ Tail(down[l]) \in Seq(RepMsg)
        /\ Range(Tail(down[l])) \subseteq Range(down[l])
    BY <2>1, TailLemma DEF WireTypeOK
  <2>4. /\ WireTypeOK'
        /\ \A k \in Links : Range(down'[k]) \subseteq Range(down[k])
    BY <2>1, <2>2, <2>3 DEF WireTypeOK
  <2>5. RequestInv'
    <3>1. \A d \in Request : Honest(d) => Honest(d)'
      BY <2>2 DEF Honest
    <3> QED
      BY <2>2, <2>4, <3>1, RequestShrink
  <2>6. LinkTypeOK' /\ CallInv' /\ OwnAnswer'
    <3>1. CASE m.i \notin DOMAIN waiting[l]
      BY <2>1, <2>2, <3>1, LinkTypeFrame, CallFrame DEF linkVars
    <3>2. CASE m.i \in DOMAIN waiting[l]
      <4>1. /\ Genuine(m)
            /\ m.d.from = l
            /\ m.i = m.d.n
        BY <2>3 DEF RequestInv, DownInv
      <4>2. /\ m.i = call[l].n
            /\ m.d = call[l]
            /\ m.k = Kind(call[l].op)
            /\ call[l] \in Range(done[l])
        BY <3>2, <4>1 DEF OwnAnswer, Genuine, Honest
      <4>3. Answer(m) \in Slot /\ Answer(m) # Event
        BY <2>3 DEF Answer, Slot, RepMsg, Event
      <4>4. /\ waiting'[l] = [waiting[l] EXCEPT ![m.i] = Answer(m)]
            /\ DOMAIN waiting' = Links
            /\ \A k \in Links \ {l} : waiting'[k] = waiting[k]
        BY <2>1, <3>2 DEF LinkTypeOK
      <4>5. LinkTypeOK'
        <5>1. waiting[l] \in [{seq[l]} -> Slot]
          BY <3>2 DEF LinkTypeOK
        <5>2. waiting'[l] \in [{seq[l]} -> Slot]
          BY <4>3, <4>4, <5>1
        <5> QED
          BY <2>2, <4>4, <5>2 DEF LinkTypeOK
      <4>6. DOMAIN waiting'[l] = DOMAIN waiting[l]
        BY <4>4
      <4>7. CallInv'
        BY <2>2, <4>4, <4>6 DEF CallInv
      <4>8. DOMAIN waiting[l] = {m.i}
        BY <3>2, <4>2 DEF OwnAnswer
      <4>9. OwnAnswer'
        <5>1. waiting'[l][m.i] = [k |-> Kind(call[l].op), d |-> call[l]]
          BY <3>2, <4>2, <4>4 DEF Answer
        <5>2. ASSUME NEW k \in Links, NEW n \in DOMAIN waiting'[k]
              PROVE  /\ n = call[k].n
                     /\ waiting'[k][n] # Event =>
                          /\ waiting'[k][n] = [k |-> Kind(call[k].op), d |-> call[k]]
                          /\ call[k] \in Range(done[k])
          <6>1. CASE k = l
            <7>1. n = m.i
              BY <4>6, <4>8, <6>1
            <7> QED
              BY <4>2, <5>1, <6>1, <7>1
          <6>2. CASE k # l
            <7>1. waiting'[k] = waiting[k]
              BY <4>4, <6>2
            <7>2. n \in DOMAIN waiting[k]
              BY <7>1
            <7> QED
              BY <7>1, <7>2 DEF OwnAnswer
          <6> QED
            BY <6>1, <6>2
        <5> QED
          BY <2>2, <5>2 DEF OwnAnswer
      <4> QED
        BY <4>5, <4>7, <4>9
    <3> QED
      BY <3>1, <3>2
  <2> QED
    BY <2>2, <2>4, <2>5, <2>6, MidFrame, RouteFrame, StreamFrame,
       MuxTypeFrame, DevTypeFrame
<1> QED
  BY <1>1, <1>2

LEMMA LinkActStep == ASSUME IInv, LinkAct PROVE IInv'
<1> PICK l \in Links : LinkStep(l)
  BY DEF LinkAct
<1> UNCHANGED <<muxVars, devVars>>
  BY DEF LinkAct
<1>1. CASE Connect(l)
  BY <1>1, ConnectStep
<1>2. CASE \E op \in Ops : Send(l, op)
  BY <1>2, SendStep
<1>3. CASE Return(l) \/ Abort(l)
  BY <1>3, ReturnAbortStep
<1>4. CASE LinkReader(l)
  BY <1>4, LinkReaderStep
<1>5. CASE LinkEOF(l) \/ Close(l)
  BY <1>5, LeaveStep DEF LinkEOF, Close
<1> QED
  BY <1>1, <1>2, <1>3, <1>4, <1>5 DEF LinkStep

-----------------------------------------------------------------------------
(* The steps of the multiplexer.                                           *)

LEMMA HandleStreamStep ==
  ASSUME IInv, NEW l \in Links, HandleStream(l), UNCHANGED <<linkVars, devVars>>
  PROVE  IInv'
<1> USE DEF IInv, TypeOK
<1> PICK sid \in Nat \ {0} : sid = next_stream + 1
  BY DEF MuxTypeOK
<1>1. UNCHANGED <<alive, lsock, up, down, dsock, toDev, fromDev, seq, call,
                  waiting, next_mid, mseq, sendq, reply, chat, done>>
  BY DEF HandleStream, tcpVars, linkVars, devVars
<1>2. /\ alive
      /\ msock[l] = "none"
      /\ msock' = [msock EXCEPT ![l] = "open"]
      /\ next_stream' = sid
      /\ sidOf' = [sidOf EXCEPT ![l] = sid]
      /\ streams' = With(streams, sid, l)
  BY DEF HandleStream, Attach
<1>3. l \in Peers /\ l # Chat /\ sidOf[l] = 0
  BY <1>2, WireAssumption DEF Peers, StreamInv
<1>4. /\ DOMAIN streams' = DOMAIN streams \cup {sid}
      /\ streams'[sid] = l
      /\ \A s \in DOMAIN streams : s # sid /\ streams'[s] = streams[s]
      /\ streams' \in [DOMAIN streams' -> Peers]
  <2>1. streams' \in [DOMAIN streams \cup {sid} -> Peers]
    BY <1>2, <1>3, WithType DEF MuxTypeOK
  <2>2. \A s \in DOMAIN streams : s # sid
    BY DEF MuxTypeOK
  <2> QED
    BY <1>2, <2>1, <2>2 DEF With
<1>5. WireTypeOK'
  BY <1>1, <1>2 DEF WireTypeOK
<1>6. MuxTypeOK'
  <2>1. sidOf' \in [Peers -> 0 .. sid]
    <3>1. sidOf \in [Peers -> 0 .. sid]
      BY DEF MuxTypeOK
    <3> QED
      BY <1>2, <1>3, <3>1
  <2>2. mseq \in [DOMAIN mseq -> (1 .. sid) \X (Nat \ {0})]
    BY DEF MuxTypeOK
  <2>3. DOMAIN streams' \subseteq 1 .. sid
    BY <1>4 DEF MuxTypeOK
  <2> QED
    BY <1>1, <1>2, <1>4, <2>1, <2>2, <2>3 DEF MuxTypeOK
<1>7. StreamInv'
  <2>1. \A p \in Peers : sidOf[p] # sid
    BY DEF MuxTypeOK
  <2>2. /\ sidOf'[l] = sid
        /\ \A p \in Peers \ {l} : sidOf'[p] = sidOf[p]
    BY <1>2, <1>3 DEF MuxTypeOK
  <2>3. \A s \in DOMAIN streams' : sidOf'[streams'[s]] = s
    <3> SUFFICES ASSUME NEW s \in DOMAIN streams'
                 PROVE  sidOf'[streams'[s]] = s
      OBVIOUS
    <3>1. CASE s = sid
      BY <1>4, <2>2, <3>1
    <3>2. CASE s # sid
      <4>1. s \in DOMAIN streams /\ streams[s] \in Peers /\ streams'[s] = streams[s]
        BY <1>4, <3>2 DEF MuxTypeOK
      <4>2. sidOf[streams[s]] = s /\ s # 0
        BY <4>1 DEF StreamInv, MuxTypeOK
      <4> QED
        BY <1>3, <2>2, <4>1, <4>2
    <3> QED
      BY <3>1, <3>2
  <2>4. \A p, q \in Peers : sidOf'[p] = sidOf'[q] /\ sidOf'[p] # 0 => p = q
    BY <2>1, <2>2 DEF StreamInv
  <2>5. \A k \in Links : /\ msock'[k] = "none" => sidOf'[k] = 0
                         /\ msock'[k] = "open" => sidOf'[k] # 0
    BY <1>2, <2>2 DEF StreamInv, WireTypeOK, Peers
  <2>6. Watchdog => sidOf'[Chat] # 0
    BY <1>3, <2>2 DEF StreamInv, Peers
  <2> QED
    BY <2>3, <2>4, <2>5, <2>6 DEF StreamInv
<1>8. Routable'
  <2> SUFFICES ASSUME NEW m \in OnTheWay
               PROVE  m.i \in DOMAIN mseq /\ mseq[m.i] = <<sidOf'[m.d.from], m.d.n>>
    BY <1>1 DEF Routable, OnTheWay
  <2>1. m.i \in DOMAIN mseq /\ mseq[m.i] = <<sidOf[m.d.from], m.d.n>>
    BY <1>2 DEF Routable
  <2>2. m.d.from \in Peers
    BY Typed DEF OnTheWay, ReqMsg, RepMsg, Request
  <2>3. sidOf[m.d.from] # 0
    BY <2>1 DEF MuxTypeOK
  <2> QED
    BY <1>2, <1>3, <2>1, <2>2, <2>3 DEF MuxTypeOK
<1> QED
  BY <1>1, <1>5, <1>6, <1>7, <1>8, RequestFrame, MidFrame, CallFrame,
     LinkTypeFrame, DevTypeFrame DEF linkVars, devVars

(* A message is given its id and queued.                                   *)
LEMMA SubmitLemma ==
  ASSUME IInv, alive,
         NEW p \in Peers, NEW d \in Request, d.from = p, sidOf[p] # 0,
         submit(p, d.n, d),
         UNCHANGED <<toDev, fromDev, sidOf, next_stream>>
  PROVE  /\ next_mid' \in Nat
         /\ DOMAIN mseq' \subseteq 1 .. next_mid'
         /\ mseq' \in [DOMAIN mseq' -> (1 .. next_stream') \X (Nat \ {0})]
         /\ sendq' \in Seq(ReqMsg)
         /\ \A m \in Range(sendq') : m.d = d \/ m \in Range(sendq)
         /\ MidInv'
         /\ Routable'
<1> USE DEF IInv, TypeOK
<1> PICK mid \in Nat \ {0} : mid = next_mid + 1
  BY DEF MuxTypeOK
<1> DEFINE msg == [i |-> mid, d |-> d]
<1>1. /\ next_mid' = mid
      /\ mseq' = With(mseq, mid, <<sidOf[p], d.n>>)
      /\ sendq' = Append(sendq, msg)
  BY DEF submit
<1>2. msg \in ReqMsg
  BY DEF ReqMsg
<1>3. <<sidOf[p], d.n>> \in (1 .. next_stream) \X (Nat \ {0})
  BY DEF MuxTypeOK, Request
<1>4. /\ DOMAIN mseq' = DOMAIN mseq \cup {mid}
      /\ mseq' \in [DOMAIN mseq' -> (1 .. next_stream) \X (Nat \ {0})]
      /\ mseq'[mid] = <<sidOf[p], d.n>>
      /\ \A x \in DOMAIN mseq : x # mid => mseq'[x] = mseq[x]
  <2>1. mseq' \in [DOMAIN mseq \cup {mid} -> (1 .. next_stream) \X (Nat \ {0})]
    BY <1>1, <1>3, WithType DEF MuxTypeOK
  <2> QED
    BY <1>1, <2>1 DEF With
<1>5. DOMAIN mseq' \subseteq 1 .. mid
  BY <1>4 DEF MuxTypeOK
<1>6. /\ sendq' \in Seq(ReqMsg)
      /\ Range(sendq') = Range(sendq) \cup {msg}
      /\ Len(sendq') = Len(sendq) + 1
      /\ \A a \in 1 .. Len(sendq) : sendq'[a] = sendq[a]
      /\ sendq'[Len(sendq) + 1] = msg
  BY <1>1, <1>2, AppendLemma DEF MuxTypeOK
<1>7. \A m \in OnTheWay : m.i <= next_mid /\ m.i # mid
  BY Typed DEF MidInv, OnTheWay, ReqMsg, RepMsg, MuxTypeOK
<1>8. OnTheWay' = OnTheWay \cup {msg}
  BY <1>6 DEF OnTheWay
<1>9. MidInv'
  <2>1. /\ \A a \in 1 .. Len(sendq) : sendq[a].i < mid
        /\ \A a \in 1 .. Len(toDev) : toDev[a].i < mid
        /\ \A a \in 1 .. Len(fromDev) : fromDev[a].i < mid
    <3>1. \A m \in OnTheWay : m.i \in Nat /\ m.i < mid
      BY <1>7, Typed DEF OnTheWay, ReqMsg, RepMsg, MuxTypeOK
    <3> QED
      BY <3>1, Indexed DEF OnTheWay
  <2>2. sendq \in Seq(ReqMsg) /\ toDev \in Seq(ReqMsg) /\ fromDev \in Seq(RepMsg)
    BY DEF MuxTypeOK, WireTypeOK
  <2>3. msg.i = mid
    OBVIOUS
  <2>4. Rising(sendq')
    BY <1>1, <1>2, <2>1, <2>2, <2>3, RisingAppend DEF MidInv
  <2>5. Under(toDev, sendq') /\ Under(fromDev, sendq')
    BY <1>1, <1>2, <2>1, <2>2, <2>3, UnderAppendRight DEF MidInv
  <2>6. \A m \in OnTheWay' : m.i <= next_mid'
    <3>1. \A m \in OnTheWay : m.i \in Nat
      BY Typed DEF OnTheWay, ReqMsg, RepMsg
    <3> QED
      BY <1>1, <1>7, <1>8, <3>1 DEF MuxTypeOK
  <2> QED
    BY <2>4, <2>5, <2>6 DEF MidInv, Rising, Under
<1>10. Routable'
  <2>1. \A m \in OnTheWay : m.i \in DOMAIN mseq'
                            /\ mseq'[m.i] = <<sidOf[m.d.from], m.d.n>>
    BY <1>4, <1>7 DEF Routable
  <2> QED
    BY <1>4, <1>8, <2>1 DEF Routable
<1>11. \A m \in Range(sendq') : m.d = d \/ m \in Range(sendq)
  BY <1>6
<1> QED
  BY <1>1, <1>4, <1>5, <1>6, <1>9, <1>10, <1>11

LEMMA StreamReadStep ==
  ASSUME IInv, NEW l \in Links, StreamRead(l), UNCHANGED <<linkVars, devVars>>
  PROVE  IInv'
<1> USE DEF IInv, TypeOK
<1> DEFINE m == Head(up[l])
<1>1. UNCHANGED <<alive, lsock, msock, down, dsock, toDev, fromDev, seq, call,
                  waiting, streams, sidOf, next_stream, reply, chat, done>>
  BY DEF StreamRead, tcpVars, linkVars, devVars
<1>2. /\ alive
      /\ msock[l] = "open"
      /\ up[l] # <<>>
      /\ up' = [up EXCEPT ![l] = Tail(@)]
      /\ submit(l, m.i, m.d)
  BY DEF StreamRead
<1>3. /\ m \in ReqMsg
      /\ m \in Range(up[l])
      /\ Tail(up[l]) \in Seq(ReqMsg)
      /\ Range(Tail(up[l])) \subseteq Range(up[l])
  BY <1>2, TailLemma DEF WireTypeOK
<1>4. Honest(m.d) /\ m.d.from = l /\ m.i = m.d.n /\ m.d \in Request
  BY <1>3 DEF RequestInv, UpInv, ReqMsg
<1>5. sidOf[l] # 0 /\ l \in Peers
  BY <1>2 DEF StreamInv, Peers
<1>6. submit(l, m.d.n, m.d)
  BY <1>2, <1>4
<1>7. /\ next_mid' \in Nat
      /\ DOMAIN mseq' \subseteq 1 .. next_mid'
      /\ mseq' \in [DOMAIN mseq' -> (1 .. next_stream') \X (Nat \ {0})]
      /\ sendq' \in Seq(ReqMsg)
      /\ \A x \in Range(sendq') : x.d = m.d \/ x \in Range(sendq)
      /\ MidInv'
      /\ Routable'
  BY <1>1, <1>2, <1>4, <1>5, <1>6, SubmitLemma
<1>8. WireTypeOK' /\ \A k \in Links : Range(up'[k]) \subseteq Range(up[k])
  BY <1>1, <1>2, <1>3 DEF WireTypeOK
<1>9. MuxTypeOK'
  BY <1>1, <1>7 DEF MuxTypeOK
<1>10. RequestInv'
  <2>1. SendqInv'
    BY <1>1, <1>4, <1>7 DEF SendqInv, Honest, RequestInv
  <2>2. UpInv'
    BY <1>1, <1>8 DEF UpInv, Honest, RequestInv
  <2>3. ToDevInv' /\ DoneInv' /\ FromDevInv' /\ ReplyInv' /\ DownInv'
    BY <1>1 DEF ToDevInv, DoneInv, FromDevInv, ReplyInv, DownInv, Genuine,
                Honest, RequestInv
  <2> QED
    BY <2>1, <2>2, <2>3 DEF RequestInv
<1> QED
  BY <1>1, <1>7, <1>8, <1>9, <1>10, CallFrame, StreamFrame, LinkTypeFrame,
     DevTypeFrame DEF linkVars, devVars

LEMMA RouteShrink ==
  ASSUME Routable, OnTheWay' \subseteq OnTheWay, UNCHANGED <<alive, mseq, sidOf>>
  PROVE  Routable'
BY DEF Routable

LEMMA StreamEOFStep ==
  ASSUME IInv, NEW l \in Links, StreamEOF(l), UNCHANGED <<linkVars, devVars>>
  PROVE  IInv'
<1> USE DEF IInv, TypeOK
<1>1. UNCHANGED <<alive, lsock, up, down, dsock, toDev, fromDev, seq, call,
                  waiting, sidOf, next_stream, next_mid, mseq, sendq, reply,
                  chat, done>>
  BY DEF StreamEOF, tcpVars, linkVars, devVars
<1>2. /\ msock' = [msock EXCEPT ![l] = "closed"]
      /\ msock[l] = "open"
      /\ streams' = Without(streams, sidOf[l])
  BY DEF StreamEOF
<1>3. WireTypeOK'
  BY <1>1, <1>2 DEF WireTypeOK
<1>4. /\ streams' \in [DOMAIN streams \ {sidOf[l]} -> Peers]
      /\ DOMAIN streams' \subseteq DOMAIN streams
      /\ \A s \in DOMAIN streams' : streams'[s] = streams[s]
  BY <1>2 DEF MuxTypeOK, Without, Restrict
<1>5. MuxTypeOK'
  BY <1>1, <1>4 DEF MuxTypeOK
<1>6. StreamInv'
  BY <1>1, <1>2, <1>4 DEF StreamInv, WireTypeOK
<1> QED
  BY <1>1, <1>3, <1>5, <1>6, RequestFrame, MidFrame, RouteFrame, CallFrame,
     LinkTypeFrame, DevTypeFrame DEF linkVars, devVars

LEMMA SendOutStep ==
  ASSUME IInv, SendOut, UNCHANGED <<linkVars, devVars>>
  PROVE  IInv'
<1> USE DEF IInv, TypeOK
<1>1. UNCHANGED <<alive, lsock, msock, up, down, dsock, fromDev, seq, call,
                  waiting, streams, sidOf, next_stream, next_mid, mseq, reply,
                  chat, done, nbuf>>
  BY DEF SendOut, unixVars, linkVars, devVars
<1>2. /\ sendq # <<>>
      /\ toDev' = Append(toDev, Head(sendq))
      /\ sendq' = Tail(sendq)
      /\ sendq \in Seq(ReqMsg) /\ toDev \in Seq(ReqMsg) /\ fromDev \in Seq(RepMsg)
  BY DEF SendOut, MuxTypeOK, WireTypeOK
<1>3. /\ Head(sendq) \in ReqMsg
      /\ Head(sendq) \in Range(sendq)
      /\ sendq' \in Seq(ReqMsg)
      /\ Range(sendq') \subseteq Range(sendq)
  BY <1>2, TailLemma
<1>4. /\ toDev' \in Seq(ReqMsg)
      /\ Len(toDev') = Len(toDev) + 1
      /\ Range(toDev') = Range(toDev) \cup {Head(sendq)}
  BY <1>2, <1>3, AppendLemma
<1>5. WireTypeOK' /\ MuxTypeOK'
  BY <1>1, <1>3, <1>4 DEF WireTypeOK, MuxTypeOK
<1>6. DevTypeOK'
  <2>1. nbuf' \in 0 .. Len(toDev')
    BY <1>1, <1>2, <1>4 DEF DevTypeOK
  <2> QED
    BY <2>1 DEF DevTypeOK, devVars
<1>7. RequestInv'
  <2>1. SendqInv' /\ ToDevInv'
    BY <1>1, <1>3, <1>4 DEF RequestInv, SendqInv, ToDevInv, Honest
  <2>2. UpInv' /\ DoneInv' /\ FromDevInv' /\ ReplyInv' /\ DownInv'
    BY <1>1 DEF RequestInv, UpInv, DoneInv, FromDevInv, ReplyInv, DownInv,
                Genuine, Honest
  <2> QED
    BY <2>1, <2>2 DEF RequestInv
<1>8. OnTheWay' \subseteq OnTheWay
  BY <1>1, <1>3, <1>4 DEF OnTheWay
<1>9. MidInv'
  <2>1. /\ \A a \in 1 .. Len(toDev) : toDev[a].i < Head(sendq).i
        /\ \A a \in 1 .. Len(fromDev) : fromDev[a].i < Head(sendq).i
        /\ \A b \in 1 .. Len(Tail(sendq)) : Head(sendq).i < Tail(sendq)[b].i
    BY <1>2, UnderTail, RisingTail DEF MidInv
  <2>2. Rising(sendq') /\ Under(toDev, sendq') /\ Under(fromDev, sendq')
    BY <1>2, UnderTail, RisingTail DEF MidInv
  <2>3. Rising(toDev') /\ Under(fromDev, toDev')
    BY <1>2, <1>3, <2>1, RisingAppend, UnderAppendRight DEF MidInv
  <2>4. Under(toDev', sendq')
    BY <1>2, <1>3, <2>1, <2>2, UnderAppendLeft
  <2> QED
    BY <1>1, <1>8, <2>2, <2>3, <2>4 DEF MidInv, Rising, Under
<1> QED
  BY <1>1, <1>5, <1>6, <1>7, <1>8, <1>9, RouteShrink, CallFrame, StreamFrame,
     LinkTypeFrame DEF linkVars

(* Looking up a reply: it finds the peer that made the request.            *)
LEMMA MuxReadStep ==
  ASSUME IInv, MuxRead, UNCHANGED <<linkVars, devVars>>
  PROVE  IInv'
<1> USE DEF IInv, TypeOK
<1> DEFINE m == Head(fromDev)
           known == m.i \in DOMAIN mseq /\ mseq[m.i][1] \in DOMAIN streams
           out == [to |-> streams[mseq[m.i][1]], k |-> m.k,
                   i |-> mseq[m.i][2], d |-> m.d]
<1>1. UNCHANGED <<alive, lsock, msock, up, down, dsock, toDev, seq, call,
                  waiting, streams, sidOf, next_stream, next_mid, sendq,
                  chat, done>>
  BY DEF MuxRead, unixVars, linkVars, devVars
<1>2. /\ alive
      /\ fromDev # <<>>
      /\ fromDev' = Tail(fromDev)
      /\ mseq' = Without(mseq, m.i)
      /\ reply' = IF known THEN <<out>> ELSE <<>>
      /\ fromDev \in Seq(RepMsg)
  BY DEF MuxRead, WireTypeOK
<1>3. /\ m \in RepMsg
      /\ m \in Range(fromDev)
      /\ fromDev' \in Seq(RepMsg)
      /\ Range(fromDev') \subseteq Range(fromDev)
  BY <1>2, TailLemma
<1>4. /\ m.i \in DOMAIN mseq
      /\ mseq[m.i] = <<sidOf[m.d.from], m.d.n>>
  BY <1>2, <1>3 DEF Routable, OnTheWay
<1>5. m.d \in Request /\ m.d.from \in Peers /\ Genuine(m)
  BY <1>3 DEF RequestInv, FromDevInv, RepMsg, Request
<1>6. ASSUME known
      PROVE  out.to = m.d.from /\ out.i = m.d.n /\ out \in Routed
  <2>1. mseq[m.i][1] = sidOf[m.d.from] /\ mseq[m.i][2] = m.d.n
    BY <1>4
  <2>2. /\ streams[mseq[m.i][1]] \in Peers
        /\ sidOf[streams[mseq[m.i][1]]] = sidOf[m.d.from]
        /\ sidOf[m.d.from] # 0
    BY <1>4, <1>6, <2>1 DEF StreamInv, MuxTypeOK
  <2>3. streams[mseq[m.i][1]] = m.d.from
    BY <1>5, <2>2 DEF StreamInv
  <2> QED
    BY <1>3, <1>5, <2>1, <2>3 DEF Routed, RepMsg, Request
<1>7. reply' \in Seq(Routed) /\ Len(reply') <= 1
  BY <1>2, <1>6, EmptyLemma, SingleLemma
<1>8. /\ DOMAIN mseq' = DOMAIN mseq \ {m.i}
      /\ mseq' \in [DOMAIN mseq' -> (1 .. next_stream) \X (Nat \ {0})]
      /\ \A x \in DOMAIN mseq : x # m.i => mseq'[x] = mseq[x]
  BY <1>2 DEF Without, Restrict, MuxTypeOK
<1>9. WireTypeOK' /\ MuxTypeOK'
  BY <1>1, <1>3, <1>7, <1>8 DEF WireTypeOK, MuxTypeOK
<1>10. RequestInv'
  <2>1. ReplyInv'
    <3>1. CASE known
      <4>1. reply' # <<>> /\ reply'[1] = out
        BY <1>2, <3>1
      <4>2. /\ Honest(out.d) /\ out.k = Kind(out.d.op)
            /\ out.d \in Range(done[out.d.from])
        BY <1>5 DEF Genuine
      <4>3. out.to = out.d.from /\ out.i = out.d.n
        BY <1>6, <3>1
      <4>4. PICK r : r = out
        OBVIOUS
      <4>5. Genuine(r)'
        BY <1>1, <4>2, <4>4 DEF Genuine, Honest
      <4> QED
        BY <4>1, <4>3, <4>4, <4>5 DEF ReplyInv
    <3>2. CASE ~known
      BY <1>2, <3>2 DEF ReplyInv
    <3> QED
      BY <3>1, <3>2
  <2>2. FromDevInv'
    BY <1>1, <1>3 DEF RequestInv, FromDevInv, Genuine, Honest
  <2>3. UpInv' /\ SendqInv' /\ ToDevInv' /\ DoneInv' /\ DownInv'
    BY <1>1 DEF RequestInv, UpInv, SendqInv, ToDevInv, DoneInv, DownInv,
                Genuine, Honest
  <2> QED
    BY <2>1, <2>2, <2>3 DEF RequestInv
<1>11. OnTheWay' \subseteq OnTheWay
  BY <1>1, <1>3 DEF OnTheWay
<1>12. MidInv'
  <2>1. toDev \in Seq(ReqMsg) /\ sendq \in Seq(ReqMsg)
    BY DEF WireTypeOK, MuxTypeOK
  <2>2. Rising(fromDev') /\ Under(fromDev', toDev) /\ Under(fromDev', sendq)
    BY <1>2, <2>1, UnderTail, RisingTail DEF MidInv
  <2> QED
    BY <1>1, <1>11, <2>2 DEF MidInv, Rising, Under
<1>13. Routable'
  <2>1. /\ \A b \in 1 .. Len(fromDev') : m.i < fromDev'[b].i
        /\ \A b \in 1 .. Len(toDev) : m.i < toDev[b].i
        /\ \A b \in 1 .. Len(sendq) : m.i < sendq[b].i
    <3>1. toDev \in Seq(ReqMsg) /\ sendq \in Seq(ReqMsg)
      BY DEF WireTypeOK, MuxTypeOK
    <3> QED
      BY <1>2, <3>1, UnderTail, RisingTail DEF MidInv
  <2>2. \A x \in OnTheWay' : x.i # m.i
    <3>1. /\ \A x \in Range(fromDev') : \E b \in 1 .. Len(fromDev') : x = fromDev'[b]
          /\ \A x \in Range(toDev) : \E b \in 1 .. Len(toDev) : x = toDev[b]
          /\ \A x \in Range(sendq) : \E b \in 1 .. Len(sendq) : x = sendq[b]
      <4>1. toDev \in Seq(ReqMsg) /\ sendq \in Seq(ReqMsg)
        BY DEF WireTypeOK, MuxTypeOK
      <4> QED
        BY <1>3, <4>1 DEF Range
    <3>2. m.i \in Nat
      BY <1>3 DEF RepMsg
    <3> QED
      BY <1>1, <2>1, <3>1, <3>2 DEF OnTheWay
  <2>3. \A x \in OnTheWay' : x.i \in DOMAIN mseq
                             /\ mseq[x.i] = <<sidOf[x.d.from], x.d.n>>
    BY <1>2, <1>11 DEF Routable
  <2> QED
    BY <1>1, <1>8, <2>2, <2>3 DEF Routable
<1> QED
  BY <1>1, <1>9, <1>10, <1>12, <1>13, CallFrame, StreamFrame,
     LinkTypeFrame, DevTypeFrame DEF linkVars, devVars

LEMMA DeliverStreamStep ==
  ASSUME IInv, NEW l \in Links, DeliverStream(l), UNCHANGED <<linkVars, devVars>>
  PROVE  IInv'
<1> USE DEF IInv, TypeOK
<1> DEFINE msg == [k |-> reply[1].k, i |-> reply[1].i, d |-> reply[1].d]
<1>1. UNCHANGED <<alive, lsock, msock, up, dsock, toDev, fromDev, seq, call,
                  waiting, streams, sidOf, next_stream, next_mid, mseq, sendq,
                  chat, done>>
  BY DEF DeliverStream, tcpVars, linkVars, devVars
<1>2. /\ reply # <<>>
      /\ reply[1].to = l
      /\ reply' = <<>>
      /\ down' \in {down, [down EXCEPT ![l] = Append(@, msg)]}
  BY DEF DeliverStream
<1>3. /\ reply[1] \in Routed
      /\ Genuine(reply[1]) /\ reply[1].d.from = l /\ reply[1].i = reply[1].d.n
  BY <1>2 DEF MuxTypeOK, RequestInv, ReplyInv
<1>4. msg \in RepMsg
  BY <1>3 DEF RepMsg, Routed
<1>5. /\ down' \in [Links -> Seq(RepMsg)]
      /\ \A k \in Links : \A m \in Range(down'[k]) :
           m \in Range(down[k]) \/ (k = l /\ m = msg)
  <2>1. CASE down' = down
    BY <2>1 DEF WireTypeOK
  <2>2. CASE down' = [down EXCEPT ![l] = Append(@, msg)]
    <3>1. /\ Append(down[l], msg) \in Seq(RepMsg)
          /\ Range(Append(down[l], msg)) = Range(down[l]) \cup {msg}
      BY <1>4, AppendLemma DEF WireTypeOK
    <3>2. /\ down'[l] = Append(down[l], msg)
          /\ \A k \in Links \ {l} : down'[k] = down[k]
      BY <2>2 DEF WireTypeOK
    <3> QED
      BY <2>2, <3>1, <3>2 DEF WireTypeOK
  <2> QED
    BY <1>2, <2>1, <2>2
<1>6. WireTypeOK' /\ MuxTypeOK'
  <2>1. reply' \in Seq(Routed) /\ Len(reply') <= 1
    BY <1>2, EmptyLemma
  <2> QED
    BY <1>1, <1>5, <2>1 DEF WireTypeOK, MuxTypeOK
<1>7. DownInv'
  <2> SUFFICES ASSUME NEW k \in Links, NEW m \in Range(down'[k])
               PROVE  Genuine(m) /\ m.d.from = k /\ m.i = m.d.n
    BY <1>1 DEF DownInv, Genuine, Honest
  <2>1. CASE m \in Range(down[k])
    BY <2>1 DEF RequestInv, DownInv
  <2>2. CASE k = l /\ m = msg
    BY <1>3, <2>2 DEF Genuine
  <2> QED
    BY <1>5, <2>1, <2>2
<1>8. RequestInv'
  <2>1. UpInv' /\ SendqInv' /\ ToDevInv' /\ DoneInv' /\ FromDevInv'
    BY <1>1 DEF RequestInv, UpInv, SendqInv, ToDevInv, DoneInv, FromDevInv,
                Genuine, Honest
  <2> QED
    BY <1>2, <1>7, <2>1 DEF RequestInv, ReplyInv
<1> QED
  BY <1>1, <1>6, <1>8, MidFrame, RouteFrame, CallFrame, StreamFrame,
     LinkTypeFrame, DevTypeFrame DEF linkVars, devVars

(* The steps that only concern the watchdog's chat.                        *)
LEMMA ChatStep ==
  ASSUME IInv, DeliverChat \/ ChatReturn, UNCHANGED <<linkVars, devVars>>
  PROVE  IInv'
<1> USE DEF IInv, TypeOK
<1>1. UNCHANGED <<alive, lsock, msock, up, down, dsock, toDev, fromDev, seq,
                  call, waiting, streams, sidOf, next_stream, next_mid, mseq,
                  sendq, done>>
  BY DEF DeliverChat, ChatReturn, wireVars, unixVars, tcpVars, linkVars, devVars
<1>2. /\ reply' \in {reply, <<>>}
      /\ chat' \in [n : Nat, st : ChatStates]
      /\ chat'.n = chat.n
  BY DEF DeliverChat, ChatReturn, MuxTypeOK, ChatStates
<1>3. WireTypeOK' /\ MuxTypeOK'
  <2>1. reply' \in Seq(Routed) /\ Len(reply') <= 1
    <3>1. CASE reply' = reply
      BY <3>1 DEF MuxTypeOK
    <3>2. CASE reply' = <<>>
      BY <3>2, EmptyLemma
    <3> QED
      BY <1>2, <3>1, <3>2
  <2> QED
    BY <1>1, <1>2, <2>1 DEF WireTypeOK, MuxTypeOK
<1>4. \A d \in Request : Honest(d) => Honest(d)'
  BY <1>1, <1>2 DEF Honest
<1>5. RequestInv'
  BY <1>1, <1>2, <1>4, RequestShrink
<1> QED
  BY <1>1, <1>3, <1>5, MidFrame, RouteFrame, CallFrame, StreamFrame,
     LinkTypeFrame, DevTypeFrame DEF linkVars, devVars

LEMMA ChatPingStep ==
  ASSUME IInv, ChatPing, UNCHANGED <<linkVars, devVars>>
  PROVE  IInv'
<1> USE DEF IInv, TypeOK
<1> PICK n \in Nat \ {0} : n = chat.n + 1
  BY DEF MuxTypeOK
<1> DEFINE d == [from |-> Chat, n |-> n, op |-> "ok"]
<1>1. UNCHANGED <<alive, lsock, msock, up, down, dsock, toDev, fromDev, seq,
                  call, waiting, streams, sidOf, next_stream, reply, done>>
  BY DEF ChatPing, wireVars, unixVars, tcpVars, linkVars, devVars
<1>2. /\ alive
      /\ Watchdog
      /\ chat' = [n |-> n, st |-> "wait"]
      /\ submit(Chat, n, d)
  BY DEF ChatPing
<1>3. d \in Request /\ Chat \in Peers /\ sidOf[Chat] # 0
  BY <1>2 DEF Request, Peers, Outcomes, StreamInv
<1>4. submit(Chat, d.n, d)
  BY <1>2
<1>5. /\ next_mid' \in Nat
      /\ DOMAIN mseq' \subseteq 1 .. next_mid'
      /\ mseq' \in [DOMAIN mseq' -> (1 .. next_stream') \X (Nat \ {0})]
      /\ sendq' \in Seq(ReqMsg)
      /\ \A x \in Range(sendq') : x.d = d \/ x \in Range(sendq)
      /\ MidInv'
      /\ Routable'
  BY <1>1, <1>2, <1>3, <1>4, SubmitLemma
<1>6. WireTypeOK' /\ MuxTypeOK'
  BY <1>1, <1>2, <1>5 DEF WireTypeOK, MuxTypeOK, ChatStates
<1>7. \A x \in Request : Honest(x) => Honest(x)'
  BY <1>1, <1>2 DEF Honest, Request, MuxTypeOK
<1>8. Honest(d)'
  BY <1>2, WireAssumption DEF Honest
<1>9. RequestInv'
  <2>1. SendqInv'
    BY <1>5, <1>7, <1>8, Typed DEF SendqInv, RequestInv, ReqMsg
  <2>2. UpInv' /\ ToDevInv' /\ DoneInv'
    BY <1>1, <1>7, Typed DEF UpInv, ToDevInv, DoneInv, RequestInv, ReqMsg
  <2>3. FromDevInv' /\ DownInv'
    BY <1>1, <1>7, Typed DEF FromDevInv, DownInv, RequestInv, Genuine, RepMsg
  <2>4. ReplyInv'
    <3>1. reply # <<>> => reply[1] \in Routed
      BY DEF MuxTypeOK
    <3>2. reply # <<>> /\ Genuine(reply[1]) => Genuine(reply[1])'
      BY <1>1, <1>7, <3>1 DEF Genuine, Routed
    <3> QED
      BY <1>1, <3>2 DEF RequestInv, ReplyInv
  <2> QED
    BY <2>1, <2>2, <2>3, <2>4 DEF RequestInv
<1> QED
  BY <1>1, <1>5, <1>6, <1>9, CallFrame, StreamFrame, LinkTypeFrame,
     DevTypeFrame DEF linkVars, devVars

LEMMA ShutStep ==
  ASSUME IInv, Shut, UNCHANGED <<linkVars, devVars>>
  PROVE  IInv'
<1> USE DEF IInv, TypeOK
<1>1. UNCHANGED <<lsock, down, toDev, seq, call, waiting, sidOf, next_stream,
                  next_mid, done>>
  BY DEF Shut, linkVars, devVars
<1>2. /\ alive' = FALSE
      /\ msock' = [l \in Links |-> "closed"]
      /\ up' = [l \in Links |-> <<>>]
      /\ dsock' = "closed"
      /\ fromDev' = <<>> /\ sendq' = <<>> /\ reply' = <<>>
      /\ streams' = Nothing /\ mseq' = Nothing
      /\ chat' = [chat EXCEPT !.st = "idle"]
  BY DEF Shut
<1>3. WireTypeOK'
  BY <1>1, <1>2, EmptyLemma DEF WireTypeOK
<1>4. \A T : Nothing \in [DOMAIN Nothing -> T]
  BY DEF Nothing, Restrict
<1>5. MuxTypeOK'
  <2>1. /\ streams' \in [DOMAIN streams' -> Peers]
        /\ mseq' \in [DOMAIN mseq' -> (1 .. next_stream) \X (Nat \ {0})]
        /\ DOMAIN streams' = {} /\ DOMAIN mseq' = {}
    BY <1>2, <1>4, NothingLemma
  <2>2. sendq' \in Seq(ReqMsg) /\ reply' \in Seq(Routed) /\ Len(reply') <= 1
    BY <1>2, EmptyLemma
  <2>3. chat' \in [n : Nat, st : ChatStates]
    BY <1>2 DEF MuxTypeOK, ChatStates
  <2> QED
    BY <1>1, <2>1, <2>2, <2>3 DEF MuxTypeOK
<1>6. \A d \in Request : Honest(d) => Honest(d)'
  BY <1>1, <1>2 DEF Honest, MuxTypeOK
<1>7. RequestInv'
  BY <1>1, <1>2, <1>6, EmptyLemma, RequestShrink
<1>8. StreamInv'
  BY <1>1, <1>2, NothingLemma DEF StreamInv
<1>9. MidInv'
  BY <1>1, <1>2, EmptyLemma, EmptyOrder DEF MidInv, OnTheWay, Rising, Under
<1>10. Routable'
  BY <1>2 DEF Routable
<1> QED
  BY <1>1, <1>3, <1>5, <1>7, <1>8, <1>9, <1>10, CallFrame, LinkTypeFrame,
     DevTypeFrame DEF linkVars, devVars

LEMMA MuxActStep == ASSUME IInv, MuxAct PROVE IInv'
<1> UNCHANGED <<linkVars, devVars>> /\ MuxStep
  BY DEF MuxAct
<1>1. CASE \E l \in Links : HandleStream(l)
  BY <1>1, HandleStreamStep
<1>2. CASE \E l \in Links : StreamRead(l)
  BY <1>2, StreamReadStep
<1>3. CASE \E l \in Links : StreamEOF(l)
  BY <1>3, StreamEOFStep
<1>4. CASE \E l \in Links : DeliverStream(l)
  BY <1>4, DeliverStreamStep
<1>5. CASE SendOut
  BY <1>5, SendOutStep
<1>6. CASE MuxRead
  BY <1>6, MuxReadStep
<1>7. CASE DeliverChat \/ ChatReturn
  BY <1>7, ChatStep
<1>8. CASE ChatPing
  BY <1>8, ChatPingStep
<1>9. CASE ChatTimeout \/ MuxDown
  BY <1>9, ShutStep DEF ChatTimeout, MuxDown
<1> QED
  BY <1>1, <1>2, <1>3, <1>4, <1>5, <1>6, <1>7, <1>8, <1>9 DEF MuxStep

-----------------------------------------------------------------------------
(* The steps of the device, and the loss of the connection.                *)

LEMMA ReadStep ==
  ASSUME IInv, SchedRead \/ ReadStart \/ ReadEnd, UNCHANGED <<linkVars, muxVars>>
  PROVE  IInv'
<1> USE DEF IInv, TypeOK
<1>1. UNCHANGED <<alive, lsock, msock, up, down, dsock, toDev, fromDev, seq,
                  call, waiting, streams, sidOf, next_stream, next_mid, mseq,
                  sendq, reply, chat, done>>
  BY DEF SchedRead, ReadStart, ReadEnd, wireVars, unixVars, tcpVars, linkVars,
         muxVars
<1>2. Len(toDev) \in Nat
  BY Indexed
<1>3. DevTypeOK'
  <2>1. CASE SchedRead
    BY <1>1, <2>1 DEF SchedRead, DevTypeOK
  <2>2. CASE ReadStart
    <3>1. PICK b \in nbuf + 1 .. Len(toDev) : nbuf' = b
      BY <2>2 DEF ReadStart
    <3>2. nbuf' \in 0 .. Len(toDev)
      BY <1>2, <3>1 DEF DevTypeOK
    <3> QED
      BY <1>1, <2>2, <3>2 DEF ReadStart, DevTypeOK
  <2>3. CASE ReadEnd
    BY <1>1, <2>3 DEF ReadEnd, DevTypeOK
  <2> QED
    BY <2>1, <2>2, <2>3
<1>4. WireTypeOK'
  BY <1>1 DEF WireTypeOK
<1> QED
  BY <1>1, <1>3, <1>4, RequestFrame, MidFrame, RouteFrame, CallFrame,
     StreamFrame, LinkTypeFrame, MuxTypeFrame DEF linkVars

(* A message is taken out of the buffer, its handler may run, and a reply  *)
(* may be sent.                                                            *)
LEMMA ProcessStep ==
  ASSUME IInv, UNCHANGED <<linkVars, muxVars>>,
         ProcessReply \/ ProcessQuiet \/ ProcessRaise \/ ProcessUnknown
  PROVE  IInv'
<1> USE DEF IInv, TypeOK
<1> DEFINE m == Head(toDev)
           rep == [k |-> Kind(m.d.op), i |-> m.i, d |-> m.d]
<1>1. UNCHANGED <<alive, lsock, msock, up, down, dsock, seq, call, waiting,
                  streams, sidOf, next_stream, next_mid, mseq, sendq, reply,
                  chat>>
  BY DEF ProcessReply, ProcessQuiet, ProcessRaise, ProcessUnknown, unixVars,
         linkVars, muxVars
<1>2. /\ nbuf > 0
      /\ toDev' = Tail(toDev)
      /\ nbuf' = nbuf - 1
      /\ sched' = sched /\ pend' = pend /\ reading' \in {reading, FALSE}
  BY DEF ProcessReply, ProcessQuiet, ProcessRaise, ProcessUnknown, Take
<1>3. toDev # <<>> /\ toDev \in Seq(ReqMsg) /\ fromDev \in Seq(RepMsg)
  BY <1>2, EmptyLemma DEF DevTypeOK, WireTypeOK
<1>4. /\ m \in ReqMsg
      /\ m \in Range(toDev)
      /\ toDev' \in Seq(ReqMsg)
      /\ Range(toDev') \subseteq Range(toDev)
      /\ Len(toDev') = Len(toDev) - 1
      /\ Len(toDev) \in Nat
  BY <1>2, <1>3, TailLemma
<1>5. m.d \in Request /\ m.d.from \in Peers /\ rep \in RepMsg /\ Honest(m.d)
  BY <1>4, KindLemma DEF ReqMsg, RepMsg, Request, RequestInv, ToDevInv
<1>6. done' \in {done, [done EXCEPT ![m.d.from] = Append(@, m.d)]}
  BY DEF ProcessReply, ProcessQuiet, ProcessRaise, ProcessUnknown, Ran
<1>7. /\ done' \in [Peers -> Seq(Request)]
      /\ \A p \in Peers : \A r \in Range(done'[p]) :
           r \in Range(done[p]) \/ (r = m.d /\ p = m.d.from)
      /\ \A p \in Peers : Range(done[p]) \subseteq Range(done'[p])
  <2>1. CASE done' = done
    BY <2>1 DEF DevTypeOK
  <2>2. CASE done' = [done EXCEPT ![m.d.from] = Append(@, m.d)]
    <3>1. /\ Append(done[m.d.from], m.d) \in Seq(Request)
          /\ Range(Append(done[m.d.from], m.d)) = Range(done[m.d.from]) \cup {m.d}
      BY <1>5, AppendLemma DEF DevTypeOK
    <3>2. /\ done'[m.d.from] = Append(done[m.d.from], m.d)
          /\ \A p \in Peers \ {m.d.from} : done'[p] = done[p]
      BY <1>5, <2>2 DEF DevTypeOK
    <3>3. done' \in [Peers -> Seq(Request)]
      BY <1>5, <2>2, <3>1 DEF DevTypeOK
    <3> QED
      BY <3>1, <3>2, <3>3
  <2> QED
    BY <1>6, <2>1, <2>2
<1>8. \/ fromDev' = fromDev
      \/ /\ fromDev' = Append(fromDev, rep)
         /\ m.d \in Range(done'[m.d.from])
  <2>1. CASE ProcessQuiet \/ ProcessUnknown
    BY <2>1 DEF ProcessQuiet, ProcessUnknown
  <2>2. CASE ProcessReply \/ ProcessRaise
    <3>1. done' = [done EXCEPT ![m.d.from] = Append(@, m.d)]
      BY <2>2 DEF ProcessReply, ProcessRaise, Ran
    <3>2. m.d \in Range(Append(done[m.d.from], m.d))
      BY <1>5, AppendLemma DEF DevTypeOK
    <3>3. m.d \in Range(done'[m.d.from])
      BY <1>5, <3>1, <3>2 DEF DevTypeOK
    <3>4. fromDev' \in {fromDev, Append(fromDev, rep)}
      <4>1. CASE ProcessReply
        BY <4>1 DEF ProcessReply, send
      <4>2. CASE ProcessRaise
        BY <4>2 DEF ProcessRaise, send, Kind, Take
      <4> QED
        BY <2>2, <4>1, <4>2
    <3> QED
      BY <3>3, <3>4
  <2> QED
    BY <2>1, <2>2
<1>9. /\ fromDev' \in Seq(RepMsg)
      /\ \A x \in Range(fromDev') :
           \/ x \in Range(fromDev)
           \/ x = rep /\ m.d \in Range(done'[m.d.from])
  <2>1. CASE fromDev' = fromDev
    BY <1>3, <2>1
  <2>2. CASE /\ fromDev' = Append(fromDev, rep)
             /\ m.d \in Range(done'[m.d.from])
    <3>1. /\ Append(fromDev, rep) \in Seq(RepMsg)
          /\ Range(Append(fromDev, rep)) = Range(fromDev) \cup {rep}
      BY <1>3, <1>5, AppendLemma
    <3> QED
      BY <2>2, <3>1
  <2> QED
    BY <1>8, <2>1, <2>2
<1>10. WireTypeOK' /\ DevTypeOK'
  <2>1. nbuf' \in 0 .. Len(toDev')
    BY <1>2, <1>4 DEF DevTypeOK
  <2> QED
    BY <1>1, <1>2, <1>4, <1>7, <1>9, <2>1 DEF WireTypeOK, DevTypeOK
<1>11. \A d : Honest(d) => Honest(d)'
  BY <1>1 DEF Honest
<1>12. RequestInv'
  <2>1. UpInv' /\ SendqInv' /\ ToDevInv'
    BY <1>1, <1>4, <1>11 DEF RequestInv, UpInv, SendqInv, ToDevInv
  <2>2. DoneInv'
    BY <1>5, <1>7, <1>11 DEF RequestInv, DoneInv
  <2>3. \A x \in RepMsg : Genuine(x) => Genuine(x)'
    BY <1>7, <1>11 DEF Genuine, RepMsg, Request
  <2>4. DownInv'
    BY <1>1, <2>3, Typed DEF RequestInv, DownInv
  <2>5. FromDevInv'
    <3> SUFFICES ASSUME NEW x \in Range(fromDev')
                 PROVE  Genuine(x)'
      BY DEF FromDevInv
    <3>1. CASE x \in Range(fromDev)
      BY <2>3, <3>1, Typed DEF RequestInv, FromDevInv
    <3>2. CASE /\ x.d = m.d /\ x.k = Kind(m.d.op)
               /\ m.d \in Range(done'[m.d.from])
      BY <1>5, <1>11, <3>2 DEF Genuine
    <3> QED
      BY <1>9, <3>1, <3>2
  <2>6. ReplyInv'
    <3>1. reply # <<>> => reply[1] \in Routed
      BY DEF MuxTypeOK
    <3>2. reply # <<>> /\ Genuine(reply[1]) => Genuine(reply[1])'
      BY <1>1, <1>7, <1>11, <3>1 DEF Genuine, Routed, Request
    <3> QED
      BY <1>1, <3>2 DEF RequestInv, ReplyInv
  <2> QED
    BY <2>1, <2>2, <2>4, <2>5, <2>6 DEF RequestInv
<1>13. MidInv'
  <2>1. sendq \in Seq(ReqMsg)
    BY DEF MuxTypeOK
  <2>2. Rising(toDev') /\ Under(toDev', sendq) /\ Under(fromDev, toDev')
    BY <1>2, <1>3, <2>1, UnderTail, RisingTail DEF MidInv
  <2>3. /\ \A b \in 1 .. Len(toDev') : m.i < toDev'[b].i
        /\ \A b \in 1 .. Len(sendq) : m.i < sendq[b].i
        /\ \A b \in 1 .. Len(fromDev) : fromDev[b].i < m.i
    BY <1>2, <1>3, <2>1, UnderTail, RisingTail DEF MidInv
  <2>4. Rising(fromDev') /\ Under(fromDev', toDev') /\ Under(fromDev', sendq)
    <3>1. CASE fromDev' = fromDev
      BY <2>2, <3>1 DEF MidInv
    <3>2. CASE fromDev' = Append(fromDev, rep)
      <4>1. rep.i = m.i
        OBVIOUS
      <4>2. Rising(fromDev')
        BY <1>3, <1>5, <2>3, <3>2, <4>1, RisingAppend DEF MidInv
      <4>3. Under(fromDev', toDev')
        BY <1>3, <1>4, <1>5, <2>2, <2>3, <3>2, <4>1, UnderAppendLeft
      <4>4. Under(fromDev', sendq)
        BY <1>3, <1>5, <2>1, <2>3, <3>2, <4>1, UnderAppendLeft DEF MidInv
      <4> QED
        BY <4>2, <4>3, <4>4
    <3> QED
      BY <1>8, <3>1, <3>2
  <2>5. \A x \in OnTheWay' : x.i <= next_mid
    <3>1. m.i <= next_mid
      BY <1>4 DEF MidInv, OnTheWay
    <3>2. rep.i = m.i
      OBVIOUS
    <3> QED
      BY <1>1, <1>4, <1>9, <3>1, <3>2 DEF MidInv, OnTheWay
  <2> QED
    BY <1>1, <2>2, <2>4, <2>5 DEF MidInv, Rising, Under
<1>14. Routable'
  <2>1. rep.i = m.i /\ rep.d = m.d
    OBVIOUS
  <2>2. \A x \in OnTheWay' : \E y \in OnTheWay : x.i = y.i /\ x.d = y.d
    BY <1>1, <1>4, <1>9, <2>1 DEF OnTheWay
  <2> QED
    BY <1>1, <2>2 DEF Routable
<1>15. CallInv' /\ OwnAnswer'
  <2>1. CallInv'
    BY <1>1 DEF CallInv
  <2>2. OwnAnswer'
    <3>1. \A l \in Links : Range(done[l]) \subseteq Range(done'[l])
      BY <1>7 DEF Peers
    <3> QED
      BY <1>1, <3>1 DEF OwnAnswer
  <2> QED
    BY <2>1, <2>2
<1> QED
  BY <1>1, <1>10, <1>12, <1>13, <1>14, <1>15, StreamFrame, LinkTypeFrame,
     MuxTypeFrame DEF linkVars

LEMMA DevActStep == ASSUME IInv, DevAct PROVE IInv'
BY ReadStep, ProcessStep DEF DevAct, DevStep

LEMMA NetActStep == ASSUME IInv, NetAct PROVE IInv'
<1> USE DEF IInv, TypeOK
<1>1. /\ dsock' = "closed"
      /\ UNCHANGED <<alive, lsock, msock, up, down, toDev, fromDev, linkVars,
                     muxVars, devVars>>
  BY DEF NetAct, ConnLost, unixVars
<1>2. WireTypeOK'
  BY <1>1 DEF WireTypeOK
<1> QED
  BY <1>1, <1>2, RequestFrame, MidFrame, RouteFrame, CallFrame, StreamFrame,
     LinkTypeFrame, MuxTypeFrame, DevTypeFrame DEF linkVars, muxVars, devVars

-----------------------------------------------------------------------------
LEMMA NextIInv == IInv /\ [Next]_vars => IInv'
<1> SUFFICES ASSUME IInv, [Next]_vars PROVE IInv'
  OBVIOUS
<1>1. CASE LinkAct
  BY <1>1, LinkActStep
<1>2. CASE MuxAct
  BY <1>2, MuxActStep
<1>3. CASE DevAct
  BY <1>3, DevActStep
<1>4. CASE NetAct
  BY <1>4, NetActStep
<1>5. CASE UNCHANGED vars
  <2> USE DEF IInv, TypeOK
  <2>1. UNCHANGED <<wireVars, linkVars, muxVars, devVars>>
    BY <1>5 DEF vars
  <2>2. WireTypeOK'
    BY <2>1 DEF WireTypeOK, wireVars, unixVars, tcpVars
  <2> QED
    BY <2>1, <2>2, RequestFrame, MidFrame, RouteFrame, CallFrame, StreamFrame,
       LinkTypeFrame, MuxTypeFrame, DevTypeFrame
       DEF wireVars, unixVars, tcpVars, linkVars, muxVars, devVars
<1> QED
  BY <1>1, <1>2, <1>3, <1>4, <1>5 DEF Next

(* The inductive invariant holds, whatever the clients, the commands'      *)
(* outcomes, and the number of calls and pings.                            *)
THEOREM Invariance == Spec => []IInv
<1>1. Init => IInv
  BY InitIInv
<1>2. IInv /\ [Next]_vars => IInv'
  BY NextIInv
<1> QED
  BY <1>1, <1>2, PTL DEF Spec

(* Every variable of the request path keeps its type.                      *)
THEOREM TypeCorrect == Spec => []TypeOK
<1>1. IInv => TypeOK
  BY DEF IInv
<1> QED
  BY <1>1, Invariance, PTL

(* Link.send never returns anything but the device's answer to its request.*)
THEOREM AnswersAreOwn == Spec => []OwnAnswer
<1>1. IInv => OwnAnswer
  BY DEF IInv
<1> QED
  BY <1>1, Invariance, PTL

(* Every reply of the device finds its way back: Multiplexer.cmd_r's table *)
(* has its id, and the entry names the request's sender.                   *)
THEOREM RepliesAreRoutable == Spec => []Routable
<1>1. IInv => Routable
  BY DEF IInv
<1> QED
  BY <1>1, Invariance, PTL

=============================================================================
