------------------------ MODULE RpcRefinement_proofs ------------------------
(***************************************************************************)
(* The request path implements Rpc: each of its steps is a step of Rpc, or *)
(* changes nothing that Rpc speaks of.                                     *)
(***************************************************************************)
EXTENDS RequestOrder_proofs

-----------------------------------------------------------------------------
(* What a client has got, read off `waiting`.                              *)

LEMMA GotNone ==
  ASSUME NEW l \in Links, \A n \in DOMAIN waiting[l] : waiting[l][n] = Event
  PROVE  got[l] = "none"
BY DEF got

LEMMA GotShape == DOMAIN got = Links /\ got = [l \in Links |-> got[l]]
BY DEF got

LEMMA RangeLemma == ASSUME NEW s PROVE R!Range(s) = Range(s)
BY DEF R!Range, Range

LEMMA GotFrame ==
  ASSUME UNCHANGED <<waiting, call>>
  PROVE  got' = got
BY DEF got

\* Steps that leave the Links and what has run alone
LEMMA RpcStutter ==
  ASSUME UNCHANGED <<seq, call, waiting, done>>
  PROVE  UNCHANGED R!rpcVars
BY GotFrame DEF R!rpcVars

-----------------------------------------------------------------------------
(* The steps of a Link.                                                    *)

LEMMA SendIsCall ==
  ASSUME IInv, NEW l \in Links, NEW op \in Ops, Send(l, op),
         UNCHANGED <<muxVars, devVars>>
  PROVE  R!Call(l)
<1>0. TypeOK /\ CallInv
  BY DEF IInv
<1> PICK n \in Nat \ {0} : n = seq[l] + 1
  BY <1>0 DEF TypeOK, LinkTypeOK
<1> DEFINE req == [from |-> l, n |-> n, op |-> op]
<1>1. /\ call[l] = NoCall
      /\ seq' = [seq EXCEPT ![l] = n]
      /\ call' = [call EXCEPT ![l] = req]
      /\ waiting' = [waiting EXCEPT ![l] = With(@, n, Event)]
      /\ seq'[l] = n
      /\ UNCHANGED done
  BY <1>0 DEF Send, TypeOK, LinkTypeOK, devVars
<1>2. req \in R!Requests(l, n)
  BY WireAssumption DEF R!Requests
<1>3. /\ DOMAIN waiting[l] = {} /\ waiting'[l] = With(waiting[l], n, Event)
      /\ \A k \in Links \ {l} : waiting'[k] = waiting[k] /\ call'[k] = call[k]
  BY <1>0, <1>1 DEF CallInv, TypeOK, LinkTypeOK
<1>4. got' = got
  <2>1. \A k \in Links \ {l} : got'[k] = got[k]
    BY <1>3 DEF got
  <2>2. got[l] = "none"
    BY <1>3, GotNone
  <2>3. DOMAIN waiting'[l] = {n} /\ waiting'[l][n] = Event
    BY <1>3 DEF With
  <2>4. got'[l] = "none"
    BY <2>3 DEF got
  <2> QED
    BY <2>1, <2>2, <2>4 DEF got
<1> QED
  BY <1>1, <1>2, <1>4 DEF R!Call

\* The end of a call, if there is one
LEMMA DoneIsEnd ==
  ASSUME IInv, NEW l \in Links, Done(l), UNCHANGED <<seq, done>>
  PROVE  R!End(l) \/ UNCHANGED R!rpcVars
<1>0. TypeOK /\ CallInv /\ OwnAnswer
  BY DEF IInv
<1>1. /\ call' = [call EXCEPT ![l] = NoCall]
      /\ waiting'[l] = Without(waiting[l], call[l].n)
      /\ \A k \in Links \ {l} : waiting'[k] = waiting[k] /\ call'[k] = call[k]
  BY <1>0 DEF Done, TypeOK, LinkTypeOK
<1>2. DOMAIN waiting'[l] = {}
  <2>1. DOMAIN waiting[l] \subseteq {call[l].n}
    BY <1>0 DEF OwnAnswer
  <2>2. DOMAIN waiting'[l] = DOMAIN waiting[l] \ {call[l].n}
    BY <1>1 DEF Without, Restrict
  <2> QED
    BY <2>1, <2>2
<1>3. got'[l] = "none"
  BY <1>2 DEF got
<1>4. \A k \in Links \ {l} : got'[k] = got[k]
  BY <1>1 DEF got
<1>5. got' = [got EXCEPT ![l] = "none"]
  BY <1>3, <1>4 DEF got
<1>6. CASE call[l] # NoCall
  BY <1>1, <1>5, <1>6 DEF R!End
<1>7. CASE call[l] = NoCall
  <2>1. got[l] = "none"
    BY <1>0, <1>7, GotNone DEF CallInv
  <2>2. got' = got
    BY <1>5, <2>1, GotShape
  <2>3. call' = call
    BY <1>0, <1>1, <1>7 DEF TypeOK, LinkTypeOK
  <2> QED
    BY <2>2, <2>3 DEF R!rpcVars
<1> QED
  BY <1>6, <1>7

LEMMA LinkReaderIsReply ==
  ASSUME IInv, NEW l \in Links, LinkReader(l), UNCHANGED <<muxVars, devVars>>
  PROVE  R!Reply(l) \/ R!End(l) \/ UNCHANGED R!rpcVars
<1>0. TypeOK /\ CallInv /\ OwnAnswer
  BY DEF IInv
<1> DEFINE m == Head(down[l])
<1>1. CASE m.i \in DOMAIN waiting[l] /\ waiting[l][m.i] # Event
  <2>1. Leave(l) /\ UNCHANGED done
    BY <1>1 DEF LinkReader, devVars
  <2> QED
    BY <2>1, DoneIsEnd DEF Leave
<1>2. CASE m.i \notin DOMAIN waiting[l]
  BY <1>2, RpcStutter DEF LinkReader, devVars
<1>3. CASE m.i \in DOMAIN waiting[l] /\ waiting[l][m.i] = Event
  <2>1. /\ down[l] # <<>>
        /\ waiting' = [waiting EXCEPT ![l][m.i] = Answer(m)]
        /\ UNCHANGED <<seq, call, done>>
    BY <1>3 DEF LinkReader, devVars
  <2>2. m \in RepMsg /\ m \in Range(down[l])
    BY <1>0, <2>1, Queues, TailLemma
  <2>3. Genuine(m) /\ m.d.from = l /\ m.i = m.d.n
    BY <2>2 DEF IInv, RequestInv, DownInv
  <2>4. DOMAIN waiting[l] = {m.i} /\ m.i = call[l].n
    BY <1>0, <1>3 DEF OwnAnswer
  <2>5. m.d = call[l] /\ m.k = Kind(call[l].op) /\ call[l] \in Range(done[l])
    BY <2>3, <2>4 DEF Genuine, Honest
  <2>6. /\ waiting'[l] = [waiting[l] EXCEPT ![m.i] = Answer(m)]
        /\ \A k \in Links \ {l} : waiting'[k] = waiting[k]
    BY <1>0, <2>1 DEF TypeOK, LinkTypeOK
  <2>7. got[l] = "none"
    BY <1>3, <2>4, GotNone
  <2>8. got'[l] = Kind(call[l].op)
    <3>1. m.k \in {"r", "e"} /\ Answer(m).k = m.k /\ Answer(m) # Event
      BY <2>2 DEF RepMsg, Answer, Event
    <3>2. DOMAIN waiting'[l] = {m.i} /\ waiting'[l][m.i] = Answer(m)
      BY <2>4, <2>6
    <3>3. call'[l].n = m.i
      BY <2>1, <2>4
    <3>4. ~ \A n \in DOMAIN waiting'[l] : waiting'[l][n] = Event
      BY <3>1, <3>2
    <3>5. got'[l] = waiting'[l][call'[l].n].k
      BY <3>4 DEF got
    <3> QED
      BY <2>5, <3>1, <3>2, <3>3, <3>5
  <2>9. \A k \in Links \ {l} : got'[k] = got[k]
    BY <2>1, <2>6 DEF got
  <2>10. got' = [got EXCEPT ![l] = Kind(call[l].op)]
    BY <2>8, <2>9 DEF got
  <2>11. R!Range([k \in Links |-> done[k]][l]) = Range(done[l])
    BY RangeLemma
  <2>12. R!Reply(l)
    BY <2>1, <2>5, <2>7, <2>10, <2>11 DEF R!Reply
  <2> QED
    BY <2>12
<1> QED
  BY <1>1, <1>2, <1>3

LEMMA LinkActRpc ==
  ASSUME IInv, LinkAct
  PROVE  R!Next \/ UNCHANGED R!rpcVars
<1> PICK l \in Links : LinkStep(l)
  BY DEF LinkAct
<1>1. UNCHANGED <<muxVars, devVars>> /\ UNCHANGED done
  BY DEF LinkAct, devVars
<1>2. CASE Connect(l)
  <2>1. UNCHANGED <<seq, call, waiting, done>>
    BY <1>1, <1>2 DEF Connect, linkVars
  <2> QED
    BY <2>1, RpcStutter
<1>3. CASE \E op \in Ops : Send(l, op)
  BY <1>1, <1>3, SendIsCall DEF R!Next
<1>4. CASE Return(l) \/ Abort(l) \/ LinkEOF(l) \/ Close(l)
  <2>1. Done(l) /\ UNCHANGED seq
    BY <1>4 DEF Return, Abort, LinkEOF, Close, Leave
  <2> QED
    BY <1>1, <2>1, DoneIsEnd DEF R!Next
<1>5. CASE LinkReader(l)
  BY <1>1, <1>5, LinkReaderIsReply DEF R!Next
<1> QED
  BY <1>2, <1>3, <1>4, <1>5 DEF LinkStep

-----------------------------------------------------------------------------
(* The steps of the device: a handler that runs for a Link is a Run of Rpc *)
(* because of OInv, one that runs for the watchdog is nothing to Rpc.      *)

LEMMA ProcessIsRun ==
  ASSUME IInv, OInv, NEW m \in ReqMsg, Processed(m)
  PROVE  R!Next \/ UNCHANGED R!rpcVars
<1>0. TypeOK
  BY DEF IInv
<1>1. /\ toDev # <<>> /\ m = Head(toDev)
      /\ UNCHANGED <<waiting, call, seq>>
      /\ \/ UNCHANGED done
         \/ done' = [done EXCEPT ![m.d.from] = Append(@, m.d)]
  BY DEF Processed
<1>2. CASE UNCHANGED done
  BY <1>1, <1>2, RpcStutter
<1>3. CASE done' = [done EXCEPT ![m.d.from] = Append(@, m.d)]
  <2>1. done \in [Peers -> Seq(Request)] /\ toDev \in Seq(ReqMsg)
    BY <1>0, Queues
  <2>2. m \in Range(toDev)
    BY <1>1, <2>1, TailLemma
  <2>3. Past(m) /\ Honest(m.d) /\ m.d \in Request
    BY <2>2 DEF OInv, PastInv, IInv, RequestInv, ToDevInv, ReqMsg
  <2>4. CASE m.d.from = Chat
    <3>1. \A l \in Links : done'[l] = done[l]
      BY <1>3, <2>1, <2>4, WireAssumption DEF Peers
    <3> QED
      BY <1>1, <3>1, GotFrame DEF R!rpcVars
  <2>5. CASE m.d.from \in Links
    <3> PICK l \in Links : l = m.d.from
      BY <2>5
    <3>1. /\ done'[l] = Append(done[l], m.d)
          /\ \A k \in Links \ {l} : done'[k] = done[k]
      BY <1>3, <2>1 DEF Peers
    <3>2. /\ [k \in Links |-> done[k]]'
                = [[k \in Links |-> done[k]] EXCEPT ![l] = Append(@, m.d)]
          /\ [k \in Links |-> done[k]][l] = done[l]
      BY <3>1
    <3>3. m.d.n \in 1 .. seq[l]
      BY <1>0, <2>3 DEF Honest, Request, TypeOK, LinkTypeOK
    <3>4. m.d \in R!Requests(l, m.d.n)
      BY <2>3 DEF R!Requests, Request
    <3>5. \A r \in R!Range([k \in Links |-> done[k]][l]) : r.n < m.d.n
      BY <2>3, RangeLemma DEF Past
    <3>6. call[l].n = m.d.n => call[l] = m.d
      BY <2>3 DEF Honest
    <3>7. UNCHANGED <<seq, call, got>>
      BY <1>1, GotFrame
    <3>8. call[l] # NoCall /\ call[l].n = m.d.n => call[l] = m.d
      BY <3>6
    <3>9. R!Run(l)
      BY <3>2, <3>3, <3>4, <3>5, <3>7, <3>8 DEF R!Run
    <3> QED
      BY <3>9 DEF R!Next
  <2> QED
    BY <2>3, <2>4, <2>5 DEF Request, Peers
<1> QED
  BY <1>1, <1>2, <1>3

LEMMA DevActRpc ==
  ASSUME IInv, OInv, DevAct
  PROVE  R!Next \/ UNCHANGED R!rpcVars
<1>1. DevStep /\ UNCHANGED <<linkVars, muxVars>>
  BY DEF DevAct
<1>2. CASE SchedRead \/ ReadStart \/ ReadEnd
  <2>1. UNCHANGED <<seq, call, waiting, done>>
    BY <1>1, <1>2 DEF SchedRead, ReadStart, ReadEnd, linkVars
  <2> QED
    BY <2>1, RpcStutter
<1>3. CASE ProcessReply \/ ProcessQuiet \/ ProcessRaise \/ ProcessUnknown
  <2>1. PICK m \in ReqMsg : Processed(m)
    BY <1>1, <1>3, ProcessEffect
  <2> QED
    BY <2>1, ProcessIsRun
<1> QED
  BY <1>1, <1>2, <1>3 DEF DevStep

-----------------------------------------------------------------------------
LEMMA InitRpc == Init => R!Init
<1> SUFFICES ASSUME Init PROVE R!Init
  OBVIOUS
<1>1. /\ seq = [l \in Links |-> 0] /\ call = [l \in Links |-> NoCall]
      /\ waiting = [l \in Links |-> Nothing] /\ done = [p \in Peers |-> <<>>]
  BY DEF Init, LinkInit, DevInit
<1>2. \A l \in Links : got[l] = "none"
  BY <1>1, NothingLemma, GotNone
<1>3. got = [l \in Links |-> "none"]
  BY <1>2, GotShape
<1>4. [l \in Links |-> done[l]] = [l \in Links |-> <<>>]
  BY <1>1 DEF Peers
<1> QED
  BY <1>1, <1>3, <1>4 DEF R!Init

LEMMA NextRpc == IInv /\ OInv /\ [Next]_vars => [R!Next]_(R!rpcVars)
<1> SUFFICES ASSUME IInv, OInv, [Next]_vars PROVE R!Next \/ UNCHANGED R!rpcVars
  OBVIOUS
<1>1. CASE MuxAct \/ NetAct \/ UNCHANGED vars
  <2>1. UNCHANGED <<seq, call, waiting, done>>
    BY <1>1 DEF MuxAct, NetAct, vars, linkVars, devVars
  <2> QED
    BY <2>1, RpcStutter
<1> QED
  BY <1>1, LinkActRpc, DevActRpc DEF Next

(* The whole request path - numbering, the two rewritings of the id, the   *)
(* queues, clients that come and go, a multiplexer that ends - is to each  *)
(* client what Rpc promises: its calls run in order, at most once, and are *)
(* answered by nothing but their own run.                                  *)
THEOREM Implements == Spec => RpcSpec
<1>1. Init => R!Init
  BY InitRpc
<1>2. IInv /\ OInv /\ [Next]_vars => [R!Next]_(R!rpcVars)
  BY NextRpc
<1> QED
  BY <1>1, <1>2, Invariance, OrderInvariance, PTL DEF Spec, RpcSpec, R!Spec

=============================================================================
