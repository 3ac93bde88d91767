----------------------------- MODULE RequestPath -----------------------------
(***************************************************************************)
(* The request path of microfuse: Links, the Multiplexer and the device's  *)
(* UFuseClient, composed over the channels of module Wire.                 *)
(***************************************************************************)
EXTENDS Link, Multiplexer, UFuseClient

vars == <<wireVars, linkVars, muxVars, devVars>>

Init == WireInit /\ LinkInit /\ MuxInit /\ DevInit

(* The TCP connection breaks; either side may or may not see what is still *)
(* under way.                                                              *)
ConnLost ==
  /\ dsock = "open"
  /\ dsock' = "closed"
  /\ UNCHANGED <<alive, unixVars, toDev, fromDev>>

LinkAct == (\E l \in Links : LinkStep(l)) /\ UNCHANGED <<muxVars, devVars>>
MuxAct  == MuxStep /\ UNCHANGED <<linkVars, devVars>>
DevAct  == DevStep /\ UNCHANGED <<linkVars, muxVars>>
NetAct  == ConnLost /\ UNCHANGED <<linkVars, muxVars, devVars>>

Next == LinkAct \/ MuxAct \/ DevAct \/ NetAct

Spec == Init /\ [][Next]_vars

-----------------------------------------------------------------------------
(* Fairness.  The event loop of each program runs every task that is ready *)
(* to run, and MicroPython its scheduled callbacks.  Nobody is forced to   *)
(* make a call, to give one up, to connect or to leave.                    *)
LinkFair ==
  \A l \in Links : /\ WF_vars(Return(l) /\ UNCHANGED <<muxVars, devVars>>)
                   /\ WF_vars(LinkReader(l) /\ UNCHANGED <<muxVars, devVars>>)
                   /\ WF_vars(LinkEOF(l) /\ UNCHANGED <<muxVars, devVars>>)

MuxFair ==
  /\ \A l \in Links :
       /\ WF_vars(HandleStream(l) /\ UNCHANGED <<linkVars, devVars>>)
       /\ WF_vars(StreamRead(l) /\ UNCHANGED <<linkVars, devVars>>)
       /\ WF_vars(DeliverStream(l) /\ UNCHANGED <<linkVars, devVars>>)
  /\ WF_vars(SendOut /\ UNCHANGED <<linkVars, devVars>>)
  /\ WF_vars(MuxRead /\ UNCHANGED <<linkVars, devVars>>)
  /\ WF_vars(DeliverChat /\ UNCHANGED <<linkVars, devVars>>)
  /\ WF_vars(ChatReturn /\ UNCHANGED <<linkVars, devVars>>)
  /\ WF_vars(MuxDown /\ UNCHANGED <<linkVars, devVars>>)

DevFair == WF_vars(DevAct)

(* The watchdog's sleep() and fail_after() end.                            *)
TimerFair ==
  /\ WF_vars(ChatPing /\ UNCHANGED <<linkVars, devVars>>)
  /\ WF_vars(ChatTimeout /\ UNCHANGED <<linkVars, devVars>>)

FairSpec  == Spec /\ LinkFair /\ MuxFair /\ DevFair
TimerSpec == FairSpec /\ TimerFair

-----------------------------------------------------------------------------
(* Every variable has its type; a Link waits for at most one number, the   *)
(* last it gave out, and stream and message ids are below their counters.  *)
TypeOK == WireTypeOK /\ LinkTypeOK /\ MuxTypeOK /\ DevTypeOK

(* What Link.send finds in place of its Event is the device's answer to    *)
(* the very request it has sent, and says how that request ended, although *)
(* the id is rewritten twice on the way and clients come and go.           *)
OwnAnswer ==
  \A l \in Links : \A n \in DOMAIN waiting[l] :
    /\ n = call[l].n
    /\ waiting[l][n] # Event =>
         /\ waiting[l][n] = [k |-> Kind(call[l].op), d |-> call[l]]
         /\ call[l] \in Range(done[l])

(* No reply that is on its way to a Link meets an answer instead of an     *)
(* Event: Link._cmd_r would die of it, and take the client with it.        *)
ReaderSurvives ==
  \A l \in Links : \A a \in 1 .. Len(down[l]) :
    /\ down[l][a].i \in DOMAIN waiting[l] => waiting[l][down[l][a].i] = Event
    /\ \A b \in 1 .. Len(down[l]) : down[l][a].i = down[l][b].i => a = b

(* Messages to and from the device that have not been passed on.           *)
OnTheWay == Range(sendq) \cup Range(toDev) \cup Range(fromDev)

(* While the multiplexer lives, mseq sends the reply to every request that *)
(* is queued, under way, or answered, to the peer and number it came from; *)
(* so cmd_r's lookup never fails on a reply of the device.                 *)
Routable ==
  alive => \A m \in OnTheWay :
             /\ m.i \in DOMAIN mseq
             /\ mseq[m.i] = <<sidOf[m.d.from], m.d.n>>

(* The device runs the requests of each client in the order they were made *)
(* and none of them twice.                                                 *)
ExecutedInOrder ==
  \A p \in Peers : \A a, b \in 1 .. Len(done[p]) :
    a < b => done[p][a].n < done[p][b].n

(* While the connection stands, mseq holds no entry whose reply cannot     *)
(* come any more: where every command replies, the table does not leak.    *)
NoLeak ==
  dsock = "open" => DOMAIN mseq \subseteq {m.i : m \in OnTheWay}

-----------------------------------------------------------------------------
(* The request path implements Rpc for the Links.                          *)
got ==
  [l \in Links |->
     IF \A n \in DOMAIN waiting[l] : waiting[l][n] = Event
     THEN "none" ELSE waiting[l][call[l].n].k]

R == INSTANCE Rpc WITH Clients <- Links,
                       last <- seq,
                       cur  <- call,
                       ran  <- [l \in Links |-> done[l]]

(* Each client sees calls run in order, at most once, and answered by      *)
(* nothing but their own run, whatever the other clients do.               *)
RpcSpec == R!Spec

-----------------------------------------------------------------------------
(* If every command replies, every call comes to an end: it is answered,   *)
(* or the loss of a connection ends it.                                    *)
CallEnds ==
  \A l \in Links : \A n \in 1 .. MaxSeq : call[l].n = n ~> call[l].n # n

(* A call is never stuck for good while the watchdog still sends pings,    *)
(* whatever the device's commands do: a device that does not answer ends   *)
(* the multiplexer, and that the calls.                                    *)
WatchdogRescues ==
  \A l \in Links : \A n \in 1 .. MaxSeq :
    call[l].n = n ~> call[l].n # n \/ chat.n = MaxPing

(* doc/messages.rst: "Messages with an ID get a same-ID reply."  A request *)
(* the device gets is answered as long as the connection stands.           *)
SameIdReply ==
  \A l \in Links : \A n \in 1 .. MaxSeq :
    (call[l].n = n) ~> (call[l].n # n \/ dsock = "closed")

=============================================================================
