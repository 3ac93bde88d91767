--------------------------- MODULE RequestPathInv ---------------------------
(***************************************************************************)
(* The inductive invariant of RequestPath, in named parts.  The properties *)
(* of RequestPath are not inductive as they stand: an answer is the right  *)
(* one because of where ids and requests are on the whole way.             *)
(***************************************************************************)
EXTENDS RequestPath

(* A Link has exactly one Event or answer during a call, none otherwise.   *)
CallInv ==
  \A l \in Links :
    IF call[l] = NoCall
    THEN DOMAIN waiting[l] = {}
    ELSE /\ call[l] \in Request
         /\ call[l].from = l
         /\ call[l].n = seq[l]
         /\ DOMAIN waiting[l] = {seq[l]}

(* A request that exists was made by its peer: its number has been given   *)
(* out, and if it is the number of a current call it is that call.         *)
Honest(d) ==
  /\ d.from \in Links => /\ d.n <= seq[d.from]
                         /\ d.n = call[d.from].n => d = call[d.from]
  /\ d.from = Chat => d.n <= chat.n

(* A reply says how a request that has run did end.                        *)
Genuine(m) ==
  /\ Honest(m.d)
  /\ m.k = Kind(m.d.op)
  /\ m.d \in Range(done[m.d.from])

UpInv    == \A l \in Links : \A m \in Range(up[l]) :
              Honest(m.d) /\ m.d.from = l /\ m.i = m.d.n
SendqInv == \A m \in Range(sendq) : Honest(m.d)
ToDevInv == \A m \in Range(toDev) : Honest(m.d)
DoneInv  == \A p \in Peers : \A r \in Range(done[p]) : Honest(r) /\ r.from = p
FromDevInv == \A m \in Range(fromDev) : Genuine(m)
ReplyInv == reply # <<>> => /\ Genuine(reply[1])
                            /\ reply[1].to = reply[1].d.from
                            /\ reply[1].i = reply[1].d.n
DownInv  == \A l \in Links : \A m \in Range(down[l]) :
              Genuine(m) /\ m.d.from = l /\ m.i = m.d.n

RequestInv == /\ UpInv /\ SendqInv /\ ToDevInv /\ DoneInv
              /\ FromDevInv /\ ReplyInv /\ DownInv

(* Stream ids belong to one peer for good, and a client that has not been  *)
(* accepted has none.                                                      *)
StreamInv ==
  /\ \A s \in DOMAIN streams : sidOf[streams[s]] = s
  /\ \A p, q \in Peers : sidOf[p] = sidOf[q] /\ sidOf[p] # 0 => p = q
  /\ \A l \in Links : msock[l] = "none" => sidOf[l] = 0
  /\ \A l \in Links : msock[l] = "open" => sidOf[l] # 0
  /\ Watchdog => sidOf[Chat] # 0

(* Message ids grow along the connection: those answered are below those   *)
(* the device has yet to process, and these are below those in the queue.  *)
Rising(s) == \A a, b \in 1 .. Len(s) : a < b => s[a].i < s[b].i
Under(s, t) == \A a \in 1 .. Len(s) : \A b \in 1 .. Len(t) : s[a].i < t[b].i

MidInv ==
  /\ Rising(sendq) /\ Rising(toDev) /\ Rising(fromDev)
  /\ Under(fromDev, toDev) /\ Under(toDev, sendq) /\ Under(fromDev, sendq)
  /\ \A m \in OnTheWay : m.i <= next_mid

(* The numbers of a peer's requests grow on the way to the device.         *)
Before(s, t) ==
  \A a \in 1 .. Len(s) : \A b \in 1 .. Len(t) :
    s[a].d.from = t[b].d.from => s[a].d.n < t[b].d.n
InOrder(s) ==
  \A a, b \in 1 .. Len(s) :
    a < b /\ s[a].d.from = s[b].d.from => s[a].d.n < s[b].d.n

ForthInv ==
  /\ InOrder(sendq) /\ InOrder(toDev) /\ Before(toDev, sendq)
  /\ \A l \in Links : /\ InOrder(up[l])
                      /\ Before(sendq, up[l])
                      /\ Before(toDev, up[l])

(* What has run is over: its number is below all that are still to come.   *)
Past(m) == \A r \in Range(done[m.d.from]) : r.n < m.d.n
PastInv ==
  /\ \A m \in Range(toDev) \cup Range(sendq) : Past(m)
  /\ \A l \in Links : \A m \in Range(up[l]) : Past(m)

(* And so they do on the way back; the answer a Link holds is not among    *)
(* them any more.                                                          *)
Answered(l) == \E n \in DOMAIN waiting[l] : waiting[l][n] # Event

BackInv ==
  /\ InOrder(fromDev)
  /\ Before(reply, fromDev)
  /\ \A l \in Links :
       /\ InOrder(down[l])
       /\ Before(down[l], reply)
       /\ Before(down[l], fromDev)
       /\ Answered(l) =>
            \A m \in Range(down[l]) \cup Range(reply) \cup Range(fromDev) :
              m.d # call[l]

IInv ==
  /\ TypeOK
  /\ CallInv
  /\ OwnAnswer
  /\ RequestInv
  /\ StreamInv
  /\ MidInv
  /\ Routable

OInv == ForthInv /\ PastInv /\ ExecutedInOrder /\ BackInv

=============================================================================
