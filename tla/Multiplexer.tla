----------------------------- MODULE Multiplexer -----------------------------
(***************************************************************************)
(* microfuse/multiplex.py: the request path of the multiplexer.  A Stream  *)
(* reads a client's requests and submits them one after the other; submit  *)
(* gives each a fresh id, notes in mseq whom the answer is for, and queues *)
(* for the _send_lock of the connection.  The connection's reader looks a  *)
(* reply's id up and passes it on.  The watchdog is a client of its own.   *)
(***************************************************************************)
EXTENDS Wire

VARIABLES
  streams,      \* stream id -> peer, for the attached peers
  sidOf,        \* sidOf[p]: p's _mplex_sid, 0 before it is attached
  next_stream,  \* the last stream id
  next_mid,     \* the last message id
  mseq,         \* message id -> <<stream id, number there>>
  sendq,        \* messages of the tasks that hold or await _send_lock
  reply,        \* the reply the reader is passing on, if any
  chat          \* the watchdog's chat: its number and how far it is

muxVars == <<streams, sidOf, next_stream, next_mid, mseq, sendq, reply, chat>>

MuxInit ==
  /\ next_mid = 0
  /\ mseq     = Nothing
  /\ sendq    = <<>>
  /\ reply    = <<>>
  /\ chat     = [n |-> 0, st |-> "idle"]
  /\ sidOf    = [p \in Peers |-> IF Watchdog /\ p = Chat THEN 1 ELSE 0]
  /\ next_stream = IF Watchdog THEN 1 ELSE 0
  /\ streams  = [s \in 1 .. next_stream |-> Chat]

ChatStates == {"idle", "wait", "got"}

Routed == [to : Peers, k : {"r", "e"}, i : Nat \ {0}, d : Request]

MuxTypeOK ==
  /\ next_stream \in Nat
  /\ next_mid \in Nat
  /\ sidOf \in [Peers -> 0 .. next_stream]
  /\ DOMAIN streams \subseteq 1 .. next_stream
  /\ streams \in [DOMAIN streams -> Peers]
  /\ DOMAIN mseq \subseteq 1 .. next_mid
  /\ mseq \in [DOMAIN mseq -> (1 .. next_stream) \X (Nat \ {0})]
  /\ sendq \in Seq(ReqMsg)
  /\ reply \in Seq(Routed)
  /\ Len(reply) <= 1
  /\ chat  \in [n : Nat, st : ChatStates]

-----------------------------------------------------------------------------
(* The tasks waiting in submit(): while p has one, its reader reads nothing.*)
Busy(p) == \E m \in Range(sendq) : m.d.from = p

(* Mutant of submit: the counter of message ids is not advanced.           *)
submitSameId(p, i, d) ==
  /\ next_mid' = 1
  /\ mseq'     = With(mseq, next_mid', <<sidOf[p], i>>)
  /\ sendq'    = Append(sendq, [i |-> next_mid', d |-> d])

submit(p, i, d) ==
  /\ next_mid' = next_mid + 1
  /\ mseq'     = With(mseq, next_mid', <<sidOf[p], i>>)
  /\ sendq'    = Append(sendq, [i |-> next_mid', d |-> d])

(* Mutant of Attach: the id of a stream that has gone is given out again.  *)
AttachLowestFree(p) ==
  LET sid == CHOOSE s \in 1 .. next_stream + 1 :
               /\ s \notin DOMAIN streams
               /\ \A t \in 1 .. s - 1 : t \in DOMAIN streams
  IN  /\ next_stream' = IF sid > next_stream THEN sid ELSE next_stream
      /\ sidOf'   = [sidOf EXCEPT ![p] = sid]
      /\ streams' = With(streams, sid, p)

(* _attached, for a stream or a chat.                                      *)
Attach(p) ==
  /\ next_stream' = next_stream + 1
  /\ sidOf'   = [sidOf EXCEPT ![p] = next_stream']
  /\ streams' = With(streams, next_stream', p)

(* _handle_stream: the listener accepts a client.                          *)
HandleStream(l) ==
  /\ alive
  /\ lsock[l] # "none"
  /\ msock[l] = "none"
  /\ msock' = [msock EXCEPT ![l] = "open"]
  /\ Attach(l)
  /\ UNCHANGED <<alive, lsock, up, down, tcpVars,
                 next_mid, mseq, sendq, reply, chat>>

(* Stream._reader and Stream._process.                                     *)
StreamRead(l) ==
  /\ alive
  /\ msock[l] = "open"
  /\ up[l] # <<>>
  /\ ~Busy(l)
  /\ submit(l, Head(up[l]).i, Head(up[l]).d)
  /\ up' = [up EXCEPT ![l] = Tail(@)]
  /\ UNCHANGED <<alive, lsock, msock, down, tcpVars,
                 streams, sidOf, next_stream, reply, chat>>

(* Stream._reader meets the end of the stream: _attached and Stream.run    *)
(* clean up.  mseq keeps the entries of the stream.                        *)
StreamEOF(l) ==
  /\ alive
  /\ msock[l] = "open"
  /\ lsock[l] = "closed"
  /\ up[l] = <<>>
  /\ ~Busy(l)
  /\ msock'   = [msock EXCEPT ![l] = "closed"]
  /\ streams' = Without(streams, sidOf[l])
  /\ UNCHANGED <<alive, lsock, up, down, tcpVars,
                 sidOf, next_stream, next_mid, mseq, sendq, reply, chat>>

(* Mutant of SendOut: the message stays in the queue and is sent again.    *)
SendOutKeeps ==
  /\ alive
  /\ dsock = "open"
  /\ sendq # <<>>
  /\ toDev' = Append(toDev, Head(sendq))
  /\ UNCHANGED <<alive, unixVars, dsock, fromDev, muxVars>>

(* Multiplexer.send: the first task in the queue sends and goes on.        *)
SendOut ==
  /\ alive
  /\ dsock = "open"
  /\ sendq # <<>>
  /\ toDev' = Append(toDev, Head(sendq))
  /\ sendq' = Tail(sendq)
  /\ UNCHANGED <<alive, unixVars, dsock, fromDev, streams, sidOf,
                 next_stream, next_mid, mseq, reply, chat>>

(* Mutant of MuxRead: the id is looked up but left in mseq.                *)
MuxReadKeeps ==
  /\ alive
  /\ fromDev # <<>>
  /\ reply = <<>>
  /\ fromDev' = Tail(fromDev)
  /\ LET m     == Head(fromDev)
         known == m.i \in DOMAIN mseq /\ mseq[m.i][1] \in DOMAIN streams
     IN  reply' = IF known
                  THEN <<[to |-> streams[mseq[m.i][1]], k |-> m.k,
                          i |-> mseq[m.i][2], d |-> m.d]>>
                  ELSE <<>>
  /\ UNCHANGED <<alive, unixVars, dsock, toDev, streams, sidOf, next_stream,
                 next_mid, mseq, sendq, chat>>

(* cmd_r, cmd_e: the id is taken out of mseq; an id that is not there, or  *)
(* a stream that has gone, is logged and the reply dropped.                *)
MuxRead ==
  /\ alive
  /\ fromDev # <<>>
  /\ reply = <<>>
  /\ fromDev' = Tail(fromDev)
  /\ LET m     == Head(fromDev)
         known == m.i \in DOMAIN mseq /\ mseq[m.i][1] \in DOMAIN streams
     IN  /\ mseq'  = Without(mseq, m.i)
         /\ reply' = IF known
                     THEN <<[to |-> streams[mseq[m.i][1]], k |-> m.k,
                             i |-> mseq[m.i][2], d |-> m.d]>>
                     ELSE <<>>
  /\ UNCHANGED <<alive, unixVars, dsock, toDev, streams, sidOf, next_stream,
                 next_mid, sendq, chat>>

(* Stream.send: to a closed socket it fails, which cmd_r logs.             *)
DeliverStream(l) ==
  /\ alive
  /\ reply # <<>>
  /\ reply[1].to = l
  /\ reply' = <<>>
  /\ down'  = IF msock[l] = "open" /\ lsock[l] = "open"
              THEN [down EXCEPT ![l] = Append(@, [k |-> reply[1].k,
                                    i |-> reply[1].i, d |-> reply[1].d])]
              ELSE down
  /\ UNCHANGED <<alive, lsock, msock, up, tcpVars, streams, sidOf,
                 next_stream, next_mid, mseq, sendq, chat>>

(* ChatObj.send: wakes the task that waits for this answer.                *)
DeliverChat ==
  /\ alive
  /\ reply # <<>>
  /\ reply[1].to = Chat
  /\ reply' = <<>>
  /\ chat'  = IF chat.st = "wait" /\ reply[1].i = chat.n
              THEN [chat EXCEPT !.st = "got"]
              ELSE chat
  /\ UNCHANGED <<wireVars, streams, sidOf, next_stream, next_mid, mseq, sendq>>

(* _watchdog, after its sleep: chat(a="p", w=True).                        *)
ChatPing ==
  /\ alive
  /\ Watchdog
  /\ chat.st = "idle"
  /\ chat.n < MaxPing
  /\ chat' = [n |-> chat.n + 1, st |-> "wait"]
  /\ submit(Chat, chat'.n, [from |-> Chat, n |-> chat'.n, op |-> "ok"])
  /\ UNCHANGED <<wireVars, streams, sidOf, next_stream, reply>>

ChatReturn ==
  /\ alive
  /\ chat.st = "got"
  /\ chat' = [chat EXCEPT !.st = "idle"]
  /\ UNCHANGED <<wireVars, streams, sidOf, next_stream, next_mid, mseq, sendq,
                 reply>>

(* An exception reaches the task group of Multiplexer.run: every task is   *)
(* cancelled, every socket closed, and the process ends.                   *)
Shut ==
  /\ alive'   = FALSE
  /\ msock'   = [l \in Links |-> "closed"]
  /\ up'      = [l \in Links |-> <<>>]
  /\ dsock'   = "closed"
  /\ fromDev' = <<>>
  /\ streams' = Nothing
  /\ mseq'    = Nothing
  /\ sendq'   = <<>>
  /\ reply'   = <<>>
  /\ chat'    = [chat EXCEPT !.st = "idle"]
  /\ UNCHANGED <<lsock, down, toDev, sidOf, next_stream, next_mid>>

(* Mutant of ChatTimeout: the timer does not cover the wait for the answer.*)
ChatTimeoutLate ==
  /\ alive
  /\ chat.st = "got"
  /\ Shut

(* fail_after(2) in the watchdog.                                          *)
ChatTimeout ==
  /\ alive
  /\ chat.st = "wait"
  /\ Shut

(* Multiplexer._reader finds that the connection is gone.                  *)
MuxDown ==
  /\ alive
  /\ dsock = "closed"
  /\ reply = <<>>
  /\ Shut

MuxStep ==
  \/ \E l \in Links : \/ HandleStream(l)
                      \/ StreamRead(l)
                      \/ StreamEOF(l)
                      \/ DeliverStream(l)
  \/ SendOut
  \/ MuxRead
  \/ DeliverChat
  \/ ChatPing
  \/ ChatReturn
  \/ ChatTimeout
  \/ MuxDown

=============================================================================
