-------------------------------- MODULE Link --------------------------------
(***************************************************************************)
(* microfuse/link.py: the client's end.  Link.send numbers a request,      *)
(* leaves an Event in `waiting` under that number, sends it and waits; the *)
(* task _reader replaces the Event with the answer.  The _send_lock is     *)
(* held from the numbering to the answer, so a Link has one call at a time.*)
(***************************************************************************)
EXTENDS Wire

VARIABLES
  seq,      \* seq[l]: the number of l's last request
  call,     \* call[l]: the request whose send() holds l's _send_lock
  waiting   \* waiting[l]: number -> Event, or the answer that replaced it

linkVars == <<seq, call, waiting>>

Event == [k |-> "evt", d |-> NoCall]
Answer(m) == [k |-> m.k, d |-> m.d]
Slot  == {Event} \cup [k : {"r", "e"}, d : Request]

LinkInit ==
  /\ seq     = [l \in Links |-> 0]
  /\ call    = [l \in Links |-> NoCall]
  /\ waiting = [l \in Links |-> Nothing]

LinkTypeOK ==
  /\ seq  \in [Links -> Nat]
  /\ call \in [Links -> Request \cup {NoCall}]
  /\ DOMAIN waiting = Links
  /\ \A l \in Links :
       waiting[l] \in [{} -> Slot] \cup [{seq[l]} -> Slot]

(* Mutant of Done: the `finally` clause forgets `waiting`.                 *)
DoneKeepsEntry(l) ==
  /\ call' = [call EXCEPT ![l] = NoCall]
  /\ UNCHANGED waiting

(* send() has returned, raised or been cancelled: its `finally` clause.    *)
Done(l) ==
  /\ call'    = [call EXCEPT ![l] = NoCall]
  /\ waiting' = [waiting EXCEPT ![l] = Without(@, call[l].n)]

(* The context manager is left: the reader is cancelled, so is a send that *)
(* is still waiting, and the socket is closed with what is unread in it.   *)
Leave(l) ==
  /\ lsock' = [lsock EXCEPT ![l] = "closed"]
  /\ down'  = [down EXCEPT ![l] = <<>>]
  /\ Done(l)
  /\ UNCHANGED <<alive, msock, up, tcpVars, seq>>

-----------------------------------------------------------------------------
Connect(l) ==
  /\ alive
  /\ lsock[l] = "none"
  /\ lsock' = [lsock EXCEPT ![l] = "open"]
  /\ UNCHANGED <<alive, msock, up, down, tcpVars, linkVars>>

(* Mutant of Send: a number is used again once its call is over.           *)
SendReusesSeq(l, op) ==
  /\ lsock[l] = "open"
  /\ call[l] = NoCall
  /\ seq' = [seq EXCEPT ![l] = 1]
  /\ LET req == [from |-> l, n |-> seq'[l], op |-> op]
     IN  /\ call'    = [call EXCEPT ![l] = req]
         /\ waiting' = [waiting EXCEPT ![l] = With(@, seq'[l], Event)]
         /\ up'      = [up EXCEPT ![l] = Append(@, [i |-> seq'[l], d |-> req])]
  /\ UNCHANGED <<alive, lsock, msock, down, tcpVars>>

Send(l, op) ==
  /\ lsock[l] = "open"
  /\ call[l] = NoCall
  /\ seq[l] < MaxSeq
  /\ seq' = [seq EXCEPT ![l] = @ + 1]
  /\ LET req == [from |-> l, n |-> seq'[l], op |-> op]
     IN  /\ call'    = [call EXCEPT ![l] = req]
         /\ waiting' = [waiting EXCEPT ![l] = With(@, seq'[l], Event)]
         /\ up'      = [up EXCEPT ![l] = Append(@, [i |-> seq'[l], d |-> req])]
  /\ UNCHANGED <<alive, lsock, msock, down, tcpVars>>

(* evt.wait() returns, and send() returns or raises what it finds.         *)
Return(l) ==
  /\ call[l].n \in DOMAIN waiting[l]
  /\ waiting[l][call[l].n] # Event
  /\ Done(l)
  /\ UNCHANGED <<wireVars, seq>>

(* The caller gives up: the fail_after of ping(), or a cancelled task.     *)
Abort(l) ==
  /\ call[l] # NoCall
  /\ Done(l)
  /\ UNCHANGED <<wireVars, seq>>

(* _reader, _process and _cmd_r.  A reply nobody waits for is ignored; one *)
(* that finds an answer instead of an Event fails at evt.set(), which ends *)
(* the reader and with it the connection.                                  *)
LinkReader(l) ==
  /\ lsock[l] = "open"
  /\ down[l] # <<>>
  /\ LET m == Head(down[l])
     IN  IF m.i \in DOMAIN waiting[l] /\ waiting[l][m.i] # Event
         THEN Leave(l)
         ELSE /\ down' = [down EXCEPT ![l] = Tail(@)]
              /\ waiting' = IF m.i \in DOMAIN waiting[l]
                            THEN [waiting EXCEPT ![l][m.i] = Answer(m)]
                            ELSE waiting
              /\ UNCHANGED <<alive, lsock, msock, up, tcpVars, seq, call>>

(* sock.receive() raises EndOfStream in the reader.                        *)
LinkEOF(l) ==
  /\ lsock[l] = "open"
  /\ msock[l] = "closed"
  /\ down[l] = <<>>
  /\ Leave(l)

(* The client program leaves the context.                                  *)
Close(l) ==
  /\ lsock[l] = "open"
  /\ Leave(l)

LinkStep(l) ==
  \/ Connect(l)
  \/ \E op \in Ops : Send(l, op)
  \/ Return(l)
  \/ Abort(l)
  \/ LinkReader(l)
  \/ LinkEOF(l)
  \/ Close(l)

=============================================================================
