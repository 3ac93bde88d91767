----------------------------- MODULE UFuseClient -----------------------------
(***************************************************************************)
(* embedded/ufuse.py, class UFuseClient: the device's end of the TCP       *)
(* connection.  The socket's callback schedules _read unless `_sched` says *)
(* that it is scheduled already; _read takes what has arrived into the     *)
(* unpacker, processes the messages in it, and clears `_sched` at its end. *)
(* MicroPython's scheduler runs one callback at a time.                    *)
(***************************************************************************)
EXTENDS Wire

VARIABLES
  sched,    \* the flag _sched
  pend,     \* _read is in MicroPython's scheduler queue
  reading,  \* _read is in its loop over the unpacker
  nbuf,     \* so many messages of toDev are in the unpacker already
  done      \* history: done[p], the requests of p whose handler has run

devVars == <<sched, pend, reading, nbuf, done>>

DevInit ==
  /\ sched   = FALSE
  /\ pend    = FALSE
  /\ reading = FALSE
  /\ nbuf    = 0
  /\ done    = [p \in Peers |-> <<>>]

DevTypeOK ==
  /\ sched   \in BOOLEAN
  /\ pend    \in BOOLEAN
  /\ reading \in BOOLEAN
  /\ nbuf    \in 0 .. Len(toDev)
  /\ done    \in [Peers -> Seq(Request)]

-----------------------------------------------------------------------------
(* _sched_read.  When the scheduler's queue is full the flag is reset, and *)
(* the callback comes again as long as there is unread data.               *)
SchedRead ==
  /\ Len(toDev) > nbuf
  /\ ~sched
  /\ sched' = TRUE
  /\ pend'  = TRUE
  /\ UNCHANGED <<wireVars, reading, nbuf, done>>

(* _read up to the loop.                                                   *)
ReadStart ==
  /\ pend
  /\ pend'    = FALSE
  /\ reading' = TRUE
  /\ \E b \in nbuf + 1 .. Len(toDev) : nbuf' = b
  /\ UNCHANGED <<wireVars, sched, done>>

(* The next message of the loop, with the command's outcome.               *)
Take(outcomes) ==
  /\ reading
  /\ nbuf > 0
  /\ Head(toDev).d.op \in outcomes
  /\ toDev' = Tail(toDev)
  /\ nbuf'  = nbuf - 1

Ran == done' = [done EXCEPT ![Head(toDev).d.from] = Append(@, Head(toDev).d)]

(* UFuseClient.send: a reply with the message's own id.                    *)
send(k) ==
  fromDev' = IF dsock = "open"
             THEN Append(fromDev, [k |-> k, i |-> Head(toDev).i,
                                   d |-> Head(toDev).d])
             ELSE fromDev

(* _process when the handler returns a value or raises ServerError.        *)
ProcessReply ==
  /\ Take({"ok", "serr"})
  /\ Ran
  /\ send(Kind(Head(toDev).d.op))
  /\ UNCHANGED <<alive, unixVars, dsock, sched, pend, reading>>

(* _process when the handler returns IsHandled.                            *)
ProcessQuiet ==
  /\ Take({"quiet"})
  /\ Ran
  /\ UNCHANGED <<alive, unixVars, dsock, fromDev, sched, pend, reading>>

(* _process when the handler raises anything else: an error reply, and the *)
(* exception leaves _read, which never gets to resetting _sched.           *)
ProcessRaise ==
  /\ Take({"exc"})
  /\ Ran
  /\ send(Kind("exc"))
  /\ reading' = FALSE
  /\ UNCHANGED <<alive, unixVars, dsock, sched, pend>>

(* UnknownCommand is raised outside of the try: no reply, and _read ends.  *)
ProcessUnknown ==
  /\ Take({"unk"})
  /\ reading' = FALSE
  /\ UNCHANGED <<alive, unixVars, dsock, fromDev, sched, pend, done>>

(* Mutant of ReadEnd: the flag is not reset.                               *)
ReadEndKeepsFlag ==
  /\ reading
  /\ nbuf = 0
  /\ reading' = FALSE
  /\ UNCHANGED <<wireVars, sched, pend, nbuf, done>>

(* The loop is done.                                                       *)
ReadEnd ==
  /\ reading
  /\ nbuf = 0
  /\ reading' = FALSE
  /\ sched'   = FALSE
  /\ UNCHANGED <<wireVars, pend, nbuf, done>>

DevStep ==
  \/ SchedRead
  \/ ReadStart
  \/ ProcessReply
  \/ ProcessQuiet
  \/ ProcessRaise
  \/ ProcessUnknown
  \/ ReadEnd

=============================================================================
