------------------------------- MODULE Console -------------------------------
(***************************************************************************)
(* The console: UFuse as MicroPython's duplicate terminal (ufuse.py), the  *)
(* multiplexer's REPL sessions (multiplex.py), and the terminals.  What    *)
(* the device prints goes to its write buffer, from there in a scheduled   *)
(* task to the multiplexer, and through a queue per session to every       *)
(* terminal.  What is typed goes the other way, to cons_buf.               *)
(*                                                                         *)
(* A chunk of output is a number, in the order of printing; a message      *)
(* carries several.  A chunk of input is two characters, numbered in the   *)
(* order of typing; every fourth is a newline.                             *)
(***************************************************************************)
EXTENDS Integers, Sequences, FiniteSets, FiniteSetsExt, SequencesExt

CONSTANTS
    Terms,          \* terminals, each of which connects once
    QLen,           \* what a session's queue and its writer hold
    Loads           \* bounds: each allows so many chunks printed, so many chunks
                    \* typed, and so many troubles: takeovers, stops, ends of the
                    \* connection and calls of publish, taken together

ASSUME ConsoleAssumption ==
    /\ IsFiniteSet(Terms)
    /\ QLen \in Nat \ {0} /\ Loads \subseteq Nat \X Nat \X Nat

VARIABLES
    \* the device
    debug,      \* debug_console
    repl,       \* _repl_nr: "off" (-1), "debug" (-2) or "on"
    slot,       \* whom MicroPython has as duplicate terminal: none, us or other
    cons_buf,
    cons_wbuf, cons_s, sched,   \* sched: _w_cons is in the schedule
    prog,       \* where the main program is
    client,     \* there is a client, and so a multiplexer
    \* the connection
    toDev, fromDev,
    \* the multiplexer
    multi,      \* repl_multiplex
    st,         \* of each session: none, init, run, closing or gone
    ind,        \* _close_ind
    q,          \* out_w, out_r
    rd,         \* where the reader is in cmd_c
    \* history
    load,       \* which of Loads holds
    written, typed, trouble,
    seen,       \* the chunks each terminal has had
    got,        \* the characters the REPL has read
    lost,       \* chunks dropped at one of the places where the code drops
    refused,    \* the schedule has refused _w_cons, nothing was sent since
    raced,      \* close or stop went on with a _repl_nr that had changed
    missed      \* a cx that has not reached all sessions

devVars  == <<debug, repl, slot, cons_buf, prog>>
outVars  == <<cons_wbuf, cons_s, sched, refused>>
netVars  == <<client, toDev, fromDev>>
muxVars  == <<multi, st, ind, q, rd>>
counts   == <<load, written, typed, trouble>>
history  == <<seen, got, raced, missed>>
vars == <<devVars, outVars, netVars, muxVars, counts, history, lost>>

-----------------------------------------------------------------------------

Msg(a, d) == [a |-> a, d |-> d]
Sessions == {r \in Terms : st[r] \in {"init", "run", "closing"}}     \* repls
Reading == [at |-> "read", r |-> 0, d |-> <<>>, size |-> 0, todo |-> {}, done |-> {}]
More == trouble < load[3] /\ trouble' = trouble + 1      \* a bound of this model

Init ==
    /\ debug \in BOOLEAN /\ multi \in BOOLEAN
    /\ repl = "off" /\ slot = "none" /\ cons_buf = <<>>
    /\ cons_wbuf = <<>> /\ cons_s = FALSE /\ sched = FALSE
    /\ prog = "idle" /\ client = TRUE
    /\ toDev = <<>> /\ fromDev = <<>>
    /\ st = [r \in Terms |-> "none"] /\ ind = [r \in Terms |-> FALSE]
    /\ q = [r \in Terms |-> <<>>] /\ rd = Reading
    /\ load \in Loads /\ written = 0 /\ typed = 0 /\ trouble = 0
    /\ seen = [r \in Terms |-> <<>>] /\ got = <<>> /\ lost = {}
    /\ refused = FALSE /\ raced = FALSE /\ missed = FALSE

-----------------------------------------------------------------------------
(* The device: output.                                                     *)

Prints == slot = "us" /\ written < load[1] /\ written' = written + 1

\* The second half of write; full: schedule raises RuntimeError, and then the
\* flag is flag
Schedules(full, flag) ==
    IF cons_s THEN refused' = FALSE /\ UNCHANGED <<cons_s, sched>>
    ELSE refused' = full /\ sched' = (sched \/ ~full) /\ cons_s' = IF full THEN flag ELSE TRUE

\* Mutant: the flag is not reset.
ScheduleKeepsFlag(full) == Schedules(full, TRUE)
ScheduleWriter(full) == Schedules(full, FALSE)

\* write, called by the main program: it may be interrupted before its test
WriteBegin ==
    /\ prog = "idle" /\ Prints
    /\ cons_wbuf' = Append(cons_wbuf, written')
    /\ prog' = "write"
    /\ UNCHANGED <<debug, repl, slot, cons_buf, cons_s, sched, refused, netVars, muxVars,
                   load, typed, trouble, history, lost>>
WriteEnd ==
    /\ prog = "write" /\ prog' = "idle"
    /\ \E full \in BOOLEAN : ScheduleWriter(full)
    /\ UNCHANGED <<debug, repl, slot, cons_buf, cons_wbuf, netVars, muxVars, counts, history, lost>>

\* write, called in a callback
CallbackPrints ==
    /\ Prints
    /\ cons_wbuf' = Append(cons_wbuf, written')
    /\ \E full \in BOOLEAN : ScheduleWriter(full)
    /\ UNCHANGED <<devVars, netVars, muxVars, load, typed, trouble, history, lost>>

\* _w_cons.  If the main program is in the packer, send raises ValueError.
Writer ==
    /\ sched /\ sched' = FALSE /\ cons_s' = FALSE /\ refused' = FALSE
    /\ cons_wbuf' = <<>>
    /\ IF client /\ prog # "publish" /\ cons_wbuf # <<>>
       THEN fromDev' = Append(fromDev, Msg("c", cons_wbuf)) /\ UNCHANGED lost
       ELSE lost' = lost \cup ToSet(cons_wbuf) /\ UNCHANGED fromDev
    /\ UNCHANGED <<devVars, client, toDev, muxVars, counts, history>>

-----------------------------------------------------------------------------
(* The device: taking the console and giving it back.                      *)

Cx == Msg("cx", <<>>)

\* UFuse.close, in one piece; no cx if nobody is there or the packer is in use
CloseConsole ==
    IF repl = "off" THEN UNCHANGED <<repl, fromDev>>
    ELSE /\ repl' = "off"
         /\ fromDev' = IF client /\ prog # "publish" THEN Append(fromDev, Cx) ELSE fromDev

\* The next message of the connection, handled by the device
Handle(a) == client /\ toDev # <<>> /\ Head(toDev).a = a /\ toDev' = Tail(toDev)

\* use_console; held: we have the console.  If dupterm returns us, old.close()
\* is our close, after _repl_nr has been set.
UseConsole(held) ==
    /\ Handle("ci")
    /\ IF debug THEN repl' = "debug" /\ UNCHANGED <<slot, fromDev>>
       ELSE IF held THEN UNCHANGED <<repl, slot, fromDev>>
       ELSE /\ slot' = "us"
            /\ IF slot = "us"
               THEN repl' = "off" /\ fromDev' = IF prog = "publish" THEN fromDev ELSE Append(fromDev, Cx)
               ELSE repl' = "on" /\ UNCHANGED fromDev
    /\ UNCHANGED <<debug, cons_buf, prog, outVars, client, muxVars, counts, history, lost>>

\* Mutant: who has it already is not noticed.
ConsoleInitTwice == UseConsole(FALSE)

\* cmd_ci
ConsoleInit == UseConsole(repl = "on")

\* dupterm(None); what is not ours is put back
Removed == IF slot = "us" THEN "none" ELSE slot

\* cmd_cx: drop_console, all of it
ConsoleExit ==
    /\ Handle("cx")
    /\ repl' = "off"
    /\ slot' = IF repl = "on" THEN Removed ELSE slot
    /\ UNCHANGED <<debug, cons_buf, prog, outVars, client, fromDev, muxVars, counts, history, lost>>

\* stop, at first drop_console: it tests, it sets, it takes us out of the slot
StopBegin ==
    /\ prog = "idle" /\ client /\ More
    /\ prog' = IF repl = "off" THEN "disconnect" ELSE "drop"
    /\ UNCHANGED <<debug, repl, slot, cons_buf, outVars, netVars, muxVars, load, written, typed, history, lost>>
StopSets ==
    /\ prog = "drop" /\ prog' = IF debug THEN "disconnect" ELSE "remove"
    /\ repl' = "off"
    /\ UNCHANGED <<debug, slot, cons_buf, outVars, netVars, muxVars, counts, history, lost>>

\* If another is in the slot it is put back, and ServerError ends stop
StopRemoves ==
    /\ prog = "remove" /\ prog' = IF slot = "us" THEN "disconnect" ELSE "idle"
    /\ slot' = Removed /\ raced' = (raced \/ repl = "on")
    /\ UNCHANGED <<debug, repl, cons_buf, outVars, netVars, muxVars, counts, seen, got, missed, lost>>

\* Another takes the slot and closes us: in a callback, or as the main program
Takeover ==
    /\ ~debug /\ slot # "other" /\ More
    /\ slot' = "other"
    /\ IF slot = "us" THEN CloseConsole ELSE UNCHANGED <<repl, fromDev>>
    /\ UNCHANGED <<debug, cons_buf, prog, outVars, client, toDev, muxVars, load, written, typed, history, lost>>
TakeoverBegin ==
    /\ ~debug /\ slot = "us" /\ prog = "idle" /\ More
    /\ slot' = "other" /\ prog' = "replaced"
    /\ UNCHANGED <<debug, repl, cons_buf, outVars, netVars, muxVars, load, written, typed, history, lost>>
CloseTests ==
    /\ prog = "replaced" /\ prog' = IF repl = "off" THEN "idle" ELSE "close"
    /\ UNCHANGED <<debug, repl, slot, cons_buf, outVars, netVars, muxVars, counts, history, lost>>
CloseSets ==
    /\ prog = "close" /\ prog' = "idle"
    /\ repl' = "off" /\ raced' = (raced \/ slot = "us")
    /\ fromDev' = IF client THEN Append(fromDev, Cx) ELSE fromDev
    /\ UNCHANGED <<debug, slot, cons_buf, outVars, client, toDev, muxVars, counts, seen, got, missed, lost>>
OtherLeaves ==
    /\ slot = "other" /\ slot' = "none" /\ prog = "idle"
    /\ UNCHANGED <<debug, repl, cons_buf, prog, outVars, netVars, muxVars, counts, history, lost>>

\* publish, as far as it matters here: the packer is in use
Publish ==
    /\ prog = "idle" /\ client /\ More
    /\ prog' = "publish"
    /\ UNCHANGED <<debug, repl, slot, cons_buf, outVars, netVars, muxVars, load, written, typed, history, lost>>
Published ==
    /\ prog = "publish" /\ prog' = "idle"
    /\ UNCHANGED <<debug, repl, slot, cons_buf, outVars, netVars, muxVars, counts, history, lost>>

-----------------------------------------------------------------------------
(* The device: input.                                                      *)

\* cmd_c: to_console
ConsoleData ==
    /\ Handle("c")
    /\ cons_buf' = IF repl = "off" THEN cons_buf ELSE Append(cons_buf, Head(toDev).d)
    /\ UNCHANGED <<debug, repl, slot, prog, outVars, client, fromDev, muxVars, counts, history, lost>>

CanRead == slot = "us" /\ prog = "idle" /\ cons_buf # <<>>
Reads(data, rest) ==
    /\ got' = got \o data /\ cons_buf' = rest
    /\ UNCHANGED <<debug, repl, slot, prog, outVars, netVars, muxVars, counts, seen, raced, missed, lost>>

\* read and readinto
Read(n) ==
    /\ CanRead
    /\ LET d == Head(cons_buf) IN
       IF Len(d) <= n THEN Reads(d, Tail(cons_buf))
       ELSE Reads(SubSeq(d, 1, n), <<SubSeq(d, n + 1, Len(d))>> \o Tail(cons_buf))

Newlines(d) == {k \in DOMAIN d : d[k] % 4 = 0}

\* readline: up to the newline, or everything back in one chunk
ReadLine ==
    /\ CanRead
    /\ LET With == {k \in DOMAIN cons_buf : Newlines(cons_buf[k]) # {}} IN
       IF With = {} THEN Reads(<<>>, <<FlattenSeq(cons_buf)>>)
       ELSE LET first == Min(With)
                d == cons_buf[first]
                nl == Min(Newlines(d))
                rest == SubSeq(cons_buf, first + 1, Len(cons_buf))
            IN  Reads(FlattenSeq(SubSeq(cons_buf, 1, first - 1)) \o SubSeq(d, 1, nl),
                      IF nl = Len(d) THEN rest ELSE <<SubSeq(d, nl + 1, Len(d))>> \o rest)

-----------------------------------------------------------------------------
(* The multiplexer.                                                        *)

\* _handle_repl and run, which waits to send ci
TermConnects(r) ==
    /\ client /\ st[r] = "none"
    /\ st' = [st EXCEPT ![r] = "init"]
    /\ UNCHANGED <<devVars, outVars, netVars, multi, ind, q, rd, counts, history, lost>>

\* ci is sent, the session has its tasks
SendInit(r) ==
    /\ st[r] = "init" /\ st' = [st EXCEPT ![r] = "run"]
    /\ toDev' = Append(toDev, Msg("ci", <<>>))
    /\ UNCHANGED <<devVars, outVars, client, fromDev, multi, ind, q, rd, counts, history, lost>>

\* REPL._reader
TermTypes(r) ==
    /\ st[r] = "run" /\ typed < load[2] /\ typed' = typed + 1
    /\ toDev' = Append(toDev, Msg("c", <<2 * typed + 1, 2 * typed + 2>>))
    /\ UNCHANGED <<devVars, outVars, client, fromDev, muxVars, load, written, trouble, history, lost>>

\* REPL._writer
TermReads(r) ==
    /\ st[r] = "run" /\ q[r] # <<>>
    /\ seen' = [seen EXCEPT ![r] = @ \o Head(q[r])]
    /\ q' = [q EXCEPT ![r] = Tail(@)]
    /\ UNCHANGED <<devVars, outVars, netVars, multi, st, ind, rd, counts, got, raced, missed, lost>>

\* The terminal goes away: its session is cancelled, and nobody empties q
TermLeaves(r) ==
    /\ st[r] = "run" /\ st' = [st EXCEPT ![r] = "closing"]
    /\ UNCHANGED <<devVars, outVars, netVars, multi, ind, q, rd, counts, history, lost>>

\* The end of run and of _handle_repl; what is known of the session is
\* forgotten, but for a queue that the reader still waits for
SessionEnds(r) ==
    /\ st[r] = "closing" /\ st' = [st EXCEPT ![r] = "gone"]
    /\ toDev' = IF ind[r] \/ multi THEN toDev ELSE Append(toDev, Cx)
    /\ seen' = [seen EXCEPT ![r] = <<>>] /\ ind' = [ind EXCEPT ![r] = FALSE]
    /\ q' = IF rd.at = "put" /\ rd.r = r THEN q ELSE [q EXCEPT ![r] = <<>>]
    /\ UNCHANGED <<devVars, outVars, client, fromDev, multi, rd, counts, got, raced, missed, lost>>

\* The iterator of cmd_c's loop goes on: it notices when the set's size has
\* changed.  A session that took the place of another may be met or not.
Iterate(d, size, todo, done) ==
    \/ /\ Cardinality(Sessions) # size
       /\ rd' = Reading
       /\ lost' = IF Sessions \subseteq done THEN lost ELSE lost \cup ToSet(d)
    \/ /\ Cardinality(Sessions) = size /\ todo \cap Sessions \subseteq done
       /\ rd' = Reading /\ UNCHANGED lost
    \/ /\ Cardinality(Sessions) = size
       /\ \E r \in Sessions \ done :
            rd' = [at |-> "put", r |-> r, d |-> d, size |-> size, todo |-> todo, done |-> done]
       /\ UNCHANGED lost

Receive(a) ==
    /\ client /\ rd.at = "read"
    /\ fromDev # <<>> /\ Head(fromDev).a = a
    /\ fromDev' = Tail(fromDev)
    /\ UNCHANGED <<devVars, outVars, client, toDev, multi, q, counts, seen, got, raced>>

\* cmd_c
MuxConsole ==
    /\ Receive("c")
    /\ Iterate(Head(fromDev).d, Cardinality(Sessions), Sessions, {})
    /\ UNCHANGED <<st, ind, missed>>

Room == rd.at = "put" /\ Len(q[rd.r]) < QLen
Put(queue) ==
    /\ q' = [q EXCEPT ![rd.r] = queue]
    /\ Iterate(rd.d, rd.size, rd.todo, rd.done \cup {rd.r})
    /\ UNCHANGED <<devVars, outVars, netVars, multi, st, ind, counts, history>>

\* Mutant: the reader does not wait for room; what does not fit is dropped.
PutDrops == rd.at = "put" /\ Put(IF Room THEN Append(q[rd.r], rd.d) ELSE q[rd.r])

\* REPL.send has room in the queue; if not, the reader waits
PutWaits == Room /\ Put(Append(q[rd.r], rd.d))

\* cmd_cx.  A session that has not begun has no scope to cancel: it raises,
\* and those after it are not closed.
Close(closed, marked) ==
    /\ st' = [r \in Terms |-> IF r \in closed /\ st[r] = "run" THEN "closing" ELSE st[r]]
    /\ ind' = [r \in Terms |-> ind[r] \/ r \in closed \cup marked]
    /\ missed' = (missed \/ marked # {})

\* Mutant: the first session is closed, the others are not.
MuxExitFirst ==
    /\ Receive("cx")
    /\ IF Sessions = {} THEN Close({}, {}) ELSE \E r \in Sessions : Close({r}, {})
    /\ UNCHANGED <<rd, lost>>

MuxExit ==
    /\ Receive("cx")
    /\ LET begun == {r \in Sessions : st[r] # "init"} IN
       IF begun = Sessions THEN Close(Sessions, {})
       ELSE \E closed \in SUBSET begun, r \in Sessions \ begun : Close(closed, {r})
    /\ UNCHANGED <<rd, lost>>

-----------------------------------------------------------------------------
(* The connection ends, with the multiplexer and its sessions; another     *)
(* multiplexer comes.                                                      *)

Disconnected ==
    /\ client /\ client' = FALSE
    /\ toDev' = <<>> /\ fromDev' = <<>>
    /\ st' = [r \in Terms |-> IF st[r] = "none" THEN "none" ELSE "gone"]
    /\ q' = [r \in Terms |-> <<>>] /\ rd' = Reading
    /\ ind' = [r \in Terms |-> FALSE] /\ seen' = [r \in Terms |-> <<>>]
    /\ UNCHANGED <<debug, repl, slot, cons_buf, outVars, multi, load, written, typed,
                   got, raced, missed, lost>>

MuxDies == More /\ Disconnected /\ UNCHANGED prog
StopDisconnects ==
    /\ prog = "disconnect" /\ prog' = "idle"
    /\ IF client THEN Disconnected /\ UNCHANGED trouble
       ELSE UNCHANGED <<debug, repl, slot, cons_buf, outVars, netVars, muxVars, counts, history, lost>>
Reconnect ==
    /\ ~client /\ client' = TRUE
    /\ UNCHANGED <<devVars, outVars, toDev, fromDev, muxVars, counts, history, lost>>

-----------------------------------------------------------------------------

Callbacks == Writer \/ ConsoleInit \/ ConsoleExit \/ ConsoleData
Program ==
    \/ WriteEnd \/ StopSets \/ StopRemoves \/ StopDisconnects
    \/ CloseTests \/ CloseSets \/ Published
Reader == MuxConsole \/ PutWaits \/ MuxExit
Session(r) == SendInit(r) \/ TermReads(r) \/ SessionEnds(r)

Next ==
    \/ Callbacks \/ Program \/ Reader
    \/ \E r \in Terms : Session(r) \/ TermConnects(r) \/ TermTypes(r) \/ TermLeaves(r)
    \/ WriteBegin \/ CallbackPrints \/ Publish \/ ReadLine \/ \E n \in 1..2 : Read(n)
    \/ StopBegin \/ Takeover \/ TakeoverBegin \/ OtherLeaves
    \/ MuxDies \/ Reconnect

Spec == Init /\ [][Next]_vars

(* What is scheduled runs, the main program goes on with what it has begun,*)
(* the multiplexer's tasks that can go on do, and terminals read.          *)
FairSpec ==
    /\ Spec /\ WF_vars(Writer) /\ WF_vars(Callbacks) /\ WF_vars(Program) /\ WF_vars(Reader)
    /\ \A r \in Terms : WF_vars(Session(r))

-----------------------------------------------------------------------------

\* The device knows whether it is the terminal: who prints to us finds
\* _repl_nr set, and it is set only while we are in the slot, except in the
\* middle of stop and of a takeover, whatever sessions begin and end meanwhile
\* (ufuse.py:596, :608, :624).  Not so once the console has been taken again
\* between close's test and its assignment, or while stop removes it (raced).
ConsoleMirrored ==
    ~raced =>
      /\ slot = "us" => repl = "on" \/ prog = "remove"
      /\ repl = "on" => slot = "us" \/ prog \in {"replaced", "close"}

Between(x, y) == {k \in 1..Max({x, y}) : x < k /\ k < y}

\* Each terminal shows what the device has printed since it came, in order,
\* once, and without a gap but for chunks that the code drops: nobody
\* connected, the packer in use, or the set of sessions changed while cmd_c
\* was iterating over it.  The REPL reads what was typed in order, however it
\* is read (ufuse.py:525, :566, multiplex.py:519).
InOrder ==
    /\ \A r \in Terms : \A k \in 1..Len(seen[r]) - 1 :
         /\ seen[r][k] < seen[r][k + 1]
         /\ Between(seen[r][k], seen[r][k + 1]) \subseteq lost
    /\ \A k \in 1..Len(got) - 1 : got[k] < got[k + 1]

\* The reader waits for a session whose writer has been cancelled: for ever
Blocked == rd.at = "put" /\ ~Room /\ st[rd.r] \in {"closing", "gone"}

\* What is in the write buffer reaches every terminal that is there and stays,
\* unless the schedule was full when it was last tried, the chunk is dropped,
\* or a terminal has left with its queue full and blocks the reader
\* (ufuse.py:577-586, multiplex.py:522).
Echoed ==
    \A r \in Terms, k \in 1..Max({l[1] : l \in Loads}) :
      (k \in ToSet(cons_wbuf) /\ st[r] = "run")
        ~> (k \in ToSet(seen[r]) \/ st[r] # "run" \/ k \in lost \/ refused \/ Blocked)

\* A cx disconnects all sessions that have begun, also while output waits
\* (doc/messages.rst:39), unless one that has not begun yet stops cmd_cx
\* (missed) or the reader is blocked (multiplex.py:524, :114).
Detached ==
    \A r \in Terms :
      (Cx \in ToSet(fromDev) /\ st[r] = "run") ~> (st[r] # "run" \/ missed \/ Blocked)

=============================================================================
