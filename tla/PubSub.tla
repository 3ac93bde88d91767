-------------------------------- MODULE PubSub --------------------------------
(***************************************************************************)
(* Connections and subscriptions: UFuse with its clients and its table     *)
(* subs (ufuse.py), multiplexers that connect, end and are replaced, each  *)
(* with its table subs and a task per subscription (multiplex.py), and the *)
(* broker.  A connection is one run of a multiplexer.                      *)
(*                                                                         *)
(* On the device the main program subscribes, unsubscribes, publishes and  *)
(* stops; the socket callbacks that handle messages interrupt it wherever  *)
(* MicroPython lets them: after a test of self.client, and in the middle   *)
(* of the packer.  Callbacks do not interrupt each other.                  *)
(***************************************************************************)
EXTENDS Integers, Sequences, FiniteSets, SequencesExt

CONSTANTS
    Topics, NoTopic,
    MaxConn,        \* bound: connections
    Plans,          \* bound: see PlanOK
    Chosen          \* bound: the numbers (nr) that subscribe may be passed

\* What can happen in a run, at most
PlanOK(p) ==
    /\ p.muxes \in 0..MaxConn                              \* multiplexers started
    /\ p.wishes \in Seq([t : Topics, r : BOOLEAN])         \* calls of subscribe
    /\ p.traffic \in Nat               \* messages published, by anybody, and pings

ASSUME PubSubAssumption ==
    /\ NoTopic \notin Topics
    /\ MaxConn \in Nat
    /\ \A nr \in Chosen : nr \in Nat /\ nr % 2 = 1      \* the device's are odd
    /\ \A p \in Plans : PlanOK(p)

Conns == 1..MaxConn

VARIABLES
    \* the device
    listening,  \* listen_s is not None
    sock,       \* of each connection, as the device sees it
    stuck,      \* connections whose _read an exception has left (_sched is set)
    client,     \* the connection that is the client, 0 for None
    clients,    \* those accepted and not opened yet
    subs,       \* number -> topic
    sub_nr,
    wishes,     \* the program's calls of subscribe that are still to come
    prog,       \* what the main program is doing
    \* the multiplexers
    mux,        \* off, init (no h yet), up or ended
    tasks,      \* its subscription tasks, in the order they were started
    msubs,      \* number -> task
    \* around them
    toDev, fromDev,
    traffic,    \* messages and pings that may still be sent
    muxes,      \* multiplexers that may still be started
    broker,     \* how many messages the broker has had
    \* history
    asked,      \* number -> topics, with r: what the program ever subscribed to
    raw,        \* numbers that the client has been asked for with r
    called,     \* the calls of callbacks: <<number, which of the broker's messages>>
    adrift,     \* numbers whose tables need not agree any more: see TablesAgree
    twice,      \* numbers subscribed while a task of theirs was running
    raced       \* an h was handled while stop was running

connVars == <<listening, sock, stuck, client, clients>>
subVars  == <<subs, sub_nr, wishes, asked>>
muxVars  == <<mux, tasks, msubs, broker, muxes>>
netVars  == <<toDev, fromDev, traffic>>
history  == <<raw, called, adrift, twice, raced>>
vars == <<connVars, subVars, prog, muxVars, netVars, history>>

-----------------------------------------------------------------------------
(* Messages, of one shape: what they are, a topic's number, a topic, the   *)
(* flag r, and which of the broker's messages they carry.                  *)

Msg(a, nr, t, r, n) == [a |-> a, nr |-> nr, t |-> t, r |-> r, n |-> n]
Plain(a)     == Msg(a, 0, NoTopic, FALSE, 0)
MS(nr, t, r) == Msg("ms", nr, t, r, 0)
MU(nr)       == Msg("mu", nr, NoTopic, FALSE, 0)

\* The replies and errors of this model have no i: nobody does anything about
\* them, and they are not kept.

Doing(at, c, m) == [at |-> at, c |-> c, m |-> m]
Idle == Doing("idle", 0, Plain("none"))

\* Channels with more messages; what nobody will read is not kept
ToMux(c, ms) == IF mux[c] = "ended" THEN fromDev ELSE [fromDev EXCEPT ![c] = @ \o ms]
ToDevice(c, m) == IF sock[c] = "closed" \/ c \in stuck THEN toDev
                  ELSE [toDev EXCEPT ![c] = Append(@, m)]

Init ==
    /\ listening = TRUE /\ sock = [c \in Conns |-> "none"] /\ stuck = {}
    /\ client = 0 /\ clients = {} /\ subs = <<>> /\ sub_nr = 1 /\ prog = Idle
    /\ mux = [c \in Conns |-> "off"]
    /\ tasks = [c \in Conns |-> <<>>] /\ msubs = [c \in Conns |-> <<>>]
    /\ toDev = [c \in Conns |-> <<>>] /\ fromDev = [c \in Conns |-> <<>>]
    /\ broker = 0
    /\ \E p \in Plans : wishes = p.wishes /\ traffic = p.traffic /\ muxes = p.muxes
    /\ asked = <<>> /\ raw = {} /\ called = {} /\ adrift = {} /\ twice = {} /\ raced = FALSE

-----------------------------------------------------------------------------
(* The device: connections.                                                *)

\* _accept and start
Accept(c) ==
    /\ listening /\ sock[c] = "none" /\ mux[c] \in {"init", "ended"}
    /\ sock' = [sock EXCEPT ![c] = "open"]
    /\ clients' = clients \cup {c}
    /\ fromDev' = ToMux(c, <<Plain("h")>>)
    /\ UNCHANGED <<listening, stuck, client, subVars, prog, muxVars, toDev, traffic, history>>

\* UFuseClient.close, and UFuse.closed that it calls
Close(c) ==
    /\ sock' = [sock EXCEPT ![c] = "closed"]
    /\ toDev' = [toDev EXCEPT ![c] = <<>>]
    /\ IF client = c THEN client' = 0 /\ clients' = clients
       ELSE client' = client /\ clients' = clients \ {c}

\* _read finds the end of the stream
ReadEOF(c) ==
    /\ sock[c] = "open" /\ c \notin stuck
    /\ mux[c] = "ended" /\ toDev[c] = <<>>
    /\ Close(c)
    /\ UNCHANGED <<listening, stuck, subVars, prog, muxVars, fromDev, traffic, history>>

\* The packer of c is in use by the main program
Busy(c) == prog.at = "packing" /\ prog.c = c

\* The next message of c is what _read and _process handle now
Processing(c, a) ==
    /\ sock[c] = "open" /\ c \notin stuck
    /\ toDev[c] # <<>> /\ Head(toDev[c]).a = a
    /\ UNCHANGED <<listening, sub_nr, wishes, asked, prog, muxVars, traffic, twice>>
Taken(c) == [toDev EXCEPT ![c] = Tail(@)]

\* opened; old is what becomes of the client's socket, subscriptions what the
\* new one is sent.  A subscription that subscribe is about to send is sent
\* twice.
Replace(c, old, subscriptions) ==
    /\ Processing(c, "h")
    /\ IF client = 0 THEN sock' = sock /\ toDev' = Taken(c)
       ELSE /\ sock' = [sock EXCEPT ![client] = old]
            /\ toDev' = [Taken(c) EXCEPT ![client] = <<>>]
    /\ client' = c /\ clients' = clients \ {c}
    /\ fromDev' = ToMux(c, subscriptions)
    /\ raw' = {}
    /\ adrift' = adrift \cup (IF prog.at = "sending" /\ prog.m.a = "ms" THEN {prog.m.nr} ELSE {})
    /\ raced' = (raced \/ prog.at \in {"stop", "stopping"})
    /\ UNCHANGED <<stuck, subs, called>>

\* without r, whatever subscribe was called with
Resubscriptions == LET nrs == SetToSeq(DOMAIN subs)
                   IN  [k \in 1..Len(nrs) |-> MS(nrs[k], subs[nrs[k]], FALSE)]

\* Mutants: the old client is left open; the subscriptions are not repeated.
OpenedKeepsOld(c) == Replace(c, "open", Resubscriptions)
OpenedForgets(c)  == Replace(c, "closed", <<>>)

\* cmd_h, then opened: the new client replaces the old one, and hears of all
\* subscriptions
Opened(c) == Replace(c, "closed", Resubscriptions)

\* an exception leaves _read: nothing is read from c any more
Stick(c) == stuck' = stuck \cup {c} /\ toDev' = [toDev EXCEPT ![c] = <<>>]

Handles(c) == toDev' = Taken(c) /\ UNCHANGED stuck
Stays == UNCHANGED <<sock, client, clients, fromDev, raw, adrift, raced>>

\* cmd_m: the callback is called, or KeyError
Message(c) ==
    /\ Processing(c, "m") /\ Stays
    /\ LET m == Head(toDev[c]) IN
       IF m.nr \in DOMAIN subs
       THEN called' = called \cup {<<m.nr, m.n>>} /\ Handles(c)
       ELSE Stick(c) /\ UNCHANGED called
    /\ UNCHANGED subs

Without(f, nr) == [x \in DOMAIN f \ {nr} |-> f[x]]

\* cmd_mu: the subscription is gone, or KeyError
Removed(c) ==
    /\ Processing(c, "mu") /\ Stays
    /\ LET nr == Head(toDev[c]).nr IN
       IF nr \in DOMAIN subs THEN subs' = Without(subs, nr) /\ Handles(c)
       ELSE Stick(c) /\ UNCHANGED subs
    /\ UNCHANGED called

\* cmd_p: the reply.  If the main program is in the packer, pack raises
\* ValueError, for the reply and then for the e.
Pong(c) ==
    /\ Processing(c, "p") /\ Stays
    /\ IF Busy(c) THEN Stick(c) ELSE Handles(c)
    /\ UNCHANGED <<subs, called>>

-----------------------------------------------------------------------------
(* The device: the main program.                                           *)

(* A bound of this model *)
More == traffic > 0 /\ traffic' = traffic - 1

\* `if self.client:` and, if so, on to the message
Then(m) == prog' = IF client = 0 THEN Idle ELSE Doing("sending", 0, m)

With(f, nr, t) == [x \in DOMAIN f \cup {nr} |-> IF x = nr THEN t ELSE f[x]]
AskedFor(nr) == IF nr \in DOMAIN asked THEN asked[nr] ELSE {}

\* A number that the program has used before is adrift from then on.
Enter(nr, w) ==
    /\ subs' = With(subs, nr, w.t)
    /\ asked' = With(asked, nr, AskedFor(nr) \cup {w})
    /\ raw' = IF w.r THEN raw \cup {nr} ELSE raw \ {nr}
    /\ adrift' = IF nr \in DOMAIN asked THEN adrift \cup {nr} ELSE adrift
    /\ Then(MS(nr, w.t, w.r))

SubscribeCall(nr) ==
    /\ prog.at = "idle"
    /\ wishes # <<>> /\ wishes' = Tail(wishes)
    /\ Enter(nr, Head(wishes))
    /\ UNCHANGED <<connVars, muxVars, netVars, called, twice, raced>>

\* subscribe with its own number, or with one that the program passes
Subscribe       == SubscribeCall(sub_nr) /\ sub_nr' = sub_nr + 2
SubscribeAs(nr) == SubscribeCall(nr) /\ UNCHANGED sub_nr

Unsubscribe(nr) ==
    /\ prog.at = "idle"
    /\ subs' = Without(subs, nr)
    /\ Then(MU(nr))
    /\ UNCHANGED <<connVars, sub_nr, wishes, asked, muxVars, netVars, history>>

Publish(t) ==
    /\ prog.at = "idle" /\ More
    /\ Then(Msg("m", 0, t, FALSE, 0))
    /\ UNCHANGED <<connVars, subVars, muxVars, toDev, fromDev, history>>

\* self.client.send: AttributeError if there is none by now, otherwise into
\* the packer of that client
SendBegin ==
    /\ prog.at = "sending"
    /\ prog' = IF client = 0 THEN Idle ELSE Doing("packing", client, prog.m)
    /\ UNCHANGED <<connVars, subVars, muxVars, netVars, history>>

\* The packer writes; to a socket that has been closed it cannot
SendEnd ==
    /\ prog.at = "packing" /\ prog' = Idle
    /\ fromDev' = IF sock[prog.c] = "open" THEN ToMux(prog.c, <<prog.m>>) ELSE fromDev
    /\ UNCHANGED <<connVars, subVars, muxVars, toDev, traffic, history>>

\* stop: the listening socket and the client; self.client = None; the others
StopBegin ==
    /\ prog.at = "idle" /\ listening
    /\ listening' = FALSE
    /\ IF client = 0 THEN prog' = Doing("stopping", 0, Idle.m) /\ UNCHANGED <<sock, client, clients, toDev>>
       ELSE prog' = Doing("stop", 0, Idle.m) /\ Close(client)
    /\ UNCHANGED <<stuck, subVars, muxVars, fromDev, traffic, history>>

StopClears ==
    /\ prog.at = "stop" /\ prog' = Doing("stopping", 0, Idle.m)
    /\ client' = 0
    /\ UNCHANGED <<listening, sock, stuck, clients, subVars, muxVars, netVars, history>>

StopLoop ==
    /\ prog.at = "stopping"
    /\ IF clients = {} THEN prog' = Idle /\ UNCHANGED <<sock, client, clients, toDev>>
       ELSE (\E c \in clients : Close(c)) /\ UNCHANGED prog
    /\ UNCHANGED <<listening, stuck, subVars, muxVars, fromDev, traffic, history>>

Start ==
    /\ prog.at = "idle" /\ ~listening
    /\ listening' = TRUE
    /\ UNCHANGED <<sock, stuck, client, clients, subVars, prog, muxVars, netVars, history>>

-----------------------------------------------------------------------------
(* A multiplexer.                                                          *)

devVars == <<connVars, subVars, prog>>

\* _conn and the first half of _conn_init
MuxConnect(c) ==
    /\ mux[c] = "off" /\ \A x \in 1..c - 1 : mux[x] # "off"
    /\ muxes > 0 /\ muxes' = muxes - 1
    /\ mux' = [mux EXCEPT ![c] = "init"]
    /\ toDev' = ToDevice(c, Plain("h"))
    /\ UNCHANGED <<devVars, tasks, msubs, broker, fromDev, traffic, history>>

\* It ends: no h within two seconds, no pong, the connection gone, or killed.
\* What is in its memory is gone.
Ends(c, memory) ==
    /\ mux[c] \in {"init", "up"}
    /\ mux' = [mux EXCEPT ![c] = "ended"]
    /\ tasks' = [tasks EXCEPT ![c] = <<>>] /\ msubs' = memory
    /\ fromDev' = [fromDev EXCEPT ![c] = <<>>]
    /\ UNCHANGED <<devVars, broker, muxes, toDev, traffic, history>>

\* Mutant: the table outlives its tasks.
MuxEndKeepsTable(c) == Ends(c, msubs)

MuxEnd(c) == Ends(c, [msubs EXCEPT ![c] = <<>>])

\* The next message that _reader handles
Reading(c, a) ==
    /\ mux[c] \in {"init", "up"}
    /\ fromDev[c] # <<>> /\ Head(fromDev[c]).a \in a
    /\ fromDev' = [fromDev EXCEPT ![c] = Tail(@)]
    /\ UNCHANGED <<devVars, muxes, toDev, traffic, raw, called, raced>>

\* cmd_h
MuxHello(c) ==
    /\ Reading(c, {"h"})
    /\ mux' = [mux EXCEPT ![c] = "up"]
    /\ UNCHANGED <<tasks, msubs, broker, adrift, twice>>

\* cmd_ms, and subscribed_mqtt up to its loop.  The reader waits for the
\* broker's answer; here it waits before it takes the message.
MuxMS(c) ==
    /\ Reading(c, {"ms"})
    /\ LET m == Head(fromDev[c]) IN
       /\ tasks' = [tasks EXCEPT ![c] =
                      Append(@, [nr |-> m.nr, t |-> m.t, r |-> m.r, on |-> "on", q |-> <<>>])]
       /\ msubs' = [msubs EXCEPT ![c] = With(@, m.nr, Len(tasks'[c]))]
       /\ twice' = IF \E tk \in Range(tasks[c]) : tk.on = "on" /\ tk.nr = m.nr
                   THEN twice \cup {m.nr} ELSE twice
    /\ UNCHANGED <<mux, broker, adrift>>

\* cmd_ms or cmd_m when the broker refuses
MuxRefused(c) ==
    /\ Reading(c, {"ms", "m"})
    /\ adrift' = IF Head(fromDev[c]).a = "ms" THEN adrift \cup {Head(fromDev[c]).nr} ELSE adrift
    /\ UNCHANGED <<mux, tasks, msubs, broker, twice>>

\* Mutant: the entry is taken out, the task is not cancelled.
MuxMUDeletes(c) ==
    /\ Reading(c, {"mu"})
    /\ msubs' = [msubs EXCEPT ![c] = Without(@, Head(fromDev[c]).nr)]
    /\ UNCHANGED <<mux, tasks, broker, adrift, twice>>

\* cmd_mu.  The scope of a task that has failed has been left: cancel does
\* nothing to it.
MuxMU(c) ==
    /\ Reading(c, {"mu"})
    /\ LET nr == Head(fromDev[c]).nr IN
       IF nr \in DOMAIN msubs[c] /\ tasks[c][msubs[c][nr]].on = "on"
       THEN tasks' = [tasks EXCEPT ![c][msubs[c][nr]].on = "leaving"]
       ELSE UNCHANGED tasks
    /\ UNCHANGED <<mux, msubs, broker, adrift, twice>>

\* A task that is not on forwards nothing.
Becomes(c, k, on) ==
    /\ tasks' = [tasks EXCEPT ![c][k].on = on, ![c][k].q = <<>>]
    /\ UNCHANGED <<devVars, mux, broker, muxes, fromDev, traffic, history>>

\* An exception ends the loop, say of a message that cannot be decoded: the
\* device is told.  (Here the broker's messages end in no other way.)
TaskFails(c, k) ==
    /\ tasks[c][k].on = "on" /\ Becomes(c, k, "leaving")
    /\ toDev' = ToDevice(c, MU(tasks[c][k].nr))
    /\ UNCHANGED msubs

\* The task, which has failed or been cancelled, deletes the entry that is
\* there now
TaskEnds(c, k) ==
    /\ tasks[c][k].on = "leaving" /\ Becomes(c, k, "ended")
    /\ msubs' = [msubs EXCEPT ![c] = Without(@, tasks[c][k].nr)]
    /\ UNCHANGED toDev

\* The broker has a message of topic t: each task that subscribes to it gets it
Deliver(t) ==
    /\ broker' = broker + 1
    /\ tasks' = [c \in Conns |-> [k \in DOMAIN tasks[c] |->
                   IF tasks[c][k].on = "on" /\ tasks[c][k].t = t
                   THEN [tasks[c][k] EXCEPT !.q = Append(@, Msg("m", tasks[c][k].nr, t, FALSE, broker'))]
                   ELSE tasks[c][k]]]

\* cmd_m
MuxM(c) ==
    /\ Reading(c, {"m"})
    /\ Deliver(Head(fromDev[c]).t)
    /\ UNCHANGED <<mux, msubs, adrift, twice>>

\* The loop of subscribed_mqtt: a message, with its number
Forward(c, k) ==
    /\ tasks[c][k].on = "on" /\ tasks[c][k].q # <<>>
    /\ toDev' = ToDevice(c, Head(tasks[c][k].q))
    /\ tasks' = [tasks EXCEPT ![c][k].q = Tail(@)]
    /\ UNCHANGED <<devVars, mux, msubs, broker, muxes, fromDev, traffic, history>>

\* _watchdog's ping, without its time-out (MuxEnd)
Ping(c) ==
    /\ mux[c] = "up" /\ More
    /\ toDev' = ToDevice(c, Plain("p"))
    /\ UNCHANGED <<devVars, muxVars, fromDev, history>>

\* Somebody else publishes; of interest if somebody listens
Other(t) ==
    /\ More
    /\ \E c \in Conns : \E k \in DOMAIN tasks[c] : tasks[c][k].on = "on" /\ tasks[c][k].t = t
    /\ Deliver(t)
    /\ UNCHANGED <<devVars, mux, msubs, muxes, toDev, fromDev, history>>

-----------------------------------------------------------------------------

Callbacks(c) ==
    \/ Accept(c) \/ ReadEOF(c) \/ Opened(c)
    \/ Message(c) \/ Removed(c) \/ Pong(c)
Program == SendBegin \/ SendEnd \/ StopClears \/ StopLoop
Tasks(c) ==
    \/ MuxHello(c) \/ MuxMS(c) \/ MuxRefused(c) \/ MuxMU(c) \/ MuxM(c)
    \/ \E k \in DOMAIN tasks[c] : TaskEnds(c, k) \/ Forward(c, k)

Steps ==
    \/ \E c \in Conns : \/ Callbacks(c) \/ Tasks(c) \/ MuxConnect(c) \/ MuxEnd(c) \/ Ping(c)
                       \/ \E k \in DOMAIN tasks[c] : TaskFails(c, k)
    \/ Program \/ StopBegin \/ Start
    \/ Subscribe \/ \E nr \in Chosen : SubscribeAs(nr)
    \/ \E nr \in DOMAIN subs : Unsubscribe(nr)
    \/ \E t \in Topics : Publish(t) \/ Other(t)

(* The model stops when an h has been handled while stop was running.      *)
Next == ~raced /\ Steps

Spec == Init /\ [][Next]_vars

(* Callbacks and tasks that are ready run, and the main program goes on    *)
(* with what it has begun.                                                 *)
FairSpec ==
    /\ Spec /\ WF_vars(Program)
    /\ \A c \in Conns : WF_vars(Callbacks(c)) /\ WF_vars(Tasks(c))

-----------------------------------------------------------------------------

NumberOf(k) == 2 * k - 1
Numbers == {NumberOf(k) : k \in UNION {DOMAIN p.wishes : p \in Plans}} \cup Chosen
Messages == [a : {"none", "h", "m", "ms", "mu", "p"}, nr : Numbers \cup {0},
             t : Topics \cup {NoTopic}, r : BOOLEAN, n : Nat]

\* Every variable has its type: tables map odd numbers to topics and to
\* tasks, channels carry messages.
TypeOK ==
    /\ listening \in BOOLEAN /\ sock \in [Conns -> {"none", "open", "closed"}]
    /\ stuck \subseteq Conns /\ clients \subseteq Conns /\ client \in Conns \cup {0}
    /\ DOMAIN subs \subseteq DOMAIN asked /\ DOMAIN asked \subseteq Numbers
    /\ \A nr \in DOMAIN asked : asked[nr] \subseteq [t : Topics, r : BOOLEAN]
    /\ \A nr \in DOMAIN subs : \E w \in asked[nr] : w.t = subs[nr]
    /\ prog.at \in {"idle", "sending", "packing", "stop", "stopping"} /\ prog.m \in Messages
    /\ mux \in [Conns -> {"off", "init", "up", "ended"}]
    /\ \A c \in Conns : /\ \A ch \in {toDev[c], fromDev[c]} : ch \in Seq(Messages)
                        /\ \A nr \in DOMAIN msubs[c] : msubs[c][nr] \in DOMAIN tasks[c]

\* A socket that is open is the client or waits in clients, where stop finds
\* it, and the client is open; a program that has been stopped has none.  Two
\* connections never serve at once, whatever comes and goes in which order
\* (ufuse.py:489, :503).  Not so if an h arrives while stop runs (raced).
Tracked ==
    ~raced =>
      /\ \A c \in Conns : sock[c] = "open" <=> (c = client \/ c \in clients)
      /\ client \notin clients
      /\ (~listening /\ prog.at = "idle") => client = 0 /\ clients = {}

\* A callback gets messages of a topic that the program subscribed to under
\* its number, and no others, whichever number is used again; and none twice,
\* also when the broker gives a message to the old multiplexer and to the new
\* one, to which the subscription has been repeated, unless a multiplexer has
\* been told of the number twice (ufuse.py:418, :498, multiplex.py:263).
Delivered ==
    [][\A c \in Conns : Message(c) /\ Head(toDev[c]).nr \in DOMAIN subs =>
         LET m == Head(toDev[c]) IN
         /\ \E w \in asked[m.nr] : m.t = w.t
         /\ m.nr \in twice \/ <<m.nr, m.n>> \notin called]_vars

\* What the multiplexer forwards, number by number, and what the program has
\* subscribed to
What(x) == [t |-> x.t, r |-> x.r]
Forwarded(c) == {<<tk.nr, What(tk)>> : tk \in {x \in Range(tasks[c]) : x.on = "on" /\ x.nr \notin adrift}}
Want == [nr \in DOMAIN subs |-> [t |-> subs[nr], r |-> nr \in raw]]
Wanted == {<<nr, Want[nr]>> : nr \in DOMAIN subs \ adrift}
Agree(c) ==
    /\ Forwarded(c) = Wanted
    /\ \A k \in DOMAIN tasks[c] :
         LET tk == tasks[c][k] IN
         tk.on = "on" /\ tk.nr \notin adrift => tk.nr \in DOMAIN msubs[c] /\ msubs[c][tk.nr] = k

\* Nothing is under way between the client and its multiplexer.
Quiet(c) ==
    /\ client = c /\ mux[c] = "up" /\ prog.at = "idle" /\ c \notin stuck
    /\ fromDev[c] = <<>> /\ \A m \in Range(toDev[c]) : m.a # "mu"
    /\ \A tk \in Range(tasks[c]) : tk.on \in {"on", "ended"}

\* When nothing is under way, the two tables agree: one task, and one entry
\* that leads to it, for each subscription of the program, with its topic and
\* its flag r since the client was opened, and for no other, whether the
\* program has ended it or the task has failed (multiplex.py:262, :289, :562).
\* The exceptions are adrift: a number that the program has used before, one
\* whose subscription opened has repeated while subscribe was about to send it
\* (ufuse.py:450), and one that the broker refused.
TablesAgree == \A c \in Conns : (Quiet(c) /\ ~raced) => Agree(c)

\* What the documentation asks for (messages.rst:94), and the code does not do:
\* a subscription that was made with r has it again after a reconnection.  TLC
\* refutes it (see README.md): opened sends no r (ufuse.py:500).
RawRestored ==
    \A c \in Conns : Quiet(c) =>
      \A tk \in Range(tasks[c]) :
        tk.on = "on" /\ tk.nr \notin adrift => What(tk) \in asked[tk.nr]

\* Subscriptions are restored, without r, by whatever multiplexer comes next,
\* and end where the program or the multiplexer has ended them: from some time
\* on a client that is read, and its multiplexer, agree (ufuse.py:498, :428).
EventuallyAgree ==
    <>[](\/ client = 0 \/ raced
         \/ mux[client] = "ended" \/ client \in stuck
         \/ Agree(client))

=============================================================================
