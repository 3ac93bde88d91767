------------------------------ MODULE PubSubInv ------------------------------
(***************************************************************************)
(* The inductive invariants behind TablesAgree, Delivered and TypeOK: what *)
(* each end of a connection has done and the other does not know yet,      *)
(* which messages the multiplexer has and the program does not, and how    *)
(* numbers are given out.                                                  *)
(***************************************************************************)
EXTENDS PubSub

Is(m, a, nr) == m.a = a /\ m.nr = nr

\* A message about number nr, of kind a, is in the channel ch after its first
\* i messages, or is pend, which the program is about to send.
Comes(ch, pend, a, nr, i) ==
    Is(pend, a, nr) \/ \E j \in i + 1..Len(ch) : Is(ch[j], a, nr)

\* A task of nr has failed, and the device has not read so.
Ended(td, nr) == \E j \in 1..Len(td) : Is(td[j], "mu", nr)

\* In what follows, wt is what the program wants, used are the numbers it has
\* used, and nothing is said of the numbers in D, which are adrift.

\* What the channel says is right as far as it goes: numbers that are in use
\* are subscribed and not ended, and a number that is not, is ended at last.
Told(ch, wt, used, pend, D) ==
    \A i \in 1..Len(ch) : ch[i].a \in {"ms", "mu"} =>
      /\ ch[i].nr \in used
      /\ ch[i].nr \notin D =>
           IF ch[i].a = "mu" THEN ch[i].nr \notin DOMAIN wt
           ELSE IF ch[i].nr \in DOMAIN wt THEN What(ch[i]) = wt[ch[i].nr]
           ELSE Comes(ch, pend, "mu", ch[i].nr, i)

\* The multiplexer is told of a number once.
Once(ch, tk, pend, D) ==
    /\ \A i \in 1..Len(ch) : ch[i].a = "ms" /\ ch[i].nr \notin D =>
         /\ ~Is(pend, "ms", ch[i].nr)
         /\ \A k \in 1..Len(tk) : tk[k].nr # ch[i].nr
         /\ \A j \in 1..Len(ch) : Is(ch[j], "ms", ch[i].nr) => j = i
    /\ \A k \in 1..Len(tk) : tk[k].nr \notin D =>
         /\ ~Is(pend, "ms", tk[k].nr)
         /\ \A l \in 1..Len(tk) : tk[l].nr = tk[k].nr => l = k

\* A task is on for a number in use, or the end of its number comes; one that
\* has failed, the program does not want, or will hear of.
Served(ch, td, tk, wt, used, pend, D) ==
    \A k \in 1..Len(tk) :
      /\ tk[k].nr \in used
      /\ tk[k].nr \notin D =>
           IF tk[k].on # "on" THEN tk[k].nr \notin DOMAIN wt \/ Ended(td, tk[k].nr)
           ELSE IF tk[k].nr \in DOMAIN wt THEN What(tk[k]) = wt[tk[k].nr]
           ELSE Comes(ch, pend, "mu", tk[k].nr, 0)

\* What the program hears of has failed.
Failed(td, tk, D) ==
    \A j \in 1..Len(td) : td[j].a = "mu" /\ td[j].nr \notin D =>
      \E k \in 1..Len(tk) : tk[k].nr = td[j].nr /\ tk[k].on # "on"

\* Each number in use has a task, or its subscription comes, or its end.
Awaited(ch, td, tk, wt, pend, D) ==
    \A nr \in DOMAIN wt \ D :
      \/ Comes(ch, pend, "ms", nr, 0) \/ Ended(td, nr)
      \/ \E k \in 1..Len(tk) : tk[k].on = "on" /\ tk[k].nr = nr

\* The table leads to the tasks that have not ended, and to no other.
Leads(tk, tb, D) ==
    /\ \A nr \in DOMAIN tb : /\ tb[nr] \in 1..Len(tk) /\ tk[tb[nr]].nr = nr
                             /\ nr \notin D => tk[tb[nr]].on # "ended"
    /\ \A k \in 1..Len(tk) : tk[k].on # "ended" /\ tk[k].nr \notin D =>
                                 tk[k].nr \in DOMAIN tb /\ tb[tk[k].nr] = k

Sync(ch, td, tk, tb, wt, used, pend, D) ==
    /\ Told(ch, wt, used, pend, D) /\ Once(ch, tk, pend, D)
    /\ Served(ch, td, tk, wt, used, pend, D) /\ Failed(td, tk, D)
    /\ Awaited(ch, td, tk, wt, pend, D)
    /\ Leads(tk, tb, D)

\* The message that the program is about to send to c
Sending(c) == prog.at = "sending" \/ (prog.at = "packing" /\ prog.c = c)
Pend(c) == IF Sending(c) THEN prog.m ELSE Plain("none")

InSync(c) == Sync(fromDev[c], toDev[c], tasks[c], msubs[c], Want, DOMAIN asked, Pend(c), adrift)

\* A message that is sent is still true.
Telling ==
    LET m == prog.m IN
    prog.at \in {"sending", "packing"} /\ m.a \in {"ms", "mu"} =>
      /\ m.nr \in DOMAIN asked
      /\ (prog.at = "packing" => sock[prog.c] = "open") /\ m.nr \notin adrift =>
           IF m.a = "mu" THEN m.nr \notin DOMAIN subs
           ELSE m.nr \in DOMAIN subs /\ What(m) = Want[m.nr]
Packing ==
    prog.at = "packing" => /\ prog.c \in Conns /\ sock[prog.c] # "none"
                           /\ sock[prog.c] = "open" => client = prog.c

\* The end of a number that the client is to read is not that of one which
\* the program is about to subscribe to.
Ending ==
    \A c \in Conns : client = c =>
      \A j \in 1..Len(toDev[c]) : toDev[c][j].a = "mu" =>
        /\ toDev[c][j].nr \in DOMAIN asked
        /\ toDev[c][j].nr \notin adrift => ~Is(Pend(c), "ms", toDev[c][j].nr)

HelloComes(c) == \E k \in 1..Len(toDev[c]) : toDev[c][k].a = "h"
Waiting(c) == mux[c] = "off" \/ sock[c] = "none" \/ c \in clients \/ HelloComes(c)

\* Before its h has been handled, a connection has heard of nothing.
Unknown(c) ==
    /\ tasks[c] = <<>> /\ msubs[c] = <<>>
    /\ \A i \in 1..Len(fromDev[c]) : fromDev[c][i].a \notin {"ms", "mu"}
    /\ \A j \in 1..Len(toDev[c]) : toDev[c][j].a # "mu"
    /\ prog.at = "packing" => prog.c # c
Unheard == \A c \in Conns : Waiting(c) => Unknown(c)

Known == DOMAIN subs \subseteq DOMAIN asked
Ceased == \A c \in Conns : mux[c] = "ended" => tasks[c] = <<>>

AgreeInv ==
    /\ DOMAIN msubs = Conns
    /\ Known
    /\ ~raced =>
         /\ Telling /\ Packing /\ Ending /\ Unheard /\ Ceased
         /\ \A c \in Conns : client = c /\ c \notin stuck /\ mux[c] # "ended" => InSync(c)

-----------------------------------------------------------------------------
(* The inductive invariant behind Delivered: where the broker's messages   *)
(* are on their way to the callbacks.                                      *)

\* m has a topic that its number was subscribed to.
Meant(m, ak) == m.nr \in DOMAIN ak /\ \E w \in ak[m.nr] : w.t = m.t
MeantTask(tk, ak) ==
    Meant(tk, ak) /\ \A m \in Range(tk.q) : m.nr = tk.nr /\ m.t = tk.t

MeantInv ==
    /\ prog.m.a = "ms" => Meant(prog.m, asked)
    /\ \A nr \in DOMAIN subs : nr \in DOMAIN asked /\ \E w \in asked[nr] : w.t = subs[nr]
    /\ \A c \in Conns :
         /\ \A m \in Range(fromDev[c]) : m.a = "ms" => Meant(m, asked)
         /\ \A m \in Range(toDev[c]) : m.a = "m" => Meant(m, asked)
         /\ \A tk \in Range(tasks[c]) : MeantTask(tk, asked)

\* Of a number that no multiplexer has been told of twice, one task is on.
OneIsOn ==
    \A c \in Conns : \A k, l \in 1..Len(tasks[c]) :
      /\ k # l /\ tasks[c][k].on = "on" /\ tasks[c][l].on = "on"
      /\ tasks[c][k].nr = tasks[c][l].nr
      => tasks[c][k].nr \in twice

\* A connection that the device has not opened yet has its h to come, and
\* no message with it.
Silent(c) == \A m \in Range(toDev[c]) : m.a # "m"
Greeting ==
    \A c \in Conns :
      /\ mux[c] = "off" => sock[c] = "none" /\ c \notin stuck
      /\ mux[c] # "off" /\ (sock[c] = "none" \/ c \in clients) => HelloComes(c)
      /\ HelloComes(c) => Silent(c)

Call(m) == <<m.nr, m.n>>

\* No callback has been called with m, and m is not n; nothing is said of the
\* numbers in T, which a multiplexer has been told of twice.
Uncalled(m, cd, T) == m.nr \in T \/ Call(m) \notin cd
Differ(m, n, T) == m.nr \in T \/ Call(m) # Call(n)

\* The messages for callbacks in td are numbered up to b, not among those
\* called, and not there twice.
Late(td, cd, b, T) ==
    /\ \A i \in 1..Len(td) : td[i].a = "m" => td[i].n <= b /\ Uncalled(td[i], cd, T)
    /\ \A i, j \in 1..Len(td) :
         i < j /\ td[i].a = "m" /\ td[j].a = "m" => Differ(td[i], td[j], T)

\* Nor are those in the queue q, and none is in both.
Queued(q, td, cd, b, T) ==
    /\ \A i \in 1..Len(q) : q[i].n <= b /\ Uncalled(q[i], cd, T)
    /\ \A i, j \in 1..Len(q) : i < j => Differ(q[i], q[j], T)
    /\ \A i \in 1..Len(q), j \in 1..Len(td) : td[j].a = "m" => Differ(td[j], q[i], T)

Apart(q, r, T) == \A i \in 1..Len(q), j \in 1..Len(r) : Differ(q[i], r[j], T)

Novel(td, tk, cd, b, T) ==
    /\ Late(td, cd, b, T)
    /\ \A k \in 1..Len(tk) : Queued(tk[k].q, td, cd, b, T)
    /\ \A k, l \in 1..Len(tk) : k # l => Apart(tk[k].q, tk[l].q, T)

\* The client is the only one whose messages can still be delivered.
OnceInv ==
    ~raced =>
      /\ MeantInv /\ Greeting /\ OneIsOn
      /\ \A x \in called : x[2] \in Int /\ x[2] <= broker
      /\ \A c \in Conns : client = c => Novel(toDev[c], tasks[c], called, broker, twice)

-----------------------------------------------------------------------------
(* The inductive invariant behind TypeOK: which numbers the program can    *)
(* still use.                                                              *)

\* j of the calls that the program has made were given a number.
Numbering ==
    /\ \E p \in Plans : \E j \in 0..Len(p.wishes) - Len(wishes) : sub_nr = NumberOf(j + 1)
    /\ DOMAIN asked \subseteq Numbers
    /\ \A nr \in DOMAIN asked : asked[nr] \subseteq [t : Topics, r : BOOLEAN]
    /\ \A nr \in DOMAIN subs : nr \in DOMAIN asked /\ \E w \in asked[nr] : w.t = subs[nr]

Mail ==
    /\ prog.m \in Messages /\ broker \in Nat
    /\ \A c \in Conns :
         /\ Range(fromDev[c]) \subseteq Messages /\ Range(toDev[c]) \subseteq Messages
         /\ \A k \in 1..Len(tasks[c]) : /\ tasks[c][k].nr \in Numbers \cup {0}
                                        /\ Range(tasks[c][k].q) \subseteq Messages

\* The tables of the multiplexers lead to tasks.
Tabled == \A c \in Conns : \A nr \in DOMAIN msubs[c] : msubs[c][nr] \in 1..Len(tasks[c])

TypeInv ==
    /\ listening \in BOOLEAN /\ stuck \subseteq Conns
    /\ Numbering /\ Mail /\ Tabled

=============================================================================
