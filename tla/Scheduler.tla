----------------------------- MODULE Scheduler -----------------------------
(***************************************************************************)
(* embedded/sched.py, class Scheduler: events that run at their time, by   *)
(* way of one hardware timer and MicroPython's schedule().                 *)
(*                                                                         *)
(* Three things interleave on the device.  Interrupts (the timer's, here   *)
(* _sched_run) come at any time.  Callbacks given to schedule() run one    *)
(* after the other, between any two steps of the main program, and to      *)
(* their end.  The main program goes on when no callback runs.  What the   *)
(* actions of the events do is left to the module that has them: it        *)
(* extends this one, and defines _run's step that runs an event.           *)
(*                                                                         *)
(* Only differences of times are ever looked at, so an event's time is     *)
(* modelled as its difference to now, as ticks_diff would compute it.      *)
(***************************************************************************)
EXTENDS Integers, Sequences, Functions

CONSTANTS
  Period,   \* ticks_ms() counts modulo Period
  Depth,    \* length of schedule()'s queue
  MaxLate,  \* bound: ticks that pass during one callback, or before it
  MaxOther  \* bound: callbacks that others schedule

ASSUME SchedulerAssumption ==
  /\ Period \in Nat \ {0}
  /\ Period % 2 = 0
  /\ Depth \in Nat \ {0}
  /\ {MaxLate, MaxOther} \subseteq Nat

VARIABLES
  timer,    \* ticks until the timer's interrupt, or Off
  queue,    \* _queue: the events in it, with the ticks until their time
  running,  \* _running
  pending,  \* schedule()'s queue
  late,     \* ticks since a callback has started, or was ready to
  others,   \* callbacks of others so far
  raised    \* history: has _set_timer or an action of an event failed, so
            \* that events are left alone?

schedVars == <<timer, queue, running, pending, late, others, raised>>

Off == -1
Run == <<"run">>     \* _run, in schedule()'s queue
Other == <<"other">> \* some other callback there: a socket's, the console's

With(f, k, v) == [x \in DOMAIN f \cup {k} |-> IF x = k THEN v ELSE f[x]]
Without(f, k) == Restrict(f, DOMAIN f \ {k})

SchedInit ==
  /\ timer   = Off
  /\ queue   = Restrict(<<>>, {})
  /\ running = FALSE
  /\ pending = <<>>
  /\ late    = 0
  /\ others  = 0
  /\ raised  = FALSE

(* MicroPython: ticks_diff of two times that are d ticks apart.            *)
ticks_diff(d) == ((d + Period \div 2) % Period) - Period \div 2

(* Mutant of Roots: the heap's order is the other way round.               *)
RootsReversed(q) ==
  LET last == {e \in DOMAIN q : \A f \in DOMAIN q : ticks_diff(q[f] - q[e]) <= 0}
  IN  IF last = {} THEN DOMAIN q ELSE last

(* The events that heapq may have at the root: a least one.  Times too far *)
(* apart have no order; then it may be any.                                *)
Roots(q) ==
  LET least == {e \in DOMAIN q : \A f \in DOMAIN q : ticks_diff(q[e] - q[f]) <= 0}
  IN  IF least = {} THEN DOMAIN q ELSE least

(* schedule(): RuntimeError when the queue is full.                        *)
CanSchedule == Len(pending) < Depth

-----------------------------------------------------------------------------
(* The end of _set_timer: n is the time to wait.                           *)
Arm(n) ==
  IF n > 0
  THEN timer' = n /\ UNCHANGED <<pending, raised>>
  ELSE IF CanSchedule
  THEN pending' = Append(pending, Run) /\ UNCHANGED <<timer, raised>>
  ELSE raised' = TRUE /\ UNCHANGED <<timer, pending>>

Disarm == timer' = Off /\ UNCHANGED <<pending, raised>>

SetTimer ==
  IF DOMAIN queue' = {} THEN Disarm
  ELSE \E e \in Roots(queue') : Arm(queue'[e])

(* enter, in a callback.  An action that _run runs leaves the timer alone. *)
Enter(q, e, d) ==
  /\ queue' = With(q, e, ticks_diff(d))
  /\ IF running THEN UNCHANGED <<timer, pending, raised>> ELSE SetTimer

(* cancel, that is list.remove: it removes one of the events that are      *)
(* equal to e, which all with its time are; the order in the heap decides. *)
Equal(e) == {f \in DOMAIN queue : queue[e] = queue[f]}

-----------------------------------------------------------------------------
(* Mutant of sched_run: it does not try again when the queue is full.      *)
sched_runOnce ==
  /\ timer = 0
  /\ timer' = Off
  /\ pending' = IF CanSchedule THEN Append(pending, Run) ELSE pending
  /\ UNCHANGED <<queue, running, late, others, raised>>

(* The timer's interrupt.                                                  *)
sched_run ==
  /\ timer = 0
  /\ IF CanSchedule
     THEN timer' = Off /\ pending' = Append(pending, Run)
     ELSE timer' = 1 /\ UNCHANGED pending
  /\ UNCHANGED <<queue, running, late, others, raised>>

(* Time passes.  An interrupt is served at once; callbacks may take their  *)
(* time, within the bound.                                                 *)
Tick(busy) ==
  /\ timer # 0
  /\ busy => late < MaxLate
  /\ queue' = [e \in DOMAIN queue |-> ticks_diff(queue[e] - 1)]
  /\ timer' = IF timer = Off THEN Off ELSE timer - 1
  /\ late' = IF busy THEN late + 1 ELSE 0
  /\ UNCHANGED <<running, pending, others, raised>>

(* Somebody else schedules a callback.                                     *)
Schedule ==
  /\ others < MaxOther
  /\ others' = others + 1
  /\ CanSchedule
  /\ pending' = Append(pending, Other)
  /\ UNCHANGED <<timer, queue, running, late, raised>>

(* What _run's loop may find at the root of the heap, with its time come.  *)
Due == {e \in Roots(queue) : queue[e] <= 0}

=============================================================================
