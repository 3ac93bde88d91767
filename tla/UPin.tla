------------------------------- MODULE UPin -------------------------------
(***************************************************************************)
(* examples/upin.py: debounced pins, the users of the Scheduler.  A pin's  *)
(* interrupt schedules _irq, which starts (or restarts) the debounce delay *)
(* `_dly`; _timer runs at its end and publishes when the pin is released.  *)
(* _scan runs every five delays.  The main program creates the pins.       *)
(***************************************************************************)
EXTENDS Scheduler, FiniteSets

CONSTANTS
  Pins,
  Delay,    \* the pins' `delay`, in ticks
  MaxDly    \* bound: debounce events of a pin that exist at a time.  _irq
            \* makes the next one while its name still holds the last

ASSUME UPinAssumption ==
  /\ Delay \in Nat \ {0}
  /\ MaxDly \in Nat \ {0, 1}
  /\ IsFiniteSet(Pins)

VARIABLES
  level,    \* level[p]: TRUE while the pin is high, that is released
  flag,     \* flag[p]: _sched
  dly,      \* dly[p]: _dly, which of p's debounce events it is, or None
  on,       \* on[p]: is `on` set?
  made,     \* made[p]: has p been created?
  cb,       \* the callback that runs, and its pin
  main,     \* the main program
  wrong     \* history: has cancel removed another event than it was given?

pinVars == <<level, flag, dly, on, made>>
vars    == <<schedVars, pinVars, cb, main, wrong>>

None == 0
Idle == [pc |-> "idle"]
At(pc, p) == [pc |-> pc, p |-> p]

Irq(p)  == <<"irq", p>>     \* _irq, in schedule()'s queue
scan(p) == <<"scan", p, 0>> \* the event `_scan_`
Dly(p, k) == <<"timer", p, k>>
PinEvents == {scan(p) : p \in Pins} \cup {Dly(p, k) : p \in Pins, k \in 1 .. MaxDly}

Init ==
  /\ SchedInit
  /\ level = [p \in Pins |-> TRUE]
  /\ flag  = [p \in Pins |-> FALSE]
  /\ dly   = [p \in Pins |-> None]
  /\ on    = [p \in Pins |-> FALSE]
  /\ made  = [p \in Pins |-> "no"]
  /\ cb    = Idle
  /\ main  = Idle
  /\ wrong = FALSE

-----------------------------------------------------------------------------
(* Mutant of do_irq: `_sched` stays set when schedule() fails.             *)
do_irqKeepsFlag(p) ==
  /\ level' = [level EXCEPT ![p] = ~@]
  /\ IF made[p] = "no" \/ flag[p] \/ dly[p] # None
     THEN UNCHANGED <<flag, pending>>
     ELSE /\ flag' = [flag EXCEPT ![p] = TRUE]
          /\ pending' = IF CanSchedule THEN Append(pending, Irq(p)) ELSE pending
  /\ UNCHANGED <<timer, queue, running, late, dly, on, made, cb, main, others, raised, wrong>>

(* The pin changes; _do_irq, its interrupt, does nothing while _irq is     *)
(* scheduled or a debounce delay runs.                                     *)
do_irq(p) ==
  /\ level' = [level EXCEPT ![p] = ~@]
  /\ IF made[p] = "no" \/ flag[p] \/ dly[p] # None \/ ~CanSchedule
     THEN UNCHANGED <<flag, pending>>
     ELSE /\ flag' = [flag EXCEPT ![p] = TRUE]
          /\ pending' = Append(pending, Irq(p))
  /\ UNCHANGED <<timer, queue, running, late, dly, on, made, cb, main, others, raised, wrong>>

(* MicroPython starts the next scheduled callback.  _irq begins with the   *)
(* reset of its flag.                                                      *)
Dispatch ==
  /\ cb = Idle
  /\ pending # <<>>
  /\ pending' = Tail(pending)
  /\ late' = 0
  /\ \/ /\ Head(pending) = Other
        /\ UNCHANGED <<running, flag, cb>>
     \/ /\ Head(pending) = Run
        /\ running' = TRUE
        /\ cb' = [pc |-> "loop"]
        /\ UNCHANGED flag
     \/ \E p \in Pins :
          /\ Head(pending) = Irq(p)
          /\ flag' = [flag EXCEPT ![p] = FALSE]
          /\ cb' = At("irq", p)
          /\ UNCHANGED running
  /\ UNCHANGED <<timer, queue, level, dly, on, made, main, others, raised, wrong>>

(* A new Event, for self._dly.                                             *)
NewDly(p) == CHOOSE k \in 1 .. MaxDly : k # dly[p] /\ Dly(p, k) \notin DOMAIN queue

(* The rest of _irq: a debounce delay that runs is cancelled, and a new    *)
(* one starts.  q is the queue without the event that was cancelled.       *)
Start(p, q) ==
  /\ Enter(q, Dly(p, NewDly(p)), Delay)
  /\ dly' = [dly EXCEPT ![p] = NewDly(p)]

Restart(p) ==
  IF dly[p] = None
  THEN Start(p, queue) /\ UNCHANGED wrong
  ELSE \E e \in Equal(Dly(p, dly[p])) :
         /\ Start(p, Without(queue, e))
         /\ wrong' = (e # Dly(p, dly[p]))

irq(p) ==
  /\ cb = At("irq", p)
  /\ on' = [on EXCEPT ![p] = TRUE]
  /\ cb' = Idle
  /\ Restart(p)
  /\ UNCHANGED <<running, late, others, level, flag, made, main>>

-----------------------------------------------------------------------------
(* _run's loop takes an event whose time has come.                         *)

(* _scan; when an interrupt has been noted it calls _irq first.            *)
Scan(p) ==
  /\ cb = [pc |-> "loop"]
  /\ scan(p) \in Due
  /\ queue' = Without(queue, scan(p))
  /\ cb' = IF flag[p] THEN At("scanirq", p) ELSE At("scan", p)
  /\ flag' = [flag EXCEPT ![p] = FALSE]
  /\ UNCHANGED <<timer, running, pending, late, level, dly, on, made, main, others, raised, wrong>>

(* _irq, called by _scan.                                                  *)
ScanIrq(p) ==
  /\ cb = At("scanirq", p)
  /\ on' = [on EXCEPT ![p] = TRUE]
  /\ cb' = At("scan", p)
  /\ Restart(p)
  /\ UNCHANGED <<running, late, others, level, flag, made, main>>

(* _scan enters itself again.  When callbacks have kept __init__ from      *)
(* getting the event for so long, that is an AttributeError.               *)
Rescan(p) ==
  /\ cb = At("scan", p)
  /\ IF made[p] = "yes"
     THEN /\ Enter(queue, scan(p), 5 * Delay)
          /\ cb' = [pc |-> "loop"]
          /\ UNCHANGED running
     ELSE /\ cb' = [pc |-> "set"]
          /\ running' = FALSE
          /\ raised' = TRUE
          /\ UNCHANGED <<timer, queue, pending>>
  /\ UNCHANGED <<late, others, pinVars, main, wrong>>

(* Mutant of StillLow: it enters a new event instead of `_dly`.            *)
StillLowAnew(p) ==
  /\ cb = [pc |-> "loop"]
  /\ ~level[p]
  /\ \E k \in 1 .. MaxDly :
       /\ Dly(p, k) \in Due
       /\ Enter(Without(queue, Dly(p, k)), Dly(p, NewDly(p)), Delay)
  /\ UNCHANGED <<running, late, others, pinVars, cb, main, wrong>>

(* _timer: wait another delay while the pin is low.                        *)
StillLow(p) ==
  /\ cb = [pc |-> "loop"]
  /\ ~level[p]
  /\ \E k \in 1 .. MaxDly :
       /\ Dly(p, k) \in Due
       /\ Enter(Without(queue, Dly(p, k)), Dly(p, dly[p]), Delay)
  /\ UNCHANGED <<running, late, others, pinVars, cb, main, wrong>>

(* Mutant of timer_: what publish raises leaves _run at once.              *)
timerEscapes(p) ==
  /\ cb = [pc |-> "loop"]
  /\ level[p]
  /\ \E k \in 1 .. MaxDly : /\ Dly(p, k) \in Due
                            /\ queue' = Without(queue, Dly(p, k))
  /\ dly' = [dly EXCEPT ![p] = None]
  /\ \/ on' = [on EXCEPT ![p] = FALSE] /\ UNCHANGED cb
     \/ cb' = Idle /\ UNCHANGED on
  /\ UNCHANGED <<timer, running, pending, late, level, flag, made, main, others, raised, wrong>>

(* _timer: the pin has been released.  publish may fail, which ends _run.  *)
timer_(p) ==
  /\ cb = [pc |-> "loop"]
  /\ level[p]
  /\ \E k \in 1 .. MaxDly : /\ Dly(p, k) \in Due
                            /\ queue' = Without(queue, Dly(p, k))
  /\ dly' = [dly EXCEPT ![p] = None]
  /\ \/ on' = [on EXCEPT ![p] = FALSE] /\ UNCHANGED <<running, cb>>
     \/ running' = FALSE /\ cb' = [pc |-> "set"] /\ UNCHANGED on
  /\ UNCHANGED <<timer, pending, late, level, flag, made, main, others, raised, wrong>>

(* No event is due (any more): _run leaves its loop.                       *)
Leave ==
  /\ cb = [pc |-> "loop"]
  /\ Due = {}
  /\ running' = FALSE
  /\ cb' = [pc |-> "set"]
  /\ UNCHANGED <<timer, queue, pending, late, pinVars, main, others, raised, wrong>>

(* Mutant of Finally: it calls _set_timer before `_running` is reset.      *)
FinallySwapped ==
  /\ cb = [pc |-> "set"]
  /\ cb' = Idle
  /\ UNCHANGED <<timer, queue, running, pending, late, others, raised, pinVars, main, wrong>>

(* The `finally` of _run.                                                  *)
Finally ==
  /\ cb = [pc |-> "set"]
  /\ UNCHANGED queue
  /\ SetTimer
  /\ cb' = Idle
  /\ UNCHANGED <<running, late, others, pinVars, main, wrong>>

-----------------------------------------------------------------------------
(* __init__ in the main program, from where it takes interrupts; then      *)
(* enter and _set_timer, with callbacks between their steps.               *)
Create(p) ==
  /\ cb = Idle
  /\ main = Idle
  /\ made[p] = "no"
  /\ made' = [made EXCEPT ![p] = "begun"]
  /\ main' = [pc |-> "push", p |-> p, age |-> 0, n |-> 0]
  /\ UNCHANGED <<schedVars, level, flag, dly, on, cb, wrong>>

(* enter has read the time, t, a ticks ago.                                *)
Push ==
  /\ cb = Idle
  /\ main.pc = "push"
  /\ \E a \in 0 .. main.age :
       /\ queue' = With(queue, scan(main.p), ticks_diff(5 * Delay - a))
       /\ main' = [main EXCEPT !.pc = "compute", !.age = a]
  /\ UNCHANGED <<timer, running, pending, late, others, raised, pinVars, cb, wrong>>

Compute ==
  /\ cb = Idle
  /\ main.pc = "compute"
  /\ IF DOMAIN queue = {}
     THEN main' = [main EXCEPT !.pc = "deinit"]
     ELSE \E e \in Roots(queue) :
            main' = [main EXCEPT !.pc = "arm", !.n = ticks_diff(queue[e] + main.age)]
  /\ UNCHANGED <<schedVars, pinVars, cb, wrong>>

Created ==
  /\ cb = Idle
  /\ \/ main.pc = "deinit" /\ Disarm
     \/ main.pc = "arm" /\ Arm(main.n)
  /\ made' = [made EXCEPT ![main.p] = "yes"]
  /\ main' = Idle
  /\ UNCHANGED <<queue, running, late, others, level, flag, dly, on, cb, wrong>>

-----------------------------------------------------------------------------
Busy == cb # Idle \/ pending # <<>> 

Interrupt == sched_run /\ UNCHANGED <<pinVars, cb, main, wrong>>
Time ==
  /\ Tick(Busy)
  /\ main # Idle => main.age < MaxLate
  /\ main' = IF main = Idle THEN Idle ELSE [main EXCEPT !.age = @ + 1]
  /\ UNCHANGED <<pinVars, cb, wrong>>
Others    == Schedule /\ UNCHANGED <<pinVars, cb, main, wrong>>

Callback ==
  \/ Dispatch \/ Leave \/ Finally
  \/ \E p \in Pins : irq(p) \/ Scan(p) \/ ScanIrq(p) \/ Rescan(p) \/ StillLow(p) \/ timer_(p)

Main == (\E p \in Pins : Create(p)) \/ Push \/ Compute \/ Created

(* A program in which cancel, _set_timer or _scan has failed is not        *)
(* followed any further.                                                   *)
Sound == ~wrong /\ ~raised

Next ==
  /\ Sound
  /\ Interrupt \/ Time \/ Others \/ Callback \/ Main \/ \E p \in Pins : do_irq(p)

Spec == Init /\ [][Next]_vars

(* Time passes, and MicroPython serves interrupts, runs what is scheduled  *)
(* and goes on with a call of the main program.                            *)
FairSpec ==
  /\ Spec
  /\ WF_vars(Sound /\ Interrupt)
  /\ WF_vars(Sound /\ Time)
  /\ WF_vars(Sound /\ Callback)
  /\ SF_vars(Sound /\ (Push \/ Compute \/ Created))

-----------------------------------------------------------------------------
(* Types; `_running` is set exactly during the loop of _run, also when an  *)
(* event's action raises.                                                  *)
TypeOK ==
  /\ timer \in Off .. Period
  /\ queue \in [DOMAIN queue -> -(Period \div 2) .. Period \div 2 - 1]
  /\ DOMAIN queue \subseteq PinEvents
  /\ running = (cb.pc \in {"loop", "scan", "scanirq"})
  /\ Len(pending) <= Depth
  /\ dly \in [Pins -> None .. MaxDly]

(* While no call of the scheduler is under way, a queue that has events    *)
(* has the timer set or _run scheduled, although interrupts meet a full    *)
(* queue of schedule() and callbacks interrupt the main program in enter.  *)
WakeUp ==
  cb = Idle /\ main = Idle /\ DOMAIN queue # {} /\ ~raised
  => timer # Off \/ Run \in Range(pending)

(* A pin's `_dly` is None or the one debounce event of the pin that is in  *)
(* the queue, and then `on` is set: so cancel always finds an event, and   *)
(* _timer a time to subtract.                                              *)
DelayRuns ==
  Sound =>
    \A p \in Pins : \A k \in 1 .. MaxDly :
      /\ dly[p] = k <=> Dly(p, k) \in DOMAIN queue
      /\ dly[p] = k => on[p]

(* A pin that ignores interrupts because _irq is scheduled has it in       *)
(* schedule()'s queue.                                                     *)
FlagKept == \A p \in Pins : flag[p] => Irq(p) \in Range(pending)

(* No event waits longer past its time than MaxWait: for the timer, which  *)
(* may have been set for another event by an interrupted _set_timer of the *)
(* main program; for what others have scheduled, and the timer's next try; *)
(* for the callbacks before _run; and for these again whenever the publish *)
(* of another debounce event ends _run.                                    *)
Scans == {scan(p) : p \in Pins}
Slack(e) == IF e \in Scans THEN MaxLate ELSE 4 * Delay + MaxLate
Round == Depth * MaxLate
Failures(e) == IF e \in Scans THEN Cardinality(Pins) ELSE Cardinality(Pins) - 1
MaxWait(e) ==
  Slack(e) + 2 * MaxLate + MaxOther * (MaxLate + 1) + (Failures(e) + 1) * Round

Timely == Sound => \A e \in DOMAIN queue : queue[e] >= -MaxWait(e)

(* A pin that stays released ends its debounce delay, and so takes notice  *)
(* of its interrupts again.                                                *)
DebounceEnds ==
  \A p \in Pins : <>[](level[p] /\ Sound) => []<>(dly[p] = None)

-----------------------------------------------------------------------------
(* What WakeUp and FlagKept need to be inductive.                          *)

WakeTypes ==
  /\ timer \in Nat \cup {Off}
  /\ \A e \in DOMAIN queue : queue[e] \in Int
  /\ pending \in Seq({Run, Other} \cup {Irq(p) : p \in Pins})
  /\ running \in BOOLEAN /\ (running <=> cb.pc \in {"loop", "scan", "scanirq"})
  /\ flag \in [Pins -> BOOLEAN]
  /\ DOMAIN made = Pins
  /\ main # Idle => main \in [pc : {"push", "compute", "deinit", "arm"}, p : Pins, age : Nat, n : Int]

(* Once a pin has been pushed, and until it is created, its scan event is  *)
(* in the queue, or about to fail because it has come too early: so the    *)
(* main program does not find the queue empty, and never switches off a    *)
(* timer that a callback has set.                                          *)
Creating ==
  main # Idle =>
    /\ main.pc # "deinit"
    /\ made[main.p] = "begun"
    /\ Sound => \/ main.pc = "push"
                \/ scan(main.p) \in DOMAIN queue
                \/ cb = At("scan", main.p)
                \/ cb = At("scanirq", main.p)

WakeInv == WakeTypes /\ Creating /\ WakeUp /\ FlagKept

-----------------------------------------------------------------------------
(* What a comment says and the code does not do.                           *)

(* sched.py, cancel: "Remove an event from the queue.", that is, this one. *)
CancelRemoves == [][~wrong']_vars

=============================================================================
