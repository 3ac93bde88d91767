------------------------------ MODULE UPinInv ------------------------------
(***************************************************************************)
(* The inductive invariant behind Timely: who will run an event, and how   *)
(* long it has to wait at most, from any moment on.                        *)
(***************************************************************************)
EXTENDS UPin

(* The pins whose debounce event runs before e, and may end _run.          *)
Own(p) == Dly(p, dly[p])
Before(e) == {p \in Pins : dly[p] # None /\ Own(p) # e /\ queue[Own(p)] <= queue[e]}
Rounds(e) == Cardinality(Before(e)) * Round

(* e runs in time if it waits n more ticks, and for those before it.       *)
InTime(e, n) == n + Rounds(e) - queue[e] <= MaxWait(e)

(* The callback that runs, or is ready to, takes no longer than this.      *)
Rest == MaxLate - late

(* e is run by _run; by _run when its `finally`, or _irq, has scheduled it *)
(* or set the timer; by _run, the kth of what is scheduled.                *)
Running(e) == cb.pc \in {"loop", "scan", "scanirq"} /\ InTime(e, Rest)
Ending(e)  == cb.pc \in {"set", "irq"} /\ InTime(e, Rest + Round)
Pending(e) ==
  /\ cb.pc \in {"idle", "irq"}
  /\ \E k \in 1 .. Len(pending) : pending[k] = Run /\ InTime(e, Rest + k * MaxLate)

(* The timer has found schedule()'s queue full and tries again each tick.  *)
(* Before it succeeds, others may have filled the queue again; or _irq     *)
(* runs, the kth or to be the kth, and schedules _run.                     *)
Tries(k) == (k - 1 + MaxOther - others) * (MaxLate + 1) + MaxLate + Round
Retrying(e) ==
  /\ cb.pc = "idle" /\ timer \in {0, 1}
  /\ \E k \in 1 .. Len(pending) + 1 :
       /\ k <= Len(pending) => pending[k] \notin {Run, Other}
       /\ InTime(e, (IF pending = <<>> THEN timer + MaxLate ELSE Rest) + Tries(k))

(* The timer will run out, too late by Slack at worst.                     *)
Waiting(e) == timer # Off /\ timer <= queue[e] + Slack(e)

(* The main program is going to set the timer.                             *)
Entering(e) == main # Idle /\ main.pc # "push" /\ e = scan(main.p)

Served(e) ==
  Running(e) \/ Ending(e) \/ Pending(e) \/ Retrying(e) \/ Waiting(e) \/ Entering(e)

(* No more callbacks of others follow each other than others have made.    *)
OthersCounted ==
  \A i, j \in 1 .. Len(pending) :
    i <= j /\ (\A m \in i .. j : pending[m] = Other) => j - i + 1 <= others

(* The time that _set_timer of the main program has computed is too late   *)
(* by Slack at worst when the timer is set.                                *)
Arming ==
  main # Idle =>
    /\ main.age <= MaxLate
    /\ main.pc # "push" /\ scan(main.p) \in DOMAIN queue => queue[scan(main.p)] = 5 * Delay - main.age
    /\ main.pc = "arm" =>
         /\ main.n <= 5 * Delay
         /\ \A e \in DOMAIN queue : main.n <= queue[e] + Slack(e) - MaxLate + main.age

Bounds ==
  /\ late \in 0 .. MaxLate
  /\ others \in 0 .. MaxOther
  /\ timer <= 5 * Delay
  /\ \A e \in DOMAIN queue : queue[e] <= 5 * Delay
  /\ cb.pc \in {"idle", "irq", "loop", "scan", "scanirq", "set"}
  /\ cb.pc = "idle" => cb = Idle

TimeInv ==
  /\ Bounds /\ OthersCounted
  /\ Sound => Arming /\ \A e \in DOMAIN queue : Served(e)

(* ticks_ms() does not wrap around within the times that are compared.     *)
Ample == \A e \in PinEvents : 2 * (MaxWait(e) + 5 * Delay + 1) < Period

=============================================================================
