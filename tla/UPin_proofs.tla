---------------------------- MODULE UPin_proofs ----------------------------
(***************************************************************************)
(* The scheduler of UPin never forgets to wake up, and its pins never go   *)
(* deaf, neither to _irq nor for a debounce delay that nobody ends, and no *)
(* event waits longer than MaxWait: for any pins and delays, any length of *)
(* schedule()'s queue, and any time that callbacks take.                   *)
(***************************************************************************)
EXTENDS UPinInv, FiniteSetTheorems, WellFoundedInduction, TLAPS

Scheduled == {Run, Other} \cup {Irq(p) : p \in Pins}

(* What a step that sets the timer, or schedules _run instead, brings.     *)
Armed ==
  /\ timer' \in Nat \cup {Off}
  /\ pending' \in Seq(Scheduled)
  /\ Range(pending) \subseteq Range(pending')
  /\ raised => raised'
  /\ DOMAIN queue' # {} /\ ~raised' => timer' # Off \/ Run \in Range(pending')

-----------------------------------------------------------------------------
(* Sequences, seen through what is in them.                                *)
LEMMA AppendRange ==
  ASSUME NEW S, NEW s \in Seq(S), NEW x \in S
  PROVE  /\ Append(s, x) \in Seq(S)
         /\ Range(s) \subseteq Range(Append(s, x))
         /\ x \in Range(Append(s, x))
<1>1. Append(s, x) \in Seq(S)
  OBVIOUS
<1>2. /\ DOMAIN s = 1 .. Len(s)
      /\ DOMAIN Append(s, x) = 1 .. Len(s) + 1
      /\ \A i \in 1 .. Len(s) : Append(s, x)[i] = s[i]
      /\ Append(s, x)[Len(s) + 1] = x
      /\ Len(s) \in Nat
  OBVIOUS
<1>3. Range(s) \subseteq Range(Append(s, x))
  BY <1>2 DEF Range
<1>4. Len(s) + 1 \in DOMAIN Append(s, x)
  BY <1>2
<1> QED BY <1>1, <1>2, <1>3, <1>4 DEF Range

LEMMA TailRange ==
  ASSUME NEW S, NEW s \in Seq(S), s # <<>>
  PROVE  /\ Tail(s) \in Seq(S)
         /\ Range(s) \subseteq Range(Tail(s)) \cup {Head(s)}
<1>1. Tail(s) \in Seq(S)
  OBVIOUS
<1>2. /\ DOMAIN s = 1 .. Len(s)
      /\ DOMAIN Tail(s) = 1 .. Len(s) - 1
      /\ \A i \in 1 .. Len(s) - 1 : Tail(s)[i] = s[i + 1]
      /\ Head(s) = s[1]
      /\ Len(s) \in Nat
  OBVIOUS
<1>3. ASSUME NEW i \in 1 .. Len(s), i # 1
      PROVE  s[i] \in Range(Tail(s))
  <2>1. i - 1 \in 1 .. Len(s) - 1 /\ (i - 1) + 1 = i
    BY <1>2, <1>3
  <2>2. i - 1 \in DOMAIN Tail(s) /\ Tail(s)[i - 1] = s[i]
    BY <1>2, <2>1
  <2> QED BY <2>2 DEF Range
<1> QED BY <1>1, <1>2, <1>3 DEF Range

LEMMA Names ==
  /\ Run # Other
  /\ \A p : Irq(p) # Run /\ Irq(p) # Other
  /\ \A p, q : p # q => Irq(p) # Irq(q)
BY DEF Run, Other, Irq

(* Times computed by ticks_diff are numbers.                               *)
LEMMA Ticks ==
  ASSUME NEW d \in Int
  PROVE  ticks_diff(d) \in Int
BY SchedulerAssumption DEF ticks_diff

(* The end of _set_timer sets the timer, schedules _run, or raises.        *)
LEMMA ArmArms ==
  ASSUME NEW n \in Int, timer \in Nat \cup {Off}, pending \in Seq(Scheduled),
         Arm(n)
  PROVE  Armed
<1>1. CASE n > 0
  BY <1>1 DEF Arm, Armed, Off
<1>2. CASE ~(n > 0) /\ CanSchedule
  <2>1. pending' = Append(pending, Run) /\ timer' = timer /\ raised' = raised
    BY <1>2 DEF Arm
  <2>2. Run \in Scheduled
    BY DEF Scheduled
  <2> QED BY <2>1, <2>2, AppendRange DEF Armed
<1>3. CASE ~(n > 0) /\ ~CanSchedule
  BY <1>3 DEF Arm, Armed
<1> QED BY <1>1, <1>2, <1>3

LEMMA SetTimerArms ==
  ASSUME timer \in Nat \cup {Off}, pending \in Seq(Scheduled),
         \A e \in DOMAIN queue' : queue'[e] \in Int,
         SetTimer
  PROVE  Armed
<1>1. CASE DOMAIN queue' = {}
  BY <1>1 DEF SetTimer, Disarm, Armed
<1>2. CASE DOMAIN queue' # {}
  <2>1. PICK e \in Roots(queue') : Arm(queue'[e])
    BY <1>2 DEF SetTimer
  <2>2. e \in DOMAIN queue'
    BY DEF Roots
  <2>3. PICK n \in Int : n = queue'[e]
    BY <2>2
  <2>4. Arm(n)
    BY <2>1, <2>3
  <2> QED BY <2>4, ArmArms
<1> QED BY <1>1, <1>2

-----------------------------------------------------------------------------
(* What enter, in a callback, brings: the scan events in the queue f stay. *)
Entered(f) ==
  /\ timer' \in Nat \cup {Off}
  /\ pending' \in Seq(Scheduled)
  /\ Range(pending) \subseteq Range(pending')
  /\ raised => raised'
  /\ \A e \in DOMAIN queue' : queue'[e] \in Int
  /\ DOMAIN f \subseteq DOMAIN queue'
  /\ ~running => Armed

LEMMA EnterEnters ==
  ASSUME WakeTypes, NEW f, \A x \in DOMAIN f : f[x] \in Int,
         NEW e, NEW d \in Int, Enter(f, e, d)
  PROVE  Entered(f) /\ e \in DOMAIN queue'
<1>1. queue' = With(f, e, ticks_diff(d))
  BY DEF Enter
<1>2. /\ DOMAIN queue' = DOMAIN f \cup {e}
      /\ \A x \in DOMAIN queue' : queue'[x] \in Int
  BY <1>1, Ticks DEF With
<1>3. timer \in Nat \cup {Off} /\ pending \in Seq(Scheduled)
  BY DEF WakeTypes, Scheduled
<1>4. CASE running
  BY <1>2, <1>3, <1>4 DEF Enter, Entered
<1>5. CASE ~running
  <2>1. SetTimer
    BY <1>5 DEF Enter
  <2>2. Armed
    BY <2>1, <1>2, <1>3, SetTimerArms
  <2> QED BY <2>2, <1>2 DEF Entered, Armed
<1> QED BY <1>4, <1>5

LEMMA WithoutKeeps ==
  ASSUME NEW f, NEW k, \A x \in DOMAIN f : f[x] \in Int
  PROVE  /\ DOMAIN Without(f, k) = DOMAIN f \ {k}
         /\ \A x \in DOMAIN Without(f, k) : Without(f, k)[x] \in Int
BY DEF Without, Restrict

LEMMA ScanIsNoDly ==
  ASSUME NEW p, NEW q, NEW k
  PROVE  scan(p) # Dly(q, k)
BY DEF scan, Dly

Restarted ==
  \E f : /\ Entered(f)
         /\ ~wrong' => \A q \in Pins : scan(q) \in DOMAIN queue => scan(q) \in DOMAIN f

(* _irq drops no scan event, but when cancel takes a wrong one.            *)
LEMMA RestartEnters ==
  ASSUME WakeTypes, NEW p \in Pins, Restart(p)
  PROVE  Restarted
<1>1. Delay \in Int
  BY UPinAssumption
<1>2. \A x \in DOMAIN queue : queue[x] \in Int
  BY DEF WakeTypes
<1>3. CASE dly[p] = None
  <2>1. Enter(queue, Dly(p, NewDly(p)), Delay)
    BY <1>3 DEF Restart, Start
  <2>2. Entered(queue)
    BY <2>1, <1>1, <1>2, EnterEnters
  <2> QED BY <2>2 DEF Restarted
<1>4. CASE dly[p] # None
  <2>1. PICK e \in Equal(Dly(p, dly[p])) :
          /\ Start(p, Without(queue, e))
          /\ wrong' = (e # Dly(p, dly[p]))
    BY <1>4 DEF Restart
  <2>2. PICK f : f = Without(queue, e)
    OBVIOUS
  <2>3. /\ DOMAIN f = DOMAIN queue \ {e}
        /\ \A x \in DOMAIN f : f[x] \in Int
    BY <2>2, <1>2, WithoutKeeps
  <2>4. Enter(f, Dly(p, NewDly(p)), Delay)
    BY <2>1, <2>2 DEF Start
  <2>5. Entered(f)
    BY <2>3, <2>4, <1>1, EnterEnters
  <2>6. ASSUME ~wrong', NEW q \in Pins, scan(q) \in DOMAIN queue
        PROVE  scan(q) \in DOMAIN f
    BY <2>1, <2>3, <2>6, ScanIsNoDly
  <2> QED BY <2>5, <2>6 DEF Restarted
<1> QED BY <1>3, <1>4

-----------------------------------------------------------------------------
(* What a step of a callback leaves as it is, and what it has to keep.     *)
Kept ==
  /\ timer' \in Nat \cup {Off}
  /\ pending' \in Seq(Scheduled)
  /\ Range(pending) \subseteq Range(pending')
  /\ \A e \in DOMAIN queue' : queue'[e] \in Int
  /\ UNCHANGED <<flag, made, main>>

(* `_running` is set during the loop of _run.                              *)
RunsLoop ==
  running \in BOOLEAN /\ (running <=> cb.pc \in {"loop", "scan", "scanirq"})

(* The scan event of the pin that is created has not been lost.            *)
ScanKept ==
  main # Idle /\ main.pc # "push" /\ Sound' =>
    \/ scan(main.p) \in DOMAIN queue'
    \/ cb' = At("scan", main.p)
    \/ cb' = At("scanirq", main.p)

LEMMA CallbackKeeps ==
  ASSUME WakeInv, Kept, ScanKept,
         RunsLoop',
         cb' = Idle => Armed
  PROVE  WakeInv'
<1>1. WakeTypes'
  BY DEF WakeInv, WakeTypes, RunsLoop, Kept, Scheduled
<1>2. Creating'
  BY DEF WakeInv, Creating, Kept, ScanKept
<1>3. WakeUp'
  BY DEF WakeUp, Armed
<1>4. FlagKept'
  BY DEF WakeInv, FlagKept, Kept
<1> QED BY <1>1, <1>2, <1>3, <1>4 DEF WakeInv

LEMMA IrqStep ==
  ASSUME WakeInv, Sound, NEW p \in Pins, irq(p)
  PROVE  WakeInv'
<1>1. WakeTypes /\ Creating /\ cb = At("irq", p) /\ cb' = Idle
  BY DEF WakeInv, irq
<1>2. cb.pc = "irq" /\ cb'.pc = "idle" /\ running = FALSE /\ running' = FALSE
  BY <1>1 DEF WakeTypes, At, Idle, irq
<1>3. PICK f : /\ Entered(f)
               /\ ~wrong' => \A q \in Pins : scan(q) \in DOMAIN queue => scan(q) \in DOMAIN f
  <2>1. Restart(p)
    BY DEF irq
  <2>2. Restarted
    BY <1>1, <2>1, RestartEnters
  <2> QED BY <2>2 DEF Restarted
<1>4. Kept
  BY <1>3 DEF irq, Kept, Entered
<1>5. main # Idle /\ main.pc # "push" => scan(main.p) \in DOMAIN queue
  BY <1>1, <1>2 DEF Creating, At
<1>6. ScanKept
  BY <1>1, <1>3, <1>5 DEF ScanKept, Sound, Entered, WakeTypes
<1>7. Armed
  <2>1. ~running
    BY <1>2
  <2> QED BY <1>3, <2>1 DEF Entered
<1> QED BY <1>2, <1>4, <1>6, <1>7, CallbackKeeps DEF RunsLoop

LEMMA ScanIrqStep ==
  ASSUME WakeInv, Sound, NEW p \in Pins, ScanIrq(p)
  PROVE  WakeInv'
<1>1. WakeTypes /\ Creating /\ cb = At("scanirq", p) /\ cb' = At("scan", p)
  BY DEF WakeInv, ScanIrq
<1>2. cb.pc = "scanirq" /\ cb'.pc = "scan" /\ running /\ running' = running
  BY <1>1 DEF WakeTypes, At, ScanIrq
<1>3. PICK f : /\ Entered(f)
               /\ ~wrong' => \A q \in Pins : scan(q) \in DOMAIN queue => scan(q) \in DOMAIN f
  <2>1. Restart(p)
    BY DEF ScanIrq
  <2>2. Restarted
    BY <1>1, <2>1, RestartEnters
  <2> QED BY <2>2 DEF Restarted
<1>4. Kept
  BY <1>3 DEF ScanIrq, Kept, Entered
<1>5. main # Idle /\ main.pc # "push" => scan(main.p) \in DOMAIN queue \/ p = main.p
  BY <1>1 DEF Creating, At
<1>6. ScanKept
  BY <1>1, <1>3, <1>5 DEF ScanKept, Sound, Entered, WakeTypes
<1>7. cb' # Idle
  BY <1>2 DEF Idle
<1> QED BY <1>2, <1>4, <1>6, <1>7, CallbackKeeps DEF RunsLoop

LEMMA RescanStep ==
  ASSUME WakeInv, Sound, NEW p \in Pins, Rescan(p)
  PROVE  WakeInv'
<1>1. WakeTypes /\ Creating /\ cb = At("scan", p)
  BY DEF WakeInv, Rescan
<1>2. cb.pc = "scan" /\ running
  BY <1>1 DEF WakeTypes, At
<1>3. 5 * Delay \in Int /\ \A x \in DOMAIN queue : queue[x] \in Int
  BY <1>1, UPinAssumption DEF WakeTypes
<1>4. main # Idle /\ main.pc # "push" => scan(main.p) \in DOMAIN queue \/ p = main.p
  BY <1>1 DEF Creating, At
<1>5. CASE made[p] = "yes"
  <2>1. Enter(queue, scan(p), 5 * Delay) /\ cb' = [pc |-> "loop"] /\ running' = running
    BY <1>5 DEF Rescan
  <2>2. Entered(queue) /\ scan(p) \in DOMAIN queue'
    BY <1>1, <1>3, <2>1, EnterEnters
  <2>3. Kept
    BY <2>2 DEF Rescan, Kept, Entered, pinVars
  <2>4. ScanKept
    BY <1>4, <2>2 DEF ScanKept, Entered
  <2> QED BY <1>2, <2>1, <2>3, <2>4, CallbackKeeps DEF Idle, RunsLoop
<1>6. CASE made[p] # "yes"
  <2>1. /\ cb' = [pc |-> "set"] /\ running' = FALSE /\ raised' = TRUE
        /\ UNCHANGED <<timer, queue, pending, flag, made, main>>
    BY <1>6 DEF Rescan, pinVars
  <2>2. Kept
    BY <1>1, <2>1 DEF Kept, WakeTypes, Scheduled
  <2>3. ScanKept
    BY <2>1 DEF ScanKept, Sound
  <2> QED BY <2>1, <2>2, <2>3, CallbackKeeps DEF Idle, RunsLoop
<1> QED BY <1>5, <1>6

LEMMA StillLowStep ==
  ASSUME WakeInv, Sound, NEW p \in Pins, StillLow(p)
  PROVE  WakeInv'
<1>1. WakeTypes /\ Creating /\ cb = [pc |-> "loop"] /\ cb' = cb
  BY DEF WakeInv, StillLow
<1>2. PICK k \in 1 .. MaxDly :
        Enter(Without(queue, Dly(p, k)), Dly(p, dly[p]), Delay)
  BY DEF StillLow
<1>3. PICK f : f = Without(queue, Dly(p, k))
  OBVIOUS
<1>4. /\ DOMAIN f = DOMAIN queue \ {Dly(p, k)}
      /\ \A x \in DOMAIN f : f[x] \in Int
  BY <1>1, <1>3, WithoutKeeps DEF WakeTypes
<1>5. Entered(f)
  BY <1>1, <1>2, <1>3, <1>4, UPinAssumption, EnterEnters
<1>6. Kept
  BY <1>5 DEF StillLow, Kept, Entered, pinVars
<1>7. main # Idle /\ main.pc # "push" => scan(main.p) \in DOMAIN queue
  BY <1>1 DEF Creating, At
<1>8. ScanKept
  BY <1>4, <1>5, <1>7, ScanIsNoDly DEF ScanKept, Entered
<1>9. RunsLoop'
  BY <1>1 DEF WakeTypes, StillLow, RunsLoop
<1> QED BY <1>1, <1>6, <1>8, <1>9, CallbackKeeps DEF Idle

LEMMA TimerStep ==
  ASSUME WakeInv, Sound, NEW p \in Pins, timer_(p)
  PROVE  WakeInv'
<1>1. WakeTypes /\ Creating /\ cb = [pc |-> "loop"]
  BY DEF WakeInv, timer_
<1>2. PICK k \in 1 .. MaxDly : queue' = Without(queue, Dly(p, k))
  BY DEF timer_
<1>3. /\ DOMAIN queue' = DOMAIN queue \ {Dly(p, k)}
      /\ \A x \in DOMAIN queue' : queue'[x] \in Int
  BY <1>1, <1>2, WithoutKeeps DEF WakeTypes
<1>4. Kept
  BY <1>1, <1>3 DEF timer_, Kept, WakeTypes, Scheduled
<1>5. main # Idle /\ main.pc # "push" => scan(main.p) \in DOMAIN queue
  BY <1>1 DEF Creating, At
<1>6. ScanKept
  BY <1>3, <1>5, ScanIsNoDly DEF ScanKept
<1>7. RunsLoop' /\ cb' # Idle
  <2>1. \/ running' = running /\ cb' = cb
        \/ running' = FALSE /\ cb' = [pc |-> "set"]
    BY DEF timer_
  <2>2. CASE running' = running /\ cb' = cb
    <3>1. running \in BOOLEAN /\ (running <=> cb.pc \in {"loop", "scan", "scanirq"})
      BY <1>1 DEF WakeTypes
    <3> QED BY <1>1, <2>2, <3>1 DEF Idle, RunsLoop
  <2>3. CASE running' = FALSE /\ cb' = [pc |-> "set"]
    BY <2>3 DEF Idle, RunsLoop
  <2> QED BY <2>1, <2>2, <2>3
<1> QED BY <1>4, <1>6, <1>7, CallbackKeeps

LEMMA LeaveStep ==
  ASSUME WakeInv, Leave
  PROVE  WakeInv'
<1>1. WakeTypes /\ Creating /\ cb = [pc |-> "loop"]
  BY DEF WakeInv, Leave
<1>2. Kept
  BY <1>1 DEF Leave, Kept, WakeTypes, Scheduled, pinVars
<1>3. ScanKept
  BY <1>1 DEF Leave, Creating, ScanKept, Sound, At
<1>4. RunsLoop' /\ cb' # Idle
  BY DEF Leave, Idle, RunsLoop
<1> QED BY <1>2, <1>3, <1>4, CallbackKeeps

LEMMA FinallyStep ==
  ASSUME WakeInv, Sound, Finally
  PROVE  WakeInv'
<1>1. WakeTypes /\ Creating /\ cb = [pc |-> "set"] /\ cb' = Idle
  BY DEF WakeInv, Finally
<1>2. /\ queue' = queue
      /\ \A e \in DOMAIN queue' : queue'[e] \in Int
  BY <1>1 DEF Finally, WakeTypes
<1>3. Armed
  BY <1>1, <1>2, SetTimerArms DEF Finally, WakeTypes, Scheduled
<1>4. Kept
  BY <1>2, <1>3 DEF Finally, Kept, Armed, pinVars
<1>5. ScanKept
  BY <1>1, <1>2 DEF ScanKept, Creating, At
<1>6. RunsLoop'
  BY <1>1 DEF Finally, WakeTypes, Idle, RunsLoop
<1> QED BY <1>3, <1>4, <1>5, <1>6, CallbackKeeps

-----------------------------------------------------------------------------
(* _scan clears the flag of its pin: the claim about that pin is void.     *)
LEMMA ScanStep ==
  ASSUME WakeInv, Sound, NEW p \in Pins, Scan(p)
  PROVE  WakeInv'
<1>1. WakeTypes /\ Creating /\ FlagKept /\ cb = [pc |-> "loop"]
  BY DEF WakeInv, Scan
<1>2. cb' = At("scanirq", p) \/ cb' = At("scan", p)
  BY DEF Scan
<1>3. /\ DOMAIN queue' = DOMAIN queue \ {scan(p)}
      /\ \A x \in DOMAIN queue' : queue'[x] \in Int
  BY <1>1, WithoutKeeps DEF Scan, WakeTypes
<1>4. /\ flag' \in [Pins -> BOOLEAN]
      /\ \A q \in Pins : flag'[q] => flag[q]
  BY <1>1 DEF Scan, WakeTypes
<1>5. RunsLoop' /\ cb' # Idle
  <2>1. cb'.pc \in {"scan", "scanirq"} /\ cb.pc = "loop"
    BY <1>1, <1>2 DEF At
  <2>2. running' = running
    BY DEF Scan
  <2>3. running \in BOOLEAN /\ (running <=> cb.pc \in {"loop", "scan", "scanirq"})
    BY <1>1 DEF WakeTypes
  <2> QED BY <2>1, <2>2, <2>3 DEF RunsLoop, Idle
<1>6. WakeTypes'
  BY <1>1, <1>3, <1>4, <1>5 DEF Scan, WakeTypes, RunsLoop
<1>7. main # Idle /\ main.pc # "push" => scan(main.p) \in DOMAIN queue
  BY <1>1 DEF Creating, At
<1>8. Creating'
  BY <1>1, <1>2, <1>3, <1>7 DEF Scan, Creating, scan
<1>9. WakeUp'
  BY <1>5 DEF WakeUp
<1>10. FlagKept'
  BY <1>1, <1>4 DEF Scan, FlagKept
<1> QED BY <1>6, <1>8, <1>9, <1>10 DEF WakeInv

(* A callback that starts leaves the queue of schedule() with the others   *)
(* in it; _irq clears its flag, and _run is then under way.                *)
LEMMA DispatchStep ==
  ASSUME WakeInv, Dispatch
  PROVE  WakeInv'
<1>1. /\ WakeTypes /\ Creating /\ WakeUp /\ FlagKept
      /\ cb = Idle /\ pending # <<>> /\ pending' = Tail(pending)
      /\ UNCHANGED <<timer, queue, made, main, raised, wrong>>
  BY DEF WakeInv, Dispatch
<1>2. /\ pending' \in Seq(Scheduled)
      /\ Range(pending) \subseteq Range(pending') \cup {Head(pending)}
  BY <1>1, TailRange DEF WakeTypes, Scheduled
<1>3. running = FALSE /\ running \in BOOLEAN
  BY <1>1 DEF WakeTypes, Idle
<1>4. main # Idle /\ main.pc # "push" /\ Sound => scan(main.p) \in DOMAIN queue
  BY <1>1 DEF Creating, At, Idle
<1>5. Creating'
  BY <1>1, <1>4 DEF Creating, Sound
<1>6. CASE Head(pending) = Other /\ UNCHANGED <<running, flag, cb>>
  <2>1. WakeTypes'
    BY <1>1, <1>2, <1>6 DEF WakeTypes, Scheduled
  <2>2. WakeUp'
    BY <1>1, <1>2, <1>6, Names DEF WakeUp
  <2>3. FlagKept'
    BY <1>1, <1>2, <1>6, Names DEF FlagKept
  <2> QED BY <1>5, <2>1, <2>2, <2>3 DEF WakeInv
<1>7. CASE Head(pending) = Run /\ running' = TRUE /\ cb' = [pc |-> "loop"] /\ UNCHANGED flag
  <2>1. WakeTypes'
    BY <1>1, <1>2, <1>7 DEF WakeTypes, Scheduled
  <2>2. WakeUp'
    BY <1>7 DEF WakeUp, Idle
  <2>3. FlagKept'
    BY <1>1, <1>2, <1>7, Names DEF FlagKept
  <2> QED BY <1>5, <2>1, <2>2, <2>3 DEF WakeInv
<1>8. ASSUME NEW p \in Pins,
             Head(pending) = Irq(p),
             flag' = [flag EXCEPT ![p] = FALSE],
             cb' = At("irq", p),
             UNCHANGED running
      PROVE  WakeInv'
  <2>1. cb'.pc = "irq" /\ cb' # Idle
    BY <1>8 DEF At, Idle
  <2>2. /\ flag' \in [Pins -> BOOLEAN]
        /\ ~flag'[p]
        /\ \A q \in Pins : q # p => flag'[q] = flag[q]
    BY <1>1, <1>8 DEF WakeTypes
  <2>3. WakeTypes'
    BY <1>1, <1>2, <1>3, <1>8, <2>1, <2>2 DEF WakeTypes, Scheduled
  <2>4. WakeUp'
    BY <2>1 DEF WakeUp
  <2>5. ASSUME NEW q \in Pins, flag'[q]
        PROVE  Irq(q) \in Range(pending')
    <3>1. q # p /\ flag[q]
      BY <2>2, <2>5
    <3>2. Irq(q) \in Range(pending) /\ Irq(q) # Irq(p)
      BY <1>1, <3>1, Names DEF FlagKept
    <3> QED BY <1>2, <1>8, <3>2
  <2> QED BY <1>5, <2>3, <2>4, <2>5 DEF WakeInv, FlagKept
<1> QED BY <1>6, <1>7, <1>8 DEF Dispatch

LEMMA DoIrqStep ==
  ASSUME WakeInv, NEW p \in Pins, do_irq(p)
  PROVE  WakeInv'
<1>1. /\ WakeTypes /\ Creating /\ WakeUp /\ FlagKept
      /\ UNCHANGED <<timer, queue, running, made, cb, main, raised, wrong>>
  BY DEF WakeInv, do_irq
<1>2. Creating'
  BY <1>1 DEF Creating, Sound
<1>3. CASE UNCHANGED <<flag, pending>>
  BY <1>1, <1>2, <1>3 DEF WakeInv, WakeTypes, WakeUp, FlagKept
<1>4. CASE flag' = [flag EXCEPT ![p] = TRUE] /\ pending' = Append(pending, Irq(p))
  <2>1. Irq(p) \in Scheduled /\ pending \in Seq(Scheduled)
    BY <1>1 DEF Scheduled, WakeTypes
  <2>2. /\ pending' \in Seq(Scheduled)
        /\ Range(pending) \subseteq Range(pending')
        /\ Irq(p) \in Range(pending')
    BY <1>4, <2>1, AppendRange
  <2>3. /\ flag' \in [Pins -> BOOLEAN]
        /\ \A q \in Pins : q # p => flag'[q] = flag[q]
    BY <1>1, <1>4 DEF WakeTypes
  <2>4. WakeTypes'
    BY <1>1, <2>2, <2>3 DEF WakeTypes, Scheduled
  <2>5. WakeUp' /\ FlagKept'
    BY <1>1, <2>2, <2>3 DEF WakeUp, FlagKept
  <2> QED BY <1>2, <2>4, <2>5 DEF WakeInv
<1> QED BY <1>3, <1>4 DEF do_irq

-----------------------------------------------------------------------------
(* The timer's interrupt, time, and callbacks of others.                   *)
LEMMA InterruptStep ==
  ASSUME WakeInv, Interrupt
  PROVE  WakeInv'
<1>1. /\ WakeTypes /\ Creating /\ FlagKept /\ sched_run
      /\ UNCHANGED <<queue, running, raised, flag, made, cb, main, wrong>>
  BY DEF WakeInv, Interrupt, sched_run, pinVars
<1>2. Creating'
  BY <1>1 DEF Creating, Sound
<1>3. CASE CanSchedule
  <2>1. timer' = Off /\ pending' = Append(pending, Run)
    BY <1>1, <1>3 DEF sched_run
  <2>2. Run \in Scheduled /\ pending \in Seq(Scheduled)
    BY <1>1 DEF Scheduled, WakeTypes
  <2>3. /\ pending' \in Seq(Scheduled)
        /\ Range(pending) \subseteq Range(pending')
        /\ Run \in Range(pending')
    BY <2>1, <2>2, AppendRange
  <2>4. WakeTypes' /\ WakeUp' /\ FlagKept'
    BY <1>1, <2>1, <2>3 DEF WakeTypes, Scheduled, WakeUp, FlagKept
  <2> QED BY <1>2, <2>4 DEF WakeInv
<1>4. CASE ~CanSchedule
  <2>1. timer' = 1 /\ pending' = pending
    BY <1>1, <1>4 DEF sched_run
  <2>2. WakeTypes' /\ WakeUp' /\ FlagKept'
    BY <1>1, <2>1 DEF WakeTypes, WakeUp, FlagKept, Off
  <2> QED BY <1>2, <2>2 DEF WakeInv
<1> QED BY <1>3, <1>4

LEMMA OthersStep ==
  ASSUME WakeInv, Others
  PROVE  WakeInv'
<1>1. /\ WakeTypes /\ Creating /\ WakeUp /\ FlagKept
      /\ pending' = Append(pending, Other)
      /\ UNCHANGED <<timer, queue, running, raised, flag, made, cb, main, wrong>>
  BY DEF WakeInv, Others, Schedule, pinVars
<1>2. Other \in Scheduled /\ pending \in Seq(Scheduled)
  BY <1>1 DEF Scheduled, WakeTypes
<1>3. /\ pending' \in Seq(Scheduled)
      /\ Range(pending) \subseteq Range(pending')
  BY <1>1, <1>2, AppendRange
<1>4. WakeTypes' /\ WakeUp' /\ FlagKept'
  BY <1>1, <1>3 DEF WakeTypes, Scheduled, WakeUp, FlagKept
<1>5. Creating'
  BY <1>1 DEF Creating, Sound
<1> QED BY <1>4, <1>5 DEF WakeInv

LEMMA TimeStep ==
  ASSUME WakeInv, Time
  PROVE  WakeInv'
<1>1. /\ WakeTypes /\ Creating /\ WakeUp /\ FlagKept
      /\ timer # 0
      /\ queue' = [e \in DOMAIN queue |-> ticks_diff(queue[e] - 1)]
      /\ timer' = IF timer = Off THEN Off ELSE timer - 1
      /\ UNCHANGED <<running, pending, raised, flag, made, cb, wrong>>
  BY DEF WakeInv, Time, Tick, pinVars
<1>2. /\ DOMAIN queue' = DOMAIN queue
      /\ \A e \in DOMAIN queue' : queue'[e] \in Int
  BY <1>1, Ticks DEF WakeTypes
<1>3. /\ timer' \in Nat \cup {Off}
      /\ timer # Off => timer' # Off
  BY <1>1 DEF WakeTypes, Off
<1>4. CASE main = Idle
  <2>1. main' = Idle
    BY <1>4 DEF Time
  <2>2. WakeTypes' /\ Creating' /\ WakeUp' /\ FlagKept'
    BY <1>1, <1>2, <1>3, <1>4, <2>1 DEF WakeTypes, Creating, WakeUp, FlagKept
  <2> QED BY <2>2 DEF WakeInv
<1>5. CASE main # Idle
  <2>1. main' = [main EXCEPT !.age = @ + 1]
    BY <1>5 DEF Time
  <2>2. main \in [pc : {"push", "compute", "deinit", "arm"}, p : Pins, age : Nat, n : Int]
    BY <1>1, <1>5 DEF WakeTypes
  <2>3. /\ main' \in [pc : {"push", "compute", "deinit", "arm"}, p : Pins, age : Nat, n : Int]
        /\ main'.pc = main.pc /\ main'.p = main.p
    BY <2>1, <2>2
  <2>4. main' # Idle
    <3>1. main'.pc # "idle"
      BY <2>3
    <3> QED BY <3>1 DEF Idle
  <2>5. WakeTypes'
    BY <1>1, <1>2, <1>3, <2>3 DEF WakeTypes
  <2>6. Creating'
    BY <1>1, <1>2, <1>5, <2>3 DEF Creating, Sound
  <2>7. WakeUp' /\ FlagKept'
    BY <1>1, <2>4 DEF WakeUp, FlagKept
  <2> QED BY <2>5, <2>6, <2>7 DEF WakeInv
<1> QED BY <1>4, <1>5

-----------------------------------------------------------------------------
(* The main program creates a pin.                                         *)
LEMMA CreateStep ==
  ASSUME WakeInv, NEW p \in Pins, Create(p)
  PROVE  WakeInv'
<1>1. /\ WakeTypes /\ FlagKept
      /\ made' = [made EXCEPT ![p] = "begun"]
      /\ main' = [pc |-> "push", p |-> p, age |-> 0, n |-> 0]
      /\ UNCHANGED <<timer, queue, running, pending, flag, cb, raised>>
  BY DEF WakeInv, Create, schedVars
<1>2. /\ main' \in [pc : {"push", "compute", "deinit", "arm"}, p : Pins, age : Nat, n : Int]
      /\ main'.pc = "push" /\ main'.p = p
  BY <1>1
<1>3. DOMAIN made' = Pins /\ made'[p] = "begun"
  BY <1>1 DEF WakeTypes
<1>4. WakeTypes'
  BY <1>1, <1>2, <1>3 DEF WakeTypes
<1>5. Creating'
  BY <1>2, <1>3 DEF Creating
<1>6. main' # Idle
  BY <1>2 DEF Idle
<1>7. WakeUp' /\ FlagKept'
  BY <1>1, <1>6 DEF WakeUp, FlagKept
<1> QED BY <1>4, <1>5, <1>7 DEF WakeInv

LEMMA PushStep ==
  ASSUME WakeInv, Push
  PROVE  WakeInv'
<1>1. /\ WakeTypes /\ Creating /\ FlagKept
      /\ main.pc = "push"
      /\ UNCHANGED <<timer, running, pending, flag, made, cb, raised>>
  BY DEF WakeInv, Push, pinVars
<1>2. main # Idle
  BY <1>1 DEF Idle
<1>3. main \in [pc : {"push", "compute", "deinit", "arm"}, p : Pins, age : Nat, n : Int]
  BY <1>1, <1>2 DEF WakeTypes
<1>4. PICK a \in 0 .. main.age :
        /\ queue' = With(queue, scan(main.p), ticks_diff(5 * Delay - a))
        /\ main' = [main EXCEPT !.pc = "compute", !.age = a]
  BY DEF Push
<1>5. a \in Nat /\ 5 * Delay - a \in Int
  BY <1>3, UPinAssumption
<1>6. /\ scan(main.p) \in DOMAIN queue'
      /\ \A e \in DOMAIN queue' : queue'[e] \in Int
  BY <1>1, <1>4, <1>5, Ticks DEF With, WakeTypes
<1>7. /\ main' \in [pc : {"push", "compute", "deinit", "arm"}, p : Pins, age : Nat, n : Int]
      /\ main'.pc = "compute" /\ main'.p = main.p
  BY <1>3, <1>4, <1>5
<1>8. WakeTypes'
  BY <1>1, <1>6, <1>7 DEF WakeTypes
<1>9. Creating'
  BY <1>1, <1>2, <1>6, <1>7 DEF Creating
<1>10. main' # Idle
  BY <1>7 DEF Idle
<1>11. WakeUp' /\ FlagKept'
  BY <1>1, <1>10 DEF WakeUp, FlagKept
<1> QED BY <1>8, <1>9, <1>11 DEF WakeInv

LEMMA ComputeStep ==
  ASSUME WakeInv, Sound, Compute
  PROVE  WakeInv'
<1>1. /\ WakeTypes /\ Creating /\ FlagKept
      /\ cb = Idle /\ main.pc = "compute"
      /\ UNCHANGED <<timer, queue, running, pending, raised, flag, made, cb, wrong>>
  BY DEF WakeInv, Compute, schedVars, pinVars
<1>2. main # Idle
  BY <1>1 DEF Idle
<1>3. main \in [pc : {"push", "compute", "deinit", "arm"}, p : Pins, age : Nat, n : Int]
  BY <1>1, <1>2 DEF WakeTypes
<1>4. scan(main.p) \in DOMAIN queue
  BY <1>1, <1>2 DEF Creating, At, Idle
<1>5. PICK e \in Roots(queue) :
        main' = [main EXCEPT !.pc = "arm", !.n = ticks_diff(queue[e] + main.age)]
  BY <1>4 DEF Compute
<1>6. queue[e] + main.age \in Int
  BY <1>1, <1>3 DEF Roots, WakeTypes
<1>7. /\ main' \in [pc : {"push", "compute", "deinit", "arm"}, p : Pins, age : Nat, n : Int]
      /\ main'.pc = "arm" /\ main'.p = main.p
  BY <1>3, <1>5, <1>6, Ticks
<1>8. WakeTypes'
  BY <1>1, <1>7 DEF WakeTypes
<1>9. Creating'
  BY <1>1, <1>2, <1>4, <1>7 DEF Creating
<1>10. main' # Idle
  BY <1>7 DEF Idle
<1>11. WakeUp' /\ FlagKept'
  BY <1>1, <1>10 DEF WakeUp, FlagKept
<1> QED BY <1>8, <1>9, <1>11 DEF WakeInv

LEMMA CreatedStep ==
  ASSUME WakeInv, Created
  PROVE  WakeInv'
<1>1. /\ WakeTypes /\ Creating /\ FlagKept
      /\ cb = Idle
      /\ main.pc \in {"deinit", "arm"}
      /\ made' = [made EXCEPT ![main.p] = "yes"]
      /\ main' = Idle
      /\ UNCHANGED <<queue, running, flag, cb>>
  BY DEF WakeInv, Created
<1>2. main # Idle
  BY <1>1 DEF Idle
<1>3. main.pc = "arm" /\ main.n \in Int
  BY <1>1, <1>2 DEF WakeTypes, Creating
<1>4. Arm(main.n)
  BY <1>3 DEF Created
<1>5. timer \in Nat \cup {Off} /\ pending \in Seq(Scheduled)
  BY <1>1 DEF WakeTypes, Scheduled
<1>6. Armed
  <2>1. PICK n \in Int : n = main.n
    BY <1>3
  <2> QED BY <1>4, <1>5, <2>1, ArmArms
<1>7. DOMAIN made' = Pins
  BY <1>1 DEF WakeTypes
<1>8. WakeTypes'
  BY <1>1, <1>6, <1>7 DEF WakeTypes, Armed, Scheduled
<1>9. Creating' /\ WakeUp' /\ FlagKept'
  BY <1>1, <1>6 DEF Creating, WakeUp, FlagKept, Armed
<1> QED BY <1>8, <1>9 DEF WakeInv

-----------------------------------------------------------------------------
LEMMA Steps ==
  ASSUME WakeInv, [Next]_vars
  PROVE  WakeInv'
<1>1. CASE UNCHANGED vars
  BY <1>1 DEF vars, schedVars, pinVars, WakeInv, WakeTypes, Creating, Sound, WakeUp, FlagKept
<1>2. CASE Sound /\ (Interrupt \/ Time \/ Others)
  BY <1>2, InterruptStep, TimeStep, OthersStep
<1>3. CASE Sound /\ Callback
  <2>1. CASE Dispatch \/ Leave \/ Finally
    BY <1>3, <2>1, DispatchStep, LeaveStep, FinallyStep
  <2>2. ASSUME NEW p \in Pins,
               irq(p) \/ Scan(p) \/ ScanIrq(p) \/ Rescan(p) \/ StillLow(p) \/ timer_(p)
        PROVE  WakeInv'
    BY <1>3, <2>2, IrqStep, ScanStep, ScanIrqStep, RescanStep, StillLowStep, TimerStep
  <2> QED BY <1>3, <2>1, <2>2 DEF Callback
<1>4. CASE Sound /\ Main
  <2>1. CASE Push \/ Compute \/ Created
    BY <1>4, <2>1, PushStep, ComputeStep, CreatedStep
  <2>2. ASSUME NEW p \in Pins, Create(p)
        PROVE  WakeInv'
    BY <2>2, CreateStep
  <2> QED BY <1>4, <2>1, <2>2 DEF Main
<1>5. ASSUME NEW p \in Pins, do_irq(p)
      PROVE  WakeInv'
  BY <1>5, DoIrqStep
<1> QED BY <1>1, <1>2, <1>3, <1>4, <1>5 DEF Next

LEMMA InitWake == Init => WakeInv
<1> SUFFICES ASSUME Init PROVE WakeInv
  OBVIOUS
<1>1. /\ timer = Off /\ DOMAIN queue = {} /\ running = FALSE /\ pending = <<>>
      /\ flag = [p \in Pins |-> FALSE] /\ made = [p \in Pins |-> "no"]
      /\ cb = Idle /\ main = Idle
  BY DEF Init, SchedInit, Restrict
<1>2. cb.pc = "idle"
  BY <1>1 DEF Idle
<1>3. WakeTypes
  <2>1. flag \in [Pins -> BOOLEAN] /\ DOMAIN made = Pins
    BY <1>1
  <2>2. pending \in Seq({Run, Other} \cup {Irq(p) : p \in Pins})
    BY <1>1
  <2>3. running \in BOOLEAN /\ (running <=> cb.pc \in {"loop", "scan", "scanirq"})
    BY <1>1, <1>2
  <2> QED BY <1>1, <2>1, <2>2, <2>3 DEF WakeTypes
<1> QED BY <1>1, <1>3 DEF WakeInv, Creating, WakeUp, FlagKept

(* The invariant that carries the two promises below.                      *)
THEOREM WakeInvariance == Spec => []WakeInv
BY InitWake, Steps, PTL DEF Spec

(* While no call of the scheduler is under way, a queue that has events    *)
(* has the timer set or _run scheduled: no event is forgotten, whatever    *)
(* interrupts find schedule()'s queue full, and wherever callbacks come    *)
(* between the main program's steps in enter.                              *)
THEOREM SchedulerWakesUp == Spec => []WakeUp
<1>1. WakeInv => WakeUp
  BY DEF WakeInv
<1> QED BY <1>1, WakeInvariance, PTL

(* A pin that ignores its interrupts because _irq has been scheduled is    *)
(* right to: _irq is in schedule()'s queue.                                *)
THEOREM FlagsAreKept == Spec => []FlagKept
<1>1. WakeInv => FlagKept
  BY DEF WakeInv
<1> QED BY <1>1, WakeInvariance, PTL

-----------------------------------------------------------------------------
(* The debounce delays, and the types that say which events there are.     *)

Times == -(Period \div 2) .. Period \div 2 - 1

Clock ==
  /\ timer \in Off .. Period
  /\ Len(pending) <= Depth
  /\ main # Idle => main.n \in Times

Events ==
  /\ queue \in [DOMAIN queue -> Times]
  /\ DOMAIN queue \subseteq PinEvents

(* DelayRuns, for one pin.                                                 *)
Runs(p) ==
  \A k \in 1 .. MaxDly :
    /\ dly[p] = k <=> Dly(p, k) \in DOMAIN queue
    /\ dly[p] = k => on[p]

Delays ==
  /\ dly \in [Pins -> None .. MaxDly]
  /\ on \in [Pins -> BOOLEAN]
  /\ ~wrong => \A p \in Pins : Runs(p)

DelayInv == Clock /\ Events /\ Delays

LEMMA TickRange ==
  ASSUME NEW d \in Int
  PROVE  ticks_diff(d) \in Times
<1>1. /\ Period \in Nat \ {0}
      /\ Period = 2 * (Period \div 2)
      /\ Period \div 2 \in Nat
  BY SchedulerAssumption
<1>2. (d + Period \div 2) % Period \in 0 .. Period - 1
  BY <1>1
<1> QED BY <1>1, <1>2 DEF ticks_diff, Times

LEMMA TimesFit == Times \subseteq Int /\ \A n \in Times : n <= Period
BY SchedulerAssumption DEF Times

LEMMA ArmFits ==
  ASSUME WakeTypes, Clock, NEW n \in Times, Arm(n)
  PROVE  timer' \in Off .. Period /\ Len(pending') <= Depth
<1>1. Depth \in Nat /\ Period \in Nat \ {0}
  BY SchedulerAssumption
<1>2. n \in Int /\ n <= Period
  BY TimesFit
<1>3. pending \in Seq(Scheduled)
  BY DEF WakeTypes, Scheduled
<1>4. CASE n > 0
  BY <1>1, <1>2, <1>4 DEF Arm, Clock, Off
<1>5. CASE ~(n > 0) /\ CanSchedule
  <2>1. pending' = Append(pending, Run) /\ timer' = timer
    BY <1>5 DEF Arm
  <2>2. Len(pending') = Len(pending) + 1 /\ Len(pending) \in Nat
    BY <1>3, <2>1
  <2> QED BY <1>1, <1>5, <2>1, <2>2 DEF CanSchedule, Clock
<1>6. CASE ~(n > 0) /\ ~CanSchedule
  BY <1>6 DEF Arm, Clock
<1> QED BY <1>4, <1>5, <1>6

LEMMA SetTimerFits ==
  ASSUME WakeTypes, Clock, Events', SetTimer
  PROVE  timer' \in Off .. Period /\ Len(pending') <= Depth
<1>1. CASE DOMAIN queue' = {}
  BY <1>1, SchedulerAssumption DEF SetTimer, Disarm, Clock, Off
<1>2. CASE DOMAIN queue' # {}
  <2>1. PICK e \in Roots(queue') : Arm(queue'[e])
    BY <1>2 DEF SetTimer
  <2>2. PICK n \in Times : n = queue'[e]
    BY DEF Roots, Events
  <2>3. Arm(n)
    BY <2>1, <2>2
  <2> QED BY <2>3, ArmFits
<1> QED BY <1>1, <1>2

(* enter: the queue is f with e in it.                                     *)
LEMMA EnterFits ==
  ASSUME WakeTypes, Clock, NEW f, f \in [DOMAIN f -> Times], DOMAIN f \subseteq PinEvents,
         NEW e \in PinEvents, NEW d \in Int, Enter(f, e, d), main' = main
  PROVE  Clock' /\ Events' /\ DOMAIN queue' = DOMAIN f \cup {e}
<1>1. queue' = [x \in DOMAIN f \cup {e} |-> IF x = e THEN ticks_diff(d) ELSE f[x]]
  BY DEF Enter, With
<1>2. Events' /\ DOMAIN queue' = DOMAIN f \cup {e}
  <2>1. ticks_diff(d) \in Times
    BY TickRange
  <2> QED BY <1>1, <2>1 DEF Events
<1>3. CASE running
  BY <1>2, <1>3 DEF Enter, Clock
<1>4. CASE ~running
  <2>1. SetTimer
    BY <1>4 DEF Enter
  <2> QED BY <1>2, <2>1, SetTimerFits DEF Clock
<1> QED BY <1>3, <1>4

LEMMA WithoutFits ==
  ASSUME Events, NEW k
  PROVE  /\ Without(queue, k) \in [DOMAIN queue \ {k} -> Times]
         /\ DOMAIN Without(queue, k) = DOMAIN queue \ {k}
         /\ DOMAIN Without(queue, k) \subseteq PinEvents
BY DEF Without, Restrict, Events

LEMMA DlyNames ==
  /\ \A p \in Pins : \A k \in 1 .. MaxDly : Dly(p, k) \in PinEvents
  /\ \A p \in Pins : scan(p) \in PinEvents
  /\ \A p, q, k, l : Dly(p, k) = Dly(q, l) <=> p = q /\ k = l
  /\ \A p, q, k : scan(p) # Dly(q, k)
BY DEF PinEvents, Dly, scan

(* There is a new Event, because at most one of the pin's is in the queue. *)
LEMMA NewDlyIs ==
  ASSUME NEW p \in Pins, dly[p] \in None .. MaxDly, Runs(p)
  PROVE  /\ NewDly(p) \in 1 .. MaxDly
         /\ NewDly(p) # dly[p]
         /\ Dly(p, NewDly(p)) \notin DOMAIN queue
<1>1. \E k \in 1 .. MaxDly : k # dly[p]
  <2>1. 1 \in 1 .. MaxDly /\ 2 \in 1 .. MaxDly
    BY UPinAssumption
  <2> QED BY <2>1
<1>2. \E k \in 1 .. MaxDly : k # dly[p] /\ Dly(p, k) \notin DOMAIN queue
  BY <1>1 DEF Runs
<1> QED BY <1>2 DEF NewDly

(* _irq, in a callback of its own or called by _scan.                      *)
LEMMA RestartDelay ==
  ASSUME WakeTypes, DelayInv, Sound, NEW p \in Pins, Restart(p), main' = main,
         on' = [on EXCEPT ![p] = TRUE]
  PROVE  DelayInv'
<1>1. Clock /\ Events /\ Runs(p) /\ ~wrong
  BY DEF DelayInv, Delays, Sound
<1>2. dly \in [Pins -> None .. MaxDly] /\ on \in [Pins -> BOOLEAN]
  BY DEF DelayInv, Delays
<1>3. PICK k \in 1 .. MaxDly : /\ k = NewDly(p) /\ k # dly[p]
                               /\ Dly(p, k) \notin DOMAIN queue
  BY <1>1, <1>2, NewDlyIs
<1>4. \E f : /\ f \in [DOMAIN f -> Times]
             /\ DOMAIN f \subseteq PinEvents
             /\ Enter(f, Dly(p, k), Delay) /\ dly' = [dly EXCEPT ![p] = k]
             /\ ~wrong' => DOMAIN f = DOMAIN queue \ {Dly(p, dly[p])}
  <2>1. CASE dly[p] = None
    <3>1. Start(p, queue)
      BY <2>1 DEF Restart
    <3>2. Dly(p, dly[p]) \notin PinEvents
      BY <2>1 DEF Dly, PinEvents, scan, None
    <3> QED BY <1>1, <1>3, <3>1, <3>2 DEF Start, Events
  <2>2. CASE dly[p] # None
    <3>1. PICK e \in Equal(Dly(p, dly[p])) :
            Start(p, Without(queue, e)) /\ wrong' = (e # Dly(p, dly[p]))
      BY <2>2 DEF Restart
    <3>2. PICK f : f = Without(queue, e)
      OBVIOUS
    <3>3. /\ f \in [DOMAIN queue \ {e} -> Times]
          /\ DOMAIN f = DOMAIN queue \ {e}
          /\ DOMAIN f \subseteq PinEvents
      BY <1>1, <3>2, WithoutFits
    <3> QED BY <1>3, <3>1, <3>2, <3>3 DEF Start
  <2> QED BY <2>1, <2>2
<1>5. PICK f : /\ f \in [DOMAIN f -> Times]
               /\ DOMAIN f \subseteq PinEvents
               /\ Enter(f, Dly(p, k), Delay) /\ dly' = [dly EXCEPT ![p] = k]
               /\ ~wrong' => DOMAIN f = DOMAIN queue \ {Dly(p, dly[p])}
  BY <1>4
<1>6. Clock' /\ Events' /\ DOMAIN queue' = DOMAIN f \cup {Dly(p, k)}
  <2>1. Dly(p, k) \in PinEvents /\ Delay \in Int
    BY DlyNames, UPinAssumption
  <2> QED BY <1>1, <1>5, <2>1, EnterFits
<1>7. dly' \in [Pins -> None .. MaxDly] /\ on' \in [Pins -> BOOLEAN]
  <2>1. k \in None .. MaxDly
    BY DEF None
  <2> QED BY <1>2, <1>5, <2>1
<1>8. ASSUME ~wrong', NEW q \in Pins
      PROVE  Runs(q)'
  <2>1. DOMAIN queue' = (DOMAIN queue \ {Dly(p, dly[p])}) \cup {Dly(p, k)}
    BY <1>5, <1>6, <1>8
  <2>2. CASE q = p
    <3>1. dly'[q] = k /\ on'[q] = TRUE
      BY <1>2, <1>5, <2>2
    <3>2. \A l \in 1 .. MaxDly : Dly(p, l) \in DOMAIN queue' <=> l = k
      BY <1>1, <2>1, DlyNames DEF Runs
    <3> QED BY <2>2, <3>1, <3>2 DEF Runs
  <2>3. CASE q # p
    <3>1. dly'[q] = dly[q] /\ on'[q] = on[q]
      BY <1>2, <1>5, <2>3
    <3>2. \A l \in 1 .. MaxDly : Dly(q, l) \in DOMAIN queue' <=> Dly(q, l) \in DOMAIN queue
      BY <2>1, <2>3, DlyNames
    <3>3. Runs(q)
      BY DEF DelayInv, Delays, Sound
    <3> QED BY <3>1, <3>2, <3>3 DEF Runs
  <2> QED BY <2>2, <2>3
<1> QED BY <1>6, <1>7, <1>8 DEF DelayInv, Delays

(* A step that leaves the events and the delays alone.                     *)
LEMMA DelaysFrame ==
  ASSUME DelayInv, UNCHANGED <<queue, dly, on, wrong>>
  PROVE  Events' /\ Delays'
BY DEF DelayInv, Events, Delays, Runs

(* A step that takes or enters a scan event leaves the delays alone.       *)
LEMMA DelaysKeep ==
  ASSUME Delays, UNCHANGED <<dly, on, wrong>>,
         NEW p \in Pins,
         DOMAIN queue' = DOMAIN queue \cup {scan(p)} \/ DOMAIN queue' = DOMAIN queue \ {scan(p)}
  PROVE  Delays'
<1>1. \A q \in Pins : \A k \in 1 .. MaxDly :
        Dly(q, k) \in DOMAIN queue' <=> Dly(q, k) \in DOMAIN queue
  BY DlyNames
<1>2. ASSUME ~wrong', NEW q \in Pins
      PROVE  Runs(q)'
  BY <1>1, <1>2 DEF Delays, Runs
<1> QED BY <1>2 DEF Delays

LEMMA RescanDelay ==
  ASSUME WakeTypes, DelayInv, NEW p \in Pins, Rescan(p)
  PROVE  DelayInv'
<1>1. Clock /\ Events /\ Delays /\ UNCHANGED <<dly, on, main, wrong>>
  BY DEF DelayInv, Rescan, pinVars
<1>2. CASE made[p] = "yes"
  <2>1. Enter(queue, scan(p), 5 * Delay)
    BY <1>2 DEF Rescan
  <2>2. scan(p) \in PinEvents /\ 5 * Delay \in Int
    BY DlyNames, UPinAssumption
  <2>3. Clock' /\ Events' /\ DOMAIN queue' = DOMAIN queue \cup {scan(p)}
    BY <1>1, <2>1, <2>2, EnterFits DEF Events
  <2> QED BY <1>1, <2>3, DelaysKeep DEF DelayInv
<1>3. CASE made[p] # "yes"
  BY <1>1, <1>3, DelaysFrame DEF Rescan, DelayInv, Clock
<1> QED BY <1>2, <1>3

LEMMA StillLowDelay ==
  ASSUME WakeTypes, DelayInv, Sound, NEW p \in Pins, StillLow(p)
  PROVE  DelayInv'
<1>1. /\ Clock /\ Events /\ Delays /\ Runs(p)
      /\ UNCHANGED <<dly, on, main, wrong>>
  BY DEF DelayInv, Delays, Sound, StillLow, pinVars
<1>2. PICK k \in 1 .. MaxDly :
        /\ Dly(p, k) \in Due
        /\ Enter(Without(queue, Dly(p, k)), Dly(p, dly[p]), Delay)
  BY DEF StillLow
<1>3. Dly(p, k) \in DOMAIN queue /\ dly[p] = k
  BY <1>1, <1>2 DEF Due, Roots, Runs
<1>4. PICK f : f = Without(queue, Dly(p, k))
  OBVIOUS
<1>5. /\ f \in [DOMAIN f -> Times]
      /\ DOMAIN f = DOMAIN queue \ {Dly(p, k)}
      /\ DOMAIN f \subseteq PinEvents
  BY <1>1, <1>4, WithoutFits
<1>6. Dly(p, k) \in PinEvents /\ Delay \in Int /\ Enter(f, Dly(p, k), Delay)
  BY <1>2, <1>3, <1>4, DlyNames, UPinAssumption
<1>7. Clock' /\ Events' /\ DOMAIN queue' = DOMAIN queue
  BY <1>1, <1>3, <1>5, <1>6, EnterFits
<1> QED BY <1>1, <1>7 DEF DelayInv, Delays, Runs

LEMMA TimerDelay ==
  ASSUME WakeTypes, DelayInv, Sound, NEW p \in Pins, timer_(p)
  PROVE  DelayInv'
<1>1. /\ Clock /\ Events /\ Delays /\ Runs(p)
      /\ dly' = [dly EXCEPT ![p] = None]
      /\ on' = on \/ on' = [on EXCEPT ![p] = FALSE]
      /\ UNCHANGED <<timer, pending, main, wrong>>
  BY DEF DelayInv, Delays, Sound, timer_
<1>2. PICK k \in 1 .. MaxDly :
        Dly(p, k) \in Due /\ queue' = Without(queue, Dly(p, k))
  BY DEF timer_
<1>3. Dly(p, k) \in DOMAIN queue /\ dly[p] = k
  BY <1>1, <1>2 DEF Due, Roots, Runs
<1>4. Events' /\ DOMAIN queue' = DOMAIN queue \ {Dly(p, k)}
  BY <1>1, <1>2, WithoutFits DEF Events
<1>5. dly' \in [Pins -> None .. MaxDly] /\ on' \in [Pins -> BOOLEAN]
  <2>1. None \in None .. MaxDly
    BY UPinAssumption DEF None
  <2> QED BY <1>1, <2>1 DEF Delays
<1>6. ASSUME ~wrong', NEW q \in Pins
      PROVE  Runs(q)'
  <2>1. CASE q = p
    <3>1. dly'[q] = None /\ \A l \in 1 .. MaxDly : l # None
      BY <1>1, <2>1 DEF Delays, None
    <3>2. \A l \in 1 .. MaxDly : Dly(q, l) \notin DOMAIN queue'
      BY <1>1, <1>3, <1>4, <2>1, DlyNames DEF Runs
    <3> QED BY <3>1, <3>2 DEF Runs
  <2>2. CASE q # p
    <3>1. dly'[q] = dly[q] /\ on'[q] = on[q]
      BY <1>1, <2>2 DEF Delays
    <3>2. \A l \in 1 .. MaxDly : Dly(q, l) \in DOMAIN queue' <=> Dly(q, l) \in DOMAIN queue
      BY <1>4, <2>2, DlyNames
    <3>3. Runs(q)
      BY <1>1, <1>6 DEF Delays
    <3> QED BY <3>1, <3>2, <3>3 DEF Runs
  <2> QED BY <2>1, <2>2
<1> QED BY <1>1, <1>4, <1>5, <1>6 DEF DelayInv, Delays, Clock

LEMMA ScanDelay ==
  ASSUME DelayInv, NEW p \in Pins, Scan(p)
  PROVE  DelayInv'
<1>1. /\ Clock /\ Events /\ Delays
      /\ queue' = Without(queue, scan(p))
      /\ UNCHANGED <<timer, pending, dly, on, main, wrong>>
  BY DEF DelayInv, Scan
<1>2. Events' /\ DOMAIN queue' = DOMAIN queue \ {scan(p)}
  BY <1>1, WithoutFits DEF Events
<1>3. Delays'
  BY <1>1, <1>2, DelaysKeep
<1> QED BY <1>1, <1>2, <1>3 DEF DelayInv, Clock

(* A longer queue of schedule() is no longer than it may be.               *)
LEMMA AppendFits ==
  ASSUME WakeTypes, CanSchedule, NEW x, pending' = Append(pending, x)
  PROVE  Len(pending') <= Depth
<1>1. Len(pending') = Len(pending) + 1 /\ Len(pending) \in Nat
  BY DEF WakeTypes
<1> QED BY <1>1, SchedulerAssumption DEF CanSchedule

LEMMA DoIrqDelay ==
  ASSUME WakeTypes, DelayInv, NEW p \in Pins, do_irq(p)
  PROVE  DelayInv'
<1>1. Events' /\ Delays'
  BY DelaysFrame DEF do_irq
<1>2. Len(pending') <= Depth
  BY AppendFits DEF do_irq, DelayInv, Clock
<1> QED BY <1>1, <1>2 DEF do_irq, DelayInv, Clock

LEMMA DispatchDelay ==
  ASSUME WakeTypes, DelayInv, Dispatch
  PROVE  DelayInv'
<1>1. Events' /\ Delays'
  BY DelaysFrame DEF Dispatch
<1>2. Len(pending') <= Depth
  <2>1. pending' = Tail(pending) /\ pending # <<>>
    BY DEF Dispatch
  <2>2. Len(pending') = Len(pending) - 1 /\ Len(pending) \in Nat
    BY <2>1 DEF WakeTypes
  <2> QED BY <2>2, SchedulerAssumption DEF DelayInv, Clock
<1> QED BY <1>1, <1>2 DEF Dispatch, DelayInv, Clock

LEMMA InterruptDelay ==
  ASSUME WakeTypes, DelayInv, Interrupt
  PROVE  DelayInv'
<1>1. Events' /\ Delays'
  BY DelaysFrame DEF Interrupt, sched_run, pinVars
<1>2. Len(pending') <= Depth
  BY AppendFits DEF Interrupt, sched_run, DelayInv, Clock
<1>3. timer' \in Off .. Period
  BY SchedulerAssumption DEF Interrupt, sched_run, Off
<1> QED BY <1>1, <1>2, <1>3 DEF Interrupt, sched_run, DelayInv, Clock

LEMMA OthersDelay ==
  ASSUME WakeTypes, DelayInv, Others
  PROVE  DelayInv'
<1>1. Events' /\ Delays'
  BY DelaysFrame DEF Others, Schedule, pinVars
<1>2. Len(pending') <= Depth
  BY AppendFits DEF Others, Schedule
<1> QED BY <1>1, <1>2 DEF Others, Schedule, DelayInv, Clock

LEMMA TimeDelay ==
  ASSUME WakeTypes, DelayInv, Time
  PROVE  DelayInv'
<1>1. /\ timer # 0
      /\ queue' = [e \in DOMAIN queue |-> ticks_diff(queue[e] - 1)]
      /\ timer' = IF timer = Off THEN Off ELSE timer - 1
      /\ UNCHANGED <<pending, dly, on, wrong>>
  BY DEF Time, Tick, pinVars
<1>2. \A e \in DOMAIN queue : ticks_diff(queue[e] - 1) \in Times
  <2> TAKE e \in DOMAIN queue
  <2>1. queue[e] - 1 \in Int
    BY DEF WakeTypes
  <2> QED BY <2>1, TickRange
<1>3. Events' /\ DOMAIN queue' = DOMAIN queue
  BY <1>1, <1>2 DEF DelayInv, Events
<1>4. Delays'
  BY <1>1, <1>3 DEF DelayInv, Delays, Runs
<1>5. timer' \in Off .. Period
  BY <1>1, SchedulerAssumption DEF DelayInv, Clock, Off
<1>6. main' # Idle => main'.n \in Times
  <2>1. CASE main = Idle
    BY <2>1 DEF Time
  <2>2. CASE main # Idle
    <3>1. main' = [main EXCEPT !.age = @ + 1]
      BY <2>2 DEF Time
    <3>2. main \in [pc : {"push", "compute", "deinit", "arm"}, p : Pins, age : Nat, n : Int]
      BY <2>2 DEF WakeTypes
    <3>3. main'.n = main.n
      BY <3>1, <3>2
    <3> QED BY <2>2, <3>3 DEF DelayInv, Clock
  <2> QED BY <2>1, <2>2
<1> QED BY <1>1, <1>3, <1>4, <1>5, <1>6 DEF DelayInv, Clock

LEMMA CreateDelay ==
  ASSUME DelayInv, NEW p \in Pins, Create(p)
  PROVE  DelayInv'
<1>1. /\ main' = [pc |-> "push", p |-> p, age |-> 0, n |-> 0]
      /\ UNCHANGED <<timer, queue, pending, dly, on, wrong>>
  BY DEF Create, schedVars
<1>2. Events' /\ Delays'
  BY <1>1, DelaysFrame
<1>3. 0 \in Times
  BY SchedulerAssumption DEF Times
<1> QED BY <1>1, <1>2, <1>3 DEF DelayInv, Clock

LEMMA PushDelay ==
  ASSUME WakeTypes, DelayInv, Push
  PROVE  DelayInv'
<1>1. /\ Clock /\ Events /\ Delays /\ main.pc = "push"
      /\ UNCHANGED <<timer, pending, dly, on, wrong>>
  BY DEF DelayInv, Push, pinVars
<1>2. main # Idle
  BY <1>1 DEF Idle
<1>3. main \in [pc : {"push", "compute", "deinit", "arm"}, p : Pins, age : Nat, n : Int]
  BY <1>2 DEF WakeTypes
<1>4. PICK a \in 0 .. main.age :
        /\ queue' = With(queue, scan(main.p), ticks_diff(5 * Delay - a))
        /\ main' = [main EXCEPT !.pc = "compute", !.age = a]
  BY DEF Push
<1>5. 5 * Delay - a \in Int
  BY <1>3, UPinAssumption
<1>6. ticks_diff(5 * Delay - a) \in Times /\ scan(main.p) \in PinEvents
  BY <1>3, <1>5, TickRange, DlyNames
<1>7. Events' /\ DOMAIN queue' = DOMAIN queue \cup {scan(main.p)}
  BY <1>1, <1>4, <1>6 DEF With, Events
<1>8. Delays'
  BY <1>1, <1>3, <1>7, DelaysKeep
<1>9. main'.n = main.n
  BY <1>3, <1>4
<1> QED BY <1>1, <1>2, <1>7, <1>8, <1>9 DEF DelayInv, Clock

LEMMA ComputeDelay ==
  ASSUME WakeTypes, DelayInv, Compute
  PROVE  DelayInv'
<1>1. main.pc = "compute" /\ main # Idle /\ UNCHANGED <<timer, queue, pending, dly, on, wrong>>
  <2>1. main.pc = "compute" /\ UNCHANGED <<timer, queue, pending, dly, on, wrong>>
    BY DEF Compute, schedVars, pinVars
  <2> QED BY <2>1 DEF Idle
<1>2. Events' /\ Delays'
  BY <1>1, DelaysFrame
<1>3. main \in [pc : {"push", "compute", "deinit", "arm"}, p : Pins, age : Nat, n : Int]
  BY <1>1 DEF WakeTypes
<1>4. main'.n \in Times
  <2>1. CASE DOMAIN queue = {}
    <3>1. main' = [main EXCEPT !.pc = "deinit"]
      BY <2>1 DEF Compute
    <3>2. main'.n = main.n
      BY <1>3, <3>1
    <3> QED BY <1>1, <3>2 DEF DelayInv, Clock
  <2>2. CASE DOMAIN queue # {}
    <3>1. PICK e \in Roots(queue) :
            main' = [main EXCEPT !.pc = "arm", !.n = ticks_diff(queue[e] + main.age)]
      BY <2>2 DEF Compute
    <3>2. queue[e] + main.age \in Int
      BY <1>3 DEF Roots, WakeTypes
    <3> QED BY <1>3, <3>1, <3>2, TickRange
  <2> QED BY <2>1, <2>2
<1> QED BY <1>1, <1>2, <1>4 DEF DelayInv, Clock

LEMMA CreatedDelay ==
  ASSUME WakeTypes, DelayInv, Created
  PROVE  DelayInv'
<1>1. Events' /\ Delays'
  BY DelaysFrame DEF Created
<1>2. main' = Idle
  BY DEF Created
<1>3. timer' \in Off .. Period /\ Len(pending') <= Depth
  <2>1. CASE main.pc = "deinit" /\ Disarm
    BY <2>1, SchedulerAssumption DEF Disarm, DelayInv, Clock, Off
  <2>2. CASE main.pc = "arm" /\ Arm(main.n)
    <3>1. main # Idle
      BY <2>2 DEF Idle
    <3>2. PICK n \in Times : n = main.n
      BY <3>1 DEF DelayInv, Clock
    <3>3. Clock /\ Arm(n)
      BY <2>2, <3>2 DEF DelayInv
    <3> QED BY <3>3, ArmFits
  <2> QED BY <2>1, <2>2 DEF Created
<1> QED BY <1>1, <1>2, <1>3 DEF DelayInv, Clock

LEMMA LeaveDelay ==
  ASSUME DelayInv, Leave
  PROVE  DelayInv'
BY DelaysFrame DEF Leave, pinVars, DelayInv, Clock

LEMMA FinallyDelay ==
  ASSUME WakeTypes, DelayInv, Finally
  PROVE  DelayInv'
<1>1. Events' /\ Delays'
  BY DelaysFrame DEF Finally, pinVars
<1>2. timer' \in Off .. Period /\ Len(pending') <= Depth
  BY <1>1, SetTimerFits DEF Finally, DelayInv
<1> QED BY <1>1, <1>2 DEF Finally, DelayInv, Clock

LEMMA DelaySteps ==
  ASSUME WakeInv, DelayInv, [Next]_vars
  PROVE  DelayInv'
<1> WakeTypes
  BY DEF WakeInv
<1>1. CASE UNCHANGED vars
  BY <1>1, DelaysFrame DEF vars, schedVars, pinVars, DelayInv, Clock
<1>2. CASE Sound /\ (Interrupt \/ Time \/ Others)
  BY <1>2, InterruptDelay, TimeDelay, OthersDelay
<1>3. CASE Sound /\ Callback
  <2>1. CASE Dispatch \/ Leave \/ Finally
    BY <2>1, DispatchDelay, LeaveDelay, FinallyDelay
  <2>2. ASSUME NEW p \in Pins, irq(p) \/ ScanIrq(p)
        PROVE  DelayInv'
    BY <1>3, <2>2, RestartDelay DEF irq, ScanIrq
  <2>3. ASSUME NEW p \in Pins, Scan(p) \/ Rescan(p) \/ StillLow(p) \/ timer_(p)
        PROVE  DelayInv'
    BY <1>3, <2>3, ScanDelay, RescanDelay, StillLowDelay, TimerDelay
  <2> QED BY <1>3, <2>1, <2>2, <2>3 DEF Callback
<1>4. CASE Sound /\ Main
  <2>1. CASE Push \/ Compute \/ Created
    BY <2>1, PushDelay, ComputeDelay, CreatedDelay
  <2>2. ASSUME NEW p \in Pins, Create(p)
        PROVE  DelayInv'
    BY <2>2, CreateDelay
  <2> QED BY <1>4, <2>1, <2>2 DEF Main
<1>5. ASSUME NEW p \in Pins, do_irq(p)
      PROVE  DelayInv'
  BY <1>5, DoIrqDelay
<1> QED BY <1>1, <1>2, <1>3, <1>4, <1>5 DEF Next

LEMMA InitDelay == Init => DelayInv
<1> SUFFICES ASSUME Init PROVE DelayInv
  OBVIOUS
<1>1. /\ timer = Off /\ queue = Restrict(<<>>, {}) /\ pending = <<>>
      /\ dly = [p \in Pins |-> None] /\ on = [p \in Pins |-> FALSE] /\ main = Idle
  BY DEF Init, SchedInit
<1>2. Clock
  BY <1>1, SchedulerAssumption DEF Clock, Off
<1>3. queue = [x \in {} |-> <<>>[x]]
  BY <1>1 DEF Restrict
<1>4. Events
  BY <1>3 DEF Events
<1>5. dly \in [Pins -> None .. MaxDly]
  <2>1. None \in None .. MaxDly
    BY UPinAssumption DEF None
  <2> QED BY <1>1, <2>1
<1>6. \A p \in Pins : Runs(p)
  BY <1>1, <1>3 DEF Runs, None
<1> QED BY <1>1, <1>2, <1>4, <1>5, <1>6 DEF DelayInv, Delays

(* The invariant that carries the next two.                                *)
THEOREM DelayInvariance == Spec => [](WakeInv /\ DelayInv)
BY InitWake, Steps, InitDelay, DelaySteps, PTL DEF Spec

(* A pin's `_dly` is None or the one debounce event of the pin that is in  *)
(* the queue, and then `on` is set: however the pins' interrupts, scans    *)
(* and timers come, cancel finds the event and _timer a time to subtract.  *)
THEOREM DelaysRun == Spec => []DelayRuns
<1>1. DelayInv => DelayRuns
  BY DEF DelayInv, Delays, DelayRuns, Runs, Sound
<1> QED BY <1>1, DelayInvariance, PTL

(* The types: times stay in ticks_diff's range, only the pins' events are  *)
(* in the queue, and `_running` is set exactly during the loop of _run.    *)
THEOREM TypesOfPins == Spec => []TypeOK
<1>1. WakeInv /\ DelayInv => TypeOK
  <2> SUFFICES ASSUME WakeInv, DelayInv PROVE TypeOK
    OBVIOUS
  <2>1. running \in BOOLEAN /\ (running <=> cb.pc \in {"loop", "scan", "scanirq"})
    BY DEF WakeInv, WakeTypes
  <2>2. running = (cb.pc \in {"loop", "scan", "scanirq"})
    <3>1. CASE running = TRUE
      BY <2>1, <3>1
    <3>2. CASE running = FALSE
      BY <2>1, <3>2
    <3> QED BY <2>1, <3>1, <3>2
  <2> QED BY <2>2 DEF DelayInv, Clock, Events, Delays, Times, TypeOK
<1> QED BY <1>1, DelayInvariance, PTL

-----------------------------------------------------------------------------
(* The events run in time.  What Served says of an event is stated here of *)
(* constants: e, the place c of the callback, the timer tm, what is        *)
(* scheduled pd, the ticks lt and calls ot so far, the time x until e and  *)
(* the delay r by those before it.                                         *)

Fits(e, n, x, r) == n + r - x <= MaxWait(e)

InRun(e, c, lt, x, r) == c \in {"loop", "scan", "scanirq"} /\ Fits(e, MaxLate - lt, x, r)
AtEnd(e, c, lt, x, r) == c \in {"set", "irq"} /\ Fits(e, MaxLate - lt + Round, x, r)
InPending(e, c, pd, lt, x, r) ==
  /\ c \in {"idle", "irq"}
  /\ \E k \in 1 .. Len(pd) : pd[k] = Run /\ Fits(e, MaxLate - lt + k * MaxLate, x, r)
TriesAt(k, ot) == (k - 1 + MaxOther - ot) * (MaxLate + 1) + MaxLate + Round
InRetry(e, c, tm, pd, lt, ot, x, r) ==
  /\ c = "idle" /\ tm \in {0, 1}
  /\ \E k \in 1 .. Len(pd) + 1 :
       /\ k <= Len(pd) => pd[k] \notin {Run, Other}
       /\ Fits(e, (IF pd = <<>> THEN tm + MaxLate ELSE MaxLate - lt) + TriesAt(k, ot), x, r)
InWait(e, tm, x) == tm # Off /\ tm <= x + Slack(e)

ServedAt(e, c, tm, pd, lt, ot, x, r) ==
  \/ InRun(e, c, lt, x, r) \/ AtEnd(e, c, lt, x, r) \/ InPending(e, c, pd, lt, x, r)
  \/ InRetry(e, c, tm, pd, lt, ot, x, r) \/ InWait(e, tm, x)

LEMMA ServedIs ==
  ASSUME NEW e
  PROVE  /\ Served(e) <=> \/ ServedAt(e, cb.pc, timer, pending, late, others, queue[e], Rounds(e))
                          \/ Entering(e)
         /\ Served(e)' <=> \/ ServedAt(e, cb'.pc, timer', pending', late', others', queue'[e], Rounds(e)')
                           \/ Entering(e)'
<1>1. /\ Running(e) <=> InRun(e, cb.pc, late, queue[e], Rounds(e))
      /\ Running(e)' <=> InRun(e, cb'.pc, late', queue'[e], Rounds(e)')
  BY DEF Running, InRun, InTime, Fits, Rest
<1>2. /\ Ending(e) <=> AtEnd(e, cb.pc, late, queue[e], Rounds(e))
      /\ Ending(e)' <=> AtEnd(e, cb'.pc, late', queue'[e], Rounds(e)')
  BY DEF Ending, AtEnd, InTime, Fits, Rest
<1>3. /\ Pending(e) <=> InPending(e, cb.pc, pending, late, queue[e], Rounds(e))
      /\ Pending(e)' <=> InPending(e, cb'.pc, pending', late', queue'[e], Rounds(e)')
  BY DEF Pending, InPending, InTime, Fits, Rest
<1>4. /\ Retrying(e) <=> InRetry(e, cb.pc, timer, pending, late, others, queue[e], Rounds(e))
      /\ Retrying(e)' <=> InRetry(e, cb'.pc, timer', pending', late', others', queue'[e], Rounds(e)')
  BY DEF Retrying, InRetry, InTime, Fits, Tries, TriesAt, Rest
<1>5. /\ Waiting(e) <=> InWait(e, timer, queue[e])
      /\ Waiting(e)' <=> InWait(e, timer', queue'[e])
  BY DEF Waiting, InWait
<1> QED BY <1>1, <1>2, <1>3, <1>4, <1>5 DEF Served, ServedAt

(* The numbers there are.                                                  *)
LEMMA Numbers ==
  /\ MaxLate \in Nat /\ MaxOther \in Nat /\ Depth \in Nat \ {0}
  /\ Delay \in Nat \ {0} /\ Period \in Nat \ {0} /\ Off = -1
  /\ Round \in Nat /\ MaxLate <= Round
  /\ \A k \in 0 .. Depth : k * MaxLate \in Nat /\ k * MaxLate <= Round
<1>1. /\ MaxLate \in Nat /\ MaxOther \in Nat /\ Depth \in Nat \ {0}
      /\ Delay \in Nat \ {0} /\ Period \in Nat \ {0} /\ Off = -1
  BY SchedulerAssumption, UPinAssumption DEF Off
<1>2. \A k \in 0 .. Depth : k * MaxLate \in Nat /\ k * MaxLate <= Depth * MaxLate
  <2> TAKE k \in 0 .. Depth
  <2>1. PICK j \in Nat : Depth = k + j
    <3>1. Depth - k \in Nat /\ Depth = k + (Depth - k)
      BY <1>1
    <3> QED BY <3>1
  <2>2. Depth * MaxLate = k * MaxLate + j * MaxLate
    BY <1>1, <2>1
  <2>3. k * MaxLate \in Nat /\ j * MaxLate \in Nat
    BY <1>1, <2>1
  <2> QED BY <2>2, <2>3
<1>3. Round \in Nat
  BY <1>1 DEF Round
<1>4. MaxLate <= Round
  <2>1. 1 \in 0 .. Depth /\ 1 * MaxLate = MaxLate
    BY <1>1
  <2> QED BY <1>2, <2>1 DEF Round
<1> QED BY <1>1, <1>2, <1>3, <1>4 DEF Round

LEMMA EventNumbers ==
  ASSUME NEW e \in PinEvents
  PROVE  /\ Slack(e) \in Nat /\ MaxLate <= Slack(e) /\ Slack(e) <= 4 * Delay + MaxLate
         /\ Failures(e) \in Nat /\ Failures(e) * Round \in Nat
         /\ MaxOther * (MaxLate + 1) \in Nat
         /\ MaxWait(e) = Slack(e) + 2 * MaxLate + MaxOther * (MaxLate + 1)
                         + Failures(e) * Round + Round
         /\ MaxWait(e) \in Nat /\ Slack(e) <= MaxWait(e)
<1>1. Slack(e) \in Nat /\ MaxLate <= Slack(e) /\ Slack(e) <= 4 * Delay + MaxLate
  BY Numbers DEF Slack
<1>2. Cardinality(Pins) \in Nat
  BY UPinAssumption, FS_CardinalityType
<1>3. Failures(e) \in Nat
  <2>1. CASE e \in Scans
    BY <1>2, <2>1 DEF Failures
  <2>2. CASE e \notin Scans
    <3>1. Pins # {}
      BY <2>2 DEF PinEvents, Scans
    <3>2. Cardinality(Pins) # 0
      BY <3>1, UPinAssumption, FS_EmptySet
    <3> QED BY <1>2, <2>2, <3>2 DEF Failures
  <2> QED BY <2>1, <2>2
<1>4. /\ (Failures(e) + 1) * Round = Failures(e) * Round + Round
      /\ Failures(e) * Round \in Nat
      /\ MaxOther * (MaxLate + 1) \in Nat
  BY <1>3, Numbers
<1>5. MaxWait(e) = Slack(e) + 2 * MaxLate + MaxOther * (MaxLate + 1) + Failures(e) * Round + Round
  BY <1>1, <1>4, Numbers DEF MaxWait
<1>6. PICK a \in Nat, b \in Nat : a = MaxOther * (MaxLate + 1) /\ b = Failures(e) * Round
  BY <1>4
<1>7. MaxWait(e) = Slack(e) + 2 * MaxLate + a + b + Round
  BY <1>5, <1>6
<1>8. MaxWait(e) \in Nat /\ Slack(e) <= MaxWait(e)
  BY <1>1, <1>7, Numbers
<1> QED BY <1>1, <1>3, <1>4, <1>5, <1>8

(* Every set of numbers that is not empty has a least one.                 *)
LEMMA Least ==
  ASSUME NEW S \in SUBSET Nat, S # {}
  PROVE  \E m \in S : \A k \in S : m <= k
<1> DEFINE R == OpToRel(<, Nat)
<1>1. IsWellFoundedOn(R, Nat) BY NatLessThanWellFounded
<1>2. \A x, y \in Nat : x < y => <<x, y>> \in R BY DEF OpToRel
<1> HIDE DEF R
<1>3. PICK m \in S : \A k \in S : <<k, m>> \notin R BY <1>1, WFMin
<1>4. ASSUME NEW k \in S PROVE m <= k
  <2>1. <<k, m>> \notin R BY <1>3
  <2>2. k \in Nat /\ m \in Nat OBVIOUS
  <2>3. ~(k < m) BY <2>1, <2>2, <1>2
  <2> QED BY <2>2, <2>3
<1> QED BY <1>3, <1>4

(* A time within ticks_ms()'s range is what ticks_diff computes.           *)
LEMMA TicksAre ==
  ASSUME NEW d \in Int, -Period < 2 * d, 2 * d < Period
  PROVE  ticks_diff(d) = d
<1>1. /\ Period \in Nat \ {0}
      /\ Period = 2 * (Period \div 2)
      /\ Period \div 2 \in Nat
  BY SchedulerAssumption
<1>2. d + Period \div 2 \in 0 .. Period - 1
  BY <1>1
<1>3. (d + Period \div 2) % Period = d + Period \div 2
  BY <1>1, <1>2
<1> QED BY <1>1, <1>3 DEF ticks_diff

(* e may take so long whenever its time has not passed by more than Slack. *)
LEMMA SlackFits ==
  ASSUME NEW e \in PinEvents, NEW x \in Int, NEW r \in Int, NEW n \in Int,
         -Slack(e) <= x, r <= Failures(e) * Round,
         n <= 2 * MaxLate + MaxOther * (MaxLate + 1) + Round
  PROVE  Fits(e, n, x, r)
BY EventNumbers, Numbers DEF Fits

-----------------------------------------------------------------------------
(* How steps change who serves an event, and when.                         *)

Given(e, tm, pd, lt, ot, x, r) ==
  /\ e \in PinEvents /\ tm \in Nat \cup {Off}
  /\ pd \in Seq(Scheduled) /\ Len(pd) <= Depth
  /\ lt \in 0 .. MaxLate /\ ot \in 0 .. MaxOther
  /\ x \in Int /\ r \in Nat /\ r <= Failures(e) * Round

LEMMA FitsLess ==
  ASSUME NEW e \in PinEvents, NEW n \in Int, NEW m \in Int, NEW x \in Int, NEW r \in Int,
         NEW y \in Int, NEW s \in Int,
         Fits(e, n, x, r), m + s - y <= n + r - x
  PROVE  Fits(e, m, y, s)
<1>1. MaxWait(e) \in Int
  BY EventNumbers, Numbers
<1> QED BY <1>1 DEF Fits

(* There are tries left.                                                   *)
LEMMA TriesLeft ==
  ASSUME NEW k \in Nat \ {0}, NEW ot \in 0 .. MaxOther
  PROVE  /\ TriesAt(k, ot) \in Nat /\ MaxLate + Round <= TriesAt(k, ot)
         /\ TriesAt(k + 1, ot) = TriesAt(k, ot) + MaxLate + 1
         /\ ot < MaxOther => TriesAt(k + 1, ot + 1) = TriesAt(k, ot)
         /\ ot < MaxOther => TriesAt(k, ot + 1) = TriesAt(k, ot) - (MaxLate + 1)
<1>1. PICK j \in Nat : j = k - 1 + MaxOther - ot
  BY Numbers
<1>2. PICK b \in Nat : b = MaxLate + 1
  BY Numbers
<1>3. /\ j * b \in Nat
      /\ (j + 1) * b = j * b + b
      /\ (j - 1) * b = j * b - b
  BY <1>1, <1>2
<1>4. /\ k + 1 - 1 + MaxOther - ot = j + 1
      /\ k + 1 - 1 + MaxOther - (ot + 1) = j
      /\ k - 1 + MaxOther - (ot + 1) = j - 1
  BY <1>1, Numbers
<1> QED BY <1>1, <1>2, <1>3, <1>4, Numbers DEF TriesAt

LEMMA SlackServed ==
  ASSUME NEW e, NEW c, NEW tm, NEW pd, NEW lt, NEW ot, NEW x, NEW r,
         Given(e, tm, pd, lt, ot, x, r), -Slack(e) <= x,
         \/ c \in {"loop", "scan", "scanirq", "set", "irq"}
         \/ c = "idle" /\ \E k \in 1 .. Len(pd) : pd[k] = Run
  PROVE  ServedAt(e, c, tm, pd, lt, ot, x, r)
<1>1. /\ e \in PinEvents /\ lt \in 0 .. MaxLate /\ x \in Int /\ r \in Int
      /\ r <= Failures(e) * Round /\ pd \in Seq(Scheduled) /\ Len(pd) <= Depth
  BY DEF Given
<1>2. MaxOther * (MaxLate + 1) \in Nat
  BY <1>1, EventNumbers
<1>3. CASE c \in {"loop", "scan", "scanirq"}
  <2>1. Fits(e, MaxLate - lt, x, r)
    BY <1>1, <1>2, Numbers, SlackFits
  <2> QED BY <1>3, <2>1 DEF ServedAt, InRun
<1>4. CASE c \in {"set", "irq"}
  <2>1. Fits(e, MaxLate - lt + Round, x, r)
    BY <1>1, <1>2, Numbers, SlackFits
  <2> QED BY <1>4, <2>1 DEF ServedAt, AtEnd
<1>5. CASE c = "idle" /\ \E k \in 1 .. Len(pd) : pd[k] = Run
  <2>1. PICK k \in 1 .. Len(pd) : pd[k] = Run
    BY <1>5
  <2>2. k * MaxLate \in Nat /\ k * MaxLate <= Round
    BY <1>1, <2>1, Numbers
  <2>3. Fits(e, MaxLate - lt + k * MaxLate, x, r)
    BY <1>1, <1>2, <2>2, Numbers, SlackFits
  <2> QED BY <1>5, <2>1, <2>3 DEF ServedAt, InPending
<1> QED BY <1>3, <1>4, <1>5

LEMMA ServedInTime ==
  ASSUME NEW e, NEW c, NEW tm, NEW pd, NEW lt, NEW ot, NEW x, NEW r,
         Given(e, tm, pd, lt, ot, x, r), ServedAt(e, c, tm, pd, lt, ot, x, r)
  PROVE  -MaxWait(e) <= x
<1>1. /\ e \in PinEvents /\ lt \in 0 .. MaxLate /\ ot \in 0 .. MaxOther /\ x \in Int /\ r \in Nat
      /\ pd \in Seq(Scheduled) /\ Len(pd) <= Depth /\ tm \in Nat \cup {Off}
  BY DEF Given
<1>2. MaxWait(e) \in Int /\ Slack(e) <= MaxWait(e)
  BY <1>1, EventNumbers
<1>3. \A n \in Nat : Fits(e, n, x, r) => -MaxWait(e) <= x
  BY <1>1, <1>2 DEF Fits
<1>4. MaxLate - lt \in Nat /\ MaxLate - lt + Round \in Nat
  BY <1>1, Numbers
<1>5. CASE InRun(e, c, lt, x, r) \/ AtEnd(e, c, lt, x, r)
  BY <1>3, <1>4, <1>5 DEF InRun, AtEnd
<1>6. CASE InPending(e, c, pd, lt, x, r)
  <2>1. PICK k \in 1 .. Len(pd) : Fits(e, MaxLate - lt + k * MaxLate, x, r)
    BY <1>6 DEF InPending
  <2>2. k * MaxLate \in Nat
    BY <1>1, <2>1, Numbers
  <2>3. MaxLate - lt + k * MaxLate \in Nat
    BY <1>4, <2>2
  <2> QED BY <1>3, <2>1, <2>3
<1>7. CASE InRetry(e, c, tm, pd, lt, ot, x, r)
  <2>1. PICK k \in 1 .. Len(pd) + 1 :
          Fits(e, (IF pd = <<>> THEN tm + MaxLate ELSE MaxLate - lt) + TriesAt(k, ot), x, r)
    BY <1>7 DEF InRetry
  <2>2. TriesAt(k, ot) \in Nat
    <3>1. k \in Nat \ {0}
      BY <1>1
    <3> QED BY <1>1, <3>1, TriesLeft
  <2>3. tm + MaxLate \in Nat
    BY <1>7, Numbers DEF InRetry
  <2>4. (IF pd = <<>> THEN tm + MaxLate ELSE MaxLate - lt) + TriesAt(k, ot) \in Nat
    BY <1>4, <2>2, <2>3
  <2> QED BY <1>3, <2>1, <2>4
<1>8. CASE InWait(e, tm, x)
  <2>1. tm \in Nat /\ tm <= x + Slack(e)
    BY <1>1, <1>8 DEF InWait
  <2>2. Slack(e) \in Nat
    BY <1>1, EventNumbers
  <2> QED BY <1>1, <1>2, <2>1, <2>2
<1> QED BY <1>5, <1>6, <1>7, <1>8 DEF ServedAt

(* Fewer events are before e.                                              *)
LEMMA FewerBefore ==
  ASSUME NEW e, NEW c, NEW tm, NEW pd, NEW lt, NEW ot, NEW x, NEW r, NEW s \in Nat, s <= r,
         Given(e, tm, pd, lt, ot, x, r), ServedAt(e, c, tm, pd, lt, ot, x, r)
  PROVE  ServedAt(e, c, tm, pd, lt, ot, x, s)
<1>1. e \in PinEvents /\ x \in Int /\ r \in Nat /\ lt \in 0 .. MaxLate
      /\ pd \in Seq(Scheduled) /\ ot \in 0 .. MaxOther
  BY DEF Given
<1>2. ASSUME NEW n \in Int, Fits(e, n, x, r) PROVE Fits(e, n, x, s)
  BY <1>1, <1>2, FitsLess
<1>3. MaxLate - lt \in Int /\ MaxLate - lt + Round \in Int
  BY <1>1, Numbers
<1>4. CASE InRun(e, c, lt, x, r) \/ AtEnd(e, c, lt, x, r)
  BY <1>2, <1>3, <1>4 DEF InRun, AtEnd, ServedAt
<1>5. CASE InPending(e, c, pd, lt, x, r)
  <2>1. PICK k \in 1 .. Len(pd) : pd[k] = Run /\ Fits(e, MaxLate - lt + k * MaxLate, x, r)
    BY <1>5 DEF InPending
  <2>2. MaxLate - lt + k * MaxLate \in Int
    BY <1>1, <1>3, Numbers
  <2>3. Fits(e, MaxLate - lt + k * MaxLate, x, s)
    BY <1>2, <2>1, <2>2
  <2> QED BY <1>5, <2>1, <2>3 DEF InPending, ServedAt
<1>6. CASE InRetry(e, c, tm, pd, lt, ot, x, r)
  <2>1. PICK k \in 1 .. Len(pd) + 1 :
          /\ k <= Len(pd) => pd[k] \notin {Run, Other}
          /\ Fits(e, (IF pd = <<>> THEN tm + MaxLate ELSE MaxLate - lt) + TriesAt(k, ot), x, r)
    BY <1>6 DEF InRetry
  <2>2. (IF pd = <<>> THEN tm + MaxLate ELSE MaxLate - lt) + TriesAt(k, ot) \in Int
    <3>1. k \in Nat \ {0}
      BY <1>1
    <3>2. TriesAt(k, ot) \in Nat
      BY <1>1, <3>1, TriesLeft
    <3>3. tm + MaxLate \in Int
      BY <1>6, Numbers DEF InRetry
    <3> QED BY <1>3, <3>2, <3>3
  <2>3. Fits(e, (IF pd = <<>> THEN tm + MaxLate ELSE MaxLate - lt) + TriesAt(k, ot), x, s)
    BY <1>2, <2>1, <2>2
  <2> QED BY <1>6, <2>1, <2>3 DEF InRetry, ServedAt
<1>7. CASE InWait(e, tm, x)
  BY <1>7 DEF ServedAt
<1> QED BY <1>4, <1>5, <1>6, <1>7 DEF ServedAt

(* schedule() adds a callback that is not _run.                            *)
LEMMA MoreScheduled ==
  ASSUME NEW e, NEW c, NEW tm, NEW pd, NEW lt, NEW ot, NEW x, NEW r,
         Given(e, tm, pd, lt, ot, x, r), ServedAt(e, c, tm, pd, lt, ot, x, r),
         NEW y \in Scheduled, NEW o2, NEW pd2, pd2 = Append(pd, y),
         \/ y \notin {Run, Other} /\ o2 = ot
         \/ y = Other /\ o2 = ot + 1 /\ ot < MaxOther
  PROVE  ServedAt(e, c, tm, pd2, lt, o2, x, r)
<1>1. /\ e \in PinEvents /\ x \in Int /\ r \in Nat /\ lt \in 0 .. MaxLate
      /\ pd \in Seq(Scheduled) /\ ot \in 0 .. MaxOther
  BY DEF Given
<1>2. /\ Len(pd2) = Len(pd) + 1 /\ Len(pd) \in Nat /\ pd2 # <<>>
      /\ \A k \in 1 .. Len(pd) : pd2[k] = pd[k]
      /\ pd2[Len(pd) + 1] = y
  BY <1>1
<1>3. CASE InRun(e, c, lt, x, r) \/ AtEnd(e, c, lt, x, r) \/ InWait(e, tm, x)
  BY <1>3 DEF ServedAt
<1>4. CASE InPending(e, c, pd, lt, x, r)
  <2>1. PICK k \in 1 .. Len(pd) : pd[k] = Run /\ Fits(e, MaxLate - lt + k * MaxLate, x, r)
    BY <1>4 DEF InPending
  <2>2. k \in 1 .. Len(pd2) /\ pd2[k] = Run
    BY <1>2, <2>1
  <2> QED BY <1>4, <2>1, <2>2 DEF InPending, ServedAt
<1>5. CASE InRetry(e, c, tm, pd, lt, ot, x, r)
  <2>1. PICK k \in 1 .. Len(pd) + 1 :
          /\ k <= Len(pd) => pd[k] \notin {Run, Other}
          /\ Fits(e, (IF pd = <<>> THEN tm + MaxLate ELSE MaxLate - lt) + TriesAt(k, ot), x, r)
    BY <1>5 DEF InRetry
  <2>2. k \in Nat \ {0} /\ c = "idle" /\ tm \in {0, 1}
    BY <1>2, <1>5, <2>1 DEF InRetry
  <2>3. PICK w \in Int : /\ w = IF pd = <<>> THEN tm + MaxLate ELSE MaxLate - lt
                         /\ MaxLate - lt <= w
    <3>1. tm + MaxLate \in Int /\ MaxLate - lt \in Int /\ MaxLate - lt <= tm + MaxLate
      BY <1>1, <2>2, Numbers
    <3> QED BY <3>1
  <2>4. MaxLate - lt \in Int /\ MaxLate \in Nat /\ TriesAt(k, ot) \in Nat
    BY <1>1, <2>2, Numbers, TriesLeft
  <2>5. ASSUME NEW j \in 1 .. Len(pd) + 2, j <= Len(pd) + 1 => pd2[j] \notin {Run, Other},
               TriesAt(j, o2) \in Int, TriesAt(j, o2) <= TriesAt(k, ot)
        PROVE  InRetry(e, c, tm, pd2, lt, o2, x, r)
    <3>1. Fits(e, MaxLate - lt + TriesAt(j, o2), x, r)
      BY <1>1, <2>1, <2>3, <2>4, <2>5, FitsLess
    <3> QED BY <1>2, <2>2, <2>5, <3>1 DEF InRetry
  <2>6. CASE y \notin {Run, Other} /\ o2 = ot
    <3>1. k <= Len(pd) + 1 => pd2[k] \notin {Run, Other}
      BY <1>2, <2>1, <2>6
    <3>2. k \in 1 .. Len(pd) + 2
      BY <1>2
    <3> QED BY <2>4, <2>5, <2>6, <3>1, <3>2 DEF ServedAt
  <2>7. CASE y = Other /\ o2 = ot + 1 /\ ot < MaxOther /\ k <= Len(pd)
    <3>1. k <= Len(pd) + 1 => pd2[k] \notin {Run, Other}
      BY <1>2, <2>1, <2>7
    <3>2. k \in 1 .. Len(pd) + 2
      BY <1>2
    <3>3. TriesAt(k, ot + 1) = TriesAt(k, ot) - (MaxLate + 1)
      BY <1>1, <2>2, <2>7, TriesLeft
    <3>4. PICK a \in Nat : a = TriesAt(k, ot)
      BY <2>4
    <3>5. TriesAt(k, o2) \in Int /\ TriesAt(k, o2) <= a
      BY <2>4, <2>7, <3>3, <3>4
    <3> QED BY <2>5, <3>1, <3>2, <3>4, <3>5 DEF ServedAt
  <2>8. CASE y = Other /\ o2 = ot + 1 /\ ot < MaxOther /\ ~(k <= Len(pd))
    <3>1. k = Len(pd) + 1 /\ k + 1 \in 1 .. Len(pd) + 2 /\ ~(k + 1 <= Len(pd) + 1)
      BY <1>2, <2>8
    <3>2. TriesAt(k + 1, o2) = TriesAt(k, ot)
      BY <1>1, <2>2, <2>8, TriesLeft
    <3> QED BY <2>4, <2>5, <3>1, <3>2 DEF ServedAt
  <2> QED BY <2>6, <2>7, <2>8
<1> QED BY <1>3, <1>4, <1>5 DEF ServedAt

(* _run is scheduled: by _sched_run, which leaves the timer off, or by     *)
(* _set_timer, which leaves it as it is.                                   *)
LEMMA RunScheduled ==
  ASSUME NEW e, NEW c, NEW tm, NEW pd, NEW lt, NEW ot, NEW x, NEW r,
         Given(e, tm, pd, lt, ot, x, r), ServedAt(e, c, tm, pd, lt, ot, x, r),
         NEW pd2, pd2 = Append(pd, Run), Len(pd) < Depth,
         NEW t2, t2 = tm \/ (tm = 0 /\ t2 = Off),
         c \in {"idle", "irq", "loop", "scan", "scanirq", "set"}
  PROVE  ServedAt(e, c, t2, pd2, lt, ot, x, r)
<1>1. /\ e \in PinEvents /\ x \in Int /\ r \in Nat /\ lt \in 0 .. MaxLate
      /\ pd \in Seq(Scheduled) /\ ot \in 0 .. MaxOther /\ tm \in Nat \cup {Off}
  BY DEF Given
<1>2. /\ Len(pd2) = Len(pd) + 1 /\ Len(pd) \in Nat /\ pd2 \in Seq(Scheduled)
      /\ \A k \in 1 .. Len(pd) : pd2[k] = pd[k]
      /\ pd2[Len(pd) + 1] = Run
  BY <1>1 DEF Scheduled
<1>3. CASE InRun(e, c, lt, x, r) \/ AtEnd(e, c, lt, x, r)
  BY <1>3 DEF ServedAt
<1>4. CASE InPending(e, c, pd, lt, x, r)
  <2>1. PICK k \in 1 .. Len(pd) : pd[k] = Run /\ Fits(e, MaxLate - lt + k * MaxLate, x, r)
    BY <1>4 DEF InPending
  <2>2. k \in 1 .. Len(pd2) /\ pd2[k] = Run
    BY <1>2, <2>1
  <2> QED BY <1>4, <2>1, <2>2 DEF InPending, ServedAt
<1>5. CASE InRetry(e, c, tm, pd, lt, ot, x, r)
  <2>1. PICK k \in 1 .. Len(pd) + 1 :
          Fits(e, (IF pd = <<>> THEN tm + MaxLate ELSE MaxLate - lt) + TriesAt(k, ot), x, r)
    BY <1>5 DEF InRetry
  <2>2. k \in Nat \ {0} /\ c = "idle" /\ tm \in {0, 1}
    BY <1>2, <1>5, <2>1 DEF InRetry
  <2>3. PICK w \in Int : /\ w = IF pd = <<>> THEN tm + MaxLate ELSE MaxLate - lt
                         /\ MaxLate - lt <= w
    <3>1. tm + MaxLate \in Int /\ MaxLate - lt \in Int /\ MaxLate - lt <= tm + MaxLate
      BY <1>1, <2>2, Numbers
    <3> QED BY <3>1
  <2>4. /\ MaxLate - lt \in Int /\ MaxLate \in Nat /\ TriesAt(k, ot) \in Nat
        /\ Round \in Nat /\ MaxLate + Round <= TriesAt(k, ot)
    BY <1>1, <2>2, Numbers, TriesLeft
  <2>5. (Len(pd) + 1) * MaxLate \in Nat /\ (Len(pd) + 1) * MaxLate <= Round
    <3>1. Len(pd) + 1 \in 0 .. Depth
      BY <1>2, Numbers
    <3> QED BY <3>1, Numbers
  <2>6. Fits(e, MaxLate - lt + (Len(pd) + 1) * MaxLate, x, r)
    <3>1. PICK b \in Nat : b = (Len(pd) + 1) * MaxLate
      BY <2>5
    <3>2. Fits(e, MaxLate - lt + b, x, r)
      BY <1>1, <2>1, <2>3, <2>4, <2>5, <3>1, FitsLess
    <3> QED BY <3>1, <3>2
  <2> QED BY <1>2, <2>2, <2>6 DEF InPending, ServedAt
<1>6. CASE InWait(e, tm, x)
  <2>1. CASE t2 = tm
    BY <1>6, <2>1 DEF ServedAt
  <2>2. CASE tm = 0 /\ t2 = Off
    <3>1. -Slack(e) <= x
      BY <1>1, <1>6, <2>2, EventNumbers DEF InWait
    <3>2. Given(e, t2, pd2, lt, ot, x, r)
      BY <1>2, <2>2, Numbers DEF Given
    <3>3. \E k \in 1 .. Len(pd2) : pd2[k] = Run
      BY <1>2
    <3> QED BY <3>1, <3>2, <3>3, SlackServed
  <2> QED BY <2>1, <2>2
<1> QED BY <1>3, <1>4, <1>5, <1>6 DEF ServedAt

(* The callbacks of others in pd, one after another, are no more than ot.  *)
CountedAt(pd, ot) ==
  \A i, j \in 1 .. Len(pd) :
    i <= j /\ (\A m \in i .. j : pd[m] = Other) => j - i + 1 <= ot

(* Others come first in pd, and then the first of something else.          *)
LEMMA AfterOthers ==
  ASSUME NEW pd \in Seq(Scheduled), NEW ot \in Nat, CountedAt(pd, ot)
  PROVE  \E k \in 1 .. Len(pd) + 1 : k - 1 <= ot /\ (k <= Len(pd) => pd[k] # Other)
<1> DEFINE S == {k \in Nat : k \in 1 .. Len(pd) + 1 /\ (k <= Len(pd) => pd[k] # Other)}
<1>1. Len(pd) \in Nat /\ Len(pd) + 1 \in S
  OBVIOUS
<1>2. S \in SUBSET Nat /\ S # {}
  BY <1>1
<1>3. PICK k \in S : \A j \in S : k <= j
  <2> HIDE DEF S
  <2> QED BY <1>2, Least
<1>4. k \in 1 .. Len(pd) + 1 /\ (k <= Len(pd) => pd[k] # Other)
  BY <1>3
<1>5. ASSUME NEW m \in 1 .. k - 1 PROVE pd[m] = Other
  <2>1. m \in 1 .. Len(pd) + 1 /\ m <= Len(pd) /\ ~(k <= m) /\ m \in Nat
    BY <1>1, <1>4
  <2>2. m \notin S
    BY <1>3, <2>1
  <2> QED BY <2>1, <2>2
<1>6. k - 1 <= ot
  <2>1. CASE k = 1
    BY <2>1
  <2>2. CASE k # 1
    <3>1. 1 \in 1 .. Len(pd) /\ k - 1 \in 1 .. Len(pd) /\ 1 <= k - 1
      BY <1>1, <1>4, <2>2
    <3>2. k - 1 - 1 + 1 <= ot
      BY <1>5, <3>1 DEF CountedAt
    <3> QED BY <1>4, <3>2
  <2> QED BY <2>1, <2>2
<1> QED BY <1>4, <1>6

(* _sched_run finds schedule()'s queue full, and sets the timer to 1.      *)
LEMMA QueueFull ==
  ASSUME NEW e, NEW c, NEW pd, NEW lt, NEW ot, NEW x, NEW r,
         Given(e, 0, pd, lt, ot, x, r), ServedAt(e, c, 0, pd, lt, ot, x, r),
         ~(Len(pd) < Depth), CountedAt(pd, ot),
         c \in {"idle", "irq", "loop", "scan", "scanirq", "set"}
  PROVE  ServedAt(e, c, 1, pd, lt, ot, x, r)
<1>1. /\ e \in PinEvents /\ x \in Int /\ r \in Nat /\ lt \in 0 .. MaxLate
      /\ pd \in Seq(Scheduled) /\ ot \in 0 .. MaxOther /\ r <= Failures(e) * Round
  BY DEF Given
<1>2. pd # <<>>
  <2>1. Len(pd) # 0
    BY <1>1, Numbers
  <2> QED BY <2>1
<1>3. CASE InRun(e, c, lt, x, r) \/ AtEnd(e, c, lt, x, r) \/ InPending(e, c, pd, lt, x, r)
  BY <1>3 DEF ServedAt
<1>4. CASE InRetry(e, c, 0, pd, lt, ot, x, r)
  BY <1>2, <1>4 DEF InRetry, ServedAt
<1>5. CASE InWait(e, 0, x)
  <2>1. -Slack(e) <= x
    BY <1>1, <1>5, EventNumbers DEF InWait
  <2>2. Given(e, 1, pd, lt, ot, x, r)
    BY DEF Given
  <2>3. CASE c # "idle" \/ \E k \in 1 .. Len(pd) : pd[k] = Run
    BY <2>1, <2>2, <2>3, SlackServed
  <2>4. CASE c = "idle" /\ \A k \in 1 .. Len(pd) : pd[k] # Run
    <3>1. PICK k \in 1 .. Len(pd) + 1 : k - 1 <= ot /\ (k <= Len(pd) => pd[k] # Other)
      BY <1>1, AfterOthers
    <3>2. k \in Nat \ {0} /\ (k <= Len(pd) => pd[k] \notin {Run, Other})
      BY <1>1, <2>4, <3>1
    <3>3. TriesAt(k, ot) \in Nat /\ TriesAt(k, ot) <= MaxOther * (MaxLate + 1) + MaxLate + Round
      <4>1. PICK j \in Nat, i \in Nat : j = k - 1 + MaxOther - ot /\ MaxOther = j + i
        <5>1. k - 1 + MaxOther - ot \in Nat /\ ot - (k - 1) \in Nat
          BY <1>1, <3>1, <3>2, Numbers
        <5>2. MaxOther = (k - 1 + MaxOther - ot) + (ot - (k - 1))
          BY <1>1, <3>2, Numbers
        <5> QED BY <5>1, <5>2
      <4>2. PICK b \in Nat : b = MaxLate + 1
        BY Numbers
      <4>3. MaxOther * b = j * b + i * b /\ j * b \in Nat /\ i * b \in Nat
        BY <4>1, <4>2
      <4>4. TriesAt(k, ot) = j * b + MaxLate + Round /\ MaxOther * (MaxLate + 1) = MaxOther * b
        BY <4>1, <4>2 DEF TriesAt
      <4>5. PICK u \in Nat, v \in Nat : u = j * b /\ v = i * b
        BY <4>3
      <4>6. TriesAt(k, ot) = u + MaxLate + Round /\ MaxOther * (MaxLate + 1) = u + v
        BY <4>3, <4>4, <4>5
      <4> QED BY <4>5, <4>6, Numbers
    <3>4. Fits(e, MaxLate - lt + TriesAt(k, ot), x, r)
      <4>1. PICK a \in Nat : a = MaxOther * (MaxLate + 1)
        BY <1>1, EventNumbers
      <4>2. PICK n \in Nat : n = TriesAt(k, ot) /\ n <= a + MaxLate + Round
        BY <3>3, <4>1
      <4>3. MaxLate - lt + n \in Int /\ MaxLate - lt + n <= 2 * MaxLate + a + Round
        BY <1>1, <4>1, <4>2, Numbers
      <4> QED BY <1>1, <2>1, <4>1, <4>2, <4>3, SlackFits
    <3> QED BY <1>2, <2>4, <3>2, <3>4 DEF InRetry, ServedAt
  <2> QED BY <2>3, <2>4
<1> QED BY <1>3, <1>4, <1>5 DEF ServedAt

(* A tick passes.                                                          *)
LEMMA TickServed ==
  ASSUME NEW e, NEW c, NEW tm, NEW pd, NEW lt, NEW ot, NEW x, NEW r,
         Given(e, tm, pd, lt, ot, x, r), ServedAt(e, c, tm, pd, lt, ot, x, r), tm # 0,
         NEW t2, t2 = IF tm = Off THEN Off ELSE tm - 1,
         NEW l2, IF c # "idle" \/ pd # <<>> THEN lt < MaxLate /\ l2 = lt + 1 ELSE l2 = 0
  PROVE  ServedAt(e, c, t2, pd, l2, ot, x - 1, r)
<1>1. /\ e \in PinEvents /\ x \in Int /\ r \in Nat /\ lt \in 0 .. MaxLate /\ tm \in Nat \cup {Off}
      /\ pd \in Seq(Scheduled) /\ ot \in 0 .. MaxOther /\ MaxLate \in Nat
      /\ MaxLate - lt \in Int
  BY Numbers DEF Given
<1>2. CASE InWait(e, tm, x)
  <2>1. t2 = tm - 1 /\ t2 # Off /\ t2 <= x - 1 + Slack(e)
    <3>1. Slack(e) \in Nat
      BY <1>1, EventNumbers
    <3> QED BY <1>1, <1>2, <3>1, Numbers DEF InWait
  <2> QED BY <2>1 DEF InWait, ServedAt
<1>3. CASE c # "idle" \/ pd # <<>>
  <2>1. l2 = lt + 1 /\ MaxLate - l2 = MaxLate - lt - 1
    BY <1>1, <1>3
  <2>2. ASSUME NEW n \in Int, Fits(e, n, x, r)
        PROVE  Fits(e, n - 1, x - 1, r)
    BY <1>1, <2>2, FitsLess
  <2>3. ASSUME NEW n \in Int, Fits(e, MaxLate - lt + n, x, r)
        PROVE  Fits(e, MaxLate - l2 + n, x - 1, r)
    <3>1. MaxLate - lt + n \in Int /\ MaxLate - l2 + n = (MaxLate - lt + n) - 1
      BY <1>1, <2>1
    <3> QED BY <2>2, <2>3, <3>1
  <2>4. CASE InRun(e, c, lt, x, r)
    <3>1. Fits(e, MaxLate - l2, x - 1, r)
      BY <1>1, <2>1, <2>2, <2>4 DEF InRun
    <3> QED BY <2>4, <3>1 DEF InRun, ServedAt
  <2>5. CASE AtEnd(e, c, lt, x, r)
    BY <2>3, <2>5, Numbers DEF AtEnd, ServedAt
  <2>6. CASE InPending(e, c, pd, lt, x, r)
    <3>1. PICK k \in 1 .. Len(pd) : pd[k] = Run /\ Fits(e, MaxLate - lt + k * MaxLate, x, r)
      BY <2>6 DEF InPending
    <3>2. k * MaxLate \in Int
      BY <1>1, <3>1
    <3>3. Fits(e, MaxLate - l2 + k * MaxLate, x - 1, r)
      BY <2>3, <3>1, <3>2
    <3> QED BY <2>6, <3>1, <3>3 DEF InPending, ServedAt
  <2>7. CASE InRetry(e, c, tm, pd, lt, ot, x, r)
    <3>1. PICK k \in 1 .. Len(pd) + 1 :
            /\ k <= Len(pd) => pd[k] \notin {Run, Other}
            /\ Fits(e, (IF pd = <<>> THEN tm + MaxLate ELSE MaxLate - lt) + TriesAt(k, ot), x, r)
      BY <2>7 DEF InRetry
    <3>2. c = "idle" /\ pd # <<>> /\ t2 \in {0, 1}
      BY <1>3, <2>7, Numbers DEF InRetry
    <3>3. TriesAt(k, ot) \in Int
      <4>1. k \in Nat \ {0}
        BY <1>1
      <4> QED BY <1>1, <4>1, TriesLeft
    <3>4. Fits(e, MaxLate - l2 + TriesAt(k, ot), x - 1, r)
      BY <2>3, <3>1, <3>2, <3>3
    <3> QED BY <3>1, <3>2, <3>4 DEF InRetry, ServedAt
  <2> QED BY <1>2, <2>4, <2>5, <2>6, <2>7 DEF ServedAt
<1>4. CASE c = "idle" /\ pd = <<>>
  <2>1. ~InRun(e, c, lt, x, r) /\ ~AtEnd(e, c, lt, x, r)
    BY <1>4 DEF InRun, AtEnd
  <2>2. ~InPending(e, c, pd, lt, x, r)
    <3>1. Len(pd) = 0
      BY <1>4
    <3> QED BY <3>1 DEF InPending
  <2>3. CASE InRetry(e, c, tm, pd, lt, ot, x, r)
    <3>1. PICK k \in 1 .. Len(pd) + 1 :
            /\ k <= Len(pd) => pd[k] \notin {Run, Other}
            /\ Fits(e, tm + MaxLate + TriesAt(k, ot), x, r)
      BY <1>4, <2>3 DEF InRetry
    <3>2. t2 \in {0, 1} /\ t2 = tm - 1 /\ tm \in Int
      BY <2>3, Numbers DEF InRetry
    <3>3. TriesAt(k, ot) \in Int
      <4>1. k \in Nat \ {0}
        BY <1>1
      <4> QED BY <1>1, <4>1, TriesLeft
    <3>4. Fits(e, t2 + MaxLate + TriesAt(k, ot), x - 1, r)
      BY <1>1, <3>1, <3>2, <3>3, FitsLess
    <3> QED BY <1>4, <3>1, <3>2, <3>4 DEF InRetry, ServedAt
  <2> QED BY <1>2, <2>1, <2>2, <2>3 DEF ServedAt
<1> QED BY <1>3, <1>4

(* The next of what is scheduled starts.                                   *)
LEMMA DispatchServed ==
  ASSUME NEW e, NEW tm, NEW pd, NEW lt, NEW ot, NEW x, NEW r,
         Given(e, tm, pd, lt, ot, x, r), ServedAt(e, "idle", tm, pd, lt, ot, x, r), pd # <<>>,
         NEW c, c = IF Head(pd) = Other THEN "idle" ELSE IF Head(pd) = Run THEN "loop" ELSE "irq",
         NEW pd2, pd2 = Tail(pd)
  PROVE  ServedAt(e, c, tm, pd2, 0, ot, x, r)
<1>1. /\ e \in PinEvents /\ x \in Int /\ r \in Nat /\ lt \in 0 .. MaxLate /\ tm \in Nat \cup {Off}
      /\ pd \in Seq(Scheduled) /\ ot \in 0 .. MaxOther /\ MaxLate \in Nat /\ Round \in Nat
  BY Numbers DEF Given
<1>2. /\ Len(pd) \in Nat \ {0} /\ Head(pd) = pd[1] /\ Len(pd2) = Len(pd) - 1
      /\ \A k \in 1 .. Len(pd) - 1 : pd2[k] = pd[k + 1]
  BY <1>1
<1>3. Run # Other
  BY Names
<1>4. CASE InWait(e, tm, x)
  BY <1>4 DEF ServedAt
<1>5. CASE InPending(e, "idle", pd, lt, x, r)
  <2>1. PICK k \in 1 .. Len(pd) : pd[k] = Run /\ Fits(e, MaxLate - lt + k * MaxLate, x, r)
    BY <1>5 DEF InPending
  <2>2. k \in Nat /\ k * MaxLate \in Int /\ (k - 1) * MaxLate = k * MaxLate - MaxLate
        /\ (k - 1) * MaxLate \in Nat
    BY <1>1, <2>1
  <2>3. PICK b \in Nat : b = (k - 1) * MaxLate /\ k * MaxLate = b + MaxLate
    BY <1>1, <2>2
  <2>4. Fits(e, MaxLate - lt + (b + MaxLate), x, r)
    BY <2>1, <2>3
  <2>5. CASE c = "loop"
    <3>1. Fits(e, MaxLate - 0, x, r)
      BY <1>1, <2>4, FitsLess
    <3> QED BY <2>5, <3>1 DEF InRun, ServedAt
  <2>6. CASE c # "loop"
    <3>1. k # 1
      BY <1>2, <1>3, <2>1, <2>6
    <3>2. k - 1 \in 1 .. Len(pd2) /\ pd2[k - 1] = Run
      BY <1>2, <2>1, <3>1
    <3>3. Fits(e, MaxLate - 0 + b, x, r)
      BY <1>1, <2>4, FitsLess
    <3>4. c \in {"idle", "irq"}
      BY <2>6
    <3> QED BY <2>3, <3>2, <3>3, <3>4 DEF InPending, ServedAt
  <2> QED BY <2>5, <2>6
<1>6. CASE InRetry(e, "idle", tm, pd, lt, ot, x, r)
  <2>1. PICK k \in 1 .. Len(pd) + 1 :
          /\ k <= Len(pd) => pd[k] \notin {Run, Other}
          /\ Fits(e, MaxLate - lt + TriesAt(k, ot), x, r)
    BY <1>6 DEF InRetry
  <2>2. tm \in {0, 1} /\ k \in Nat \ {0}
    BY <1>2, <1>6 DEF InRetry
  <2>3. PICK a \in Nat : a = TriesAt(k, ot) /\ MaxLate + Round <= a
    BY <1>1, <2>2, TriesLeft
  <2>4. CASE c = "loop"
    <3>1. Fits(e, MaxLate - 0, x, r)
      BY <1>1, <2>1, <2>3, FitsLess
    <3> QED BY <2>4, <3>1 DEF InRun, ServedAt
  <2>5. CASE c = "irq"
    <3>1. Fits(e, MaxLate - 0 + Round, x, r)
      BY <1>1, <2>1, <2>3, FitsLess
    <3> QED BY <2>5, <3>1 DEF AtEnd, ServedAt
  <2>6. CASE c = "idle"
    <3>1. Head(pd) = Other
      BY <2>6
    <3>2. k # 1
      BY <1>2, <2>1, <3>1
    <3>3. /\ k - 1 \in 1 .. Len(pd2) + 1 /\ k - 1 \in Nat \ {0}
          /\ k - 1 <= Len(pd2) => pd2[k - 1] \notin {Run, Other}
      <4>1. k - 1 \in 1 .. Len(pd) /\ k - 1 \in Nat \ {0} /\ Len(pd) = Len(pd2) + 1 /\ (k - 1) + 1 = k
        BY <1>2, <2>2, <3>2
      <4>2. ASSUME k - 1 <= Len(pd2) PROVE pd2[k - 1] \notin {Run, Other}
        <5>1. k - 1 \in 1 .. Len(pd) - 1 /\ k <= Len(pd)
          BY <1>2, <2>2, <4>1, <4>2
        <5>2. pd2[k - 1] = pd[(k - 1) + 1]
          BY <1>2, <5>1
        <5> QED BY <2>1, <4>1, <5>1, <5>2
      <4> QED BY <4>1, <4>2
    <3>4. PICK h \in Nat \ {0} : h = k - 1 /\ k = h + 1
      BY <2>2, <3>3
    <3>5. PICK b \in Nat : b = TriesAt(h, ot) /\ a = b + MaxLate + 1
      <4>1. TriesAt(h, ot) \in Nat /\ TriesAt(h + 1, ot) = TriesAt(h, ot) + MaxLate + 1
        BY <1>1, <3>4, TriesLeft
      <4> QED BY <2>3, <3>4, <4>1
    <3>6. Fits(e, MaxLate - lt + a, x, r) /\ tm \in Int /\ tm <= 1
      BY <2>1, <2>2, <2>3
    <3>7. /\ tm + MaxLate + b \in Int /\ tm + MaxLate + b <= MaxLate - lt + a
          /\ MaxLate - 0 + b \in Int /\ MaxLate - 0 + b <= MaxLate - lt + a
          /\ MaxLate - lt + a \in Int
      <4>1. MaxLate - lt \in Nat /\ MaxLate - 0 = MaxLate /\ MaxLate \in Nat
        BY <1>1
      <4>2. a = b + MaxLate + 1
        BY <3>5
      <4>3. tm \in Int /\ tm <= 1
        BY <3>6
      <4>4. PICK l \in Nat : l = MaxLate - lt
        BY <4>1
      <4>5. /\ tm + MaxLate + b \in Int /\ MaxLate + b \in Int /\ l + a \in Int
            /\ tm + MaxLate + b <= l + a /\ MaxLate + b <= l + a
        BY <4>1, <4>2, <4>3
      <4> QED BY <4>1, <4>4, <4>5
    <3>8. Fits(e, tm + MaxLate + b, x, r)
      BY <1>1, <3>6, <3>7, FitsLess
    <3>9. Fits(e, MaxLate - 0 + b, x, r)
      BY <1>1, <3>6, <3>7, FitsLess
    <3>10. Fits(e, (IF pd2 = <<>> THEN tm + MaxLate ELSE MaxLate - 0) + TriesAt(h, ot), x, r)
      BY <3>5, <3>8, <3>9
    <3> QED BY <2>2, <2>6, <3>3, <3>4, <3>10 DEF InRetry, ServedAt
  <2> QED BY <2>4, <2>5, <2>6
<1>7. ~InRun(e, "idle", lt, x, r) /\ ~AtEnd(e, "idle", lt, x, r)
  BY DEF InRun, AtEnd
<1> QED BY <1>4, <1>5, <1>6, <1>7 DEF ServedAt

(* _set_timer, after _irq or at the end of _run: it sets the timer for the *)
(* first event, or schedules _run.                                         *)
LEMMA TimerSet ==
  ASSUME NEW e, NEW c \in {"set", "irq"}, NEW tm, NEW pd, NEW lt, NEW ot, NEW x, NEW r,
         Given(e, tm, pd, lt, ot, x, r), ServedAt(e, c, tm, pd, lt, ot, x, r) \/ -Slack(e) <= x,
         NEW t2, NEW pd2,
         \/ t2 \in Nat \ {0} /\ t2 <= x
         \/ t2 = tm /\ pd2 = Append(pd, Run) /\ Len(pd) < Depth
  PROVE  ServedAt(e, "idle", t2, pd2, lt, ot, x, r)
<1>1. /\ e \in PinEvents /\ x \in Int /\ r \in Nat /\ lt \in 0 .. MaxLate
      /\ pd \in Seq(Scheduled) /\ ot \in 0 .. MaxOther /\ tm \in Nat \cup {Off}
  BY DEF Given
<1>2. CASE t2 \in Nat \ {0} /\ t2 <= x
  <2>1. Slack(e) \in Nat
    BY <1>1, EventNumbers
  <2>2. InWait(e, t2, x)
    BY <1>1, <1>2, <2>1, Numbers DEF InWait
  <2> QED BY <2>2 DEF ServedAt
<1>3. CASE t2 = tm /\ pd2 = Append(pd, Run) /\ Len(pd) < Depth
  <2>1. /\ Len(pd2) = Len(pd) + 1 /\ Len(pd) \in Nat /\ pd2 \in Seq(Scheduled)
        /\ \A k \in 1 .. Len(pd) : pd2[k] = pd[k]
        /\ pd2[Len(pd) + 1] = Run
    BY <1>1, <1>3 DEF Scheduled
  <2>2. CASE InWait(e, tm, x)
    BY <1>3, <2>2 DEF ServedAt
  <2>3. CASE InPending(e, c, pd, lt, x, r)
    <3>1. PICK k \in 1 .. Len(pd) : pd[k] = Run /\ Fits(e, MaxLate - lt + k * MaxLate, x, r)
      BY <2>3 DEF InPending
    <3>2. k \in 1 .. Len(pd2) /\ pd2[k] = Run
      BY <2>1, <3>1
    <3> QED BY <3>1, <3>2 DEF InPending, ServedAt
  <2>4. CASE AtEnd(e, c, lt, x, r)
    <3>1. Len(pd) + 1 \in 0 .. Depth
      BY <1>3, <2>1, Numbers
    <3>2. PICK b \in Nat : b = (Len(pd) + 1) * MaxLate /\ b <= Round
      BY <3>1, Numbers
    <3>3. Fits(e, MaxLate - lt + Round, x, r)
      BY <2>4 DEF AtEnd
    <3>4. Fits(e, MaxLate - lt + b, x, r)
      BY <1>1, <3>2, <3>3, Numbers, FitsLess
    <3>5. Fits(e, MaxLate - lt + (Len(pd) + 1) * MaxLate, x, r)
      BY <3>2, <3>4
    <3> QED BY <2>1, <3>5 DEF InPending, ServedAt
  <2>5. CASE -Slack(e) <= x
    <3>1. Len(pd2) <= Depth
      BY <1>3, <2>1, Numbers
    <3>2. Given(e, t2, pd2, lt, ot, x, r)
      BY <1>3, <2>1, <3>1 DEF Given
    <3>3. \E k \in 1 .. Len(pd2) : pd2[k] = Run
      BY <2>1
    <3> QED BY <2>5, <3>2, <3>3, SlackServed
  <2>6. ~InRun(e, c, lt, x, r) /\ ~InRetry(e, c, tm, pd, lt, ot, x, r)
    BY DEF InRun, InRetry
  <2> QED BY <2>2, <2>3, <2>4, <2>5, <2>6 DEF ServedAt
<1> QED BY <1>2, <1>3

(* _run goes on; or it ends because the publish of an event before e has   *)
(* failed.                                                                 *)
LEMMA RunGoesOn ==
  ASSUME NEW e, NEW c \in {"loop", "scan", "scanirq"}, NEW c2 \in {"loop", "scan", "scanirq"},
         NEW tm, NEW pd, NEW lt, NEW ot, NEW x, NEW r,
         Given(e, tm, pd, lt, ot, x, r), ServedAt(e, c, tm, pd, lt, ot, x, r) \/ -Slack(e) <= x
  PROVE  ServedAt(e, c2, tm, pd, lt, ot, x, r)
<1>1. CASE -Slack(e) <= x
  BY <1>1, SlackServed
<1>2. CASE ServedAt(e, c, tm, pd, lt, ot, x, r)
  BY <1>2 DEF ServedAt, InRun, AtEnd, InPending, InRetry
<1> QED BY <1>1, <1>2

LEMMA RunEnds ==
  ASSUME NEW e, NEW tm, NEW pd, NEW lt, NEW ot, NEW x, NEW r, NEW s \in Nat, s + Round <= r,
         Given(e, tm, pd, lt, ot, x, r), ServedAt(e, "loop", tm, pd, lt, ot, x, r)
  PROVE  ServedAt(e, "set", tm, pd, lt, ot, x, s)
<1>1. e \in PinEvents /\ x \in Int /\ r \in Nat /\ lt \in 0 .. MaxLate
  BY DEF Given
<1>2. CASE InRun(e, "loop", lt, x, r)
  <2>1. Fits(e, MaxLate - lt, x, r)
    BY <1>2 DEF InRun
  <2>2. Fits(e, MaxLate - lt + Round, x, s)
    BY <1>1, <2>1, Numbers, FitsLess
  <2> QED BY <2>2 DEF AtEnd, ServedAt
<1>3. CASE InWait(e, tm, x)
  BY <1>3 DEF ServedAt
<1> QED BY <1>2, <1>3 DEF ServedAt, AtEnd, InPending, InRetry

(* Counting goes on.                                                       *)
LEMMA CountedMore ==
  ASSUME NEW pd \in Seq(Scheduled), NEW ot \in Nat, CountedAt(pd, ot), NEW y,
         NEW o2 \in Nat, o2 = IF y = Other THEN ot + 1 ELSE ot
  PROVE  CountedAt(Append(pd, y), o2)
<1> DEFINE pd2 == Append(pd, y)
<1>1. /\ Len(pd2) = Len(pd) + 1 /\ Len(pd) \in Nat /\ pd2[Len(pd) + 1] = y
      /\ \A k \in 1 .. Len(pd) : pd2[k] = pd[k]
  OBVIOUS
<1> HIDE DEF pd2
<1>2. ASSUME NEW i \in 1 .. Len(pd2), NEW j \in 1 .. Len(pd2), i <= j,
             \A m \in i .. j : pd2[m] = Other
      PROVE  j - i + 1 <= o2
  <2>1. CASE j <= Len(pd)
    <3>1. i \in 1 .. Len(pd) /\ j \in 1 .. Len(pd) /\ \A m \in i .. j : pd[m] = Other
      BY <1>1, <1>2, <2>1
    <3>2. j - i + 1 <= ot
      BY <1>2, <3>1 DEF CountedAt
    <3> QED BY <1>1, <3>1, <3>2
  <2>2. CASE j = Len(pd) + 1
    <3>1. pd2[j] = Other /\ y = Other /\ o2 = ot + 1
      BY <1>1, <1>2, <2>2
    <3>2. CASE i = j
      BY <1>1, <3>1, <3>2
    <3>3. CASE i < j
      <4>1. /\ i \in 1 .. Len(pd) /\ j - 1 \in 1 .. Len(pd) /\ i <= j - 1
            /\ \A m \in i .. j - 1 : pd[m] = Other
        BY <1>1, <1>2, <2>2, <3>3
      <4>2. (j - 1) - i + 1 <= ot
        BY <4>1 DEF CountedAt
      <4> QED BY <1>1, <3>1, <4>2
    <3> QED BY <1>2, <3>2, <3>3
  <2> QED BY <1>1, <2>1, <2>2
<1>3. CountedAt(pd2, o2)
  BY <1>2 DEF CountedAt
<1> QED BY <1>3 DEF pd2

LEMMA CountedTail ==
  ASSUME NEW pd \in Seq(Scheduled), NEW ot \in Nat, CountedAt(pd, ot), pd # <<>>
  PROVE  CountedAt(Tail(pd), ot)
<1> DEFINE pd2 == Tail(pd)
<1>1. /\ Len(pd2) = Len(pd) - 1 /\ Len(pd) \in Nat
      /\ \A k \in 1 .. Len(pd) - 1 : pd2[k] = pd[k + 1]
  OBVIOUS
<1> HIDE DEF pd2
<1>2. ASSUME NEW i \in 1 .. Len(pd2), NEW j \in 1 .. Len(pd2), i <= j,
             \A m \in i .. j : pd2[m] = Other
      PROVE  j - i + 1 <= ot
  <2>1. i + 1 \in 1 .. Len(pd) /\ j + 1 \in 1 .. Len(pd) /\ i + 1 <= j + 1
    BY <1>1, <1>2
  <2>2. ASSUME NEW m \in i + 1 .. j + 1 PROVE pd[m] = Other
    <3>1. m - 1 \in i .. j /\ m - 1 \in 1 .. Len(pd) - 1 /\ (m - 1) + 1 = m
      BY <1>1, <2>1
    <3>2. pd2[m - 1] = pd[(m - 1) + 1]
      BY <1>1, <3>1
    <3> QED BY <1>2, <3>1, <3>2
  <2>3. (j + 1) - (i + 1) + 1 <= ot
    BY <2>1, <2>2 DEF CountedAt
  <2> QED BY <1>1, <2>3
<1>3. CountedAt(pd2, ot)
  BY <1>2 DEF CountedAt
<1> QED BY <1>3 DEF pd2

-----------------------------------------------------------------------------
(* What is known of an event in the queue.                                 *)

LEMMA ScanNames ==
  /\ \A p \in Pins : scan(p) \in Scans
  /\ \A p, k : Dly(p, k) \notin Scans
BY DEF Scans, scan, Dly

BeforeIn(d, q, e) == {p \in Pins : d[p] # None /\ Dly(p, d[p]) # e /\ q[Dly(p, d[p])] <= q[e]}

LEMMA BeforeIs ==
  ASSUME NEW e
  PROVE  /\ Before(e) = BeforeIn(dly, queue, e) /\ Before(e)' = BeforeIn(dly', queue', e)
         /\ Rounds(e) = Cardinality(Before(e)) * Round
         /\ Rounds(e)' = Cardinality(Before(e)') * Round
BY DEF Before, BeforeIn, Own, Rounds, Round

LEMMA BeforeFinite ==
  ASSUME NEW d, NEW q, NEW e
  PROVE  IsFiniteSet(BeforeIn(d, q, e)) /\ Cardinality(BeforeIn(d, q, e)) \in Nat
<1>1. BeforeIn(d, q, e) \in SUBSET Pins /\ IsFiniteSet(Pins)
  BY UPinAssumption DEF BeforeIn
<1> QED BY <1>1, FS_Subset, FS_CardinalityType

(* A debounce event is not before itself.                                  *)
LEMMA RoundsFit ==
  ASSUME NEW d \in [Pins -> None .. MaxDly], NEW q, NEW e \in PinEvents,
         \A p \in Pins : \A k \in 1 .. MaxDly : e = Dly(p, k) => d[p] = k
  PROVE  /\ Cardinality(BeforeIn(d, q, e)) * Round \in Nat
         /\ Cardinality(BeforeIn(d, q, e)) * Round <= Failures(e) * Round
<1>1. Cardinality(BeforeIn(d, q, e)) <= Failures(e)
  <2>1. CASE e \in Scans
    <3>1. BeforeIn(d, q, e) \in SUBSET Pins /\ IsFiniteSet(Pins)
      BY UPinAssumption DEF BeforeIn
    <3>2. Cardinality(BeforeIn(d, q, e)) <= Cardinality(Pins)
      BY <3>1, FS_Subset
    <3> QED BY <2>1, <3>2 DEF Failures
  <2>2. CASE e \notin Scans
    <3>1. PICK p \in Pins, k \in 1 .. MaxDly : e = Dly(p, k)
      BY <2>2 DEF PinEvents, Scans
    <3>2. d[p] = k
      BY <3>1
    <3>3. BeforeIn(d, q, e) \in SUBSET (Pins \ {p})
      BY <3>1, <3>2 DEF BeforeIn
    <3>4. IsFiniteSet(Pins \ {p}) /\ Cardinality(Pins \ {p}) = Cardinality(Pins) - 1
      BY UPinAssumption, FS_RemoveElement
    <3>5. Cardinality(BeforeIn(d, q, e)) <= Cardinality(Pins) - 1
      BY <3>3, <3>4, FS_Subset
    <3> QED BY <2>2, <3>5 DEF Failures
  <2> QED BY <2>1, <2>2
<1>2. Cardinality(BeforeIn(d, q, e)) \in Nat /\ Failures(e) \in Nat /\ Round \in Nat
  BY BeforeFinite, EventNumbers, Numbers
<1>3. PICK a \in Nat, b \in Nat : a = Cardinality(BeforeIn(d, q, e)) /\ Failures(e) = a + b
  <2>1. Failures(e) - Cardinality(BeforeIn(d, q, e)) \in Nat
        /\ Failures(e) = Cardinality(BeforeIn(d, q, e)) + (Failures(e) - Cardinality(BeforeIn(d, q, e)))
    BY <1>1, <1>2
  <2> QED BY <1>2, <2>1
<1>4. Failures(e) * Round = a * Round + b * Round /\ a * Round \in Nat /\ b * Round \in Nat
  BY <1>2, <1>3
<1> QED BY <1>3, <1>4

LEMMA GivenNow ==
  ASSUME WakeInv, DelayInv, Bounds, Sound, NEW e \in DOMAIN queue
  PROVE  Given(e, timer, pending, late, others, queue[e], Rounds(e))
<1>1. /\ e \in PinEvents /\ timer \in Nat \cup {Off} /\ pending \in Seq(Scheduled)
      /\ Len(pending) <= Depth /\ late \in 0 .. MaxLate /\ others \in 0 .. MaxOther
      /\ queue[e] \in Int /\ dly \in [Pins -> None .. MaxDly]
  BY DEF WakeInv, WakeTypes, DelayInv, Clock, Events, Delays, Bounds, Scheduled
<1>2. \A p \in Pins : \A k \in 1 .. MaxDly : e = Dly(p, k) => dly[p] = k
  BY DEF DelayInv, Delays, Runs, Sound
<1>3. Rounds(e) \in Nat /\ Rounds(e) <= Failures(e) * Round
  BY <1>1, <1>2, RoundsFit, BeforeIs
<1> QED BY <1>1, <1>3 DEF Given

LEMMA GivenThen ==
  ASSUME WakeInv', DelayInv', Bounds', Sound', NEW e \in DOMAIN queue'
  PROVE  Given(e, timer', pending', late', others', queue'[e], Rounds(e)')
<1>1. /\ e \in PinEvents /\ timer' \in Nat \cup {Off} /\ pending' \in Seq(Scheduled)
      /\ Len(pending') <= Depth /\ late' \in 0 .. MaxLate /\ others' \in 0 .. MaxOther
      /\ queue'[e] \in Int /\ dly' \in [Pins -> None .. MaxDly]
  BY DEF WakeInv, WakeTypes, DelayInv, Clock, Events, Delays, Bounds, Scheduled
<1>2. \A p \in Pins : \A k \in 1 .. MaxDly : e = Dly(p, k) => dly'[p] = k
  BY DEF DelayInv, Delays, Runs, Sound
<1>3. Rounds(e)' \in Nat /\ Rounds(e)' <= Failures(e) * Round
  BY <1>1, <1>2, RoundsFit, BeforeIs
<1> QED BY <1>1, <1>3 DEF Given

(* Either the main program has just entered it, or it is served.           *)
LEMMA ServedNow ==
  ASSUME TimeInv, WakeInv, Sound, NEW e \in DOMAIN queue
  PROVE  \/ ServedAt(e, cb.pc, timer, pending, late, others, queue[e], Rounds(e))
         \/ Entering(e) /\ -Slack(e) <= queue[e]
<1>1. Served(e) /\ Arming
  BY DEF TimeInv
<1>2. CASE Entering(e)
  <2>1. main # Idle /\ main.pc # "push" /\ e = scan(main.p)
    BY <1>2 DEF Entering
  <2>2. main.p \in Pins /\ main.age \in Nat
    BY <2>1 DEF WakeInv, WakeTypes
  <2>3. queue[e] = 5 * Delay - main.age /\ main.age <= MaxLate
    BY <1>1, <2>1 DEF Arming
  <2>4. Slack(e) = MaxLate
    BY <2>1, <2>2, ScanNames DEF Slack
  <2> QED BY <1>2, <2>2, <2>3, <2>4, Numbers
<1> QED BY <1>1, <1>2, ServedIs

(* So no time wraps around, and the root of the heap is the first event.   *)
InRange(q) == /\ DOMAIN q \subseteq PinEvents
              /\ \A e \in DOMAIN q : q[e] \in Int /\ -MaxWait(e) <= q[e] /\ q[e] <= 5 * Delay

LEMMA TimesInRange ==
  ASSUME WakeInv, DelayInv, TimeInv, Sound
  PROVE  InRange(queue)
<1>1. DOMAIN queue \subseteq PinEvents
  BY DEF DelayInv, Events
<1>2. ASSUME NEW e \in DOMAIN queue
      PROVE  queue[e] \in Int /\ -MaxWait(e) <= queue[e] /\ queue[e] <= 5 * Delay
  <2>1. queue[e] \in Int /\ queue[e] <= 5 * Delay /\ Bounds
    BY DEF WakeInv, WakeTypes, TimeInv, Bounds
  <2>2. CASE ServedAt(e, cb.pc, timer, pending, late, others, queue[e], Rounds(e))
    BY <2>1, <2>2, GivenNow, ServedInTime
  <2>3. CASE -Slack(e) <= queue[e]
    <3>1. MaxWait(e) \in Nat /\ Slack(e) \in Nat /\ Slack(e) <= MaxWait(e)
      BY <1>1, EventNumbers
    <3> QED BY <2>1, <2>3, <3>1
  <2> QED BY <2>1, <2>2, <2>3, ServedNow
<1> QED BY <1>1, <1>2 DEF InRange

LEMMA RootIsFirst ==
  ASSUME Ample, NEW q, InRange(q), NEW e \in Roots(q)
  PROVE  e \in DOMAIN q /\ \A f \in DOMAIN q : q[e] <= q[f]
<1>1. \A f \in DOMAIN q : /\ q[f] \in Int /\ f \in PinEvents
                          /\ -MaxWait(f) <= q[f] /\ q[f] <= 5 * Delay
                          /\ MaxWait(f) \in Nat /\ 2 * (MaxWait(f) + 5 * Delay + 1) < Period
  BY EventNumbers DEF InRange, Ample
<1>2. ASSUME NEW f \in DOMAIN q, NEW g \in DOMAIN q
      PROVE  ticks_diff(q[f] - q[g]) = q[f] - q[g]
  <2>1. /\ q[f] - q[g] \in Int
        /\ q[f] - q[g] <= 5 * Delay + MaxWait(g) /\ -(5 * Delay + MaxWait(f)) <= q[f] - q[g]
    BY <1>1, Numbers
  <2>2. -Period < 2 * (q[f] - q[g]) /\ 2 * (q[f] - q[g]) < Period
    BY <1>1, <2>1, Numbers
  <2> QED BY <2>1, <2>2, TicksAre
<1> DEFINE least == {f \in DOMAIN q : \A g \in DOMAIN q : ticks_diff(q[f] - q[g]) <= 0}
<1>3. Roots(q) = IF least = {} THEN DOMAIN q ELSE least
  BY DEF Roots
<1>4. e \in DOMAIN q
  BY <1>3
<1>5. least # {}
  <2>1. PICK N \in Nat : N = Period
    BY Numbers
  <2> DEFINE S == {n \in Nat : \E f \in DOMAIN q : n = q[f] + N}
  <2>2. \A f \in DOMAIN q : q[f] + N \in S
    <3> TAKE f \in DOMAIN q
    <3>1. q[f] + N \in Nat
      BY <1>1, <2>1, Numbers
    <3> QED BY <3>1
  <2>3. S \in SUBSET Nat /\ S # {}
    BY <1>4, <2>2
  <2>4. PICK n \in S : \A k \in S : n <= k
    <3> HIDE DEF S
    <3> QED BY <2>3, Least
  <2>5. PICK f \in DOMAIN q : n = q[f] + N
    BY <2>4
  <2>6. ASSUME NEW g \in DOMAIN q PROVE ticks_diff(q[f] - q[g]) <= 0
    <3>1. q[f] + N <= q[g] + N
      BY <2>2, <2>4, <2>5
    <3>2. q[f] - q[g] <= 0
      BY <1>1, <3>1
    <3> QED BY <1>2, <3>2
  <2> QED BY <2>6
<1>6. \A f \in DOMAIN q : ticks_diff(q[e] - q[f]) <= 0
  BY <1>3, <1>5
<1>7. ASSUME NEW f \in DOMAIN q PROVE q[e] <= q[f]
  BY <1>1, <1>2, <1>4, <1>6
<1> QED BY <1>4, <1>7

-----------------------------------------------------------------------------
(* What steps do to the queue and what is scheduled.                       *)

ServedSoFar(e, x, r) == ServedAt(e, cb.pc, timer, pending, late, others, x, r)
ServedThen(e) == ServedAt(e, cb'.pc, timer', pending', late', others', queue'[e], Rounds(e)')

(* Events stay, or come with a delay.                                      *)
EventsKept ==
  \A e \in DOMAIN queue' :
    \/ e \in DOMAIN queue /\ queue'[e] = queue[e]
    \/ e \notin Scans /\ queue'[e] = Delay
    \/ e \in Scans /\ queue'[e] = 5 * Delay

(* The scan event of the pin that is created is not entered anew.          *)
ScanStays ==
  main # Idle /\ scan(main.p) \in DOMAIN queue' =>
    scan(main.p) \in DOMAIN queue /\ queue'[scan(main.p)] = queue[scan(main.p)]

LEMMA EventsBounded ==
  ASSUME Bounds, EventsKept
  PROVE  \A e \in DOMAIN queue' : queue'[e] <= 5 * Delay
BY Numbers DEF Bounds, EventsKept

LEMMA EventsInRange ==
  ASSUME InRange(queue), EventsKept, DelayInv'
  PROVE  InRange(queue')
<1>1. DOMAIN queue' \subseteq PinEvents
  BY DEF DelayInv, Events
<1>2. ASSUME NEW e \in DOMAIN queue'
      PROVE  queue'[e] \in Int /\ -MaxWait(e) <= queue'[e] /\ queue'[e] <= 5 * Delay
  <2>1. MaxWait(e) \in Nat
    BY <1>1, EventNumbers
  <2> QED BY <2>1, Numbers DEF InRange, EventsKept
<1> QED BY <1>1, <1>2 DEF InRange

(* What was before an event and is not late any more comes no more before. *)
LEMMA FewerPins ==
  ASSUME DelayInv, DelayInv', Sound, Sound', EventsKept, NEW e \in DOMAIN queue,
         queue'[e] = queue[e], queue[e] \in Int, queue[e] < 0
  PROVE  Before(e)' \subseteq Before(e)
<1> SUFFICES ASSUME NEW p \in Before(e)' PROVE p \in Before(e)
  OBVIOUS
<1>1. PICK k : k = dly'[p]
  OBVIOUS
<1>2. p \in Pins /\ k # None /\ Dly(p, k) # e /\ queue'[Dly(p, k)] <= queue[e]
  BY <1>1, BeforeIs DEF BeforeIn
<1>3. k \in 1 .. MaxDly
  <2>1. dly' \in [Pins -> None .. MaxDly]
    BY DEF DelayInv, Delays
  <2>2. k \in None .. MaxDly
    BY <1>1, <1>2, <2>1
  <2> QED BY <1>2, <2>2, UPinAssumption DEF None
<1>4. Dly(p, k) \in DOMAIN queue'
  BY <1>1, <1>2, <1>3 DEF DelayInv, Delays, Runs, Sound
<1>5. Dly(p, k) \notin Scans
  BY ScanNames
<1>6. Dly(p, k) \in DOMAIN queue /\ queue'[Dly(p, k)] = queue[Dly(p, k)]
  <2>1. queue'[Dly(p, k)] # Delay
    BY <1>2, Numbers
  <2> QED BY <1>4, <1>5, <2>1 DEF EventsKept
<1>7. dly[p] = k
  BY <1>2, <1>3, <1>6 DEF DelayInv, Delays, Runs, Sound
<1> QED BY <1>2, <1>6, <1>7, BeforeIs DEF BeforeIn

LEMMA RoundsShrink ==
  ASSUME NEW e, Before(e)' \subseteq Before(e)
  PROVE  Rounds(e) \in Nat /\ Rounds(e)' \in Nat /\ Rounds(e)' <= Rounds(e)
<1>1. IsFiniteSet(Before(e)) /\ Cardinality(Before(e)) \in Nat /\ Cardinality(Before(e)') \in Nat
  BY BeforeIs, BeforeFinite
<1>2. Cardinality(Before(e)') <= Cardinality(Before(e))
  BY <1>1, FS_Subset
<1>3. PICK a \in Nat, b \in Nat : a = Cardinality(Before(e)') /\ Cardinality(Before(e)) = a + b
  <2>1. Cardinality(Before(e)) - Cardinality(Before(e)') \in Nat
        /\ Cardinality(Before(e)) =
             Cardinality(Before(e)') + (Cardinality(Before(e)) - Cardinality(Before(e)'))
    BY <1>1, <1>2
  <2> QED BY <1>1, <2>1
<1>4. (a + b) * Round = a * Round + b * Round /\ a * Round \in Nat /\ b * Round \in Nat
  BY Numbers
<1> QED BY <1>3, <1>4, BeforeIs

(* The events in the queue, after a step of a callback: each is new or not *)
(* late, or it is served as before.                                        *)
LEMMA ServedStill ==
  ASSUME WakeInv, DelayInv, TimeInv, Sound, WakeInv', DelayInv', Bounds', Sound', EventsKept,
         NEW e \in DOMAIN queue'
  PROVE  /\ Given(e, timer, pending, late, others, queue'[e], Rounds(e)')
         /\ \/ ServedSoFar(e, queue'[e], Rounds(e)')
            \/ -Slack(e) <= queue'[e]
<1>1. Given(e, timer', pending', late', others', queue'[e], Rounds(e)')
  BY GivenThen
<1>2. /\ e \in PinEvents /\ queue'[e] \in Int /\ Rounds(e)' \in Nat
      /\ Rounds(e)' <= Failures(e) * Round
  BY <1>1 DEF Given
<1>3. Given(e, timer, pending, late, others, queue'[e], Rounds(e)')
  <2>1. /\ timer \in Nat \cup {Off} /\ pending \in Seq(Scheduled)
        /\ Len(pending) <= Depth /\ late \in 0 .. MaxLate /\ others \in 0 .. MaxOther
    BY DEF WakeInv, WakeTypes, DelayInv, Clock, TimeInv, Bounds, Scheduled
  <2> QED BY <1>2, <2>1 DEF Given
<1>4. Slack(e) \in Nat
  BY <1>2, EventNumbers
<1>5. CASE 0 <= queue'[e]
  BY <1>2, <1>3, <1>4, <1>5
<1>6. CASE queue'[e] < 0
  <2>1. e \in DOMAIN queue /\ queue'[e] = queue[e]
    BY <1>6, Numbers DEF EventsKept
  <2>2. Before(e)' \subseteq Before(e)
    BY <1>2, <1>6, <2>1, FewerPins
  <2>3. Rounds(e)' \in Nat /\ Rounds(e)' <= Rounds(e)
    BY <2>2, RoundsShrink
  <2>4. CASE ServedAt(e, cb.pc, timer, pending, late, others, queue[e], Rounds(e))
    <3>1. Given(e, timer, pending, late, others, queue[e], Rounds(e))
      BY <2>1, GivenNow DEF TimeInv
    <3>2. PICK s \in Nat : s = Rounds(e)' /\ s <= Rounds(e)
      BY <2>3
    <3>3. ServedAt(e, cb.pc, timer, pending, late, others, queue[e], s)
      BY <2>4, <3>1, <3>2, FewerBefore
    <3> QED BY <1>3, <2>1, <3>2, <3>3 DEF ServedSoFar
  <2>5. CASE -Slack(e) <= queue[e]
    BY <1>3, <2>1, <2>5
  <2> QED BY <2>1, <2>4, <2>5, ServedNow
<1> QED BY <1>2, <1>5, <1>6

(* What is left to show for a step of a callback ...                       *)
LEMMA CallbackInTime ==
  ASSUME WakeInv, TimeInv, Sound, EventsKept, main' = main, ScanStays,
         Bounds', OthersCounted', DelayInv',
         Sound' => \A e \in DOMAIN queue' : ServedThen(e)
  PROVE  TimeInv'
<1>1. Arming
  BY DEF TimeInv
<1>2. ASSUME main # Idle, main.pc = "arm", NEW e \in DOMAIN queue'
      PROVE  main.n <= queue'[e] + Slack(e) - MaxLate + main.age
  <2>1. main.n <= 5 * Delay /\ main.n \in Int /\ main.age \in Nat
    BY <1>1, <1>2 DEF Arming, WakeInv, WakeTypes
  <2>2. e \in PinEvents
    BY DEF DelayInv, Events
  <2>3. CASE e \in DOMAIN queue /\ queue'[e] = queue[e]
    BY <1>1, <1>2, <2>3 DEF Arming
  <2>4. CASE e \notin Scans /\ queue'[e] = Delay
    BY <2>1, <2>4, Numbers DEF Slack
  <2>5. CASE e \in Scans /\ queue'[e] = 5 * Delay
    BY <2>1, <2>5, Numbers DEF Slack
  <2> QED BY <2>3, <2>4, <2>5 DEF EventsKept
<1>3. Arming'
  BY <1>1, <1>2 DEF Arming, ScanStays
<1>4. ASSUME Sound', NEW e \in DOMAIN queue' PROVE Served(e)'
  BY <1>4, ServedIs DEF ServedThen
<1> QED BY <1>3, <1>4 DEF TimeInv

(* ... and for one that leaves the queue alone.                            *)
LEMMA SteadyInTime ==
  ASSUME WakeInv, DelayInv, TimeInv, Sound, UNCHANGED <<queue, dly, main>>,
         Bounds', OthersCounted',
         Sound' => \A e \in DOMAIN queue :
                     /\ Given(e, timer, pending, late, others, queue[e], Rounds(e))
                     /\ ServedSoFar(e, queue[e], Rounds(e))
                     => ServedAt(e, cb'.pc, timer', pending', late', others', queue[e], Rounds(e))
  PROVE  TimeInv'
<1>1. Arming'
  BY DEF TimeInv, Arming
<1>2. ASSUME Sound', NEW e \in DOMAIN queue' PROVE Served(e)'
  <2>1. e \in DOMAIN queue /\ queue'[e] = queue[e] /\ Rounds(e)' = Rounds(e)
    BY <1>2, BeforeIs DEF BeforeIn
  <2>2. CASE Entering(e)
    BY <2>2, ServedIs DEF Entering
  <2>3. CASE ServedAt(e, cb.pc, timer, pending, late, others, queue[e], Rounds(e))
    <3>1. Given(e, timer, pending, late, others, queue[e], Rounds(e))
      BY <2>1, GivenNow DEF TimeInv
    <3>2. ServedAt(e, cb'.pc, timer', pending', late', others', queue[e], Rounds(e))
      BY <1>2, <2>1, <2>3, <3>1 DEF ServedSoFar
    <3> QED BY <2>1, <3>2, ServedIs
  <2> QED BY <2>1, <2>2, <2>3, ServedNow
<1> QED BY <1>1, <1>2 DEF TimeInv

LEMMA CountedScheduled ==
  ASSUME WakeInv, TimeInv, others' = others,
         NEW y, y # Other, pending' = pending \/ pending' = Append(pending, y)
  PROVE  OthersCounted'
<1>1. CountedAt(pending, others) /\ pending \in Seq(Scheduled) /\ others \in Nat
  BY Numbers DEF TimeInv, OthersCounted, CountedAt, WakeInv, WakeTypes, Scheduled, Bounds
<1>2. CountedAt(Append(pending, y), others)
  BY <1>1, CountedMore
<1>3. CountedAt(pending', others')
  BY <1>1, <1>2
<1> QED BY <1>3 DEF OthersCounted, CountedAt

(* _set_timer, when it does not fail.                                      *)
SetFor(e) == \/ timer' \in Nat \ {0} /\ timer' <= queue'[e]
             \/ timer' = timer /\ pending' = Append(pending, Run) /\ Len(pending) < Depth

LEMMA SetTimerSets ==
  ASSUME Ample, InRange(queue'), SetTimer, Bounds
  PROVE  /\ timer' <= 5 * Delay
         /\ pending' = pending \/ pending' = Append(pending, Run)
         /\ ~raised' /\ ~raised => \A e \in DOMAIN queue' : SetFor(e)
<1>1. CASE DOMAIN queue' = {}
  BY <1>1, Numbers DEF SetTimer, Disarm
<1>2. CASE DOMAIN queue' # {}
  <2>1. PICK r \in Roots(queue') : Arm(queue'[r])
    BY <1>2 DEF SetTimer
  <2>2. PICK q : q = queue'
    OBVIOUS
  <2>3. InRange(q) /\ r \in Roots(q)
    BY <2>2
  <2>4. r \in DOMAIN q /\ \A e \in DOMAIN q : q[r] <= q[e]
    BY <2>3, RootIsFirst
  <2>5. PICK n \in Int : n = q[r] /\ n <= 5 * Delay /\ \A e \in DOMAIN q : n <= q[e]
    BY <2>3, <2>4 DEF InRange
  <2>6. Arm(n)
    BY <2>1, <2>2, <2>5
  <2>7. CASE n > 0
    BY <2>2, <2>5, <2>6, <2>7 DEF Arm, SetFor
  <2>8. CASE ~(n > 0) /\ CanSchedule
    <3>1. timer' = timer /\ pending' = Append(pending, Run) /\ Len(pending) < Depth
      BY <2>6, <2>8 DEF Arm, CanSchedule
    <3> QED BY <3>1 DEF SetFor, Bounds
  <2>9. CASE ~(n > 0) /\ ~CanSchedule
    BY <2>6, <2>9 DEF Arm, Bounds
  <2> QED BY <2>7, <2>8, <2>9
<1> QED BY <1>1, <1>2

-----------------------------------------------------------------------------
(* The steps that leave the queue alone.                                   *)

LEMMA DoIrqInTime ==
  ASSUME WakeInv, DelayInv, TimeInv, Sound, NEW p \in Pins, do_irq(p)
  PROVE  TimeInv'
<1>1. UNCHANGED <<queue, dly, main, timer, late, others, cb>>
  BY DEF do_irq
<1>2. pending' = pending \/ pending' = Append(pending, Irq(p))
  BY DEF do_irq
<1>3. Bounds'
  BY <1>1 DEF TimeInv, Bounds
<1>4. OthersCounted'
  BY <1>1, <1>2, Names, CountedScheduled
<1>5. ASSUME NEW e \in DOMAIN queue,
             Given(e, timer, pending, late, others, queue[e], Rounds(e)),
             ServedSoFar(e, queue[e], Rounds(e))
      PROVE  ServedAt(e, cb'.pc, timer', pending', late', others', queue[e], Rounds(e))
  <2>1. CASE pending' = pending
    BY <1>1, <1>5, <2>1 DEF ServedSoFar
  <2>2. CASE pending' = Append(pending, Irq(p))
    <3>1. Irq(p) \in Scheduled /\ Irq(p) \notin {Run, Other}
      BY Names DEF Scheduled
    <3>2. ServedAt(e, cb.pc, timer, pending, late, others, queue[e], Rounds(e))
      BY <1>5 DEF ServedSoFar
    <3>3. ServedAt(e, cb.pc, timer, pending', late, others, queue[e], Rounds(e))
      BY <1>5, <2>2, <3>1, <3>2, MoreScheduled
    <3> QED BY <1>1, <3>3
  <2> QED BY <1>2, <2>1, <2>2
<1> QED BY <1>1, <1>3, <1>4, <1>5, SteadyInTime

LEMMA OthersInTime ==
  ASSUME WakeInv, DelayInv, TimeInv, Sound, Others
  PROVE  TimeInv'
<1>1. /\ UNCHANGED <<queue, dly, main, timer, late, cb>>
      /\ others < MaxOther /\ others' = others + 1 /\ pending' = Append(pending, Other)
  BY DEF Others, Schedule, pinVars
<1>2. others \in 0 .. MaxOther /\ others \in Nat /\ others' \in Nat
  BY <1>1 DEF TimeInv, Bounds
<1>3. Bounds'
  BY <1>1, <1>2, Numbers DEF TimeInv, Bounds
<1>4. OthersCounted'
  <2>1. CountedAt(pending, others) /\ pending \in Seq(Scheduled)
    BY DEF TimeInv, OthersCounted, CountedAt, WakeInv, WakeTypes, Scheduled
  <2>2. CountedAt(Append(pending, Other), others')
    BY <1>1, <1>2, <2>1, CountedMore
  <2> QED BY <1>1, <2>2 DEF OthersCounted, CountedAt
<1>5. ASSUME NEW e \in DOMAIN queue,
             Given(e, timer, pending, late, others, queue[e], Rounds(e)),
             ServedSoFar(e, queue[e], Rounds(e))
      PROVE  ServedAt(e, cb'.pc, timer', pending', late', others', queue[e], Rounds(e))
  <2>1. Other \in Scheduled
    BY DEF Scheduled
  <2>2. ServedAt(e, cb.pc, timer, pending, late, others, queue[e], Rounds(e))
    BY <1>5 DEF ServedSoFar
  <2>3. ServedAt(e, cb.pc, timer, pending', late, others', queue[e], Rounds(e))
    BY <1>1, <1>5, <2>1, <2>2, MoreScheduled
  <2> QED BY <1>1, <2>3
<1> QED BY <1>1, <1>3, <1>4, <1>5, SteadyInTime

LEMMA InterruptInTime ==
  ASSUME WakeInv, DelayInv, TimeInv, Sound, Interrupt
  PROVE  TimeInv'
<1>1. /\ UNCHANGED <<queue, dly, main, late, others, cb>> /\ timer = 0
      /\ \/ CanSchedule /\ timer' = Off /\ pending' = Append(pending, Run)
         \/ ~CanSchedule /\ timer' = 1 /\ pending' = pending
  BY DEF Interrupt, sched_run, pinVars
<1>2. Bounds'
  BY <1>1, Numbers DEF TimeInv, Bounds
<1>3. OthersCounted'
  BY <1>1, Names, CountedScheduled
<1>4. CountedAt(pending, others) /\ cb.pc \in {"idle", "irq", "loop", "scan", "scanirq", "set"}
  BY DEF TimeInv, Bounds, OthersCounted, CountedAt
<1>5. ASSUME NEW e \in DOMAIN queue,
             Given(e, timer, pending, late, others, queue[e], Rounds(e)),
             ServedSoFar(e, queue[e], Rounds(e))
      PROVE  ServedAt(e, cb'.pc, timer', pending', late', others', queue[e], Rounds(e))
  <2>1. /\ Given(e, 0, pending, late, others, queue[e], Rounds(e))
        /\ ServedAt(e, cb.pc, 0, pending, late, others, queue[e], Rounds(e))
    BY <1>1, <1>5 DEF ServedSoFar
  <2>2. CASE CanSchedule /\ timer' = Off /\ pending' = Append(pending, Run)
    <3>1. ServedAt(e, cb.pc, timer', pending', late, others, queue[e], Rounds(e))
      BY <1>4, <2>1, <2>2, RunScheduled DEF CanSchedule
    <3> QED BY <1>1, <3>1
  <2>3. CASE ~CanSchedule /\ timer' = 1 /\ pending' = pending
    <3>1. ServedAt(e, cb.pc, 1, pending, late, others, queue[e], Rounds(e))
      BY <1>4, <2>1, <2>3, QueueFull DEF CanSchedule
    <3> QED BY <1>1, <2>3, <3>1
  <2> QED BY <1>1, <2>2, <2>3
<1> QED BY <1>1, <1>2, <1>3, <1>5, SteadyInTime

LEMMA DispatchInTime ==
  ASSUME WakeInv, DelayInv, TimeInv, Sound, Dispatch
  PROVE  TimeInv'
<1>1. /\ UNCHANGED <<queue, dly, main, timer, others>> /\ cb = Idle /\ pending # <<>>
      /\ pending' = Tail(pending) /\ late' = 0
  BY DEF Dispatch
<1>2. /\ cb.pc = "idle"
      /\ cb'.pc = IF Head(pending) = Other THEN "idle"
                  ELSE IF Head(pending) = Run THEN "loop" ELSE "irq"
      /\ cb'.pc = "idle" => cb' = Idle
  <2>1. cb.pc = "idle"
    BY <1>1 DEF Idle
  <2>2. CASE Head(pending) = Other
    BY <1>1, <2>1, <2>2, Names DEF Dispatch
  <2>3. CASE Head(pending) = Run
    BY <2>1, <2>3, Names DEF Dispatch
  <2>4. ASSUME NEW p \in Pins, Head(pending) = Irq(p), cb' = At("irq", p)
        PROVE  Head(pending) # Other /\ Head(pending) # Run /\ cb'.pc = "irq"
    BY <2>4, Names DEF At
  <2> QED BY <2>1, <2>2, <2>3, <2>4 DEF Dispatch
<1>3. Bounds'
  BY <1>1, <1>2, Numbers DEF TimeInv, Bounds
<1>4. OthersCounted'
  <2>1. CountedAt(pending, others) /\ pending \in Seq(Scheduled) /\ others \in Nat
    BY DEF TimeInv, Bounds, OthersCounted, CountedAt, WakeInv, WakeTypes, Scheduled
  <2>2. CountedAt(Tail(pending), others)
    BY <1>1, <2>1, CountedTail
  <2> QED BY <1>1, <2>2 DEF OthersCounted, CountedAt
<1>5. ASSUME NEW e \in DOMAIN queue,
             Given(e, timer, pending, late, others, queue[e], Rounds(e)),
             ServedSoFar(e, queue[e], Rounds(e))
      PROVE  ServedAt(e, cb'.pc, timer', pending', late', others', queue[e], Rounds(e))
  <2>1. ServedAt(e, "idle", timer, pending, late, others, queue[e], Rounds(e))
    BY <1>2, <1>5 DEF ServedSoFar
  <2>2. ServedAt(e, cb'.pc, timer, pending', 0, others, queue[e], Rounds(e))
    BY <1>1, <1>2, <1>5, <2>1, DispatchServed
  <2> QED BY <1>1, <2>2
<1> QED BY <1>1, <1>3, <1>4, <1>5, SteadyInTime

LEMMA LeaveInTime ==
  ASSUME Ample, WakeInv, DelayInv, TimeInv, Sound, Leave
  PROVE  TimeInv'
<1>1. /\ UNCHANGED <<queue, dly, main, timer, pending, late, others>>
      /\ cb'.pc = "set" /\ Due = {}
  BY DEF Leave, pinVars
<1>2. Bounds'
  BY <1>1 DEF TimeInv, Bounds
<1>3. OthersCounted'
  BY <1>1 DEF TimeInv, OthersCounted
<1>4. \A e \in DOMAIN queue : queue[e] > 0
  <2>1. InRange(queue)
    BY TimesInRange
  <2>2. Roots(queue) # {} \/ DOMAIN queue = {}
    BY DEF Roots
  <2>3. \A d \in Roots(queue) : queue[d] > 0
    BY <1>1, <2>1, RootIsFirst DEF Due, InRange
  <2>4. ASSUME NEW e \in DOMAIN queue, NEW d \in Roots(queue)
        PROVE  queue[e] > 0
    <3>1. d \in DOMAIN queue /\ queue[d] <= queue[e]
      BY <2>1, RootIsFirst
    <3>2. queue[d] \in Int /\ queue[e] \in Int
      BY <2>1, <3>1 DEF InRange
    <3> QED BY <2>3, <3>1, <3>2
  <2> QED BY <2>2, <2>4
<1>5. ASSUME NEW e \in DOMAIN queue,
             Given(e, timer, pending, late, others, queue[e], Rounds(e)),
             ServedSoFar(e, queue[e], Rounds(e))
      PROVE  ServedAt(e, cb'.pc, timer', pending', late', others', queue[e], Rounds(e))
  <2>1. e \in PinEvents /\ queue[e] \in Int
    BY <1>5 DEF Given
  <2>2. -Slack(e) <= queue[e]
    BY <1>4, <2>1, EventNumbers
  <2>3. ServedAt(e, "set", timer, pending, late, others, queue[e], Rounds(e))
    BY <1>5, <2>2, SlackServed
  <2> QED BY <1>1, <2>3
<1> QED BY <1>1, <1>2, <1>3, <1>5, SteadyInTime

LEMMA FinallyInTime ==
  ASSUME Ample, WakeInv, DelayInv, TimeInv, Sound, Finally
  PROVE  TimeInv'
<1>1. /\ UNCHANGED <<queue, dly, main, late, others>>
      /\ cb.pc = "set" /\ cb' = Idle /\ cb'.pc = "idle" /\ SetTimer
  BY DEF Finally, pinVars, Idle
<1>2. InRange(queue')
  BY <1>1, TimesInRange
<1>3. /\ timer' <= 5 * Delay
      /\ pending' = pending \/ pending' = Append(pending, Run)
      /\ ~raised' /\ ~raised => \A e \in DOMAIN queue' : SetFor(e)
  BY <1>1, <1>2, SetTimerSets DEF TimeInv
<1>4. Bounds'
  BY <1>1, <1>3 DEF TimeInv, Bounds
<1>5. OthersCounted'
  BY <1>1, <1>3, Names, CountedScheduled
<1>6. ASSUME Sound', NEW e \in DOMAIN queue,
             Given(e, timer, pending, late, others, queue[e], Rounds(e)),
             ServedSoFar(e, queue[e], Rounds(e))
      PROVE  ServedAt(e, cb'.pc, timer', pending', late', others', queue[e], Rounds(e))
  <2>1. ServedAt(e, "set", timer, pending, late, others, queue[e], Rounds(e))
    BY <1>1, <1>6 DEF ServedSoFar
  <2>2. \/ timer' \in Nat \ {0} /\ timer' <= queue[e]
        \/ timer' = timer /\ pending' = Append(pending, Run) /\ Len(pending) < Depth
    BY <1>1, <1>3, <1>6 DEF SetFor, Sound
  <2>3. ServedAt(e, "idle", timer', pending', late, others, queue[e], Rounds(e))
    BY <1>6, <2>1, <2>2, TimerSet
  <2> QED BY <1>1, <2>3
<1> QED BY <1>1, <1>4, <1>5, <1>6, SteadyInTime

-----------------------------------------------------------------------------
(* The steps of callbacks that change the queue.                           *)

LEMMA EnterKeeps ==
  ASSUME Ample, NEW f, DOMAIN f \subseteq DOMAIN queue, \A x \in DOMAIN f : f[x] = queue[x],
         NEW e \in PinEvents, NEW d, d = IF e \in Scans THEN 5 * Delay ELSE Delay,
         Enter(f, e, d)
  PROVE  /\ EventsKept
         /\ \A x \in DOMAIN queue' : x # e => x \in DOMAIN queue /\ queue'[x] = queue[x]
         /\ \/ running /\ UNCHANGED <<timer, pending, raised>>
            \/ ~running /\ SetTimer
<1>1. 2 * (MaxWait(e) + 5 * Delay + 1) < Period
  BY DEF Ample
<1>2. d \in Int /\ -Period < 2 * d /\ 2 * d < Period
  BY <1>1, EventNumbers, Numbers
<1>3. ticks_diff(d) = d
  BY <1>2, TicksAre
<1>4. queue' = [x \in DOMAIN f \cup {e} |-> IF x = e THEN d ELSE f[x]]
  BY <1>3 DEF Enter, With
<1>5. \A x \in DOMAIN queue' : x # e => x \in DOMAIN queue /\ queue'[x] = queue[x]
  BY <1>4
<1>6. queue'[e] = d
  BY <1>4
<1>7. EventsKept
  BY <1>5, <1>6 DEF EventsKept
<1> QED BY <1>5, <1>7 DEF Enter

LEMMA WithoutSame ==
  ASSUME NEW k
  PROVE  /\ DOMAIN Without(queue, k) = DOMAIN queue \ {k}
         /\ \A x \in DOMAIN Without(queue, k) : Without(queue, k)[x] = queue[x]
BY DEF Without, Restrict

LEMMA RestartKeeps ==
  ASSUME Ample, DelayInv, Sound, NEW p \in Pins, Restart(p), main' = main
  PROVE  /\ EventsKept /\ ScanStays
         /\ \/ running /\ UNCHANGED <<timer, pending, raised>>
            \/ ~running /\ SetTimer
<1>1. PICK k \in 1 .. MaxDly : k = NewDly(p)
  BY NewDlyIs DEF DelayInv, Delays, Sound
<1>2. \E f : /\ DOMAIN f \subseteq DOMAIN queue
             /\ \A x \in DOMAIN f : f[x] = queue[x]
             /\ Enter(f, Dly(p, k), Delay)
  <2>1. CASE dly[p] = None
    BY <1>1, <2>1 DEF Restart, Start
  <2>2. CASE dly[p] # None
    <3>1. PICK e \in Equal(Dly(p, dly[p])) : Start(p, Without(queue, e))
      BY <2>2 DEF Restart
    <3>2. PICK f : f = Without(queue, e)
      OBVIOUS
    <3>3. Enter(f, Dly(p, k), Delay)
      BY <1>1, <3>1, <3>2 DEF Start
    <3>4. DOMAIN f \subseteq DOMAIN queue /\ \A x \in DOMAIN f : f[x] = queue[x]
      BY <3>2, WithoutSame
    <3> QED BY <3>3, <3>4
  <2> QED BY <2>1, <2>2
<1>3. PICK f : /\ DOMAIN f \subseteq DOMAIN queue
               /\ \A x \in DOMAIN f : f[x] = queue[x]
               /\ Enter(f, Dly(p, k), Delay)
  BY <1>2
<1>4. Dly(p, k) \in PinEvents /\ Dly(p, k) \notin Scans
  BY DlyNames, ScanNames
<1>5. /\ EventsKept
      /\ \A x \in DOMAIN queue' : x # Dly(p, k) => x \in DOMAIN queue /\ queue'[x] = queue[x]
      /\ \/ running /\ UNCHANGED <<timer, pending, raised>>
         \/ ~running /\ SetTimer
  BY <1>3, <1>4, EnterKeeps
<1>6. ScanStays
  BY <1>5, ScanIsNoDly DEF ScanStays
<1> QED BY <1>5, <1>6

LEMMA IrqInTime ==
  ASSUME Ample, WakeInv, DelayInv, TimeInv, Sound, WakeInv', DelayInv', NEW p \in Pins, irq(p)
  PROVE  TimeInv'
<1>1. /\ UNCHANGED <<main, late, others>> /\ Restart(p)
      /\ cb.pc = "irq" /\ cb' = Idle /\ cb'.pc = "idle"
  BY DEF irq, At, Idle
<1>2. ~running
  BY <1>1 DEF WakeInv, WakeTypes
<1>3. EventsKept /\ ScanStays /\ SetTimer
  BY <1>1, <1>2, RestartKeeps
<1>4. InRange(queue')
  BY <1>3, TimesInRange, EventsInRange
<1>5. /\ timer' <= 5 * Delay
      /\ pending' = pending \/ pending' = Append(pending, Run)
      /\ ~raised' /\ ~raised => \A e \in DOMAIN queue' : SetFor(e)
  BY <1>3, <1>4, SetTimerSets DEF TimeInv
<1>6. Bounds'
  <2>1. \A e \in DOMAIN queue' : queue'[e] <= 5 * Delay
    BY <1>3, EventsBounded DEF TimeInv
  <2> QED BY <1>1, <1>5, <2>1 DEF TimeInv, Bounds
<1>7. OthersCounted'
  BY <1>1, <1>5, Names, CountedScheduled
<1>8. ASSUME Sound', NEW e \in DOMAIN queue'
      PROVE  ServedThen(e)
  <2>1. /\ Given(e, timer, pending, late, others, queue'[e], Rounds(e)')
        /\ \/ ServedAt(e, "irq", timer, pending, late, others, queue'[e], Rounds(e)')
           \/ -Slack(e) <= queue'[e]
    BY <1>1, <1>3, <1>6, <1>8, ServedStill DEF ServedSoFar
  <2>2. \/ timer' \in Nat \ {0} /\ timer' <= queue'[e]
        \/ timer' = timer /\ pending' = Append(pending, Run) /\ Len(pending) < Depth
    BY <1>5, <1>8 DEF SetFor, Sound
  <2>3. ServedAt(e, "idle", timer', pending', late, others, queue'[e], Rounds(e)')
    BY <2>1, <2>2, TimerSet
  <2> QED BY <1>1, <2>3 DEF ServedThen
<1> QED BY <1>1, <1>3, <1>6, <1>7, <1>8, CallbackInTime

(* A step of _run's loop, after which the loop goes on.                    *)
LEMMA LoopInTime ==
  ASSUME WakeInv, DelayInv, TimeInv, Sound, WakeInv', DelayInv', EventsKept, ScanStays,
         UNCHANGED <<timer, pending, late, others, main>>,
         cb.pc \in {"loop", "scan", "scanirq"}, cb'.pc \in {"loop", "scan", "scanirq"}
  PROVE  TimeInv'
<1>1. Bounds'
  <2>1. \A e \in DOMAIN queue' : queue'[e] <= 5 * Delay
    BY EventsBounded DEF TimeInv
  <2> QED BY <2>1 DEF TimeInv, Bounds
<1>2. OthersCounted'
  BY DEF TimeInv, OthersCounted
<1>3. ASSUME Sound', NEW e \in DOMAIN queue'
      PROVE  ServedThen(e)
  <2>1. /\ Given(e, timer, pending, late, others, queue'[e], Rounds(e)')
        /\ \/ ServedAt(e, cb.pc, timer, pending, late, others, queue'[e], Rounds(e)')
           \/ -Slack(e) <= queue'[e]
    BY <1>1, <1>3, ServedStill DEF ServedSoFar
  <2>2. ServedAt(e, cb'.pc, timer, pending, late, others, queue'[e], Rounds(e)')
    BY <2>1, RunGoesOn
  <2> QED BY <2>2 DEF ServedThen
<1> QED BY <1>1, <1>2, <1>3, CallbackInTime

LEMMA ScanInTime ==
  ASSUME WakeInv, DelayInv, TimeInv, Sound, WakeInv', DelayInv', NEW p \in Pins, Scan(p)
  PROVE  TimeInv'
<1>1. /\ UNCHANGED <<timer, pending, late, others, main>> /\ cb.pc = "loop"
      /\ cb'.pc \in {"loop", "scan", "scanirq"} /\ queue' = Without(queue, scan(p))
  BY DEF Scan, At
<1>2. \A e \in DOMAIN queue' : e \in DOMAIN queue /\ queue'[e] = queue[e]
  BY <1>1, WithoutSame
<1>3. EventsKept /\ ScanStays
  BY <1>2 DEF EventsKept, ScanStays
<1> QED BY <1>1, <1>3, LoopInTime

LEMMA ScanIrqInTime ==
  ASSUME Ample, WakeInv, DelayInv, TimeInv, Sound, WakeInv', DelayInv', NEW p \in Pins,
         ScanIrq(p)
  PROVE  TimeInv'
<1>1. /\ UNCHANGED <<late, others, main>> /\ cb.pc = "scanirq" /\ cb'.pc = "scan" /\ Restart(p)
  BY DEF ScanIrq, At
<1>2. running
  BY <1>1 DEF WakeInv, WakeTypes
<1>3. EventsKept /\ ScanStays /\ UNCHANGED <<timer, pending>>
  BY <1>1, <1>2, RestartKeeps
<1> QED BY <1>1, <1>3, LoopInTime

LEMMA RescanInTime ==
  ASSUME Ample, WakeInv, DelayInv, TimeInv, Sound, WakeInv', DelayInv', NEW p \in Pins,
         Rescan(p)
  PROVE  TimeInv'
<1>1. /\ UNCHANGED <<late, others, main>> /\ cb.pc = "scan"
  BY DEF Rescan, At
<1>2. running
  BY <1>1 DEF WakeInv, WakeTypes
<1>3. CASE made[p] = "yes"
  <2>1. Enter(queue, scan(p), 5 * Delay) /\ cb'.pc = "loop"
    BY <1>3 DEF Rescan
  <2>2. scan(p) \in PinEvents /\ scan(p) \in Scans
    BY DlyNames, ScanNames
  <2>3. /\ EventsKept /\ UNCHANGED <<timer, pending>>
        /\ \A x \in DOMAIN queue' : x # scan(p) => x \in DOMAIN queue /\ queue'[x] = queue[x]
    BY <1>2, <2>1, <2>2, EnterKeeps
  <2>4. main # Idle => scan(main.p) # scan(p)
    <3>1. main # Idle => main.p # p
      BY <1>3 DEF WakeInv, Creating
    <3> QED BY <3>1 DEF scan
  <2>5. ScanStays
    BY <2>3, <2>4 DEF ScanStays
  <2> QED BY <1>1, <2>1, <2>3, <2>5, LoopInTime
<1>4. CASE made[p] # "yes"
  <2>1. /\ UNCHANGED <<queue, pending, timer>> /\ cb'.pc = "set" /\ raised'
    BY <1>4 DEF Rescan
  <2>2. EventsKept /\ ScanStays
    BY <2>1 DEF EventsKept, ScanStays
  <2>3. Bounds' /\ OthersCounted'
    BY <1>1, <2>1 DEF TimeInv, Bounds, OthersCounted
  <2> QED BY <1>1, <2>1, <2>2, <2>3, CallbackInTime DEF Sound
<1> QED BY <1>3, <1>4

LEMMA StillLowInTime ==
  ASSUME Ample, WakeInv, DelayInv, TimeInv, Sound, WakeInv', DelayInv', NEW p \in Pins,
         StillLow(p)
  PROVE  TimeInv'
<1>1. /\ UNCHANGED <<late, others, main, cb>> /\ cb.pc = "loop"
  BY DEF StillLow
<1>2. running
  BY <1>1 DEF WakeInv, WakeTypes
<1>3. PICK k \in 1 .. MaxDly :
        Dly(p, k) \in Due /\ Enter(Without(queue, Dly(p, k)), Dly(p, dly[p]), Delay)
  BY DEF StillLow
<1>4. dly[p] = k
  BY <1>3 DEF Due, Roots, DelayInv, Delays, Runs, Sound
<1>5. PICK f : f = Without(queue, Dly(p, k))
  OBVIOUS
<1>6. DOMAIN f \subseteq DOMAIN queue /\ \A x \in DOMAIN f : f[x] = queue[x]
  BY <1>5, WithoutSame
<1>7. /\ Dly(p, k) \in PinEvents /\ Dly(p, k) \notin Scans
      /\ Enter(f, Dly(p, k), Delay)
  BY <1>3, <1>4, <1>5, DlyNames, ScanNames
<1>8. /\ EventsKept /\ UNCHANGED <<timer, pending>>
      /\ \A x \in DOMAIN queue' : x # Dly(p, k) => x \in DOMAIN queue /\ queue'[x] = queue[x]
  BY <1>2, <1>6, <1>7, EnterKeeps
<1>9. ScanStays
  BY <1>8, ScanIsNoDly DEF ScanStays
<1> QED BY <1>1, <1>8, <1>9, LoopInTime

(* The event that _run takes off the heap was before all that are late.    *)
LEMMA TakenWasBefore ==
  ASSUME Ample, WakeInv, DelayInv, TimeInv, Sound, DelayInv', Sound', EventsKept,
         NEW p \in Pins, NEW k \in 1 .. MaxDly, Dly(p, k) \in Roots(queue),
         queue' = Without(queue, Dly(p, k)), dly' = [dly EXCEPT ![p] = None],
         NEW e \in DOMAIN queue', queue[e] < 0
  PROVE  Rounds(e)' \in Nat /\ Rounds(e)' + Round <= Rounds(e)
<1>1. InRange(queue)
  BY TimesInRange
<1>2. e \in DOMAIN queue /\ queue'[e] = queue[e] /\ e # Dly(p, k) /\ queue[e] \in Int
  BY <1>1, WithoutSame DEF InRange
<1>3. Dly(p, k) \in DOMAIN queue /\ queue[Dly(p, k)] <= queue[e]
  BY <1>1, <1>2, RootIsFirst
<1>4. dly[p] = k /\ dly'[p] = None
  BY <1>3 DEF DelayInv, Delays, Runs, Sound
<1>5. p \in Before(e)
  BY <1>2, <1>3, <1>4 DEF Before, Own, None
<1>6. p \notin Before(e)'
  BY <1>4 DEF Before
<1>7. Before(e)' \subseteq Before(e)
  BY <1>2, FewerPins
<1>8. /\ IsFiniteSet(Before(e)) /\ Cardinality(Before(e)) \in Nat
      /\ IsFiniteSet(Before(e)') /\ Cardinality(Before(e)') \in Nat
  BY BeforeIs, BeforeFinite
<1>9. PICK m \in Nat, n \in Nat : m = Cardinality(Before(e)') /\ n = Cardinality(Before(e))
  BY <1>8
<1>10. m + 1 <= n
  <2>1. Before(e)' # Before(e)
    BY <1>5, <1>6
  <2>2. Cardinality(Before(e)') < Cardinality(Before(e))
    BY <1>7, <1>8, <2>1, FS_Subset
  <2> QED BY <1>9, <2>2
<1>11. Round \in Nat /\ Rounds(e) = n * Round /\ Rounds(e)' = m * Round
  BY <1>9, BeforeIs, Numbers
<1>12. PICK r \in Nat : r = Round
  BY <1>11
<1>13. m * r \in Nat /\ m * r + r <= n * r
  BY <1>10, <1>12
<1> QED BY <1>11, <1>12, <1>13

LEMMA TimerInTime ==
  ASSUME Ample, WakeInv, DelayInv, TimeInv, Sound, WakeInv', DelayInv', NEW p \in Pins,
         timer_(p)
  PROVE  TimeInv'
<1>1. /\ UNCHANGED <<timer, pending, late, others, main>> /\ cb.pc = "loop"
      /\ cb'.pc \in {"loop", "set"} /\ dly' = [dly EXCEPT ![p] = None]
  BY DEF timer_
<1>2. PICK k \in 1 .. MaxDly :
        Dly(p, k) \in Due /\ queue' = Without(queue, Dly(p, k))
  BY DEF timer_
<1>3. \A e \in DOMAIN queue' : e \in DOMAIN queue /\ queue'[e] = queue[e]
  BY <1>2, WithoutSame
<1>4. EventsKept /\ ScanStays
  BY <1>3 DEF EventsKept, ScanStays
<1>5. CASE cb'.pc = "loop"
  BY <1>1, <1>4, <1>5, LoopInTime
<1>6. CASE cb'.pc = "set"
  <2>1. Bounds'
    <3>1. \A e \in DOMAIN queue' : queue'[e] <= 5 * Delay
      BY <1>4, EventsBounded DEF TimeInv
    <3> QED BY <1>1, <1>6, <3>1 DEF TimeInv, Bounds
  <2>2. OthersCounted'
    BY <1>1 DEF TimeInv, OthersCounted
  <2>3. ASSUME Sound', NEW e \in DOMAIN queue'
        PROVE  ServedThen(e)
    <3>1. e \in DOMAIN queue /\ queue'[e] = queue[e]
      BY <1>3
    <3>2. Given(e, timer, pending, late, others, queue'[e], Rounds(e)')
      BY <1>4, <2>1, <2>3, ServedStill
    <3>3. e \in PinEvents /\ queue[e] \in Int
      BY <3>1, <3>2 DEF Given
    <3>4. CASE -Slack(e) <= queue[e]
      <4>1. ServedAt(e, "set", timer, pending, late, others, queue'[e], Rounds(e)')
        BY <3>1, <3>2, <3>4, SlackServed
      <4> QED BY <1>1, <1>6, <4>1 DEF ServedThen
    <3>5. CASE ~(-Slack(e) <= queue[e])
      <4>1. queue[e] < 0
        BY <3>3, <3>5, EventNumbers
      <4>2. Dly(p, k) \in Roots(queue)
        BY <1>2 DEF Due
      <4>3. Rounds(e)' \in Nat /\ Rounds(e)' + Round <= Rounds(e)
        BY <1>1, <1>2, <1>4, <2>3, <4>1, <4>2, TakenWasBefore
      <4>4. ServedAt(e, "loop", timer, pending, late, others, queue[e], Rounds(e))
        BY <1>1, <3>1, <3>5, ServedNow
      <4>5. Given(e, timer, pending, late, others, queue[e], Rounds(e))
        BY <3>1, GivenNow DEF TimeInv
      <4>6. ServedAt(e, "set", timer, pending, late, others, queue[e], Rounds(e)')
        BY <4>3, <4>4, <4>5, RunEnds
      <4> QED BY <1>1, <1>6, <3>1, <4>6 DEF ServedThen
    <3> QED BY <3>4, <3>5
  <2> QED BY <1>1, <1>4, <2>1, <2>2, <2>3, CallbackInTime
<1> QED BY <1>1, <1>5, <1>6

-----------------------------------------------------------------------------
(* The steps of time and of the main program.                              *)

LEMMA MainIs ==
  ASSUME WakeInv, main # Idle
  PROVE  /\ main \in [pc : {"push", "compute", "deinit", "arm"}, p : Pins, age : Nat, n : Int]
         /\ main.pc # "deinit"
BY DEF WakeInv, WakeTypes, Creating

LEMMA TimeInTime ==
  ASSUME Ample, WakeInv, DelayInv, TimeInv, Sound, WakeInv', DelayInv', Time
  PROVE  TimeInv'
<1>1. /\ timer # 0 /\ UNCHANGED <<pending, others, dly, cb, wrong, raised>>
      /\ queue' = [e \in DOMAIN queue |-> ticks_diff(queue[e] - 1)]
      /\ timer' = IF timer = Off THEN Off ELSE timer - 1
      /\ Busy => late < MaxLate
      /\ late' = IF Busy THEN late + 1 ELSE 0
      /\ main # Idle => main.age < MaxLate
      /\ main' = IF main = Idle THEN Idle ELSE [main EXCEPT !.age = @ + 1]
  BY DEF Time, Tick, pinVars
<1>2. InRange(queue)
  BY TimesInRange
<1>3. ASSUME NEW e \in DOMAIN queue
      PROVE  e \in PinEvents /\ queue[e] \in Int /\ queue'[e] = queue[e] - 1
  <2>1. /\ e \in PinEvents /\ queue[e] \in Int
        /\ -MaxWait(e) <= queue[e] /\ queue[e] <= 5 * Delay
    BY <1>2 DEF InRange
  <2>2. 2 * (MaxWait(e) + 5 * Delay + 1) < Period
    BY <2>1 DEF Ample
  <2>3. MaxWait(e) \in Nat
    BY <2>1, EventNumbers
  <2>4. PICK d \in Int : d = queue[e] - 1
    BY <2>1
  <2>5. -Period < 2 * d /\ 2 * d < Period
    BY <2>1, <2>2, <2>3, <2>4, Numbers
  <2>6. ticks_diff(d) = d
    BY <2>4, <2>5, TicksAre
  <2> QED BY <1>1, <2>1, <2>4, <2>6
<1>4. DOMAIN queue' = DOMAIN queue
  BY <1>1
<1>5. late \in 0 .. MaxLate /\ timer \in Int /\ timer <= 5 * Delay
  BY Numbers DEF TimeInv, Bounds, WakeInv, WakeTypes
<1>6. Bounds'
  <2>1. late' \in 0 .. MaxLate
    BY <1>1, <1>5, Numbers
  <2>2. timer' <= 5 * Delay
    BY <1>1, <1>5, Numbers
  <2>3. \A e \in DOMAIN queue' : queue'[e] <= 5 * Delay
    BY <1>2, <1>3, <1>4, Numbers DEF InRange
  <2> QED BY <1>1, <2>1, <2>2, <2>3 DEF TimeInv, Bounds
<1>7. OthersCounted'
  BY <1>1 DEF TimeInv, OthersCounted
<1>8. Arming'
  <2>1. CASE main = Idle
    BY <1>1, <2>1 DEF Arming
  <2>2. CASE main # Idle
    <3>1. main \in [pc : {"push", "compute", "deinit", "arm"}, p : Pins, age : Nat, n : Int]
      BY <2>2, MainIs
    <3>2. /\ main'.p = main.p /\ main'.pc = main.pc /\ main'.n = main.n
          /\ main'.age = main.age + 1 /\ main.age \in Nat /\ main.n \in Int
      BY <1>1, <2>2, <3>1
    <3>3. main'.age <= MaxLate
      BY <1>1, <2>2, <3>2, Numbers
    <3>4. Arming
      BY DEF TimeInv
    <3>5. main.pc # "push" /\ scan(main.p) \in DOMAIN queue' => queue'[scan(main.p)] = 5 * Delay - main'.age
      BY <1>3, <1>4, <2>2, <3>2, <3>4, Numbers DEF Arming
    <3>6. ASSUME main.pc = "arm", NEW e \in DOMAIN queue'
          PROVE  main.n <= queue'[e] + Slack(e) - MaxLate + main'.age
      <4>1. main.n <= queue[e] + Slack(e) - MaxLate + main.age
        BY <1>4, <2>2, <3>4, <3>6 DEF Arming
      <4>2. e \in PinEvents /\ queue[e] \in Int /\ queue'[e] = queue[e] - 1
        BY <1>3, <1>4
      <4>3. Slack(e) \in Nat
        BY <4>2, EventNumbers
      <4> QED BY <3>2, <4>1, <4>2, <4>3, Numbers
    <3>7. main.pc = "arm" => main.n <= 5 * Delay
      BY <2>2, <3>4 DEF Arming
    <3> QED BY <3>2, <3>3, <3>5, <3>6, <3>7 DEF Arming
  <2> QED BY <2>1, <2>2
<1>9. ASSUME NEW e \in DOMAIN queue'
      PROVE  Served(e)'
  <2>1. e \in DOMAIN queue /\ e \in PinEvents /\ queue'[e] = queue[e] - 1
    BY <1>3, <1>4
  <2>2. CASE Entering(e)
    <3>1. main # Idle /\ main' # Idle /\ main'.p = main.p /\ main'.pc = main.pc
      <4>1. main # Idle
        BY <2>2 DEF Entering
      <4>2. main'.pc = main.pc /\ main'.p = main.p /\ main.pc # "idle"
        BY <1>1, <4>1, MainIs
      <4> QED BY <4>1, <4>2 DEF Idle
    <3> QED BY <2>2, <3>1 DEF Served, Entering
  <2>3. CASE ~Entering(e)
    <3>1. ServedAt(e, cb.pc, timer, pending, late, others, queue[e], Rounds(e))
      BY <2>1, <2>3, ServedIs DEF TimeInv
    <3>2. Given(e, timer, pending, late, others, queue[e], Rounds(e))
      BY <2>1, GivenNow DEF TimeInv
    <3>3. Busy <=> cb.pc # "idle" \/ pending # <<>>
      BY DEF Busy, TimeInv, Bounds, Idle
    <3>4. ServedAt(e, cb.pc, timer', pending, late', others, queue[e] - 1, Rounds(e))
      <4>1. IF cb.pc # "idle" \/ pending # <<>>
            THEN late < MaxLate /\ late' = late + 1 ELSE late' = 0
        BY <1>1, <3>3
      <4>2. timer # 0 /\ timer' = IF timer = Off THEN Off ELSE timer - 1
        BY <1>1
      <4> QED BY <3>1, <3>2, <4>1, <4>2, TickServed
    <3>5. Rounds(e)' = Rounds(e)
      <4>1. ASSUME NEW p \in Pins, dly[p] # None
            PROVE  queue'[Dly(p, dly[p])] <= queue'[e] <=> queue[Dly(p, dly[p])] <= queue[e]
        <5>1. dly[p] \in 1 .. MaxDly
          BY <4>1, UPinAssumption DEF DelayInv, Delays, None
        <5>2. Dly(p, dly[p]) \in DOMAIN queue
          BY <5>1 DEF DelayInv, Delays, Runs, Sound
        <5>3. PICK i \in Int, j \in Int : i = queue[Dly(p, dly[p])] /\ j = queue[e]
          BY <1>3, <2>1, <5>2
        <5>4. queue'[Dly(p, dly[p])] = i - 1 /\ queue'[e] = j - 1
          BY <1>3, <2>1, <5>2, <5>3
        <5> QED BY <5>3, <5>4
      <4>2. Before(e)' = Before(e)
        BY <1>1, <4>1, BeforeIs DEF BeforeIn
      <4> QED BY <4>2 DEF Rounds, Round
    <3> QED BY <1>1, <2>1, <3>4, <3>5, ServedIs
  <2> QED BY <2>2, <2>3
<1> QED BY <1>6, <1>7, <1>8, <1>9 DEF TimeInv

LEMMA CreateInTime ==
  ASSUME WakeInv, DelayInv, TimeInv, Sound, NEW p \in Pins, Create(p)
  PROVE  TimeInv'
<1>1. /\ main = Idle /\ UNCHANGED <<timer, queue, pending, late, others, dly, cb>>
      /\ main' = [pc |-> "push", p |-> p, age |-> 0, n |-> 0]
  BY DEF Create, schedVars
<1>2. Bounds' /\ OthersCounted'
  BY <1>1 DEF TimeInv, Bounds, OthersCounted
<1>3. Arming'
  BY <1>1, Numbers DEF Arming
<1>4. ASSUME NEW e \in DOMAIN queue'
      PROVE  Served(e)'
  <2>1. Rounds(e)' = Rounds(e)
    BY <1>1, BeforeIs
  <2>2. ServedAt(e, cb.pc, timer, pending, late, others, queue[e], Rounds(e))
    BY <1>1, <1>4, ServedNow DEF Entering
  <2> QED BY <1>1, <2>1, <2>2, ServedIs
<1> QED BY <1>2, <1>3, <1>4 DEF TimeInv

LEMMA PushInTime ==
  ASSUME Ample, WakeInv, DelayInv, TimeInv, Sound, Push
  PROVE  TimeInv'
<1>1. main.pc = "push" /\ UNCHANGED <<timer, pending, late, others, dly, cb>>
  BY DEF Push, pinVars
<1>2. main # Idle /\ main \in [pc : {"push", "compute", "deinit", "arm"}, p : Pins, age : Nat, n : Int]
  <2>1. main # Idle
    BY <1>1 DEF Idle
  <2> QED BY <2>1, MainIs
<1>3. PICK a \in 0 .. main.age :
        /\ queue' = With(queue, scan(main.p), ticks_diff(5 * Delay - a))
        /\ main' = [main EXCEPT !.pc = "compute", !.age = a]
  BY DEF Push
<1>4. a \in Nat /\ a <= MaxLate
  <2>1. main.age \in Nat /\ main.age <= MaxLate
    BY <1>2 DEF TimeInv, Arming
  <2> QED BY <2>1, Numbers
<1>5. main' # Idle /\ main'.pc = "compute" /\ main'.p = main.p /\ main'.age = a
  <2>1. main'.pc = "compute" /\ main'.p = main.p /\ main'.age = a
    BY <1>2, <1>3
  <2> QED BY <2>1 DEF Idle
<1>6. /\ queue'[scan(main.p)] = ticks_diff(5 * Delay - a)
      /\ \A x \in DOMAIN queue' :
           x # scan(main.p) => x \in DOMAIN queue /\ queue'[x] = queue[x]
      /\ \A x \in DOMAIN queue : x # scan(main.p) => queue'[x] = queue[x]
  BY <1>3 DEF With
<1>7. queue'[scan(main.p)] = 5 * Delay - a
  <2>1. scan(main.p) \in PinEvents
    BY <1>2, DlyNames
  <2>2. /\ 2 * (MaxWait(scan(main.p)) + 5 * Delay + 1) < Period
        /\ MaxWait(scan(main.p)) \in Nat
        /\ MaxLate <= Slack(scan(main.p)) /\ Slack(scan(main.p)) <= MaxWait(scan(main.p))
        /\ Slack(scan(main.p)) \in Nat
    BY <2>1, EventNumbers DEF Ample
  <2>3. PICK d \in Int : d = 5 * Delay - a
    <3>1. 5 * Delay - a \in Int
      BY <1>4, UPinAssumption
    <3> QED BY <3>1
  <2>4. -Period < 2 * d /\ 2 * d < Period
    BY <1>4, <2>2, <2>3, Numbers
  <2>5. ticks_diff(d) = d
    BY <2>4, TicksAre
  <2> QED BY <1>6, <2>3, <2>5
<1>8. Bounds'
  <2>1. ASSUME NEW e \in DOMAIN queue'
        PROVE  queue'[e] <= 5 * Delay
    <3>1. CASE e = scan(main.p)
      BY <1>4, <1>7, <3>1, Numbers
    <3>2. CASE e # scan(main.p)
      BY <1>6, <3>2 DEF TimeInv, Bounds
    <3> QED BY <3>1, <3>2
  <2> QED BY <1>1, <2>1 DEF TimeInv, Bounds
<1>9. OthersCounted'
  BY <1>1 DEF TimeInv, OthersCounted
<1>10. Arming'
  BY <1>4, <1>5, <1>7 DEF Arming
<1>11. ASSUME NEW e \in DOMAIN queue'
       PROVE  Served(e)'
  <2>1. CASE e = scan(main.p)
    BY <1>5, <2>1 DEF Served, Entering
  <2>2. CASE e # scan(main.p)
    <3>1. e \in DOMAIN queue /\ queue'[e] = queue[e]
      BY <1>6, <2>2
    <3>2. ServedAt(e, cb.pc, timer, pending, late, others, queue[e], Rounds(e))
      BY <1>1, <3>1, ServedNow DEF Entering
    <3>3. ASSUME NEW q \in Pins, dly[q] # None
          PROVE  queue'[Dly(q, dly[q])] <= queue'[e] <=> queue[Dly(q, dly[q])] <= queue[e]
      <4>1. dly[q] \in 1 .. MaxDly
        BY <3>3, UPinAssumption DEF DelayInv, Delays, None
      <4>2. Dly(q, dly[q]) \in DOMAIN queue
        BY <4>1 DEF DelayInv, Delays, Runs, Sound
      <4>3. queue'[Dly(q, dly[q])] = queue[Dly(q, dly[q])]
        BY <1>6, <4>2, ScanIsNoDly
      <4> QED BY <3>1, <4>3
    <3>4. Before(e)' = Before(e)
      BY <1>1, <3>3, BeforeIs DEF BeforeIn
    <3>5. Rounds(e)' = Rounds(e)
      BY <3>4 DEF Rounds, Round
    <3> QED BY <1>1, <3>1, <3>2, <3>5, ServedIs
  <2> QED BY <2>1, <2>2
<1> QED BY <1>8, <1>9, <1>10, <1>11 DEF TimeInv

LEMMA ComputeInTime ==
  ASSUME Ample, WakeInv, DelayInv, TimeInv, Sound, Compute
  PROVE  TimeInv'
<1>1. cb = Idle /\ main.pc = "compute" /\ UNCHANGED <<timer, queue, pending, late, others, dly, cb>>
  BY DEF Compute, schedVars, pinVars
<1>2. main # Idle /\ main \in [pc : {"push", "compute", "deinit", "arm"}, p : Pins, age : Nat, n : Int]
  <2>1. main # Idle
    BY <1>1 DEF Idle
  <2> QED BY <2>1, MainIs
<1>3. scan(main.p) \in DOMAIN queue
  BY <1>1, <1>2 DEF WakeInv, Creating, Idle, At
<1>4. PICK e \in Roots(queue) :
        main' = [main EXCEPT !.pc = "arm", !.n = ticks_diff(queue[e] + main.age)]
  BY <1>3 DEF Compute
<1>5. InRange(queue)
  BY TimesInRange
<1>6. e \in DOMAIN queue /\ \A f \in DOMAIN queue : queue[e] <= queue[f]
  BY <1>5, RootIsFirst
<1>7. /\ Arming /\ main.age \in Nat /\ main.age <= MaxLate
      /\ queue[scan(main.p)] = 5 * Delay - main.age
  BY <1>1, <1>2, <1>3 DEF TimeInv, Arming
<1>8. PICK n \in Int : n = queue[e] + main.age
  BY <1>5, <1>6, <1>7 DEF InRange
<1>9. main'.n = n
  <2>1. e \in PinEvents /\ queue[e] \in Int /\ -MaxWait(e) <= queue[e] /\ queue[e] <= 5 * Delay
    BY <1>5, <1>6 DEF InRange
  <2>2. /\ MaxWait(e) \in Nat /\ MaxLate <= MaxWait(e)
        /\ 2 * (MaxWait(e) + 5 * Delay + 1) < Period
    BY <2>1, EventNumbers, Numbers DEF Ample
  <2>3. -Period < 2 * n /\ 2 * n < Period
    BY <1>7, <1>8, <2>1, <2>2, Numbers
  <2>4. ticks_diff(n) = n
    BY <2>3, TicksAre
  <2> QED BY <1>2, <1>4, <1>8, <2>4
<1>10. main'.p = main.p /\ main'.age = main.age
  BY <1>2, <1>4
<1>11. Bounds' /\ OthersCounted'
  BY <1>1 DEF TimeInv, Bounds, OthersCounted
<1>12. Arming'
  <2>1. n <= 5 * Delay
    BY <1>3, <1>5, <1>6, <1>7, <1>8, Numbers DEF InRange
  <2>2. ASSUME NEW f \in DOMAIN queue
        PROVE  n <= queue[f] + Slack(f) - MaxLate + main.age
    <3>1. f \in PinEvents /\ queue[f] \in Int /\ queue[e] \in Int /\ queue[e] <= queue[f]
      BY <1>5, <1>6 DEF InRange
    <3>2. Slack(f) \in Nat /\ MaxLate <= Slack(f)
      BY <3>1, EventNumbers
    <3> QED BY <1>7, <1>8, <3>1, <3>2, Numbers
  <2> QED BY <1>1, <1>7, <1>9, <1>10, <2>1, <2>2 DEF Arming
<1>13. ASSUME NEW f \in DOMAIN queue
       PROVE  Served(f)'
  <2>1. Rounds(f)' = Rounds(f)
    BY <1>1, BeforeIs
  <2>2. Entering(f) => Entering(f)'
    <3>1. main'.pc = "arm"
      BY <1>2, <1>4
    <3>2. main' # Idle
      BY <3>1 DEF Idle
    <3> QED BY <1>10, <3>1, <3>2 DEF Entering
  <2>3. \/ ServedAt(f, cb.pc, timer, pending, late, others, queue[f], Rounds(f))
        \/ Entering(f)
    BY ServedIs DEF TimeInv
  <2> QED BY <1>1, <2>1, <2>2, <2>3, ServedIs
<1> QED BY <1>1, <1>11, <1>12, <1>13 DEF TimeInv

LEMMA CreatedInTime ==
  ASSUME WakeInv, DelayInv, TimeInv, Sound, WakeInv', DelayInv', Created
  PROVE  TimeInv'
<1>1. /\ cb = Idle /\ main.pc \in {"deinit", "arm"} /\ main' = Idle
      /\ UNCHANGED <<queue, late, others, dly, cb>>
  BY DEF Created
<1>2. main # Idle
  BY <1>1 DEF Idle
<1>3. main \in [pc : {"push", "compute", "deinit", "arm"}, p : Pins, age : Nat, n : Int] /\ main.pc = "arm"
  BY <1>1, <1>2, MainIs
<1>4. PICK n \in Int : n = main.n
  BY <1>3
<1>5. Arm(n)
  BY <1>3, <1>4 DEF Created
<1>6. /\ n <= 5 * Delay /\ main.age \in Nat
      /\ \A e \in DOMAIN queue : n <= queue[e] + Slack(e) - MaxLate + main.age
  BY <1>2, <1>3, <1>4 DEF TimeInv, Arming
<1>7. \/ n > 0 /\ timer' = n /\ pending' = pending
      \/ ~(n > 0) /\ timer' = timer /\ pending' = Append(pending, Run) /\ Len(pending) < Depth
      \/ timer' = timer /\ pending' = pending /\ raised'
  BY <1>5 DEF Arm, CanSchedule
<1>8. Bounds'
  BY <1>1, <1>6, <1>7 DEF TimeInv, Bounds
<1>9. OthersCounted'
  BY <1>1, <1>7, Names, CountedScheduled
<1>10. Arming'
  BY <1>1 DEF Arming
<1>11. cb.pc = "idle"
  BY <1>1 DEF Idle
<1>12. ASSUME Sound', NEW e \in DOMAIN queue'
       PROVE  Served(e)'
  <2>1. e \in DOMAIN queue /\ queue'[e] = queue[e]
    BY <1>1, <1>12
  <2>2. Given(e, timer, pending, late, others, queue[e], Rounds(e))
    BY <2>1, GivenNow DEF TimeInv
  <2>3. Given(e, timer', pending', late', others', queue'[e], Rounds(e)')
    BY <1>8, <1>12, GivenThen
  <2>4. Rounds(e)' = Rounds(e)
    BY <1>1, BeforeIs
  <2>5. CASE n > 0 /\ timer' = n /\ pending' = pending
    <3>1. e \in PinEvents /\ queue[e] \in Int
      BY <2>2 DEF Given
    <3>2. main.age <= MaxLate
      BY <1>2 DEF TimeInv, Arming
    <3>3. n <= queue[e] + Slack(e)
      BY <1>6, <2>1, <3>1, <3>2, EventNumbers, Numbers
    <3>4. InWait(e, timer', queue'[e])
      BY <2>1, <2>5, <3>3, Numbers DEF InWait
    <3> QED BY <3>4, ServedIs DEF ServedAt
  <2>6. CASE timer' = timer /\ pending' = Append(pending, Run) /\ Len(pending) < Depth
    <3>1. CASE ServedAt(e, cb.pc, timer, pending, late, others, queue[e], Rounds(e))
      <4>1. ServedAt(e, "idle", timer', pending', late, others, queue[e], Rounds(e))
        BY <1>11, <2>2, <2>6, <3>1, RunScheduled
      <4> QED BY <1>1, <1>11, <2>1, <2>4, <4>1, ServedIs
    <3>2. CASE -Slack(e) <= queue[e]
      <4>1. \E k \in 1 .. Len(pending') : pending'[k] = Run
        <5>1. pending \in Seq(Scheduled) /\ Run \in Scheduled
          BY DEF WakeInv, WakeTypes, Scheduled
        <5>2. Len(pending') = Len(pending) + 1 /\ Len(pending) \in Nat
          BY <2>6, <5>1
        <5>3. pending'[Len(pending) + 1] = Run
          BY <2>6, <5>1
        <5> QED BY <5>2, <5>3
      <4>2. ServedAt(e, "idle", timer', pending', late', others', queue'[e], Rounds(e)')
        BY <2>1, <2>3, <3>2, <4>1, SlackServed
      <4> QED BY <1>1, <1>11, <4>2, ServedIs
    <3> QED BY <2>1, <3>1, <3>2, ServedNow
  <2> QED BY <1>7, <1>12, <2>5, <2>6 DEF Sound
<1> QED BY <1>8, <1>9, <1>10, <1>12 DEF TimeInv

-----------------------------------------------------------------------------
LEMMA TimeSteps ==
  ASSUME Ample, WakeInv, DelayInv, TimeInv, [Next]_vars
  PROVE  TimeInv'
<1>1. WakeInv' /\ DelayInv'
  BY Steps, DelaySteps
<1>2. CASE UNCHANGED vars
  <2>1. UNCHANGED <<timer, queue, pending, late, others, raised, dly, cb, main, wrong>>
    BY <1>2 DEF vars, schedVars, pinVars
  <2>2. Bounds' /\ OthersCounted' /\ (Arming => Arming') /\ (Sound' => Sound)
    BY <2>1 DEF TimeInv, Bounds, OthersCounted, Arming, Sound
  <2>3. \A e : Served(e) => Served(e)'
    <3> TAKE e
    <3>1. Rounds(e)' = Rounds(e)
      BY <2>1, BeforeIs
    <3> QED BY <2>1, <3>1, ServedIs DEF Entering
  <2> QED BY <2>1, <2>2, <2>3 DEF TimeInv
<1>3. CASE Sound /\ (Interrupt \/ Time \/ Others)
  BY <1>1, <1>3, InterruptInTime, TimeInTime, OthersInTime
<1>4. CASE Sound /\ Callback
  <2>1. CASE Dispatch \/ Leave \/ Finally
    BY <1>4, <2>1, DispatchInTime, LeaveInTime, FinallyInTime
  <2>2. ASSUME NEW p \in Pins, irq(p) \/ Scan(p) \/ ScanIrq(p)
        PROVE  TimeInv'
    BY <1>1, <1>4, <2>2, IrqInTime, ScanInTime, ScanIrqInTime
  <2>3. ASSUME NEW p \in Pins, Rescan(p) \/ StillLow(p) \/ timer_(p)
        PROVE  TimeInv'
    BY <1>1, <1>4, <2>3, RescanInTime, StillLowInTime, TimerInTime
  <2> QED BY <1>4, <2>1, <2>2, <2>3 DEF Callback
<1>5. CASE Sound /\ Main
  <2>1. CASE Push \/ Compute \/ Created
    BY <1>1, <1>5, <2>1, PushInTime, ComputeInTime, CreatedInTime
  <2>2. ASSUME NEW p \in Pins, Create(p)
        PROVE  TimeInv'
    BY <1>5, <2>2, CreateInTime
  <2> QED BY <1>5, <2>1, <2>2 DEF Main
<1>6. ASSUME Sound, NEW p \in Pins, do_irq(p)
      PROVE  TimeInv'
  BY <1>6, DoIrqInTime
<1> QED BY <1>2, <1>3, <1>4, <1>5, <1>6 DEF Next

LEMMA InitTime == Init => TimeInv
<1> SUFFICES ASSUME Init PROVE TimeInv
  OBVIOUS
<1>1. /\ timer = Off /\ DOMAIN queue = {} /\ pending = <<>> /\ late = 0 /\ others = 0
      /\ cb = Idle /\ main = Idle
  BY DEF Init, SchedInit, Restrict
<1>2. Bounds
  BY <1>1, Numbers DEF Bounds, Idle
<1>3. OthersCounted
  BY <1>1 DEF OthersCounted
<1> QED BY <1>1, <1>2, <1>3 DEF TimeInv, Arming

(* The invariant behind the next: at any moment, every event in the queue  *)
(* has somebody who will run it in time: _run, the timer, a callback in    *)
(* schedule()'s queue, or the main program in enter.                       *)
THEOREM TimeInvariance == Ample => (Spec => [](WakeInv /\ DelayInv /\ TimeInv))
<1>1. Init => WakeInv /\ DelayInv /\ TimeInv
  BY InitWake, InitDelay, InitTime
<1>2. Ample /\ WakeInv /\ DelayInv /\ TimeInv /\ [Next]_vars => WakeInv' /\ DelayInv' /\ TimeInv'
  BY Steps, DelaySteps, TimeSteps
<1> SUFFICES ASSUME Ample PROVE Spec => [](WakeInv /\ DelayInv /\ TimeInv)
  OBVIOUS
<1>3. WakeInv /\ DelayInv /\ TimeInv /\ [Next]_vars => (WakeInv /\ DelayInv /\ TimeInv)'
  BY <1>2
<1> QED BY <1>1, <1>3, PTL DEF Spec

(* No event waits longer past its time than MaxWait, whatever else is      *)
(* scheduled, however often schedule()'s queue is full or a publish ends   *)
(* _run, as long as ticks_ms() does not wrap around within these times.    *)
THEOREM EventsInTime == Ample => (Spec => []Timely)
<1> SUFFICES ASSUME Ample PROVE Spec => []Timely
  OBVIOUS
<1>1. WakeInv /\ DelayInv /\ TimeInv => Timely
  BY TimesInRange DEF InRange, Timely
<1> QED BY <1>1, TimeInvariance, PTL

=============================================================================
