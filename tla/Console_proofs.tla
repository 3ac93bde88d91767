----------------------------- MODULE Console_proofs -----------------------------
(***************************************************************************)
(* ConsoleMirrored and InOrder, for any terminals, queues and loads.       *)
(***************************************************************************)
EXTENDS Console, WellFoundedInduction, SequenceTheorems, TLAPS

\* With debug_console the device never takes the slot.
DebugInv == debug => slot # "us" /\ repl # "on"

MirrorInv == ConsoleMirrored /\ DebugInv

\* What the invariant speaks of
mirrorVars == <<debug, repl, slot, prog, raced>>

LEMMA MirrorFrame ==
  ASSUME MirrorInv, UNCHANGED mirrorVars
  PROVE  MirrorInv'
BY DEF MirrorInv, ConsoleMirrored, DebugInv, mirrorVars

\* Initially nobody has the slot.
LEMMA MirrorInit == Init => MirrorInv
BY DEF Init, MirrorInv, ConsoleMirrored, DebugInv

\* The callbacks keep it, wherever they interrupt the main program.
LEMMA MirrorCallbacks ==
  ASSUME MirrorInv, Callbacks
  PROVE  MirrorInv'
<1>1. CASE Writer \/ ConsoleData
  BY <1>1, MirrorFrame DEF Writer, ConsoleData, Handle, mirrorVars, devVars, history
<1>2. CASE ConsoleInit
  <2>1. CASE debug
    BY <1>2, <2>1 DEF ConsoleInit, UseConsole, MirrorInv, ConsoleMirrored, DebugInv, history
  <2>2. CASE ~debug /\ repl = "on"
    BY <1>2, <2>2, MirrorFrame DEF ConsoleInit, UseConsole, mirrorVars, history
  <2>3. CASE ~debug /\ repl # "on"
    BY <1>2, <2>3 DEF ConsoleInit, UseConsole, MirrorInv, ConsoleMirrored, DebugInv, history
  <2> QED BY <2>1, <2>2, <2>3
<1>3. CASE ConsoleExit
  BY <1>3 DEF ConsoleExit, Removed, MirrorInv, ConsoleMirrored, DebugInv, history
<1> QED BY <1>1, <1>2, <1>3 DEF Callbacks

\* So do the steps of the main program that has begun to write, to stop, or
\* to give the slot to another.
LEMMA MirrorProgram ==
  ASSUME MirrorInv, Program
  PROVE  MirrorInv'
<1>1. CASE WriteEnd \/ Published
  BY <1>1 DEF WriteEnd, Published, MirrorInv, ConsoleMirrored, DebugInv, history
<1>2. CASE StopSets
  BY <1>2 DEF StopSets, MirrorInv, ConsoleMirrored, DebugInv, history
<1>3. CASE StopRemoves
  BY <1>3 DEF StopRemoves, Removed, MirrorInv, ConsoleMirrored, DebugInv
<1>4. CASE StopDisconnects
  BY <1>4 DEF StopDisconnects, Disconnected, MirrorInv, ConsoleMirrored, DebugInv, history
<1>5. CASE CloseTests
  BY <1>5 DEF CloseTests, MirrorInv, ConsoleMirrored, DebugInv, history
<1>6. CASE CloseSets
  BY <1>6 DEF CloseSets, MirrorInv, ConsoleMirrored, DebugInv
<1> QED BY <1>1, <1>2, <1>3, <1>4, <1>5, <1>6 DEF Program

\* And what others do with the slot, or the main program begins.
LEMMA MirrorOthers ==
  ASSUME MirrorInv,
         WriteBegin \/ Publish \/ StopBegin \/ Takeover \/ TakeoverBegin \/ OtherLeaves \/ MuxDies
  PROVE  MirrorInv'
<1>1. CASE WriteBegin \/ Publish \/ StopBegin
  BY <1>1 DEF WriteBegin, Publish, StopBegin, MirrorInv, ConsoleMirrored, DebugInv, history
<1>2. CASE Takeover
  BY <1>2 DEF Takeover, CloseConsole, MirrorInv, ConsoleMirrored, DebugInv, history
<1>3. CASE TakeoverBegin
  BY <1>3 DEF TakeoverBegin, MirrorInv, ConsoleMirrored, DebugInv, history
<1>4. CASE OtherLeaves
  BY <1>4 DEF OtherLeaves, MirrorInv, ConsoleMirrored, DebugInv, history
<1>5. CASE MuxDies
  BY <1>5, MirrorFrame DEF MuxDies, Disconnected, mirrorVars
<1> QED BY <1>1, <1>2, <1>3, <1>4, <1>5

\* Reading, and all that the multiplexer and the terminals do, is elsewhere.
LEMMA MirrorElsewhere ==
  ASSUME Next
  PROVE  \/ Callbacks \/ Program
         \/ WriteBegin \/ Publish \/ StopBegin \/ Takeover \/ TakeoverBegin \/ OtherLeaves \/ MuxDies
         \/ UNCHANGED mirrorVars
<1>1. CASE Reader
  BY <1>1 DEF Reader, MuxConsole, PutWaits, MuxExit, Receive, Put, mirrorVars, devVars, history
<1>2. CASE \E r \in Terms : Session(r) \/ TermConnects(r) \/ TermTypes(r) \/ TermLeaves(r)
  BY <1>2 DEF Session, SendInit, TermReads, SessionEnds, TermConnects, TermTypes, TermLeaves,
              mirrorVars, devVars, history
<1>3. CASE CallbackPrints \/ Reconnect
  BY <1>3 DEF CallbackPrints, Reconnect, mirrorVars, devVars, history
<1>4. CASE ReadLine \/ \E n \in 1..2 : Read(n)
  BY <1>4 DEF ReadLine, Read, Reads, mirrorVars
<1> QED BY <1>1, <1>2, <1>3, <1>4 DEF Next

LEMMA MirrorStep == MirrorInv /\ [Next]_vars => MirrorInv'
<1> SUFFICES ASSUME MirrorInv, [Next]_vars PROVE MirrorInv' OBVIOUS
<1>1. CASE UNCHANGED vars
  BY <1>1, MirrorFrame DEF vars, mirrorVars, devVars, history
<1>2. CASE Next
  BY <1>2, MirrorElsewhere, MirrorCallbacks, MirrorProgram, MirrorOthers, MirrorFrame
<1> QED BY <1>1, <1>2

\* Whatever sessions begin and end, whoever takes the console, and wherever
\* the main program is interrupted: the device knows whether it is MicroPython's
\* terminal, unless the console was taken again in the middle of close or stop
\* (ufuse.py:596-630).
THEOREM ConsoleIsMirrored == Spec => []ConsoleMirrored
<1>1. MirrorInv => ConsoleMirrored BY DEF MirrorInv
<1> QED BY MirrorInit, MirrorStep, <1>1, PTL DEF Spec

-----------------------------------------------------------------------------
(* Sequences of numbers that go up, and sequences of such chunks.          *)

Rises(s) == \A i, j \in DOMAIN s : i < j => s[i] < s[j]
Before(A, B) == \A x \in A, y \in B : x < y
Els(ss) == UNION {ToSet(ss[k]) : k \in DOMAIN ss}
Rising(ss) ==
    /\ \A k \in DOMAIN ss : Rises(ss[k])
    /\ \A j, k \in DOMAIN ss : j < k => Before(ToSet(ss[j]), ToSet(ss[k]))

\* Every set of numbers that is not empty has a least one.
LEMMA Least ==
  ASSUME NEW S \in SUBSET Nat, S # {}
  PROVE  \E m \in S : \A k \in S : m <= k
<1> DEFINE R == OpToRel(<, Nat)
<1>1. IsWellFoundedOn(R, Nat) BY NatLessThanWellFounded
<1>2. \A x, y \in Nat : x < y => <<x, y>> \in R BY DEF OpToRel
<1> HIDE DEF R
<1>3. PICK m \in S : \A k \in S : <<k, m>> \notin R BY <1>1, WFMin
<1>4. ASSUME NEW k \in S PROVE m <= k
  <2>1. <<k, m>> \notin R BY <1>3
  <2>2. k \in Nat /\ m \in Nat OBVIOUS
  <2>3. ~(k < m) BY <2>1, <2>2, <1>2
  <2> QED BY <2>2, <2>3
<1> QED BY <1>3, <1>4

LEMMA MinIsLeast ==
  ASSUME NEW S \in SUBSET Nat, S # {}
  PROVE  Min(S) \in S /\ \A k \in S : Min(S) <= k
BY Least DEF Min

\* Two such sequences, one after the other.
LEMMA ConcatRises ==
  ASSUME NEW s \in Seq(Nat), NEW t \in Seq(Nat),
         Rises(s), Rises(t), Before(ToSet(s), ToSet(t))
  PROVE  /\ s \o t \in Seq(Nat)
         /\ Rises(s \o t)
         /\ ToSet(s \o t) = ToSet(s) \cup ToSet(t)
<1>1. s \o t \in Seq(Nat) /\ Len(s \o t) = Len(s) + Len(t)
  OBVIOUS
<1>2. \A i \in 1 .. Len(s) + Len(t) : (s \o t)[i] = IF i <= Len(s) THEN s[i] ELSE t[i - Len(s)]
  OBVIOUS
<1>3. DOMAIN s = 1 .. Len(s) /\ DOMAIN t = 1 .. Len(t) /\ DOMAIN (s \o t) = 1 .. Len(s) + Len(t)
  BY <1>1
<1> DEFINE u == s \o t
<1>4. ASSUME NEW i \in DOMAIN u, NEW j \in DOMAIN u, i < j PROVE u[i] < u[j]
  <2>1. CASE j <= Len(s)
    BY <2>1, <1>2, <1>3, <1>4 DEF Rises
  <2>2. CASE i <= Len(s) /\ ~(j <= Len(s))
    <3>1. u[i] = s[i] /\ i \in DOMAIN s BY <2>2, <1>2, <1>3
    <3>2. u[j] = t[j - Len(s)] /\ j - Len(s) \in DOMAIN t BY <2>2, <1>2, <1>3
    <3>3. u[i] \in ToSet(s) BY <3>1 DEF ToSet
    <3>4. u[j] \in ToSet(t) BY <3>2 DEF ToSet
    <3> QED BY <3>3, <3>4 DEF Before
  <2>3. CASE ~(i <= Len(s))
    <3>1. u[i] = t[i - Len(s)] /\ i - Len(s) \in DOMAIN t BY <2>3, <1>2, <1>3
    <3>2. u[j] = t[j - Len(s)] /\ j - Len(s) \in DOMAIN t BY <2>3, <1>2, <1>3, <1>4
    <3>3. i - Len(s) < j - Len(s) BY <1>3, <1>4
    <3> QED BY <3>1, <3>2, <3>3 DEF Rises
  <2> QED BY <2>1, <2>2, <2>3, <1>3
<1>5. ASSUME NEW x \in ToSet(u) PROVE x \in ToSet(s) \cup ToSet(t)
  <2>1. PICK i \in 1 .. Len(s) + Len(t) : x = u[i] BY <1>3 DEF ToSet
  <2>2. CASE i <= Len(s)
    BY <2>1, <2>2, <1>2, <1>3 DEF ToSet
  <2>3. CASE ~(i <= Len(s))
    <3>1. i - Len(s) \in DOMAIN t BY <2>3, <1>3
    <3> QED BY <3>1, <2>1, <2>3, <1>2 DEF ToSet
  <2> QED BY <2>2, <2>3
<1>6. ASSUME NEW x \in ToSet(s) PROVE x \in ToSet(u)
  <2>1. PICK i \in 1 .. Len(s) : x = s[i] BY <1>3 DEF ToSet
  <2>2. i \in 1 .. Len(s) + Len(t) /\ x = u[i] BY <2>1, <1>2
  <2> QED BY <2>2, <1>3 DEF ToSet
<1>7. ASSUME NEW x \in ToSet(t) PROVE x \in ToSet(u)
  <2>1. PICK i \in 1 .. Len(t) : x = t[i] BY <1>3 DEF ToSet
  <2>2. i + Len(s) \in 1 .. Len(s) + Len(t) /\ ~(i + Len(s) <= Len(s)) /\ (i + Len(s)) - Len(s) = i OBVIOUS
  <2>3. x = u[i + Len(s)] BY <2>1, <2>2, <1>2
  <2> QED BY <2>2, <2>3, <1>3 DEF ToSet
<1>8. Rises(u) BY <1>4 DEF Rises
<1> QED BY <1>1, <1>5, <1>6, <1>7, <1>8

\* What FlattenSeq's recursion is: the function that it chooses exists.
LEMMA FlattenFunction ==
  ASSUME NEW ss \in Seq(Seq(Nat)), ss # <<>>
  PROVE  \E f : /\ f = [i \in 1 .. Len(ss) |-> IF i = 1 THEN ss[i] ELSE f[i - 1] \o ss[i]]
                /\ FlattenSeq(ss) = f[Len(ss)]
<1> DEFINE Is(f, n) == f = [i \in 1 .. n |-> IF i = 1 THEN ss[i] ELSE f[i - 1] \o ss[i]]
           Bad == {n \in 1 .. Len(ss) : ~ \E f : Is(f, n)}
<1> HIDE DEF Is
<1>1. Len(ss) \in Nat /\ Len(ss) # 0
  OBVIOUS
<1>2. Bad = {}
  <2> SUFFICES ASSUME Bad # {} PROVE FALSE OBVIOUS
  <2>1. Bad \in SUBSET Nat OBVIOUS
  <2>2. PICK m \in Bad : \A k \in Bad : m <= k BY <2>1, Least
  <2>3. m \in 1 .. Len(ss) OBVIOUS
  <2>4. CASE m = 1
    <3>1. Is([i \in 1 .. 1 |-> ss[1]], 1) BY DEF Is
    <3> QED BY <3>1, <2>4
  <2>5. CASE m # 1
    <3>1. m - 1 \in 1 .. Len(ss) /\ ~(m <= m - 1) BY <2>3, <2>5, <1>1
    <3>2. PICK g : Is(g, m - 1) BY <3>1, <2>2
    <3> DEFINE h == [i \in 1 .. m |-> IF i = m THEN g[m - 1] \o ss[m] ELSE g[i]]
    <3>3. ASSUME NEW i \in 1 .. m PROVE h[i] = IF i = 1 THEN ss[i] ELSE h[i - 1] \o ss[i]
      <4>1. CASE i = m
        <5>1. m - 1 \in 1 .. m /\ m - 1 # m BY <2>3, <2>5, <1>1
        <5> QED BY <4>1, <5>1, <2>5
      <4>2. CASE i # m
        <5>1. i \in 1 .. m - 1 BY <4>2, <2>3, <1>1
        <5>2. g[i] = IF i = 1 THEN ss[i] ELSE g[i - 1] \o ss[i] BY <5>1, <3>2 DEF Is
        <5>3. i # 1 => i - 1 \in 1 .. m /\ i - 1 # m BY <5>1, <2>3, <1>1
        <5> QED BY <5>2, <5>3, <4>2
      <4> QED BY <4>1, <4>2
    <3>4. Is(h, m)
      <4>1. h = [i \in 1 .. m |-> h[i]] OBVIOUS
      <4> QED BY <4>1, <3>3 DEF Is
    <3> QED BY <3>4
  <2> QED BY <2>4, <2>5
<1>3. \E f : Is(f, Len(ss))
  <2>1. Len(ss) \in 1 .. Len(ss) BY <1>1
  <2> QED BY <2>1, <1>2
<1>4. PICK f : f = (CHOOSE g : Is(g, Len(ss))) OBVIOUS
<1>5. Is(f, Len(ss)) BY <1>3, <1>4
<1>6. FlattenSeq(ss) = f[Len(ss)] BY <1>1, <1>4 DEF FlattenSeq, Is
<1> QED BY <1>5, <1>6 DEF Is

LEMMA FlattenRises ==
  ASSUME NEW ss \in Seq(Seq(Nat)), Rising(ss)
  PROVE  /\ FlattenSeq(ss) \in Seq(Nat)
         /\ Rises(FlattenSeq(ss))
         /\ ToSet(FlattenSeq(ss)) \subseteq Els(ss)
<1>1. CASE ss = <<>>
  <2>1. FlattenSeq(ss) = <<>> BY <1>1 DEF FlattenSeq
  <2> QED BY <2>1 DEF Rises, ToSet
<1>2. CASE ss # <<>>
  <2>1. PICK f : /\ f = [i \in 1 .. Len(ss) |-> IF i = 1 THEN ss[i] ELSE f[i - 1] \o ss[i]]
                 /\ FlattenSeq(ss) = f[Len(ss)]
    BY <1>2, FlattenFunction
  <2>2. \A i \in 1 .. Len(ss) : f[i] = IF i = 1 THEN ss[i] ELSE f[i - 1] \o ss[i]
    BY <2>1
  <2>3. Len(ss) \in Nat /\ Len(ss) # 0 /\ DOMAIN ss = 1 .. Len(ss)
    BY <1>2
  <2> DEFINE Good(i) == /\ f[i] \in Seq(Nat) /\ Rises(f[i])
                        /\ \A x \in ToSet(f[i]) : \E k \in 1 .. i : x \in ToSet(ss[k])
             Bad == {i \in 1 .. Len(ss) : ~Good(i)}
  <2> HIDE DEF Good
  <2>4. Bad = {}
    <3> SUFFICES ASSUME Bad # {} PROVE FALSE OBVIOUS
    <3>1. Bad \in SUBSET Nat OBVIOUS
    <3>2. PICK m \in Bad : \A k \in Bad : m <= k BY <3>1, Least
    <3>3. m \in 1 .. Len(ss) /\ ss[m] \in Seq(Nat) /\ Rises(ss[m])
      <4>1. m \in 1 .. Len(ss) OBVIOUS
      <4>2. ss[m] \in Seq(Nat) BY <4>1, ElementOfSeq
      <4> QED BY <4>1, <4>2, <2>3 DEF Rising
    <3>4. CASE m = 1
      <4>1. f[1] = ss[1] BY <3>3, <3>4, <2>2
      <4>2. \A x \in ToSet(f[1]) : \E k \in 1 .. 1 : x \in ToSet(ss[k]) BY <4>1
      <4>3. Good(1) BY <4>1, <4>2, <3>3, <3>4 DEF Good
      <4> QED BY <4>3, <3>4
    <3>5. CASE m # 1
      <4>1. m - 1 \in 1 .. Len(ss) /\ ~(m <= m - 1) BY <3>3, <3>5, <2>3
      <4>2. Good(m - 1) BY <4>1, <3>2
      <4>3. f[m] = f[m - 1] \o ss[m] BY <2>2, <3>3, <3>5
      <4>4. Before(ToSet(f[m - 1]), ToSet(ss[m]))
        <5> SUFFICES ASSUME NEW x \in ToSet(f[m - 1]), NEW y \in ToSet(ss[m]) PROVE x < y BY DEF Before
        <5>1. PICK k \in 1 .. m - 1 : x \in ToSet(ss[k]) BY <4>2 DEF Good
        <5>2. k \in DOMAIN ss /\ m \in DOMAIN ss /\ k < m BY <5>1, <4>1, <3>3, <2>3
        <5> QED BY <5>1, <5>2 DEF Rising, Before
      <4>5. f[m - 1] \in Seq(Nat) /\ Rises(f[m - 1]) BY <4>2 DEF Good
      <4>6. f[m] \in Seq(Nat) /\ Rises(f[m]) /\ ToSet(f[m]) = ToSet(f[m - 1]) \cup ToSet(ss[m])
        BY <4>3, <4>4, <4>5, <3>3, ConcatRises
      <4>7. ASSUME NEW x \in ToSet(f[m]) PROVE \E k \in 1 .. m : x \in ToSet(ss[k])
        <5>1. CASE x \in ToSet(ss[m])
          <6>1. m \in 1 .. m BY <3>3, <2>3
          <6> QED BY <5>1, <6>1
        <5>2. CASE x \in ToSet(f[m - 1])
          <6>1. PICK k \in 1 .. m - 1 : x \in ToSet(ss[k]) BY <5>2, <4>2 DEF Good
          <6>2. k \in 1 .. m BY <4>1, <2>3
          <6> QED BY <6>1, <6>2
        <5> QED BY <4>6, <5>1, <5>2
      <4>8. Good(m) BY <4>6, <4>7 DEF Good
      <4> QED BY <4>8
    <3> QED BY <3>4, <3>5
  <2>5. Len(ss) \in 1 .. Len(ss) BY <2>3
  <2>6. Good(Len(ss)) BY <2>4, <2>5
  <2> QED BY <2>6, <2>1, <2>3 DEF Good, Els
<1> QED BY <1>1, <1>2

\* Chunks that come first, last, or are taken out.
LEMMA ConsRising ==
  ASSUME NEW ss \in Seq(Seq(Nat)), NEW c \in Seq(Nat),
         Rising(ss), Rises(c), Before(ToSet(c), Els(ss))
  PROVE  /\ <<c>> \o ss \in Seq(Seq(Nat))
         /\ Rising(<<c>> \o ss)
         /\ Els(<<c>> \o ss) = ToSet(c) \cup Els(ss)
<1> DEFINE u == <<c>> \o ss
<1>0. <<c>> \in Seq(Seq(Nat)) /\ Len(<<c>>) = 1 /\ <<c>>[1] = c
  OBVIOUS
<1>1. u \in Seq(Seq(Nat)) /\ Len(u) = 1 + Len(ss)
  BY <1>0
<1>2. DOMAIN u = 1 .. 1 + Len(ss) /\ DOMAIN ss = 1 .. Len(ss) /\ Len(ss) \in Nat
  BY <1>1
<1>3. \A i \in DOMAIN u : u[i] = IF i = 1 THEN c ELSE ss[i - 1]
  BY <1>0, <1>2
<1>4. \A i \in DOMAIN u : i # 1 => i - 1 \in DOMAIN ss
  BY <1>2
<1>5. \A i \in DOMAIN ss : i + 1 \in DOMAIN u /\ i + 1 # 1 /\ (i + 1) - 1 = i
  BY <1>2
<1>6. 1 \in DOMAIN u BY <1>2
<1> HIDE DEF u
<1>7. \A i \in DOMAIN u : Rises(u[i])
  BY <1>3, <1>4 DEF Rising
<1>8. ASSUME NEW i \in DOMAIN u, NEW j \in DOMAIN u, i < j PROVE Before(ToSet(u[i]), ToSet(u[j]))
  <2>1. j # 1 /\ u[j] = ss[j - 1] /\ j - 1 \in DOMAIN ss
    BY <1>8, <1>2, <1>3, <1>4
  <2>2. CASE i = 1
    BY <2>1, <2>2, <1>3 DEF Before, Els
  <2>3. CASE i # 1
    <3>1. u[i] = ss[i - 1] /\ i - 1 \in DOMAIN ss /\ i - 1 < j - 1 BY <2>3, <1>2, <1>3, <1>4, <1>8
    <3> QED BY <2>1, <3>1 DEF Rising
  <2> QED BY <2>2, <2>3
<1>9. \A x \in Els(u) : x \in ToSet(c) \cup Els(ss)
  BY <1>3, <1>4 DEF Els
<1>10. \A x \in ToSet(c) \cup Els(ss) : x \in Els(u)
  BY <1>3, <1>5, <1>6 DEF Els
<1>11. Els(u) = ToSet(c) \cup Els(ss) BY <1>9, <1>10
<1>12. Rising(u) BY <1>7, <1>8 DEF Rising
<1> QED BY <1>1, <1>11, <1>12 DEF u

LEMMA AppendRising ==
  ASSUME NEW ss \in Seq(Seq(Nat)), NEW c \in Seq(Nat),
         Rising(ss), Rises(c), Before(Els(ss), ToSet(c))
  PROVE  /\ Append(ss, c) \in Seq(Seq(Nat))
         /\ Rising(Append(ss, c))
         /\ Els(Append(ss, c)) = Els(ss) \cup ToSet(c)
<1> DEFINE u == Append(ss, c)
<1>1. u \in Seq(Seq(Nat)) /\ Len(u) = Len(ss) + 1
  OBVIOUS
<1>2. DOMAIN u = 1 .. Len(ss) + 1 /\ DOMAIN ss = 1 .. Len(ss) /\ Len(ss) \in Nat
  BY <1>1
<1>3. \A i \in DOMAIN u : u[i] = IF i = Len(ss) + 1 THEN c ELSE ss[i]
  BY <1>2
<1>4. \A i \in DOMAIN u : i # Len(ss) + 1 => i \in DOMAIN ss
  BY <1>2
<1>5. \A i \in DOMAIN ss : i \in DOMAIN u /\ i # Len(ss) + 1
  BY <1>2
<1>6. Len(ss) + 1 \in DOMAIN u BY <1>2
<1> HIDE DEF u
<1>7. \A i \in DOMAIN u : Rises(u[i])
  BY <1>3, <1>4 DEF Rising
<1>8. ASSUME NEW i \in DOMAIN u, NEW j \in DOMAIN u, i < j PROVE Before(ToSet(u[i]), ToSet(u[j]))
  <2>1. i # Len(ss) + 1 /\ u[i] = ss[i] /\ i \in DOMAIN ss
    BY <1>8, <1>2, <1>3, <1>4
  <2>2. CASE j = Len(ss) + 1
    BY <2>1, <2>2, <1>3 DEF Before, Els
  <2>3. CASE j # Len(ss) + 1
    <3>1. u[j] = ss[j] /\ j \in DOMAIN ss BY <2>3, <1>3, <1>4
    <3> QED BY <2>1, <3>1, <1>8 DEF Rising
  <2> QED BY <2>2, <2>3
<1>9. \A x \in Els(u) : x \in Els(ss) \cup ToSet(c)
  BY <1>3, <1>4 DEF Els
<1>10. \A x \in Els(ss) \cup ToSet(c) : x \in Els(u)
  BY <1>3, <1>5, <1>6 DEF Els
<1>11. Els(u) = Els(ss) \cup ToSet(c) BY <1>9, <1>10
<1>12. Rising(u) BY <1>7, <1>8 DEF Rising
<1> QED BY <1>1, <1>11, <1>12 DEF u

LEMMA TailRising ==
  ASSUME NEW ss \in Seq(Seq(Nat)), Rising(ss), ss # <<>>
  PROVE  /\ Head(ss) \in Seq(Nat) /\ Tail(ss) \in Seq(Seq(Nat))
         /\ Rises(Head(ss)) /\ Rising(Tail(ss))
         /\ Before(ToSet(Head(ss)), Els(Tail(ss)))
         /\ Els(ss) = ToSet(Head(ss)) \cup Els(Tail(ss))
<1> DEFINE u == Tail(ss)
<1>1. u \in Seq(Seq(Nat)) /\ Len(u) = Len(ss) - 1 /\ Len(ss) \in Nat /\ Len(ss) # 0 /\ Head(ss) = ss[1]
  OBVIOUS
<1>2. DOMAIN u = 1 .. Len(ss) - 1 /\ DOMAIN ss = 1 .. Len(ss)
  BY <1>1
<1>3. \A i \in DOMAIN u : u[i] = ss[i + 1] /\ i + 1 \in DOMAIN ss /\ 1 < i + 1
  BY <1>1, <1>2
<1>4. \A i \in DOMAIN ss : i = 1 \/ (i - 1 \in DOMAIN u /\ (i - 1) + 1 = i)
  BY <1>1, <1>2
<1>5. 1 \in DOMAIN ss /\ ss[1] \in Seq(Nat) BY <1>1, <1>2
<1>6. \A i, j \in DOMAIN u : i < j => i + 1 < j + 1 BY <1>1, <1>2
<1> HIDE DEF u
<1>7. Rising(u)
  BY <1>3, <1>6 DEF Rising
<1>8. Before(ToSet(ss[1]), Els(u))
  BY <1>3, <1>5 DEF Before, Els, Rising
<1>9. ASSUME NEW x \in Els(ss) PROVE x \in ToSet(ss[1]) \cup Els(u)
  <2>1. PICK i \in DOMAIN ss : x \in ToSet(ss[i]) BY DEF Els
  <2>2. CASE i # 1
    <3>1. i - 1 \in DOMAIN u /\ u[i - 1] = ss[i] BY <2>2, <1>3, <1>4
    <3> QED BY <2>1, <3>1 DEF Els
  <2> QED BY <2>1, <2>2
<1>10. \A x \in ToSet(ss[1]) \cup Els(u) : x \in Els(ss)
  BY <1>3, <1>5 DEF Els
<1>11. Rises(ss[1]) BY <1>5 DEF Rising
<1>12. Els(ss) = ToSet(ss[1]) \cup Els(u) BY <1>9, <1>10
<1> QED BY <1>1, <1>5, <1>7, <1>8, <1>11, <1>12 DEF u

\* What SubSeq takes of a sequence, or of chunks, is in the same order.
LEMMA SubRises ==
  ASSUME NEW s \in Seq(Nat), NEW a \in Nat \ {0}, NEW b \in Nat, b <= Len(s), Rises(s)
  PROVE  /\ SubSeq(s, a, b) \in Seq(Nat)
         /\ Rises(SubSeq(s, a, b))
         /\ \A x \in ToSet(SubSeq(s, a, b)) : \E i \in DOMAIN s : a <= i /\ i <= b /\ x = s[i]
<1> DEFINE u == SubSeq(s, a, b)
<1>1. u \in Seq(Nat) /\ Len(u) = IF a <= b THEN b - a + 1 ELSE 0
  OBVIOUS
<1>2. \A i \in 1 .. b - a + 1 : u[i] = s[a + i - 1]
  OBVIOUS
<1>3. DOMAIN u = 1 .. Len(u) /\ DOMAIN s = 1 .. Len(s) /\ Len(s) \in Nat
  BY <1>1
<1>4. \A i \in DOMAIN u : /\ i \in 1 .. b - a + 1
                          /\ a + i - 1 \in DOMAIN s /\ a <= a + i - 1 /\ a + i - 1 <= b
  BY <1>1, <1>3
<1>5. \A i, j \in DOMAIN u : i < j => a + i - 1 < a + j - 1
  BY <1>3
<1> HIDE DEF u
<1>6. Rises(u) BY <1>2, <1>4, <1>5 DEF Rises
<1>7. \A x \in ToSet(u) : \E i \in DOMAIN s : a <= i /\ i <= b /\ x = s[i]
  BY <1>2, <1>4 DEF ToSet
<1> QED BY <1>1, <1>6, <1>7 DEF u

LEMMA SubRising ==
  ASSUME NEW ss \in Seq(Seq(Nat)), NEW a \in Nat \ {0}, NEW b \in Nat, b <= Len(ss), Rising(ss)
  PROVE  /\ SubSeq(ss, a, b) \in Seq(Seq(Nat))
         /\ Rising(SubSeq(ss, a, b))
         /\ \A x \in Els(SubSeq(ss, a, b)) : \E i \in DOMAIN ss : a <= i /\ i <= b /\ x \in ToSet(ss[i])
<1> DEFINE u == SubSeq(ss, a, b)
<1>1. u \in Seq(Seq(Nat)) /\ Len(u) = IF a <= b THEN b - a + 1 ELSE 0
  OBVIOUS
<1>2. \A i \in 1 .. b - a + 1 : u[i] = ss[a + i - 1]
  OBVIOUS
<1>3. DOMAIN u = 1 .. Len(u) /\ DOMAIN ss = 1 .. Len(ss) /\ Len(ss) \in Nat
  BY <1>1
<1>4. \A i \in DOMAIN u : /\ i \in 1 .. b - a + 1
                          /\ a + i - 1 \in DOMAIN ss /\ a <= a + i - 1 /\ a + i - 1 <= b
  BY <1>1, <1>3
<1>5. \A i, j \in DOMAIN u : i < j => a + i - 1 < a + j - 1
  BY <1>3
<1> HIDE DEF u
<1>6. Rising(u) BY <1>2, <1>4, <1>5 DEF Rising
<1>7. \A x \in Els(u) : \E i \in DOMAIN ss : a <= i /\ i <= b /\ x \in ToSet(ss[i])
  BY <1>2, <1>4 DEF Els
<1> QED BY <1>1, <1>6, <1>7 DEF u

-----------------------------------------------------------------------------
(* Input: what the REPL has read, what waits in cons_buf, and what is on   *)
(* its way.                                                                *)

\* s is taken from the chunks cb, and left leaves what comes after it
Taken(cb, s, left) ==
    /\ s \in Seq(Nat) /\ left \in Seq(Seq(Nat))
    /\ Rises(s) /\ Rising(left)
    /\ ToSet(s) \subseteq Els(cb) /\ Els(left) \subseteq Els(cb)
    /\ Before(ToSet(s), Els(left))

\* The first m characters of chunk k, and all chunks before it
LEMMA BeforeAfter ==
  ASSUME NEW n \in Nat, NEW k \in 1 .. n
  PROVE  /\ k \in Nat /\ k - 1 \in Nat /\ k + 1 \in Nat \ {0}
         /\ k - 1 <= n /\ n <= n
OBVIOUS

LEMMA TakenUpTo ==
  ASSUME NEW cb \in Seq(Seq(Nat)), Rising(cb), NEW k \in DOMAIN cb,
         NEW m \in Nat, m <= Len(cb[k]),
         NEW s, s = FlattenSeq(SubSeq(cb, 1, k - 1)) \o SubSeq(cb[k], 1, m),
         NEW rest, rest = SubSeq(cb, k + 1, Len(cb)),
         NEW left, left = <<SubSeq(cb[k], m + 1, Len(cb[k]))>> \o rest \/ left = rest
  PROVE  Taken(cb, s, left)
<1>1. Len(cb) \in Nat /\ k \in 1 .. Len(cb) /\ DOMAIN cb = 1 .. Len(cb)
  OBVIOUS
<1>2. cb[k] \in Seq(Nat) /\ Rises(cb[k]) /\ Len(cb[k]) \in Nat
  <2>1. k \in 1 .. Len(cb) BY <1>1
  <2>2. cb[k] \in Seq(Nat) BY <2>1, ElementOfSeq
  <2> QED BY <2>2 DEF Rising
<1> DEFINE fore == SubSeq(cb, 1, k - 1)
           head == SubSeq(cb[k], 1, m)
           tail == SubSeq(cb[k], m + 1, Len(cb[k]))
<1>3. /\ fore \in Seq(Seq(Nat)) /\ Rising(fore)
      /\ \A x \in Els(fore) : \E i \in DOMAIN cb : i < k /\ x \in ToSet(cb[i])
  <2>1. k - 1 \in Nat /\ k - 1 <= Len(cb) BY <1>1, BeforeAfter
  <2>2. /\ fore \in Seq(Seq(Nat)) /\ Rising(fore)
        /\ \A x \in Els(fore) : \E i \in DOMAIN cb : 1 <= i /\ i <= k - 1 /\ x \in ToSet(cb[i])
    BY <2>1, SubRising
  <2>3. \A i \in DOMAIN cb : i <= k - 1 => i < k BY <1>1
  <2> QED BY <2>2, <2>3
<1>4. /\ head \in Seq(Nat) /\ Rises(head)
      /\ \A x \in ToSet(head) : \E i \in DOMAIN cb[k] : i <= m /\ x = cb[k][i]
  BY <1>2, SubRises
<1>5. /\ tail \in Seq(Nat) /\ Rises(tail)
      /\ \A x \in ToSet(tail) : \E i \in DOMAIN cb[k] : m + 1 <= i /\ x = cb[k][i]
  <2>1. m + 1 \in Nat \ {0} /\ Len(cb[k]) <= Len(cb[k]) BY <1>2
  <2> QED BY <1>2, <2>1, SubRises
<1>6. /\ rest \in Seq(Seq(Nat)) /\ Rising(rest)
      /\ \A x \in Els(rest) : \E i \in DOMAIN cb : k < i /\ x \in ToSet(cb[i])
  <2>1. k + 1 \in Nat \ {0} /\ Len(cb) <= Len(cb) BY <1>1, BeforeAfter
  <2>2. /\ rest \in Seq(Seq(Nat)) /\ Rising(rest)
        /\ \A x \in Els(rest) : \E i \in DOMAIN cb : k + 1 <= i /\ i <= Len(cb) /\ x \in ToSet(cb[i])
    BY <1>1, <2>1, SubRising
  <2>3. \A i \in DOMAIN cb : k + 1 <= i => k < i BY <1>1
  <2> QED BY <2>2, <2>3
<1> HIDE DEF fore, head, tail
<1>7. \A x \in ToSet(head) \cup ToSet(tail) : x \in ToSet(cb[k])
  BY <1>4, <1>5 DEF ToSet
<1>8. Before(ToSet(head), ToSet(tail))
  <2> SUFFICES ASSUME NEW x \in ToSet(head), NEW y \in ToSet(tail) PROVE x < y BY DEF Before
  <2>1. PICK i \in DOMAIN cb[k] : i <= m /\ x = cb[k][i] BY <1>4
  <2>2. PICK j \in DOMAIN cb[k] : m + 1 <= j /\ y = cb[k][j] BY <1>5
  <2>3. i < j BY <2>1, <2>2, <1>2
  <2> QED BY <2>1, <2>2, <2>3, <1>2 DEF Rises
<1>9. \A i, j \in DOMAIN cb : i < j => Before(ToSet(cb[i]), ToSet(cb[j]))
  BY DEF Rising
<1>10. Before(Els(fore), ToSet(head) \cup ToSet(tail)) /\ Before(ToSet(head) \cup ToSet(tail), Els(rest))
  BY <1>3, <1>6, <1>7, <1>9 DEF Before
<1>11. Before(Els(fore), Els(rest))
  <2> SUFFICES ASSUME NEW x \in Els(fore), NEW y \in Els(rest) PROVE x < y BY DEF Before
  <2>1. PICK i \in DOMAIN cb : i < k /\ x \in ToSet(cb[i]) BY <1>3
  <2>2. PICK j \in DOMAIN cb : k < j /\ y \in ToSet(cb[j]) BY <1>6
  <2>3. i < j BY <1>1, <2>1, <2>2
  <2> QED BY <2>1, <2>2, <2>3, <1>9 DEF Before
<1>12. \A x \in Els(fore) \cup ToSet(head) \cup ToSet(tail) \cup Els(rest) : x \in Els(cb)
  BY <1>3, <1>6, <1>7 DEF Els
<1> DEFINE flat == FlattenSeq(fore)
<1>13. flat \in Seq(Nat) /\ Rises(flat) /\ ToSet(flat) \subseteq Els(fore)
  BY <1>3, FlattenRises
<1>14. s = flat \o head BY DEF fore, head
<1> HIDE DEF flat
<1>15. s \in Seq(Nat) /\ Rises(s) /\ ToSet(s) = ToSet(flat) \cup ToSet(head)
  <2>1. Before(ToSet(flat), ToSet(head)) BY <1>10, <1>13 DEF Before
  <2> QED BY <2>1, <1>4, <1>13, <1>14, ConcatRises
<1>16. left \in Seq(Seq(Nat)) /\ Rising(left) /\ Els(left) \subseteq ToSet(tail) \cup Els(rest)
  <2>1. CASE left = rest
    BY <2>1, <1>6
  <2>2. CASE left = <<tail>> \o rest
    <3>1. Before(ToSet(tail), Els(rest)) BY <1>10 DEF Before
    <3> QED BY <2>2, <3>1, <1>5, <1>6, ConsRising
  <2> QED BY <2>1, <2>2 DEF tail
<1>17. Before(ToSet(s), Els(left))
  BY <1>8, <1>10, <1>11, <1>13, <1>15, <1>16 DEF Before
<1>18. ToSet(s) \subseteq Els(cb) /\ Els(left) \subseteq Els(cb)
  BY <1>12, <1>13, <1>15, <1>16
<1> QED BY <1>15, <1>16, <1>17, <1>18 DEF Taken

\* What the messages of a connection carry
Messages == [a : {"ci", "c", "cx"}, d : Seq(Nat)]
Data(msgs) == [k \in DOMAIN msgs |-> msgs[k].d]

LEMMA DataIsSeq ==
  ASSUME NEW msgs \in Seq(Messages)
  PROVE  Data(msgs) \in Seq(Seq(Nat)) /\ Len(Data(msgs)) = Len(msgs)
<1>1. Len(msgs) \in Nat /\ DOMAIN msgs = 1 .. Len(msgs)
  OBVIOUS
<1>2. \A k \in 1 .. Len(msgs) : msgs[k].d \in Seq(Nat)
  <2> TAKE k \in 1 .. Len(msgs)
  <2>1. msgs[k] \in Messages BY ElementOfSeq
  <2> QED BY <2>1 DEF Messages
<1>3. Data(msgs) \in [1 .. Len(msgs) -> Seq(Nat)] BY <1>1, <1>2 DEF Data
<1> QED BY <1>1, <1>3, IsASeq

LEMMA DataAppend ==
  ASSUME NEW msgs \in Seq(Messages), NEW a \in {"ci", "c", "cx"}, NEW d \in Seq(Nat)
  PROVE  /\ Append(msgs, Msg(a, d)) \in Seq(Messages)
         /\ Data(Append(msgs, Msg(a, d))) = Append(Data(msgs), d)
<1> DEFINE u == Append(msgs, Msg(a, d))
           v == Append(Data(msgs), d)
<1>1. Msg(a, d) \in Messages /\ Msg(a, d).d = d BY DEF Msg, Messages
<1>2. u \in Seq(Messages) BY <1>1
<1>3. Data(msgs) \in Seq(Seq(Nat)) /\ Len(Data(msgs)) = Len(msgs) BY DataIsSeq
<1>4. Data(u) \in Seq(Seq(Nat)) /\ Len(Data(u)) = Len(u) BY <1>2, DataIsSeq
<1>5. v \in Seq(Seq(Nat)) /\ Len(v) = Len(msgs) + 1 /\ Len(u) = Len(msgs) + 1 BY <1>3
<1>6. ASSUME NEW i \in 1 .. Len(v) PROVE Data(u)[i] = v[i]
  <2>1. i \in DOMAIN u BY <1>2, <1>5
  <2>2. Data(u)[i] = u[i].d BY <2>1 DEF Data
  <2>3. CASE i = Len(msgs) + 1
    BY <2>2, <2>3, <1>1, <1>3
  <2>4. CASE i # Len(msgs) + 1
    <3>1. i \in 1 .. Len(msgs) BY <2>4, <1>5
    <3>2. u[i] = msgs[i] /\ v[i] = Data(msgs)[i] BY <3>1, <1>3
    <3>3. Data(msgs)[i] = msgs[i].d BY <3>1 DEF Data
    <3> QED BY <3>2, <3>3, <2>2
  <2> QED BY <2>3, <2>4
<1>7. Data(u) = v BY <1>4, <1>5, <1>6, SeqEqual
<1> QED BY <1>2, <1>7

LEMMA DataTail ==
  ASSUME NEW msgs \in Seq(Messages), msgs # <<>>
  PROVE  /\ Tail(msgs) \in Seq(Messages)
         /\ Data(Tail(msgs)) = Tail(Data(msgs))
         /\ Data(msgs) # <<>> /\ Head(Data(msgs)) = Head(msgs).d
<1> DEFINE u == Tail(msgs)
           v == Tail(Data(msgs))
<1>1. Len(msgs) \in Nat /\ Len(msgs) # 0 OBVIOUS
<1>2. u \in Seq(Messages) /\ Len(u) = Len(msgs) - 1 OBVIOUS
<1>3. Data(msgs) \in Seq(Seq(Nat)) /\ Len(Data(msgs)) = Len(msgs) BY DataIsSeq
<1>4. Data(u) \in Seq(Seq(Nat)) /\ Len(Data(u)) = Len(u) BY <1>2, DataIsSeq
<1>5. Data(msgs) # <<>> BY <1>1, <1>3
<1>6. v \in Seq(Seq(Nat)) /\ Len(v) = Len(msgs) - 1 BY <1>3, <1>5
<1>7. ASSUME NEW i \in 1 .. Len(v) PROVE Data(u)[i] = v[i]
  <2>1. i \in DOMAIN u /\ i + 1 \in DOMAIN msgs BY <1>1, <1>2, <1>6
  <2>2. Data(u)[i] = u[i].d /\ u[i] = msgs[i + 1] BY <2>1, <1>2 DEF Data
  <2>3. v[i] = Data(msgs)[i + 1] BY <1>3, <1>5, <1>6
  <2>4. Data(msgs)[i + 1] = msgs[i + 1].d BY <2>1 DEF Data
  <2> QED BY <2>2, <2>3, <2>4
<1>8. Data(u) = v BY <1>2, <1>4, <1>6, <1>7, SeqEqual
<1>9. Head(Data(msgs)) = Head(msgs).d
  <2>1. 1 \in DOMAIN msgs BY <1>1
  <2>2. Data(msgs)[1] = msgs[1].d BY <2>1 DEF Data
  <2> QED BY <2>2, <1>3, <1>5
<1> QED BY <1>2, <1>5, <1>8, <1>9

\* What has been read comes before what waits, that before what is on its way
\* in the chunks t; n is the last character typed.
Input(g, cb, t, n) ==
    /\ g \in Seq(Nat) /\ cb \in Seq(Seq(Nat)) /\ t \in Seq(Seq(Nat)) /\ n \in Nat
    /\ Rises(g) /\ Rising(cb) /\ Rising(t)
    /\ Before(ToSet(g), Els(cb)) /\ Before(ToSet(g), Els(t)) /\ Before(Els(cb), Els(t))
    /\ \A x \in ToSet(g) \cup Els(cb) \cup Els(t) : x <= n

LEMMA EmptyChunks ==
  /\ <<>> \in Seq(Nat) /\ Rises(<<>>) /\ ToSet(<<>>) = {}
  /\ <<>> \in Seq(Seq(Nat)) /\ Rising(<<>>) /\ Els(<<>>) = {}
BY DEF Rises, Rising, ToSet, Els

LEMMA InputSend ==
  ASSUME NEW g, NEW cb, NEW t, NEW n, Input(g, cb, t, n)
  PROVE  Input(g, cb, Append(t, <<>>), n)
<1>1. t \in Seq(Seq(Nat)) /\ Rising(t) BY DEF Input
<1>2. Before(Els(t), ToSet(<<>>)) BY EmptyChunks DEF Before
<1>3. Append(t, <<>>) \in Seq(Seq(Nat)) /\ Rising(Append(t, <<>>)) /\ Els(Append(t, <<>>)) = Els(t)
  BY <1>1, <1>2, EmptyChunks, AppendRising
<1> QED BY <1>3 DEF Input

LEMMA InputTyped ==
  ASSUME NEW g, NEW cb, NEW t, NEW n, Input(g, cb, t, n)
  PROVE  Input(g, cb, Append(t, <<n + 1, n + 2>>), n + 2)
<1> DEFINE c == <<n + 1, n + 2>>
<1>1. t \in Seq(Seq(Nat)) /\ Rising(t) /\ n \in Nat BY DEF Input
<1>2. n + 1 \in Nat /\ n + 2 \in Nat /\ n + 1 < n + 2 BY <1>1
<1>3. c \in Seq(Nat) /\ Len(c) = 2 /\ c[1] = n + 1 /\ c[2] = n + 2 BY <1>2
<1>4. DOMAIN c = {1, 2} BY <1>3
<1> HIDE DEF c
<1>5. Rises(c) BY <1>2, <1>3, <1>4 DEF Rises
<1>6. ToSet(c) = {n + 1, n + 2} BY <1>3, <1>4 DEF ToSet
<1>7. \A x \in ToSet(g) \cup Els(cb) \cup Els(t) : x <= n /\ x \in Nat
  <2>1. g \in Seq(Nat) /\ cb \in Seq(Seq(Nat)) BY DEF Input
  <2>2. \A x \in ToSet(g) : x \in Nat BY <2>1 DEF ToSet
  <2>3. \A ss \in Seq(Seq(Nat)) : \A x \in Els(ss) : x \in Nat
    <3> TAKE ss \in Seq(Seq(Nat))
    <3> TAKE x \in Els(ss)
    <3>1. PICK k \in DOMAIN ss : x \in ToSet(ss[k]) BY DEF Els
    <3>2. ss[k] \in Seq(Nat) OBVIOUS
    <3> QED BY <3>1, <3>2 DEF ToSet
  <2> QED BY <2>1, <2>2, <2>3, <1>1 DEF Input
<1>8. \A x \in ToSet(g) \cup Els(cb) \cup Els(t) : x < n + 1 /\ x < n + 2 /\ x <= n + 2
  BY <1>1, <1>7
<1>9. Before(ToSet(g), ToSet(c)) /\ Before(Els(cb), ToSet(c)) /\ Before(Els(t), ToSet(c))
  BY <1>6, <1>8 DEF Before
<1>10. Append(t, c) \in Seq(Seq(Nat)) /\ Rising(Append(t, c)) /\ Els(Append(t, c)) = Els(t) \cup ToSet(c)
  BY <1>1, <1>3, <1>5, <1>9, AppendRising
<1>11. Before(ToSet(g), Els(Append(t, c))) /\ Before(Els(cb), Els(Append(t, c)))
  BY <1>9, <1>10 DEF Before, Input
<1>12. \A x \in ToSet(g) \cup Els(cb) \cup Els(Append(t, c)) : x <= n + 2
  BY <1>1, <1>6, <1>8, <1>10
<1>13. Input(g, cb, Append(t, c), n + 2)
  BY <1>2, <1>10, <1>11, <1>12 DEF Input
<1> QED BY <1>13 DEF c

LEMMA InputDrops ==
  ASSUME NEW g, NEW cb, NEW t, NEW n, Input(g, cb, t, n), t # <<>>
  PROVE  Input(g, cb, Tail(t), n) /\ Input(g, Append(cb, Head(t)), Tail(t), n)
<1>1. t \in Seq(Seq(Nat)) /\ Rising(t) /\ cb \in Seq(Seq(Nat)) /\ Rising(cb) BY DEF Input
<1>2. /\ Head(t) \in Seq(Nat) /\ Tail(t) \in Seq(Seq(Nat))
      /\ Rises(Head(t)) /\ Rising(Tail(t))
      /\ Before(ToSet(Head(t)), Els(Tail(t)))
      /\ Els(t) = ToSet(Head(t)) \cup Els(Tail(t))
  BY <1>1, TailRising
<1>3. PICK h, u : h = Head(t) /\ u = Tail(t) OBVIOUS
<1>4. /\ Before(ToSet(g), ToSet(h)) /\ Before(ToSet(g), Els(u))
      /\ Before(Els(cb), ToSet(h)) /\ Before(Els(cb), Els(u))
  BY <1>2, <1>3 DEF Input, Before
<1>5. Append(cb, h) \in Seq(Seq(Nat)) /\ Rising(Append(cb, h)) /\ Els(Append(cb, h)) = Els(cb) \cup ToSet(h)
  BY <1>1, <1>2, <1>3, <1>4, AppendRising
<1>6. Input(g, cb, u, n) BY <1>2, <1>3, <1>4 DEF Input
<1>7. Before(ToSet(g), Els(Append(cb, h))) /\ Before(Els(Append(cb, h)), Els(u))
  BY <1>2, <1>3, <1>4, <1>5 DEF Before, Input
<1>8. \A x \in ToSet(g) \cup Els(Append(cb, h)) \cup Els(u) : x <= n
  BY <1>2, <1>3, <1>5 DEF Input
<1>9. Input(g, Append(cb, h), u, n) BY <1>2, <1>3, <1>4, <1>5, <1>7, <1>8 DEF Input
<1> QED BY <1>3, <1>6, <1>9

LEMMA InputEnds ==
  ASSUME NEW g, NEW cb, NEW t, NEW n, Input(g, cb, t, n)
  PROVE  Input(g, cb, <<>>, n)
BY EmptyChunks DEF Input, Before

LEMMA InputRead ==
  ASSUME NEW g, NEW cb, NEW t, NEW n, Input(g, cb, t, n),
         NEW s, NEW left, Taken(cb, s, left)
  PROVE  Input(g \o s, left, t, n)
<1>1. Before(ToSet(g), ToSet(s)) BY DEF Input, Taken, Before
<1>2. g \o s \in Seq(Nat) /\ Rises(g \o s) /\ ToSet(g \o s) = ToSet(g) \cup ToSet(s)
  BY <1>1, ConcatRises DEF Input, Taken
<1>3. PICK u : u = g \o s OBVIOUS
<1>4. Before(ToSet(u), Els(left)) /\ Before(ToSet(u), Els(t)) /\ Before(Els(left), Els(t))
  BY <1>2, <1>3 DEF Input, Taken, Before
<1>5. \A x \in ToSet(u) \cup Els(left) \cup Els(t) : x <= n
  BY <1>2, <1>3 DEF Input, Taken
<1> QED BY <1>2, <1>3, <1>4, <1>5 DEF Input, Taken

InputInv ==
    /\ typed \in Nat /\ toDev \in Seq(Messages)
    /\ Input(got, cons_buf, Data(toDev), 2 * typed)

inputVars == <<got, cons_buf, toDev, typed>>

LEMMA InputFrame ==
  ASSUME InputInv, UNCHANGED inputVars
  PROVE  InputInv'
BY DEF InputInv, inputVars

LEMMA InputInit == Init => InputInv
<1> SUFFICES ASSUME Init PROVE InputInv OBVIOUS
<1>1. got = <<>> /\ cons_buf = <<>> /\ toDev = <<>> /\ typed = 0 BY DEF Init
<1>2. Data(<<>>) = <<>> BY DEF Data
<1>3. Input(<<>>, <<>>, <<>>, 0) BY EmptyChunks DEF Input, Before
<1>4. toDev \in Seq(Messages) /\ 2 * typed = 0 /\ typed \in Nat BY <1>1
<1> QED BY <1>1, <1>2, <1>3, <1>4 DEF InputInv

\* A message without characters is sent, or the next one is handled or lost.
LEMMA InputMessage ==
  ASSUME InputInv, NEW a \in {"ci", "cx"}, toDev' = Append(toDev, Msg(a, <<>>)),
         UNCHANGED <<got, cons_buf, typed>>
  PROVE  InputInv'
<1>1. toDev' \in Seq(Messages) /\ Data(toDev') = Append(Data(toDev), <<>>)
  BY DataAppend, EmptyChunks DEF InputInv
<1>2. Input(got, cons_buf, Append(Data(toDev), <<>>), 2 * typed) BY InputSend DEF InputInv
<1> QED BY <1>1, <1>2 DEF InputInv

LEMMA InputHandled ==
  ASSUME InputInv, NEW a, Handle(a),
         UNCHANGED <<got, typed>>, cons_buf' \in {cons_buf, Append(cons_buf, Head(toDev).d)}
  PROVE  InputInv'
<1>1. toDev # <<>> /\ toDev' = Tail(toDev) BY DEF Handle
<1>2. /\ toDev' \in Seq(Messages) /\ Data(toDev') = Tail(Data(toDev))
      /\ Data(toDev) # <<>> /\ Head(Data(toDev)) = Head(toDev).d
  BY <1>1, DataTail DEF InputInv
<1>3. PICK t : t = Data(toDev) OBVIOUS
<1>4. Input(got, cons_buf, Tail(t), 2 * typed) /\ Input(got, Append(cons_buf, Head(t)), Tail(t), 2 * typed)
  BY <1>2, <1>3, InputDrops DEF InputInv
<1> QED BY <1>2, <1>3, <1>4 DEF InputInv

LEMMA InputLost ==
  ASSUME InputInv, toDev' = <<>>, UNCHANGED <<got, cons_buf, typed>>
  PROVE  InputInv'
<1>1. Data(toDev') = <<>> /\ toDev' \in Seq(Messages) BY DEF Data
<1>2. Input(got, cons_buf, <<>>, 2 * typed) BY InputEnds DEF InputInv
<1> QED BY <1>1, <1>2 DEF InputInv

LEMMA InputTerminal ==
  ASSUME InputInv, NEW r \in Terms, TermTypes(r)
  PROVE  InputInv'
<1>1. PICK n : n = 2 * typed OBVIOUS
<1>2. typed \in Nat /\ typed' = typed + 1 /\ toDev' = Append(toDev, Msg("c", <<n + 1, n + 2>>))
  BY <1>1 DEF TermTypes, InputInv
<1>3. n \in Nat /\ 2 * typed' = n + 2 /\ typed' \in Nat BY <1>1, <1>2
<1>4. <<n + 1, n + 2>> \in Seq(Nat) BY <1>3
<1>5. toDev' \in Seq(Messages) /\ Data(toDev') = Append(Data(toDev), <<n + 1, n + 2>>)
  BY <1>2, <1>4, DataAppend DEF InputInv
<1>6. Input(got, cons_buf, Append(Data(toDev), <<n + 1, n + 2>>), n + 2)
  BY <1>1, InputTyped DEF InputInv
<1>7. UNCHANGED <<got, cons_buf>> BY DEF TermTypes, devVars, history
<1> QED BY <1>3, <1>5, <1>6, <1>7 DEF InputInv

LEMMA InputReads ==
  ASSUME InputInv, NEW s, NEW left, Reads(s, left), Taken(cons_buf, s, left)
  PROVE  InputInv'
<1>1. got' = got \o s /\ cons_buf' = left /\ UNCHANGED <<toDev, typed>>
  BY DEF Reads, netVars, counts
<1>2. Input(got \o s, left, Data(toDev), 2 * typed) BY InputRead DEF InputInv
<1> QED BY <1>1, <1>2 DEF InputInv

\* read takes the first chunk or the first characters of it
LEMMA ReadTakes ==
  ASSUME NEW cb \in Seq(Seq(Nat)), Rising(cb), cb # <<>>, NEW n \in Nat
  PROVE  LET d == Head(cb) IN
         IF Len(d) <= n THEN Taken(cb, d, Tail(cb))
         ELSE Taken(cb, SubSeq(d, 1, n), <<SubSeq(d, n + 1, Len(d))>> \o Tail(cb))
<1>1. Len(cb) \in Nat /\ 1 \in DOMAIN cb /\ 1 \in 1 .. Len(cb) /\ Head(cb) = cb[1] OBVIOUS
<1>2. PICK d : d = cb[1] OBVIOUS
<1>3. d \in Seq(Nat) /\ Len(d) \in Nat BY <1>1, <1>2, ElementOfSeq
<1>4. SubSeq(cb, 1, 1 - 1) = <<>> /\ FlattenSeq(<<>>) = <<>> BY DEF FlattenSeq
<1>5. SubSeq(cb, 1 + 1, Len(cb)) = Tail(cb) BY <1>1
<1>6. ASSUME NEW m \in Nat, m <= Len(d)
      PROVE  /\ FlattenSeq(SubSeq(cb, 1, 1 - 1)) \o SubSeq(cb[1], 1, m) = SubSeq(d, 1, m)
             /\ Taken(cb, SubSeq(d, 1, m), <<SubSeq(d, m + 1, Len(d))>> \o Tail(cb))
             /\ Taken(cb, SubSeq(d, 1, m), Tail(cb))
  <2>1. SubSeq(d, 1, m) \in Seq(Nat) BY <1>3, <1>6
  <2>2. FlattenSeq(SubSeq(cb, 1, 1 - 1)) \o SubSeq(cb[1], 1, m) = SubSeq(d, 1, m)
    <3>1. PICK h : h = SubSeq(d, 1, m) OBVIOUS
    <3>2. <<>> \o h = h BY <2>1, <3>1, ConcatEmptySeq
    <3> QED BY <3>1, <3>2, <1>2, <1>4
  <2>3. PICK s, rest, left :
          /\ s = SubSeq(d, 1, m) /\ rest = Tail(cb)
          /\ left = <<SubSeq(d, m + 1, Len(d))>> \o rest
    OBVIOUS
  <2>4. s = FlattenSeq(SubSeq(cb, 1, 1 - 1)) \o SubSeq(cb[1], 1, m) BY <2>2, <2>3
  <2>5. rest = SubSeq(cb, 1 + 1, Len(cb)) BY <2>3, <1>5
  <2>6. left = <<SubSeq(cb[1], m + 1, Len(cb[1]))>> \o rest BY <2>3, <1>2
  <2>7. m <= Len(cb[1]) BY <1>2, <1>6
  <2>8. Taken(cb, s, left) BY <2>4, <2>5, <2>6, <2>7, <1>1, TakenUpTo
  <2>9. Taken(cb, s, rest) BY <2>4, <2>5, <2>7, <1>1, TakenUpTo
  <2> QED BY <2>2, <2>3, <2>8, <2>9
<1>7. CASE Len(d) <= n
  <2>1. SubSeq(d, 1, Len(d)) = d BY <1>3
  <2>2. Len(d) <= Len(d) BY <1>3
  <2>3. Taken(cb, d, Tail(cb)) BY <2>1, <2>2, <1>3, <1>6
  <2> QED BY <2>3, <1>1, <1>2, <1>7
<1>8. CASE ~(Len(d) <= n)
  <2>1. n <= Len(d) BY <1>3, <1>8
  <2>2. Taken(cb, SubSeq(d, 1, n), <<SubSeq(d, n + 1, Len(d))>> \o Tail(cb)) BY <2>1, <1>6
  <2> QED BY <2>2, <1>1, <1>2, <1>8
<1> QED BY <1>7, <1>8

LEMMA InputReadStep ==
  ASSUME InputInv, NEW n \in 1 .. 2, Read(n)
  PROVE  InputInv'
<1>1. cons_buf # <<>> BY DEF Read, CanRead
<1>2. cons_buf \in Seq(Seq(Nat)) /\ Rising(cons_buf) BY DEF InputInv, Input
<1>3. PICK cb, d : cb = cons_buf /\ d = Head(cb) OBVIOUS
<1>4. n \in Nat OBVIOUS
<1>5. CASE Len(d) <= n
  <2>1. Taken(cb, d, Tail(cb)) BY <1>1, <1>2, <1>3, <1>4, <1>5, ReadTakes
  <2>2. Reads(d, Tail(cb)) BY <1>3, <1>5 DEF Read
  <2> QED BY <2>1, <2>2, <1>3, InputReads
<1>6. CASE ~(Len(d) <= n)
  <2>1. Taken(cb, SubSeq(d, 1, n), <<SubSeq(d, n + 1, Len(d))>> \o Tail(cb))
    BY <1>1, <1>2, <1>3, <1>4, <1>6, ReadTakes
  <2>2. Reads(SubSeq(d, 1, n), <<SubSeq(d, n + 1, Len(d))>> \o Tail(cb)) BY <1>3, <1>6 DEF Read
  <2> QED BY <2>1, <2>2, <1>3, InputReads
<1> QED BY <1>5, <1>6

\* readline without a newline puts everything back as one chunk.
LEMMA OneChunk ==
  ASSUME NEW cb \in Seq(Seq(Nat)), Rising(cb)
  PROVE  Taken(cb, <<>>, <<FlattenSeq(cb)>>)
<1>1. PICK f : f = FlattenSeq(cb) OBVIOUS
<1>2. f \in Seq(Nat) /\ Rises(f) /\ ToSet(f) \subseteq Els(cb) BY <1>1, FlattenRises
<1>3. <<f>> = <<f>> \o <<>> /\ <<f>> \in Seq(Seq(Nat)) BY <1>2
<1>4. Before(ToSet(f), Els(<<>>)) BY EmptyChunks DEF Before
<1>5. Rising(<<f>> \o <<>>) /\ Els(<<f>> \o <<>>) = ToSet(f) \cup Els(<<>>)
  BY <1>2, <1>4, EmptyChunks, ConsRising
<1>6. Rising(<<f>>) /\ Els(<<f>>) = ToSet(f) BY <1>3, <1>5, EmptyChunks
<1>7. Before(ToSet(<<>>), Els(<<f>>)) BY EmptyChunks DEF Before
<1>8. Taken(cb, <<>>, <<f>>) BY <1>2, <1>3, <1>6, <1>7, EmptyChunks DEF Taken
<1> QED BY <1>1, <1>8

LEMMA InputReadLine ==
  ASSUME InputInv, ReadLine
  PROVE  InputInv'
<1>1. PICK cb : cb = cons_buf OBVIOUS
<1>2. cb \in Seq(Seq(Nat)) /\ Rising(cb) BY <1>1 DEF InputInv, Input
<1>3. PICK With : With = {k \in DOMAIN cb : Newlines(cb[k]) # {}} OBVIOUS
<1>4. CASE With = {}
  <2>1. Reads(<<>>, <<FlattenSeq(cb)>>) BY <1>1, <1>3, <1>4 DEF ReadLine
  <2>2. Taken(cb, <<>>, <<FlattenSeq(cb)>>) BY <1>2, OneChunk
  <2> QED BY <2>1, <2>2, <1>1, InputReads
<1>5. CASE With # {}
  <2>1. With \in SUBSET Nat BY <1>2, <1>3
  <2>2. PICK first : first = Min(With) OBVIOUS
  <2>3. first \in With BY <2>1, <2>2, <1>5, MinIsLeast
  <2>4. first \in DOMAIN cb /\ Newlines(cb[first]) # {} BY <2>3, <1>3
  <2>5. PICK d : d = cb[first] OBVIOUS
  <2>6. d \in Seq(Nat) BY <2>4, <2>5, <1>2
  <2>7. Newlines(d) \in SUBSET Nat BY <2>6 DEF Newlines
  <2>8. PICK nl : nl = Min(Newlines(d)) OBVIOUS
  <2>9. nl \in Newlines(d) BY <2>4, <2>5, <2>7, <2>8, MinIsLeast
  <2>10. nl \in Nat /\ nl <= Len(d) BY <2>9, <2>6 DEF Newlines
  <2>11. PICK s, rest, left :
          /\ s = FlattenSeq(SubSeq(cb, 1, first - 1)) \o SubSeq(d, 1, nl)
          /\ rest = SubSeq(cb, first + 1, Len(cb))
          /\ left = IF nl = Len(d) THEN rest ELSE <<SubSeq(d, nl + 1, Len(d))>> \o rest
    OBVIOUS
  <2>12. Reads(s, left) BY <1>1, <1>3, <1>5, <2>2, <2>5, <2>8, <2>11 DEF ReadLine
  <2>13. left = <<SubSeq(d, nl + 1, Len(d))>> \o rest \/ left = rest BY <2>11
  <2>14. Taken(cb, s, left) BY <1>2, <2>4, <2>5, <2>10, <2>11, <2>13, TakenUpTo
  <2> QED BY <2>12, <2>14, <1>1, InputReads
<1> QED BY <1>4, <1>5

LEMMA InputStep == InputInv /\ [Next]_vars => InputInv'
<1> SUFFICES ASSUME InputInv, [Next]_vars PROVE InputInv' OBVIOUS
<1>1. CASE UNCHANGED vars
  BY <1>1, InputFrame DEF vars, inputVars, devVars, netVars, counts, history
<1>2. CASE Writer
  BY <1>2, InputFrame DEF Writer, inputVars, devVars, counts, history
<1>3. CASE ConsoleInit
  BY <1>3, InputHandled DEF ConsoleInit, UseConsole, counts, history
<1>4. CASE ConsoleExit
  BY <1>4, InputHandled DEF ConsoleExit, counts, history
<1>5. CASE ConsoleData
  BY <1>5, InputHandled DEF ConsoleData, counts, history
<1>6. CASE WriteEnd \/ StopSets \/ StopRemoves \/ CloseTests \/ CloseSets \/ Published
  BY <1>6, InputFrame DEF WriteEnd, StopSets, StopRemoves, CloseTests, CloseSets, Published,
                          inputVars, netVars, counts, history
<1>7. CASE StopDisconnects
  <2>1. CASE client
    BY <1>7, <2>1, InputLost DEF StopDisconnects, Disconnected
  <2>2. CASE ~client
    BY <1>7, <2>2, InputFrame DEF StopDisconnects, inputVars, netVars, counts, history
  <2> QED BY <2>1, <2>2
<1>8. CASE Reader
  BY <1>8, InputFrame DEF Reader, MuxConsole, PutWaits, MuxExit, Receive, Put,
                          inputVars, devVars, netVars, counts, history
<1>9. ASSUME NEW r \in Terms, Session(r) \/ TermConnects(r) \/ TermTypes(r) \/ TermLeaves(r)
      PROVE  InputInv'
  <2>1. CASE SendInit(r)
    BY <2>1, InputMessage DEF SendInit, devVars, counts, history
  <2>2. CASE SessionEnds(r)
    <3>1. CASE toDev' = toDev
      BY <2>2, <3>1, InputFrame DEF SessionEnds, inputVars, devVars, counts
    <3>2. CASE toDev' = Append(toDev, Msg("cx", <<>>))
      BY <2>2, <3>2, InputMessage DEF SessionEnds, devVars, counts
    <3> QED BY <2>2, <3>1, <3>2 DEF SessionEnds, Cx
  <2>3. CASE TermReads(r) \/ TermConnects(r) \/ TermLeaves(r)
    BY <2>3, InputFrame DEF TermReads, TermConnects, TermLeaves, inputVars, devVars, netVars, counts, history
  <2> QED BY <1>9, <2>1, <2>2, <2>3, InputTerminal DEF Session
<1>10. CASE WriteBegin \/ CallbackPrints \/ Publish \/ StopBegin \/ Takeover \/ TakeoverBegin \/ OtherLeaves
  BY <1>10, InputFrame DEF WriteBegin, CallbackPrints, Publish, StopBegin, Takeover, TakeoverBegin, OtherLeaves,
                           inputVars, devVars, netVars, counts, history
<1>11. CASE ReadLine \/ \E n \in 1 .. 2 : Read(n)
  BY <1>11, InputReadLine, InputReadStep
<1>12. CASE MuxDies
  BY <1>12, InputLost DEF MuxDies, Disconnected
<1>13. CASE Reconnect
  BY <1>13, InputFrame DEF Reconnect, inputVars, devVars, counts, history
<1> QED BY <1>1, <1>2, <1>3, <1>4, <1>5, <1>6, <1>7, <1>8, <1>9, <1>10, <1>11, <1>12, <1>13
        DEF Next, Callbacks, Program

-----------------------------------------------------------------------------
(* Output: the chunk that the multiplexer hands round, those on their way, *)
(* and the write buffer; and before these, what a terminal has had and     *)
(* what waits in its queue.                                                *)

\* From x up to n nothing is missing in S.
Follows(A, S, n) == \A x \in A, k \in 1 .. n : x < k => k \in S

Output(d, f, wb, n, l) ==
    /\ d \in Seq(Nat) /\ f \in Seq(Seq(Nat)) /\ wb \in Seq(Nat) /\ n \in Nat
    /\ Rises(d) /\ Rising(f) /\ Rises(wb)
    /\ Before(ToSet(d), Els(f)) /\ Before(ToSet(d), ToSet(wb)) /\ Before(Els(f), ToSet(wb))
    /\ \A x \in ToSet(d) \cup Els(f) \cup ToSet(wb) : x <= n
    /\ Follows(ToSet(d) \cup Els(f) \cup ToSet(wb), ToSet(d) \cup Els(f) \cup ToSet(wb) \cup l, n)

\* next is what is still to come of the chunk that is handed round, net what
\* comes after it
Shown(s, qs, next, net, n, l) ==
    /\ s \in Seq(Nat) /\ qs \in Seq(Seq(Nat))
    /\ Rises(s) /\ Rising(qs) /\ Before(ToSet(s), Els(qs))
    /\ Before(ToSet(s) \cup Els(qs), next) /\ Before(ToSet(s) \cup Els(qs), net)
    /\ \A x \in ToSet(s) \cup Els(qs) : x <= n
    /\ Follows(ToSet(s) \cup Els(qs), ToSet(s) \cup Els(qs) \cup next \cup net \cup l, n)

Net == Els(Data(fromDev)) \cup ToSet(cons_wbuf)
Coming(r) == IF rd.at = "put" /\ r \notin rd.done THEN ToSet(rd.d) ELSE {}

OutputTypes ==
    /\ written \in Nat
    /\ fromDev \in Seq(Messages) /\ \A k \in DOMAIN fromDev : fromDev[k].a # "c" => fromDev[k].d = <<>>
    /\ st = [r \in Terms |-> st[r]] /\ q = [r \in Terms |-> q[r]] /\ seen = [r \in Terms |-> seen[r]]
    /\ rd.at \in {"read", "put"} /\ (rd.at = "read" => rd.d = <<>>)

\* Who has had nothing yet: he that is not there, or has come while a chunk
\* was being handed round.
Newcomers ==
    /\ \A r \in Terms : /\ st[r] = "none" => q[r] = <<>>
                        /\ r \notin Sessions => seen[r] = <<>>
    /\ rd.at = "put" =>
         /\ rd.r \in Terms \ rd.done
         /\ \A r \in Terms : st[r] = "none" => r \notin rd.todo \cup rd.done \cup {rd.r}
         /\ \A r \in Sessions \ (rd.todo \cup rd.done) : seen[r] = <<>> /\ q[r] = <<>>

OutputInv ==
    /\ OutputTypes /\ Newcomers
    /\ Output(rd.d, Data(fromDev), cons_wbuf, written, lost)
    /\ \A r \in Sessions : Shown(seen[r], q[r], Coming(r), Net, written, lost)

LEMMA OneRises ==
  ASSUME NEW x \in Nat
  PROVE  <<x>> \in Seq(Nat) /\ Rises(<<x>>) /\ ToSet(<<x>>) = {x}
<1>1. <<x>> \in Seq(Nat) /\ DOMAIN <<x>> = {1} /\ <<x>>[1] = x OBVIOUS
<1> QED BY <1>1 DEF Rises, ToSet

LEMMA NumbersOfSeq ==
  ASSUME NEW s \in Seq(Nat)
  PROVE  ToSet(s) \subseteq Nat
BY DEF ToSet

LEMMA NumbersOfChunks ==
  ASSUME NEW ss \in Seq(Seq(Nat))
  PROVE  Els(ss) \subseteq Nat
<1> SUFFICES ASSUME NEW x \in Els(ss) PROVE x \in Nat OBVIOUS
<1>1. PICK k \in DOMAIN ss : x \in ToSet(ss[k]) BY DEF Els
<1>2. ss[k] \in Seq(Nat) OBVIOUS
<1> QED BY <1>1, <1>2, NumbersOfSeq

\* A chunk is printed.
LEMMA OutputPrints ==
  ASSUME NEW d, NEW f, NEW wb, NEW n, NEW l, Output(d, f, wb, n, l)
  PROVE  /\ Output(d, f, Append(wb, n + 1), n + 1, l)
         /\ ToSet(Append(wb, n + 1)) = ToSet(wb) \cup {n + 1}
<1>1. /\ d \in Seq(Nat) /\ f \in Seq(Seq(Nat)) /\ wb \in Seq(Nat) /\ n \in Nat
      /\ Rises(wb)
  BY DEF Output
<1>2. PICK m : m = n + 1 OBVIOUS
<1>3. m \in Nat BY <1>1, <1>2
<1>4. ToSet(d) \subseteq Nat /\ Els(f) \subseteq Nat /\ ToSet(wb) \subseteq Nat
  BY <1>1, NumbersOfSeq, NumbersOfChunks
<1>5. \A x \in ToSet(d) \cup Els(f) \cup ToSet(wb) : x < m /\ x <= m
  <2> TAKE x \in ToSet(d) \cup Els(f) \cup ToSet(wb)
  <2>1. x <= n /\ x \in Nat BY <1>4 DEF Output
  <2> QED BY <2>1, <1>1, <1>2
<1>6. Before(ToSet(wb), ToSet(<<m>>)) BY <1>3, <1>5, OneRises DEF Before
<1>7. Append(wb, m) = wb \o <<m>> BY <1>1, <1>3
<1>8. PICK u : u = Append(wb, m) OBVIOUS
<1>9. u \in Seq(Nat) /\ Rises(u) /\ ToSet(u) = ToSet(wb) \cup {m}
  BY <1>1, <1>3, <1>6, <1>7, <1>8, OneRises, ConcatRises
<1>10. Before(ToSet(d), ToSet(u)) /\ Before(Els(f), ToSet(u))
  BY <1>5, <1>9 DEF Before, Output
<1>11. \A x \in ToSet(d) \cup Els(f) \cup ToSet(u) : x <= m
  BY <1>3, <1>5, <1>9
<1>12. Follows(ToSet(d) \cup Els(f) \cup ToSet(u), ToSet(d) \cup Els(f) \cup ToSet(u) \cup l, m)
  <2> SUFFICES ASSUME NEW x \in ToSet(d) \cup Els(f) \cup ToSet(u), NEW k \in 1 .. m, x < k
               PROVE  k \in ToSet(d) \cup Els(f) \cup ToSet(u) \cup l
    BY DEF Follows
  <2>1. CASE k = m
    BY <2>1, <1>9
  <2>2. CASE k # m
    <3>1. k \in 1 .. n /\ k < m BY <2>2, <1>1, <1>2
    <3>2. x # m BY <3>1, <1>3
    <3>3. x \in ToSet(d) \cup Els(f) \cup ToSet(wb) BY <3>2, <1>9
    <3>4. k \in ToSet(d) \cup Els(f) \cup ToSet(wb) \cup l BY <3>1, <3>3 DEF Output, Follows
    <3> QED BY <3>4, <1>9
  <2> QED BY <2>1, <2>2
<1>13. Output(d, f, u, m, l)
  BY <1>1, <1>3, <1>9, <1>10, <1>11, <1>12 DEF Output
<1> QED BY <1>2, <1>8, <1>9, <1>13

LEMMA ShownPrints ==
  ASSUME NEW s, NEW qs, NEW next, NEW net, NEW n \in Nat, NEW l, Shown(s, qs, next, net, n, l)
  PROVE  Shown(s, qs, next, net \cup {n + 1}, n + 1, l)
<1>1. PICK m : m = n + 1 OBVIOUS
<1>2. s \in Seq(Nat) /\ qs \in Seq(Seq(Nat)) BY DEF Shown
<1>3. ToSet(s) \subseteq Nat /\ Els(qs) \subseteq Nat BY <1>2, NumbersOfSeq, NumbersOfChunks
<1>4. \A x \in ToSet(s) \cup Els(qs) : x < m /\ x <= m
  <2> TAKE x \in ToSet(s) \cup Els(qs)
  <2>1. x <= n /\ x \in Nat BY <1>3 DEF Shown
  <2> QED BY <2>1, <1>1
<1>5. Before(ToSet(s) \cup Els(qs), net \cup {m})
  BY <1>4 DEF Before, Shown
<1>6. Follows(ToSet(s) \cup Els(qs), ToSet(s) \cup Els(qs) \cup next \cup (net \cup {m}) \cup l, m)
  <2> SUFFICES ASSUME NEW x \in ToSet(s) \cup Els(qs), NEW k \in 1 .. m, x < k, k # m
               PROVE  k \in ToSet(s) \cup Els(qs) \cup next \cup (net \cup {m}) \cup l
    BY DEF Follows
  <2>1. k \in 1 .. n BY <1>1
  <2> QED BY <2>1 DEF Shown, Follows
<1>7. Shown(s, qs, next, net \cup {m}, m, l) BY <1>2, <1>4, <1>5, <1>6 DEF Shown
<1> QED BY <1>1, <1>7

\* The write buffer is sent, or dropped; a message without data is sent.
LEMMA OutputSent ==
  ASSUME NEW d, NEW f, NEW wb, NEW n, NEW l, Output(d, f, wb, n, l)
  PROVE  /\ Output(d, Append(f, wb), <<>>, n, l)
         /\ Els(Append(f, wb)) = Els(f) \cup ToSet(wb)
<1>1. Append(f, wb) \in Seq(Seq(Nat)) /\ Rising(Append(f, wb)) /\ Els(Append(f, wb)) = Els(f) \cup ToSet(wb)
  BY AppendRising DEF Output
<1>2. PICK u : u = Append(f, wb) OBVIOUS
<1>3. /\ Before(ToSet(d), Els(u)) /\ Before(ToSet(d), ToSet(<<>>)) /\ Before(Els(u), ToSet(<<>>))
      /\ ToSet(d) \cup Els(u) \cup ToSet(<<>>) = ToSet(d) \cup Els(f) \cup ToSet(wb)
  BY <1>1, <1>2, EmptyChunks DEF Before, Output
<1>4. Output(d, u, <<>>, n, l)
  BY <1>1, <1>2, <1>3, EmptyChunks DEF Output
<1> QED BY <1>1, <1>2, <1>4

LEMMA OutputUnsent ==
  ASSUME NEW d, NEW f, NEW wb, NEW n, NEW l, Output(d, f, wb, n, l)
  PROVE  Output(d, f, <<>>, n, l \cup ToSet(wb))
<1>1. Before(ToSet(d), ToSet(<<>>)) /\ Before(Els(f), ToSet(<<>>)) BY EmptyChunks DEF Before
<1>2. Follows(ToSet(d) \cup Els(f) \cup ToSet(<<>>), ToSet(d) \cup Els(f) \cup ToSet(<<>>) \cup (l \cup ToSet(wb)), n)
  BY EmptyChunks DEF Output, Follows
<1>3. \A x \in ToSet(d) \cup Els(f) \cup ToSet(<<>>) : x <= n BY EmptyChunks DEF Output
<1> QED BY <1>1, <1>2, <1>3, EmptyChunks DEF Output

LEMMA OutputEmpty ==
  ASSUME NEW d, NEW f, NEW wb, NEW n, NEW l, Output(d, f, wb, n, l)
  PROVE  Output(d, Append(f, <<>>), wb, n, l) /\ Els(Append(f, <<>>)) = Els(f)
<1>1. Before(Els(f), ToSet(<<>>)) BY EmptyChunks DEF Before
<1>2. f \in Seq(Seq(Nat)) /\ Rising(f) BY DEF Output
<1>3. Append(f, <<>>) \in Seq(Seq(Nat)) /\ Rising(Append(f, <<>>)) /\ Els(Append(f, <<>>)) = Els(f)
  BY <1>1, <1>2, EmptyChunks, AppendRising
<1>4. PICK u : u = Append(f, <<>>) OBVIOUS
<1>5. Output(d, u, wb, n, l) BY <1>3, <1>4 DEF Output
<1> QED BY <1>3, <1>4, <1>5

\* The next message is received; a chunk has been handed round; what was on
\* its way is lost with the connection.
LEMMA OutputReceived ==
  ASSUME NEW f, NEW wb, NEW n, NEW l, Output(<<>>, f, wb, n, l), f # <<>>
  PROVE  /\ Output(Head(f), Tail(f), wb, n, l)
         /\ Els(f) = ToSet(Head(f)) \cup Els(Tail(f))
<1>1. PICK h, u : h = Head(f) /\ u = Tail(f) OBVIOUS
<1>2. f \in Seq(Seq(Nat)) /\ Rising(f) BY DEF Output
<1>3. /\ h \in Seq(Nat) /\ u \in Seq(Seq(Nat)) /\ Rises(h) /\ Rising(u)
      /\ Before(ToSet(h), Els(u)) /\ Els(f) = ToSet(h) \cup Els(u)
  BY <1>1, <1>2, TailRising
<1>4. /\ Before(ToSet(h), ToSet(wb)) /\ Before(Els(u), ToSet(wb))
      /\ ToSet(h) \cup Els(u) \cup ToSet(wb) = ToSet(<<>>) \cup Els(f) \cup ToSet(wb)
  BY <1>3, EmptyChunks DEF Output, Before
<1>5. Output(h, u, wb, n, l) BY <1>3, <1>4 DEF Output
<1> QED BY <1>1, <1>3, <1>5

LEMMA OutputHanded ==
  ASSUME NEW d, NEW f, NEW wb, NEW n, NEW l, Output(d, f, wb, n, l), NEW ll, l \subseteq ll
  PROVE  Output(<<>>, f, wb, n, ll)
<1>1. /\ d \in Seq(Nat) /\ f \in Seq(Seq(Nat)) /\ wb \in Seq(Nat) /\ n \in Nat
      /\ Before(ToSet(d), Els(f)) /\ Before(ToSet(d), ToSet(wb)) /\ Before(Els(f), ToSet(wb))
  BY DEF Output
<1>2. ToSet(d) \subseteq Nat /\ Els(f) \subseteq Nat /\ ToSet(wb) \subseteq Nat
  BY <1>1, NumbersOfSeq, NumbersOfChunks
<1>3. Follows(ToSet(<<>>) \cup Els(f) \cup ToSet(wb), ToSet(<<>>) \cup Els(f) \cup ToSet(wb) \cup ll, n)
  <2> SUFFICES ASSUME NEW x \in Els(f) \cup ToSet(wb), NEW k \in 1 .. n, x < k
               PROVE  k \in Els(f) \cup ToSet(wb) \cup ll
    BY EmptyChunks DEF Follows
  <2>1. k \in ToSet(d) \cup Els(f) \cup ToSet(wb) \cup l BY DEF Output, Follows
  <2>2. CASE k \in ToSet(d)
    <3>1. k < x BY <2>2, <1>1 DEF Before
    <3>2. x \in Nat /\ k \in Nat BY <2>2, <1>2
    <3> QED BY <3>1, <3>2
  <2> QED BY <2>1, <2>2
<1>4. Before(ToSet(<<>>), Els(f)) /\ Before(ToSet(<<>>), ToSet(wb)) BY EmptyChunks DEF Before
<1>5. \A x \in ToSet(<<>>) \cup Els(f) \cup ToSet(wb) : x <= n BY EmptyChunks DEF Output
<1> QED BY <1>3, <1>4, <1>5, EmptyChunks DEF Output

LEMMA OutputEnds ==
  ASSUME NEW d, NEW f, NEW wb, NEW n, NEW l, Output(d, f, wb, n, l)
  PROVE  Output(<<>>, <<>>, wb, n, l)
<1>1. Output(<<>>, f, wb, n, l) BY OutputHanded
<1>2. f \in Seq(Seq(Nat)) /\ wb \in Seq(Nat) /\ n \in Nat /\ Rises(wb) /\ Before(Els(f), ToSet(wb))
  BY DEF Output
<1>3. Els(f) \subseteq Nat /\ ToSet(wb) \subseteq Nat
  BY <1>2, NumbersOfSeq, NumbersOfChunks
<1>4. Follows(ToSet(<<>>) \cup Els(<<>>) \cup ToSet(wb), ToSet(<<>>) \cup Els(<<>>) \cup ToSet(wb) \cup l, n)
  <2> SUFFICES ASSUME NEW x \in ToSet(wb), NEW k \in 1 .. n, x < k
               PROVE  k \in ToSet(wb) \cup l
    BY EmptyChunks DEF Follows
  <2>1. k \in Els(f) \cup ToSet(wb) \cup l BY <1>1, EmptyChunks DEF Output, Follows
  <2>2. CASE k \in Els(f)
    <3>1. k < x BY <2>2, <1>2 DEF Before
    <3>2. x \in Nat /\ k \in Nat BY <2>2, <1>3
    <3> QED BY <3>1, <3>2
  <2> QED BY <2>1, <2>2
<1>5. Before(ToSet(<<>>), Els(<<>>)) /\ Before(ToSet(<<>>), ToSet(wb)) /\ Before(Els(<<>>), ToSet(wb))
  BY EmptyChunks DEF Before
<1>6. \A x \in ToSet(<<>>) \cup Els(<<>>) \cup ToSet(wb) : x <= n BY EmptyChunks DEF Output
<1> QED BY <1>2, <1>4, <1>5, <1>6, EmptyChunks DEF Output

\* What a terminal has had stays right when what comes after it moves on or
\* is dropped.
LEMMA ShownStays ==
  ASSUME NEW s, NEW qs, NEW next, NEW net, NEW n, NEW l, Shown(s, qs, next, net, n, l),
         NEW next1, NEW net1, NEW l1,
         next1 \cup net1 \subseteq next \cup net,
         next \cup net \cup l \subseteq next1 \cup net1 \cup l1
  PROVE  Shown(s, qs, next1, net1, n, l1)
<1>1. Before(ToSet(s) \cup Els(qs), next1) /\ Before(ToSet(s) \cup Els(qs), net1)
  BY DEF Shown, Before
<1>2. Follows(ToSet(s) \cup Els(qs), ToSet(s) \cup Els(qs) \cup next1 \cup net1 \cup l1, n)
  BY DEF Shown, Follows
<1> QED BY <1>1, <1>2 DEF Shown

LEMMA ShownNew ==
  ASSUME NEW next, NEW net, NEW n, NEW l
  PROVE  Shown(<<>>, <<>>, next, net, n, l)
BY EmptyChunks DEF Shown, Before, Follows

LEMMA ShownPut ==
  ASSUME NEW d, NEW f, NEW wb, NEW n, NEW l, Output(d, f, wb, n, l),
         NEW s, NEW qs, NEW net, net = Els(f) \cup ToSet(wb), Shown(s, qs, ToSet(d), net, n, l)
  PROVE  Shown(s, Append(qs, d), {}, net, n, l)
<1>1. PICK u : u = Append(qs, d) OBVIOUS
<1>2. Before(Els(qs), ToSet(d)) /\ Before(ToSet(s), ToSet(d)) BY DEF Shown, Before
<1>3. u \in Seq(Seq(Nat)) /\ Rising(u) /\ Els(u) = Els(qs) \cup ToSet(d)
  BY <1>1, <1>2, AppendRising DEF Shown, Output
<1>4. Before(ToSet(s), Els(u)) /\ Before(ToSet(s) \cup Els(u), {})
  BY <1>2, <1>3 DEF Shown, Before
<1>5. Before(ToSet(s) \cup Els(u), net)
  BY <1>3 DEF Shown, Output, Before
<1>6. \A x \in ToSet(s) \cup Els(u) : x <= n
  BY <1>3 DEF Shown, Output
<1>7. Follows(ToSet(s) \cup Els(u), ToSet(s) \cup Els(u) \cup {} \cup net \cup l, n)
  <2> SUFFICES ASSUME NEW x \in ToSet(s) \cup Els(u), NEW k \in 1 .. n, x < k
               PROVE  k \in ToSet(s) \cup Els(u) \cup {} \cup net \cup l
    BY DEF Follows
  <2>1. CASE x \in ToSet(d)
    <3>1. k \in ToSet(d) \cup Els(f) \cup ToSet(wb) \cup l BY <2>1 DEF Output, Follows
    <3> QED BY <3>1, <1>3
  <2>2. CASE x \in ToSet(s) \cup Els(qs)
    <3>1. k \in ToSet(s) \cup Els(qs) \cup ToSet(d) \cup net \cup l BY <2>2 DEF Shown, Follows
    <3> QED BY <3>1, <1>3
  <2> QED BY <2>1, <2>2, <1>3
<1>8. Shown(s, u, {}, net, n, l) BY <1>3, <1>4, <1>5, <1>6, <1>7 DEF Shown
<1> QED BY <1>1, <1>8

LEMMA ShownReads ==
  ASSUME NEW s, NEW qs, NEW next, NEW net, NEW n, NEW l, Shown(s, qs, next, net, n, l), qs # <<>>
  PROVE  Shown(s \o Head(qs), Tail(qs), next, net, n, l)
<1>1. PICK h, u, v : h = Head(qs) /\ u = Tail(qs) /\ v = s \o h OBVIOUS
<1>2. qs \in Seq(Seq(Nat)) /\ Rising(qs) /\ s \in Seq(Nat) /\ Rises(s) BY DEF Shown
<1>3. /\ h \in Seq(Nat) /\ u \in Seq(Seq(Nat)) /\ Rises(h) /\ Rising(u)
      /\ Before(ToSet(h), Els(u)) /\ Els(qs) = ToSet(h) \cup Els(u)
  BY <1>1, <1>2, TailRising
<1>4. Before(ToSet(s), ToSet(h)) /\ Before(ToSet(s), Els(u)) BY <1>3 DEF Shown, Before
<1>5. v \in Seq(Nat) /\ Rises(v) /\ ToSet(v) = ToSet(s) \cup ToSet(h)
  BY <1>1, <1>2, <1>3, <1>4, ConcatRises
<1>6. Before(ToSet(v), Els(u)) BY <1>3, <1>4, <1>5 DEF Before
<1>7. ToSet(v) \cup Els(u) = ToSet(s) \cup Els(qs) BY <1>3, <1>5
<1>8. Shown(v, u, next, net, n, l) BY <1>3, <1>5, <1>6, <1>7 DEF Shown
<1> QED BY <1>1, <1>8

outputVars == <<written, fromDev, st, q, seen, rd, cons_wbuf, lost>>

LEMMA OutputFrame ==
  ASSUME OutputInv, UNCHANGED outputVars
  PROVE  OutputInv'
BY DEF OutputInv, OutputTypes, Newcomers, Sessions, Coming, Net, outputVars

LEMMA OutputInit == Init => OutputInv
<1> SUFFICES ASSUME Init PROVE OutputInv OBVIOUS
<1>1. /\ written = 0 /\ fromDev = <<>> /\ cons_wbuf = <<>> /\ rd = Reading
      /\ st = [r \in Terms |-> "none"] /\ q = [r \in Terms |-> <<>>] /\ seen = [r \in Terms |-> <<>>]
  BY DEF Init
<1>2. Sessions = {} BY <1>1 DEF Sessions
<1>3. rd.at = "read" /\ rd.d = <<>> BY <1>1 DEF Reading
<1>4. Data(<<>>) = <<>> BY DEF Data
<1>5. Output(<<>>, <<>>, <<>>, 0, lost) BY EmptyChunks DEF Output, Before, Follows
<1>6. OutputTypes BY <1>1, <1>3 DEF OutputTypes
<1>7. Newcomers BY <1>1, <1>3 DEF Newcomers
<1> QED BY <1>1, <1>2, <1>3, <1>4, <1>5, <1>6, <1>7 DEF OutputInv

\* What the device does to the connection and the write buffer
LEMMA OutputDevice ==
  ASSUME OutputInv, UNCHANGED <<st, q, seen, rd>>,
         OutputTypes', Output(rd.d, Data(fromDev'), cons_wbuf', written', lost'),
         \A r \in Sessions : Shown(seen[r], q[r], Coming(r), Net', written', lost')
  PROVE  OutputInv'
<1>1. Sessions' = Sessions /\ rd' = rd /\ Newcomers' BY DEF OutputInv, Newcomers, Sessions
<1>2. \A r \in Sessions : Coming(r)' = Coming(r) BY DEF Coming
<1> QED BY <1>1, <1>2 DEF OutputInv

LEMMA OutputWritten ==
  ASSUME OutputInv, Prints, cons_wbuf' = Append(cons_wbuf, written'),
         UNCHANGED <<fromDev, st, q, seen, rd, lost>>
  PROVE  OutputInv'
<1>1. written \in Nat /\ written' = written + 1 BY DEF OutputInv, OutputTypes, Prints
<1>2. PICK f, wb, n : f = Data(fromDev) /\ wb = cons_wbuf /\ n = written OBVIOUS
<1>3. Output(rd.d, f, wb, n, lost) BY <1>2 DEF OutputInv
<1>4. /\ Output(rd.d, f, Append(wb, n + 1), n + 1, lost)
      /\ ToSet(Append(wb, n + 1)) = ToSet(wb) \cup {n + 1}
  BY <1>3, OutputPrints
<1>5. Data(fromDev') = f /\ cons_wbuf' = Append(wb, n + 1) /\ written' = n + 1 BY <1>1, <1>2
<1>6. Net = Els(f) \cup ToSet(wb) BY <1>2 DEF Net
<1>7. Net' = Net \cup {n + 1} BY <1>4, <1>5, <1>6 DEF Net
<1>8. OutputTypes' BY <1>1 DEF OutputInv, OutputTypes
<1>9. ASSUME NEW r \in Sessions PROVE Shown(seen[r], q[r], Coming(r), Net', written', lost')
  <2>1. Shown(seen[r], q[r], Coming(r), Net, n, lost) BY <1>2 DEF OutputInv
  <2>2. n \in Nat BY <1>1, <1>2
  <2>3. PICK s, qs, next, net : s = seen[r] /\ qs = q[r] /\ next = Coming(r) /\ net = Net OBVIOUS
  <2>4. Shown(s, qs, next, net \cup {n + 1}, n + 1, lost) BY <2>1, <2>2, <2>3, ShownPrints
  <2> QED BY <2>3, <2>4, <1>5, <1>7
<1> QED BY <1>4, <1>5, <1>8, <1>9, OutputDevice

LEMMA TypesAppend ==
  ASSUME OutputTypes, NEW a \in {"c", "cx"}, NEW d \in Seq(Nat), a # "c" => d = <<>>,
         fromDev' = Append(fromDev, Msg(a, d)), UNCHANGED <<written, st, q, seen, rd>>
  PROVE  OutputTypes' /\ Data(fromDev') = Append(Data(fromDev), d)
<1>1. fromDev \in Seq(Messages) BY DEF OutputTypes
<1>2. fromDev' \in Seq(Messages) /\ Data(fromDev') = Append(Data(fromDev), d) BY <1>1, DataAppend
<1>3. ASSUME NEW k \in DOMAIN fromDev', fromDev'[k].a # "c" PROVE fromDev'[k].d = <<>>
  <2>1. Msg(a, d).a = a /\ Msg(a, d).d = d /\ Msg(a, d) \in Messages BY DEF Msg, Messages
  <2>2. Len(fromDev) \in Nat /\ DOMAIN fromDev = 1 .. Len(fromDev) /\ k \in 1 .. Len(fromDev) + 1 BY <1>1, <2>1
  <2>3. CASE k = Len(fromDev) + 1
    <3>1. fromDev'[k] = Msg(a, d) BY <2>3, <1>1
    <3> QED BY <3>1, <2>1, <1>3
  <2>4. CASE k # Len(fromDev) + 1
    <3>1. k \in DOMAIN fromDev BY <2>2, <2>4
    <3>2. fromDev'[k] = fromDev[k] BY <3>1, <1>1
    <3> QED BY <3>1, <3>2, <1>3 DEF OutputTypes
  <2> QED BY <2>3, <2>4
<1> QED BY <1>2, <1>3 DEF OutputTypes

LEMMA OutputWriter ==
  ASSUME OutputInv, Writer
  PROVE  OutputInv'
<1>1. PICK f, wb : f = Data(fromDev) /\ wb = cons_wbuf OBVIOUS
<1>2. Output(rd.d, f, wb, written, lost) BY <1>1 DEF OutputInv
<1>3. UNCHANGED <<st, q, seen, rd, written>> /\ cons_wbuf' = <<>> BY DEF Writer, muxVars, counts, history
<1>4. Net = Els(f) \cup ToSet(wb) BY <1>1 DEF Net
<1>5. CASE client /\ prog # "publish" /\ cons_wbuf # <<>>
  <2>1. fromDev' = Append(fromDev, Msg("c", wb)) /\ lost' = lost BY <1>1, <1>5 DEF Writer
  <2>2. wb \in Seq(Nat) BY <1>2 DEF Output
  <2>3. OutputTypes' /\ Data(fromDev') = Append(f, wb) BY <1>1, <1>3, <2>1, <2>2, TypesAppend DEF OutputInv
  <2>4. Output(rd.d, Append(f, wb), <<>>, written, lost) /\ Els(Append(f, wb)) = Els(f) \cup ToSet(wb)
    BY <1>2, OutputSent
  <2>5. Net' = Net BY <1>3, <1>4, <2>3, <2>4, EmptyChunks DEF Net
  <2>6. \A r \in Sessions : Shown(seen[r], q[r], Coming(r), Net', written', lost')
    BY <2>1, <2>5, <1>3 DEF OutputInv
  <2> QED BY <1>3, <2>1, <2>3, <2>4, <2>6, OutputDevice
<1>6. CASE ~(client /\ prog # "publish" /\ cons_wbuf # <<>>)
  <2>1. fromDev' = fromDev /\ lost' = lost \cup ToSet(wb) BY <1>1, <1>6 DEF Writer
  <2>2. Output(rd.d, f, <<>>, written, lost \cup ToSet(wb)) BY <1>2, OutputUnsent
  <2>3. Data(fromDev') = f BY <1>1, <2>1
  <2>4. Net' = Els(f) BY <1>3, <2>3, EmptyChunks DEF Net
  <2>5. ASSUME NEW r \in Sessions PROVE Shown(seen[r], q[r], Coming(r), Net', written', lost')
    <3>1. Shown(seen[r], q[r], Coming(r), Net, written, lost) BY DEF OutputInv
    <3>2. Coming(r) \cup Net' \subseteq Coming(r) \cup Net BY <1>4, <2>4
    <3>3. Coming(r) \cup Net \cup lost \subseteq Coming(r) \cup Net' \cup lost' BY <1>4, <2>1, <2>4
    <3>4. PICK s, qs, next, net, net1, n, l, l1 :
            /\ s = seen[r] /\ qs = q[r] /\ next = Coming(r) /\ net = Net /\ net1 = Net'
            /\ n = written /\ l = lost /\ l1 = lost'
      OBVIOUS
    <3>5. Shown(s, qs, next, net1, n, l1) BY <3>1, <3>2, <3>3, <3>4, ShownStays
    <3> QED BY <3>4, <3>5, <1>3
  <2>6. OutputTypes' BY <1>3, <2>1 DEF OutputInv, OutputTypes
  <2> QED BY <1>3, <2>1, <2>2, <2>3, <2>5, <2>6, OutputDevice
<1> QED BY <1>5, <1>6

LEMMA OutputCx ==
  ASSUME OutputInv, fromDev' = Append(fromDev, Cx), UNCHANGED <<written, st, q, seen, rd, cons_wbuf, lost>>
  PROVE  OutputInv'
<1>1. PICK f, wb : f = Data(fromDev) /\ wb = cons_wbuf OBVIOUS
<1>2. Output(rd.d, f, wb, written, lost) BY <1>1 DEF OutputInv
<1>3. Output(rd.d, Append(f, <<>>), wb, written, lost) /\ Els(Append(f, <<>>)) = Els(f)
  BY <1>2, OutputEmpty
<1>4. fromDev' = Append(fromDev, Msg("cx", <<>>)) BY DEF Cx
<1>5. OutputTypes' /\ Data(fromDev') = Append(f, <<>>) BY <1>1, <1>4, EmptyChunks, TypesAppend DEF OutputInv
<1>6. Net' = Net BY <1>1, <1>3, <1>5 DEF Net
<1>7. \A r \in Sessions : Shown(seen[r], q[r], Coming(r), Net', written', lost')
  BY <1>6 DEF OutputInv
<1> QED BY <1>1, <1>3, <1>5, <1>7, OutputDevice

\* The loop of cmd_c goes on: the chunk d has been given to done, and is still
\* to be given to the others of todo.
LEMMA OutputIterates ==
  ASSUME NEW d, NEW size, NEW todo, NEW done,
         Iterate(d, size, todo, done), UNCHANGED <<st, seen, written, cons_wbuf>>,
         fromDev' \in Seq(Messages), \A k \in DOMAIN fromDev' : fromDev'[k].a # "c" => fromDev'[k].d = <<>>,
         q' = [r \in Terms |-> q'[r]], OutputTypes,
         Output(d, Data(fromDev'), cons_wbuf, written, lost),
         \A r \in Sessions : Shown(seen[r], q'[r], IF r \in done THEN {} ELSE ToSet(d), Net', written, lost),
         \A r \in Terms : /\ st[r] = "none" => q'[r] = <<>> /\ r \notin todo \cup done
                          /\ r \notin Sessions => seen[r] = <<>>,
         \A r \in Sessions \ (todo \cup done) : seen[r] = <<>> /\ q'[r] = <<>>
  PROVE  OutputInv'
<1>1. Sessions' = Sessions BY DEF Sessions
<1>2. PICK f, wb, n, l, net : f = Data(fromDev') /\ wb = cons_wbuf /\ n = written /\ l = lost /\ net = Net'
  OBVIOUS
<1>3. Output(d, f, wb, n, l) BY <1>2
<1>4. CASE rd' = Reading /\ lost \subseteq lost'
           /\ \A r \in Sessions : Shown(seen[r], q'[r], {}, Net', written, lost')
  <2>1. PICK l1 : l1 = lost' OBVIOUS
  <2>2. Output(<<>>, f, wb, n, l1) BY <1>2, <1>3, <1>4, <2>1, OutputHanded
  <2>3. rd'.d = <<>> /\ rd'.at = "read" BY <1>4 DEF Reading
  <2>4. Output(rd'.d, Data(fromDev'), cons_wbuf', written', lost') BY <1>2, <2>1, <2>2, <2>3
  <2>5. \A r \in Terms : Coming(r)' = {} BY <2>3 DEF Coming
  <2>6. OutputTypes' BY <2>3 DEF OutputTypes
  <2>7. Newcomers' BY <2>3, <1>1 DEF Newcomers
  <2>8. \A r \in Sessions : Shown(seen'[r], q'[r], Coming(r)', Net', written', lost')
    BY <1>4, <2>5 DEF Sessions
  <2> QED BY <1>1, <2>4, <2>6, <2>7, <2>8 DEF OutputInv
<1>5. CASE /\ Cardinality(Sessions) # size
           /\ rd' = Reading
           /\ lost' = IF Sessions \subseteq done THEN lost ELSE lost \cup ToSet(d)
  <2>1. lost \subseteq lost' BY <1>5
  <2>2. ASSUME NEW r \in Sessions PROVE Shown(seen[r], q'[r], {}, Net', written, lost')
    <3>1. CASE Sessions \subseteq done
      BY <3>1, <1>5
    <3>2. CASE ~(Sessions \subseteq done)
      <4>1. PICK s, qs, next, l1 : s = seen[r] /\ qs = q'[r] /\ l1 = lost'
                                   /\ next = IF r \in done THEN {} ELSE ToSet(d)
        OBVIOUS
      <4>2. Shown(s, qs, next, net, n, l) BY <1>2, <4>1
      <4>3. l1 = l \cup ToSet(d) BY <1>2, <1>5, <3>2, <4>1
      <4>4. {} \cup net \subseteq next \cup net /\ next \cup net \cup l \subseteq {} \cup net \cup l1
        BY <4>1, <4>3
      <4>5. Shown(s, qs, {}, net, n, l1) BY <4>2, <4>4, ShownStays
      <4> QED BY <4>1, <4>5, <1>2
    <3> QED BY <3>1, <3>2
  <2> QED BY <1>4, <1>5, <2>1, <2>2
<1>6. CASE /\ Cardinality(Sessions) = size /\ todo \cap Sessions \subseteq done
           /\ rd' = Reading /\ UNCHANGED lost
  <2>1. ASSUME NEW r \in Sessions PROVE Shown(seen[r], q'[r], {}, Net', written, lost')
    <3>1. CASE r \in done
      BY <3>1, <1>6
    <3>2. CASE r \notin done
      <4>1. r \in Sessions \ (todo \cup done) BY <3>2, <1>6
      <4>2. seen[r] = <<>> /\ q'[r] = <<>> BY <4>1
      <4> QED BY <4>2, ShownNew
    <3> QED BY <3>1, <3>2
  <2> QED BY <1>4, <1>6, <2>1
<1>7. ASSUME NEW p \in Sessions \ done,
             rd' = [at |-> "put", r |-> p, d |-> d, size |-> size, todo |-> todo, done |-> done],
             UNCHANGED lost
      PROVE  OutputInv'
  <2>1. rd'.at = "put" /\ rd'.d = d /\ rd'.r = p /\ rd'.todo = todo /\ rd'.done = done BY <1>7
  <2>2. p \in Terms /\ st[p] # "none" /\ p \notin done BY DEF Sessions
  <2>3. \A r \in Terms : Coming(r)' = IF r \in done THEN {} ELSE ToSet(d) BY <2>1 DEF Coming
  <2>4. OutputTypes' BY <2>1 DEF OutputTypes
  <2>5. Newcomers'
    <3>1. \A r \in Terms : /\ st'[r] = "none" => q'[r] = <<>>
                           /\ r \notin Sessions' => seen'[r] = <<>>
      BY <1>1
    <3>2. \A r \in Terms : st'[r] = "none" => r \notin todo \cup done \cup {p}
      BY <2>2
    <3>3. \A r \in Sessions' \ (todo \cup done) : seen'[r] = <<>> /\ q'[r] = <<>>
      BY <1>1
    <3> QED BY <2>1, <2>2, <3>1, <3>2, <3>3 DEF Newcomers
  <2>6. Output(rd'.d, Data(fromDev'), cons_wbuf', written', lost') BY <1>2, <1>3, <1>7, <2>1
  <2>7. \A r \in Sessions : Shown(seen'[r], q'[r], Coming(r)', Net', written', lost')
    BY <1>7, <2>3 DEF Sessions
  <2> QED BY <1>1, <2>4, <2>5, <2>6, <2>7 DEF OutputInv
<1> QED BY <1>5, <1>6, <1>7 DEF Iterate

LEMMA TypesTail ==
  ASSUME OutputTypes, fromDev # <<>>
  PROVE  /\ Tail(fromDev) \in Seq(Messages) /\ Data(Tail(fromDev)) = Tail(Data(fromDev))
         /\ Data(fromDev) # <<>> /\ Head(Data(fromDev)) = Head(fromDev).d
         /\ \A k \in DOMAIN Tail(fromDev) : Tail(fromDev)[k].a # "c" => Tail(fromDev)[k].d = <<>>
         /\ Head(fromDev).a # "c" => Head(fromDev).d = <<>>
<1>1. fromDev \in Seq(Messages) BY DEF OutputTypes
<1>2. \A k \in DOMAIN Tail(fromDev) : k + 1 \in DOMAIN fromDev /\ Tail(fromDev)[k] = fromDev[k + 1]
  BY <1>1
<1>3. 1 \in DOMAIN fromDev /\ Head(fromDev) = fromDev[1] BY <1>1
<1> QED BY <1>1, <1>2, <1>3, DataTail DEF OutputTypes

LEMMA OutputConsole ==
  ASSUME OutputInv, MuxConsole
  PROVE  OutputInv'
<1>1. /\ rd.at = "read" /\ fromDev # <<>> /\ fromDev' = Tail(fromDev)
      /\ UNCHANGED <<st, q, seen, written, cons_wbuf>>
      /\ Iterate(Head(fromDev).d, Cardinality(Sessions), Sessions, {})
  BY DEF MuxConsole, Receive, outVars, counts
<1>2. OutputTypes /\ Newcomers /\ rd.d = <<>> BY <1>1 DEF OutputInv, OutputTypes
<1>3. /\ fromDev' \in Seq(Messages) /\ Data(fromDev') = Tail(Data(fromDev))
      /\ Data(fromDev) # <<>> /\ Head(Data(fromDev)) = Head(fromDev).d
      /\ \A k \in DOMAIN fromDev' : fromDev'[k].a # "c" => fromDev'[k].d = <<>>
  BY <1>1, <1>2, TypesTail
<1>4. PICK f, wb, n, l, net, net1 :
        f = Data(fromDev) /\ wb = cons_wbuf /\ n = written /\ l = lost /\ net = Net /\ net1 = Net'
  OBVIOUS
<1>5. PICK d : d = Head(fromDev).d OBVIOUS
<1>6. Output(<<>>, f, wb, n, l) BY <1>2, <1>4 DEF OutputInv
<1>7. Output(d, Tail(f), wb, n, l) /\ Els(f) = ToSet(d) \cup Els(Tail(f))
  BY <1>3, <1>4, <1>5, <1>6, OutputReceived
<1>8. net = ToSet(d) \cup net1 BY <1>1, <1>3, <1>4, <1>7 DEF Net
<1>9. ASSUME NEW r \in Sessions PROVE Shown(seen[r], q'[r], ToSet(d), net1, n, l)
  <2>1. Coming(r) = {} BY <1>1 DEF Coming
  <2>2. PICK s, qs : s = seen[r] /\ qs = q[r] OBVIOUS
  <2>3. Shown(s, qs, {}, net, n, l) BY <1>4, <2>1, <2>2 DEF OutputInv
  <2>4. ToSet(d) \cup net1 \subseteq {} \cup net /\ {} \cup net \cup l \subseteq ToSet(d) \cup net1 \cup l BY <1>8
  <2>5. Shown(s, qs, ToSet(d), net1, n, l) BY <2>3, <2>4, ShownStays
  <2> QED BY <2>2, <2>5, <1>1
<1>10. \A r \in Terms : /\ st[r] = "none" => q'[r] = <<>> /\ r \notin Sessions \cup {}
                        /\ r \notin Sessions => seen[r] = <<>>
  BY <1>1, <1>2 DEF Newcomers, Sessions
<1>11. Output(d, Data(fromDev'), cons_wbuf, written, lost) BY <1>3, <1>4, <1>7
<1>12. \A r \in Sessions : Shown(seen[r], q'[r], IF r \in {} THEN {} ELSE ToSet(d), Net', written, lost)
  BY <1>4, <1>9
<1>13. q' = [r \in Terms |-> q'[r]] BY <1>1, <1>2 DEF OutputTypes
<1>14. \A r \in Sessions \ (Sessions \cup {}) : seen[r] = <<>> /\ q'[r] = <<>> OBVIOUS
<1>15. Iterate(d, Cardinality(Sessions), Sessions, {}) BY <1>1, <1>5
<1> QED BY <1>1, <1>2, <1>3, <1>10, <1>11, <1>12, <1>13, <1>14, <1>15, OutputIterates

LEMMA OutputPuts ==
  ASSUME OutputInv, PutWaits
  PROVE  OutputInv'
<1>1. PICK p, d : p = rd.r /\ d = rd.d OBVIOUS
<1>2. /\ rd.at = "put" /\ q' = [q EXCEPT ![p] = Append(q[p], d)]
      /\ UNCHANGED <<st, seen, written, cons_wbuf, fromDev>>
      /\ Iterate(d, rd.size, rd.todo, rd.done \cup {p})
  BY <1>1 DEF PutWaits, Put, Room, outVars, netVars, counts, history
<1>3. OutputTypes /\ Newcomers BY DEF OutputInv
<1>4. p \in Terms /\ p \notin rd.done BY <1>1, <1>2, <1>3 DEF Newcomers
<1>5. PICK f, wb, n, l, net, todo, done, given :
        /\ f = Data(fromDev) /\ wb = cons_wbuf /\ n = written /\ l = lost /\ net = Net
        /\ todo = rd.todo /\ done = rd.done /\ given = done \cup {p}
  OBVIOUS
<1>6. Output(d, f, wb, n, l) BY <1>1, <1>5 DEF OutputInv
<1>7. q = [r \in Terms |-> q[r]] BY <1>3 DEF OutputTypes
<1>8. /\ q' = [r \in Terms |-> q'[r]] /\ q'[p] = Append(q[p], d)
      /\ \A r \in Terms : r # p => q'[r] = q[r]
  BY <1>2, <1>4, <1>7
<1>9. net = Els(f) \cup ToSet(wb) /\ Net' = net /\ Data(fromDev') = f BY <1>2, <1>5 DEF Net
<1>10. ASSUME NEW r \in Sessions
       PROVE  Shown(seen[r], q'[r], IF r \in given THEN {} ELSE ToSet(d), net, n, l)
  <2>1. r \in Terms BY DEF Sessions
  <2>2. PICK s, qs, next : s = seen[r] /\ qs = q[r] /\ next = Coming(r) OBVIOUS
  <2>3. Shown(s, qs, next, net, n, l) BY <1>5, <2>2 DEF OutputInv
  <2>4. next = IF r \in done THEN {} ELSE ToSet(d) BY <1>1, <1>2, <1>5, <2>2 DEF Coming
  <2>5. CASE r = p
    <3>1. next = ToSet(d) BY <2>4, <2>5, <1>4, <1>5
    <3>2. Shown(s, Append(qs, d), {}, net, n, l) BY <3>1, <2>3, <1>6, <1>9, ShownPut
    <3> QED BY <3>2, <2>2, <2>5, <1>5, <1>8
  <2>6. CASE r # p
    BY <2>1, <2>2, <2>3, <2>4, <2>6, <1>5, <1>8
  <2> QED BY <2>5, <2>6
<1>11. \A r \in Terms : /\ st[r] = "none" => q'[r] = <<>> /\ r \notin todo \cup given
                        /\ r \notin Sessions => seen[r] = <<>>
  BY <1>1, <1>2, <1>3, <1>5, <1>8 DEF Newcomers
<1>12. \A r \in Sessions \ (todo \cup given) : seen[r] = <<>> /\ q'[r] = <<>>
  BY <1>2, <1>3, <1>5, <1>8 DEF Newcomers, Sessions
<1>13. /\ fromDev' \in Seq(Messages)
       /\ \A k \in DOMAIN fromDev' : fromDev'[k].a # "c" => fromDev'[k].d = <<>>
  BY <1>2, <1>3 DEF OutputTypes
<1>14. Output(d, Data(fromDev'), cons_wbuf, written, lost) BY <1>5, <1>6, <1>9
<1>15. \A r \in Sessions : Shown(seen[r], q'[r], IF r \in given THEN {} ELSE ToSet(d), Net', written, lost)
  BY <1>5, <1>9, <1>10
<1>16. Iterate(d, rd.size, todo, given) BY <1>2, <1>5
<1> QED BY <1>2, <1>3, <1>8, <1>11, <1>12, <1>13, <1>14, <1>15, <1>16, OutputIterates

\* A cx is received: sessions close, none comes or goes.
LEMMA OutputExit ==
  ASSUME OutputInv, MuxExit
  PROVE  OutputInv'
<1>1. /\ rd.at = "read" /\ fromDev # <<>> /\ Head(fromDev).a = "cx" /\ fromDev' = Tail(fromDev)
      /\ UNCHANGED <<q, seen, written, cons_wbuf, rd, lost>>
  BY DEF MuxExit, Receive, outVars, counts
<1>2. OutputTypes /\ Newcomers /\ rd.d = <<>> BY <1>1 DEF OutputInv, OutputTypes
<1>3. PICK closed : st' = [r \in Terms |-> IF r \in closed /\ st[r] = "run" THEN "closing" ELSE st[r]]
  BY DEF MuxExit, Close
<1>4. Sessions' = Sessions /\ \A r \in Terms : st'[r] = "none" <=> st[r] = "none"
  BY <1>3 DEF Sessions
<1>5. /\ fromDev' \in Seq(Messages) /\ Data(fromDev') = Tail(Data(fromDev))
      /\ Data(fromDev) # <<>> /\ Head(Data(fromDev)) = <<>>
      /\ \A k \in DOMAIN fromDev' : fromDev'[k].a # "c" => fromDev'[k].d = <<>>
  BY <1>1, <1>2, TypesTail
<1>6. PICK f, wb : f = Data(fromDev) /\ wb = cons_wbuf OBVIOUS
<1>7. Output(<<>>, f, wb, written, lost) BY <1>2, <1>6 DEF OutputInv
<1>8. Output(<<>>, Tail(f), wb, written, lost) /\ Els(f) = ToSet(<<>>) \cup Els(Tail(f))
  BY <1>5, <1>6, <1>7, OutputReceived
<1>9. Net' = Net BY <1>1, <1>5, <1>6, <1>8, EmptyChunks DEF Net
<1>10. OutputTypes'
  <2>1. st' = [r \in Terms |-> st'[r]] BY <1>3
  <2> QED BY <1>1, <1>2, <1>5, <2>1 DEF OutputTypes
<1>11. Newcomers' BY <1>1, <1>2, <1>4 DEF Newcomers
<1>12. \A r \in Sessions : Coming(r)' = Coming(r) BY <1>1 DEF Coming
<1>13. \A r \in Sessions : Shown(seen'[r], q'[r], Coming(r)', Net', written', lost')
  BY <1>1, <1>9, <1>12 DEF OutputInv
<1>14. Output(rd'.d, Data(fromDev'), cons_wbuf', written', lost')
  BY <1>1, <1>2, <1>5, <1>6, <1>8
<1> QED BY <1>4, <1>10, <1>11, <1>13, <1>14 DEF OutputInv

\* Sessions begin, close and end; a terminal reads.
LEMMA OutputTerminal ==
  ASSUME OutputInv, NEW r \in Terms, Session(r) \/ TermConnects(r) \/ TermTypes(r) \/ TermLeaves(r)
  PROVE  OutputInv'
<1>1. UNCHANGED <<written, fromDev, rd, cons_wbuf, lost>>
  BY DEF Session, SendInit, TermReads, SessionEnds, TermConnects, TermTypes, TermLeaves,
         outVars, netVars, counts, muxVars
<1>2. Net' = Net /\ \A p \in Terms : Coming(p)' = Coming(p) BY <1>1 DEF Net, Coming
<1>3. Output(rd.d, Data(fromDev), cons_wbuf, written, lost)' BY <1>1 DEF OutputInv
<1>4. /\ OutputTypes /\ Newcomers
      /\ \A p \in Sessions : Shown(seen[p], q[p], Coming(p), Net, written, lost)
  BY DEF OutputInv
<1>5. CASE TermTypes(r)
  BY <1>1, <1>5, OutputFrame DEF TermTypes, outputVars, muxVars, history
<1>6. CASE SendInit(r) \/ TermLeaves(r)
  <2>1. /\ UNCHANGED <<q, seen>> /\ st[r] \in {"init", "run"}
        /\ st' = [st EXCEPT ![r] = "run"] \/ st' = [st EXCEPT ![r] = "closing"]
    BY <1>6 DEF SendInit, TermLeaves, history
  <2>2. /\ Sessions' = Sessions /\ \A p \in Terms : st'[p] = "none" <=> st[p] = "none"
        /\ st' = [p \in Terms |-> st'[p]]
    BY <2>1, <1>4 DEF Sessions, OutputTypes
  <2>3. OutputTypes' BY <1>1, <1>4, <2>1, <2>2 DEF OutputTypes
  <2>4. Newcomers' BY <1>1, <1>4, <2>1, <2>2 DEF Newcomers
  <2>5. \A p \in Sessions' : Shown(seen'[p], q'[p], Coming(p)', Net', written', lost')
    BY <1>1, <1>2, <1>4, <2>1, <2>2 DEF Sessions
  <2> QED BY <1>3, <2>3, <2>4, <2>5 DEF OutputInv
<1>7. CASE TermConnects(r)
  <2>1. UNCHANGED <<q, seen>> /\ st[r] = "none" /\ st' = [st EXCEPT ![r] = "init"]
    BY <1>7 DEF TermConnects, history
  <2>2. /\ Sessions' = Sessions \cup {r} /\ r \notin Sessions
        /\ \A p \in Terms : st'[p] = "none" => st[p] = "none"
        /\ st' = [p \in Terms |-> st'[p]]
    BY <2>1, <1>4 DEF Sessions, OutputTypes
  <2>3. q[r] = <<>> /\ seen[r] = <<>> BY <2>1, <2>2, <1>4 DEF Newcomers
  <2>4. OutputTypes' BY <1>1, <1>4, <2>1, <2>2 DEF OutputTypes
  <2>5. Newcomers'
    <3>1. \A p \in Terms : /\ st'[p] = "none" => q'[p] = <<>>
                           /\ p \notin Sessions' => seen'[p] = <<>>
      BY <1>4, <2>1, <2>2 DEF Newcomers
    <3>2. rd'.at = "put" =>
             /\ rd'.r \in Terms \ rd'.done
             /\ \A p \in Terms : st'[p] = "none" => p \notin rd'.todo \cup rd'.done \cup {rd'.r}
             /\ \A p \in Sessions' \ (rd'.todo \cup rd'.done) : seen'[p] = <<>> /\ q'[p] = <<>>
      BY <1>1, <1>4, <2>1, <2>2, <2>3 DEF Newcomers
    <3> QED BY <3>1, <3>2 DEF Newcomers
  <2>6. ASSUME NEW p \in Sessions' PROVE Shown(seen'[p], q'[p], Coming(p)', Net', written', lost')
    <3>1. p \in Terms BY DEF Sessions
    <3>2. CASE p = r
      BY <2>1, <2>3, <3>2, ShownNew
    <3>3. CASE p # r
      BY <1>1, <1>2, <1>4, <2>1, <2>2, <3>1, <3>3
    <3> QED BY <3>2, <3>3
  <2> QED BY <1>3, <2>4, <2>5, <2>6 DEF OutputInv
<1>8. CASE TermReads(r)
  <2>1. /\ UNCHANGED st /\ st[r] = "run" /\ q[r] # <<>>
        /\ seen' = [seen EXCEPT ![r] = @ \o Head(q[r])] /\ q' = [q EXCEPT ![r] = Tail(@)]
    BY <1>8 DEF TermReads
  <2>2. /\ seen' = [p \in Terms |-> seen'[p]] /\ q' = [p \in Terms |-> q'[p]]
        /\ seen'[r] = seen[r] \o Head(q[r]) /\ q'[r] = Tail(q[r])
        /\ \A p \in Terms : p # r => seen'[p] = seen[p] /\ q'[p] = q[p]
    BY <2>1, <1>4 DEF OutputTypes
  <2>3. Sessions' = Sessions /\ r \in Sessions BY <2>1 DEF Sessions
  <2>4. OutputTypes' BY <1>1, <1>4, <2>1, <2>2 DEF OutputTypes
  <2>5. Newcomers'
    <3>1. \A p \in Terms : /\ st'[p] = "none" => q'[p] = <<>>
                           /\ p \notin Sessions' => seen'[p] = <<>>
      BY <1>4, <2>1, <2>2, <2>3 DEF Newcomers
    <3>2. rd'.at = "put" =>
             /\ rd'.r \in Terms \ rd'.done
             /\ \A p \in Terms : st'[p] = "none" => p \notin rd'.todo \cup rd'.done \cup {rd'.r}
             /\ \A p \in Sessions' \ (rd'.todo \cup rd'.done) : seen'[p] = <<>> /\ q'[p] = <<>>
      <4> HAVE rd'.at = "put"
      <4>1. r \in rd.todo \cup rd.done BY <1>1, <1>4, <2>1, <2>3 DEF Newcomers
      <4>2. \A p \in Sessions \ (rd.todo \cup rd.done) : p \in Terms /\ p # r BY <4>1 DEF Sessions
      <4> QED BY <1>1, <1>4, <2>1, <2>2, <2>3, <4>2 DEF Newcomers
    <3> QED BY <3>1, <3>2 DEF Newcomers
  <2>6. ASSUME NEW p \in Sessions' PROVE Shown(seen'[p], q'[p], Coming(p)', Net', written', lost')
    <3>1. p \in Terms /\ p \in Sessions BY <2>3 DEF Sessions
    <3>2. Shown(seen[p], q[p], Coming(p), Net, written, lost) BY <3>1, <1>4
    <3>3. CASE p = r
      <4>1. PICK s, qs, next, net : s = seen[p] /\ qs = q[p] /\ next = Coming(p) /\ net = Net OBVIOUS
      <4>2. qs # <<>> BY <4>1, <3>3, <2>1
      <4>3. Shown(s \o Head(qs), Tail(qs), next, net, written, lost) BY <3>2, <4>1, <4>2, ShownReads
      <4> QED BY <1>1, <1>2, <2>2, <3>1, <3>3, <4>1, <4>3
    <3>4. CASE p # r
      BY <1>1, <1>2, <2>2, <3>1, <3>2, <3>4
    <3> QED BY <3>3, <3>4
  <2> QED BY <1>3, <2>4, <2>5, <2>6 DEF OutputInv
<1>9. CASE SessionEnds(r)
  <2>1. /\ st[r] = "closing" /\ st' = [st EXCEPT ![r] = "gone"]
        /\ seen' = [seen EXCEPT ![r] = <<>>]
        /\ q' = q \/ q' = [q EXCEPT ![r] = <<>>]
    BY <1>9 DEF SessionEnds
  <2>2. /\ seen' = [p \in Terms |-> seen'[p]] /\ q' = [p \in Terms |-> q'[p]] /\ st' = [p \in Terms |-> st'[p]]
        /\ seen'[r] = <<>> /\ st'[r] = "gone"
        /\ \A p \in Terms : p # r => seen'[p] = seen[p] /\ q'[p] = q[p] /\ st'[p] = st[p]
    BY <2>1, <1>4 DEF OutputTypes
  <2>3. Sessions' = Sessions \ {r} BY <2>2 DEF Sessions
  <2>4. OutputTypes' BY <1>1, <1>4, <2>2 DEF OutputTypes
  <2>5. Newcomers'
    <3>1. ASSUME NEW p \in Terms
          PROVE  /\ st'[p] = "none" => q'[p] = <<>> /\ st[p] = "none"
                 /\ p \notin Sessions' => seen'[p] = <<>>
      <4>1. CASE p = r
        BY <4>1, <2>2
      <4>2. CASE p # r
        BY <4>2, <1>4, <2>2, <2>3 DEF Newcomers
      <4> QED BY <4>1, <4>2
    <3>2. rd'.at = "put" =>
             /\ rd'.r \in Terms \ rd'.done
             /\ \A p \in Terms : st'[p] = "none" => p \notin rd'.todo \cup rd'.done \cup {rd'.r}
             /\ \A p \in Sessions' \ (rd'.todo \cup rd'.done) : seen'[p] = <<>> /\ q'[p] = <<>>
      BY <1>1, <1>4, <2>2, <2>3, <3>1 DEF Newcomers, Sessions
    <3> QED BY <3>1, <3>2 DEF Newcomers
  <2>6. \A p \in Sessions' : Shown(seen'[p], q'[p], Coming(p)', Net', written', lost')
    BY <1>1, <1>2, <1>4, <2>2, <2>3 DEF Sessions
  <2> QED BY <1>3, <2>4, <2>5, <2>6 DEF OutputInv
<1> QED BY <1>5, <1>6, <1>7, <1>8, <1>9 DEF Session

LEMMA OutputDisconnected ==
  ASSUME OutputInv, Disconnected
  PROVE  OutputInv'
<1>1. /\ fromDev' = <<>> /\ rd' = Reading
      /\ st' = [r \in Terms |-> IF st[r] = "none" THEN "none" ELSE "gone"]
      /\ q' = [r \in Terms |-> <<>>] /\ seen' = [r \in Terms |-> <<>>]
      /\ UNCHANGED <<written, cons_wbuf, lost>>
  BY DEF Disconnected, outVars
<1>2. rd'.at = "read" /\ rd'.d = <<>> BY <1>1 DEF Reading
<1>3. Sessions' = {} BY <1>1 DEF Sessions
<1>4. PICK d, f, wb : d = rd.d /\ f = Data(fromDev) /\ wb = cons_wbuf OBVIOUS
<1>5. Output(d, f, wb, written, lost) BY <1>4 DEF OutputInv
<1>6. Output(<<>>, <<>>, wb, written, lost) BY <1>5, OutputEnds
<1>7. Data(fromDev') = <<>> BY <1>1 DEF Data
<1>8. OutputTypes'
  <2>1. fromDev' \in Seq(Messages) BY <1>1
  <2> QED BY <1>1, <1>2, <2>1 DEF OutputInv, OutputTypes
<1>9. Newcomers' BY <1>1, <1>2, <1>3 DEF Newcomers
<1>10. Output(rd'.d, Data(fromDev'), cons_wbuf', written', lost') BY <1>1, <1>2, <1>4, <1>6, <1>7
<1> QED BY <1>3, <1>8, <1>9, <1>10 DEF OutputInv

LEMMA OutputStep == OutputInv /\ [Next]_vars => OutputInv'
<1> SUFFICES ASSUME OutputInv, [Next]_vars PROVE OutputInv' OBVIOUS
<1>1. CASE UNCHANGED vars
  BY <1>1, OutputFrame DEF vars, outputVars, outVars, netVars, muxVars, counts, history
<1>2. CASE Writer
  BY <1>2, OutputWriter
<1>3. CASE ConsoleInit
  <2>1. UNCHANGED <<written, st, q, seen, rd, cons_wbuf, lost>> /\ fromDev' \in {fromDev, Append(fromDev, Cx)}
    BY <1>3 DEF ConsoleInit, UseConsole, outVars, muxVars, counts, history
  <2> QED BY <2>1, OutputFrame, OutputCx DEF outputVars
<1>4. CASE ConsoleExit \/ ConsoleData
  BY <1>4, OutputFrame DEF ConsoleExit, ConsoleData, outputVars, outVars, muxVars, counts, history
<1>5. CASE WriteEnd \/ StopSets \/ StopRemoves \/ CloseTests \/ Published
  BY <1>5, OutputFrame DEF WriteEnd, StopSets, StopRemoves, CloseTests, Published,
                           outputVars, outVars, netVars, muxVars, counts, history
<1>6. CASE CloseSets
  <2>1. UNCHANGED <<written, st, q, seen, rd, cons_wbuf, lost>> /\ fromDev' \in {fromDev, Append(fromDev, Cx)}
    BY <1>6 DEF CloseSets, outVars, muxVars, counts
  <2> QED BY <2>1, OutputFrame, OutputCx DEF outputVars
<1>7. CASE StopDisconnects
  <2>1. CASE client
    BY <1>7, <2>1, OutputDisconnected DEF StopDisconnects
  <2>2. CASE ~client
    BY <1>7, <2>2, OutputFrame DEF StopDisconnects, outputVars, outVars, netVars, muxVars, counts, history
  <2> QED BY <2>1, <2>2
<1>8. CASE Reader
  BY <1>8, OutputConsole, OutputPuts, OutputExit DEF Reader
<1>9. CASE \E r \in Terms : Session(r) \/ TermConnects(r) \/ TermTypes(r) \/ TermLeaves(r)
  BY <1>9, OutputTerminal
<1>10. CASE WriteBegin \/ CallbackPrints
  BY <1>10, OutputWritten DEF WriteBegin, CallbackPrints, netVars, muxVars, history
<1>11. CASE Publish \/ StopBegin \/ TakeoverBegin \/ OtherLeaves \/ Reconnect
  BY <1>11, OutputFrame DEF Publish, StopBegin, TakeoverBegin, OtherLeaves, Reconnect,
                            outputVars, outVars, netVars, muxVars, counts, history
<1>12. CASE Takeover
  <2>1. UNCHANGED <<written, st, q, seen, rd, cons_wbuf, lost>> /\ fromDev' \in {fromDev, Append(fromDev, Cx)}
    BY <1>12 DEF Takeover, CloseConsole, outVars, muxVars, history
  <2> QED BY <2>1, OutputFrame, OutputCx DEF outputVars
<1>13. CASE ReadLine \/ \E n \in 1 .. 2 : Read(n)
  BY <1>13, OutputFrame DEF ReadLine, Read, Reads, outputVars, outVars, netVars, muxVars, counts
<1>14. CASE MuxDies
  BY <1>14, OutputDisconnected DEF MuxDies
<1> QED BY <1>1, <1>2, <1>3, <1>4, <1>5, <1>6, <1>7, <1>8, <1>9, <1>10, <1>11, <1>12, <1>13, <1>14
        DEF Next, Callbacks, Program

-----------------------------------------------------------------------------

\* Chunks that follow each other in what a terminal has had.
LEMMA NoGap ==
  ASSUME NEW s, NEW qs, NEW next, NEW net, NEW n \in Nat, NEW l, Shown(s, qs, next, net, n, l),
         next \subseteq Nat, net \subseteq Nat, NEW k \in 1 .. Len(s) - 1
  PROVE  s[k] < s[k + 1] /\ Between(s[k], s[k + 1]) \subseteq l
<1>1. s \in Seq(Nat) /\ qs \in Seq(Seq(Nat)) /\ Rises(s) BY DEF Shown
<1>2. Len(s) \in Nat /\ DOMAIN s = 1 .. Len(s) /\ k \in DOMAIN s /\ k + 1 \in DOMAIN s /\ k < k + 1
  BY <1>1
<1>3. PICK x, y : x = s[k] /\ y = s[k + 1] OBVIOUS
<1>4. x \in Nat /\ y \in Nat /\ x < y BY <1>1, <1>2, <1>3 DEF Rises
<1>5. x \in ToSet(s) /\ y \in ToSet(s) BY <1>2, <1>3 DEF ToSet
<1>6. ASSUME NEW z \in Between(x, y) PROVE z \in l
  <2>1. z \in 1 .. Max({x, y}) /\ x < z /\ z < y BY DEF Between
  <2>2. Max({x, y}) \in {x, y}
    <3>1. y \in {x, y} /\ \A u \in {x, y} : y >= u BY <1>4
    <3> QED BY <3>1 DEF Max
  <2>3. z \in Nat /\ 1 <= z BY <2>1, <2>2, <1>4
  <2>4. y <= n BY <1>5 DEF Shown
  <2>5. z \in 1 .. n BY <2>1, <2>3, <2>4, <1>4
  <2>6. z \in ToSet(s) \cup Els(qs) \cup next \cup net \cup l BY <1>5, <2>1, <2>5 DEF Shown, Follows
  <2>7. z \notin ToSet(s)
    <3> SUFFICES ASSUME z \in ToSet(s) PROVE FALSE OBVIOUS
    <3>1. PICK j \in DOMAIN s : z = s[j] BY DEF ToSet
    <3>2. j < k \/ j = k \/ j = k + 1 \/ k + 1 < j BY <3>1, <1>2
    <3>3. j < k => z < x BY <3>1, <1>1, <1>2, <1>3 DEF Rises
    <3>4. k + 1 < j => y < z BY <3>1, <1>1, <1>2, <1>3 DEF Rises
    <3>5. j = k => z = x BY <3>1, <1>3
    <3>6. j = k + 1 => z = y BY <3>1, <1>3
    <3> QED BY <3>2, <3>3, <3>4, <3>5, <3>6, <2>1, <2>3, <1>4
  <2>8. z \in Els(qs) \cup next \cup net => y < z BY <1>5 DEF Shown, Before
  <2>9. z \notin Els(qs) \cup next \cup net BY <2>1, <2>3, <2>8, <1>4
  <2> QED BY <2>6, <2>7, <2>9
<1> QED BY <1>3, <1>4, <1>6

LEMMA InvInOrder == InputInv /\ OutputInv => InOrder
<1> SUFFICES ASSUME InputInv, OutputInv PROVE InOrder OBVIOUS
<1>1. ASSUME NEW r \in Terms, NEW k \in 1 .. Len(seen[r]) - 1
      PROVE  /\ seen[r][k] < seen[r][k + 1]
             /\ Between(seen[r][k], seen[r][k + 1]) \subseteq lost
  <2>1. CASE r \in Sessions
    <3>1. Shown(seen[r], q[r], Coming(r), Net, written, lost) BY <2>1 DEF OutputInv
    <3>2. written \in Nat BY DEF OutputInv, OutputTypes
    <3>3. Coming(r) \subseteq Nat /\ Net \subseteq Nat
      BY NumbersOfSeq, NumbersOfChunks DEF OutputInv, Output, Coming, Net
    <3>4. PICK s, qs, next, net : s = seen[r] /\ qs = q[r] /\ next = Coming(r) /\ net = Net OBVIOUS
    <3>5. s[k] < s[k + 1] /\ Between(s[k], s[k + 1]) \subseteq lost
      BY <3>1, <3>2, <3>3, <3>4, NoGap
    <3> QED BY <3>4, <3>5
  <2>2. CASE r \notin Sessions
    <3>1. seen[r] = <<>> BY <2>2 DEF OutputInv, Newcomers
    <3>2. Len(seen[r]) - 1 = -1 BY <3>1
    <3> QED BY <3>2
  <2> QED BY <2>1, <2>2
<1>2. ASSUME NEW k \in 1 .. Len(got) - 1 PROVE got[k] < got[k + 1]
  <2>1. got \in Seq(Nat) /\ Rises(got) BY DEF InputInv, Input
  <2>2. k \in DOMAIN got /\ k + 1 \in DOMAIN got /\ k < k + 1 BY <2>1
  <2> QED BY <2>1, <2>2 DEF Rises
<1> QED BY <1>1, <1>2 DEF InOrder

\* The strengthened invariants.
THEOREM InputInvariance == Spec => []InputInv
BY InputInit, InputStep, PTL DEF Spec

THEOREM OutputInvariance == Spec => []OutputInv
BY OutputInit, OutputStep, PTL DEF Spec

\* Each terminal shows what is printed in order, once, and without a gap but
\* for what the code drops, whatever sessions come and go while cmd_c hands a
\* chunk round; the REPL reads what is typed in order (ufuse.py:525, :566,
\* multiplex.py:519).
THEOREM ConsoleInOrder == Spec => []InOrder
BY InputInvariance, OutputInvariance, InvInOrder, PTL

=============================================================================
