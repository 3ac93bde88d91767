--------------------------- MODULE MsgStream_proofs ---------------------------
(***************************************************************************)
(* The buffers at the device's end of the stream: InStep, TooLongOnly and  *)
(* NotTorn, for any messages, any sizes of buffers, any cuts, and every    *)
(* codec that does what CodecRight says.                                   *)
(***************************************************************************)
EXTENDS MsgStream, WellFoundedInduction, SequenceTheorems, TLAPS

-----------------------------------------------------------------------------
(* Sequences.                                                              *)

\* What holds of 1, and of a number when it does of the one before, holds up
\* to n.
LEMMA UpTo ==
  ASSUME NEW n \in Nat, NEW G, 1 \in G,
         \A m \in 1 .. n : m # 1 /\ m - 1 \in G => m \in G
  PROVE  \A m \in 1 .. n : m \in G
<1> DEFINE R == OpToRel(<, Nat)
           Bad == {m \in 1 .. n : m \notin G}
<1> SUFFICES ASSUME Bad # {} PROVE FALSE OBVIOUS
<1>1. IsWellFoundedOn(R, Nat) BY NatLessThanWellFounded
<1>2. \A x, y \in Nat : x < y => <<x, y>> \in R BY DEF OpToRel
<1>3. Bad \in SUBSET Nat OBVIOUS
<1> HIDE DEF R
<1>4. PICK m \in Bad : \A k \in Bad : <<k, m>> \notin R BY <1>1, <1>3, WFMin
<1>5. m \in 1 .. n /\ m > 1 /\ m - 1 \in 1 .. n /\ m - 1 < m OBVIOUS
<1>6. m - 1 \in Nat /\ m \in Nat BY <1>5
<1>7. <<m - 1, m>> \in R BY <1>2, <1>5, <1>6
<1>8. m - 1 \notin Bad BY <1>4, <1>7
<1>9. m - 1 \in G BY <1>5, <1>8
<1> QED BY <1>5, <1>9

Regroups(x, y, z) == (x \o y) \o z = x \o (y \o z)

LEMMA Associative ==
  \A S : \A x, y, z \in Seq(S) : Regroups(x, y, z)
BY ConcatAssociative DEF Regroups

\* What FlattenSeq's recursion is.
Flat(ss, f) ==
    /\ f = [i \in 1 .. Len(ss) |-> f[i]]
    /\ \A i \in 1 .. Len(ss) : f[i] = IF i = 1 THEN ss[i] ELSE f[i - 1] \o ss[i]

LEMMA FlattenFunction ==
  ASSUME NEW S, NEW ss \in Seq(Seq(S)), ss # <<>>
  PROVE  \E f : Flat(ss, f) /\ FlattenSeq(ss) = f[Len(ss)]
<1> DEFINE Is(f, n) == f = [i \in 1 .. n |-> IF i = 1 THEN ss[i] ELSE f[i - 1] \o ss[i]]
           G == {n \in 1 .. Len(ss) : \E f : Is(f, n)}
<1> HIDE DEF Is, G
<1>1. Len(ss) \in Nat /\ Len(ss) # 0 /\ Len(ss) \in 1 .. Len(ss) /\ 1 \in 1 .. Len(ss)
  OBVIOUS
<1>2. 1 \in G
  <2>1. Is([i \in 1 .. 1 |-> ss[1]], 1) BY DEF Is
  <2> QED BY <2>1, <1>1 DEF G
<1>3. ASSUME NEW m \in 1 .. Len(ss), m # 1, m - 1 \in G PROVE m \in G
  <2>1. PICK g : Is(g, m - 1) BY <1>3 DEF G
  <2> DEFINE h == [i \in 1 .. m |-> IF i = m THEN g[m - 1] \o ss[m] ELSE g[i]]
  <2>2. ASSUME NEW i \in 1 .. m PROVE h[i] = IF i = 1 THEN ss[i] ELSE h[i - 1] \o ss[i]
    <3>1. CASE i = m
      <4>1. m - 1 \in 1 .. m /\ m - 1 # m BY <1>1, <1>3
      <4>0. m \in 1 .. m BY <1>1
      <4>2. h[m] = g[m - 1] \o ss[m] BY <4>0
      <4>3. h[m - 1] = g[m - 1] BY <4>1
      <4> QED BY <3>1, <4>2, <4>3, <1>3
    <3>2. CASE i # m
      <4>1. i \in 1 .. m - 1 BY <3>2, <1>1
      <4>2. g[i] = IF i = 1 THEN ss[i] ELSE g[i - 1] \o ss[i] BY <4>1, <2>1 DEF Is
      <4>3. i # 1 => i - 1 \in 1 .. m /\ i - 1 # m BY <4>1, <1>1
      <4> QED BY <4>2, <4>3, <3>2
    <3> QED BY <3>1, <3>2
  <2>3. h = [i \in 1 .. m |-> h[i]] OBVIOUS
  <2>4. Is(h, m) BY <2>2, <2>3 DEF Is
  <2> QED BY <2>4 DEF G
<1>4. Len(ss) \in G BY <1>1, <1>2, <1>3, UpTo
<1>5. \E f : Is(f, Len(ss)) BY <1>4 DEF G
<1>6. PICK f : f = (CHOOSE g : Is(g, Len(ss))) OBVIOUS
<1>7. Is(f, Len(ss)) BY <1>5, <1>6
<1>8. FlattenSeq(ss) = f[Len(ss)] BY <1>1, <1>6 DEF FlattenSeq, Is
<1>9. Flat(ss, f) BY <1>7 DEF Flat, Is
<1> QED BY <1>8, <1>9

\* A step of it.
LEMMA FlatStep ==
  ASSUME NEW ss, NEW f, Flat(ss, f), NEW i \in 1 .. Len(ss), i # 1
  PROVE  f[i] = f[i - 1] \o ss[i]
BY DEF Flat

LEMMA FlatType ==
  ASSUME NEW S, NEW ss \in Seq(Seq(S)), NEW f, Flat(ss, f)
  PROVE  \A i \in 1 .. Len(ss) : f[i] \in Seq(S)
<1>1. CASE ss = <<>> BY <1>1
<1>2. CASE ss # <<>>
  <2>1. Len(ss) \in Nat /\ 1 \in 1 .. Len(ss) BY <1>2
  <2>2. \A i \in 1 .. Len(ss) : ss[i] \in Seq(S) BY ElementOfSeq
  <2> DEFINE G == {i \in 1 .. Len(ss) : f[i] \in Seq(S)}
  <2> HIDE DEF G
  <2>3. 1 \in G BY <2>1, <2>2 DEF Flat, G
  <2>4. ASSUME NEW m \in 1 .. Len(ss), m # 1, m - 1 \in G PROVE m \in G
    <3>1. f[m] = f[m - 1] \o ss[m] BY <2>4, FlatStep
    <3>2. f[m - 1] \in Seq(S) /\ ss[m] \in Seq(S) BY <2>2, <2>4 DEF G
    <3> QED BY <3>1, <3>2, ConcatProperties DEF G
  <2>5. \A m \in 1 .. Len(ss) : m \in G BY <2>1, <2>3, <2>4, UpTo
  <2> QED BY <2>5 DEF G
<1> QED BY <1>1, <1>2

LEMMA FlattenEmpty == FlattenSeq(<<>>) = <<>>
BY DEF FlattenSeq

LEMMA FlattenType ==
  ASSUME NEW S, NEW ss \in Seq(Seq(S))
  PROVE  FlattenSeq(ss) \in Seq(S)
<1>1. CASE ss = <<>>
  <2>1. <<>> \in Seq(S) OBVIOUS
  <2> QED BY <1>1, <2>1, FlattenEmpty
<1>2. CASE ss # <<>>
  <2>1. PICK f : Flat(ss, f) /\ FlattenSeq(ss) = f[Len(ss)] BY <1>2, FlattenFunction
  <2>2. Len(ss) \in 1 .. Len(ss) BY <1>2
  <2> QED BY <2>1, <2>2, FlatType
<1> QED BY <1>1, <1>2

\* One more at the end.
LEMMA FlattenAppend ==
  ASSUME NEW S, NEW ss \in Seq(Seq(S)), NEW x \in Seq(S)
  PROVE  FlattenSeq(Append(ss, x)) = FlattenSeq(ss) \o x
<1>1. PICK t : t = Append(ss, x) OBVIOUS
<1>2. /\ t \in Seq(Seq(S)) /\ t # <<>> /\ Len(t) = Len(ss) + 1 /\ Len(ss) \in Nat
      /\ \A i \in 1 .. Len(ss) : t[i] = ss[i]
      /\ t[Len(ss) + 1] = x
  BY <1>1, AppendProperties
<1>3. PICK g : Flat(t, g) /\ FlattenSeq(t) = g[Len(t)] BY <1>2, FlattenFunction
<1>4. CASE ss = <<>>
  <2>1. Len(t) = 1 /\ t[1] = x BY <1>2, <1>4
  <2>2. g[1] = x BY <2>1, <1>3 DEF Flat
  <2>3. FlattenSeq(ss) \o x = x BY <1>4, FlattenEmpty, ConcatEmptySeq
  <2> QED BY <2>1, <2>2, <2>3, <1>1, <1>3
<1>5. CASE ss # <<>>
  <2>1. PICK f : Flat(ss, f) /\ FlattenSeq(ss) = f[Len(ss)] BY <1>5, FlattenFunction
  <2>2. 1 \in 1 .. Len(ss) /\ Len(ss) \in 1 .. Len(ss) /\ Len(ss) + 1 \in 1 .. Len(t) BY <1>2, <1>5
  <2> DEFINE G == {i \in 1 .. Len(ss) : g[i] = f[i]}
  <2> HIDE DEF G
  <2>3. 1 \in G
    <3>0. 1 \in 1 .. Len(t) /\ t[1] = ss[1] BY <1>2, <2>2
    <3>1. g[1] = t[1] BY <1>3, <3>0 DEF Flat
    <3>2. f[1] = ss[1] BY <2>1, <2>2 DEF Flat
    <3> QED BY <3>0, <3>1, <3>2, <2>2 DEF G
  <2>4. ASSUME NEW m \in 1 .. Len(ss), m # 1, m - 1 \in G PROVE m \in G
    <3>1. m \in 1 .. Len(t) BY <1>2
    <3>2. g[m] = g[m - 1] \o t[m] BY <1>3, <2>4, <3>1, FlatStep
    <3>3. f[m] = f[m - 1] \o ss[m] BY <2>1, <2>4, FlatStep
    <3>4. g[m - 1] = f[m - 1] /\ t[m] = ss[m] BY <1>2, <2>4 DEF G
    <3> QED BY <3>2, <3>3, <3>4 DEF G
  <2>5. Len(ss) \in G BY <1>2, <2>2, <2>3, <2>4, UpTo
  <2>6. g[Len(ss)] = f[Len(ss)] BY <2>5 DEF G
  <2>7. Len(t) # 1 /\ Len(t) - 1 = Len(ss) /\ Len(t) \in 1 .. Len(t) BY <1>2, <2>2
  <2>8. g[Len(t)] = g[Len(ss)] \o t[Len(t)] BY <1>3, <2>7 DEF Flat
  <2>9. t[Len(t)] = x BY <1>2
  <2> QED BY <1>1, <1>3, <2>1, <2>6, <2>8, <2>9
<1> QED BY <1>4, <1>5

\* One more at the start.
LEMMA FlattenCons ==
  ASSUME NEW S, NEW ss \in Seq(Seq(S)), NEW x \in Seq(S)
  PROVE  FlattenSeq(<<x>> \o ss) = x \o FlattenSeq(ss)
<1>1. PICK t : t = <<x>> \o ss OBVIOUS
<1>0. <<x>> \in Seq(Seq(S)) /\ Len(<<x>>) = 1 /\ <<x>>[1] = x OBVIOUS
<1>2. /\ t \in Seq(Seq(S)) /\ Len(t) = 1 + Len(ss) /\ Len(ss) \in Nat
      /\ \A i \in 1 .. 1 + Len(ss) : t[i] = IF i <= 1 THEN <<x>>[i] ELSE ss[i - 1]
  BY <1>0, <1>1, ConcatProperties
<1>3. t # <<>> /\ t[1] = x /\ 1 \in 1 .. Len(t) BY <1>0, <1>2
<1>4. PICK g : Flat(t, g) /\ FlattenSeq(t) = g[Len(t)] BY <1>2, <1>3, FlattenFunction
<1>5. g[1] = x BY <1>3, <1>4 DEF Flat
<1>6. CASE ss = <<>>
  <2>1. Len(t) = 1 BY <1>2, <1>6
  <2>2. x \o FlattenSeq(ss) = x BY <1>6, FlattenEmpty, ConcatEmptySeq
  <2> QED BY <2>1, <2>2, <1>1, <1>4, <1>5
<1>7. CASE ss # <<>>
  <2>1. PICK f : Flat(ss, f) /\ FlattenSeq(ss) = f[Len(ss)] BY <1>7, FlattenFunction
  <2>2. 1 \in 1 .. Len(ss) /\ Len(ss) \in 1 .. Len(ss) BY <1>2, <1>7
  <2>3. \A i \in 1 .. Len(ss) : f[i] \in Seq(S) /\ ss[i] \in Seq(S) BY <2>1, FlatType, ElementOfSeq
  <2> DEFINE G == {i \in 1 .. Len(ss) : g[i + 1] = x \o f[i]}
  <2> HIDE DEF G
  <2>4. ASSUME NEW i \in 1 .. Len(ss) PROVE g[i + 1] = g[i] \o ss[i]
    <3>1. i + 1 \in 1 .. Len(t) /\ i + 1 # 1 /\ (i + 1) - 1 = i /\ ~(i + 1 <= 1) BY <1>2
    <3>2. g[i + 1] = g[(i + 1) - 1] \o t[i + 1] BY <1>4, <3>1 DEF Flat
    <3>3. t[i + 1] = ss[(i + 1) - 1] BY <1>2, <3>1
    <3> QED BY <3>1, <3>2, <3>3
  <2>5. 1 \in G
    <3>1. f[1] = ss[1] BY <2>1, <2>2 DEF Flat
    <3> QED BY <3>1, <2>2, <2>4, <1>5 DEF G
  <2>6. ASSUME NEW m \in 1 .. Len(ss), m # 1, m - 1 \in G PROVE m \in G
    <3>1. m - 1 \in 1 .. Len(ss) /\ (m - 1) + 1 = m BY <2>6
    <3>2. g[m + 1] = g[m] \o ss[m] BY <2>4
    <3>3. g[m] = x \o f[m - 1] BY <2>6, <3>1 DEF G
    <3>4. f[m] = f[m - 1] \o ss[m] BY <2>1, <2>6, FlatStep
    <3>5. PICK y \in Seq(S), z \in Seq(S) : y = f[m - 1] /\ z = ss[m] BY <2>3, <3>1
    <3>6. (x \o y) \o z = x \o (y \o z)
      <4>1. Regroups(x, y, z) BY Associative
      <4> QED BY <4>1 DEF Regroups
    <3> QED BY <3>2, <3>3, <3>4, <3>5, <3>6 DEF G
  <2>7. Len(ss) \in G BY <1>2, <2>2, <2>5, <2>6, UpTo
  <2>8. g[Len(ss) + 1] = x \o f[Len(ss)] BY <2>7 DEF G
  <2>9. Len(t) = Len(ss) + 1 BY <1>2
  <2> QED BY <2>8, <2>9, <2>1, <1>1, <1>4
<1> QED BY <1>6, <1>7

-----------------------------------------------------------------------------
(* The bytes of values and of messages.                                    *)

\* The bytes of the writes that _pack makes, and those of each message.
Pieces(v) == [k \in 1 .. Len(_pack(v)) |-> _pack(v)[k].b]
Codes(msgs) == [k \in 1 .. Len(msgs) |-> Encoded(msgs[k])]

LEMMA PiecesType ==
  ASSUME NEW v, Encodes(v)
  PROVE  /\ Pieces(v) \in Seq(Seq(Byte)) /\ Len(Pieces(v)) = Len(_pack(v))
         /\ Encoded(v) = FlattenSeq(Pieces(v))
         /\ Encoded(v) \in Seq(Byte)
<1>1. PICK w : w = _pack(v) OBVIOUS
<1>2. w \in Seq([how : {"wp", "wb"}, b : Seq(Byte)]) BY <1>1 DEF Encodes
<1>3. \A k \in 1 .. Len(w) : w[k] \in [how : {"wp", "wb"}, b : Seq(Byte)] BY <1>2, ElementOfSeq
<1>4. \A k \in 1 .. Len(w) : w[k].b \in Seq(Byte) BY <1>3
<1>5. Len(w) \in Nat BY <1>2
<1>6. PICK q : q = [k \in 1 .. Len(w) |-> w[k].b] OBVIOUS
<1>7. q \in [1 .. Len(w) -> Seq(Byte)] BY <1>4, <1>6
<1>8. q \in Seq(Seq(Byte)) /\ Len(q) = Len(w) BY <1>5, <1>7
<1>9. Pieces(v) = q BY <1>1, <1>6 DEF Pieces
<1>10. Encoded(v) = FlattenSeq(Pieces(v)) BY DEF Encoded, Pieces
<1> QED BY <1>1, <1>8, <1>9, <1>10, FlattenType

\* The values whose bytes the proofs speak of.
Coded(V) == \A v \in V : Encodes(v)

LEMMA CodedType ==
  ASSUME NEW V, Coded(V), NEW v \in V
  PROVE  Encoded(v) \in Seq(Byte) /\ Encoded(v) # <<>> /\ Len(Encoded(v)) \in Nat \ {0}
<1>1. Encodes(v) BY DEF Coded
<1>2. Encoded(v) \in Seq(Byte) BY <1>1, PiecesType
<1>3. Encoded(v) # <<>> BY <1>1 DEF Encodes
<1> QED BY <1>2, <1>3, EmptySeq

LEMMA CodesType ==
  ASSUME NEW V, Coded(V), NEW s \in Seq(V)
  PROVE  /\ Codes(s) \in Seq(Seq(Byte)) /\ Len(Codes(s)) = Len(s)
         /\ \A k \in 1 .. Len(s) : Codes(s)[k] = Encoded(s[k])
<1>1. \A k \in 1 .. Len(s) : s[k] \in V BY ElementOfSeq
<1>2. \A k \in 1 .. Len(s) : Encoded(s[k]) \in Seq(Byte) BY <1>1, CodedType
<1>3. Len(s) \in Nat OBVIOUS
<1>4. Codes(s) \in [1 .. Len(s) -> Seq(Byte)] BY <1>2 DEF Codes
<1>5. Codes(s) \in Seq(Seq(Byte)) /\ Len(Codes(s)) = Len(s) BY <1>3, <1>4
<1>6. \A k \in 1 .. Len(s) : Codes(s)[k] = Encoded(s[k]) BY DEF Codes
<1> QED BY <1>5, <1>6

LEMMA AllOfType ==
  ASSUME NEW V, Coded(V), NEW s \in Seq(V)
  PROVE  AllOf(s) = FlattenSeq(Codes(s)) /\ AllOf(s) \in Seq(Byte)
<1>1. AllOf(s) = FlattenSeq(Codes(s)) BY DEF AllOf, Codes
<1> QED BY <1>1, CodesType, FlattenType

LEMMA AllOfEmpty == AllOf(<<>>) = <<>>
<1>1. Codes(<<>>) = <<>> BY DEF Codes
<1>2. AllOf(<<>>) = FlattenSeq(Codes(<<>>)) BY DEF AllOf, Codes
<1> QED BY <1>1, <1>2, FlattenEmpty

LEMMA AllOfAppend ==
  ASSUME NEW V, Coded(V), NEW s \in Seq(V), NEW v \in V
  PROVE  AllOf(Append(s, v)) = AllOf(s) \o Encoded(v)
<1>1. PICK t \in Seq(V) : t = Append(s, v) BY AppendProperties
<1>2. /\ Len(t) = Len(s) + 1 /\ Len(s) \in Nat
      /\ \A k \in 1 .. Len(s) : t[k] = s[k]
      /\ t[Len(s) + 1] = v
  BY <1>1, AppendProperties
<1>3. PICK e \in Seq(Byte) : e = Encoded(v) BY CodedType
<1>4. PICK c \in Seq(Seq(Byte)) : c = Codes(s) BY CodesType
<1>5. PICK d \in Seq(Seq(Byte)) : d = Codes(t) BY CodesType
<1>6. Len(c) = Len(s) /\ \A k \in 1 .. Len(s) : c[k] = Encoded(s[k]) BY <1>4, CodesType
<1>7. Len(d) = Len(s) + 1 /\ \A k \in 1 .. Len(s) + 1 : d[k] = Encoded(t[k])
  BY <1>2, <1>5, CodesType
<1>8. d = Append(c, e)
  <2>1. PICK a \in Seq(Seq(Byte)) : a = Append(c, e) BY AppendProperties
  <2>2. /\ Len(a) = Len(c) + 1
        /\ \A k \in 1 .. Len(c) : a[k] = c[k]
        /\ a[Len(c) + 1] = e
    BY <2>1, AppendProperties
  <2>3. Len(a) = Len(d) BY <1>6, <1>7, <2>2
  <2>4. ASSUME NEW k \in 1 .. Len(d) PROVE d[k] = a[k]
    <3>1. CASE k = Len(s) + 1 BY <3>1, <1>2, <1>3, <1>6, <1>7, <2>2
    <3>2. CASE k # Len(s) + 1
      <4>1. k \in 1 .. Len(s) /\ k \in 1 .. Len(s) + 1 BY <3>2, <1>2, <1>7
      <4> QED BY <4>1, <1>2, <1>6, <1>7, <2>2
    <3> QED BY <3>1, <3>2
  <2>5. d = a BY <2>3, <2>4, SeqEqual
  <2> QED BY <2>1, <2>5
<1>9. FlattenSeq(Append(c, e)) = FlattenSeq(c) \o e BY FlattenAppend
<1>10. AllOf(s) = FlattenSeq(c) BY <1>4, AllOfType
<1>11. AllOf(t) = FlattenSeq(d) BY <1>5, AllOfType
<1> QED BY <1>1, <1>3, <1>8, <1>9, <1>10, <1>11

LEMMA AllOfHead ==
  ASSUME NEW V, Coded(V), NEW s \in Seq(V), s # <<>>
  PROVE  AllOf(s) = Encoded(Head(s)) \o AllOf(Tail(s))
<1>1. /\ Head(s) \in V /\ Tail(s) \in Seq(V)
      /\ Len(Tail(s)) = Len(s) - 1
      /\ \A k \in 1 .. Len(Tail(s)) : Tail(s)[k] = s[k + 1]
  BY HeadTailProperties
<1>2. PICK t \in Seq(V) : t = Tail(s) BY <1>1
<1>3. PICK e \in Seq(Byte) : e = Encoded(Head(s)) BY <1>1, CodedType
<1>4. PICK c \in Seq(Seq(Byte)) : c = Codes(t) BY CodesType
<1>5. PICK d \in Seq(Seq(Byte)) : d = Codes(s) BY CodesType
<1>6. Len(c) = Len(t) /\ \A k \in 1 .. Len(t) : c[k] = Encoded(t[k]) BY <1>4, CodesType
<1>7. Len(d) = Len(s) /\ \A k \in 1 .. Len(s) : d[k] = Encoded(s[k]) BY <1>5, CodesType
<1>8. Len(s) = 1 + Len(t) /\ Len(t) \in Nat BY <1>1, <1>2
<1>9. d = <<e>> \o c
  <2>0. <<e>> \in Seq(Seq(Byte)) /\ Len(<<e>>) = 1 /\ <<e>>[1] = e OBVIOUS
  <2>1. PICK a \in Seq(Seq(Byte)) : a = <<e>> \o c BY <2>0, ConcatProperties
  <2>2. /\ Len(a) = 1 + Len(c)
        /\ \A k \in 1 .. 1 + Len(c) : a[k] = IF k <= 1 THEN <<e>>[k] ELSE c[k - 1]
    BY <2>0, <2>1, ConcatProperties
  <2>3. Len(a) = Len(d) BY <1>6, <1>7, <1>8, <2>2
  <2>4. ASSUME NEW k \in 1 .. Len(d) PROVE d[k] = a[k]
    <3>0. k \in 1 .. Len(s) /\ k \in 1 .. 1 + Len(c) BY <1>6, <1>7, <1>8
    <3>1. CASE k = 1
      <4>1. a[k] = e BY <2>0, <2>2, <3>0, <3>1
      <4>2. d[k] = Encoded(s[1]) BY <1>7, <3>0, <3>1
      <4>3. Head(s) = s[1] OBVIOUS
      <4> QED BY <4>1, <4>2, <4>3, <1>3
    <3>2. CASE k # 1
      <4>1. k - 1 \in 1 .. Len(t) /\ ~(k <= 1) /\ (k - 1) + 1 = k BY <3>0, <3>2, <1>8
      <4>2. a[k] = c[k - 1] BY <2>2, <3>0, <4>1
      <4>3. c[k - 1] = Encoded(t[k - 1]) BY <1>6, <4>1
      <4>4. t[k - 1] = s[k] BY <1>1, <1>2, <4>1
      <4> QED BY <4>2, <4>3, <4>4, <1>7, <3>0
    <3> QED BY <3>1, <3>2
  <2>5. d = a BY <2>3, <2>4, SeqEqual
  <2> QED BY <2>1, <2>5
<1>10. FlattenSeq(<<e>> \o c) = e \o FlattenSeq(c) BY FlattenCons
<1>11. AllOf(s) = FlattenSeq(d) BY <1>5, AllOfType
<1>12. AllOf(t) = FlattenSeq(c) BY <1>4, AllOfType
<1> QED BY <1>2, <1>3, <1>9, <1>10, <1>11, <1>12

-----------------------------------------------------------------------------
(* The Packer's buffer loses and reorders nothing.                         *)

Chunk == Seq(Byte) \ {<<>>}
Buffer == [b : Seq(Byte), out : Seq(Chunk)]

\* What has been put into it.
Held(p) == FlattenSeq(p.out) \o p.b

Room == sc.size \in Nat /\ sc.size >= 9

LEMMA ChunksAreSeqs == ASSUME NEW out \in Seq(Chunk) PROVE out \in Seq(Seq(Byte))
BY SeqMonotonic DEF Chunk

LEMMA FlushKeeps ==
  ASSUME NEW p \in Buffer
  PROVE  flush(p) \in Buffer /\ flush(p).b = <<>> /\ Held(flush(p)) = Held(p)
<1>1. PICK x \in Seq(Byte), o \in Seq(Chunk) : x = p.b /\ o = p.out BY DEF Buffer
<1>2. <<>> \in Seq(Byte) OBVIOUS
<1>3. o \in Seq(Seq(Byte)) BY ChunksAreSeqs
<1>4. PICK f \in Seq(Byte) : f = FlattenSeq(o) BY <1>3, FlattenType
<1>5. Held(p) = f \o x BY <1>1, <1>4 DEF Held
<1>6. CASE x = <<>>
  <2>1. flush(p) = [b |-> <<>>, out |-> o] BY <1>1, <1>6 DEF flush
  <2>2. Held(flush(p)) = f \o <<>> BY <2>1, <1>4 DEF Held
  <2> QED BY <2>1, <2>2, <1>2, <1>5, <1>6 DEF Buffer
<1>7. CASE x # <<>>
  <2>1. x \in Chunk BY <1>7 DEF Chunk
  <2>2. PICK o2 \in Seq(Chunk) : o2 = Append(o, x) BY <2>1, AppendProperties
  <2>3. flush(p) = [b |-> <<>>, out |-> o2] BY <1>1, <1>7, <2>2 DEF flush
  <2>4. FlattenSeq(o2) = f \o x BY <2>2, <1>3, <1>4, FlattenAppend
  <2>5. f \o x \in Seq(Byte) BY ConcatProperties
  <2>6. (f \o x) \o <<>> = f \o x BY <2>5, ConcatEmptySeq
  <2>7. Held(flush(p)) = f \o x BY <2>3, <2>4, <2>6 DEF Held
  <2> QED BY <2>3, <2>7, <1>2, <1>5 DEF Buffer
<1> QED BY <1>6, <1>7

\* It takes x: behind what it holds, or after it has been flushed.
LEMMA ExtendKeeps ==
  ASSUME NEW p \in Buffer, NEW x \in Seq(Byte)
  PROVE  /\ [p EXCEPT !.b = @ \o x] \in Buffer
         /\ Held([p EXCEPT !.b = @ \o x]) = Held(p) \o x
<1>1. PICK y \in Seq(Byte), o \in Seq(Chunk) : y = p.b /\ o = p.out BY DEF Buffer
<1>2. PICK z \in Seq(Byte) : z = y \o x BY ConcatProperties
<1>3. PICK q : q = [p EXCEPT !.b = @ \o x] OBVIOUS
<1>4. q = [b |-> z, out |-> o] BY <1>1, <1>2, <1>3 DEF Buffer
<1>5. q \in Buffer BY <1>4 DEF Buffer
<1>6. o \in Seq(Seq(Byte)) BY ChunksAreSeqs
<1>7. PICK f \in Seq(Byte) : f = FlattenSeq(o) BY <1>6, FlattenType
<1>8. Held(q) = f \o z /\ Held(p) = f \o y BY <1>1, <1>4, <1>7 DEF Held
<1>9. (f \o y) \o x = f \o (y \o x)
  <2>1. Regroups(f, y, x) BY Associative
  <2> QED BY <2>1 DEF Regroups
<1> QED BY <1>2, <1>3, <1>5, <1>8, <1>9

LEMMA RefillKeeps ==
  ASSUME NEW p \in Buffer, NEW x \in Seq(Byte)
  PROVE  /\ [flush(p) EXCEPT !.b = x] \in Buffer
         /\ Held([flush(p) EXCEPT !.b = x]) = Held(p) \o x
<1>1. PICK q \in Buffer : q = flush(p) /\ q.b = <<>> /\ Held(q) = Held(p) BY FlushKeeps
<1>2. PICK o \in Seq(Chunk) : o = q.out BY DEF Buffer
<1>3. o \in Seq(Seq(Byte)) BY ChunksAreSeqs
<1>4. PICK f \in Seq(Byte) : f = FlattenSeq(o) BY <1>3, FlattenType
<1>5. Held(q) = f BY <1>1, <1>2, <1>4, ConcatEmptySeq DEF Held
<1>6. PICK r : r = [q EXCEPT !.b = x] OBVIOUS
<1>7. r = [b |-> x, out |-> o] BY <1>2, <1>6 DEF Buffer
<1>8. r \in Buffer /\ Held(r) = f \o x BY <1>7, <1>4 DEF Buffer, Held
<1> QED BY <1>1, <1>5, <1>6, <1>8

LEMMA PassKeeps ==
  ASSUME NEW p \in Buffer, NEW x \in Seq(Byte), x # <<>>
  PROVE  /\ [flush(p) EXCEPT !.out = Append(@, x)] \in Buffer
         /\ Held([flush(p) EXCEPT !.out = Append(@, x)]) = Held(p) \o x
<1>1. PICK q \in Buffer : q = flush(p) /\ q.b = <<>> /\ Held(q) = Held(p) BY FlushKeeps
<1>2. PICK o \in Seq(Chunk) : o = q.out BY DEF Buffer
<1>3. o \in Seq(Seq(Byte)) BY ChunksAreSeqs
<1>4. PICK f \in Seq(Byte) : f = FlattenSeq(o) BY <1>3, FlattenType
<1>5. Held(q) = f BY <1>1, <1>2, <1>4, ConcatEmptySeq DEF Held
<1>6. x \in Chunk BY DEF Chunk
<1>7. PICK o2 \in Seq(Chunk) : o2 = Append(o, x) BY <1>6, AppendProperties
<1>8. FlattenSeq(o2) = f \o x BY <1>7, <1>3, <1>4, FlattenAppend
<1>9. PICK r : r = [q EXCEPT !.out = Append(@, x)] OBVIOUS
<1>10. r = [b |-> <<>>, out |-> o2] BY <1>1, <1>2, <1>7, <1>9 DEF Buffer
<1>11. <<>> \in Seq(Byte) OBVIOUS
<1>12. r \in Buffer BY <1>10, <1>11 DEF Buffer
<1>13. f \o x \in Seq(Byte) BY ConcatProperties
<1>14. (f \o x) \o <<>> = f \o x BY <1>13, ConcatEmptySeq
<1>15. Held(r) = f \o x BY <1>8, <1>10, <1>14 DEF Held
<1> QED BY <1>1, <1>5, <1>9, <1>12, <1>15

LEMMA HeldType ==
  ASSUME NEW p \in Buffer
  PROVE  Held(p) \in Seq(Byte)
<1>1. PICK y \in Seq(Byte), o \in Seq(Chunk) : y = p.b /\ o = p.out BY DEF Buffer
<1>2. FlattenSeq(o) \in Seq(Byte) BY ChunksAreSeqs, FlattenType
<1> QED BY <1>1, <1>2, ConcatProperties DEF Held

LEMMA PutKeeps ==
  ASSUME Room, NEW p \in Buffer, NEW w \in [how : {"wp", "wb"}, b : Seq(Byte)]
  PROVE  Put(p, w) \in Buffer /\ Held(Put(p, w)) = Held(p) \o w.b
<1>1. PICK x \in Seq(Byte) : x = w.b OBVIOUS
<1>2. Len(x) \in Nat /\ (x = <<>> => Len(x) = 0) OBVIOUS
<1>3. PICK q \in Buffer : q = [p EXCEPT !.b = @ \o x] /\ Held(q) = Held(p) \o x BY ExtendKeeps
<1>4. CASE w.how = "wb"
  <2>1. Put(p, w) = PutBytes(p, x) BY <1>1, <1>4 DEF Put
  <2>2. CASE Len(p.b) + Len(x) <= sc.size
    <3>1. Put(p, w) = flush(q) BY <2>1, <2>2, <1>3 DEF PutBytes
    <3> QED BY <3>1, <1>1, <1>3, FlushKeeps
  <2>3. CASE ~(Len(p.b) + Len(x) <= sc.size) /\ 2 * Len(x) >= sc.size
    <3>1. x # <<>> BY <2>3, <1>2 DEF Room
    <3>2. PICK r \in Buffer : r = [flush(p) EXCEPT !.out = Append(@, x)] /\ Held(r) = Held(p) \o x
      BY <3>1, PassKeeps
    <3>3. Put(p, w) = r BY <2>1, <2>3, <3>2 DEF PutBytes
    <3> QED BY <3>2, <3>3, <1>1
  <2>4. CASE ~(Len(p.b) + Len(x) <= sc.size) /\ ~(2 * Len(x) >= sc.size)
    <3>1. PICK r \in Buffer : r = [flush(p) EXCEPT !.b = x] /\ Held(r) = Held(p) \o x BY RefillKeeps
    <3>2. Put(p, w) = r BY <2>1, <2>4, <3>1 DEF PutBytes
    <3> QED BY <3>1, <3>2, <1>1
  <2> QED BY <2>2, <2>3, <2>4
<1>5. CASE w.how # "wb"
  <2>1. Put(p, w) = PutPacked(p, x) BY <1>1, <1>5 DEF Put
  <2>2. CASE Len(p.b) + Len(x) <= sc.size
    <3>1. Put(p, w) = q BY <2>1, <2>2, <1>3 DEF PutPacked
    <3> QED BY <3>1, <1>1, <1>3
  <2>3. CASE ~(Len(p.b) + Len(x) <= sc.size)
    <3>1. PICK r \in Buffer : r = [flush(p) EXCEPT !.b = x] /\ Held(r) = Held(p) \o x BY RefillKeeps
    <3>2. Put(p, w) = r BY <2>1, <2>3, <3>1 DEF PutPacked
    <3> QED BY <3>1, <3>2, <1>1
  <2> QED BY <2>2, <2>3
<1> QED BY <1>4, <1>5

Empty == [b |-> <<>>, out |-> <<>>]

LEMMA EmptyBuffer == Empty \in Buffer /\ Held(Empty) = <<>>
<1>1. <<>> \in Seq(Byte) /\ <<>> \in Seq(Chunk) OBVIOUS
<1>2. Held(Empty) = <<>> \o <<>> BY FlattenEmpty DEF Held, Empty
<1>3. <<>> \o <<>> = <<>> BY <1>1, ConcatEmptySeq
<1> QED BY <1>1, <1>2, <1>3 DEF Empty, Buffer

\* The recursion of Chunks: the function that it chooses exists.
LEMMA ChunksFunction ==
  ASSUME NEW v, NEW w, w = _pack(v), Len(w) \in Nat \ {0}
  PROVE  \E p : /\ p[0] = Empty
                /\ \A k \in 1 .. Len(w) : p[k] = Put(p[k - 1], w[k])
                /\ Chunks(v) = flush(p[Len(w)]).out
<1> DEFINE Is(p, n) == p = [k \in 0 .. n |-> IF k = 0 THEN Empty ELSE Put(p[k - 1], w[k])]
           G == {n \in 1 .. Len(w) : \E p : Is(p, n)}
<1> HIDE DEF Is, G
<1>1. Len(w) \in 1 .. Len(w) /\ 1 \in 1 .. Len(w)
  OBVIOUS
<1>2. 1 \in G
  <2> DEFINE h == [k \in 0 .. 1 |-> IF k = 0 THEN Empty ELSE Put(Empty, w[1])]
  <2>1. h[0] = Empty /\ h[1] = Put(Empty, w[1]) OBVIOUS
  <2>2. ASSUME NEW k \in 0 .. 1 PROVE h[k] = IF k = 0 THEN Empty ELSE Put(h[k - 1], w[k])
    <3>1. CASE k = 0 BY <3>1, <2>1
    <3>2. CASE k = 1
      <4>1. k - 1 = 0 BY <3>2
      <4>2. h[k - 1] = Empty BY <4>1, <2>1
      <4>3. h[k] = Put(h[k - 1], w[k]) BY <4>2, <3>2, <2>1
      <4> QED BY <4>3, <3>2
    <3> QED BY <3>1, <3>2
  <2>3. h = [k \in 0 .. 1 |-> h[k]] OBVIOUS
  <2>4. Is(h, 1) BY <2>2, <2>3 DEF Is
  <2> QED BY <2>4, <1>1 DEF G
<1>3. ASSUME NEW m \in 1 .. Len(w), m # 1, m - 1 \in G PROVE m \in G
  <2>1. PICK g : Is(g, m - 1) BY <1>3 DEF G
  <2>0. m \in Nat /\ m \in 0 .. m /\ m - 1 \in 0 .. m /\ m - 1 # m /\ m # 0 BY <1>1, <1>3
  <2> DEFINE h == [k \in 0 .. m |-> IF k = m THEN Put(g[m - 1], w[m]) ELSE g[k]]
  <2>2. ASSUME NEW k \in 0 .. m PROVE h[k] = IF k = 0 THEN Empty ELSE Put(h[k - 1], w[k])
    <3>1. CASE k = m
      <4>1. h[m] = Put(g[m - 1], w[m]) BY <2>0
      <4>2. h[m - 1] = g[m - 1] BY <2>0
      <4>3. h[m] = Put(h[m - 1], w[m]) BY <4>1, <4>2
      <4> QED BY <3>1, <4>3, <2>0
    <3>2. CASE k # m
      <4>1. k \in 0 .. m - 1 BY <3>2, <2>0
      <4>2. g[k] = IF k = 0 THEN Empty ELSE Put(g[k - 1], w[k]) BY <4>1, <2>1 DEF Is
      <4>3. h[k] = g[k] BY <3>2
      <4>4. CASE k = 0 BY <4>2, <4>3, <4>4
      <4>5. CASE k # 0
        <5>1. k - 1 \in 0 .. m /\ k - 1 # m BY <4>1, <4>5, <2>0
        <5>2. h[k - 1] = g[k - 1] BY <5>1
        <5> QED BY <4>2, <4>3, <4>5, <5>2
      <4> QED BY <4>4, <4>5
    <3> QED BY <3>1, <3>2
  <2>3. h = [k \in 0 .. m |-> h[k]] OBVIOUS
  <2>4. Is(h, m) BY <2>2, <2>3 DEF Is
  <2> QED BY <2>4 DEF G
<1>4. Len(w) \in G BY <1>1, <1>2, <1>3, UpTo
<1>5. \E p : Is(p, Len(w)) BY <1>4 DEF G
<1>6. PICK p : p = (CHOOSE g : Is(g, Len(w))) OBVIOUS
<1>7. Is(p, Len(w)) BY <1>5, <1>6
<1>8. Chunks(v) = flush(p[Len(w)]).out BY <1>6 DEF Chunks, Is, Empty
<1>9. \A k \in 0 .. Len(w) : p[k] = IF k = 0 THEN Empty ELSE Put(p[k - 1], w[k]) BY <1>7 DEF Is
<1>10. p[0] = Empty
  <2>1. 0 \in 0 .. Len(w) OBVIOUS
  <2> QED BY <2>1, <1>9
<1>11. \A k \in 1 .. Len(w) : p[k] = Put(p[k - 1], w[k])
  <2> SUFFICES ASSUME NEW k \in 1 .. Len(w) PROVE p[k] = Put(p[k - 1], w[k]) OBVIOUS
  <2>1. k \in 0 .. Len(w) /\ k # 0 OBVIOUS
  <2> QED BY <2>1, <1>9
<1> QED BY <1>8, <1>10, <1>11

\* What pack hands to the writer are the bytes of the value, in pieces that
\* are not empty.
LEMMA ChunksRight ==
  ASSUME Room, NEW v, Encodes(v)
  PROVE  Chunks(v) \in Seq(Chunk) /\ FlattenSeq(Chunks(v)) = Encoded(v)
<1>1. PICK w : w = _pack(v) OBVIOUS
<1>2. w \in Seq([how : {"wp", "wb"}, b : Seq(Byte)]) BY <1>1 DEF Encodes
<1>3. PICK q \in Seq(Seq(Byte)) : q = Pieces(v) BY PiecesType
<1>4. /\ Len(q) = Len(w) /\ Encoded(v) = FlattenSeq(q)
      /\ \A k \in 1 .. Len(w) : q[k] = w[k].b
  BY <1>1, <1>3, PiecesType DEF Pieces
<1>5. q # <<>>
  <2>1. Encoded(v) # <<>> BY DEF Encodes
  <2> QED BY <2>1, <1>4, FlattenEmpty
<1>6. Len(w) \in Nat \ {0} /\ Len(w) \in 1 .. Len(w) /\ 1 \in 1 .. Len(w) BY <1>4, <1>5
<1>7. PICK f : Flat(q, f) /\ FlattenSeq(q) = f[Len(q)] BY <1>5, FlattenFunction
<1>8. PICK p : /\ p[0] = Empty
               /\ \A k \in 1 .. Len(w) : p[k] = Put(p[k - 1], w[k])
               /\ Chunks(v) = flush(p[Len(w)]).out
  BY <1>1, <1>6, ChunksFunction
<1>9. \A k \in 1 .. Len(w) : w[k] \in [how : {"wp", "wb"}, b : Seq(Byte)] BY <1>2, ElementOfSeq
<1> DEFINE G == {k \in 1 .. Len(w) : p[k] \in Buffer /\ Held(p[k]) = f[k]}
<1> HIDE DEF G
<1>10. 1 \in G
  <2>1. p[1] = Put(Empty, w[1])
    <3>1. 1 - 1 = 0 OBVIOUS
    <3>2. p[1] = Put(p[1 - 1], w[1]) BY <1>6, <1>8
    <3> QED BY <3>1, <3>2, <1>8
  <2>2. p[1] \in Buffer /\ Held(p[1]) = Held(Empty) \o w[1].b
    BY <2>1, <1>6, <1>9, EmptyBuffer, PutKeeps
  <2>3. PICK y \in Seq(Byte) : y = w[1].b BY <1>6, <1>9
  <2>4. <<>> \o y = y BY ConcatEmptySeq
  <2>5. f[1] = q[1] BY <1>4, <1>6, <1>7 DEF Flat
  <2>6. q[1] = y BY <2>3, <1>4, <1>6
  <2>7. Held(p[1]) = y BY <2>2, <2>3, <2>4, EmptyBuffer
  <2> QED BY <2>2, <2>5, <2>6, <2>7, <1>6 DEF G
<1>11. ASSUME NEW m \in 1 .. Len(w), m # 1, m - 1 \in G PROVE m \in G
  <2>1. PICK r \in Buffer : r = p[m - 1] /\ Held(r) = f[m - 1] BY <1>11 DEF G
  <2>2. p[m] = Put(r, w[m]) BY <2>1, <1>8
  <2>3. p[m] \in Buffer /\ Held(p[m]) = Held(r) \o w[m].b BY <2>2, <1>9, PutKeeps
  <2>4. f[m] = f[m - 1] \o q[m] BY <1>4, <1>7, <1>11, FlatStep
  <2>5. q[m] = w[m].b BY <1>4
  <2> QED BY <2>1, <2>3, <2>4, <2>5 DEF G
<1>12. Len(w) \in G BY <1>6, <1>10, <1>11, UpTo
<1>13. PICK r \in Buffer : r = p[Len(w)] /\ Held(r) = f[Len(w)] BY <1>12 DEF G
<1>14. PICK z \in Buffer : z = flush(r) /\ z.b = <<>> /\ Held(z) = Held(r) BY FlushKeeps
<1>15. PICK o \in Seq(Chunk) : o = z.out BY DEF Buffer
<1>16. FlattenSeq(o) \in Seq(Byte) BY ChunksAreSeqs, FlattenType
<1>17. FlattenSeq(o) \o <<>> = FlattenSeq(o) BY <1>16, ConcatEmptySeq
<1>18. Held(z) = FlattenSeq(o) BY <1>14, <1>15, <1>17 DEF Held
<1>19. Chunks(v) = o BY <1>8, <1>13, <1>14, <1>15
<1> QED BY <1>4, <1>7, <1>13, <1>14, <1>18, <1>19

-----------------------------------------------------------------------------
(* From the device: UpInv.                                                 *)

Values == Range(sc.msgs)
Running == CodecRight /\ sc \in Scenarios

LEMMA ScenarioFacts ==
  ASSUME Running
  PROVE  /\ Coded(Values) /\ \A v \in Values : Decodes(v, Seq(Byte))
         /\ sc.msgs \in Seq(Values) /\ Len(sc.msgs) \in Nat
         /\ \A k \in 1 .. Len(sc.msgs) : sc.msgs[k] \in Values
         /\ sc.way \in {"down", "up"}
         /\ sc.size \in Nat \ {0} /\ sc.cuts \subseteq Nat \ {0}
         /\ sc.way = "up" => Room
<1>1. ScenarioOK(sc) BY StreamAssumption DEF Running
<1>2. sc.msgs \in Seq(Values) /\ Len(sc.msgs) \in Nat BY <1>1 DEF ScenarioOK, Values
<1>3. ASSUME NEW v \in Values PROVE Encodes(v) /\ Decodes(v, Seq(Byte))
  <2>1. PICK k \in 1 .. Len(sc.msgs) : v = sc.msgs[k] BY <1>2 DEF Values, Range
  <2> QED BY <2>1 DEF CodecRight, Running
<1>4. \A k \in 1 .. Len(sc.msgs) : sc.msgs[k] \in Values BY <1>2, ElementOfSeq
<1> QED BY <1>1, <1>2, <1>3, <1>4 DEF ScenarioOK, Coded, Room

LEMMA LastAndFront ==
  ASSUME NEW V, NEW s \in Seq(V), NEW v \in V
  PROVE  /\ Last(Append(s, v)) = v /\ Front(Append(s, v)) = s
         /\ s # <<>> => /\ Last(s) \in V /\ Front(s) \in Seq(V)
                        /\ s = Append(Front(s), Last(s))
<1>1. PICK t \in Seq(V) : t = Append(s, v) BY AppendProperties
<1>2. /\ Len(t) = Len(s) + 1 /\ Len(s) \in Nat
      /\ \A k \in 1 .. Len(s) : t[k] = s[k]
      /\ t[Len(s) + 1] = v
  BY <1>1, AppendProperties
<1>3. Last(t) = v BY <1>2 DEF Last
<1>4. Front(t) = s
  <2>1. PICK u : u = SubSeq(t, 1, Len(s)) OBVIOUS
  <2>2. \A k \in 1 .. Len(s) : t[k] \in V BY <1>2, ElementOfSeq
  <2>3. 1 \in Int /\ Len(s) \in Int BY <1>2
  <2>4. u \in Seq(V) /\ Len(u) = (IF 1 <= Len(s) THEN Len(s) - 1 + 1 ELSE 0)
        /\ \A k \in 1 .. Len(s) - 1 + 1 : u[k] = t[1 + k - 1]
    BY <2>1, <2>2, <2>3, SubSeqProperties
  <2>5. Len(u) = Len(s) BY <2>4, <1>2
  <2>6. ASSUME NEW k \in 1 .. Len(u) PROVE u[k] = s[k]
    <3>1. k \in 1 .. Len(s) /\ k \in 1 .. Len(s) - 1 + 1 /\ 1 + k - 1 = k BY <2>5, <1>2
    <3> QED BY <3>1, <2>4, <1>2
  <2>7. u = s BY <2>4, <2>5, <2>6, SeqEqual
  <2>8. Len(t) - 1 = Len(s) BY <1>2
  <2> QED BY <2>1, <2>7, <2>8 DEF Front
<1>5. ASSUME s # <<>> PROVE Last(s) \in V /\ Front(s) \in Seq(V) /\ s = Append(Front(s), Last(s))
  <2>1. PICK n \in Nat : n = Len(s) /\ n >= 1 BY <1>5
  <2>2. Last(s) = s[n] /\ s[n] \in V BY <2>1, ElementOfSeq DEF Last
  <2>3. Front(s) = SubSeq(s, 1, n - 1) BY <2>1 DEF Front
  <2>4. \A k \in 1 .. n - 1 : s[k] \in V BY <2>1, ElementOfSeq
  <2>5. Front(s) \in Seq(V) BY <2>1, <2>3, <2>4, SubSeqProperties
  <2>6. SubSeq(s, 1, n) = SubSeq(s, 1, n - 1) \o <<s[n]>> BY <2>1, SubSeqRecursiveSecond
  <2>7. SubSeq(s, 1, n) = s BY <2>1, SubSeqFull
  <2>8. Append(Front(s), Last(s)) = Front(s) \o <<Last(s)>> BY <2>2, <2>5, AppendIsConcat
  <2> QED BY <2>2, <2>3, <2>5, <2>6, <2>7, <2>8
<1> QED BY <1>1, <1>3, <1>4, <1>5

\* A sequence in two parts.
LEMMA Parts ==
  ASSUME NEW S, NEW e \in Seq(S), NEW n \in 0 .. Len(e)
  PROVE  /\ SubSeq(e, 1, n) \in Seq(S) /\ SubSeq(e, n + 1, Len(e)) \in Seq(S)
         /\ Len(SubSeq(e, 1, n)) = n /\ Len(SubSeq(e, n + 1, Len(e))) = Len(e) - n
         /\ e = SubSeq(e, 1, n) \o SubSeq(e, n + 1, Len(e))
<1>1. Len(e) \in Nat /\ n \in Nat /\ n <= Len(e) OBVIOUS
<1>2. \A k \in 1 .. n : e[k] \in S BY <1>1, ElementOfSeq
<1>3. \A k \in n + 1 .. Len(e) : e[k] \in S BY <1>1, ElementOfSeq
<1>4. SubSeq(e, 1, n) \in Seq(S) /\ Len(SubSeq(e, 1, n)) = n BY <1>1, <1>2, SubSeqProperties
<1>5. /\ SubSeq(e, n + 1, Len(e)) \in Seq(S)
      /\ Len(SubSeq(e, n + 1, Len(e))) = Len(e) - n
  BY <1>1, <1>3, SubSeqProperties
<1>6. SubSeq(e, 1, n) \o SubSeq(e, n + 1, Len(e)) = SubSeq(e, 1, Len(e))
  <2>1. 1 \in 1 .. Len(e) + 1 /\ n \in 1 - 1 .. Len(e) /\ Len(e) \in n .. Len(e) BY <1>1
  <2> QED BY <2>1, ConcatAdjacentSubSeq
<1>7. SubSeq(e, 1, Len(e)) = e BY SubSeqFull
<1> QED BY <1>4, <1>5, <1>6, <1>7

Cut(e, n, a, b) ==
    a = SubSeq(e, 1, n) /\ b = SubSeq(e, n + 1, Len(e)) /\ e = a \o b

LEMMA CutExists ==
  ASSUME NEW S, NEW e \in Seq(S), NEW n \in 0 .. Len(e)
  PROVE  \E a, b \in Seq(S) : Cut(e, n, a, b)
<1>1. /\ SubSeq(e, 1, n) \in Seq(S) /\ SubSeq(e, n + 1, Len(e)) \in Seq(S)
      /\ e = SubSeq(e, 1, n) \o SubSeq(e, n + 1, Len(e))
  BY Parts
<1>2. Cut(e, n, SubSeq(e, 1, n), SubSeq(e, n + 1, Len(e))) BY <1>1 DEF Cut
<1> QED BY <1>1, <1>2

\* The start and the rest of a sequence are where it was put together.
LEMMA PartsOfConcat ==
  ASSUME NEW S, NEW x \in Seq(S), NEW y \in Seq(S), NEW e, e = x \o y
  PROVE  /\ Len(x) \in 0 .. Len(e)
         /\ SubSeq(e, 1, Len(x)) = x /\ SubSeq(e, Len(x) + 1, Len(e)) = y
<1>1. e \in Seq(S) /\ Len(e) = Len(x) + Len(y) /\ Len(x) \in Nat /\ Len(y) \in Nat
      /\ \A k \in 1 .. Len(x) + Len(y) : e[k] = IF k <= Len(x) THEN x[k] ELSE y[k - Len(x)]
  BY ConcatProperties
<1>2. Len(x) \in 0 .. Len(e) BY <1>1
<1>3. PICK a \in Seq(S), b \in Seq(S) : /\ a = SubSeq(e, 1, Len(x)) /\ b = SubSeq(e, Len(x) + 1, Len(e))
                                        /\ Len(a) = Len(x) /\ e = a \o b
  BY <1>1, <1>2, Parts
<1>4. ASSUME NEW k \in 1 .. Len(a) PROVE a[k] = x[k]
  <2>1. k \in 1 .. Len(x) + Len(y) /\ k <= Len(x) BY <1>1, <1>3
  <2>2. e[k] = x[k] BY <1>1, <2>1
  <2>3. (a \o b)[k] = a[k] BY ConcatProperties
  <2> QED BY <2>2, <2>3, <1>3
<1>5. a = x BY <1>3, <1>4, SeqEqual
<1>6. x \o b = x \o y BY <1>3, <1>5
<1>7. b = y BY <1>6, ConcatSimplifications
<1> QED BY <1>2, <1>3, <1>5, <1>7

LEMMA AllOfParts ==
  ASSUME NEW V, Coded(V), NEW s \in Seq(V), s # <<>>
  PROVE  /\ Last(s) \in V /\ Front(s) \in Seq(V)
         /\ AllOf(Front(s)) \in Seq(Byte) /\ Encoded(Last(s)) \in Seq(Byte)
         /\ AllOf(s) = AllOf(Front(s)) \o Encoded(Last(s))
<1>1. PICK v : v \in V
  <2>1. s[1] \in V BY EmptySeq, ElementOfSeq
  <2> QED BY <2>1
<1>2. PICK l \in V, f \in Seq(V) : l = Last(s) /\ f = Front(s) /\ s = Append(f, l)
  BY <1>1, LastAndFront
<1>3. AllOf(Append(f, l)) = AllOf(f) \o Encoded(l) BY AllOfAppend
<1> QED BY <1>2, <1>3, AllOfType, CodedType

LEMMA AppendParts ==
  ASSUME NEW V, NEW s \in Seq(V), NEW v \in V
  PROVE  \E t \in Seq(V) : t = Append(s, v) /\ t # <<>> /\ Last(t) = v /\ Front(t) = s
<1>1. PICK t \in Seq(V) : t = Append(s, v) /\ t # <<>> BY AppendProperties
<1>2. Last(t) = v /\ Front(t) = s BY <1>1, LastAndFront, Zenon
<1> QED BY <1>1, <1>2

\* Initially nothing has been written.
LEMMA UpInit ==
  ASSUME Init, Running PROVE UpInv
<1> SUFFICES ASSUME sc.way = "up" PROVE UpInv BY DEF UpInv
<1>1. sc.msgs \in Seq(Values) /\ Len(sc.msgs) \in Nat BY ScenarioFacts
<1>2. wire = <<>> /\ packed = <<>> /\ chunks = <<>> /\ ~bad /\ nxt = 0 /\ phase = "idle" BY DEF Init
<1>3. <<>> \in Seq(Byte) /\ <<>> \in Seq(Values) /\ <<>> \in Seq(Seq(Byte) \ {<<>>}) OBVIOUS
<1>4. wire = AllOf(packed) BY <1>2, AllOfEmpty
<1>5. nxt \in 0 .. Len(sc.msgs) BY <1>1, <1>2
<1> QED BY <1>2, <1>3, <1>4, <1>5 DEF UpInv, Values

\* What UpInv speaks of
upVars == <<sc, wire, phase, up>>

LEMMA UpFrame ==
  ASSUME UpInv, UNCHANGED upVars PROVE UpInv'
BY DEF UpInv, Partly, upVars, up, AllOf, Encoded

\* pack: nothing of the new message has been written yet.
LEMMA UpPackCall ==
  ASSUME Running, sc.way = "up", ~short, UpInv, PackCall PROVE UpInv'
<1>1. /\ nxt \in 0 .. Len(sc.msgs) /\ nxt < Len(sc.msgs) /\ nxt' = nxt + 1
      /\ sc' = sc /\ wire' = wire /\ short' = short /\ phase' = "idle"
      /\ packed \in Seq(Values) /\ wire \in Seq(Byte)
  BY DEF PackCall, UpInv, Values, down
<1>2. /\ Coded(Values) /\ Room /\ Len(sc.msgs) \in Nat
      /\ \A k \in 1 .. Len(sc.msgs) : sc.msgs[k] \in Values
  BY ScenarioFacts
<1>3. nxt' \in 0 .. Len(sc.msgs) /\ nxt' \in 1 .. Len(sc.msgs) BY <1>1, <1>2
<1>4. CASE bad
  <2>1. UNCHANGED <<sc, wire, packed, chunks, bad, short>> BY <1>1, <1>4 DEF PackCall
  <2> QED BY <1>1, <1>3, <2>1 DEF UpInv, Partly
<1>5. CASE ~bad
  <2>1. PICK m \in Values : m = sc.msgs[nxt'] BY <1>2, <1>3
  <2>2. bad' = TRUE /\ chunks' = Chunks(m) /\ packed' = Append(packed, m)
    BY <1>5, <2>1 DEF PackCall, PackBegins
  <2>3. Encodes(m) BY <1>2 DEF Coded
  <2>4. PICK c \in Seq(Chunk) : c = chunks' /\ FlattenSeq(c) = Encoded(m)
    BY <1>2, <2>2, <2>3, ChunksRight
  <2>5. PICK e \in Seq(Byte) : e = Encoded(m) BY <1>2, CodedType
  <2>6. wire = AllOf(packed) BY <1>5 DEF UpInv
  <2>7. PICK pk \in Seq(Values) : pk = packed' /\ pk # <<>> /\ Last(pk) = m /\ Front(pk) = packed
    <3>0. PICK V : V = Values OBVIOUS
    <3>1. PICK s \in Seq(V) : s = packed BY <1>1, <3>0
    <3>2. m \in V BY <3>0
    <3>3. PICK t \in Seq(V) : t = Append(s, m) /\ t # <<>> /\ Last(t) = m /\ Front(t) = s
      BY <3>2, AppendParts, Zenon
    <3> QED BY <2>2, <3>0, <3>1, <3>3
  <2>8. SubSeq(e, 1, 0) = <<>> BY SubSeqEmpty
  <2>9. SubSeq(e, 0 + 1, Len(e)) = e BY SubSeqFull
  <2>10. wire \o <<>> = wire BY <1>1, ConcatEmptySeq
  <2>11. 0 \in 0 .. Len(e) BY EmptySeq, LenProperties
  <2>12. /\ wire' = AllOf(Front(packed')) \o SubSeq(Encoded(Last(packed')), 1, 0)
         /\ FlattenSeq(chunks') = SubSeq(Encoded(Last(packed')), 0 + 1, Len(Encoded(Last(packed'))))
         /\ 0 \in 0 .. Len(Encoded(Last(packed')))
    BY <1>1, <2>4, <2>5, <2>6, <2>7, <2>8, <2>9, <2>10, <2>11
  <2>13. \E n \in 0 .. Len(Encoded(Last(packed'))) : Partly(Last(packed), Front(packed), n)'
    BY <2>12 DEF Partly
  <2>14. chunks' \in Seq(Seq(Byte) \ {<<>>}) BY <2>4 DEF Chunk
  <2>15. packed' \in Seq(Range(sc.msgs)) /\ packed' # <<>> BY <2>7 DEF Values
  <2> QED BY <1>1, <1>3, <2>2, <2>13, <2>14, <2>15 DEF UpInv
<1> QED BY <1>4, <1>5

\* A whole chunk more: the next m bytes of the message, and the others are
\* in the chunks after it.
Advances(f, e, n, c, m) ==
    /\ (f \o SubSeq(e, 1, n)) \o Head(c) = f \o SubSeq(e, 1, m)
    /\ FlattenSeq(Tail(c)) = SubSeq(e, m + 1, Len(e))
    /\ Tail(c) = <<>> => SubSeq(e, 1, m) = e

LEMMA WholeChunk ==
  ASSUME NEW f \in Seq(Byte), NEW e \in Seq(Byte), NEW n \in 0 .. Len(e),
         NEW c \in Seq(Chunk), c # <<>>, FlattenSeq(c) = SubSeq(e, n + 1, Len(e))
  PROVE  \E m \in 0 .. Len(e) : Advances(f, e, n, c, m)
<1>1. PICK h \in Seq(Byte), t \in Seq(Chunk) : h = Head(c) /\ t = Tail(c)
  <2>1. Head(c) \in Chunk /\ Tail(c) \in Seq(Chunk) BY HeadTailProperties
  <2> QED BY <2>1 DEF Chunk
<1>2. PICK a \in Seq(Byte), b \in Seq(Byte) : Cut(e, n, a, b) BY CutExists
<1>3. a = SubSeq(e, 1, n) /\ b = SubSeq(e, n + 1, Len(e)) BY <1>2 DEF Cut
<1>4. e = a \o b BY <1>2 DEF Cut
<1>5. t \in Seq(Seq(Byte)) BY ChunksAreSeqs
<1>6. PICK r \in Seq(Byte) : r = FlattenSeq(t) BY <1>5, FlattenType
<1>7. b = h \o r
  <2>1. PICK i \in Nat : i = Len(c) /\ i >= 1 OBVIOUS
  <2>2. SubSeq(c, 1, i) = <<c[1]>> \o SubSeq(c, 2, i) BY <2>1, SubSeqRecursiveFirst
  <2>3. SubSeq(c, 1, i) = c BY <2>1, SubSeqFull
  <2>4. t = SubSeq(c, 2, i) BY <1>1, <2>1, TailIsSubSeq
  <2>5. h = c[1] BY <1>1
  <2>6. c = <<h>> \o t BY <2>2, <2>3, <2>4, <2>5
  <2>7. FlattenSeq(<<h>> \o t) = h \o FlattenSeq(t) BY <1>5, FlattenCons
  <2> QED BY <2>6, <2>7, <1>3, <1>6
<1>8. PICK x \in Seq(Byte) : x = a \o h BY ConcatProperties
<1>9. (f \o a) \o h = f \o (a \o h)
  <2>1. Regroups(f, a, h) BY Associative
  <2> QED BY <2>1 DEF Regroups
<1>10. (a \o h) \o r = a \o (h \o r)
  <2>1. Regroups(a, h, r) BY Associative
  <2> QED BY <2>1 DEF Regroups
<1>11. e = x \o r BY <1>4, <1>7, <1>8, <1>10
<1>12. /\ Len(x) \in 0 .. Len(e) /\ SubSeq(e, 1, Len(x)) = x
       /\ SubSeq(e, Len(x) + 1, Len(e)) = r
  BY <1>11, PartsOfConcat
<1>13. t = <<>> => x = e
  <2>1. t = <<>> => r = <<>> BY <1>6, FlattenEmpty
  <2>2. x \o <<>> = x BY ConcatEmptySeq
  <2> QED BY <2>1, <2>2, <1>11
<1>14. (f \o SubSeq(e, 1, n)) \o Head(c) = f \o x BY <1>1, <1>3, <1>8, <1>9
<1> QED BY <1>1, <1>6, <1>12, <1>13, <1>14 DEF Advances

\* A write of all of a chunk continues the message, a part of it ends the
\* model; after the last chunk the message is whole.
LEMMA UpWrite ==
  ASSUME Running, sc.way = "up", ~short, UpInv, Write PROVE UpInv'
<1>1. /\ sc' = sc /\ nxt' = nxt /\ packed' = packed /\ phase' = "idle"
      /\ chunks # <<>> /\ chunks' = Tail(chunks) /\ bad' = (chunks' # <<>>)
      /\ nxt \in 0 .. Len(sc.msgs) /\ packed \in Seq(Values) /\ wire \in Seq(Byte)
      /\ chunks \in Seq(Chunk)
  BY DEF Write, UpInv, Values, Chunk, down
<1>2. bad /\ packed # <<>> BY <1>1 DEF UpInv
<1>3. Head(chunks) \in Chunk /\ Tail(chunks) \in Seq(Chunk) BY <1>1, HeadTailProperties
<1>4. PICK h \in Seq(Byte) : h = Head(chunks) /\ h # <<>> BY <1>3 DEF Chunk
<1>5. Len(h) \in Nat \ {0} BY <1>4, EmptySeq
<1>6. PICK k \in {1, Len(h)} : wire' = wire \o SubSeq(h, 1, k) /\ short' = (k < Len(h))
  BY <1>4 DEF Write
<1>7. wire' \in Seq(Byte)
  <2>1. k \in 0 .. Len(h) BY <1>5
  <2>2. SubSeq(h, 1, k) \in Seq(Byte) BY <2>1, Parts
  <2> QED BY <1>1, <1>6, <2>2, ConcatProperties
<1>8. chunks' \in Seq(Seq(Byte) \ {<<>>}) BY <1>1, <1>3 DEF Chunk
<1>9. ASSUME ~short'
      PROVE  /\ ~bad' => wire' = AllOf(packed')
             /\ bad' => \E n \in 0 .. Len(Encoded(Last(packed'))) : Partly(Last(packed), Front(packed), n)'
  <2>0. ~(k < Len(h)) BY <1>6, <1>9, Zenon
  <2>1. k = Len(h) BY <1>5, <2>0
  <2>2. wire' = wire \o h BY <1>6, <2>1, SubSeqFull
  <2>3. PICK e \in Seq(Byte), f \in Seq(Byte) :
           e = Encoded(Last(packed)) /\ f = AllOf(Front(packed)) /\ AllOf(packed) = f \o e
    BY <1>1, <1>2, AllOfParts, ScenarioFacts
  <2>4. PICK n \in 0 .. Len(e) : /\ wire = f \o SubSeq(e, 1, n)
                                 /\ FlattenSeq(chunks) = SubSeq(e, n + 1, Len(e))
    BY <1>1, <1>2, <2>3 DEF UpInv, Partly
  <2>5. PICK m \in 0 .. Len(e) : /\ wire \o h = f \o SubSeq(e, 1, m)
                                 /\ FlattenSeq(Tail(chunks)) = SubSeq(e, m + 1, Len(e))
                                 /\ Tail(chunks) = <<>> => SubSeq(e, 1, m) = e
    <3>1. PICK c \in Seq(Chunk) : c = chunks /\ c # <<>> /\ FlattenSeq(c) = SubSeq(e, n + 1, Len(e))
      BY <1>1, <2>4
    <3>2. PICK m \in 0 .. Len(e) : Advances(f, e, n, c, m) BY <3>1, WholeChunk
    <3> QED BY <3>1, <3>2, <1>4, <2>4 DEF Advances
  <2>6. CASE Tail(chunks) = <<>>
    <3>1. AllOf(packed') = wire' BY <1>1, <2>2, <2>3, <2>5, <2>6
    <3>2. ~bad' BY <1>1, <2>6
    <3> QED BY <3>1, <3>2
  <2>7. CASE Tail(chunks) # <<>>
    <3>1. /\ wire' = AllOf(Front(packed')) \o SubSeq(Encoded(Last(packed')), 1, m)
          /\ FlattenSeq(chunks') = SubSeq(Encoded(Last(packed')), m + 1, Len(Encoded(Last(packed'))))
          /\ m \in 0 .. Len(Encoded(Last(packed')))
      BY <1>1, <2>2, <2>3, <2>5
    <3>2. Partly(Last(packed), Front(packed), m)' BY <3>1 DEF Partly
    <3>3. bad' BY <1>1, <2>7
    <3> QED BY <3>1, <3>2, <3>3
  <2> QED BY <2>6, <2>7
<1>10. packed' \in Seq(Range(sc'.msgs)) /\ packed' # <<>> /\ nxt' \in 0 .. Len(sc'.msgs)
  BY <1>1, <1>2 DEF Values
<1>11. ~bad' => chunks' = <<>> BY <1>1
<1> QED BY <1>1, <1>7, <1>8, <1>9, <1>10, <1>11 DEF UpInv

\* A writer that raises leaves what it has written.
LEMMA UpWriteRaises ==
  ASSUME sc.way = "up", ~short, UpInv, WriteRaises PROVE UpInv'
<1>1. /\ UNCHANGED <<sc, wire, nxt, packed, bad, short>> /\ phase' = "idle"
      /\ chunks # <<>> /\ chunks' = <<>>
  BY DEF WriteRaises, UpInv, down
<1>2. bad /\ packed # <<>> BY <1>1 DEF UpInv
<1>3. PICK n \in 0 .. Len(Encoded(Last(packed))) : Partly(Last(packed), Front(packed), n)
  BY <1>2 DEF UpInv
<1>4. /\ wire' = AllOf(Front(packed')) \o SubSeq(Encoded(Last(packed')), 1, n)
      /\ n \in 0 .. Len(Encoded(Last(packed')))
  BY <1>1, <1>3 DEF Partly
<1>5. Partly(Last(packed), Front(packed), n)' BY <1>1, <1>4 DEF Partly
<1>6. <<>> \in Seq(Seq(Byte) \ {<<>>}) OBVIOUS
<1> QED BY <1>1, <1>2, <1>4, <1>5, <1>6 DEF UpInv

LEMMA UpStep ==
  ASSUME Running, UpInv, [Next]_vars PROVE UpInv'
<1>1. CASE UNCHANGED vars BY <1>1, UpFrame DEF vars, upVars, down
<1>2. CASE Next
  <2>1. ~short /\ sc' = sc
    BY <1>2 DEF Next, ReadFails, Give_up, ReadSome, Fill, Next_, PackCall, Write, WriteRaises, down
  <2> SUFFICES ASSUME sc.way = "up" PROVE UpInv' BY <2>1 DEF UpInv
  <2>2. ~ReadFails /\ ~ReadSome BY DEF ReadFails, ReadSome, Reading
  <2>4. ~Next_ BY DEF Next_, UpInv
  <2>5. CASE PackCall BY <2>1, <2>5, UpPackCall
  <2>6. CASE Write BY <2>1, <2>6, UpWrite
  <2>7. CASE WriteRaises BY <2>1, <2>7, UpWriteRaises
  <2> QED BY <1>2, <2>2, <2>4, <2>5, <2>6, <2>7 DEF Next
<1> QED BY <1>1, <1>2

LEMMA PrefixOfConcat ==
  ASSUME NEW S, NEW x \in Seq(S), NEW y \in Seq(S)
  PROVE  IsPrefix(x, x \o y) /\ IsPrefix(x, x)
<1>1. PICK e : e = x \o y OBVIOUS
<1>2. Len(x) \in 0 .. Len(e) /\ SubSeq(e, 1, Len(x)) = x BY <1>1, PartsOfConcat
<1>3. SubSeq(x, 1, Len(x)) = x /\ Len(x) \in Nat BY SubSeqFull
<1> QED BY <1>1, <1>2, <1>3 DEF IsPrefix

LEMMA PartIsPrefix ==
  ASSUME NEW f \in Seq(Byte), NEW e \in Seq(Byte), NEW n \in 0 .. Len(e)
  PROVE  IsPrefix(f \o SubSeq(e, 1, n), f \o e) /\ IsPrefix(f, f \o SubSeq(e, 1, n))
<1>1. PICK a \in Seq(Byte), b \in Seq(Byte) : Cut(e, n, a, b) BY CutExists
<1>3. a = SubSeq(e, 1, n) /\ e = a \o b BY <1>1 DEF Cut
<1>4. PICK x \in Seq(Byte) : x = f \o a BY ConcatProperties
<1>5. (f \o a) \o b = f \o (a \o b)
  <2>1. Regroups(f, a, b) BY Associative
  <2> QED BY <2>1 DEF Regroups
<1>6. f \o e = x \o b BY <1>3, <1>4, <1>5
<1>7. IsPrefix(x, x \o b) BY PrefixOfConcat
<1>8. IsPrefix(f, f \o a) BY PrefixOfConcat
<1> QED BY <1>3, <1>4, <1>6, <1>7, <1>8

LEMMA UpNotTorn ==
  ASSUME Running, UpInv PROVE NotTorn
<1> SUFFICES ASSUME sc.way = "up", ~short PROVE NotTorn BY DEF NotTorn
<1>1. packed \in Seq(Values) /\ wire \in Seq(Byte) BY DEF UpInv, Values
<1>2. CASE ~bad
  <2>1. wire = AllOf(packed) BY <1>2 DEF UpInv
  <2>2. IsPrefix(wire, wire) BY <1>1, PrefixOfConcat
  <2> QED BY <1>2, <2>1, <2>2 DEF NotTorn
<1>3. CASE bad
  <2>1. packed # <<>> BY <1>3 DEF UpInv
  <2>2. PICK n \in 0 .. Len(Encoded(Last(packed))) : Partly(Last(packed), Front(packed), n)
    BY <1>3 DEF UpInv
  <2>3. PICK e \in Seq(Byte), f \in Seq(Byte) :
           e = Encoded(Last(packed)) /\ f = AllOf(Front(packed)) /\ AllOf(packed) = f \o e
    BY <1>1, <2>1, AllOfParts, ScenarioFacts
  <2>4. n \in 0 .. Len(e) /\ wire = f \o SubSeq(e, 1, n) BY <2>2, <2>3 DEF Partly
  <2>5. IsPrefix(wire, AllOf(packed)) /\ IsPrefix(f, wire) BY <2>3, <2>4, PartIsPrefix
  <2> QED BY <1>3, <2>3, <2>5 DEF NotTorn
<1> QED BY <1>2, <1>3

-----------------------------------------------------------------------------
(* To the device: DownInv.                                                 *)

\* What is left of a sequence after n elements.
From(e, n) == SubSeq(e, n + 1, Len(e))

LEMMA FromType ==
  ASSUME NEW S, NEW e \in Seq(S), NEW n \in 0 .. Len(e)
  PROVE  /\ From(e, n) \in Seq(S) /\ Len(From(e, n)) = Len(e) - n
         /\ \A k \in 1 .. Len(e) - n : From(e, n)[k] = e[n + k]
<1>1. Len(e) \in Nat /\ n \in Nat /\ n <= Len(e) OBVIOUS
<1>2. \A k \in n + 1 .. Len(e) : e[k] \in S BY <1>1, ElementOfSeq
<1>3. PICK y : y = SubSeq(e, n + 1, Len(e)) OBVIOUS
<1>4. n + 1 \in Int /\ Len(e) \in Int BY <1>1
<1>5. /\ y \in Seq(S) /\ Len(y) = (IF n + 1 <= Len(e) THEN Len(e) - (n + 1) + 1 ELSE 0)
      /\ \A k \in 1 .. Len(e) - (n + 1) + 1 : y[k] = e[n + 1 + k - 1]
  BY <1>2, <1>3, <1>4, SubSeqProperties
<1>6. Len(y) = Len(e) - n BY <1>1, <1>5
<1>7. ASSUME NEW k \in 1 .. Len(e) - n PROVE y[k] = e[n + k]
  <2>1. k \in 1 .. Len(e) - (n + 1) + 1 /\ n + 1 + k - 1 = n + k BY <1>1
  <2> QED BY <2>1, <1>5
<1> QED BY <1>3, <1>5, <1>6, <1>7 DEF From

\* What is left after n and then m elements.
IsFrom(e, n, y) ==
    /\ y = From(e, n) /\ Len(y) = Len(e) - n
    /\ \A k \in 1 .. Len(e) - n : y[k] = e[n + k]

LEMMA FromIs ==
  ASSUME NEW S, NEW e \in Seq(S), NEW n \in 0 .. Len(e)
  PROVE  \E y \in Seq(S) : IsFrom(e, n, y)
<1>1. From(e, n) \in Seq(S) /\ IsFrom(e, n, From(e, n)) BY FromType DEF IsFrom
<1> QED BY <1>1

LEMMA FromFrom ==
  ASSUME NEW S, NEW e \in Seq(S), NEW n \in 0 .. Len(e), NEW m \in 0 .. Len(e) - n
  PROVE  From(From(e, n), m) = From(e, n + m)
<1>0. Len(e) \in Nat OBVIOUS
<1>1. PICK q \in 0 .. Len(e) : q = n + m BY <1>0
<1>2. PICK x \in Seq(S) : IsFrom(e, n, x) BY FromIs
<1>3. Len(x) = Len(e) - n BY <1>2 DEF IsFrom
<1>4. m \in 0 .. Len(x) BY <1>3
<1>5. PICK y \in Seq(S) : IsFrom(x, m, y) BY <1>4, FromIs
<1>6. PICK z \in Seq(S) : IsFrom(e, q, z) BY FromIs
<1>7. Len(y) = Len(x) - m /\ Len(z) = Len(e) - q BY <1>5, <1>6 DEF IsFrom
<1>8. Len(y) = Len(z) BY <1>0, <1>1, <1>3, <1>7
<1>9. ASSUME NEW k \in 1 .. Len(y) PROVE y[k] = z[k]
  <2>1. /\ k \in 1 .. Len(x) - m /\ m + k \in 1 .. Len(e) - n
        /\ k \in 1 .. Len(e) - q /\ n + (m + k) = q + k
    BY <1>0, <1>1, <1>3, <1>7
  <2>2. y[k] = x[m + k] BY <2>1, <1>5 DEF IsFrom
  <2>3. x[m + k] = e[n + (m + k)] BY <2>1, <1>2 DEF IsFrom
  <2>4. z[k] = e[q + k] BY <2>1, <1>6 DEF IsFrom
  <2> QED BY <2>1, <2>2, <2>3, <2>4
<1>10. y = z BY <1>8, <1>9, SeqEqual
<1> QED BY <1>1, <1>2, <1>5, <1>6, <1>10 DEF IsFrom

\* What is left after n elements, of more.
LEMMA FromConcat ==
  ASSUME NEW S, NEW e \in Seq(S), NEW x \in Seq(S), NEW n \in 0 .. Len(e)
  PROVE  From(e \o x, n) = From(e, n) \o x
<1>1. PICK a \in Seq(S), b \in Seq(S) : Cut(e, n, a, b) BY CutExists
<1>2. b = From(e, n) /\ e = a \o b BY <1>1 DEF Cut, From
<1>3. Len(a) = n
  <2>1. a = SubSeq(e, 1, n) BY <1>1 DEF Cut
  <2> QED BY <2>1, Parts
<1>4. PICK y \in Seq(S) : y = b \o x BY ConcatProperties
<1>5. Regroups(a, b, x) BY Associative
<1>6. e \o x = a \o y BY <1>2, <1>4, <1>5 DEF Regroups
<1>7. PICK z : z = e \o x OBVIOUS
<1>8. z = a \o y BY <1>6, <1>7
<1>9. SubSeq(z, Len(a) + 1, Len(z)) = y BY <1>8, PartsOfConcat
<1> QED BY <1>2, <1>3, <1>4, <1>7, <1>9 DEF From

\* Of two ways to put the same together, the shorter start is a prefix.
Parted(x, y, e) == SubSeq(e, 1, Len(x)) = x /\ From(e, Len(x)) = y

LEMMA PartedConcat ==
  ASSUME NEW S, NEW x \in Seq(S), NEW y \in Seq(S)
  PROVE  Parted(x, y, x \o y)
BY PartsOfConcat DEF Parted, From

Starts(x, y, u, z) ==
    u = x \o From(u, Len(x)) /\ IsPrefix(x, u) /\ From(u, Len(x)) \o z = y

LEMMA ShorterIsPrefix ==
  ASSUME NEW S, NEW x \in Seq(S), NEW y \in Seq(S), NEW u \in Seq(S), NEW z \in Seq(S),
         x \o y = u \o z, Len(x) <= Len(u)
  PROVE  Starts(x, y, u, z)
<1>1. Len(x) \in 0 .. Len(u) BY LenProperties
<1>2. PICK n : n = Len(x) OBVIOUS
<1>3. PICK a \in Seq(S), b \in Seq(S) : Cut(u, n, a, b) BY <1>1, <1>2, CutExists
<1>4. a = SubSeq(u, 1, n) /\ b = From(u, n) /\ u = a \o b BY <1>3 DEF Cut, From
<1>5. Len(a) = n BY <1>1, <1>2, <1>4, Parts
<1>6. PICK v \in Seq(S) : v = b \o z BY ConcatProperties
<1>7. Regroups(a, b, z) BY Associative
<1>8. x \o y = a \o v BY <1>4, <1>6, <1>7 DEF Regroups
<1>9. PICK w : w = x \o y OBVIOUS
<1>10. Parted(x, y, w) BY <1>9, PartedConcat
<1>11. w = a \o v BY <1>8, <1>9
<1>12. Parted(a, v, w) BY <1>11, PartedConcat
<1>13. a = x /\ v = y BY <1>2, <1>5, <1>10, <1>12 DEF Parted
<1>14. IsPrefix(x, x \o b) BY PrefixOfConcat
<1> QED BY <1>2, <1>4, <1>6, <1>13, <1>14 DEF Starts

\* The rest after n messages: its head and its tail.
LEMMA RestHead ==
  ASSUME NEW V, NEW m \in Seq(V), NEW n \in 0 .. Len(m), From(m, n) # <<>>
  PROVE  /\ n + 1 \in 1 .. Len(m)
         /\ Head(From(m, n)) = m[n + 1] /\ Tail(From(m, n)) = From(m, n + 1)
         /\ SubSeq(m, 1, n + 1) = Append(SubSeq(m, 1, n), m[n + 1])
<1>1. Len(m) \in Nat /\ n \in Nat OBVIOUS
<1>2. n # Len(m)
  <2> SUFFICES ASSUME n = Len(m) PROVE FALSE OBVIOUS
  <2>1. Len(m) < n + 1 BY <1>1
  <2>2. SubSeq(m, n + 1, Len(m)) = <<>> BY <1>1, <2>1, SubSeqEmpty
  <2> QED BY <2>2 DEF From
<1>3. PICK k \in 1 .. Len(m) : k = n + 1 BY <1>1, <1>2
<1>4. Len(m) \in k .. Len(m) BY <1>1, <1>3
<1>5. Head(SubSeq(m, k, Len(m))) = m[k] /\ Tail(SubSeq(m, k, Len(m))) = SubSeq(m, k + 1, Len(m))
  BY <1>4, HeadTailOfSubSeq
<1>6. 1 \in 1 .. Len(m) /\ k \in 1 .. Len(m) /\ k - 1 = n BY <1>1, <1>3
<1>7. SubSeq(m, 1, k) = SubSeq(m, 1, k - 1) \o <<m[k]>> BY <1>6, SubSeqRecursiveSecond
<1>8. SubSeq(m, 1, n) \in Seq(V) /\ m[k] \in V BY Parts, ElementOfSeq
<1>9. Append(SubSeq(m, 1, n), m[k]) = SubSeq(m, 1, n) \o <<m[k]>> BY <1>8, AppendIsConcat
<1> QED BY <1>3, <1>5, <1>6, <1>7, <1>9 DEF From

(* What __next__ may find where the buffer goes on with the rest of the    *)
(* messages.                                                               *)
Taken(b, w, rest, r) ==
    /\ rest # <<>> /\ r.v = Head(rest) /\ r.i \in 0 .. Len(b)
    /\ From(b, r.i) \o w = AllOf(Tail(rest))
Lacking(here, rest) ==
    IF rest = <<>> THEN here = <<>> ELSE Len(here) < Len(Encoded(Head(rest)))

LEMMA Outcomes ==
  ASSUME NEW V, Coded(V), \A v \in V : Decodes(v, Seq(Byte)), Waits(Seq(Byte)),
         NEW b \in Seq(Byte), NEW i \in 0 .. Len(b), NEW w \in Seq(Byte),
         NEW rest \in Seq(V), From(b, i) \o w = AllOf(rest),
         NEW r, r = _unpack(b, i)
  PROVE  /\ r.st = "ok" => Taken(b, w, rest, r)
         /\ r.st = "more" => Lacking(From(b, i), rest)
         /\ r.st = "error" => rest # <<>> /\ Refused(Head(rest))
<1>1. PICK here \in Seq(Byte) : here = From(b, i) /\ Len(here) = Len(b) - i BY FromType
<1>2. Len(b) \in Nat /\ i \in Nat /\ i <= Len(b) OBVIOUS
<1>3. CASE rest = <<>>
  <2>1. here \o w = <<>> BY <1>1, <1>3, AllOfEmpty
  <2>2. here = <<>> BY <2>1, ConcatEqualIffEmpty
  <2>3. Len(here) = 0 BY <2>2
  <2>4. i = Len(b) BY <1>1, <1>2, <2>3
  <2>5. r.st = "more" BY <2>4 DEF Waits
  <2> QED BY <1>1, <1>3, <2>2, <2>5 DEF Lacking
<1>4. CASE rest # <<>>
  <2>1. PICK h \in V, t \in Seq(V) : h = Head(rest) /\ t = Tail(rest) BY <1>4, HeadTailProperties
  <2>2. PICK e \in Seq(Byte) : e = Encoded(h) BY CodedType
  <2>3. PICK a \in Seq(Byte) : a = AllOf(t) BY AllOfType
  <2>4. AllOf(rest) = e \o a BY <1>4, <2>1, <2>2, <2>3, AllOfHead
  <2>5. e \o a = here \o w BY <1>1, <2>4
  <2>6. Len(e) \in Nat /\ Len(here) \in Nat BY LenProperties
  <2>7. Decodes(h, Seq(Byte)) OBVIOUS
  <2>8. /\ IsPrefix(e, here) => IF Refused(h) THEN r.st = "error"
                                ELSE r.st = "ok" /\ r.v = h /\ r.i = i + Len(e)
        /\ IsStrictPrefix(here, e) => r.st = "more" \/ (Refused(h) /\ r.st = "error")
    BY <1>1, <2>2, <2>7 DEF Decodes, From
  <2>9. CASE Len(e) <= Len(here)
    <3>1. Starts(e, a, here, w) BY <2>5, <2>9, ShorterIsPrefix
    <3>2. IsPrefix(e, here) /\ From(here, Len(e)) \o w = a BY <3>1 DEF Starts
    <3>3. PICK m \in 0 .. Len(b) - i : m = Len(e) BY <1>1, <2>6, <2>9
    <3>4. From(From(b, i), m) = From(b, i + m) BY FromFrom
    <3>5. i + m \in 0 .. Len(b) BY <1>2
    <3>6. From(b, i + m) \o w = a BY <1>1, <3>2, <3>3, <3>4
    <3>7. CASE Refused(h) BY <2>1, <2>8, <3>2, <3>7, <1>4
    <3>8. CASE ~Refused(h)
      <4>1. r.st = "ok" /\ r.v = h /\ r.i = i + m BY <2>8, <3>2, <3>3, <3>8
      <4>2. Taken(b, w, rest, r) BY <1>4, <2>1, <2>3, <3>5, <3>6, <4>1 DEF Taken
      <4> QED BY <4>1, <4>2
    <3> QED BY <3>7, <3>8
  <2>10. CASE ~(Len(e) <= Len(here))
    <3>1. Len(here) < Len(e) BY <2>6, <2>10
    <3>2. Len(here) <= Len(e) BY <2>6, <3>1
    <3>3. here \o w = e \o a BY <2>5
    <3>4. Starts(here, w, e, a) BY <3>2, <3>3, ShorterIsPrefix
    <3>5. IsStrictPrefix(here, e)
      <4>1. here # e BY <2>6, <3>1
      <4> QED BY <3>4, <4>1 DEF Starts, IsStrictPrefix
    <3>6. Lacking(here, rest) BY <1>4, <2>1, <2>2, <3>1 DEF Lacking
    <3>7. r.st = "more" \/ (Refused(h) /\ r.st = "error") BY <2>8, <3>5
    <3> QED BY <1>1, <1>4, <2>1, <3>6, <3>7
  <2> QED BY <2>9, <2>10
<1> QED BY <1>3, <1>4

\* The state of the Unpacker while it is in step.
Ready ==
    /\ wire \in Seq(Byte) /\ buf \in Seq(Byte) /\ chunks = <<>>
    /\ Len(buf) <= sc.size /\ b_i \in 0 .. Len(buf)
    /\ Len(got) \in 0 .. Len(sc.msgs) /\ got = SubSeq(sc.msgs, 1, Len(got))
    /\ Rest \in Seq(Values)
    /\ From(buf, b_i) \o wire = AllOf(Rest)

LEMMA DownFacts ==
  ASSUME Running, DownInv, sc.way = "down", ~desync
  PROVE  /\ Ready
         /\ phase = "idle" => Lacking(From(buf, b_i), Rest)
<1>1. sc.msgs \in Seq(Values) BY ScenarioFacts
<1>2. Here = From(buf, b_i) /\ Rest = From(sc.msgs, Len(got)) BY DEF Here, Rest, From
<1>3. Len(got) \in 0 .. Len(sc.msgs) BY DEF DownInv
<1>4. Rest \in Seq(Values) BY <1>1, <1>2, <1>3, FromType
<1> QED BY <1>2, <1>3, <1>4 DEF DownInv, Ready, Lacking

\* What DownInv speaks of
downVars == <<sc, wire, buf, b_i, phase, got, desync, chunks>>

LEMMA DownFrame ==
  ASSUME DownInv, UNCHANGED downVars PROVE DownInv'
BY DEF DownInv, Here, Rest, downVars, AllOf, Encoded

LEMMA DownInit ==
  ASSUME Init, Running PROVE DownInv
<1> SUFFICES ASSUME sc.way = "down" PROVE DownInv BY DEF DownInv
<1>1. /\ sc.msgs \in Seq(Values) /\ Len(sc.msgs) \in Nat /\ Coded(Values)
      /\ sc.size \in Nat \ {0}
  BY ScenarioFacts
<1>2. /\ wire = AllOf(sc.msgs) /\ buf = <<>> /\ b_i = 0 /\ phase = "idle" /\ got = <<>>
      /\ chunks = <<>> /\ desync = FALSE
  BY DEF Init
<1>3. wire \in Seq(Byte) /\ <<>> \in Seq(Byte) /\ Len(<<>>) = 0 BY <1>1, <1>2, AllOfType
<1>4. got = SubSeq(sc.msgs, 1, Len(got)) /\ Len(got) \in 0 .. Len(sc.msgs)
  <2>1. SubSeq(sc.msgs, 1, 0) = <<>> BY SubSeqEmpty
  <2> QED BY <2>1, <1>1, <1>2, <1>3
<1>5. Rest = sc.msgs
  <2>1. SubSeq(sc.msgs, 1, Len(sc.msgs)) = sc.msgs BY <1>1, SubSeqFull
  <2> QED BY <2>1, <1>2, <1>3 DEF Rest
<1>6. Here = <<>>
  <2>1. SubSeq(buf, 1, 0) = <<>> BY SubSeqEmpty
  <2> QED BY <2>1, <1>2, <1>3 DEF Here
<1>7. Here \o wire = AllOf(Rest) BY <1>2, <1>3, <1>5, <1>6, ConcatEmptySeq
<1>8. IF Rest = <<>> THEN Here = <<>> ELSE Len(Here) < Len(Encoded(Head(Rest)))
  <2>1. CASE Rest = <<>> BY <2>1, <1>6
  <2>2. CASE Rest # <<>>
    <3>1. Head(Rest) \in Values BY <2>2, <1>1, <1>5, HeadTailProperties
    <3>2. Len(Encoded(Head(Rest))) \in Nat \ {0} BY <3>1, <1>1, CodedType
    <3>3. Len(Here) = 0 BY <1>3, <1>6
    <3> QED BY <2>2, <3>2, <3>3
  <2> QED BY <2>1, <2>2
<1>9. Len(buf) <= sc.size /\ b_i \in 0 .. Len(buf) BY <1>1, <1>2, <1>3
<1> QED BY <1>2, <1>3, <1>4, <1>7, <1>8, <1>9 DEF DownInv

\* A buffer that is full of the start of one message: it is too long.
LEMMA DownReadFails ==
  ASSUME Running, DownInv, sc.way = "down", ~desync, ReadFails PROVE DownInv'
<1>1. Ready /\ Lacking(From(buf, b_i), Rest) BY DownFacts DEF ReadFails, Reading
<1>2. /\ wire # <<>> /\ Len(buf) = sc.size /\ b_i = 0
      /\ phase' = "closed" /\ UNCHANGED <<sc, wire, buf, b_i, got, desync, chunks>>
  BY DEF ReadFails, Reading, Full, Give_up, up
<1>3. PICK b \in Seq(Byte), w \in Seq(Byte) : b = buf /\ w = wire BY <1>1 DEF Ready
<1>4. From(b, 0) = b BY SubSeqFull DEF From
<1>5. Rest # <<>>
  <2> SUFFICES ASSUME Rest = <<>> PROVE FALSE OBVIOUS
  <2>1. b \o w = <<>> BY <1>1, <1>2, <1>3, <1>4, AllOfEmpty DEF Ready
  <2>2. w = <<>> BY <2>1, ConcatEqualIffEmpty
  <2> QED BY <2>2, <1>2, <1>3
<1>6. Len(Encoded(Head(Rest))) > sc.size
  <2>1. Len(From(b, 0)) < Len(Encoded(Head(Rest))) BY <1>1, <1>2, <1>3, <1>5 DEF Lacking
  <2>2. Len(b) < Len(Encoded(Head(Rest))) BY <2>1, <1>4
  <2>3. Head(Rest) \in Values BY <1>1, <1>5, HeadTailProperties DEF Ready
  <2>4. Len(Encoded(Head(Rest))) \in Nat BY <2>3, CodedType, ScenarioFacts
  <2> QED BY <2>2, <2>4, <1>2, <1>3
<1>7. Rest' = Rest /\ Encoded(Head(Rest))' = Encoded(Head(Rest)) /\ Here' = Here /\ AllOf(Rest)' = AllOf(Rest)
  BY <1>2 DEF Rest, Here, Encoded, AllOf
<1> QED BY <1>2, <1>5, <1>6, <1>7 DEF DownInv

LEMMA MinIsOne ==
  ASSUME NEW x \in Nat, NEW y \in Nat, NEW z \in Nat
  PROVE  Min({x, y, z}) \in Nat /\ Min({x, y, z}) <= y /\ Min({x, y, z}) <= z
<1>1. \E m \in {x, y, z} : \A k \in {x, y, z} : m <= k OBVIOUS
<1>2. /\ Min({x, y, z}) \in {x, y, z}
      /\ \A k \in {x, y, z} : Min({x, y, z}) <= k
  BY <1>1 DEF Min
<1> QED BY <1>2

\* What is read comes behind what was there.
Refill(b, i, w, k, x) ==
    /\ x \in Seq(Byte) /\ From(w, k) \in Seq(Byte)
    /\ From(b, i) \o x \in Seq(Byte) /\ Len(From(b, i) \o x) = Len(b) - i + k
    /\ b \o x \in Seq(Byte) /\ Len(b \o x) = Len(b) + k
    /\ From(From(b, i) \o x, 0) \o From(w, k) = From(b, i) \o w
    /\ From(b \o x, i) \o From(w, k) = From(b, i) \o w

LEMMA Refilled ==
  ASSUME NEW b \in Seq(Byte), NEW i \in 0 .. Len(b), NEW w \in Seq(Byte), NEW k \in 0 .. Len(w),
         NEW x, x = SubSeq(w, 1, k)
  PROVE  Refill(b, i, w, k, x)
<1>1. PICK h \in Seq(Byte) : h = From(b, i) /\ Len(h) = Len(b) - i BY FromType
<1>2. x \in Seq(Byte) /\ Len(x) = k BY Parts
<1>3. PICK y \in Seq(Byte) : y = From(w, k) BY FromType
<1>4. w = x \o y
  <2>1. PICK u \in Seq(Byte), v \in Seq(Byte) : Cut(w, k, u, v) BY CutExists
  <2> QED BY <2>1, <1>3 DEF Cut, From
<1>5. h \o x \in Seq(Byte) /\ Len(h \o x) = Len(h) + Len(x) BY <1>2, ConcatProperties
<1>6. b \o x \in Seq(Byte) /\ Len(b \o x) = Len(b) + Len(x) BY <1>2, ConcatProperties
<1>7. Regroups(h, x, y) BY <1>2, Associative
<1>8. (h \o x) \o y = h \o w BY <1>4, <1>7 DEF Regroups
<1>9. From(h \o x, 0) = h \o x
  <2>1. PICK z \in Seq(Byte) : z = h \o x BY <1>5
  <2>2. SubSeq(z, 1, Len(z)) = z BY SubSeqFull
  <2> QED BY <2>1, <2>2 DEF From
<1>10. From(b \o x, i) = h \o x BY <1>1, <1>2, FromConcat
<1> QED BY <1>1, <1>2, <1>3, <1>5, <1>6, <1>8, <1>9, <1>10 DEF Refill

LEMMA DownReadSome ==
  ASSUME Running, DownInv, sc.way = "down", ~desync, ReadSome PROVE DownInv'
<1>1. Ready BY DownFacts
<1>2. PICK pos : pos = (IF Full THEN 0 ELSE b_i) /\ Fill(pos) BY DEF ReadSome
<1>0. PICK b \in Seq(Byte), w \in Seq(Byte) : b = buf /\ w = wire BY <1>1 DEF Ready
<1>3. PICK i \in 0 .. Len(b) : b = buf /\ w = wire /\ i = b_i BY <1>0, <1>1 DEF Ready
<1>4. PICK kept \in Seq(Byte) : /\ kept = IF Full THEN From(b, i) ELSE b
                                /\ Len(kept) = IF Full THEN Len(b) - i ELSE Len(b)
  BY FromType
<1>5. PICK cut \in sc.cuts : /\ buf' = kept \o SubSeq(w, 1, Min({cut, Len(w), sc.size - Len(kept)}))
                             /\ wire' = From(w, Min({cut, Len(w), sc.size - Len(kept)}))
  BY <1>2, <1>3, <1>4 DEF Fill, From
<1>6. /\ sc.size \in Nat /\ sc.cuts \subseteq Nat /\ Len(b) \in Nat /\ Len(w) \in Nat /\ i \in Nat
      /\ Len(b) <= sc.size /\ i <= Len(b)
  BY <1>1, <1>3, ScenarioFacts DEF Ready
<1>7. Len(kept) \in Nat /\ Len(kept) <= sc.size /\ sc.size - Len(kept) \in Nat BY <1>4, <1>6
<1>8. PICK k : k = Min({cut, Len(w), sc.size - Len(kept)}) OBVIOUS
<1>9. k \in 0 .. Len(w) /\ k <= sc.size - Len(kept)
  <2>1. cut \in Nat BY <1>6
  <2>2. k \in Nat /\ k <= Len(w) /\ k <= sc.size - Len(kept) BY <2>1, <1>6, <1>7, <1>8, MinIsOne
  <2> QED BY <2>2, <1>6
<1>10. PICK x : x = SubSeq(w, 1, k) OBVIOUS
<1>11. Refill(b, i, w, k, x) BY <1>9, <1>10, Refilled
<1>12. buf' = kept \o x /\ wire' = From(w, k) BY <1>5, <1>8, <1>10
<1>13. /\ b_i' = pos /\ phase' = "iterating" /\ UNCHANGED <<sc, got, desync, chunks>>
  BY <1>2 DEF Fill, up
<1>14. /\ wire' \in Seq(Byte) /\ buf' \in Seq(Byte) /\ Len(buf') = Len(kept) + k
       /\ pos \in 0 .. Len(buf')
       /\ From(buf', pos) \o wire' = From(b, i) \o w
  <2>0. k \in Nat BY <1>6, <1>9
  <2>1. CASE Full
    <3>1. kept = From(b, i) /\ Len(kept) = Len(b) - i /\ pos = 0 BY <2>1, <1>2, <1>4
    <3>2. /\ kept \o x \in Seq(Byte) /\ Len(kept \o x) = Len(kept) + k
          /\ From(kept \o x, 0) \o From(w, k) = From(b, i) \o w
          /\ From(w, k) \in Seq(Byte)
      BY <1>11, <3>1 DEF Refill
    <3>3. 0 \in 0 .. Len(kept) + k BY <1>7, <2>0
    <3> QED BY <1>12, <3>1, <3>2, <3>3
  <2>2. CASE ~Full
    <3>1. kept = b /\ Len(kept) = Len(b) /\ pos = i BY <2>2, <1>2, <1>3, <1>4
    <3>2. /\ kept \o x \in Seq(Byte) /\ Len(kept \o x) = Len(kept) + k
          /\ From(kept \o x, i) \o From(w, k) = From(b, i) \o w
          /\ From(w, k) \in Seq(Byte)
      BY <1>11, <3>1 DEF Refill
    <3>3. i \in 0 .. Len(kept) + k BY <1>6, <3>1, <2>0
    <3> QED BY <1>12, <3>1, <3>2, <3>3
  <2> QED BY <2>1, <2>2
<1>15. Len(buf') <= sc.size BY <1>6, <1>7, <1>9, <1>14
<1>16. From(b, i) \o w = AllOf(Rest) BY <1>1, <1>3 DEF Ready
<1>17. Rest' = Rest /\ AllOf(Rest)' = AllOf(Rest) BY <1>13 DEF Rest, AllOf, Encoded
<1>18. Here' \o wire' = AllOf(Rest)' BY <1>13, <1>14, <1>16, <1>17 DEF Here, From
<1>19. Len(got') \in 0 .. Len(sc'.msgs) /\ got' = SubSeq(sc'.msgs, 1, Len(got'))
  BY <1>1, <1>13 DEF Ready
<1> QED BY <1>1, <1>13, <1>14, <1>15, <1>18, <1>19 DEF DownInv, Ready

\* A message is taken: what follows it is the rest of the messages.
LEMMA DownTaken ==
  ASSUME Running, sc.way = "down", ~desync, Ready, phase = "iterating",
         NEW r, Taken(buf, wire, Rest, r), got' = Append(got, r.v), _consume(r.i),
         UNCHANGED <<sc, wire, phase, desync, chunks>>
  PROVE  DownInv'
<1>1. PICK b \in Seq(Byte), w \in Seq(Byte) : b = buf /\ w = wire BY DEF Ready
<1>2. PICK m \in Seq(Values) : m = sc.msgs BY ScenarioFacts
<1>3. PICK n \in 0 .. Len(m) : n = Len(got) BY <1>2 DEF Ready
<1>4. PICK V : V = Values OBVIOUS
<1>5. m \in Seq(V) /\ Rest = From(m, n) BY <1>2, <1>3, <1>4 DEF Rest, From
<1>6. From(m, n) # <<>> BY <1>5 DEF Taken
<1>7. /\ n + 1 \in 1 .. Len(m)
      /\ Head(From(m, n)) = m[n + 1] /\ Tail(From(m, n)) = From(m, n + 1)
      /\ SubSeq(m, 1, n + 1) = Append(SubSeq(m, 1, n), m[n + 1])
  BY <1>5, <1>6, RestHead
<1>8. got' = SubSeq(m, 1, n + 1)
  <2>1. got = SubSeq(m, 1, n) BY <1>2, <1>3 DEF Ready
  <2>2. r.v = m[n + 1] BY <1>5, <1>7 DEF Taken
  <2> QED BY <2>1, <2>2, <1>7
<1>9. Len(got') = n + 1
  <2>1. n + 1 \in 0 .. Len(m) BY <1>7
  <2> QED BY <2>1, <1>5, <1>8, Parts
<1>10. Len(got') \in 0 .. Len(m) /\ got' = SubSeq(m, 1, Len(got')) BY <1>7, <1>8, <1>9
<1>11. Rest' = Tail(Rest)
  <2>1. Rest' = SubSeq(m, Len(got') + 1, Len(m)) BY <1>2 DEF Rest
  <2> QED BY <2>1, <1>5, <1>7, <1>9 DEF From
<1>12. PICK i \in 0 .. Len(b) : i = r.i /\ From(b, i) \o w = AllOf(Tail(Rest)) BY <1>1 DEF Taken
<1>13. /\ buf' \in Seq(Byte) /\ Len(buf') <= Len(b) /\ b_i' \in 0 .. Len(buf')
       /\ From(buf', b_i') = From(b, i)
  <2>0. Len(b) \in Nat OBVIOUS
  <2>1. CASE i = Len(b)
    <3>1. b_i' = 0 /\ buf' = <<>> BY <2>1, <1>1, <1>12 DEF _consume
    <3>2. <<>> \in Seq(Byte) /\ Len(<<>>) = 0 OBVIOUS
    <3>3. From(<<>>, 0) = <<>> BY SubSeqEmpty DEF From
    <3>4. From(b, i) = <<>>
      <4>1. Len(b) < i + 1 BY <2>0, <2>1
      <4> QED BY <4>1, <2>0, SubSeqEmpty DEF From
    <3> QED BY <2>0, <3>1, <3>2, <3>3, <3>4
  <2>2. CASE i # Len(b)
    <3>1. b_i' = i /\ buf' = b BY <2>2, <1>1, <1>12 DEF _consume
    <3> QED BY <2>0, <3>1
  <2> QED BY <2>1, <2>2
<1>14. Len(buf') <= sc.size
  <2>1. Len(b) <= sc.size BY <1>1 DEF Ready
  <2>2. sc.size \in Nat /\ Len(b) \in Nat /\ Len(buf') \in Nat BY <1>13, ScenarioFacts, LenProperties
  <2> QED BY <2>1, <2>2, <1>13
<1>15. Here' \o wire' = AllOf(Rest)'
  <2>1. Here' = From(b, i) BY <1>13 DEF Here, From
  <2>2. AllOf(Rest)' = AllOf(Tail(Rest)) BY <1>11 DEF AllOf, Encoded
  <2> QED BY <2>1, <2>2, <1>1, <1>12
<1>16. wire' \in Seq(Byte) /\ chunks' = <<>> /\ phase' = "iterating" /\ ~desync' /\ sc' = sc
  BY <1>1 DEF Ready
<1> QED BY <1>2, <1>10, <1>13, <1>14, <1>15, <1>16 DEF DownInv

LEMMA DownNext ==
  ASSUME Running, DownInv, sc.way = "down", ~desync, Next_ PROVE DownInv'
<1>1. Ready BY DownFacts
<1>2. PICK r : r = _unpack(buf, b_i) OBVIOUS
<1>3. phase = "iterating" /\ UNCHANGED <<sc, wire, chunks>> BY DEF Next_, up
<1>4. /\ r.st = "ok" => Taken(buf, wire, Rest, r)
      /\ r.st = "more" => Lacking(From(buf, b_i), Rest)
      /\ r.st = "error" => Rest # <<>> /\ Refused(Head(Rest))
  <2>1. PICK V : V = Values /\ Coded(V) /\ \A v \in V : Decodes(v, Seq(Byte)) BY ScenarioFacts
  <2>2. PICK b \in Seq(Byte), w \in Seq(Byte) : b = buf /\ w = wire BY <1>1 DEF Ready
  <2>3. PICK i \in 0 .. Len(b) : i = b_i BY <1>1, <2>2 DEF Ready
  <2>4. PICK rest \in Seq(V) : rest = Rest BY <1>1, <2>1 DEF Ready
  <2>5. From(b, i) \o w = AllOf(rest) BY <1>1, <2>2, <2>3, <2>4 DEF Ready
  <2>6. Waits(Seq(Byte)) BY DEF Running, CodecRight
  <2>7. r = _unpack(b, i) BY <1>2, <2>2, <2>3
  <2>8. /\ r.st = "ok" => Taken(b, w, rest, r)
        /\ r.st = "more" => Lacking(From(b, i), rest)
        /\ r.st = "error" => rest # <<>> /\ Refused(Head(rest))
    BY <2>1, <2>5, <2>6, <2>7, Outcomes
  <2> QED BY <2>2, <2>3, <2>4, <2>8
<1>5. CASE /\ r.st = "ok" /\ got' = Append(got, r.v) /\ _consume(r.i)
           /\ UNCHANGED <<phase, desync>>
  BY <1>1, <1>3, <1>4, <1>5, DownTaken
<1>6. CASE /\ r.st = "more" /\ b_i' = b_cp /\ desync' = (b_i # b_cp) /\ phase' = "idle"
           /\ UNCHANGED <<buf, got>>
  <2>1. /\ wire' \in Seq(Byte) /\ buf' \in Seq(Byte) /\ chunks' = <<>> /\ Len(buf') <= sc'.size
        /\ Len(got') \in 0 .. Len(sc'.msgs) /\ got' = SubSeq(sc'.msgs, 1, Len(got'))
        /\ phase' = "idle"
    BY <1>1, <1>3, <1>6 DEF Ready
  <2>2. CASE desync' BY <2>1, <2>2 DEF DownInv
  <2>3. CASE ~desync'
    <3>1. b_i = b_cp BY <1>6, <2>3, Zenon
    <3>2. UNCHANGED <<sc, wire, buf, b_i, got>> BY <1>3, <1>6, <3>1
    <3>3. Rest' = Rest /\ Here' = Here /\ AllOf(Rest)' = AllOf(Rest)
          /\ Encoded(Head(Rest))' = Encoded(Head(Rest))
      BY <3>2 DEF Rest, Here, AllOf, Encoded
    <3>4. Here = From(buf, b_i) BY DEF Here, From
    <3>5. /\ b_i' \in 0 .. Len(buf') /\ Here' \o wire' = AllOf(Rest)'
      BY <1>1, <3>2, <3>3, <3>4 DEF Ready
    <3>6. IF Rest' = <<>> THEN Here' = <<>> ELSE Len(Here') < Len(Encoded(Head(Rest))')
      BY <1>4, <1>6, <3>3, <3>4 DEF Lacking
    <3> QED BY <2>1, <2>3, <3>5, <3>6 DEF DownInv
  <2> QED BY <2>2, <2>3
<1>7. CASE r.st = "error" /\ phase' = "left" /\ UNCHANGED <<buf, b_i, got, desync>>
  <2>1. Rest # <<>> /\ Refused(Head(Rest)) BY <1>4, <1>7
  <2>2. Rest' = Rest /\ Here' = Here /\ AllOf(Rest)' = AllOf(Rest) BY <1>3, <1>7 DEF Rest, Here, AllOf, Encoded
  <2>3. Here = From(buf, b_i) BY DEF Here, From
  <2>4. /\ wire' \in Seq(Byte) /\ buf' \in Seq(Byte) /\ chunks' = <<>> /\ Len(buf') <= sc'.size
        /\ Len(got') \in 0 .. Len(sc'.msgs) /\ got' = SubSeq(sc'.msgs, 1, Len(got'))
        /\ b_i' \in 0 .. Len(buf') /\ Here' \o wire' = AllOf(Rest)' /\ ~desync'
    BY <1>1, <1>3, <1>7, <2>2, <2>3 DEF Ready
  <2> QED BY <1>7, <2>1, <2>2, <2>4 DEF DownInv
<1> QED BY <1>2, <1>5, <1>6, <1>7 DEF Next_

LEMMA DownStep ==
  ASSUME Running, DownInv, [Next]_vars PROVE DownInv'
<1>1. CASE UNCHANGED vars BY <1>1, DownFrame DEF vars, downVars, down, up
<1>2. CASE Next
  <2>1. ~desync /\ sc' = sc
    BY <1>2 DEF Next, ReadFails, Give_up, ReadSome, Fill, Next_, PackCall, Write, WriteRaises
  <2> SUFFICES ASSUME sc.way = "down" PROVE DownInv' BY <2>1 DEF DownInv
  <2>2. CASE ReadFails BY <2>1, <2>2, DownReadFails
  <2>3. CASE ReadSome BY <2>1, <2>3, DownReadSome
  <2>4. CASE Next_ BY <2>1, <2>4, DownNext
  <2>5. ~PackCall BY DEF PackCall
  <2>6. ~Write /\ ~WriteRaises BY DEF Write, WriteRaises, DownInv
  <2> QED BY <1>2, <2>2, <2>3, <2>4, <2>5, <2>6 DEF Next
<1> QED BY <1>1, <1>2

LEMMA DownInStep ==
  ASSUME Running, DownInv PROVE InStep
<1> SUFFICES ASSUME sc.way = "down", ~desync PROVE InStep BY DEF InStep, CurrentMessage
<1>1. Ready BY DownFacts
<1>2. phase = "left" => Refused(Head(Rest)) BY DEF DownInv
<1>3. got \o Rest = sc.msgs
  <2>1. PICK m \in Seq(Values) : m = sc.msgs BY ScenarioFacts
  <2>2. PICK n \in 0 .. Len(m) : n = Len(got) BY <1>1, <2>1 DEF Ready
  <2>3. PICK x \in Seq(Values), y \in Seq(Values) : Cut(m, n, x, y) BY CutExists
  <2>4. x = got BY <1>1, <2>1, <2>2, <2>3 DEF Cut, Ready
  <2>5. y = Rest BY <2>1, <2>2, <2>3 DEF Cut, Rest
  <2> QED BY <2>1, <2>3, <2>4, <2>5 DEF Cut
<1>4. SubSeq(buf, b_i + 1, Len(buf)) \o wire = AllOf(Rest) BY <1>1 DEF Ready, From
<1> QED BY <1>2, <1>3, <1>4 DEF InStep, CurrentMessage

-----------------------------------------------------------------------------

BuffersInv == DownInv /\ UpInv

\* Whatever the messages, the cuts and the sizes of the buffers, and however
\* the calls of pack and the writes interleave: in step, the buffer and the
\* wire hold the messages not unpacked yet; and what has been written is the
\* messages accepted, the last possibly unfinished (msgpack.py, Unpacker and
\* Packer).
THEOREM StreamInvariance == CodecRight => (Spec => [](sc \in Scenarios /\ BuffersInv))
<1> SUFFICES ASSUME CodecRight PROVE Spec => [](sc \in Scenarios /\ BuffersInv) OBVIOUS
<1> DEFINE I == sc \in Scenarios /\ BuffersInv
<1>1. Init => I BY UpInit, DownInit DEF BuffersInv, Running, Init
<1>2. I /\ [Next]_vars => I'
  <2> SUFFICES ASSUME I, [Next]_vars PROVE I' OBVIOUS
  <2>1. Running BY DEF Running
  <2>2. UpInv' BY <2>1, UpStep DEF BuffersInv
  <2>3. DownInv' BY <2>1, DownStep DEF BuffersInv
  <2>4. sc' = sc
    BY DEF vars, Next, ReadFails, Give_up, ReadSome, Fill, Next_, PackCall, Write, WriteRaises
  <2> QED BY <2>2, <2>3, <2>4 DEF BuffersInv
<1> QED BY <1>1, <1>2, PTL DEF Spec

\* Wherever the stream is cut, as long as no cut has put the Unpacker out of
\* step: the messages unpacked and those still in the buffer and on the wire
\* are the messages sent, and a reader is left only for one that it refuses.
THEOREM StreamInStep == CodecRight => (Spec => []InStep)
<1> SUFFICES ASSUME CodecRight PROVE Spec => []InStep OBVIOUS
<1>1. sc \in Scenarios /\ BuffersInv => InStep BY DownInStep DEF BuffersInv, Running
<1> QED BY <1>1, StreamInvariance, PTL

LEMMA StreamTooLong ==
  ASSUME CodecRight, sc \in Scenarios, BuffersInv PROVE TooLongOnly
<1>1. Running BY DEF Running
<1>2. CASE sc.way = "down" BY <1>2 DEF BuffersInv, DownInv, TooLongOnly
<1>3. CASE sc.way = "up" BY <1>3 DEF BuffersInv, UpInv, TooLongOnly
<1> QED BY <1>1, <1>2, <1>3, ScenarioFacts

\* The connection is given up only for a message longer than the buffer.
THEOREM GivenUpForLength == CodecRight => (Spec => []TooLongOnly)
<1> SUFFICES ASSUME CodecRight PROVE Spec => []TooLongOnly OBVIOUS
<1>1. sc \in Scenarios /\ BuffersInv => TooLongOnly BY StreamTooLong
<1> QED BY <1>1, StreamInvariance, PTL

\* Neither a writer that raises nor a callback that packs in the middle of
\* another message tears a message.
THEOREM MessagesNotTorn == CodecRight => (Spec => []NotTorn)
<1> SUFFICES ASSUME CodecRight PROVE Spec => []NotTorn OBVIOUS
<1>1. sc \in Scenarios /\ BuffersInv => NotTorn BY UpNotTorn DEF BuffersInv, Running
<1> QED BY <1>1, StreamInvariance, PTL

=============================================================================
