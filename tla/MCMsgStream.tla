----------------------------- MODULE MCMsgStream -----------------------------
(* Instances of MsgStream for TLC.                                         *)
EXTENDS MsgStream, MsgPack

\* Eight bytes that end in b, and those of a negative number
N(b) == UInt(b)
M(b) == SInt(<<255>> \o b)

\* The limits of every width
Integers_ ==
    <<N(<<0>>), N(<<127>>), N(<<128>>), N(<<255>>), N(<<1, 0>>), N(<<255, 255>>),
      N(<<1, 0, 0>>), N(<<255, 255, 255, 255>>), N(<<1, 0, 0, 0, 0>>),
      N(Repeat(255, 8)), M(<<255>>), M(<<224>>), M(<<223>>), M(<<128>>), M(<<127>>),
      M(<<128, 0>>), M(<<127, 255>>), M(<<128, 0, 0, 0>>), M(<<127, 255, 255, 255>>),
      SInt(<<128, 0, 0, 0, 0, 0, 0, 0>>)>>

Data(n) == Repeat(7, n)
Items(n) == [k \in 1..n |-> UInt(<<k>>)]
Pairs(n) == [k \in 1..n |-> <<Text(<<k>>), Nil>>]
Each(f(_), lens) == [k \in 1..Len(lens) |-> f(lens[k])]

Others ==
    <<Nil, Bool(TRUE), Bool(FALSE), Float(Data(4))>>
    \o Each(LAMBDA n : Text(Data(n)), <<0, 31, 32, 255, 256>>)
    \o Each(LAMBDA n : Bin(Data(n)), <<0, 31, 32, 63, 64, 255, 256>>)
    \o Each(LAMBDA n : ExtType(n % 128, Data(n)), <<0, 1, 2, 3, 4, 8, 16, 17, 255, 256>>)
    \o Each(LAMBDA n : List(Items(n)), <<0, 15, 16>>)
    \o Each(LAMBDA n : Dict(Pairs(n)), <<0, 15, 16>>)

\* A request as the multiplexer makes it: {"a": .., "i": .., "d": [..]}
Message == Dict(<< <<Text(<<97>>), Text(<<1>>)>>, <<Text(<<100>>), List(<<Nil, Float(Data(8))>>)>> >>)

S(way, size, msgs, cuts) == [way |-> way, size |-> size, msgs |-> msgs, cuts |-> cuts]
AnyCut == 1..8

\* Short messages, short buffers, every cut; and every kind of value alone
Streams ==
    {S("down", n, <<Bin(Data(1)), Nil, Text(Data(3)), Bool(TRUE), Bin(Data(2))>>, AnyCut) : n \in 4..8}
    \cup {S("down", 6, <<Nil, Text(Data(7))>>, AnyCut)}
    \cup {S("down", 16, <<Nil, v, Nil>>, AnyCut) :
            v \in {ExtType(255, Data(4)), List(<<Nil, ExtType(128, Data(1))>>)}}
    \cup {S("down", 24, <<Message, Bin(Data(20)), Message>>, AnyCut)}
    \cup {S("up", n, <<Message, Bin(Data(n - 3)), Nil, Bin(Data(20)), Text(Data(4)), Message>>, {1}) :
            n \in {10, 16}}
    \cup {S("down", 5120, <<v, Nil>>, {5, 5120}) : v \in Range(Integers_ \o Others)}
    \cup {S("up", 64, <<v, Nil>>, {1}) : v \in Range(Integers_ \o Others)}

TwoMessages == {S("down", 8, <<Text(Data(3)), Text(Data(5))>>, AnyCut)}

\* The codec does what the buffers expect of it: with every number of bytes
\* of the value, after others and before others.
Around(v) ==
    {before \o SubSeq(Encoded(v), 1, n) : before \in {<<>>, <<193>>}, n \in 0..Len(Encoded(v))}
    \cup {Encoded(v) \o after : after \in {<<192>>, <<255, 1>>}}

ASSUME CodecAssumption ==
    \A s \in Scenarios : \A k \in 1..Len(s.msgs) :
      LET v == s.msgs[k] IN Encodes(v) /\ Decodes(v, Around(v)) /\ Waits(Around(v))

=============================================================================
