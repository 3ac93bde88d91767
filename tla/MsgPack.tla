------------------------------- MODULE MsgPack -------------------------------
(***************************************************************************)
(* The encoding of embedded/msgpack.py: which writes Packer._pack makes of *)
(* a value, and what Unpacker._unpack makes of a buffer that may end too   *)
(* early.  The multiplexer's codec (moat.lib.codec) encodes in the same    *)
(* way, but for its floats, which have eight bytes.                        *)
(*                                                                         *)
(* Bytes are numbers, buffers sequences of them, positions count from 0    *)
(* as in the code.  An integer is its eight bytes in two's complement, so  *)
(* that the limits of every width are exact; text is its UTF-8 bytes.      *)
(***************************************************************************)
EXTENDS Integers, Sequences, SequencesExt, FiniteSetsExt, TLC

Nil        == [t |-> "nil"]
Bool(x)    == [t |-> "bool", x |-> x]
Number(neg, b) == [t |-> "int", neg |-> neg, b |-> b]
Float(b)   == [t |-> "float", b |-> b]
Text(b)    == [t |-> "raw", b |-> b]
Bin(b)     == [t |-> "bin", b |-> b]
ExtType(code, b) == [t |-> "ext", code |-> code, b |-> b]
List(s)    == [t |-> "array", s |-> s]
Dict(p)    == [t |-> "map", p |-> p]       \* the pairs, in their order

Repeat(x, n) == [k \in 1..n |-> x]
\* b, widened to eight bytes
Widen(b, neg) == Repeat(IF neg THEN 255 ELSE 0, 8 - Len(b)) \o b
UInt(b) == Number(FALSE, Widen(b, FALSE))
SInt(b) == LET neg == b[1] >= 128 IN Number(neg, Widen(b, neg))

\* n as k bytes, the highest first, and back
Bytes(n, k) == [j \in 1..k |-> (n \div 256^(k - j)) % 256]
Count(b)    == FoldLeft(LAMBDA acc, x : 256 * acc + x, 0, b)

-----------------------------------------------------------------------------
(* Packer.  wp packs into the buffer, wb writes bytes (see MsgStream).     *)

wp(b) == [how |-> "wp", b |-> b]
wb(b) == [how |-> "wb", b |-> b]

Widths == {1, 2, 4, 8}

\* the low k bytes of v hold its value
Fits(v, k) ==
    /\ \A j \in 1..8 - k : v.b[j] = IF v.neg THEN 255 ELSE 0
    /\ v.neg => v.b[9 - k] >= 128

IntCode == (1 :> 204) @@ (2 :> 205) @@ (4 :> 206) @@ (8 :> 207)

PackInt(v) ==
    LET fix == Fits(v, 1) /\ IF v.neg THEN v.b[8] >= 224 ELSE v.b[8] < 128
        k   == Min({w \in Widths : Fits(v, w)})
    IN  IF fix THEN wp(<<v.b[8]>>)
        ELSE wp(<<IntCode[k] + IF v.neg THEN 4 ELSE 0>> \o SubSeq(v.b, 9 - k, 8))

\* A length: in the code itself (base) up to max, else in the first width of
\* codes that holds it
PackCount(n, base, max, codes) ==
    LET k == Min({w \in DOMAIN codes : w = 4 \/ n < 256^w})
    IN  IF n <= max THEN <<base + n>> ELSE <<codes[k]>> \o Bytes(n, k)

RawCodes   == (1 :> 217) @@ (2 :> 218) @@ (4 :> 219)
BinCodes   == (1 :> 196) @@ (2 :> 197) @@ (4 :> 198)
ExtCodes   == (1 :> 199) @@ (2 :> 200) @@ (4 :> 201)
ArrayCodes == (2 :> 220) @@ (4 :> 221)
MapCodes   == (2 :> 222) @@ (4 :> 223)
FixExt     == (1 :> 212) @@ (2 :> 213) @@ (4 :> 214) @@ (8 :> 215) @@ (16 :> 216)

PackRawHeader(n)   == wp(PackCount(n, 160, 31, RawCodes))
PackBinHeader(n)   == wp(PackCount(n, 0, -1, BinCodes))
PackArrayHeader(n) == wp(PackCount(n, 144, 15, ArrayCodes))
PackMapHeader(n)   == wp(PackCount(n, 128, 15, MapCodes))
PackExtHeader(n)   == IF n \in DOMAIN FixExt THEN wb(<<FixExt[n]>>)
                      ELSE wp(PackCount(n, 0, -1, ExtCodes))

\* The writes that _pack makes
RECURSIVE Pack(_)
Pack(v) ==
    CASE v.t = "nil"   -> <<wb(<<192>>)>>
      [] v.t = "bool"  -> <<wb(<<IF v.x THEN 195 ELSE 194>>)>>
      [] v.t = "int"   -> <<PackInt(v)>>
      [] v.t = "float" -> <<wp(<<IF Len(v.b) = 4 THEN 202 ELSE 203>> \o v.b)>>
      [] v.t = "raw"   -> <<PackRawHeader(Len(v.b)), wb(v.b)>>
      [] v.t = "bin"   -> <<PackBinHeader(Len(v.b)), wb(v.b)>>
      [] v.t = "ext"   -> <<PackExtHeader(Len(v.b)), wp(<<v.code>>), wb(v.b)>>
      [] v.t = "array" -> <<PackArrayHeader(Len(v.s))>>
                          \o FlattenSeq([k \in 1..Len(v.s) |-> Pack(v.s[k])])
      [] v.t = "map"   -> <<PackMapHeader(Len(v.p))>>
                          \o FlattenSeq([k \in 1..Len(v.p) |->
                                           Pack(v.p[k][1]) \o Pack(v.p[k][2])])

-----------------------------------------------------------------------------
(* Unpacker.  A result says whether the buffer held all of it.             *)

OutOfData == [st |-> "more"]
Error     == [st |-> "error"]
Got(v, i) == [st |-> "ok", v |-> v, i |-> i]
Head1(typ, n, obj, i) == [st |-> "ok", typ |-> typ, n |-> n, obj |-> obj, i |-> i]

Has(b, i, n) == i + n <= Len(b)
Slice(b, i, n) == SubSeq(b, i + 1, i + n)

Immediate(obj, i) == Head1("immediate", 0, obj, i)

\* _read(n): the bytes of a text, a binary or an extension
Read(typ, b, i, n, code) ==
    IF Has(b, i, n) THEN Head1(typ, code, Slice(b, i, n), i + n) ELSE OutOfData

\* a number of k bytes at i, handed to Use if it is there
Sized(b, i, k, Use(_, _)) ==
    IF Has(b, i, k) THEN Use(Slice(b, i, k), i + k) ELSE OutOfData

Hdr(b, start) ==
    LET c == b[start + 1]
        i == start + 1
        W(first) == 2^(c - first)              \* widths 1, 2, 4, 8 in order
    IN
    IF ~Has(b, start, 1) THEN OutOfData ELSE
    CASE c < 128          -> Immediate(UInt(<<c>>), i)
      [] c >= 224         -> Immediate(SInt(<<c>>), i)
      [] c \in 160..191   -> Read("raw", b, i, c - 160, 0)
      [] c \in 144..159   -> Head1("array", c - 144, Nil, i)
      [] c \in 128..143   -> Head1("map", c - 128, Nil, i)
      [] c = 192          -> Immediate(Nil, i)
      [] c = 193          -> Error
      [] c \in {194, 195} -> Immediate(Bool(c = 195), i)
      [] c \in 196..198   -> Sized(b, i, W(196), LAMBDA n, j : Read("bin", b, j, Count(n), 0))
      [] c \in 199..201   -> Sized(b, i, W(199) + 1, LAMBDA n, j :
                                 Read("ext", b, j, Count(Front(n)), Last(n)))
      [] c \in 202..203   -> Sized(b, i, 2 * W(201), LAMBDA x, j : Immediate(Float(x), j))
      [] c \in 204..207   -> Sized(b, i, W(204), LAMBDA x, j : Immediate(UInt(x), j))
      [] c \in 208..211   -> Sized(b, i, W(208), LAMBDA x, j : Immediate(SInt(x), j))
      [] c \in 212..216   -> Sized(b, i, W(212) + 1, LAMBDA x, j :
                                 Head1("ext", x[1], Tail(x), j))
      [] c \in 217..219   -> Sized(b, i, W(217), LAMBDA n, j : Read("raw", b, j, Count(n), 0))
      [] c \in 220..221   -> Sized(b, i, W(219), LAMBDA n, j : Head1("array", Count(n), Nil, j))
      [] c \in 222..223   -> Sized(b, i, W(221), LAMBDA n, j : Head1("map", Count(n), Nil, j))

\* Use(x), with x evaluated once
With(x, Use(_)) == CHOOSE u \in {Use(y) : y \in {x}} : TRUE

\* The value at i, and n values from i on
RECURSIVE Unpack(_, _), UnpackMany(_, _, _)
Unpack(b, start) == With(Hdr(b, start), LAMBDA h :
    IF h.st # "ok" THEN h
    ELSE CASE h.typ = "immediate" -> Got(h.obj, h.i)
           [] h.typ = "raw"   -> Got(Text(h.obj), h.i)
           [] h.typ = "bin"   -> Got(Bin(h.obj), h.i)
           [] h.typ = "ext"   -> IF h.n < 128 THEN Got(ExtType(h.n, h.obj), h.i) ELSE Error
           [] h.typ = "array" -> With(UnpackMany(b, h.i, h.n), LAMBDA r :
                                   IF r.st = "ok" THEN Got(List(r.v), r.i) ELSE r)
           [] h.typ = "map"   -> With(UnpackMany(b, h.i, 2 * h.n), LAMBDA r :
                IF r.st = "ok"
                THEN Got(Dict([k \in 1..h.n |-> <<r.v[2 * k - 1], r.v[2 * k]>>]), r.i)
                ELSE r))
UnpackMany(b, start, n) ==
    IF n = 0 THEN Got(<<>>, start)
    ELSE With(Unpack(b, start), LAMBDA one :
           IF one.st # "ok" THEN one
           ELSE With(UnpackMany(b, one.i, n - 1), LAMBDA rest :
                  IF rest.st = "ok" THEN Got(<<one.v>> \o rest.v, rest.i) ELSE rest))

\* The device knows only the extension codes 0..127 (msgpack.py:52); msgpack
\* also has -128..-1.  One that it refuses, wherever it is, ends its reader.
RECURSIVE Unknown(_)
Unknown(v) ==
    CASE v.t = "ext"   -> v.code > 127
      [] v.t = "array" -> \E k \in 1..Len(v.s) : Unknown(v.s[k])
      [] v.t = "map"   -> \E k \in 1..Len(v.p) : Unknown(v.p[k][1]) \/ Unknown(v.p[k][2])
      [] OTHER         -> FALSE

=============================================================================
