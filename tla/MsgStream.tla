------------------------------ MODULE MsgStream ------------------------------
(***************************************************************************)
(* The device's end of the TCP connection as a stream of bytes: messages   *)
(* from the multiplexer reach the Unpacker cut anywhere, and those of the  *)
(* device leave through the Packer's small buffer and a socket that does   *)
(* not block.  A scenario is one direction with a buffer of one size.      *)
(*                                                                         *)
(* After a cut that puts the Unpacker out of step (desync), or a write of  *)
(* which the socket took only a part (short), the model stops: what the    *)
(* properties say is about the program up to there.                        *)
(***************************************************************************)
EXTENDS Integers, Sequences, SequencesExt, FiniteSetsExt

CONSTANTS
    Scenarios,      \* [way, size, msgs, cuts]: see ScenarioOK
    _pack(_),       \* Packer._pack: the writes it makes, [how |-> "wp" or "wb", b |-> bytes]
    _unpack(_, _),  \* Unpacker._unpack: what a buffer has at a position
    Refused(_)      \* is there an extension in a value that the device does not know?

ScenarioOK(s) ==
    /\ s.msgs \in Seq(Range(s.msgs))
    /\ s.way \in {"down", "up"}          \* to or from the device
    /\ s.size \in Nat \ {0}              \* buf_size, or buf_len
    /\ s.cuts \subseteq Nat \ {0}        \* how much a read may find at most
    /\ s.way = "up" => s.size >= 9       \* what wp writes always fits
ASSUME StreamAssumption == \A s \in Scenarios : ScenarioOK(s)

VARIABLES
    sc,         \* the scenario
    wire,       \* down: bytes the Unpacker has not read; up: bytes written
    buf,        \* _b[:_b_n]
    b_i, b_cp,  \* _b_i and _b_cp
    phase,      \* of _read: idle, iterating, closed, or left by an exception
    got,        \* the messages unpacked
    desync,     \* _has has gone back to a position that is no longer the message's
    nxt,        \* how many messages pack has been called with
    packed,     \* those it has accepted
    chunks,     \* what the current call of pack has still to write
    bad,        \* _bad
    short       \* the socket took a part of a write

down == <<buf, b_i, b_cp, phase, got, desync>>
up   == <<nxt, packed, chunks, bad, short>>
vars == <<sc, wire, down, up>>

Byte == 0..255

\* The bytes of a value, as both ends write them
Encoded(v) == LET w == _pack(v) IN FlattenSeq([k \in 1..Len(w) |-> w[k].b])

AllOf(msgs) == FlattenSeq([k \in 1..Len(msgs) |-> Encoded(msgs[k])])

Init ==
    /\ sc \in Scenarios
    /\ wire = IF sc.way = "down" THEN AllOf(sc.msgs) ELSE <<>>
    /\ buf = <<>> /\ b_i = 0 /\ b_cp = 0 /\ phase = "idle" /\ got = <<>>
    /\ nxt = 0 /\ packed = <<>> /\ chunks = <<>> /\ bad = FALSE
    /\ desync = FALSE /\ short = FALSE

-----------------------------------------------------------------------------
(* The Unpacker, as UFuseClient._read drives it.                           *)

Reading == sc.way = "down" /\ phase = "idle" /\ wire # <<>>
Full    == Len(buf) = sc.size

Give_up ==
    /\ phase' = "closed"
    /\ UNCHANGED <<sc, wire, buf, b_i, b_cp, got, desync, up>>

\* Mutant: a full buffer is taken for one that is full of one message.
ReadFailsFull == Reading /\ Full /\ Give_up

\* Unpacker.read when there is no room: ValueError, and _read closes
ReadFails == Reading /\ Full /\ b_i = 0 /\ Give_up

\* What has arrived, as far as there is room after the data have been moved
\* to the buffer's start; the current position is then pos
Fill(pos) ==
    LET kept == IF Full THEN SubSeq(buf, b_i + 1, Len(buf)) ELSE buf IN
    /\ \E cut \in sc.cuts :
         LET k == Min({cut, Len(wire), sc.size - Len(kept)})
         IN  /\ buf' = kept \o SubSeq(wire, 1, k)
             /\ wire' = SubSeq(wire, k + 1, Len(wire))
    /\ b_i' = pos
    /\ phase' = "iterating"
    /\ UNCHANGED <<sc, b_cp, got, desync, up>>

\* Mutant: the data are moved, the position is not.
ReadKeepsPosition == Reading /\ ~(Full /\ b_i = 0) /\ Fill(b_i)

\* Mutant: in a full buffer, the data are never moved to make room.
ReadUnmoved == Reading /\ ~Full /\ Fill(b_i)

\* Unpacker.read; b_cp is left as it is
ReadSome == Reading /\ ~(Full /\ b_i = 0) /\ Fill(IF Full THEN 0 ELSE b_i)

_consume(i) ==
    /\ IF i = Len(buf) THEN b_i' = 0 /\ buf' = <<>> ELSE b_i' = i /\ buf' = buf
    /\ b_cp' = b_i'

\* __next__: a message, the end of the iteration, or an exception
Next_ ==
    /\ phase = "iterating"
    /\ LET r == _unpack(buf, b_i) IN
       \/ /\ r.st = "ok"
          /\ got' = Append(got, r.v) /\ _consume(r.i)
          /\ UNCHANGED <<phase, desync>>
       \/ /\ r.st = "more"
          /\ b_i' = b_cp /\ desync' = (b_i # b_cp)
          /\ phase' = "idle"
          /\ UNCHANGED <<buf, b_cp, got>>
       \/ /\ r.st = "error"
          /\ phase' = "left"
          /\ UNCHANGED <<buf, b_i, b_cp, got, desync>>
    /\ UNCHANGED <<sc, wire, up>>

-----------------------------------------------------------------------------
(* The Packer.                                                             *)

\* The buffer and the writes so far, after one more call of wp or wb
flush(p) == [b |-> <<>>, out |-> IF p.b = <<>> THEN p.out ELSE Append(p.out, p.b)]

PutBytes(p, x) ==
    IF Len(p.b) + Len(x) <= sc.size THEN flush([p EXCEPT !.b = @ \o x])
    ELSE IF 2 * Len(x) >= sc.size THEN [flush(p) EXCEPT !.out = Append(@, x)]
    ELSE [flush(p) EXCEPT !.b = x]

PutPacked(p, x) ==
    IF Len(p.b) + Len(x) <= sc.size THEN [p EXCEPT !.b = @ \o x]
    ELSE [flush(p) EXCEPT !.b = x]

Put(p, w) == IF w.how = "wb" THEN PutBytes(p, w.b) ELSE PutPacked(p, w.b)

\* All that pack(v) hands to the writer
Chunks(v) ==
    LET w == _pack(v)
        p[k \in 0..Len(w)] ==
            IF k = 0 THEN [b |-> <<>>, out |-> <<>>] ELSE Put(p[k - 1], w[k])
    IN  flush(p[Len(w)]).out

PackBegins(v) ==
    /\ bad' = TRUE
    /\ chunks' = Chunks(v)
    /\ packed' = Append(packed, v)

\* Mutant: a call that finds another one unfinished goes ahead.
PackAnyway ==
    /\ sc.way = "up" /\ nxt < Len(sc.msgs)
    /\ nxt' = nxt + 1
    /\ PackBegins(sc.msgs[nxt'])
    /\ UNCHANGED <<sc, wire, down, short>>

\* pack: from the main program or from a callback that interrupts it.  A
\* call that finds another one unfinished raises ValueError.
PackCall ==
    /\ sc.way = "up" /\ nxt < Len(sc.msgs)
    /\ nxt' = nxt + 1
    /\ IF bad THEN UNCHANGED <<bad, chunks, packed>> ELSE PackBegins(sc.msgs[nxt'])
    /\ UNCHANGED <<sc, wire, down, short>>

\* The writer takes all of a chunk or a part of it; after the last, pack
\* resets _bad
Write ==
    /\ chunks # <<>>
    /\ \E k \in {1, Len(Head(chunks))} :
         /\ wire' = wire \o SubSeq(Head(chunks), 1, k)
         /\ short' = (k < Len(Head(chunks)))
    /\ chunks' = Tail(chunks)
    /\ bad' = (chunks' # <<>>)
    /\ UNCHANGED <<sc, down, nxt, packed>>

\* It raises (no room, or no connection): pack is left, _bad stays
WriteRaises ==
    /\ chunks # <<>> /\ chunks' = <<>>
    /\ UNCHANGED <<sc, wire, down, nxt, packed, bad, short>>

-----------------------------------------------------------------------------

Next ==
    /\ ~desync /\ ~short
    /\ \/ ReadFails \/ ReadSome \/ Next_
       \/ PackCall \/ Write \/ WriteRaises

Spec == Init /\ [][Next]_vars

(* MicroPython runs the callback of a socket that has data.                *)
FairSpec == Spec /\ WF_vars(ReadFails \/ ReadSome) /\ WF_vars(Next_)

-----------------------------------------------------------------------------

\* The messages not unpacked yet
Rest == SubSeq(sc.msgs, Len(got) + 1, Len(sc.msgs))

\* Wherever the stream is cut: what has been unpacked are the messages sent,
\* and what is in the buffer from the current position on, with what is still
\* to be read, is exactly the others (msgpack.py:178, :197, :223, :334).
CurrentMessage ==
    sc.way = "down" =>
      /\ got \o Rest = sc.msgs
      /\ phase = "left" => Refused(Head(Rest))
      /\ SubSeq(buf, b_i + 1, Len(buf)) \o wire = AllOf(Rest)

\* The same of every stream that no cut has put out of step (see README.md,
\* finding 2): the codec, and the moving and emptying of the buffer, are right.
InStep == desync \/ CurrentMessage

\* The connection is given up (msgpack.py:174) only for a message that is
\* longer than the whole buffer, never because of what precedes it.
TooLongOnly ==
    phase = "closed" => /\ ~desync /\ Rest # <<>>
                        /\ Len(Encoded(Head(Rest))) > sc.size

Fit(msgs) == \A k \in 1..Len(msgs) :
                 Len(Encoded(msgs[k])) <= sc.size /\ ~Refused(msgs[k])

\* Each message is unpacked in the end, unless one is longer than the buffer
\* or refused.
AllUnpacked ==
    (sc.way = "down" /\ Fit(sc.msgs)) ~> (got = sc.msgs \/ desync)

\* What the device has written are whole messages, in the order of the calls
\* of pack that were accepted, the last possibly unfinished: neither a writer
\* that fails nor a call in the middle of another tears a message
\* (msgpack.py:502).
NotTorn ==
    (sc.way = "up" /\ ~short) =>
      /\ IsPrefix(wire, AllOf(packed))
      /\ IsPrefix(AllOf(IF bad THEN Front(packed) ELSE packed), wire)

-----------------------------------------------------------------------------
(* What the buffers expect of the codec.  A value has bytes.  Unpacked at  *)
(* a position where its bytes are, it is the value again and they are      *)
(* used up; where they have not all come, they are asked for.              *)

Encodes(v) ==
    /\ _pack(v) \in Seq([how : {"wp", "wb"}, b : Seq(Byte)])
    /\ Encoded(v) # <<>>

Decodes(v, bufs) ==
    \A b \in bufs : \A i \in 0..Len(b) :
      LET r == _unpack(b, i)
          here == SubSeq(b, i + 1, Len(b))
      IN  /\ IsPrefix(Encoded(v), here) =>
               IF Refused(v) THEN r.st = "error"
               ELSE r.st = "ok" /\ r.v = v /\ r.i = i + Len(Encoded(v))
          /\ IsStrictPrefix(here, Encoded(v)) =>
               r.st = "more" \/ (Refused(v) /\ r.st = "error")

Waits(bufs) == \A b \in bufs : _unpack(b, Len(b)).st = "more"

CodecRight ==
    /\ Waits(Seq(Byte))
    /\ \A s \in Scenarios : \A k \in 1..Len(s.msgs) :
         Encodes(s.msgs[k]) /\ Decodes(s.msgs[k], Seq(Byte))

(* What InStep and TooLongOnly need to be inductive.  When the Unpacker    *)
(* waits for more, the current message has not come as a whole.            *)

Here == SubSeq(buf, b_i + 1, Len(buf))

DownInv ==
    sc.way = "down" =>
      /\ wire \in Seq(Byte) /\ buf \in Seq(Byte) /\ chunks = <<>>
      /\ Len(buf) <= sc.size
      /\ phase \in {"idle", "iterating", "closed", "left"}
      /\ Len(got) \in 0..Len(sc.msgs) /\ got = SubSeq(sc.msgs, 1, Len(got))
      /\ IF desync THEN phase = "idle"
         ELSE /\ b_i \in 0..Len(buf)
              /\ Here \o wire = AllOf(Rest)
              /\ phase = "idle" =>
                   IF Rest = <<>> THEN Here = <<>> ELSE Len(Here) < Len(Encoded(Head(Rest)))
              /\ phase = "left" => Rest # <<>> /\ Refused(Head(Rest))
              /\ phase = "closed" => Rest # <<>> /\ Len(Encoded(Head(Rest))) > sc.size

(* What NotTorn needs: of the message that is being written, the first n   *)
(* bytes have been written, and the chunks hold the others.                *)
Partly(v, before, n) ==
    /\ wire = AllOf(before) \o SubSeq(Encoded(v), 1, n)
    /\ chunks # <<>> => FlattenSeq(chunks) = SubSeq(Encoded(v), n + 1, Len(Encoded(v)))

UpInv ==
    sc.way = "up" =>
      /\ phase = "idle" /\ nxt \in 0..Len(sc.msgs) /\ packed \in Seq(Range(sc.msgs))
      /\ wire \in Seq(Byte) /\ chunks \in Seq(Seq(Byte) \ {<<>>})
      /\ ~bad => chunks = <<>> /\ (short \/ wire = AllOf(packed))
      /\ bad => packed # <<>>
      /\ bad /\ ~short => \E n \in 0..Len(Encoded(Last(packed))) :
                              Partly(Last(packed), Front(packed), n)

=============================================================================
