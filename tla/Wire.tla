--------------------------------- MODULE Wire ---------------------------------
(***************************************************************************)
(* The layout of frames (internal/protocol/frame.go).  A byte is a number  *)
(* below 256, what goes over a connection is a sequence of bytes.  What a  *)
(* reader makes of it is <<>> for an error and <<value>> otherwise.        *)
(***************************************************************************)
EXTENDS Integers, Sequences

Byte == 0..255

Magic       == 255
RouterMagic == 254

\* binary.LittleEndian: two and four bytes of a number, whose higher bits are
\* lost, and the number again.
LE2(n) == <<n % 256, (n \div 256) % 256>>
LE4(n) == <<n % 256, (n \div 256) % 256, (n \div 65536) % 256, (n \div 16777216) % 256>>
Uint16(b) == b[1] + 256 * b[2]
Uint32(b) == b[1] + 256 * b[2] + 65536 * b[3] + 16777216 * b[4]

\* The bytes of s from place i on.
From(s, i) == SubSeq(s, i, Len(s))

\* [0xFF][ClrID][TotalLen][Payload]
PrependHeader(clrid, payload) ==
  <<Magic>> \o LE4(clrid) \o LE4(Len(payload)) \o payload

\* [0xFE][TotalLen][SegmentLen][Segment][IsWrite][ShardFrame].  The length of
\* the segment has one byte, and the total length counts what follows it.
RouterBody(segment, isWrite, shard) ==
  <<(Len(segment) % 256)>> \o segment \o <<IF isWrite THEN 1 ELSE 0>> \o shard
RouterFrame(segment, isWrite, shard) ==
  LET body == RouterBody(segment, isWrite, shard)
  IN <<RouterMagic>> \o LE4(Len(body)) \o body

\* A fault: the total length counts the segment as its length byte does.
PrependRouterHeaderShort(segment, isWrite, clrid, payload) ==
  LET shard == PrependHeader(clrid, payload)
      body == RouterBody(segment, isWrite, shard)
  IN <<RouterMagic>> \o LE4(1 + (Len(segment) % 256) + 1 + Len(shard)) \o body

PrependRouterHeader(segment, isWrite, clrid, payload) ==
  RouterFrame(segment, isWrite, PrependHeader(clrid, payload))

\* A fault: the length of the payload is left out, not zero.
BuildKeepaliveFrameShort(clrid, segment) ==
  RouterFrame(segment, FALSE, <<Magic>> \o LE4(clrid))

\* BuildKeepaliveFrame: a request without a payload, for a segment of its own
\* ("__keepalive__", thirteen bytes).
BuildKeepaliveFrame(clrid, segment) ==
  RouterFrame(segment, FALSE, <<Magic>> \o LE4(clrid) \o <<0, 0, 0, 0>>)

\* The bytes of a field: id, type, length, data.
FieldBytes(f) == LE2(f.id) \o <<f.type>> \o LE4(Len(f.data)) \o f.data

\* A fault: the payload is taken to be as long as what has arrived.
DrainFrameEager(s) ==
  LET payload == From(s, 10)
      n == payload[1]
  IN IF Len(s) < 10 \/ s[1] # Magic \/ Len(payload) < 1 + n + 2 THEN <<>>
     ELSE <<[clrid  |-> Uint32(SubSeq(s, 2, 5)),
             status |-> SubSeq(payload, 2, 1 + n),
             count  |-> Uint16(SubSeq(payload, 2 + n, 3 + n)),
             data   |-> From(payload, 4 + n),
             rest   |-> <<>>]>>

\* DrainFrame, of a connection that delivers the bytes s and then breaks: the
\* header, the status and the field count, and the bytes of the fields; rest is
\* what stays on the connection.
DrainFrame(s) ==
  LET len == Uint32(SubSeq(s, 6, 9))
      payload == SubSeq(s, 10, 9 + len)
      n == payload[1]
  IN IF Len(s) < 9 \/ s[1] # Magic \/ Len(s) < 9 + len \/ len < 1 \/ len < 1 + n + 2
     THEN <<>>
     ELSE <<[clrid  |-> Uint32(SubSeq(s, 2, 5)),
             status |-> SubSeq(payload, 2, 1 + n),
             count  |-> Uint16(SubSeq(payload, 2 + n, 3 + n)),
             data   |-> From(payload, 4 + n),
             rest   |-> From(s, 10 + len)]>>

\* One turn of the loop of ParseFields: the fields read so far, and behind how
\* many bytes the next begins.
NothingRead == [good |-> TRUE, fields |-> <<>>, offset |-> 0]
ReadField(data, p) ==
  LET from == p.offset + 7
      len == Uint32(SubSeq(data, p.offset + 4, from))
  IN IF ~p.good \/ from > Len(data) \/ from + len > Len(data)
     THEN [NothingRead EXCEPT !.good = FALSE]
     ELSE [good |-> TRUE, offset |-> from + len,
           fields |-> Append(p.fields,
             [id |-> Uint16(SubSeq(data, p.offset + 1, p.offset + 2)),
              type |-> data[p.offset + 3],
              data |-> SubSeq(data, from + 1, from + len)])]

\* The loop of ParseFields.
ReadFields(data, count) ==
  LET read[i \in 0..count] ==
        IF i = 0 THEN NothingRead ELSE ReadField(data, read[i - 1])
  IN read[count]

\* A fault: bytes left over are let pass.
ParseFieldsLoosely(data, count) ==
  LET all == ReadFields(data, count)
  IN IF all.good THEN <<all.fields>> ELSE <<>>

\* ParseFields: as many fields as the header said, one after the other, and no
\* byte left.
ParseFields(data, count) ==
  LET all == ReadFields(data, count)
  IN IF all.good /\ all.offset = Len(data) THEN <<all.fields>> ELSE <<>>

-----------------------------------------------------------------------------
(* The router's side, as the README of the SDK lays out the frames         *)

\* A router takes a frame off its connection: what it finds in it, <<>> if the
\* shard frame is not where it should be, and the bytes that follow.
TakeApart(s) ==
  LET total == Uint32(SubSeq(s, 2, 5))
      body == SubSeq(s, 6, 5 + total)
      n == body[1]
      shard == From(body, n + 3)
      good == /\ total >= 1 + n + 1 + 9
              /\ shard[1] = Magic /\ Uint32(SubSeq(shard, 6, 9)) = Len(shard) - 9
  IN IF Len(s) < 5 \/ s[1] # RouterMagic \/ Len(s) < 5 + total \/ total < 1
     THEN [request |-> <<>>, rest |-> <<>>]
     ELSE [request |-> IF ~good THEN <<>>
                       ELSE <<[segment |-> SubSeq(body, 2, 1 + n),
                               isWrite |-> body[n + 2] = 1,
                               clrid   |-> Uint32(SubSeq(shard, 2, 5)),
                               payload |-> From(shard, 10)]>>,
           rest |-> From(s, 6 + total)]

\* A shard answers: the header, the status as a string, the count, the fields.
Response(clrid, status, count, data) ==
  PrependHeader(clrid, <<Len(status)>> \o status \o LE2(count) \o data)
===============================================================================
