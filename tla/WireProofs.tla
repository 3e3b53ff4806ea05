------------------------------ MODULE WireProofs ------------------------------
(***************************************************************************)
(* Frames are taken apart as they were put together, for every segment,    *)
(* payload, id and answer, and whatever follows them on the connection.    *)
(***************************************************************************)
EXTENDS Wire, Loops

\* The lengths and the counts a header can tell.
MaxLength == 4294967295
MaxCount  == 65535

\* Numbers below 256 are bytes, and so is a sequence of one of them.
LEMMA SmallIsByte == \A n \in Nat : n < 256 => n \in Byte
  BY DEF Byte

LEMMA OneByte == \A b \in Byte : <<b>> \in Seq(Byte) /\ Len(<<b>>) = 1 /\ <<b>>[1] = b
  OBVIOUS

\* Four bytes of a number give it back.
LEMMA LE4Bytes ==
  ASSUME NEW n \in Nat, n <= MaxLength
  PROVE  /\ LE4(n) \in Seq(Byte) /\ Len(LE4(n)) = 4
         /\ Uint32(LE4(n)) = n
  <1> DEFINE b1 == n % 256
             b2 == (n \div 256) % 256
             b3 == (n \div 65536) % 256
             b4 == (n \div 16777216) % 256
  <1>1. b1 \in Byte /\ b2 \in Byte /\ b3 \in Byte /\ b4 \in Byte
    BY SMT DEF Byte
  <1>2. b1 + 256 * b2 + 65536 * b3 + 16777216 * b4 = n
    <2> DEFINE q1 == n \div 256
               q2 == n \div 65536
               q3 == n \div 16777216
    <2>1. q2 = q1 \div 256 /\ q1 \in Nat
      BY SMT
    <2>2. q3 = q2 \div 256 /\ q2 \in Nat
      BY SMT
    <2>3. q3 \in 0..255
      <3>1. n \in Nat /\ n <= 4294967295
        BY SMT DEF MaxLength
      <3>2. q3 \in Nat /\ 16777216 * q3 <= n
        BY <3>1, SMT
      <3> QED BY <3>1, <3>2, SMT
    <2>4. n = 256 * q1 + b1
      BY SMT
    <2>5. q1 = 256 * q2 + b2
      BY <2>1, SMT
    <2>6. q2 = 256 * q3 + b3
      BY <2>2, SMT
    <2>7. q3 = b4
      BY <2>3, SMT
    <2>8. b1 \in Int /\ b2 \in Int /\ b3 \in Int /\ b4 \in Int /\ q1 \in Int /\ q2 \in Int
      BY SMT
    <2> HIDE DEF b1, b2, b3, b4, q1, q2, q3
    <2> QED BY <2>4, <2>5, <2>6, <2>7, <2>8, SMT
  <1>3. LE4(n) = <<b1, b2, b3, b4>>
    BY SMT DEF LE4
  <1> HIDE DEF b1, b2, b3, b4
  <1>4. LE4(n) \in Seq(Byte) /\ Len(LE4(n)) = 4
    BY <1>1, <1>3
  <1>5. Uint32(LE4(n)) = b1 + 256 * b2 + 65536 * b3 + 16777216 * b4
    BY <1>3, SMT DEF Uint32
  <1> QED BY <1>2, <1>4, <1>5, SMT

-----------------------------------------------------------------------------
(* FiveParts                                                                  *)

\* Concatenation, regrouping and the first byte.
LEMMA Concat ==
  \A a, b \in Seq(Byte) :
    a \o b \in Seq(Byte) /\ Len(a \o b) = Len(a) + Len(b) /\ Len(a) \in Nat
  BY ConcatProperties

LEMMA Assoc == \A a, b, c \in Seq(Byte) : (a \o b) \o c = a \o (b \o c)
  BY ConcatAssociative

\* The same with names for the parts, for a prover that would go on regrouping.
Concatenated(x, y, xy) == xy = x \o y

\* Regrouping, with names for the parts.
LEMMA Regroup ==
  \A a, b, c \in Seq(Byte) : \A ab, bc, abc :
    Concatenated(a, b, ab) /\ Concatenated(b, c, bc) /\ Concatenated(ab, c, abc) => Concatenated(a, bc, abc)
  BY Assoc DEF Concatenated

LEMMA First == \A a, b \in Seq(Byte) : Len(a) > 0 => (a \o b)[1] = a[1]
  <1> SUFFICES ASSUME NEW a \in Seq(Byte), NEW b \in Seq(Byte), Len(a) > 0
               PROVE  (a \o b)[1] = a[1]
    OBVIOUS
  <1>1. Len(a) \in Nat /\ Len(b) \in Nat
    OBVIOUS
  <1>2. 1 \in 1..Len(a) + Len(b) /\ 1 <= Len(a)
    BY <1>1
  <1> QED BY <1>2, ConcatProperties

\* What stands behind a, and what stands between a and c.
LEMMA Suffix ==
  ASSUME NEW a \in Seq(Byte), NEW b \in Seq(Byte)
  PROVE  From(a \o b, Len(a) + 1) = b
  <1>1. /\ a \o b \in Seq(Byte)
        /\ Len(a \o b) = Len(a) + Len(b)
        /\ \A i \in 1..Len(a) + Len(b) :
             (a \o b)[i] = IF i <= Len(a) THEN a[i] ELSE b[i - Len(a)]
    BY ConcatProperties
  <1>2. Len(a) \in Nat /\ Len(b) \in Nat
    OBVIOUS
  <1> DEFINE s == SubSeq(a \o b, Len(a) + 1, Len(a) + Len(b))
  <1>3. \A i \in Len(a) + 1..Len(a) + Len(b) : (a \o b)[i] \in Byte
    BY <1>1, <1>2, ElementOfSeq
  <1>4. /\ s \in Seq(Byte)
        /\ Len(s) = Len(b)
        /\ \A i \in 1..Len(b) : s[i] = (a \o b)[Len(a) + 1 + i - 1]
    BY <1>2, <1>3, SubSeqProperties
  <1>5. \A i \in 1..Len(s) : s[i] = b[i]
    BY <1>1, <1>2, <1>4
  <1>6. s = b
    BY <1>4, <1>5, SeqEqual
  <1> QED BY <1>1, <1>6 DEF From

\* What stands between two sequences is found there.
LEMMA Middle ==
  ASSUME NEW a \in Seq(Byte), NEW b \in Seq(Byte), NEW c \in Seq(Byte)
  PROVE  SubSeq(a \o b \o c, Len(a) + 1, Len(a) + Len(b)) = b
  <1>1. /\ a \o b \in Seq(Byte)
        /\ Len(a \o b) = Len(a) + Len(b)
    BY ConcatProperties
  <1>2. Len(a) \in Nat /\ Len(b) \in Nat
    OBVIOUS
  <1>3. CASE b = <<>>
    BY <1>2, <1>3, SubSeqEmpty
  <1>4. CASE b # <<>>
    <2>1. Len(b) > 0
      BY <1>4, EmptySeq
    <2>2. SubSeq(a \o b \o c, Len(a) + 1, Len(a) + Len(b))
            = SubSeq(a \o b, Len(a) + 1, Len(a) + Len(b))
      BY <1>1, <1>2, <2>1, SubSeqOfConcat1
    <2> QED BY <1>1, <2>2, Suffix DEF From
  <1> QED BY <1>3, <1>4

\* The five parts of a sequence put together of five.
Parts(s, a, b, c, d, e) ==
  /\ s \in Seq(Byte)
  /\ Len(s) = Len(a) + Len(b) + Len(c) + Len(d) + Len(e)
  /\ s[1] = a[1]
  /\ SubSeq(s, Len(a) + 1, Len(a) + Len(b)) = b
  /\ SubSeq(s, Len(a) + Len(b) + 1, Len(a) + Len(b) + Len(c)) = c
  /\ SubSeq(s, Len(a) + Len(b) + Len(c) + 1, Len(a) + Len(b) + Len(c) + Len(d)) = d
  /\ From(s, Len(a) + Len(b) + Len(c) + Len(d) + 1) = e

\* Where each of five parts of a concatenation lies.
LEMMA FiveParts ==
  ASSUME NEW a \in Seq(Byte), NEW b \in Seq(Byte), NEW c \in Seq(Byte),
         NEW d \in Seq(Byte), NEW e \in Seq(Byte), Len(a) > 0
  PROVE  Parts(a \o b \o c \o d \o e, a, b, c, d, e)
  <1> DEFINE s == a \o b \o c \o d \o e
  <1> DEFINE ab == a \o b
             abc == ab \o c
             abcd == abc \o d
             de == d \o e
             cde == c \o de
  <1>1. ab \in Seq(Byte) /\ Len(ab) = Len(a) + Len(b)
    BY Concat
  <1>2. ab[1] = a[1]
    BY First
  <1>3. s = abcd \o e
    OBVIOUS
  <1>4. ab = a \o b
    OBVIOUS
  <1> HIDE DEF ab, s
  <1>5. abc \in Seq(Byte) /\ Len(abc) = Len(ab) + Len(c)
    BY <1>1, Concat
  <1>6. abc = ab \o c
    OBVIOUS
  <1> HIDE DEF abc
  <1>7. abcd \in Seq(Byte) /\ Len(abcd) = Len(abc) + Len(d)
    BY <1>5, Concat
  <1>8. abcd = abc \o d
    OBVIOUS
  <1>9. de \in Seq(Byte)
    BY Concat
  <1>10. abcd \o e = abc \o de
    BY <1>5, Assoc
  <1> HIDE DEF abcd, de
  <1>11. cde \in Seq(Byte)
    BY <1>9, Concat
  <1>a. cde = c \o de
    OBVIOUS
  <1> HIDE DEF cde
  <1>12. abc \o de = ab \o cde
    <2>1. ab \in Seq(Byte)
      BY <1>1
    <2>2. Concatenated(ab, c, abc) /\ Concatenated(c, de, cde)
      BY <1>6, <1>a DEF Concatenated
    <2>3. Concatenated(abc, de, abc \o de)
      BY DEF Concatenated
    <2>4. Concatenated(ab, cde, abc \o de)
      BY <2>1, <2>2, <2>3, <1>9, Regroup
    <2> QED BY <2>4 DEF Concatenated
  <1>13. Len(ab) > 0 /\ Len(a) \in Nat /\ Len(b) \in Nat /\ Len(c) \in Nat
         /\ Len(d) \in Nat /\ Len(e) \in Nat
    BY <1>1
  <1>14. s \in Seq(Byte) /\ Len(s) = Len(abcd) + Len(e)
    BY <1>3, <1>7, Concat
  <1>15. s[1] = ab[1]
    BY <1>1, <1>3, <1>10, <1>11, <1>12, <1>13, First
  <1>16. SubSeq(s, Len(a) + 1, Len(a) + Len(b)) = b
    <2>1. SubSeq(a \o b \o cde, Len(a) + 1, Len(a) + Len(b)) = b
      BY <1>11, Middle
    <2> QED BY <2>1, <1>3, <1>4, <1>10, <1>12
  <1>17. SubSeq(s, Len(ab) + 1, Len(ab) + Len(c)) = c
    <2>1. SubSeq(ab \o c \o de, Len(ab) + 1, Len(ab) + Len(c)) = c
      BY <1>1, <1>9, Middle
    <2> QED BY <2>1, <1>3, <1>6, <1>10
  <1>18. SubSeq(s, Len(abc) + 1, Len(abc) + Len(d)) = d
    <2>1. SubSeq(abc \o d \o e, Len(abc) + 1, Len(abc) + Len(d)) = d
      BY <1>5, Middle
    <2> QED BY <2>1, <1>3, <1>8
  <1>19. From(s, Len(abcd) + 1) = e
    <2>1. From(abcd \o e, Len(abcd) + 1) = e
      BY <1>7, Suffix
    <2> QED BY <2>1, <1>3
  <1>20. Len(ab) = Len(a) + Len(b) /\ Len(abc) = Len(a) + Len(b) + Len(c)
         /\ Len(abcd) = Len(a) + Len(b) + Len(c) + Len(d)
    BY <1>1, <1>5, <1>7, <1>13
  <1>21. Parts(s, a, b, c, d, e)
    BY <1>2, <1>7, <1>14, <1>15, <1>16, <1>17, <1>18, <1>19, <1>20 DEF Parts
  <1> QED BY <1>21 DEF s

\* And of four.
LEMMA FourParts ==
  ASSUME NEW a \in Seq(Byte), NEW b \in Seq(Byte), NEW c \in Seq(Byte),
         NEW d \in Seq(Byte), Len(a) > 0
  PROVE  /\ a \o b \o c \o d \in Seq(Byte)
         /\ Parts(a \o b \o c \o d, a, b, c, d, <<>>)
  <1> DEFINE ab == a \o b
             abc == ab \o c
             abcd == abc \o d
             none == <<>>
  <1>1. none \in Seq(Byte)
    OBVIOUS
  <1>2. none = <<>>
    OBVIOUS
  <1>3. ab \in Seq(Byte)
    BY Concat
  <1> HIDE DEF ab, none
  <1>4. abc \in Seq(Byte)
    BY <1>3, Concat
  <1> HIDE DEF abc
  <1>5. abcd \in Seq(Byte)
    BY <1>4, Concat
  <1>6. Parts(a \o b \o c \o d \o none, a, b, c, d, none)
    BY <1>1, FiveParts
  <1>7. Parts(abcd \o none, a, b, c, d, none)
    BY <1>6 DEF ab, abc
  <1> HIDE DEF abcd
  <1>8. abcd \o none = abcd
    BY <1>5, <1>2, ConcatEmptySeq
  <1>9. abcd \in Seq(Byte) /\ Parts(abcd, a, b, c, d, <<>>)
    BY <1>2, <1>5, <1>7, <1>8
  <1> QED BY <1>9 DEF ab, abc, abcd

-----------------------------------------------------------------------------
(* Headers                                                                 *)

\* The magic byte, four of an id, four of a length, and so many bytes.
Headed(s, clrid, load, rest) ==
  /\ s \in Seq(Byte) /\ Len(s) = 9 + Len(load) + Len(rest) /\ s[1] = Magic
  /\ Uint32(SubSeq(s, 2, 5)) = clrid
  /\ Uint32(SubSeq(s, 6, 9)) = Len(load)
  /\ SubSeq(s, 10, 9 + Len(load)) = load
  /\ From(s, 10 + Len(load)) = rest

\* What readLoop reads in the header of a frame for a shard.
LEMMA ShardHeader ==
  ASSUME NEW clrid \in Nat, clrid <= MaxLength,
         NEW load \in Seq(Byte), Len(load) <= MaxLength, NEW rest \in Seq(Byte)
  PROVE  Headed(PrependHeader(clrid, load) \o rest, clrid, load, rest)
  <1> DEFINE one == <<Magic>>
             idb == LE4(clrid)
             len == LE4(Len(load))
             s == one \o idb \o len \o load \o rest
  <1>1. Len(load) \in Nat /\ Len(rest) \in Nat
    OBVIOUS
  <1>2. /\ idb \in Seq(Byte) /\ Len(idb) = 4 /\ Uint32(idb) = clrid
        /\ len \in Seq(Byte) /\ Len(len) = 4 /\ Uint32(len) = Len(load)
    BY <1>1, LE4Bytes
  <1>3. one \in Seq(Byte) /\ Len(one) = 1 /\ one[1] = Magic
    BY DEF Magic, Byte
  <1>4. PrependHeader(clrid, load) \o rest = s
    BY DEF PrependHeader
  <1> HIDE DEF one, idb, len
  <1>5. Parts(s, one, idb, len, load, rest)
    <2>1. one \in Seq(Byte) /\ Len(one) > 0 /\ idb \in Seq(Byte) /\ len \in Seq(Byte)
      BY <1>2, <1>3
    <2> QED BY <2>1, FiveParts
  <1> HIDE DEF s
  <1>6. /\ Len(one) + 1 = 2 /\ Len(one) + Len(idb) = 5
        /\ Len(one) + Len(idb) + 1 = 6 /\ Len(one) + Len(idb) + Len(len) = 9
        /\ Len(one) + Len(idb) + Len(len) + 1 = 10
        /\ Len(one) + Len(idb) + Len(len) + Len(load) + 1 = 10 + Len(load)
    BY <1>1, <1>2, <1>3
  <1>7. Headed(s, clrid, load, rest)
    BY <1>2, <1>3, <1>5, <1>6 DEF Parts, Headed
  <1> QED BY <1>4, <1>7

\* The same when nothing follows the frame.
LEMMA ShardAlone ==
  ASSUME NEW clrid \in Nat, clrid <= MaxLength,
         NEW load \in Seq(Byte), Len(load) <= MaxLength
  PROVE  LET shard == PrependHeader(clrid, load)
         IN /\ Headed(shard, clrid, load, <<>>)
            /\ shard \in Seq(Byte) /\ Len(shard) = 9 + Len(load)
  <1> DEFINE one == <<Magic>>
             idb == LE4(clrid)
             len == LE4(Len(load))
             shard == PrependHeader(clrid, load)
             none == <<>>
  <1>1. Len(load) \in Nat /\ none \in Seq(Byte) /\ Len(none) = 0 /\ none = <<>>
    OBVIOUS
  <1>2. idb \in Seq(Byte) /\ len \in Seq(Byte)
    BY <1>1, LE4Bytes
  <1>3. one \in Seq(Byte) /\ Len(one) > 0
    BY DEF Magic, Byte
  <1>4. shard = one \o idb \o len \o load
    BY DEF PrependHeader
  <1> HIDE DEF one, idb, len, none
  <1>5. shard \in Seq(Byte)
    BY <1>2, <1>3, <1>4, FourParts
  <1>6. Headed(shard \o none, clrid, load, none)
    BY <1>1, ShardHeader
  <1> HIDE DEF shard
  <1>7. Headed(shard, clrid, load, none)
    BY <1>1, <1>5, <1>6, ConcatEmptySeq
  <1>8. Len(shard) = 9 + Len(load)
    BY <1>1, <1>7 DEF Headed
  <1> QED BY <1>1, <1>5, <1>7, <1>8 DEF shard

\* A slice of one place.
LEMMA Single ==
  ASSUME NEW a \in Seq(Byte), NEW i \in 1..Len(a)
  PROVE  SubSeq(a, i, i)[1] = a[i]
  <1>1. \A k \in i..i : a[k] \in Byte
    BY ElementOfSeq
  <1> QED BY <1>1, SubSeqProperties

\* The first byte of what is left from a place on.
LEMMA FromFirst ==
  ASSUME NEW a \in Seq(Byte), NEW i \in 1..Len(a)
  PROVE  From(a, i)[1] = a[i]
  <1>1. Len(a) \in Nat
    OBVIOUS
  <1>2. \A k \in i..Len(a) : a[k] \in Byte
    BY <1>1, ElementOfSeq
  <1> DEFINE m == Len(a)
             s == SubSeq(a, i, m)
  <1>3. i \in Int /\ m \in Int /\ i <= m /\ 1 \in 1..m - i + 1 /\ i + 1 - 1 = i
    BY <1>1
  <1>4. \A k \in i..m : a[k] \in Byte
    BY <1>2
  <1>5. From(a, i) = s
    BY DEF From
  <1> HIDE DEF m
  <1>6. \A k \in 1..m - i + 1 : s[k] = a[i + k - 1]
    BY <1>3, <1>4, SubSeqProperties
  <1> HIDE DEF s
  <1> QED BY <1>3, <1>5, <1>6

-----------------------------------------------------------------------------
(* What is read                                                            *)

\* The numbers of two bytes.
LEMMA LE2Bytes ==
  ASSUME NEW n \in Nat, n <= MaxCount
  PROVE  LE2(n) \in Seq(Byte) /\ Len(LE2(n)) = 2 /\ Uint16(LE2(n)) = n
  <1> DEFINE b1 == n % 256
             b2 == n \div 256
  <1>1. b1 \in Byte /\ b2 \in Byte /\ b1 + 256 * b2 = n
    BY SMT DEF Byte, MaxCount
  <1>2. b2 % 256 = b2
    BY <1>1, SMT DEF Byte
  <1>3. LE2(n) = <<b1, b2>>
    BY <1>2 DEF LE2
  <1> HIDE DEF b1, b2
  <1>4. Uint16(LE2(n)) = b1 + 256 * b2
    BY <1>3, SMT DEF Uint16
  <1> QED BY <1>1, <1>3, <1>4

\* A response is drained as it was sent, whatever its status, the number of
\* its fields and their bytes, and what follows it stays (DrainFrame).
THEOREM ResponseDrained ==
  ASSUME NEW clrid \in Nat, clrid <= MaxLength,
         NEW status \in Seq(Byte), Len(status) < 256, NEW count \in Nat, count <= MaxCount,
         NEW data \in Seq(Byte), Len(data) + Len(status) + 3 <= MaxLength,
         NEW rest \in Seq(Byte)
  PROVE  DrainFrame(Response(clrid, status, count, data) \o rest)
           = <<[clrid |-> clrid, status |-> status, count |-> count,
                data |-> data, rest |-> rest]>>
  <1> DEFINE one == <<Len(status)>>
             num == LE2(count)
             none == <<>>
             load == one \o status \o num \o data
             s == PrependHeader(clrid, load) \o rest
  <1>1. Len(status) \in Nat /\ Len(data) \in Nat /\ Len(rest) \in Nat
    OBVIOUS
  <1>2. Len(status) \in Byte
    BY <1>1, SmallIsByte
  <1>3. one \in Seq(Byte) /\ Len(one) = 1 /\ one[1] = Len(status)
    BY <1>2, OneByte
  <1>4. num \in Seq(Byte) /\ Len(num) = 2 /\ Uint16(num) = count
    BY LE2Bytes
  <1>5. none \in Seq(Byte) /\ Len(none) = 0
    OBVIOUS
  <1>6. Response(clrid, status, count, data) \o rest = s
    BY DEF Response
  <1> HIDE DEF one, num
  <1> HIDE DEF none
  <1>9. load \in Seq(Byte) /\ Parts(load, one, status, num, data, none)
    <2>1. one \in Seq(Byte) /\ Len(one) > 0 /\ num \in Seq(Byte)
      BY <1>3, <1>4
    <2> QED BY <2>1, FourParts DEF none
  <1> HIDE DEF load, s
  <1>10. /\ Len(load) = 3 + Len(status) + Len(data)
         /\ load[1] = Len(status)
         /\ SubSeq(load, 2, 1 + Len(status)) = status
         /\ SubSeq(load, 2 + Len(status), 3 + Len(status)) = num
         /\ SubSeq(load, 4 + Len(status), Len(load)) = data
    <2>1. /\ Len(load) = Len(one) + Len(status) + Len(num) + Len(data) + Len(none)
          /\ load[1] = one[1]
          /\ SubSeq(load, Len(one) + 1, Len(one) + Len(status)) = status
          /\ SubSeq(load, Len(one) + Len(status) + 1, Len(one) + Len(status) + Len(num)) = num
          /\ SubSeq(load, Len(one) + Len(status) + Len(num) + 1,
                    Len(one) + Len(status) + Len(num) + Len(data)) = data
      BY <1>9 DEF Parts
    <2>2. /\ Len(one) + 1 = 2 /\ Len(one) + Len(status) = 1 + Len(status)
          /\ Len(one) + Len(status) + 1 = 2 + Len(status)
          /\ Len(one) + Len(status) + Len(num) = 3 + Len(status)
          /\ Len(one) + Len(status) + Len(num) + 1 = 4 + Len(status)
          /\ Len(one) + Len(status) + Len(num) + Len(data) = 3 + Len(status) + Len(data)
          /\ Len(one) + Len(status) + Len(num) + Len(data) + Len(none)
               = 3 + Len(status) + Len(data)
      BY <1>1, <1>3, <1>4, <1>5
    <2> QED BY <1>3, <2>1, <2>2
  <1>11. Len(load) <= MaxLength
    BY <1>1, <1>10
  <1>12. Headed(s, clrid, load, rest)
    BY <1>9, <1>11, ShardHeader DEF s
  <1>13. ~(Len(s) < 9 \/ s[1] # Magic \/ Len(s) < 9 + Len(load) \/ Len(load) < 1
           \/ Len(load) < 1 + load[1] + 2)
    BY <1>1, <1>10, <1>12, SMTT(20) DEF Headed
  <1>14. DrainFrame(s)
           = <<[clrid  |-> Uint32(SubSeq(s, 2, 5)),
                status |-> SubSeq(load, 2, 1 + load[1]),
                count  |-> Uint16(SubSeq(load, 2 + load[1], 3 + load[1])),
                data   |-> From(load, 4 + load[1]),
                rest   |-> From(s, 10 + Len(load))]>>
    BY <1>12, <1>13 DEF DrainFrame, Headed
  <1>15. From(load, 4 + load[1]) = data
    BY <1>10 DEF From
  <1>16. DrainFrame(s)
           = <<[clrid |-> clrid, status |-> status, count |-> count,
                data |-> data, rest |-> rest]>>
    BY <1>4, <1>10, <1>12, <1>14, <1>15 DEF Headed
  <1> QED BY <1>6, <1>16

\* The body of a router's frame, and the frame with what follows it.
Carries(body, segment, isWrite, shard) ==
  /\ body \in Seq(Byte) /\ Len(body) = 2 + Len(segment) + Len(shard)
  /\ body[1] = Len(segment) % 256
  /\ SubSeq(body, 2, 1 + Len(segment)) = segment
  /\ (body[2 + Len(segment)] = 1) = isWrite
  /\ SubSeq(body, 3 + Len(segment), Len(body)) = shard

Routed(s, body, rest) ==
  /\ s \in Seq(Byte) /\ Len(s) = 5 + Len(body) + Len(rest) /\ s[1] = RouterMagic
  /\ Uint32(SubSeq(s, 2, 5)) = Len(body)
  /\ SubSeq(s, 6, 5 + Len(body)) = body
  /\ From(s, 6 + Len(body)) = rest

\* The body of a frame for the router carries the segment, the mark and the
\* rest.
LEMMA BodyCarries ==
  ASSUME NEW segment \in Seq(Byte), NEW isWrite \in BOOLEAN, NEW shard \in Seq(Byte)
  PROVE  Carries(RouterBody(segment, isWrite, shard), segment, isWrite, shard)
  <1> DEFINE len1 == Len(segment) % 256
             one == <<len1>>
             w == <<IF isWrite THEN 1 ELSE 0>>
             body == one \o segment \o w \o shard
  <1>1. Len(segment) \in Nat /\ Len(shard) \in Nat
    OBVIOUS
  <1>2. one \in Seq(Byte) /\ Len(one) = 1 /\ one[1] = len1
    <2>1. len1 \in Nat /\ len1 < 256
      BY <1>1
    <2>2. len1 \in Byte
      BY <2>1, SmallIsByte
    <2> HIDE DEF len1
    <2> QED BY <2>2, OneByte
  <1>3. w \in Seq(Byte) /\ Len(w) = 1 /\ (w[1] = 1) = isWrite
    <2>1. 0 \in Byte /\ 1 \in Byte
      BY SmallIsByte
    <2>2. CASE isWrite
      BY <2>1, <2>2, OneByte
    <2>3. CASE ~isWrite
      BY <2>1, <2>3, OneByte
    <2> QED BY <2>2, <2>3
  <1>4. RouterBody(segment, isWrite, shard) = body
    BY DEF RouterBody
  <1> HIDE DEF one, w
  <1>5. body \in Seq(Byte) /\ Parts(body, one, segment, w, shard, <<>>)
    <2>1. one \in Seq(Byte) /\ Len(one) > 0 /\ w \in Seq(Byte)
      BY <1>2, <1>3
    <2> QED BY <2>1, FourParts
  <1> HIDE DEF body
  <1>6. /\ Len(body) = Len(one) + Len(segment) + Len(w) + Len(shard) + Len(<<>>)
        /\ body[1] = one[1]
        /\ SubSeq(body, Len(one) + 1, Len(one) + Len(segment)) = segment
        /\ SubSeq(body, Len(one) + Len(segment) + 1, Len(one) + Len(segment) + Len(w)) = w
        /\ SubSeq(body, Len(one) + Len(segment) + Len(w) + 1,
                  Len(one) + Len(segment) + Len(w) + Len(shard)) = shard
    BY <1>5 DEF Parts
  <1>7. /\ Len(one) + 1 = 2 /\ Len(one) + Len(segment) = 1 + Len(segment)
        /\ Len(one) + Len(segment) + 1 = 2 + Len(segment)
        /\ Len(one) + Len(segment) + Len(w) = 2 + Len(segment)
        /\ Len(one) + Len(segment) + Len(w) + 1 = 3 + Len(segment)
        /\ Len(one) + Len(segment) + Len(w) + Len(shard) = 2 + Len(segment) + Len(shard)
        /\ Len(one) + Len(segment) + Len(w) + Len(shard) + Len(<<>>)
             = 2 + Len(segment) + Len(shard)
    BY <1>1, <1>2, <1>3
  <1>8. SubSeq(body, 2 + Len(segment), 2 + Len(segment)) = w
    BY <1>6, <1>7
  <1>9. body[2 + Len(segment)] = w[1]
    <2>1. 2 + Len(segment) \in 1..Len(body)
      BY <1>1, <1>6, <1>7
    <2> QED BY <2>1, <1>5, <1>8, Single
  <1>10. Carries(body, segment, isWrite, shard)
    BY <1>2, <1>3, <1>5, <1>6, <1>7, <1>9 DEF Carries
  <1> QED BY <1>4, <1>10

\* The header of a frame for the router tells its body from what follows.
LEMMA FrameRouted ==
  ASSUME NEW segment, NEW isWrite, NEW shard,
         RouterBody(segment, isWrite, shard) \in Seq(Byte),
         Len(RouterBody(segment, isWrite, shard)) <= MaxLength, NEW rest \in Seq(Byte)
  PROVE  /\ RouterFrame(segment, isWrite, shard) \in Seq(Byte)
         /\ Routed(RouterFrame(segment, isWrite, shard) \o rest,
                   RouterBody(segment, isWrite, shard), rest)
  <1> DEFINE body == RouterBody(segment, isWrite, shard)
             magic == <<RouterMagic>>
             total == LE4(Len(body))
             front == magic \o total
             none == <<>>
             s == magic \o total \o body \o rest
  <1>1. RouterFrame(segment, isWrite, shard) = magic \o total \o body
    BY DEF RouterFrame
  <1>2. body \in Seq(Byte) /\ Len(body) \in Nat /\ Len(body) <= MaxLength
    OBVIOUS
  <1> HIDE DEF body
  <1>3. total \in Seq(Byte) /\ Len(total) = 4 /\ Uint32(total) = Len(body)
    BY <1>2, LE4Bytes
  <1>4. magic \in Seq(Byte) /\ Len(magic) = 1 /\ magic[1] = RouterMagic
    BY SmallIsByte, OneByte DEF RouterMagic
  <1> HIDE DEF magic, total
  <1>5. magic \o total \o body \in Seq(Byte)
    <2>1. front \in Seq(Byte)
      BY <1>3, <1>4, Concat
    <2>2. front \o body = magic \o total \o body
      OBVIOUS
    <2> HIDE DEF front
    <2> QED BY <1>2, <2>1, <2>2, Concat
  <1>6. s \in Seq(Byte) /\ Parts(s, magic, total, body, rest, <<>>)
    <2>1. magic \in Seq(Byte) /\ Len(magic) > 0 /\ total \in Seq(Byte)
      BY <1>3, <1>4
    <2> QED BY <1>2, <2>1, FourParts
  <1>7. RouterFrame(segment, isWrite, shard) \o rest = s
    BY <1>1
  <1> HIDE DEF s
  <1>8. Len(rest) \in Nat
    OBVIOUS
  <1>9. /\ Len(s) = 5 + Len(body) + Len(rest)
        /\ s[1] = RouterMagic
        /\ SubSeq(s, 2, 5) = total
        /\ SubSeq(s, 6, 5 + Len(body)) = body
        /\ SubSeq(s, 6 + Len(body), Len(s)) = rest
    <2>1. /\ Len(s) = Len(magic) + Len(total) + Len(body) + Len(rest) + Len(<<>>)
          /\ s[1] = magic[1]
          /\ SubSeq(s, Len(magic) + 1, Len(magic) + Len(total)) = total
          /\ SubSeq(s, Len(magic) + Len(total) + 1, Len(magic) + Len(total) + Len(body)) = body
          /\ SubSeq(s, Len(magic) + Len(total) + Len(body) + 1,
                    Len(magic) + Len(total) + Len(body) + Len(rest)) = rest
      BY <1>6 DEF Parts
    <2>2. /\ Len(magic) + 1 = 2 /\ Len(magic) + Len(total) = 5
          /\ Len(magic) + Len(total) + 1 = 6
          /\ Len(magic) + Len(total) + Len(body) = 5 + Len(body)
          /\ Len(magic) + Len(total) + Len(body) + 1 = 6 + Len(body)
          /\ Len(magic) + Len(total) + Len(body) + Len(rest) = 5 + Len(body) + Len(rest)
          /\ Len(magic) + Len(total) + Len(body) + Len(rest) + Len(<<>>)
               = 5 + Len(body) + Len(rest)
      BY <1>2, <1>3, <1>4, <1>8
    <2> QED BY <1>4, <2>1, <2>2
  <1>10. Routed(s, body, rest)
    BY <1>3, <1>6, <1>9 DEF Routed, From
  <1> QED BY <1>1, <1>5, <1>7, <1>10 DEF body

\* What a router finds behind the length, in a frame that is whole.
LEMMA Found ==
  ASSUME NEW s, NEW body \in Seq(Byte), NEW rest \in Seq(Byte), Len(body) > 0,
         Routed(s, body, rest)
  PROVE  LET n == body[1]
             shard == From(body, n + 3)
             good == /\ Len(body) >= 1 + n + 1 + 9
                     /\ shard[1] = Magic /\ Uint32(SubSeq(shard, 6, 9)) = Len(shard) - 9
         IN TakeApart(s) =
              [request |-> IF ~good THEN <<>>
                           ELSE <<[segment |-> SubSeq(body, 2, 1 + n),
                                   isWrite |-> body[n + 2] = 1,
                                   clrid   |-> Uint32(SubSeq(shard, 2, 5)),
                                   payload |-> From(shard, 10)]>>,
               rest |-> rest]
  <1>1. Len(body) \in Nat /\ Len(rest) \in Nat
    OBVIOUS
  <1>2. ~(Len(s) < 5 \/ s[1] # RouterMagic \/ Len(s) < 5 + Len(body) \/ Len(body) < 1)
    BY <1>1 DEF Routed
  <1> QED BY <1>2 DEF TakeApart, Routed

\* What a router makes of a request and what follows it.
TakesApart(s, segment, isWrite, clrid, load, rest) ==
  LET found == TakeApart(s)
  IN /\ found.rest = rest
     /\ Len(segment) < 256
          => found.request = <<[segment |-> segment, isWrite |-> isWrite,
                                clrid |-> clrid, payload |-> load]>>
     /\ Len(segment) >= 256 /\ (\A i \in 1..Len(segment) : segment[i] # Magic)
          => found.request = <<>>

\* A router takes any request off its connection and finds the next frame where
\* it begins, even if the length of the segment does not fit its byte; if it
\* does, it finds the segment, the request and its id as they were sent; if it
\* does not, the router sees that the frame is broken, as no byte of a text is
\* the magic one (PrependRouterHeader).
THEOREM RouterTakesApart ==
  ASSUME NEW segment \in Seq(Byte), NEW isWrite \in BOOLEAN,
         NEW clrid \in Nat, clrid <= MaxLength, NEW load \in Seq(Byte),
         Len(load) + Len(segment) + 11 <= MaxLength, NEW rest \in Seq(Byte)
  PROVE  TakesApart(PrependRouterHeader(segment, isWrite, clrid, load) \o rest,
                    segment, isWrite, clrid, load, rest)
  <1> DEFINE shard == PrependHeader(clrid, load)
             body == RouterBody(segment, isWrite, shard)
             s == RouterFrame(segment, isWrite, shard) \o rest
             n == Len(segment) % 256
             inner == From(body, n + 3)
             good == /\ Len(body) >= 1 + n + 1 + 9
                     /\ inner[1] = Magic /\ Uint32(SubSeq(inner, 6, 9)) = Len(inner) - 9
             found == <<[segment |-> SubSeq(body, 2, 1 + n),
                         isWrite |-> body[n + 2] = 1,
                         clrid   |-> Uint32(SubSeq(inner, 2, 5)),
                         payload |-> From(inner, 10)]>>
  <1>1. Len(segment) \in Nat /\ Len(load) \in Nat /\ n \in Nat /\ n < 256
    OBVIOUS
  <1>2. Len(load) <= MaxLength /\ MaxLength \in Nat
    BY <1>1 DEF MaxLength
  <1>3. Headed(shard, clrid, load, <<>>) /\ shard \in Seq(Byte) /\ Len(shard) = 9 + Len(load)
    BY <1>1, <1>2, ShardAlone
  <1>4. PrependRouterHeader(segment, isWrite, clrid, load) \o rest = s
    BY DEF PrependRouterHeader
  <1> HIDE DEF shard
  <1>5. Carries(body, segment, isWrite, shard)
    BY <1>3, BodyCarries
  <1>6. body \in Seq(Byte) /\ Len(body) = 11 + Len(segment) + Len(load) /\ body[1] = n
    BY <1>1, <1>3, <1>5 DEF Carries
  <1>7. Routed(s, body, rest)
    <2>1. Len(body) <= MaxLength
      BY <1>1, <1>6
    <2> QED BY <1>6, <2>1, FrameRouted
  <1> HIDE DEF s, body, n
  <1>8. TakeApart(s) = [request |-> IF ~good THEN <<>> ELSE found, rest |-> rest]
    <2>1. Len(body) > 0
      BY <1>1, <1>6
    <2> QED BY <1>6, <1>7, <2>1, Found
  <1>9. ASSUME Len(segment) < 256
        PROVE  TakeApart(s).request = <<[segment |-> segment, isWrite |-> isWrite,
                                         clrid |-> clrid, payload |-> load]>>
    <2>1. n = Len(segment)
      BY <1>1, <1>9 DEF n
    <2>2. inner = shard
      <3>1. n + 3 = 3 + Len(segment)
        BY <1>1, <2>1
      <3> QED BY <3>1, <1>5 DEF Carries, From
    <2> HIDE DEF inner
    <2>3. good
      <3>1. shard[1] = Magic /\ Uint32(SubSeq(shard, 6, 9)) = Len(load)
        BY <1>3 DEF Headed
      <3> QED BY <3>1, <1>1, <1>3, <1>6, <2>1, <2>2
    <2>4. (body[n + 2] = 1) = isWrite /\ SubSeq(body, 2, 1 + n) = segment
      <3>1. n + 2 = 2 + Len(segment)
        BY <1>1, <2>1
      <3> QED BY <3>1, <2>1, <1>5 DEF Carries
    <2>5. Uint32(SubSeq(inner, 2, 5)) = clrid /\ From(inner, 10) = load
      <3>1. 9 + Len(load) = Len(shard)
        BY <1>3
      <3> QED BY <3>1, <1>3, <2>2 DEF Headed, From
    <2>6. TakeApart(s).request = found
      <3> HIDE DEF good, found
      <3> QED BY <1>8, <2>3
    <2>7. found = <<[segment |-> segment, isWrite |-> isWrite,
                     clrid |-> clrid, payload |-> load]>>
      BY <2>4, <2>5
    <2> HIDE DEF found
    <2> QED BY <2>6, <2>7
  <1>10. ASSUME Len(segment) >= 256, \A i \in 1..Len(segment) : segment[i] # Magic
         PROVE  TakeApart(s).request = <<>>
    <2>0. Len(segment) >= n + 256
      <3>1. \A m \in Nat : m >= 256 => m >= (m % 256) + 256
        OBVIOUS
      <3> QED BY <1>1, <1>10, <3>1 DEF n
    <2>1. n + 3 \in 2..1 + Len(segment) /\ n + 2 \in 1..Len(segment)
      <3>1. n \in Nat /\ n < 256 /\ Len(segment) \in Nat
        BY <1>1
      <3>2. n + 3 <= 1 + Len(segment) /\ n + 2 <= Len(segment) /\ n + 3 >= 2 /\ n + 2 >= 1
        BY <2>0, <3>1
      <3>3. n + 3 \in Int /\ n + 2 \in Int /\ 1 + Len(segment) \in Int
        BY <3>1
      <3> QED BY <3>1, <3>2, <3>3
    <2>2. body[n + 3] = segment[n + 2]
      <3>1. SubSeq(body, 2, 1 + Len(segment)) = segment
        BY <1>5 DEF Carries
      <3>2. \A i \in 2..1 + Len(segment) : body[i] \in Byte
        BY <1>1, <1>6, ElementOfSeq
      <3>3. \A i \in 1..1 + Len(segment) - 2 + 1 :
              SubSeq(body, 2, 1 + Len(segment))[i] = body[2 + i - 1]
        BY <1>1, <3>2, SubSeqProperties
      <3>4. n + 2 \in 1..1 + Len(segment) - 2 + 1 /\ 2 + (n + 2) - 1 = n + 3
        BY <1>1, <2>1
      <3> QED BY <3>1, <3>3, <3>4
    <2>3. inner[1] = body[n + 3]
      <3>1. n + 3 \in 1..Len(body) /\ Len(body) \in Nat
        BY <1>1, <1>6, <2>1
      <3> QED BY <1>6, <3>1, FromFirst
    <2>4. inner[1] # Magic
      BY <1>10, <2>1, <2>2, <2>3
    <2> HIDE DEF inner
    <2> QED BY <1>8, <2>4
  <1>11. TakeApart(s).rest = rest
    BY <1>8
  <1>12. TakesApart(s, segment, isWrite, clrid, load, rest)
    BY <1>9, <1>10, <1>11 DEF TakesApart
  <1> QED BY <1>4, <1>12

\* The router takes a frame apart when nothing follows.
LEMMA RouterAlone ==
  ASSUME NEW segment \in Seq(Byte), NEW isWrite \in BOOLEAN,
         NEW clrid \in Nat, clrid <= MaxLength, NEW load \in Seq(Byte),
         Len(load) + Len(segment) + 11 <= MaxLength
  PROVE  TakesApart(PrependRouterHeader(segment, isWrite, clrid, load),
                    segment, isWrite, clrid, load, <<>>)
  <1> DEFINE shard == PrependHeader(clrid, load)
             body == RouterBody(segment, isWrite, shard)
  <1>1. Len(segment) \in Nat /\ Len(load) \in Nat /\ <<>> \in Seq(Byte)
    OBVIOUS
  <1>2. Len(load) <= MaxLength
    BY <1>1 DEF MaxLength
  <1>3. shard \in Seq(Byte) /\ Len(shard) = 9 + Len(load)
    BY <1>2, ShardAlone
  <1>4. PrependRouterHeader(segment, isWrite, clrid, load)
          = RouterFrame(segment, isWrite, shard)
    BY DEF PrependRouterHeader
  <1> HIDE DEF shard
  <1>5. Carries(body, segment, isWrite, shard)
    BY <1>3, BodyCarries
  <1>6. body \in Seq(Byte) /\ Len(body) = 11 + Len(segment) + Len(load)
    BY <1>1, <1>3, <1>5 DEF Carries
  <1>7. Len(body) <= MaxLength
    BY <1>1, <1>6
  <1> DEFINE s == PrependRouterHeader(segment, isWrite, clrid, load)
  <1>8. s \in Seq(Byte)
    BY <1>1, <1>4, <1>6, <1>7, FrameRouted
  <1>9. TakesApart(s \o <<>>, segment, isWrite, clrid, load, <<>>)
    BY <1>1, RouterTakesApart
  <1> HIDE DEF s
  <1>10. s \o <<>> = s
    BY <1>8, ConcatEmptySeq
  <1> QED BY <1>9, <1>10 DEF s

\* The keepalive is laid out like a request without a payload.
LEMMA KeepaliveIsRequest ==
  ASSUME NEW clrid \in Nat, clrid <= MaxLength, NEW segment \in Seq(Byte)
  PROVE  BuildKeepaliveFrame(clrid, segment) = PrependRouterHeader(segment, FALSE, clrid, <<>>)
  <1> DEFINE one == <<Magic>>
             idb == LE4(clrid)
             front == one \o idb \o <<0, 0, 0, 0>>
  <1>1. idb \in Seq(Byte)
    BY LE4Bytes
  <1>2. LE4(Len(<<>>)) = <<0, 0, 0, 0>>
    BY SMT DEF LE4
  <1>3. PrependHeader(clrid, <<>>) = front \o <<>>
    BY <1>2 DEF PrependHeader
  <1>4. one \in Seq(Byte) /\ <<0, 0, 0, 0>> \in Seq(Byte)
    BY DEF Magic, Byte
  <1> HIDE DEF one, idb
  <1>5. front \in Seq(Byte)
    <2>1. one \o idb \in Seq(Byte)
      BY <1>1, <1>4, Concat
    <2> QED BY <2>1, <1>4, Concat
  <1> HIDE DEF front
  <1>6. PrependHeader(clrid, <<>>) = front
    BY <1>3, <1>5, ConcatEmptySeq
  <1> QED BY <1>6 DEF BuildKeepaliveFrame, PrependRouterHeader, front, one, idb

\* A connection that breaks within a frame gives nothing of it, wherever it
\* breaks: the reader of the connection ends (DrainFrame).
THEOREM TornFrameLost ==
  ASSUME NEW clrid \in Nat, clrid <= MaxLength,
         NEW load \in Seq(Byte), Len(load) <= MaxLength,
         NEW n \in Nat, n < Len(PrependHeader(clrid, load))
  PROVE  DrainFrame(SubSeq(PrependHeader(clrid, load), 1, n)) = <<>>
  <1> DEFINE s == PrependHeader(clrid, load)
             t == SubSeq(s, 1, n)
  <1>1. Headed(s, clrid, load, <<>>) /\ s \in Seq(Byte) /\ Len(s) = 9 + Len(load)
    BY ShardAlone
  <1>2. n < Len(s)
    OBVIOUS
  <1> HIDE DEF s
  <1>3. /\ t \in Seq(Byte) /\ Len(t) = n
        /\ \A i \in 1..n : t[i] = s[i]
    <2>1. \A i \in 1..n : s[i] \in Byte
      BY <1>1, <1>2, ElementOfSeq
    <2>2. 1 \in Int /\ n \in Int /\ (IF 1 <= n THEN n - 1 + 1 ELSE 0) = n
      OBVIOUS
    <2> QED BY <2>1, <2>2, SubSeqProperties
  <1> SUFFICES DrainFrame(t) = <<>>
    BY DEF s
  <1> HIDE DEF t
  <1>4. CASE n < 9
    BY <1>3, <1>4 DEF DrainFrame
  <1>5. CASE n >= 9
    <2>1. SubSeq(t, 6, 9) = SubSeq(s, 6, 9)
      <3>1. \A i \in 6..9 : s[i] \in Byte /\ t[i] \in Byte /\ t[i] = s[i]
        BY <1>1, <1>2, <1>3, <1>5, ElementOfSeq
      <3>2. /\ SubSeq(t, 6, 9) \in Seq(Byte) /\ Len(SubSeq(t, 6, 9)) = 4
            /\ \A i \in 1..4 : SubSeq(t, 6, 9)[i] = t[6 + i - 1]
        BY <3>1, SubSeqProperties
      <3>3. /\ SubSeq(s, 6, 9) \in Seq(Byte) /\ Len(SubSeq(s, 6, 9)) = 4
            /\ \A i \in 1..4 : SubSeq(s, 6, 9)[i] = s[6 + i - 1]
        BY <3>1, SubSeqProperties
      <3>4. \A i \in 1..4 : SubSeq(t, 6, 9)[i] = SubSeq(s, 6, 9)[i]
        BY <3>1, <3>2, <3>3
      <3> QED BY <3>2, <3>3, <3>4, SeqEqual
    <2>2. Uint32(SubSeq(t, 6, 9)) = Len(load)
      BY <1>1, <2>1 DEF Headed
    <2>3. Len(t) < 9 + Len(load)
      BY <1>1, <1>2, <1>3
    <2>4. Len(t) < 9 + Uint32(SubSeq(t, 6, 9))
      BY <2>2, <2>3
    <2> QED BY <2>4 DEF DrainFrame
  <1>6. n < 9 \/ n >= 9
    OBVIOUS
  <1> QED BY <1>4, <1>5, <1>6

-----------------------------------------------------------------------------
(* Fields                                                                  *)

\* The loop of ParseFields, turn by turn.
Turns(f, data, count) ==
  f[0] = NothingRead /\ \A i \in 1..count : f[i] = ReadField(data, f[i - 1])

\* ReadFields is what the loop of ParseFields has after count turns.
LEMMA ReadTurns ==
  ASSUME NEW data, NEW count \in Nat
  PROVE  \E f : Turns(f, data, count) /\ ReadFields(data, count) = f[count]
  <1> DEFINE Is(g, n) == g = [i \in 0..n |->
                               IF i = 0 THEN NothingRead ELSE ReadField(data, g[i - 1])]
             T == {n \in Nat : \E g : Is(g, n)}
             read == CHOOSE g : Is(g, count)
  <1>1. ReadFields(data, count) = read[count]
    BY DEF ReadFields
  <1> HIDE DEF Is
  <1>2. \E g : Is(g, 0)
    <2> DEFINE g == [i \in 0..0 |-> NothingRead]
    <2>1. Is(g, 0)
      BY DEF Is
    <2> QED BY <2>1
  <1>3. ASSUME NEW n \in Nat, NEW g, Is(g, n)
        PROVE  \E h : Is(h, n + 1)
    <2> DEFINE h == [i \in 0..n + 1 |->
                      IF i = 0 THEN NothingRead ELSE ReadField(data, g[i - 1])]
    <2>1. \A i \in 0..n : h[i] = g[i]
      <3>1. \A i \in 0..n : i \in 0..n + 1
        OBVIOUS
      <3>2. \A i \in 0..n : g[i] = IF i = 0 THEN NothingRead ELSE ReadField(data, g[i - 1])
        BY <1>3 DEF Is
      <3> QED BY <3>1, <3>2
    <2>2. \A i \in 0..n + 1 : i # 0 => i - 1 \in 0..n
      OBVIOUS
    <2>3. Is(h, n + 1)
      BY <2>1, <2>2 DEF Is
    <2> QED BY <2>3
  <1>4. count \in T
    <2>1. 0 \in T
      BY <1>2
    <2>2. \A n \in Nat : n \in T => n + 1 \in T
      BY <1>3
    <2> HIDE DEF T
    <2> QED BY <2>1, <2>2, Induction
  <1>5. Is(read, count)
    BY <1>4
  <1> HIDE DEF read
  <1>6. read[0] = NothingRead /\ \A i \in 1..count : read[i] = ReadField(data, read[i - 1])
    BY <1>5 DEF Is
  <1> QED BY <1>1, <1>6 DEF Turns

\* s stands in data, behind so many bytes.
Stands(data, behind, s) ==
  /\ data \in Seq(Byte) /\ s \in Seq(Byte) /\ behind \in Nat
  /\ behind + Len(s) <= Len(data)
  /\ \A i \in 1..Len(s) : data[behind + i] = s[i]

\* What stands at a place is the slice there.
LEMMA StandsSlice ==
  ASSUME NEW data, NEW behind, NEW s, Stands(data, behind, s)
  PROVE  SubSeq(data, behind + 1, behind + Len(s)) = s
  <1> DEFINE m == behind + 1
             n == behind + Len(s)
  <1>1. data \in Seq(Byte) /\ s \in Seq(Byte) /\ behind \in Nat /\ Len(s) \in Nat
        /\ n <= Len(data) /\ Len(data) \in Nat
    BY DEF Stands
  <1>2. \A i \in m..n : data[i] \in Byte
    BY <1>1, ElementOfSeq
  <1>3. m \in Int /\ n \in Int /\ n - m + 1 = Len(s) /\ (m > n => Len(s) = 0)
    BY <1>1
  <1> DEFINE t == SubSeq(data, m, n)
  <1> HIDE DEF m, n
  <1>4. /\ t \in Seq(Byte) /\ Len(t) = IF m <= n THEN n - m + 1 ELSE 0
        /\ \A i \in 1..n - m + 1 : t[i] = data[m + i - 1]
    BY <1>2, <1>3, SubSeqProperties
  <1>5. Len(t) = Len(s)
    BY <1>1, <1>3, <1>4
  <1>6. \A i \in 1..Len(s) : data[m + i - 1] = s[i]
    <2>1. \A i \in 1..Len(s) : m + i - 1 = behind + i
      BY <1>1 DEF m
    <2> QED BY <2>1 DEF Stands
  <1>7. \A i \in 1..Len(s) : t[i] = s[i]
    BY <1>3, <1>4, <1>6
  <1> HIDE DEF t
  <1>8. t = s
    BY <1>1, <1>4, <1>5, <1>7, SeqEqual
  <1> QED BY <1>8 DEF t, m, n

\* Two parts that stand somewhere stand one behind the other.
LEMMA StandsParts ==
  ASSUME NEW data, NEW behind, NEW a \in Seq(Byte), NEW b \in Seq(Byte),
         Stands(data, behind, a \o b)
  PROVE  Stands(data, behind, a) /\ Stands(data, behind + Len(a), b)
  <1>1. /\ Len(a \o b) = Len(a) + Len(b)
        /\ \A i \in 1..Len(a) + Len(b) :
             (a \o b)[i] = IF i <= Len(a) THEN a[i] ELSE b[i - Len(a)]
    BY ConcatProperties
  <1>2. Len(a) \in Nat /\ Len(b) \in Nat
    OBVIOUS
  <1>3. /\ data \in Seq(Byte) /\ behind \in Nat /\ Len(data) \in Nat
        /\ behind + (Len(a) + Len(b)) <= Len(data)
        /\ \A i \in 1..Len(a) + Len(b) : data[behind + i] = (a \o b)[i]
    BY <1>1 DEF Stands
  <1>4. \A i \in 1..Len(a) : data[behind + i] = a[i]
    BY <1>1, <1>2, <1>3
  <1>5. \A i \in 1..Len(b) : data[(behind + Len(a)) + i] = b[i]
    <2> TAKE i \in 1..Len(b)
    <2>1. /\ Len(a) + i \in 1..Len(a) + Len(b) /\ ~(Len(a) + i <= Len(a))
          /\ (Len(a) + i) - Len(a) = i /\ behind + (Len(a) + i) = (behind + Len(a)) + i
      BY <1>2, <1>3
    <2> QED BY <1>1, <1>3, <2>1
  <1> QED BY <1>2, <1>3, <1>4, <1>5 DEF Stands

\* The fields that fit.
Field == [id : 0..MaxCount, type : Byte, data : Seq(Byte)]
Fits(f) == f \in Field /\ Len(f.data) <= MaxLength

\* The parts of a field that fits on the wire.
LEMMA FieldParts ==
  ASSUME NEW f, Fits(f)
  PROVE  /\ f.id \in Nat /\ f.id <= MaxCount /\ f.type \in Byte
         /\ f.data \in Seq(Byte) /\ Len(f.data) \in Nat /\ Len(f.data) <= MaxLength
         /\ f = [id |-> f.id, type |-> f.type, data |-> f.data]
  <1>1. f \in Field /\ Len(f.data) <= MaxLength
    BY DEF Fits
  <1>2. /\ f.id \in 0..MaxCount /\ f.type \in Byte /\ f.data \in Seq(Byte)
        /\ f = [id |-> f.id, type |-> f.type, data |-> f.data]
    BY <1>1 DEF Field
  <1>3. \A n \in 0..MaxCount : n \in Nat /\ n <= MaxCount
    BY SMT DEF MaxCount
  <1>4. Len(f.data) \in Nat
    BY <1>2
  <1> QED BY <1>1, <1>2, <1>3, <1>4

\* The bytes in front of the data of a field.
FieldHead(f) == LE2(f.id) \o <<f.type>> \o LE4(Len(f.data))

\* The seven bytes in front of the data of a field.
LEMMA FieldHeadBytes ==
  ASSUME NEW f, Fits(f)
  PROVE  /\ FieldHead(f) \in Seq(Byte) /\ Len(FieldHead(f)) = 7
         /\ f.data \in Seq(Byte) /\ Len(f.data) \in Nat
         /\ FieldBytes(f) = FieldHead(f) \o f.data
         /\ FieldBytes(f) \in Seq(Byte) /\ Len(FieldBytes(f)) = 7 + Len(f.data)
  <1>1. /\ f.id \in Nat /\ f.id <= MaxCount /\ f.type \in Byte
        /\ f.data \in Seq(Byte) /\ Len(f.data) <= MaxLength
    BY FieldParts
  <1> DEFINE a == LE2(f.id)
             b == <<f.type>>
             c == LE4(Len(f.data))
             d == f.data
  <1>2. Len(d) \in Nat
    BY FieldParts
  <1>3. a \in Seq(Byte) /\ Len(a) = 2 /\ b \in Seq(Byte) /\ Len(b) = 1
        /\ c \in Seq(Byte) /\ Len(c) = 4 /\ d \in Seq(Byte)
    BY <1>1, <1>2, LE2Bytes, LE4Bytes, OneByte
  <1>4. FieldHead(f) = a \o b \o c /\ FieldBytes(f) = a \o b \o c \o d
    BY DEF FieldHead, FieldBytes
  <1> HIDE DEF a, b, c, d
  <1> DEFINE ab == a \o b
             abc == ab \o c
  <1>5. ab \in Seq(Byte) /\ Len(ab) = 3
    <2>1. ab \in Seq(Byte) /\ Len(ab) = Len(a) + Len(b)
      BY <1>3, Concat
    <2> QED BY <1>3, <2>1
  <1> HIDE DEF ab
  <1>6. abc \in Seq(Byte) /\ Len(abc) = 7
    <2>1. abc \in Seq(Byte) /\ Len(abc) = Len(ab) + Len(c)
      BY <1>3, <1>5, Concat
    <2> QED BY <1>3, <1>5, <2>1
  <1>7. FieldHead(f) = abc /\ FieldBytes(f) = abc \o d
    BY <1>4 DEF ab
  <1> HIDE DEF abc
  <1>8. abc \o d \in Seq(Byte) /\ Len(abc \o d) = 7 + Len(d)
    BY <1>3, <1>6, Concat
  <1> QED BY <1>2, <1>3, <1>6, <1>7, <1>8 DEF d

\* What stands in front of the data is read as it was written.
LEMMA HeadIsRead ==
  ASSUME NEW data, NEW behind, NEW f, Fits(f), Stands(data, behind, FieldHead(f))
  PROVE  /\ Uint16(SubSeq(data, behind + 1, behind + 2)) = f.id
         /\ data[behind + 3] = f.type
         /\ Uint32(SubSeq(data, behind + 4, behind + 7)) = Len(f.data)
  <1> DEFINE a == LE2(f.id)
             b == <<f.type>>
             c == LE4(Len(f.data))
             ab == a \o b
  <1>1. /\ f.id \in Nat /\ f.id <= MaxCount /\ f.type \in Byte
        /\ f.data \in Seq(Byte) /\ Len(f.data) <= MaxLength
    BY FieldParts
  <1>2. Len(f.data) \in Nat /\ behind \in Nat
    BY FieldParts DEF Stands
  <1>3. /\ a \in Seq(Byte) /\ Len(a) = 2 /\ Uint16(a) = f.id
        /\ c \in Seq(Byte) /\ Len(c) = 4 /\ Uint32(c) = Len(f.data)
        /\ b \in Seq(Byte) /\ Len(b) = 1 /\ b[1] = f.type
    BY <1>1, <1>2, LE2Bytes, LE4Bytes, OneByte
  <1>4. FieldHead(f) = ab \o c
    BY DEF FieldHead
  <1> HIDE DEF a, b, c
  <1>5. ab \in Seq(Byte) /\ Len(ab) = 3
    <2>1. ab \in Seq(Byte) /\ Len(ab) = Len(a) + Len(b)
      BY <1>3, Concat
    <2> QED BY <1>3, <2>1
  <1>6. ab = a \o b
    OBVIOUS
  <1> HIDE DEF ab
  <1>7. Stands(data, behind, ab) /\ Stands(data, behind + 3, c)
    <2>1. Stands(data, behind, ab \o c)
      BY <1>4
    <2>2. Stands(data, behind, ab) /\ Stands(data, behind + Len(ab), c)
      BY <1>3, <1>5, <2>1, StandsParts
    <2> QED BY <1>5, <2>2
  <1>8. Stands(data, behind, a) /\ Stands(data, behind + 2, b)
    <2>1. Stands(data, behind, a \o b)
      BY <1>6, <1>7
    <2>2. Stands(data, behind, a) /\ Stands(data, behind + Len(a), b)
      BY <1>3, <2>1, StandsParts
    <2> QED BY <1>3, <2>2
  <1>9. SubSeq(data, behind + 1, behind + 2) = a
    BY <1>3, <1>8, StandsSlice
  <1>10. data[behind + 3] = b[1]
    <2>1. 1 \in 1..Len(b) /\ (behind + 2) + 1 = behind + 3
      BY <1>2, <1>3
    <2> QED BY <1>8, <2>1 DEF Stands
  <1>11. SubSeq(data, behind + 4, behind + 7) = c
    <2>1. (behind + 3) + 1 = behind + 4 /\ (behind + 3) + Len(c) = behind + 7
      BY <1>2, <1>3
    <2> QED BY <1>7, <2>1, StandsSlice
  <1> QED BY <1>3, <1>9, <1>10, <1>11

\* A whole field is read ...
LEMMA FieldIsRead ==
  ASSUME NEW data, NEW p, NEW f, Fits(f), p.good, Stands(data, p.offset, FieldBytes(f))
  PROVE  ReadField(data, p)
           = [good |-> TRUE, offset |-> p.offset + 7 + Len(f.data),
              fields |-> Append(p.fields, f)]
  <1> DEFINE behind == p.offset
             head == FieldHead(f)
  <1>1. /\ head \in Seq(Byte) /\ Len(head) = 7
        /\ f.data \in Seq(Byte) /\ Len(f.data) \in Nat
        /\ FieldBytes(f) = head \o f.data
        /\ Len(FieldBytes(f)) = 7 + Len(f.data)
    BY FieldHeadBytes
  <1>2. Stands(data, behind, head) /\ Stands(data, behind + 7, f.data)
    BY <1>1, StandsParts
  <1>3. /\ Uint16(SubSeq(data, behind + 1, behind + 2)) = f.id
        /\ data[behind + 3] = f.type
        /\ Uint32(SubSeq(data, behind + 4, behind + 7)) = Len(f.data)
    BY <1>2, HeadIsRead
  <1>4. SubSeq(data, behind + 7 + 1, behind + 7 + Len(f.data)) = f.data
    BY <1>2, StandsSlice
  <1>5. behind \in Nat /\ Len(data) \in Nat /\ behind + 7 + Len(f.data) <= Len(data)
    BY <1>1, <1>2 DEF Stands
  <1>6. f = [id |-> f.id, type |-> f.type, data |-> f.data]
    BY FieldParts
  <1>7. ~(behind + 7 > Len(data)) /\ ~(behind + 7 + Len(f.data) > Len(data))
    BY <1>1, <1>5
  <1> QED BY <1>3, <1>4, <1>6, <1>7, Zenon DEF ReadField

\* ... one that is cut off is not.
LEMMA TornFieldIsNot ==
  ASSUME NEW data, data \in Seq(Byte), NEW p, NEW f, Fits(f), p.offset \in Nat,
         Len(data) < p.offset + 7 + Len(f.data),
         \/ Len(data) < p.offset + 7
         \/ Stands(data, p.offset, FieldHead(f))
  PROVE  ~ReadField(data, p).good
  <1>1. Len(f.data) \in Nat /\ Len(data) \in Nat
    BY FieldHeadBytes
  <1>2. CASE Len(data) < p.offset + 7
    BY <1>1, <1>2 DEF ReadField, NothingRead
  <1>3. CASE Stands(data, p.offset, FieldHead(f))
    <2>1. Uint32(SubSeq(data, p.offset + 4, p.offset + 7)) = Len(f.data)
      BY <1>3, HeadIsRead
    <2>2. p.offset + 7 + Len(f.data) > Len(data)
      BY <1>1
    <2> QED BY <2>1, <2>2 DEF ReadField, NothingRead
  <1> QED BY <1>2, <1>3

FieldsOf(fs) == FlattenSeq([i \in 1..Len(fs) |-> FieldBytes(fs[i])])

\* ends[i] is where field i ends in the bytes of them all.
Ends(ends, fs) ==
  /\ ends[0] = 0
  /\ \A i \in 1..Len(fs) : /\ ends[i] = ends[i - 1] + 7 + Len(fs[i].data)
                           /\ ends[i - 1] \in Nat /\ ends[i] \in Nat
                           /\ Stands(FieldsOf(fs), ends[i - 1], FieldBytes(fs[i]))
  /\ FieldsOf(fs) \in Seq(Byte) /\ Len(FieldsOf(fs)) = ends[Len(fs)]
  /\ \A i, j \in 0..Len(fs) : i <= j => ends[i] <= ends[j]

\* There are ends of fields, one behind the other.
LEMMA FieldsEnd ==
  ASSUME NEW F, NEW fs \in Seq(F), \A i \in 1..Len(fs) : Fits(fs[i])
  PROVE  \E ends : Ends(ends, fs)
  <1> DEFINE N == Len(fs)
             seqs == [i \in 1..N |-> FieldBytes(fs[i])]
  <1>1. N \in Nat
    OBVIOUS
  <1>2. \A i \in 1..N : /\ FieldBytes(fs[i]) \in Seq(Byte) /\ Len(fs[i].data) \in Nat
                        /\ Len(FieldBytes(fs[i])) = 7 + Len(fs[i].data)
                        /\ Len(FieldBytes(fs[i])) \in Nat
    <2> TAKE i \in 1..N
    <2>1. /\ FieldBytes(fs[i]) \in Seq(Byte) /\ Len(fs[i].data) \in Nat
          /\ Len(FieldBytes(fs[i])) = 7 + Len(fs[i].data)
      BY FieldHeadBytes
    <2> QED BY <2>1
  <1>3. seqs \in Seq(Seq(Byte)) /\ Len(seqs) = N /\ \A i \in 1..N : seqs[i] = FieldBytes(fs[i])
    BY <1>1, <1>2
  <1>4. FieldsOf(fs) = FlattenSeq(seqs)
    BY DEF FieldsOf
  <1> HIDE DEF N, seqs
  <1>5. PICK f : /\ Heads(f, seqs) /\ FlattenSeq(seqs) = f[N]
                 /\ \A i \in 0..N : f[i] \in Seq(Byte)
    <2>1. \E f : Heads(f, seqs) /\ FlattenSeq(seqs) = f[Len(seqs)]
                 /\ \A i \in 0..Len(seqs) : f[i] \in Seq(Byte)
      BY <1>3, FlattenHeads
    <2> QED BY <1>3, <2>1
  <1>6. f[0] = <<>> /\ \A i \in 1..N : f[i] = f[i - 1] \o FieldBytes(fs[i])
    BY <1>3, <1>5 DEF Heads
  <1> DEFINE ends == [i \in 0..N |-> Len(f[i])]
             all == FieldsOf(fs)
  <1>7. all = f[N]
    BY <1>4, <1>5
  <1>8. \A i \in 0..N : f[i] \in Seq(Byte) /\ ends[i] = Len(f[i]) /\ ends[i] \in Nat
    BY <1>5
  <1> HIDE DEF ends, all
  <1>9. ends[0] = 0
    BY <1>1, <1>6, <1>8
  <1>10. \A i \in 1..N : i - 1 \in 0..N /\ i \in 0..N /\ ends[i] = ends[i - 1] + 7 + Len(fs[i].data)
    <2> TAKE i \in 1..N
    <2>1. i - 1 \in 0..N /\ i \in 0..N
      BY <1>1
    <2>2. f[i - 1] \in Seq(Byte) /\ FieldBytes(fs[i]) \in Seq(Byte)
      BY <1>2, <1>8, <2>1
    <2>3. Len(f[i - 1] \o FieldBytes(fs[i])) = Len(f[i - 1]) + Len(FieldBytes(fs[i]))
      BY <2>2, Concat
    <2>4. Len(f[i]) = Len(f[i - 1]) + Len(FieldBytes(fs[i]))
      BY <1>6, <2>3
    <2> DEFINE m == Len(FieldBytes(fs[i]))
               k == Len(fs[i].data)
    <2>5. m = 7 + k /\ k \in Nat
      BY <1>2
    <2>6. ends[i] = ends[i - 1] + m /\ ends[i - 1] \in Nat
      BY <1>8, <2>1, <2>4
    <2> HIDE DEF m, k
    <2>7. ends[i] = ends[i - 1] + 7 + k
      BY <2>5, <2>6
    <2> QED BY <2>1, <2>7 DEF k
  <1>11. \A i \in 0..N : \A j \in 0..N : i <= j => ends[i] <= ends[j]
    <2> TAKE i \in 0..N
    <2> DEFINE T == {n \in Nat : i <= n => ends[i] <= ends[n]}
    <2>1. 0 \in T
      BY <1>1, <1>8
    <2>2. \A n \in Nat : n \in T /\ n < N => n + 1 \in T
      <3> SUFFICES ASSUME NEW n \in Nat, n \in T, n < N, i <= n + 1
                   PROVE  ends[i] <= ends[n + 1]
        OBVIOUS
      <3>1. n + 1 \in 1..N /\ n + 1 - 1 = n /\ n \in 0..N
        BY <1>1
      <3>2. ends[n + 1] = ends[n] + 7 + Len(fs[n + 1].data) /\ Len(fs[n + 1].data) \in Nat
        BY <1>2, <1>10, <3>1
      <3>3. ends[n] \in Nat /\ ends[n + 1] \in Nat /\ ends[i] \in Nat
        BY <1>8, <3>1
      <3>4. CASE i = n + 1
        BY <3>3, <3>4
      <3>5. CASE i # n + 1
        <4>1. ends[i] <= ends[n]
          BY <3>5, <1>1
        <4> DEFINE k == Len(fs[n + 1].data)
        <4>2. ends[n + 1] = ends[n] + 7 + k /\ k \in Nat
          BY <3>2
        <4> HIDE DEF k
        <4>3. ends[n] <= ends[n + 1]
          BY <3>3, <4>2
        <4> QED BY <3>3, <4>1, <4>3
      <3> QED BY <3>4, <3>5
    <2> HIDE DEF T
    <2>3. 0..N \subseteq T
      BY <1>1, <2>1, <2>2, InductionUpTo
    <2> QED BY <2>3 DEF T
  <1>12. \A j \in 0..N : \A i \in 0..N : i <= j => \A k \in 1..ends[i] : f[j][k] = f[i][k]
    <2> DEFINE Same(n) == \A i \in 0..N : i <= n => \A k \in 1..ends[i] : f[n][k] = f[i][k]
               T == {n \in Nat : Same(n)}
    <2>1. 0 \in T
      BY <1>1
    <2>2. \A n \in Nat : n \in T /\ n < N => n + 1 \in T
      <3> SUFFICES ASSUME NEW n \in Nat, Same(n), n < N, NEW i \in 0..N, i <= n + 1,
                          NEW k \in 1..ends[i]
                   PROVE  f[n + 1][k] = f[i][k]
        OBVIOUS
      <3>1. n + 1 \in 1..N /\ n + 1 - 1 = n /\ n \in 0..N
        BY <1>1
      <3>2. CASE i = n + 1
        BY <3>2
      <3>3. CASE i # n + 1
        <4>1. i <= n
          BY <3>3, <1>1
        <4>2. f[n][k] = f[i][k] /\ ends[i] <= ends[n]
          BY <1>11, <3>1, <4>1
        <4>3. k \in Nat /\ 1 <= k /\ k <= Len(f[n]) /\ Len(f[n]) \in Nat
          BY <1>8, <3>1, <4>2
        <4>4. f[n + 1] = f[n] \o FieldBytes(fs[n + 1])
          <5> DEFINE j == n + 1
          <5>1. j \in 1..N /\ j - 1 = n
            BY <3>1
          <5> HIDE DEF j
          <5>2. f[j] = f[j - 1] \o FieldBytes(fs[j])
            BY <1>6, <5>1
          <5>3. f[j] = f[n] \o FieldBytes(fs[j])
            BY <5>1, <5>2
          <5> QED BY <5>3 DEF j
        <4> DEFINE a == f[n]
                   b == FieldBytes(fs[n + 1])
        <4>5. a \in Seq(Byte) /\ b \in Seq(Byte) /\ Len(b) \in Nat
          BY <1>2, <1>8, <3>1
        <4>6. k <= Len(a) /\ Len(a) \in Nat
          BY <4>3
        <4> HIDE DEF a, b
        <4>7. (a \o b)[k] = a[k]
          <5>1. k \in 1..Len(a) + Len(b)
            BY <4>3, <4>5, <4>6
          <5> QED BY <4>5, <4>6, <5>1, ConcatProperties
        <4> QED BY <4>2, <4>4, <4>7 DEF a, b
      <3> QED BY <3>2, <3>3
    <2> HIDE DEF T
    <2>3. 0..N \subseteq T
      BY <1>1, <2>1, <2>2, InductionUpTo
    <2> QED BY <2>3 DEF T
  <1>13. all \in Seq(Byte) /\ Len(all) = ends[N] /\ N \in 0..N
    BY <1>1, <1>7, <1>8
  <1>14. \A i \in 1..N : Stands(all, ends[i - 1], FieldBytes(fs[i]))
    <2> TAKE i \in 1..N
    <2> DEFINE b == FieldBytes(fs[i])
               e == ends[i - 1]
    <2>1. /\ i \in 0..N /\ i - 1 \in 0..N /\ b \in Seq(Byte) /\ Len(b) \in Nat
          /\ f[i - 1] \in Seq(Byte) /\ Len(f[i - 1]) = e /\ e \in Nat
      BY <1>2, <1>8, <1>10
    <2>2. f[i] = f[i - 1] \o b
      BY <1>6
    <2>3. /\ Len(f[i]) = e + Len(b)
          /\ \A k \in 1..e + Len(b) : f[i][k] = IF k <= e THEN f[i - 1][k] ELSE b[k - e]
      <3> DEFINE a == f[i - 1]
      <3>1. a \in Seq(Byte) /\ b \in Seq(Byte) /\ f[i] = a \o b /\ Len(a) = e
        BY <2>1, <2>2
      <3> HIDE DEF a, b, e
      <3>2. /\ Len(a \o b) = Len(a) + Len(b)
            /\ \A k \in 1..Len(a) + Len(b) :
                 (a \o b)[k] = IF k <= Len(a) THEN a[k] ELSE b[k - Len(a)]
        BY <3>1, ConcatProperties
      <3>3. /\ Len(f[i]) = e + Len(b)
            /\ \A k \in 1..e + Len(b) : f[i][k] = IF k <= e THEN a[k] ELSE b[k - e]
        BY <3>1, <3>2, Zenon
      <3> QED BY <3>3 DEF a
    <2>4. ends[i] = e + Len(b) /\ ends[i] <= ends[N] /\ i <= N
      <3>1. i <= N
        BY <1>1
      <3>2. ends[i] <= ends[N]
        BY <1>11, <1>13, <2>1, <3>1
      <3>3. ends[i] = Len(f[i])
        BY <1>8, <2>1
      <3> QED BY <2>3, <3>1, <3>2, <3>3
    <2>5. \A k \in 1..ends[i] : all[k] = f[i][k]
      BY <1>7, <1>12, <1>13, <2>1, <2>4
    <2> HIDE DEF b, e
    <2>6. \A k \in 1..Len(b) : all[e + k] = b[k]
      <3> TAKE k \in 1..Len(b)
      <3>1. e + k \in 1..e + Len(b) /\ ~(e + k <= e) /\ (e + k) - e = k
        BY <2>1
      <3> QED BY <2>3, <2>4, <2>5, <3>1
    <2>7. e + Len(b) <= Len(all)
      BY <1>13, <2>4
    <2> QED BY <1>13, <2>1, <2>6, <2>7 DEF Stands, b, e
  <1>15. /\ \A i \in 1..N : /\ ends[i] = ends[i - 1] + 7 + Len(fs[i].data)
                            /\ ends[i - 1] \in Nat /\ ends[i] \in Nat
                            /\ Stands(all, ends[i - 1], FieldBytes(fs[i]))
         /\ \A i, j \in 0..N : i <= j => ends[i] <= ends[j]
    BY <1>8, <1>10, <1>11, <1>14
  <1>16. Ends(ends, fs)
    BY <1>9, <1>13, <1>15 DEF Ends, N, all
  <1> QED BY <1>16

\* Bytes that begin with those of the fields up to the end of one of them.
Begins(data, fs, end) ==
  /\ data \in Seq(Byte) /\ end <= Len(data)
  /\ \A k \in 1..end : data[k] = FieldsOf(fs)[k]

\* What has been read behind so many fields.
ReadUpTo(fs, ends, m) == [good |-> TRUE, fields |-> SubSeq(fs, 1, m), offset |-> ends[m]]

\* What begins with the bytes of the first m fields reads as these.
LEMMA WholeFieldsAreRead ==
  ASSUME NEW F, NEW fs \in Seq(F), \A i \in 1..Len(fs) : Fits(fs[i]),
         NEW ends, Ends(ends, fs),
         NEW data, NEW m \in 0..Len(fs), Begins(data, fs, ends[m]),
         NEW count \in Nat, m <= count, NEW f, Turns(f, data, count)
  PROVE  f[m] = ReadUpTo(fs, ends, m)
  <1> DEFINE N == Len(fs)
             all == FieldsOf(fs)
             Read(n) == [good |-> TRUE, fields |-> SubSeq(fs, 1, n), offset |-> ends[n]]
             T == {n \in Nat : f[n] = Read(n)}
  <1>0. /\ data \in Seq(Byte) /\ ends[m] <= Len(data)
        /\ \A k \in 1..ends[m] : data[k] = all[k]
        /\ f[0] = NothingRead /\ \A i \in 1..count : f[i] = ReadField(data, f[i - 1])
    BY DEF Begins, Turns
  <1>1. N \in Nat /\ m \in Nat /\ m <= N /\ Len(data) \in Nat
    BY <1>0
  <1>2. 0 \in T
    <2>1. SubSeq(fs, 1, 0) = <<>> /\ ends[0] = 0
      BY SubSeqEmpty DEF Ends
    <2>2. Read(0) = NothingRead
      BY <2>1 DEF NothingRead
    <2> QED BY <1>0, <2>2
  <1>3. ASSUME NEW n \in Nat, f[n] = Read(n), n < m
        PROVE  f[n + 1] = Read(n + 1)
    <2> DEFINE j == n + 1
               b == FieldBytes(fs[j])
    <2>1. j \in 1..N /\ j \in 1..count /\ j - 1 = n /\ j \in 0..N /\ m \in 0..N /\ j <= m
      BY <1>1, <1>3
    <2> HIDE DEF j
    <2>2. /\ ends[j] = ends[n] + 7 + Len(fs[j].data) /\ ends[n] \in Nat /\ ends[j] \in Nat
          /\ Stands(all, ends[n], b) /\ ends[j] <= ends[m]
      BY <2>1 DEF Ends
    <2>3. Fits(fs[j]) /\ b \in Seq(Byte) /\ Len(b) = 7 + Len(fs[j].data) /\ Len(b) \in Nat
      <3>1. Fits(fs[j])
        BY <2>1
      <3>2. b \in Seq(Byte) /\ Len(b) = 7 + Len(fs[j].data) /\ Len(fs[j].data) \in Nat
        BY <3>1, FieldHeadBytes
      <3> QED BY <3>1, <3>2
    <2>4. ends[n] + Len(b) <= ends[m]
      <3> DEFINE k == Len(fs[j].data)
                 l == Len(b)
      <3>1. ends[j] = ends[n] + 7 + k /\ l = 7 + k /\ l \in Nat /\ k \in Int
        BY <2>2, <2>3
      <3>2. ends[j] <= ends[m] /\ ends[n] \in Nat /\ ends[j] \in Nat
        BY <2>2
      <3> HIDE DEF k, l
      <3>3. ends[n] + l = ends[j]
        <4> DEFINE x == ends[n]
                   y == ends[j]
        <4>1. y = x + 7 + k /\ l = 7 + k /\ k \in Int /\ x \in Int
          BY <3>1, <3>2
        <4> HIDE DEF x, y
        <4>2. x + l = y
          BY <4>1
        <4> QED BY <4>2 DEF x, y
      <3>4. ends[n] + l <= ends[m]
        BY <3>2, <3>3
      <3> QED BY <3>4 DEF l
    <2> HIDE DEF b
    <2>5. Stands(data, ends[n], b)
      <3>1. ends[m] \in Nat
        <4>1. m = 0 \/ m \in 1..N
          BY <1>1
        <4> QED BY <4>1 DEF Ends
      <3> DEFINE l == Len(b)
                 e == ends[n]
      <3>2. l \in Nat /\ e \in Nat /\ e + l <= ends[m] /\ ends[m] <= Len(data)
        BY <1>0, <2>2, <2>3, <2>4
      <3>3. \A k \in 1..l : all[e + k] = b[k]
        BY <2>2 DEF Stands
      <3> HIDE DEF l, e
      <3>4. \A k \in 1..l : e + k \in 1..ends[m]
        BY <3>1, <3>2
      <3>5. \A k \in 1..l : data[e + k] = b[k]
        BY <1>0, <3>3, <3>4
      <3>6. e + l <= Len(data)
        BY <1>1, <3>1, <3>2
      <3>7. data \in Seq(Byte) /\ b \in Seq(Byte)
        BY <1>0, <2>3
      <3> QED BY <3>2, <3>5, <3>6, <3>7, Zenon DEF Stands, l, e
    <2>6. f[j] = ReadField(data, f[n])
      BY <1>0, <2>1
    <2>7. f[n].good /\ f[n].offset = ends[n] /\ f[n].fields = SubSeq(fs, 1, n)
      BY <1>3
    <2>8. f[j] = [good |-> TRUE, offset |-> ends[n] + 7 + Len(fs[j].data),
                  fields |-> Append(SubSeq(fs, 1, n), fs[j])]
      <3>1. Stands(data, f[n].offset, FieldBytes(fs[j]))
        BY <2>5, <2>7 DEF b
      <3>2. ReadField(data, f[n])
              = [good |-> TRUE, offset |-> f[n].offset + 7 + Len(fs[j].data),
                 fields |-> Append(f[n].fields, fs[j])]
        <4> DEFINE p == f[n]
                   g == fs[j]
        <4>1. Fits(g) /\ p.good /\ Stands(data, p.offset, FieldBytes(g))
          BY <2>3, <2>7, <3>1
        <4> HIDE DEF p, g
        <4>2. ReadField(data, p)
                = [good |-> TRUE, offset |-> p.offset + 7 + Len(g.data),
                   fields |-> Append(p.fields, g)]
          BY <4>1, FieldIsRead
        <4> QED BY <4>2 DEF p, g
      <3> DEFINE d == Len(fs[j].data)
                 g == fs[j]
      <3>3. f[j] = [good |-> TRUE, offset |-> f[n].offset + 7 + d,
                    fields |-> Append(f[n].fields, g)]
        BY <2>6, <3>2, Zenon
      <3> HIDE DEF d, g
      <3>4. f[j] = [good |-> TRUE, offset |-> ends[n] + 7 + d,
                    fields |-> Append(SubSeq(fs, 1, n), g)]
        BY <2>7, <3>3
      <3> QED BY <3>4 DEF d, g
    <2>9. Append(SubSeq(fs, 1, n), fs[j]) = SubSeq(fs, 1, j)
      <3> DEFINE s == SubSeq(fs, 1, n)
                 t == SubSeq(fs, 1, j)
                 u == Append(s, fs[j])
      <3>0. \A i \in 1..N : fs[i] \in F
        OBVIOUS
      <3>1. s \in Seq(F) /\ Len(s) = n /\ \A i \in 1..n : s[i] = fs[i]
        <4>1. 1 \in Int /\ n \in Int /\ (IF 1 <= n THEN n - 1 + 1 ELSE 0) = n
              /\ \A i \in 1..n : fs[i] \in F
          BY <1>1, <2>1, <3>0
        <4>2. /\ s \in Seq(F) /\ Len(s) = n
              /\ \A i \in 1..n - 1 + 1 : s[i] = fs[1 + i - 1]
          BY <4>1, SubSeqProperties
        <4> QED BY <4>1, <4>2
      <3>2. t \in Seq(F) /\ Len(t) = j /\ \A i \in 1..j : t[i] = fs[i]
        <4>1. 1 \in Int /\ j \in Int /\ (IF 1 <= j THEN j - 1 + 1 ELSE 0) = j
              /\ \A i \in 1..j : fs[i] \in F
          BY <1>1, <2>1, <3>0
        <4>2. /\ t \in Seq(F) /\ Len(t) = j
              /\ \A i \in 1..j - 1 + 1 : t[i] = fs[1 + i - 1]
          BY <4>1, SubSeqProperties
        <4> QED BY <4>1, <4>2
      <3>3. fs[j] \in F /\ j = n + 1
        BY <2>1, <3>0
      <3> HIDE DEF s, t
      <3>4. u \in Seq(F) /\ Len(u) = j /\ u[j] = fs[j] /\ \A i \in 1..n : u[i] = s[i]
        <4>1. /\ u \in Seq(F) /\ Len(u) = Len(s) + 1
              /\ \A i \in 1..Len(s) : u[i] = s[i]
              /\ u[Len(s) + 1] = fs[j]
          BY <3>1, <3>3, AppendProperties
        <4> QED BY <3>1, <3>3, <4>1
      <3>5. \A i \in 1..j : u[i] = t[i]
        <4> TAKE i \in 1..j
        <4>1. i = j \/ i \in 1..n
          BY <3>3
        <4> QED BY <3>1, <3>2, <3>4, <4>1
      <3> HIDE DEF u
      <3>6. u = t
        BY <3>2, <3>4, <3>5, SeqEqual
      <3> QED BY <3>6 DEF s, t, u
    <2>10. f[j] = Read(j)
      BY <2>2, <2>8, <2>9, Zenon
    <2> QED BY <2>10 DEF j
  <1>4. 0..m \subseteq T
    <2>1. \A n \in Nat : n \in T /\ n < m => n + 1 \in T
      <3> HIDE DEF Read
      <3> QED BY <1>3
    <2>2. m \in Nat
      BY <1>1
    <2> HIDE DEF T
    <2> QED BY <1>2, <2>1, <2>2, InductionUpTo
  <1>5. m \in 0..m
    BY <1>1
  <1> HIDE DEF Read
  <1>6. f[m] = Read(m)
    BY <1>4, <1>5
  <1> QED BY <1>6 DEF Read, ReadUpTo

\* A turn that fails is the end: there are no fields at all.
LEMMA FailedTurnLasts ==
  ASSUME NEW data, NEW count \in Nat, NEW f,
         Turns(f, data, count), NEW m \in 1..count, ~f[m].good
  PROVE  ~f[count].good
  <1> DEFINE T == {n \in Nat : m <= n => ~f[n].good}
  <1>1. 0 \in T
    OBVIOUS
  <1>2. \A n \in Nat : n \in T /\ n < count => n + 1 \in T
    <2> SUFFICES ASSUME NEW n \in Nat, n \in T, n < count, m <= n + 1
                 PROVE  ~f[n + 1].good
      OBVIOUS
    <2>1. CASE m = n + 1
      BY <2>1
    <2>2. CASE m # n + 1
      <3> DEFINE j == n + 1
      <3>1. j \in 1..count /\ j - 1 = n /\ m <= n
        BY <2>2
      <3> HIDE DEF j
      <3>2. f[j] = ReadField(data, f[n]) /\ ~f[n].good
        BY <3>1 DEF Turns
      <3>3. ~ReadField(data, f[n]).good
        BY <3>2 DEF ReadField, NothingRead
      <3> QED BY <3>2, <3>3 DEF j
    <2> QED BY <2>1, <2>2
  <1> HIDE DEF T
  <1>3. 0..count \subseteq T
    BY <1>1, <1>2, InductionUpTo
  <1> QED BY <1>3 DEF T

\* What ParseFields makes of bytes that begin with those of the first m fields,
\* and do not go on with a field: exactly these if it looks for so many and no
\* byte follows, and nothing if it looks for more.
LEMMA ParsedUpTo ==
  ASSUME NEW F, NEW fs \in Seq(F), \A i \in 1..Len(fs) : Fits(fs[i]),
         NEW ends, Ends(ends, fs),
         NEW data, NEW m \in 0..Len(fs), Begins(data, fs, ends[m]),
         NEW count \in Nat, m <= count,
         m < count => ~ReadField(data, ReadUpTo(fs, ends, m)).good
  PROVE  ParseFields(data, count)
           = IF m = count /\ ends[m] = Len(data) THEN <<SubSeq(fs, 1, m)>> ELSE <<>>
  <1>1. PICK f : Turns(f, data, count) /\ ReadFields(data, count) = f[count]
    BY ReadTurns
  <1> DEFINE p == ReadUpTo(fs, ends, m)
  <1>2. f[m] = p
    BY <1>1, WholeFieldsAreRead
  <1>3. p.good /\ p.fields = SubSeq(fs, 1, m) /\ p.offset = ends[m]
    BY DEF ReadUpTo
  <1> HIDE DEF p
  <1>4. ParseFields(data, count)
          = IF f[count].good /\ f[count].offset = Len(data) THEN <<f[count].fields>> ELSE <<>>
    BY <1>1, Zenon DEF ParseFields
  <1>5. CASE m = count
    BY <1>2, <1>3, <1>4, <1>5, Zenon
  <1>6. CASE m < count
    <2> DEFINE j == m + 1
    <2>1. j \in 1..count /\ j - 1 = m /\ m # count
      BY <1>6
    <2> HIDE DEF j
    <2>2. f[j] = ReadField(data, p)
      BY <1>1, <1>2, <2>1 DEF Turns
    <2>3. ~f[j].good
      BY <1>6, <2>2 DEF p
    <2>4. ~f[count].good
      BY <1>1, <2>1, <2>3, FailedTurnLasts
    <2> QED BY <1>4, <2>1, <2>4, Zenon
  <1>7. m = count \/ m < count
    OBVIOUS
  <1> QED BY <1>5, <1>6, <1>7

\* Fields are read as they were written, any number of any length, if their
\* count is right; and none is, if it is not, if up to six bytes follow or if
\* the last is missing (ParseFields).
THEOREM FieldsReadBack ==
  ASSUME NEW F, NEW fs \in Seq(F), \A i \in 1..Len(fs) : Fits(fs[i]), NEW count \in Nat
  PROVE  /\ FieldsOf(fs) \in Seq(Byte)
         /\ ParseFields(FieldsOf(fs), count) = IF count = Len(fs) THEN <<fs>> ELSE <<>>
         /\ \A x \in Seq(Byte) :
              Len(x) \in 1..6 => ParseFields(FieldsOf(fs) \o x, count) = <<>>
         /\ FieldsOf(fs) # <<>> =>
              ParseFields(SubSeq(FieldsOf(fs), 1, Len(FieldsOf(fs)) - 1), count) = <<>>
  <1> DEFINE N == Len(fs)
             all == FieldsOf(fs)
             Starts(data, e) == Begins(data, fs, e)
  <1>1. PICK ends : Ends(ends, fs)
    BY FieldsEnd
  <1> DEFINE P(m) == ReadUpTo(fs, ends, m)
  <1>2. N \in Nat /\ N \in 0..N
    OBVIOUS
  <1>3. /\ all \in Seq(Byte) /\ Len(all) = ends[N] /\ ends[0] = 0
        /\ \A i \in 1..N : /\ ends[i] = ends[i - 1] + 7 + Len(fs[i].data)
                           /\ ends[i - 1] \in Nat /\ ends[i] \in Nat
                           /\ Stands(all, ends[i - 1], FieldBytes(fs[i]))
        /\ \A i, j \in 0..N : i <= j => ends[i] <= ends[j]
    BY <1>1 DEF Ends
  <1>4. \A i \in 0..N : ends[i] \in Nat /\ ends[i] <= ends[N]
    <2> TAKE i \in 0..N
    <2>1. i = 0 \/ i \in 1..N
      BY <1>2
    <2>2. i <= N
      BY <1>2
    <2> QED BY <1>2, <1>3, <2>1, <2>2
  <1>5. \A i \in 0..N : i < N => ends[i] + 7 <= ends[N]
    <2> SUFFICES ASSUME NEW i \in 0..N, i < N PROVE ends[i] + 7 <= ends[N]
      OBVIOUS
    <2> DEFINE j == i + 1
    <2>1. j \in 1..N /\ j - 1 = i /\ j \in 0..N
      BY <1>2
    <2> HIDE DEF j
    <2> DEFINE d == Len(fs[j].data)
    <2>2. ends[j] = ends[i] + 7 + d /\ ends[i] \in Nat /\ ends[j] \in Nat /\ ends[j] <= ends[N]
          /\ ends[N] \in Nat
      BY <1>2, <1>3, <1>4, <2>1
    <2>3. d \in Nat
      BY <2>1, FieldParts
    <2> HIDE DEF d
    <2> QED BY <2>2, <2>3
  <1>6. ASSUME NEW data \in Seq(Byte), NEW m \in 0..N, Starts(data, ends[m]), m <= count,
               m < count => ~ReadField(data, P(m)).good
        PROVE  ParseFields(data, count)
                 = IF m = count /\ ends[m] = Len(data) THEN <<SubSeq(fs, 1, m)>> ELSE <<>>
    BY <1>1, <1>6, ParsedUpTo
  <1>c. \A data \in Seq(Byte) : \A e :
          Starts(data, e) <=> e <= Len(data) /\ \A k \in 1..e : data[k] = all[k]
    BY DEF Begins
  <1> HIDE DEF Starts
  <1>a. ASSUME NEW data \in Seq(Byte), count \in 0..N, Starts(data, ends[count]),
               ends[count] # Len(data)
        PROVE  ParseFields(data, count) = <<>>
    <2>1. count <= count /\ ~(count < count)
      OBVIOUS
    <2> HIDE DEF P, N
    <2> QED BY <1>6, <1>a, <2>1
  <1>b. ASSUME NEW data \in Seq(Byte), NEW m \in 0..N, m < count, Starts(data, ends[m]),
               ~ReadField(data, P(m)).good
        PROVE  ParseFields(data, count) = <<>>
    <2>1. m <= count /\ m # count
      BY <1>b
    <2> HIDE DEF P, N
    <2> QED BY <1>6, <1>b, <2>1
  <1> HIDE DEF all
  <1>7. ASSUME NEW data \in Seq(Byte), Starts(data, ends[N]), Len(data) < ends[N] + 7
        PROVE  ParseFields(data, count)
                 = IF count = N /\ ends[N] = Len(data) THEN <<fs>> ELSE <<>>
    <2>1. \A m \in 0..N : Starts(data, ends[m])
      BY <1>2, <1>4, <1>7, <1>c
    <2>2. CASE count < N
      <3>1. count \in 0..N /\ ends[count] # Len(data)
        <4>1. count \in 0..N /\ ends[N] <= Len(data) /\ Len(data) \in Nat
          BY <1>2, <1>7, <1>c, <2>2
        <4>2. ends[count] + 7 <= ends[N] /\ ends[count] \in Nat /\ ends[N] \in Nat
          BY <1>2, <1>4, <1>5, <2>2, <4>1
        <4> QED BY <4>1, <4>2
      <3>2. ParseFields(data, count)
              = IF count = count /\ ends[count] = Len(data) THEN <<SubSeq(fs, 1, count)>> ELSE <<>>
        <4>1. Starts(data, ends[count]) /\ count <= count /\ ~(count < count)
          BY <2>1, <3>1
        <4> HIDE DEF P
        <4> QED BY <1>6, <3>1, <4>1
      <3>3. count # N
        BY <1>2, <2>2
      <3> QED BY <3>1, <3>2, <3>3
    <2>3. CASE count >= N
      <3>1. Starts(data, ends[N]) /\ N <= count
        BY <1>2, <1>7, <2>3
      <3>2. ~ReadField(data, P(N)).good
        <4>1. ends[N] + 7 > Len(data)
          BY <1>2, <1>4, <1>7
        <4> QED BY <4>1 DEF ReadField, NothingRead, ReadUpTo
      <3>3. ParseFields(data, count)
              = IF N = count /\ ends[N] = Len(data) THEN <<SubSeq(fs, 1, N)>> ELSE <<>>
        <4> HIDE DEF P
        <4> QED BY <1>2, <1>6, <3>1, <3>2
      <3>4. SubSeq(fs, 1, N) = fs
        BY SubSeqFull
      <3> QED BY <3>3, <3>4
    <2>4. count < N \/ count >= N
      BY <1>2
    <2> QED BY <2>2, <2>3, <2>4
  <1>8. ParseFields(all, count) = IF count = N THEN <<fs>> ELSE <<>>
    <2>1. Starts(all, ends[N]) /\ Len(all) < ends[N] + 7
      BY <1>2, <1>3, <1>4, <1>c
    <2> QED BY <1>3, <1>7, <2>1
  <1>9. ASSUME NEW x \in Seq(Byte), Len(x) \in 1..6
        PROVE  ParseFields(all \o x, count) = <<>>
    <2>0. all \in Seq(Byte)
      BY <1>3
    <2>a. /\ all \o x \in Seq(Byte) /\ Len(all \o x) = Len(all) + Len(x)
          /\ \A k \in 1..Len(all) + Len(x) :
               (all \o x)[k] = IF k <= Len(all) THEN all[k] ELSE x[k - Len(all)]
      BY <2>0, ConcatProperties
    <2> DEFINE data == all \o x
    <2> HIDE DEF data
    <2>1. /\ data \in Seq(Byte) /\ Len(data) = Len(all) + Len(x)
          /\ \A k \in 1..Len(all) + Len(x) : data[k] = IF k <= Len(all) THEN all[k]
                                                       ELSE x[k - Len(all)]
      BY <2>a, Zenon DEF data
    <2>2. ends[N] \in Nat /\ Len(all) = ends[N]
      BY <1>2, <1>3, <1>4
    <2>3. Starts(data, ends[N])
      <3>1. ends[N] <= Len(data)
        BY <1>9, <2>1, <2>2
      <3>2. \A k \in 1..ends[N] : k \in 1..Len(all) + Len(x) /\ k <= Len(all)
        BY <1>9, <2>2
      <3> QED BY <1>c, <2>1, <3>1, <3>2
    <2>4. Len(data) < ends[N] + 7 /\ Len(data) # ends[N]
      <3> DEFINE a == Len(data)
                 b == Len(x)
                 e == ends[N]
      <3>1. a = e + b /\ b \in 1..6 /\ e \in Nat
        BY <1>9, <2>1, <2>2
      <3> HIDE DEF a, b, e
      <3>2. a < e + 7 /\ a # e
        BY <3>1
      <3> QED BY <3>2 DEF a, e
    <2>5. ParseFields(data, count) = <<>>
      BY <1>7, <2>1, <2>3, <2>4
    <2> QED BY <2>5 DEF data
  <1>10. ASSUME all # <<>>
         PROVE  ParseFields(SubSeq(all, 1, Len(all) - 1), count) = <<>>
    <2> DEFINE l == Len(all) - 1
               data == SubSeq(all, 1, l)
               M == N - 1
    <2>1. N # 0
      <3> SUFFICES ASSUME N = 0 PROVE FALSE
        OBVIOUS
      <3>1. Len(all) = 0
        BY <1>3
      <3> QED BY <1>3, <1>10, <3>1, EmptySeq
    <2>2. M \in 0..N /\ N \in 1..N /\ N - 1 = M /\ M < N
      BY <1>2, <2>1
    <2>3. Fits(fs[N])
      BY <2>2
    <2> DEFINE d == Len(fs[N].data)
    <2>4. /\ ends[N] = ends[M] + 7 + d /\ d \in Nat /\ ends[M] \in Nat /\ ends[N] \in Nat
          /\ Stands(all, ends[M], FieldBytes(fs[N]))
      BY <1>3, <2>2, <2>3, FieldParts
    <2> HIDE DEF M, d
    <2>5. l \in Nat /\ l = ends[M] + 6 + d /\ l + 1 = Len(all)
      BY <1>3, <2>4
    <2> HIDE DEF l
    <2>6. data \in Seq(Byte) /\ Len(data) = l /\ \A k \in 1..l : data[k] = all[k]
      <3>1. \A k \in 1..l : all[k] \in Byte
        BY <1>3, <2>5, ElementOfSeq
      <3>2. 1 \in Int /\ l \in Int /\ (IF 1 <= l THEN l - 1 + 1 ELSE 0) = l
        BY <2>5
      <3>3. /\ data \in Seq(Byte) /\ Len(data) = l
            /\ \A k \in 1..l - 1 + 1 : data[k] = all[1 + k - 1]
        BY <3>1, <3>2, SubSeqProperties
      <3> HIDE DEF data
      <3> QED BY <2>5, <3>3
    <2> HIDE DEF data
    <2>7. \A m \in 0..N : m < N => ends[m] + 6 <= l
      <3> SUFFICES ASSUME NEW m \in 0..N, m < N PROVE ends[m] + 6 <= l
        OBVIOUS
      <3>1. ends[m] + 7 <= ends[N] /\ ends[m] \in Nat
        BY <1>4, <1>5
      <3>2. ends[N] = l + 1
        BY <1>3, <2>5
      <3> QED BY <2>5, <3>1, <3>2
    <2>8. \A m \in 0..N : m < N => Starts(data, ends[m])
      BY <1>4, <1>c, <2>5, <2>6, <2>7
    <2>9. CASE count < N
      <3>1. count \in 0..N
        BY <1>2, <2>9
      <3>2. ends[count] + 6 <= l /\ ends[count] \in Nat
        BY <1>4, <2>7, <2>9, <3>1
      <3>3. ends[count] # Len(data)
        BY <2>5, <2>6, <3>2
      <3>4. Starts(data, ends[count])
        BY <2>8, <2>9, <3>1
      <3> HIDE DEF N
      <3>5. ParseFields(data, count) = <<>>
        BY <1>a, <2>6, <3>1, <3>3, <3>4
      <3> QED BY <3>5 DEF data, l
    <2>10. CASE count >= N
      <3> DEFINE p == P(M)
                 f == fs[N]
      <3>1. p.offset = ends[M]
        BY DEF ReadUpTo
      <3>2. M < count /\ M <= count /\ M # count
        BY <1>2, <2>2, <2>10
      <3>3. Len(data) < ends[M] + 7 \/ Stands(data, ends[M], FieldHead(f))
        <4> SUFFICES ASSUME Len(data) >= ends[M] + 7
                     PROVE  Stands(data, ends[M], FieldHead(f))
          BY <2>4, <2>5, <2>6
        <4>1. /\ FieldHead(f) \in Seq(Byte) /\ Len(FieldHead(f)) = 7
              /\ f.data \in Seq(Byte) /\ FieldBytes(f) = FieldHead(f) \o f.data
          BY <2>3, FieldHeadBytes
        <4> DEFINE h == FieldHead(f)
        <4>2. Stands(all, ends[M], h)
          BY <2>4, <4>1, StandsParts
        <4> HIDE DEF h
        <4>3. \A i \in 1..7 : data[ends[M] + i] = h[i]
          <5> TAKE i \in 1..7
          <5>1. ends[M] + i \in 1..l
            <6> DEFINE e == ends[M]
            <6>1. e + 7 <= l /\ e \in Nat
              BY <2>4, <2>5, <2>6
            <6> HIDE DEF e
            <6>2. e + i \in 1..l
              BY <2>5, <6>1
            <6> QED BY <6>2 DEF e
          <5>2. all[ends[M] + i] = h[i]
            BY <4>1, <4>2 DEF Stands, h
          <5> QED BY <2>6, <5>1, <5>2
        <4>4. h \in Seq(Byte) /\ Len(h) = 7
          BY <4>1 DEF h
        <4> QED BY <2>4, <2>6, <4>3, <4>4 DEF Stands, h
      <3>4. Len(data) < ends[M] + 7 + d
        BY <2>4, <2>5, <2>6
      <3> HIDE DEF p, f
      <3>5. ~ReadField(data, p).good
        BY <2>3, <2>4, <2>6, <3>1, <3>3, <3>4, TornFieldIsNot DEF f, d
      <3>6. Starts(data, ends[M])
        BY <2>2, <2>8
      <3> HIDE DEF P, N
      <3>7. ~ReadField(data, P(M)).good
        BY <3>5 DEF p
      <3>8. ParseFields(data, count) = <<>>
        BY <1>b, <2>2, <2>6, <3>2, <3>6, <3>7
      <3> QED BY <3>8 DEF data, l
    <2>11. count < N \/ count >= N
      BY <1>2
    <2> QED BY <2>9, <2>10, <2>11
  <1> QED BY <1>3, <1>8, <1>9, <1>10 DEF all
===============================================================================
