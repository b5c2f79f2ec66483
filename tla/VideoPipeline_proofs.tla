------------------------ MODULE VideoPipeline_proofs ------------------------
(***************************************************************************)
(* For any number of frames, of queued jobs and any size of the queue: the *)
(* newest keyframe reaches the decoder, and the receiver adds no gap to    *)
(* those the phone makes.  The state of the phone obeys ServerInv, and the *)
(* bytes of a packet are read as what was written.                         *)
(***************************************************************************)
EXTENDS VideoPipeline, StreamServer_proofs, SequenceTheorems

-----------------------------------------------------------------------------
(* What the phone writes is what the receiver reads, for every packet, and *)
(* whatever follows it on the stream.                                      *)

(* The two halves of a number make it up again.                            *)
LEMMA Halves ==
  ASSUME NEW m \in Nat \ {0}, NEW n \in 0 .. m * m - 1
  PROVE  /\ n \div m \in 0 .. m - 1 /\ n % m \in 0 .. m - 1
         /\ (n \div m) * m + (n % m) = n
<1>1. n \in Nat /\ m * m \in Nat
  OBVIOUS
<1>2. (n \div m) * m + (n % m) = n /\ n % m \in 0 .. m - 1 /\ n \div m \in Nat
  BY <1>1, SMTT(30)
<1>3. n \div m < m
  BY <1>1, <1>2, SMTT(30)
<1> QED
  BY <1>2, <1>3

LEMMA Bases == /\ Base \in Nat \ {0} /\ Base2 \in Nat \ {0}
               /\ Base4 \in Nat \ {0} /\ Base8 \in Nat \ {0}
<1>1. \A m \in Nat \ {0} : m * m \in Nat \ {0}
  BY SMT
<1> QED
  BY <1>1, FormatAssumption DEF Base2, Base4, Base8

(* Where the elements of a concatenation are.                              *)
Joins(m, n) ==
    \A s, t \in Seq(Byte) : Len(s) = m /\ Len(t) = n =>
        /\ s \o t \in Seq(Byte) /\ Len(s \o t) = m + n
        /\ \A i \in 1 .. m : (s \o t)[i] = s[i]
        /\ \A i \in 1 .. n : (s \o t)[m + i] = t[i]

LEMMA Joined == \A m, n \in Nat : Joins(m, n)
  BY DEF Joins

(* What is left of a sequence behind its first m elements.                 *)
LEMMA Cut ==
  ASSUME NEW b \in Seq(Byte), NEW m \in Nat, m <= Len(b)
  PROVE  /\ SubSeq(b, m + 1, Len(b)) \in Seq(Byte)
         /\ Len(SubSeq(b, m + 1, Len(b))) = Len(b) - m
         /\ \A i \in 1 .. Len(b) - m :
               SubSeq(b, m + 1, Len(b))[i] = b[m + i]
<1>1. m + 1 \in 1 .. Len(b) + 1 /\ Len(b) \in (m + 1) - 1 .. Len(b)
  OBVIOUS
<1> QED
  BY <1>1, SubSeqProperties

-----------------------------------------------------------------------------
(* A number written in one width is read in that width.                    *)
LEMMA Writes16 ==
  ASSUME NEW n \in 0 .. Base2 - 1
  PROVE  U16(n) \in Seq(Byte) /\ Len(U16(n)) = 2
<1>1. n \div Base \in Byte /\ n % Base \in Byte
  BY Bases, Halves DEF Base2, Byte
<1> QED
  BY <1>1 DEF U16

LEMMA Reads16 ==
  ASSUME NEW n \in 0 .. Base2 - 1, NEW b, NEW at \in Nat,
         \A i \in 1 .. 2 : b[at + i - 1] = U16(n)[i]
  PROVE  ReadU16(b, at) = n
<1>1. b[at + 1 - 1] = n \div Base /\ b[at + 2 - 1] = n % Base
  BY DEF U16
<1>2. at + 1 - 1 = at /\ at + 2 - 1 = at + 1
  OBVIOUS
<1>3. (n \div Base) * Base + (n % Base) = n
  BY Bases, Halves DEF Base2
<1> QED
  BY <1>1, <1>2, <1>3 DEF ReadU16

LEMMA Writes32 ==
  ASSUME NEW n \in 0 .. Base4 - 1
  PROVE  /\ n \div Base2 \in 0 .. Base2 - 1 /\ n % Base2 \in 0 .. Base2 - 1
         /\ (n \div Base2) * Base2 + (n % Base2) = n
         /\ U32(n) \in Seq(Byte) /\ Len(U32(n)) = 4
         /\ \A i \in 1 .. 2 : /\ U32(n)[i] = U16(n \div Base2)[i]
                              /\ U32(n)[i + 2] = U16(n % Base2)[i]
<1>1. /\ n \div Base2 \in 0 .. Base2 - 1 /\ n % Base2 \in 0 .. Base2 - 1
      /\ (n \div Base2) * Base2 + (n % Base2) = n
  BY Bases, Halves DEF Base4
<1> DEFINE high == U16(n \div Base2)
           low  == U16(n % Base2)
<1>2. high \in Seq(Byte) /\ low \in Seq(Byte) /\ Len(high) = 2 /\ Len(low) = 2
  BY <1>1, Writes16
<1>3. U32(n) = high \o low
  BY DEF U32
<1> HIDE DEF high, low
<1>4. /\ high \o low \in Seq(Byte) /\ Len(high \o low) = 2 + 2
      /\ \A i \in 1 .. 2 : (high \o low)[i] = high[i]
      /\ \A i \in 1 .. 2 : (high \o low)[2 + i] = low[i]
  <2>1. Joins(2, 2)
    BY Joined
  <2> QED
    BY <1>2, <2>1, Zenon DEF Joins
<1>5. 2 + 2 = 4 /\ \A i \in 1 .. 2 : i + 2 = 2 + i
  OBVIOUS
<1> QED
  BY <1>1, <1>3, <1>4, <1>5, Zenon DEF high, low

LEMMA Reads32 ==
  ASSUME NEW n \in 0 .. Base4 - 1, NEW b, NEW at \in Nat,
         \A i \in 1 .. 4 : b[at + i - 1] = U32(n)[i]
  PROVE  ReadU32(b, at) = n
<1>1. \A i \in 1 .. 2 : b[at + i - 1] = U16(n \div Base2)[i]
  <2>1. \A i \in 1 .. 2 : i \in 1 .. 4
    OBVIOUS
  <2> QED
    BY <2>1, Writes32, Zenon
<1>2. \A i \in 1 .. 2 : b[(at + 2) + i - 1] = U16(n % Base2)[i]
  <2> SUFFICES ASSUME NEW i \in 1 .. 2
               PROVE  b[(at + 2) + i - 1] = U16(n % Base2)[i]
    OBVIOUS
  <2>1. i + 2 \in 1 .. 4 /\ at + (i + 2) - 1 = (at + 2) + i - 1
    OBVIOUS
  <2> QED
    BY <2>1, Writes32, Zenon
<1>3. ReadU16(b, at) = n \div Base2
  BY <1>1, Writes32, Reads16
<1>4. ReadU16(b, at + 2) = n % Base2
  <2>1. at + 2 \in Nat
    OBVIOUS
  <2> QED
    BY <2>1, <1>2, Writes32, Reads16
<1> QED
  BY <1>3, <1>4, Writes32 DEF ReadU32

LEMMA Writes64 ==
  ASSUME NEW n \in 0 .. Base8 - 1
  PROVE  /\ n \div Base4 \in 0 .. Base4 - 1 /\ n % Base4 \in 0 .. Base4 - 1
         /\ (n \div Base4) * Base4 + (n % Base4) = n
         /\ U64(n) \in Seq(Byte) /\ Len(U64(n)) = 8
         /\ \A i \in 1 .. 4 : /\ U64(n)[i] = U32(n \div Base4)[i]
                              /\ U64(n)[i + 4] = U32(n % Base4)[i]
<1>1. /\ n \div Base4 \in 0 .. Base4 - 1 /\ n % Base4 \in 0 .. Base4 - 1
      /\ (n \div Base4) * Base4 + (n % Base4) = n
  BY Bases, Halves DEF Base8
<1> DEFINE high == U32(n \div Base4)
           low  == U32(n % Base4)
<1>2. high \in Seq(Byte) /\ low \in Seq(Byte) /\ Len(high) = 4 /\ Len(low) = 4
  BY <1>1, Writes32
<1>3. U64(n) = high \o low
  BY DEF U64
<1> HIDE DEF high, low
<1>4. /\ high \o low \in Seq(Byte) /\ Len(high \o low) = 4 + 4
      /\ \A i \in 1 .. 4 : (high \o low)[i] = high[i]
      /\ \A i \in 1 .. 4 : (high \o low)[4 + i] = low[i]
  <2>1. Joins(4, 4)
    BY Joined
  <2> QED
    BY <1>2, <2>1, Zenon DEF Joins
<1>5. 4 + 4 = 8 /\ \A i \in 1 .. 4 : i + 4 = 4 + i
  OBVIOUS
<1> QED
  BY <1>1, <1>3, <1>4, <1>5, Zenon DEF high, low

LEMMA Reads64 ==
  ASSUME NEW n \in 0 .. Base8 - 1, NEW b, NEW at \in Nat,
         \A i \in 1 .. 8 : b[at + i - 1] = U64(n)[i]
  PROVE  ReadU64(b, at) = n
<1>1. \A i \in 1 .. 4 : b[at + i - 1] = U32(n \div Base4)[i]
  <2>1. \A i \in 1 .. 4 : i \in 1 .. 8
    OBVIOUS
  <2> QED
    BY <2>1, Writes64, Zenon
<1>2. \A i \in 1 .. 4 : b[(at + 4) + i - 1] = U32(n % Base4)[i]
  <2> SUFFICES ASSUME NEW i \in 1 .. 4
               PROVE  b[(at + 4) + i - 1] = U32(n % Base4)[i]
    OBVIOUS
  <2>1. i + 4 \in 1 .. 8 /\ at + (i + 4) - 1 = (at + 4) + i - 1
    OBVIOUS
  <2> QED
    BY <2>1, Writes64, Zenon
<1> DEFINE high == n \div Base4
           low  == n % Base4
<1>3. high \in 0 .. Base4 - 1 /\ low \in 0 .. Base4 - 1
  BY Writes64, Zenon
<1> HIDE DEF high, low
<1>4. ReadU32(b, at) = high
  <2>1. \A i \in 1 .. 4 : b[at + i - 1] = U32(high)[i]
    BY <1>1, Zenon DEF high
  <2> QED
    BY <1>3, <2>1, Reads32
<1>5. ReadU32(b, at + 4) = low
  <2>1. \A i \in 1 .. 4 : b[(at + 4) + i - 1] = U32(low)[i]
    BY <1>2, Zenon DEF low
  <2>2. at + 4 \in Nat
    OBVIOUS
  <2> QED
    BY <1>3, <2>1, <2>2, Reads32
<1> QED
  BY <1>4, <1>5, Writes64 DEF ReadU64, high, low

-----------------------------------------------------------------------------
(* The fields of a header are where decode_header looks for them.          *)
LEMMA HeaderFields ==
  ASSUME NEW p \in Packets, Len(p.payload) <= MaxPayload
  PROVE  /\ Header(p) \in Seq(Byte) /\ Len(Header(p)) = HeaderSize
         /\ \A i \in 1 .. 4 : Header(p)[i] = Magic[i]
         /\ Header(p)[5] = Version /\ Header(p)[6] = p.type
         /\ \A i \in 1 .. 2 : Header(p)[6 + i] = U16(p.flags)[i]
         /\ \A i \in 1 .. 4 : Header(p)[8 + i] = U32(Len(p.payload))[i]
         /\ \A i \in 1 .. 8 : Header(p)[12 + i] = U64(p.timestamp)[i]
         /\ \A i \in 1 .. 4 : Header(p)[20 + i] = U32(p.sequence)[i]
<1> DEFINE h1 == Magic \o <<Version, p.type>>
           h2 == h1 \o U16(p.flags)
           h3 == h2 \o U32(Len(p.payload))
           h4 == h3 \o U64(p.timestamp)
           h5 == h4 \o U32(p.sequence)
<1>1. /\ p.flags \in 0 .. Base2 - 1 /\ Len(p.payload) \in 0 .. Base4 - 1
      /\ p.timestamp \in 0 .. Base8 - 1 /\ p.sequence \in 0 .. Base4 - 1
  BY FormatAssumption, Bases DEF Packets
<1>2. /\ h1 \in Seq(Byte) /\ Len(h1) = 6
      /\ \A i \in 1 .. 4 : h1[i] = Magic[i]
      /\ h1[5] = Version /\ h1[6] = p.type
  BY FormatAssumption DEF Packets, Magic, Version, PacketTypes, Byte
<1>3. U16(p.flags) \in Seq(Byte) /\ Len(U16(p.flags)) = 2
  BY <1>1, Writes16
<1>4. U32(Len(p.payload)) \in Seq(Byte) /\ Len(U32(Len(p.payload))) = 4
  BY <1>1, Writes32
<1>5. U64(p.timestamp) \in Seq(Byte) /\ Len(U64(p.timestamp)) = 8
  BY <1>1, Writes64
<1>6. U32(p.sequence) \in Seq(Byte) /\ Len(U32(p.sequence)) = 4
  BY <1>1, Writes32
<1>7. Header(p) = h5
  BY DEF Header
<1> HIDE DEF h1
<1>8. /\ h2 \in Seq(Byte) /\ Len(h2) = 8
      /\ \A i \in 1 .. 6 : h2[i] = h1[i]
      /\ \A i \in 1 .. 2 : h2[6 + i] = U16(p.flags)[i]
  <2>1. Joins(6, 2) /\ 6 + 2 = 8
    BY Joined
  <2> QED
    BY <2>1, <1>2, <1>3, Zenon DEF Joins, h2
<1> HIDE DEF h2
<1>9. /\ h3 \in Seq(Byte) /\ Len(h3) = 12
      /\ \A i \in 1 .. 8 : h3[i] = h2[i]
      /\ \A i \in 1 .. 4 : h3[8 + i] = U32(Len(p.payload))[i]
  <2>1. Joins(8, 4) /\ 8 + 4 = 12
    BY Joined
  <2> QED
    BY <2>1, <1>8, <1>4, Zenon DEF Joins, h3
<1> HIDE DEF h3
<1>10. /\ h4 \in Seq(Byte) /\ Len(h4) = 20
       /\ \A i \in 1 .. 12 : h4[i] = h3[i]
       /\ \A i \in 1 .. 8 : h4[12 + i] = U64(p.timestamp)[i]
  <2>1. Joins(12, 8) /\ 12 + 8 = 20
    BY Joined
  <2> QED
    BY <2>1, <1>9, <1>5, Zenon DEF Joins, h4
<1> HIDE DEF h4
<1>11. /\ h5 \in Seq(Byte) /\ Len(h5) = 24
       /\ \A i \in 1 .. 20 : h5[i] = h4[i]
       /\ \A i \in 1 .. 4 : h5[20 + i] = U32(p.sequence)[i]
  <2> DEFINE m == 20
             n == 24
  <2>1. Joins(m, 4) /\ m + 4 = n
    BY Joined
  <2>2. Len(h4) = m
    BY <1>10
  <2> HIDE DEF m, n
  <2>3. /\ h5 \in Seq(Byte) /\ Len(h5) = n
        /\ \A i \in 1 .. m : h5[i] = h4[i]
        /\ \A i \in 1 .. 4 : h5[m + i] = U32(p.sequence)[i]
    BY <2>1, <2>2, <1>10, <1>6, Zenon DEF Joins, h5
  <2> QED
    BY <2>3, Zenon DEF m, n
<1> HIDE DEF h5
<1>12. \A i \in 1 .. 6 : h5[i] = h1[i]
  <2> SUFFICES ASSUME NEW i \in 1 .. 6 PROVE h5[i] = h1[i]
    OBVIOUS
  <2>1. i \in 1 .. 20 /\ i \in 1 .. 12 /\ i \in 1 .. 8
    OBVIOUS
  <2>2. h5[i] = h2[i]
    BY <2>1, <1>9, <1>10, <1>11, Zenon
  <2> QED
    BY <2>2, <2>1, <1>8, Zenon
<1>13. \A i \in 1 .. 2 : h5[6 + i] = U16(p.flags)[i]
  <2> SUFFICES ASSUME NEW i \in 1 .. 2 PROVE h5[6 + i] = U16(p.flags)[i]
    OBVIOUS
  <2>1. 6 + i \in 1 .. 20 /\ 6 + i \in 1 .. 12 /\ 6 + i \in 1 .. 8
    OBVIOUS
  <2>2. h5[6 + i] = h2[6 + i]
    BY <2>1, <1>9, <1>10, <1>11, Zenon
  <2> QED
    BY <2>2, <1>8, Zenon
<1>14. \A i \in 1 .. 4 : h5[8 + i] = U32(Len(p.payload))[i]
  <2> SUFFICES ASSUME NEW i \in 1 .. 4
               PROVE  h5[8 + i] = U32(Len(p.payload))[i]
    OBVIOUS
  <2>1. 8 + i \in 1 .. 20 /\ 8 + i \in 1 .. 12
    OBVIOUS
  <2> QED
    BY <2>1, <1>9, <1>10, <1>11, Zenon
<1>15. \A i \in 1 .. 8 : h5[12 + i] = U64(p.timestamp)[i]
  <2> SUFFICES ASSUME NEW i \in 1 .. 8
               PROVE  h5[12 + i] = U64(p.timestamp)[i]
    OBVIOUS
  <2>1. 12 + i \in 1 .. 20
    OBVIOUS
  <2> QED
    BY <2>1, <1>10, <1>11, Zenon
<1> QED
  <2>1. /\ \A i \in 1 .. 4 : i \in 1 .. 6
        /\ 5 \in 1 .. 6 /\ 6 \in 1 .. 6
    OBVIOUS
  <2> QED
    BY <2>1, <1>2, <1>7, <1>11, <1>12, <1>13, <1>14, <1>15, Zenon
       DEF HeaderSize

(* Every packet of the phone whose payload the PC allows is accepted and   *)
(* read as it was, and the receiver goes on exactly behind it, whatever the*)
(* stream holds there: no byte of one packet is ever taken for the header  *)
(* of the next.                                                            *)
THEOREM ReadsWhatWasWritten ==
  ASSUME NEW p \in Packets, Len(p.payload) <= MaxPayload,
         NEW rest \in Seq(Byte)
  PROVE  /\ Accepts(Encode(p) \o rest)
         /\ ReadPacket(Encode(p) \o rest) = p
         /\ Rest(Encode(p) \o rest) = rest
<1> DEFINE h == Header(p)
           e == Encode(p)
           b == e \o rest
           pl == p.payload
           k == Len(pl)
<1>1. /\ pl \in Seq(Byte) /\ k \in Nat /\ k <= MaxPayload
      /\ k \in 0 .. Base4 - 1
      /\ p.flags \in 0 .. Base2 - 1 /\ p.timestamp \in 0 .. Base8 - 1
      /\ p.sequence \in 0 .. Base4 - 1
  BY FormatAssumption, Bases DEF Packets
<1>2. h \in Seq(Byte) /\ Len(h) = 24
  BY HeaderFields DEF HeaderSize
<1>3. e = h \o pl
  BY DEF Encode
<1>4. /\ \A i \in 1 .. 4 : h[i] = Magic[i]
      /\ h[5] = Version /\ h[6] = p.type
      /\ \A i \in 1 .. 2 : h[6 + i] = U16(p.flags)[i]
      /\ \A i \in 1 .. 4 : h[8 + i] = U32(k)[i]
      /\ \A i \in 1 .. 8 : h[12 + i] = U64(p.timestamp)[i]
      /\ \A i \in 1 .. 4 : h[20 + i] = U32(p.sequence)[i]
  BY HeaderFields
<1> HIDE DEF h, e, pl
<1>5. Len(pl) = k
  OBVIOUS
<1> HIDE DEF k
<1>6. /\ e \in Seq(Byte) /\ Len(e) = 24 + k
      /\ \A i \in 1 .. 24 : e[i] = h[i]
      /\ \A i \in 1 .. k : e[24 + i] = pl[i]
  <2>1. Joins(24, k)
    BY <1>1, Joined
  <2> QED
    BY <2>1, <1>1, <1>2, <1>3, <1>5, Zenon DEF Joins
<1>7. /\ b \in Seq(Byte) /\ Len(b) = 24 + k + Len(rest)
      /\ \A i \in 1 .. 24 + k : b[i] = e[i]
      /\ \A i \in 1 .. Len(rest) : b[24 + k + i] = rest[i]
  <2>1. 24 + k \in Nat /\ Len(rest) \in Nat
    BY <1>1
  <2>2. Joins(24 + k, Len(rest))
    BY <2>1, Joined, Zenon
  <2> QED
    BY <2>2, <1>6, Zenon DEF Joins, b
<1> HIDE DEF b
<1>8. \A i \in 1 .. 24 : b[i] = h[i]
  <2> SUFFICES ASSUME NEW i \in 1 .. 24 PROVE b[i] = h[i]
    OBVIOUS
  <2>1. i \in 1 .. 24 + k
    BY <1>1
  <2> QED
    BY <2>1, <1>6, <1>7, Zenon
<1>9. \A i \in 1 .. k : b[24 + i] = pl[i]
  <2> SUFFICES ASSUME NEW i \in 1 .. k PROVE b[24 + i] = pl[i]
    OBVIOUS
  <2>1. 24 + i \in 1 .. 24 + k
    BY <1>1
  <2> QED
    BY <2>1, <1>6, <1>7, Zenon
<1>10. /\ \A i \in 1 .. 4 : b[i] = Magic[i]
       /\ b[5] = Version /\ b[6] = p.type
  <2>1. /\ \A i \in 1 .. 4 : i \in 1 .. 24
        /\ 5 \in 1 .. 24 /\ 6 \in 1 .. 24
    OBVIOUS
  <2> QED
    BY <2>1, <1>4, <1>8, Zenon
<1>11. ReadU16(b, 7) = p.flags
  <2>1. \A i \in 1 .. 2 : 7 + i - 1 = 6 + i /\ 6 + i \in 1 .. 24
    OBVIOUS
  <2>2. \A i \in 1 .. 2 : b[6 + i] = U16(p.flags)[i]
    BY <2>1, <1>4, <1>8, Zenon
  <2>3. \A i \in 1 .. 2 : b[7 + i - 1] = U16(p.flags)[i]
    BY <2>1, <2>2, Zenon
  <2> QED
    BY <1>1, <2>3, Reads16
<1>12. ReadU32(b, 9) = k
  <2>1. \A i \in 1 .. 4 : 9 + i - 1 = 8 + i /\ 8 + i \in 1 .. 24
    OBVIOUS
  <2>2. \A i \in 1 .. 4 : b[9 + i - 1] = U32(k)[i]
    <3> SUFFICES ASSUME NEW i \in 1 .. 4 PROVE b[9 + i - 1] = U32(k)[i]
      OBVIOUS
    <3>1. b[8 + i] = U32(k)[i]
      BY <2>1, <1>4, <1>8, Zenon
    <3> QED
      BY <2>1, <3>1, Zenon
  <2> QED
    BY <1>1, <2>2, Reads32
<1>13. ReadU64(b, 13) = p.timestamp
  <2>1. \A i \in 1 .. 8 : 13 + i - 1 = 12 + i /\ 12 + i \in 1 .. 24
    OBVIOUS
  <2>2. \A i \in 1 .. 8 : b[13 + i - 1] = U64(p.timestamp)[i]
    BY <2>1, <1>4, <1>8, Zenon
  <2> QED
    BY <1>1, <2>2, Reads64
<1>14. ReadU32(b, 21) = p.sequence
  <2>1. \A i \in 1 .. 4 : 21 + i - 1 = 20 + i /\ 20 + i \in 1 .. 24
    OBVIOUS
  <2>2. \A i \in 1 .. 4 : b[21 + i - 1] = U32(p.sequence)[i]
    BY <2>1, <1>4, <1>8, Zenon
  <2> QED
    BY <1>1, <2>2, Reads32
<1>15. Accepts(b)
  <2>1. p.type \in PacketTypes
    BY DEF Packets
  <2>2. Len(b) >= 24
    BY <1>1, <1>7
  <2> QED
    BY <2>1, <2>2, <1>1, <1>10, <1>12 DEF Accepts, HeaderSize
<1>16. PacketEnd(b) = 24 + k
  BY <1>12 DEF PacketEnd, HeaderSize
<1>17. SubSeq(b, HeaderSize + 1, PacketEnd(b)) = pl
  <2>1. /\ SubSeq(b, 25, 24 + k) \in Seq(Byte)
        /\ Len(SubSeq(b, 25, 24 + k)) = k
        /\ \A i \in 1 .. k : SubSeq(b, 25, 24 + k)[i] = b[24 + i]
    BY <1>1, <1>7
  <2> QED
    BY <2>1, <1>1, <1>5, <1>9, <1>16 DEF HeaderSize
<1>18. ReadPacket(b) = p
  <2>1. p = [type |-> p.type, flags |-> p.flags, timestamp |-> p.timestamp,
             sequence |-> p.sequence, payload |-> p.payload]
    BY DEF Packets
  <2> QED
    BY <2>1, <1>10, <1>11, <1>13, <1>14, <1>17 DEF ReadPacket, pl
<1>19. Rest(b) = rest
  <2>1. /\ SubSeq(b, 24 + k + 1, Len(b)) \in Seq(Byte)
        /\ Len(SubSeq(b, 24 + k + 1, Len(b))) = Len(rest)
        /\ \A i \in 1 .. Len(rest) :
              SubSeq(b, 24 + k + 1, Len(b))[i] = b[24 + k + i]
    <3> DEFINE m == 24 + k
    <3>1. m \in Nat /\ Len(rest) \in Nat /\ Len(b) = m + Len(rest)
      BY <1>1, <1>7
    <3> HIDE DEF m
    <3>2. m <= Len(b) /\ Len(b) - m = Len(rest)
      BY <3>1
    <3>3. /\ SubSeq(b, m + 1, Len(b)) \in Seq(Byte)
          /\ Len(SubSeq(b, m + 1, Len(b))) = Len(b) - m
          /\ \A i \in 1 .. Len(b) - m :
                SubSeq(b, m + 1, Len(b))[i] = b[m + i]
      BY <1>7, <3>1, <3>2, Cut, Zenon
    <3> QED
      BY <3>2, <3>3, Zenon DEF m
  <2>2. SubSeq(b, 24 + k + 1, Len(b)) = rest
    <3> DEFINE tail == SubSeq(b, 24 + k + 1, Len(b))
    <3>1. /\ tail \in Seq(Byte) /\ Len(tail) = Len(rest)
          /\ \A i \in 1 .. Len(rest) : tail[i] = rest[i]
      BY <2>1, <1>7, Zenon
    <3> HIDE DEF tail
    <3>2. tail = rest
      BY <3>1
    <3> QED
      BY <3>2, Zenon DEF tail
  <2> QED
    BY <2>2, <1>16, Zenon DEF Rest
<1> QED
  BY <1>15, <1>18, <1>19 DEF b, e

-----------------------------------------------------------------------------
(* The inductive invariant.                                                *)

(* The queue holds the newest packets without a hole, and begins with a    *)
(* keyframe or the successor of the packet taken last.                     *)
PacketsInv ==
    /\ arrived \in Seq(Kinds) /\ queue \in Seq(Nat) /\ recovering \in BOOLEAN
    /\ dropped \in Nat /\ got \in Nat /\ last \in Nat
    /\ last + Len(queue) <= Len(arrived)
    /\ \A i \in 1 .. Len(queue) : queue[i] = Len(arrived) - Len(queue) + i
    /\ recovering => queue = <<>>
    /\ \/ recovering
       \/ last + Len(queue) = Len(arrived)
       \/ queue # <<>> /\ Q!IsKey(queue[1])

(* Every packet put into the queue is a frame of the wire, of its kind.    *)
PathInv ==
    /\ received \in 0 .. Len(Wire)
    /\ Len(arrived) = IF received = 0 THEN 0 ELSE received - 1
    /\ \A p \in 1 .. Len(arrived) :
          FrameOf(p) \in 1 .. Len(frames) /\ arrived[p] = frames[FrameOf(p)]

CodecInv ==
    /\ keyFed \in Nat
    /\ synced => last # 0 /\ codec = FrameOf(last)
    /\ keyFed # 0 => last # 0 /\ keyFed <= FrameOf(last)

(* A keyframe as new as n: on the phone, on the wire, discarded before a   *)
(* recovery that goes on, or in the queue.                                 *)
OnPhone(n) == Among(jobs, Videos, n) \/ (n <= pending /\ IsKey(pending))
OnItsWay(n) == \E i \in received + 1 .. Len(Wire) : n <= Wire[i] /\ IsKey(Wire[i])
Skipped(n) == recovering /\ \E i \in 1 .. received : n <= Wire[i]
Held(n) == \E i \in 1 .. Len(queue) : Q!IsKey(queue[i]) /\ n <= FrameOf(queue[i])
KeysInv ==
    connectionReady =>
        \A n \in 1 .. Len(frames) : n \notin since /\ IsKey(n) =>
            \/ OnPhone(n) \/ OnItsWay(n) \/ Skipped(n) \/ Held(n)
            \/ n <= keyFed

PipeInv == ServerInv /\ PacketsInv /\ PathInv /\ CodecInv /\ KeysInv

-----------------------------------------------------------------------------
(* What a step of the phone does to the frames on their way.               *)

VideosKept == \A n : Among(jobs, Videos, n) => Among(jobs', Videos, n)
VideosBut(m) == \A n : Among(jobs, Videos, n) /\ n # m => Among(jobs', Videos, n)

Idles == /\ connectionReady' = connectionReady /\ pending' = pending
         /\ Wire' = Wire /\ frames' = frames /\ VideosKept
Encodes == /\ connectionReady' = connectionReady /\ pending' = pending
           /\ Wire' = Wire /\ \E kind \in Kinds : frames' = Append(frames, kind)
           /\ VideosKept /\ Among(jobs', Videos, Len(frames) + 1)
Drops == connectionReady' = FALSE /\ Wire' = Wire /\ frames' = frames
Greets == /\ ~connectionReady /\ connectionReady' = TRUE
          /\ Wire' = Append(Wire, Hello) /\ frames' = frames /\ VideosKept
Follows == /\ connectionReady' = connectionReady /\ pending \in 1 .. Len(frames)
           /\ Wire' = Append(Wire, pending) /\ frames' = frames /\ VideosKept
Holds(n) == /\ connectionReady' = connectionReady /\ Wire' = Wire
            /\ frames' = frames /\ pending < n /\ Hold(n) /\ VideosBut(n)
Goes(n) == /\ connectionReady' = connectionReady /\ pending' = pending
           /\ Wire' = Append(Wire, n) /\ frames' = frames /\ VideosBut(n)
PhoneMoves == \/ Idles \/ Encodes \/ Drops \/ Greets \/ Follows
              \/ \E n \in 1 .. Len(frames) : Holds(n) \/ Goes(n)

(* A call or an event only appends its job.                                *)
LEMMA CallIdles ==
  ASSUME ServerInv, NEW op \in Ops, NEW arg \in Nat, Async(Job(op, arg)),
         UNCHANGED <<stateVars, frames, wire>>
  PROVE  Idles
<1>1. jobs \in Seq(JobRecords)
  BY DEF ServerInv, JobsInv
<1>2. VideosKept
  BY <1>1, AppendAmong DEF VideosKept, Async
<1> QED
  BY <1>2 DEF Idles, stateVars, Wire

LEMMA OutputEncodes ==
  ASSUME ServerInv, NEW kind \in Kinds, Output(kind) PROVE Encodes
<1>1. /\ jobs \in Seq(JobRecords) /\ frames \in Seq(Kinds)
  BY DEF ServerInv, JobsInv, TypeOK
<1>2. /\ frames' = Append(frames, kind) /\ Len(frames') = Len(frames) + 1
      /\ Len(frames') \in Nat
      /\ jobs' = Append(jobs, Job("video", Len(frames')))
      /\ connectionReady' = connectionReady /\ pending' = pending /\ wire' = wire
  BY <1>1 DEF Output, Async, stateVars, frameworkVars
<1>3. "video" \in Ops /\ "video" \in Videos
  BY DEF Ops, Videos
<1>4. VideosKept /\ Among(jobs', Videos, Len(frames) + 1)
  BY <1>1, <1>2, <1>3, AppendAmong DEF VideosKept
<1> QED
  BY <1>2, <1>4 DEF Encodes, Wire

LEMMA FrameworkIdles == ServerInv /\ Framework => Idles
<1> SUFFICES ASSUME ServerInv, Framework PROVE Idles
  OBVIOUS
<1>1. ASSUME NEW op \in Ops, NEW arg \in Nat, Event(op, arg) PROVE Idles
  BY <1>1, CallIdles DEF Event, encoderVars
<1>2. ASSUME NEW c \in Conns, \/ Connects(c) \/ GetsReady(c) \/ Fails(c)
                              \/ Completes(c) \/ Receives(c)
      PROVE  \E op \in Ops : Event(op, c)
  <2>1. {"accept", "ready", "failed", "sent", "sendError", "half", "line",
         "badLine", "closed"} \subseteq Ops
    BY DEF Ops, ConnOps
  <2> QED
    BY <1>2, <2>1 DEF Connects, GetsReady, Fails, Completes, Receives
<1>3. CASE \E c \in Conns : \/ Connects(c) \/ GetsReady(c) \/ Fails(c)
                            \/ Completes(c) \/ Receives(c)
  BY <1>1, <1>2, <1>3, EventTypes
<1>4. CASE \E l \in 1 .. MaxListeners : ListenerFails(l)
  <2>1. "listenerFailed" \in Ops
    BY DEF Ops
  <2>2. PICK l \in 1 .. MaxListeners : Event("listenerFailed", l)
    BY <1>4 DEF ListenerFails
  <2> QED
    BY <1>1, <2>1, <2>2
<1> QED
  BY <1>3, <1>4 DEF Framework

LEMMA OneWire ==
  ASSUME ServerInv
  PROVE  /\ Conns = {1} /\ wire \in [Conns -> Seq(0 .. MaxFrames)]
         /\ connection \in {0, 1}
  BY JobTypes, PipelineAssumption DEF Conns

LEMMA SendAppends ==
  ASSUME ServerInv, connection # 0, NEW packet, Send(packet)
  PROVE  Wire' = Append(Wire, packet)
<1>1. connection = 1 /\ wire \in [Conns -> Seq(0 .. MaxFrames)] /\ 1 \in Conns
  BY OneWire
<1> QED
  BY <1>1 DEF Send, Wire

(* The oldest job leaves the queue, and no other.                          *)
LEMMA JobLeaves ==
  ASSUME NEW op, NEW arg, Oldest(op, arg)
  PROVE  /\ op = "video" => VideosBut(arg)
         /\ op # "video" => VideosKept
<1>1. jobs \in Seq(JobRecords) /\ jobs # <<>> /\ jobs' = Tail(jobs)
  BY DEF Oldest, ServerInv, JobsInv
<1>2. \A n : Among(jobs, Videos, n) =>
          Among(jobs', Videos, n) \/ (op \in Videos /\ arg = n)
  BY <1>1, TailAmong DEF Oldest
<1> QED
  BY <1>2 DEF VideosBut, VideosKept, Videos

LEMMA EnqueueMoves ==
  ASSUME NEW n, Oldest("video", n), Enqueue(n) PROVE PhoneMoves
<1>1. /\ ServerInv /\ frames' = frames /\ n \in 1 .. Len(frames)
      /\ Among(jobs, Videos, n) /\ VideosBut(n)
  BY OldestTaken, JobLeaves
<1>2. connectionReady' = connectionReady
  BY DEF Enqueue
<1>3. CASE ~connectionReady
  <2>1. wire' = wire /\ connectionReady \in BOOLEAN
    BY <1>1, <1>3, JobTypes DEF Enqueue
  <2> QED
    BY <1>1, <1>2, <1>3, <2>1 DEF Drops, PhoneMoves, Wire
<1>4. CASE connectionReady /\ sendInFlight
  <2>1. Hold(n) /\ wire' = wire
    BY <1>4 DEF Enqueue
  <2>2. pending < n
    BY <1>1 DEF ServerInv, OrderInv
  <2> QED
    BY <1>1, <1>2, <2>1, <2>2 DEF Holds, PhoneMoves, Wire
<1>5. CASE connectionReady /\ ~sendInFlight
  <2>1. Send(n) /\ pending' = pending /\ connection # 0
    BY <1>1, <1>5, JobTypes DEF Enqueue
  <2>2. Wire' = Append(Wire, n)
    BY <1>1, <2>1, SendAppends
  <2> QED
    BY <1>1, <1>2, <2>1, <2>2 DEF Goes, PhoneMoves
<1> QED
  BY <1>3, <1>4, <1>5

LEMMA ConnJobMoves ==
  ASSUME NEW op \in ConnOps, NEW c, Oldest(op, c), ConnJob(op, c)
  PROVE  PhoneMoves
<1>1. ServerInv /\ frames' = frames /\ VideosKept /\ c \in Conns
  BY OldestTaken, JobLeaves DEF ConnOps
<1>2. CASE Accept(c)
  BY <1>1, <1>2 DEF Accept, Forget, Drops, PhoneMoves, Wire
<1>3. CASE UNCHANGED <<listener, stateVars, keyRequested, listeners, frameworkVars>>
  BY <1>1, <1>3 DEF stateVars, frameworkVars, Idles, PhoneMoves, Wire
<1>4. CASE op = "ready" /\ Current(c) /\ Ready
  <2>1. ~connectionReady
    <3>1. Among(jobs, Readies, c) /\ connection = c
      BY <1>4, OldestTaken DEF Current
    <3>2. wire[c] = <<>>
      BY <1>1, <3>1 DEF ServerInv, LifeInv, Life
    <3> QED
      BY <1>1, <3>1, <3>2 DEF ServerInv, CurrentInv
  <2>2. Send(Hello) /\ connectionReady' = TRUE /\ connection # 0
    BY <1>1, <1>4, JobTypes DEF Ready, Current
  <2>3. Wire' = Append(Wire, Hello)
    BY <1>1, <2>2, SendAppends
  <2> QED
    BY <1>1, <2>1, <2>2, <2>3 DEF Greets, PhoneMoves
<1>5. CASE Disconnect
  BY <1>1, <1>5 DEF Disconnect, Forget, Drops, PhoneMoves, Wire
<1>6. CASE Current(c) /\ Sent /\ connectionReady' = connectionReady
  <2>1. CASE pending = 0
    BY <1>1, <1>6, <2>1 DEF Sent, Idles, PhoneMoves, Wire
  <2>2. CASE pending # 0
    <3>1. Send(pending) /\ connection # 0 /\ pending \in 1 .. Len(frames)
      BY <1>1, <1>6, <2>2, JobTypes, EventTypes DEF Sent, Current
    <3>2. Wire' = Append(Wire, pending)
      BY <1>1, <3>1, SendAppends
    <3> QED
      BY <1>1, <1>6, <3>1, <3>2 DEF Follows, PhoneMoves
  <2> QED
    BY <2>1, <2>2
<1>7. CASE UNCHANGED <<connectionReady, pending, wire>>
  BY <1>1, <1>7 DEF Idles, PhoneMoves, Wire
<1> QED
  BY <1>2, <1>3, <1>4, <1>5, <1>6, <1>7 DEF ConnJob

LEMMA RunJobMoves == ServerInv /\ RunJob => PhoneMoves
<1> SUFFICES ASSUME ServerInv, RunJob PROVE PhoneMoves
  OBVIOUS
<1> DEFINE op == Head(jobs).op
           arg == Head(jobs).arg
<1>1. Oldest(op, arg)
  BY DEF RunJob, Oldest
<1>2. /\ \/ op = "video" /\ Enqueue(arg)
         \/ op \in ConnOps /\ ConnJob(op, arg)
         \/ ListenerJob(op)
      /\ frames' = frames
  BY DEF RunJob
<1> HIDE DEF op, arg
<1>3. CASE op = "video" /\ Enqueue(arg)
  BY <1>1, <1>3, EnqueueMoves
<1>4. CASE op \in ConnOps /\ ConnJob(op, arg)
  BY <1>1, <1>4, ConnJobMoves
<1>5. CASE ListenerJob(op)
  <2>1. CASE StopLocked
    BY <1>2, <2>1 DEF StopLocked, Forget, Drops, PhoneMoves, Wire
  <2>2. CASE /\ op \in {"listenerReady", "listenerCancelled"}
             /\ UNCHANGED <<listener, stateVars, keyRequested, listeners, frameworkVars>>
    <3>1. VideosKept
      BY <1>1, <2>2, JobLeaves
    <3> QED
      BY <1>2, <2>2, <3>1 DEF stateVars, frameworkVars, Idles, PhoneMoves, Wire
  <2> QED
    BY <1>5, <2>1, <2>2 DEF ListenerJob
<1> QED
  BY <1>2, <1>3, <1>4, <1>5

LEMMA PhoneStep == ServerInv /\ [Next]_vars => PhoneMoves
<1> SUFFICES ASSUME ServerInv, [Next]_vars PROVE PhoneMoves
  OBVIOUS
<1>1. CASE Start \/ EncodeFails \/ UNCHANGED vars
  <2>1. /\ connectionReady' = connectionReady /\ pending' = pending
        /\ wire' = wire /\ frames' = frames /\ jobs' = jobs
    BY <1>1 DEF Start, EncodeFails, vars, stateVars, encoderVars, frameworkVars
  <2> QED
    BY <2>1 DEF Idles, PhoneMoves, VideosKept, Wire
<1>2. CASE Stop
  <2>1. "stop" \in Ops /\ 0 \in Nat
    BY DEF Ops
  <2> QED
    BY <1>2, <2>1, CallIdles DEF Stop, encoderVars, frameworkVars, PhoneMoves
<1>3. CASE \E kind \in Kinds : Output(kind)
  BY <1>3, OutputEncodes DEF PhoneMoves
<1>4. CASE Framework
  BY <1>4, FrameworkIdles DEF PhoneMoves
<1>5. CASE RunJob
  BY <1>5, RunJobMoves
<1> QED
  BY <1>1, <1>2, <1>3, <1>4, <1>5 DEF Next

-----------------------------------------------------------------------------
(* The wire, and the frames on it.                                         *)

(* What is on the wire is strictly newer, the later it is.                 *)
LEMMA WireFacts ==
  ASSUME ServerInv
  PROVE  /\ Wire \in Seq(0 .. MaxFrames) /\ Len(Wire) \in Nat
         /\ frames \in Seq(Kinds) /\ Len(frames) \in Nat /\ Len(frames) <= MaxFrames
         /\ \A i \in 1 .. Len(Wire) : /\ Wire[i] \in 0 .. Len(frames)
                                      /\ Wire[i] = Hello <=> i = 1
         /\ \A i, j \in 1 .. Len(Wire) : i < j => Wire[i] < Wire[j]
<1>1. 1 \in Conns /\ Wire \in Seq(0 .. MaxFrames)
  BY OneWire DEF Wire
<1>2. /\ \A i \in 1 .. Len(Wire) : /\ Wire[i] <= Len(frames)
                                   /\ Wire[i] = Hello <=> i = 1
      /\ \A i, j \in 1 .. Len(Wire) : i < j => Wire[i] < Wire[j]
  BY <1>1, Zenon DEF ServerInv, OrderInv, HelloFirst, WireInOrder, Wire
<1>3. \A i \in 1 .. Len(Wire) : Wire[i] \in Nat
  BY <1>1, ServerAssumption
<1>4. Len(Wire) \in Nat
  BY <1>1
<1> HIDE DEF Wire
<1> QED
  BY <1>1, <1>2, <1>3, <1>4, EventTypes

(* A sequence that is the old one or one longer.                           *)
LEMMA Grown ==
  ASSUME NEW T, NEW s \in Seq(T), NEW t, t = s \/ \E x \in T : t = Append(s, x)
  PROVE  /\ Len(s) \in Nat /\ Len(t) \in {Len(s), Len(s) + 1} /\ t \in Seq(T)
         /\ \A i \in 1 .. Len(s) : i \in 1 .. Len(t) /\ t[i] = s[i]
  BY AppendProperties, LenProperties

LEMMA PhoneGrows ==
  ASSUME ServerInv, PhoneMoves
  PROVE  /\ Len(Wire') \in Nat /\ Len(Wire') >= Len(Wire)
         /\ \A i \in 1 .. Len(Wire) : i \in 1 .. Len(Wire') /\ Wire'[i] = Wire[i]
         /\ Len(frames') \in {Len(frames), Len(frames) + 1}
         /\ \A n \in 1 .. Len(frames) : n \in 1 .. Len(frames') /\ frames'[n] = frames[n]
<1>1. /\ Wire \in Seq(0 .. MaxFrames) /\ Len(Wire) \in Nat
      /\ frames \in Seq(Kinds) /\ Len(frames) \in Nat /\ Len(frames) <= MaxFrames
  BY WireFacts
<1>2. MaxFrames \in Nat /\ Hello \in 0 .. MaxFrames
      /\ \A n \in 1 .. Len(frames) : n \in 0 .. MaxFrames
  BY <1>1, ServerAssumption DEF Hello
<1>3. Wire' = Wire \/ \E x \in 0 .. MaxFrames : Wire' = Append(Wire, x)
  BY <1>2 DEF PhoneMoves, Idles, Encodes, Drops, Greets, Follows, Holds, Goes
<1>4. frames' = frames \/ \E kind \in Kinds : frames' = Append(frames, kind)
  BY DEF PhoneMoves, Idles, Encodes, Drops, Greets, Follows, Holds, Goes
<1>5. /\ Len(Wire') \in {Len(Wire), Len(Wire) + 1}
      /\ \A i \in 1 .. Len(Wire) : i \in 1 .. Len(Wire') /\ Wire'[i] = Wire[i]
  BY <1>1, <1>3, Grown
<1>6. /\ Len(frames') \in {Len(frames), Len(frames) + 1}
      /\ \A n \in 1 .. Len(frames) : n \in 1 .. Len(frames') /\ frames'[n] = frames[n]
  BY <1>1, <1>4, Grown
<1> QED
  BY <1>1, <1>5, <1>6

(* Where the packets of the queue are on the wire.                         *)
LEMMA OnTheWire ==
  ASSUME ServerInv, PacketsInv, PathInv
  PROVE  /\ Len(arrived) \in Nat /\ Len(queue) \in Nat /\ received \in Nat
         /\ last # 0 => last \in 1 .. Len(arrived)
         /\ \A i \in 1 .. Len(queue) : queue[i] \in 1 .. Len(arrived) /\ last < queue[i]
         /\ \A p \in 1 .. Len(arrived) : /\ p + 1 \in 1 .. received
                                         /\ p + 1 \in 1 .. Len(Wire)
<1>1. /\ Len(arrived) \in Nat /\ Len(queue) \in Nat /\ Len(Wire) \in Nat
      /\ last \in Nat /\ last + Len(queue) <= Len(arrived)
      /\ \A i \in 1 .. Len(queue) : queue[i] = Len(arrived) - Len(queue) + i
  BY WireFacts DEF PacketsInv
<1>2. /\ received \in 0 .. Len(Wire)
      /\ Len(arrived) = IF received = 0 THEN 0 ELSE received - 1
  BY DEF PathInv
<1>3. \A p \in 1 .. Len(arrived) : p + 1 \in 1 .. received /\ p + 1 \in 1 .. Len(Wire)
  BY <1>1, <1>2
<1>4. \A i \in 1 .. Len(queue) : queue[i] \in 1 .. Len(arrived) /\ last < queue[i]
  BY <1>1
<1> QED
  BY <1>1, <1>2, <1>3, <1>4

-----------------------------------------------------------------------------
(* Steps of the phone.                                                     *)

LEMMA PhoneKeepsPath ==
  ASSUME PipeInv, PhoneMoves, UNCHANGED <<queueVars, decoderVars, received>>
  PROVE  PacketsInv' /\ PathInv' /\ CodecInv'
<1>1. ServerInv /\ PacketsInv /\ PathInv /\ CodecInv
  BY DEF PipeInv
<1>2. /\ arrived' = arrived /\ queue' = queue /\ recovering' = recovering
      /\ dropped' = dropped /\ last' = last /\ got' = got
      /\ codec' = codec /\ synced' = synced /\ keyFed' = keyFed
      /\ received' = received
  BY DEF queueVars, decoderVars
<1>3. /\ Len(Wire) \in Nat /\ Len(Wire') \in Nat /\ Len(Wire') >= Len(Wire)
      /\ \A i \in 1 .. Len(Wire) : Wire'[i] = Wire[i]
      /\ \A n \in 1 .. Len(frames) : n \in 1 .. Len(frames') /\ frames'[n] = frames[n]
  BY <1>1, PhoneGrows, WireFacts
<1>4. PacketsInv'
  BY <1>1, <1>2 DEF PacketsInv, Q!IsKey
<1>5. \A p \in 1 .. Len(arrived) : FrameOf(p)' = FrameOf(p)
  BY <1>1, <1>3, OnTheWire DEF FrameOf
<1>6. PathInv'
  <2>1. received \in 0 .. Len(Wire')
    BY <1>1, <1>3 DEF PathInv
  <2>2. \A p \in 1 .. Len(arrived) :
           FrameOf(p)' \in 1 .. Len(frames') /\ arrived[p] = frames'[FrameOf(p)']
    BY <1>1, <1>3, <1>5 DEF PathInv
  <2> QED
    BY <1>1, <1>2, <2>1, <2>2 DEF PathInv
<1>7. CodecInv'
  <2>1. last # 0 => FrameOf(last)' = FrameOf(last)
    BY <1>1, <1>2, <1>5, OnTheWire
  <2> QED
    BY <1>1, <1>2, <2>1 DEF CodecInv
<1> QED
  BY <1>4, <1>6, <1>7

(* A keyframe leaves the phone only for the wire, or to a newer one.       *)
LEMMA PhoneCarries ==
  ASSUME PipeInv, PhoneMoves, UNCHANGED received, connectionReady, connectionReady',
         NEW n \in 1 .. Len(frames), IsKey(n), OnPhone(n)
  PROVE  OnPhone(n)' \/ OnItsWay(n)'
<1>1. ServerInv /\ PathInv /\ received' = received
  BY DEF PipeInv
<1>2. /\ Len(Wire) \in Nat /\ Len(Wire') \in Nat /\ received \in 0 .. Len(Wire)
      /\ frames \in Seq(Kinds) /\ Len(frames) \in Nat
      /\ \A m \in 1 .. Len(frames) : m \in 1 .. Len(frames') /\ frames'[m] = frames[m]
  BY <1>1, WireFacts, PhoneGrows DEF PathInv
<1>3. \A m \in 1 .. Len(frames) : IsKey(m) => m # 0 /\ frames'[m] = "key"
  BY <1>2 DEF IsKey
<1>4. pending \in 0 .. Len(frames)
  BY <1>1, JobTypes
<1>5. ASSUME NEW m \in 1 .. Len(frames), Wire' = Append(Wire, m), n <= m, IsKey(m)
      PROVE  OnItsWay(n)'
  <2>1. Wire \in Seq(0 .. MaxFrames) /\ m \in 0 .. MaxFrames
    BY <1>1, <1>2, WireFacts, ServerAssumption
  <2>2. Len(Wire') = Len(Wire) + 1 /\ Wire'[Len(Wire) + 1] = m
    BY <1>5, <2>1, AppendProperties
  <2>3. Len(Wire) + 1 \in received + 1 .. Len(Wire')
    BY <1>2, <2>2
  <2>4. \E i \in received' + 1 .. Len(Wire') :
           n <= Wire'[i] /\ Wire'[i] # 0 /\ frames'[Wire'[i]] = "key"
    BY <1>1, <1>3, <1>5, <2>2, <2>3
  <2> QED
    BY <2>4 DEF OnItsWay, IsKey
<1>6. CASE n <= pending /\ IsKey(pending)
  <2>1. /\ pending \in 1 .. Len(frames) /\ pending # 0
        /\ frames'[pending] = "key"
    BY <1>2, <1>3, <1>4, <1>6 DEF IsKey
  <2>2. CASE pending' = pending
    <3>1. n <= pending' /\ pending' # 0 /\ frames'[pending'] = "key"
      BY <1>6, <2>1, <2>2
    <3> QED
      BY <3>1 DEF OnPhone, IsKey
  <2>3. CASE Follows
    BY <1>5, <1>6, <2>1, <2>3 DEF Follows
  <2>4. ASSUME NEW m \in 1 .. Len(frames), Holds(m) PROVE OnPhone(n)'
    <3>1. pending < m /\ pending' = IF IsKey(m) \/ ~IsKey(pending) THEN m ELSE pending
      BY <2>4 DEF Holds, Hold
    <3>2. n <= pending' /\ pending' \in 1 .. Len(frames) /\ IsKey(pending')
      BY <1>2, <1>6, <2>1, <3>1
    <3>3. pending' # 0 /\ frames'[pending'] = "key"
      BY <1>3, <3>2
    <3> QED
      BY <3>2, <3>3 DEF OnPhone, IsKey
  <2> QED
    BY <2>2, <2>3, <2>4 DEF PhoneMoves, Idles, Encodes, Drops, Greets, Goes
<1>7. CASE Among(jobs, Videos, n)
  <2>1. CASE Among(jobs', Videos, n)
    BY <2>1 DEF OnPhone
  <2>2. CASE Holds(n)
    <3>1. pending' = n
      BY <2>2 DEF Holds, Hold
    <3>2. n <= pending' /\ pending' # 0 /\ frames'[pending'] = "key"
      BY <1>2, <1>3, <3>1
    <3> QED
      BY <3>2 DEF OnPhone, IsKey
  <2>3. CASE Goes(n)
    BY <1>2, <1>5, <2>3 DEF Goes
  <2> QED
    BY <1>7, <2>1, <2>2, <2>3
       DEF PhoneMoves, Idles, Encodes, Drops, Greets, Follows, Holds, Goes,
           VideosKept, VideosBut
<1> QED
  BY <1>6, <1>7 DEF OnPhone

(* What has left the phone stays where it is.                              *)
LEMMA PhoneLeaves ==
  ASSUME PipeInv, PhoneMoves, UNCHANGED <<queueVars, decoderVars, received>>,
         NEW n \in 1 .. Len(frames),
         OnItsWay(n) \/ Skipped(n) \/ Held(n) \/ n <= keyFed
  PROVE  OnItsWay(n)' \/ Skipped(n)' \/ Held(n)' \/ n <= keyFed'
<1>1. ServerInv /\ PacketsInv /\ PathInv
  BY DEF PipeInv
<1>2. /\ arrived' = arrived /\ queue' = queue /\ recovering' = recovering
      /\ received' = received /\ keyFed' = keyFed
  BY DEF queueVars, decoderVars
<1>3. /\ Len(Wire) \in Nat /\ Len(Wire') \in Nat /\ Len(Wire') >= Len(Wire)
      /\ received \in 0 .. Len(Wire)
      /\ \A i \in 1 .. Len(Wire) : Wire'[i] = Wire[i]
      /\ \A m \in 1 .. Len(frames) : m \in 1 .. Len(frames') /\ frames'[m] = frames[m]
  BY <1>1, PhoneGrows, WireFacts DEF PathInv
<1>4. CASE OnItsWay(n)
  <2>1. PICK i \in received + 1 .. Len(Wire) : n <= Wire[i] /\ IsKey(Wire[i])
    BY <1>4 DEF OnItsWay
  <2>2. /\ i \in 1 .. Len(Wire) /\ i \in received' + 1 .. Len(Wire')
        /\ Wire'[i] = Wire[i]
    BY <1>2, <1>3, <2>1
  <2>3. Wire[i] \in 1 .. Len(frames)
    BY <1>1, <2>1, <2>2, WireFacts DEF IsKey
  <2>4. n <= Wire'[i] /\ Wire'[i] # 0 /\ frames'[Wire'[i]] = "key"
    BY <1>3, <2>1, <2>2, <2>3 DEF IsKey
  <2>5. OnItsWay(n)'
    BY <2>2, <2>4 DEF OnItsWay, IsKey
  <2> QED
    BY <2>5
<1>5. CASE Skipped(n)
  <2>1. \E i \in 1 .. received : n <= Wire'[i]
    <3>1. \A i \in 1 .. received : i \in 1 .. Len(Wire)
      BY <1>3
    <3> QED
      BY <1>3, <1>5, <3>1 DEF Skipped
  <2> QED
    BY <1>2, <1>5, <2>1 DEF Skipped
<1>6. CASE Held(n)
  <2>1. PICK i \in 1 .. Len(queue) : Q!IsKey(queue[i]) /\ n <= FrameOf(queue[i])
    BY <1>6 DEF Held
  <2>2. FrameOf(queue[i])' = FrameOf(queue[i])
    BY <1>1, <1>2, <1>3, OnTheWire DEF FrameOf
  <2>3. Q!IsKey(queue[i])' /\ n <= FrameOf(queue[i])'
    BY <1>2, <2>1, <2>2 DEF Q!IsKey
  <2> QED
    BY <1>2, <2>3 DEF Held
<1> QED
  BY <1>2, <1>4, <1>5, <1>6

LEMMA PhoneKeepsKeys ==
  ASSUME PipeInv, Phone PROVE KeysInv'
<1>1. PhoneMoves /\ UNCHANGED <<queueVars, decoderVars, received>> /\ received' = received
  BY PhoneStep DEF PipeInv, Phone
<1>2. /\ ServerInv /\ Len(frames) \in Nat
      /\ Len(frames') \in {Len(frames), Len(frames) + 1}
      /\ \A n \in 1 .. Len(frames) : frames'[n] = frames[n]
  BY <1>1, PhoneGrows, WireFacts DEF PipeInv
<1> SUFFICES ASSUME connectionReady', NEW n \in 1 .. Len(frames'),
                    n \notin since', IsKey(n)'
             PROVE  \/ OnPhone(n)' \/ OnItsWay(n)' \/ Skipped(n)' \/ Held(n)'
                    \/ n <= keyFed'
  BY DEF KeysInv
<1>3. CASE ~connectionReady
  <2>1. since' = {m \in 1 .. Len(frames) : ~Waits(m)}
    BY <1>3 DEF Phone
  <2>2. Greets
    BY <1>1, <1>3 DEF PhoneMoves, Idles, Encodes, Drops, Follows, Holds, Goes
  <2>3. n \in 1 .. Len(frames) /\ Waits(n)
    BY <2>1, <2>2 DEF Greets
  <2>4. Among(jobs', Videos, n)
    BY <2>2, <2>3 DEF Waits, Among, Videos, Greets, VideosKept
  <2> QED
    BY <2>4 DEF OnPhone
<1>4. CASE connectionReady /\ n \in 1 .. Len(frames)
  <2>1. since' = since /\ IsKey(n)
    BY <1>2, <1>4 DEF Phone, IsKey
  <2>2. \/ OnPhone(n) \/ OnItsWay(n) \/ Skipped(n) \/ Held(n)
        \/ n <= keyFed
    BY <1>4, <2>1 DEF PipeInv, KeysInv
  <2> QED
    BY <1>1, <1>4, <2>1, <2>2, PhoneCarries, PhoneLeaves
<1>5. CASE n \notin 1 .. Len(frames)
  <2>1. n = Len(frames) + 1 /\ frames' # frames
    BY <1>2, <1>5
  <2>2. Encodes
    BY <1>1, <2>1 DEF PhoneMoves, Idles, Drops, Greets, Follows, Holds, Goes
  <2> QED
    BY <2>1, <2>2 DEF Encodes, OnPhone
<1> QED
  BY <1>3, <1>4, <1>5

-----------------------------------------------------------------------------
(* The ingest task.                                                        *)

(* From its bytes the receiver knows of a packet what the phone meant.     *)
LEMMA ReadAs ==
  ASSUME NEW n \in 0 .. MaxFrames, NEW kind \in Kinds
  PROVE  /\ AsRead[n][kind].type # VIDEO <=> n = Hello
         /\ AsRead[n][kind].flags % 2 = KeyframeFlag <=> kind = "key"
<1> DEFINE p == Written(n, kind)
<1>1. n \in Nat
  BY ServerAssumption
<1>2. /\ n % Base \in Byte /\ n % Base4 \in 0 .. Base4 - 1
      /\ n % Base8 \in 0 .. Base8 - 1
  BY <1>1, Bases DEF Byte
<1>3. 0 \in 0 .. Base2 - 1 /\ KeyframeFlag \in 0 .. Base2 - 1
  <2>1. Base2 >= Base
    BY FormatAssumption, SMTT(30) DEF Base2
  <2> QED
    BY <2>1, Bases, FormatAssumption DEF KeyframeFlag
<1>4. <<n % Base>> \in Seq(Byte) /\ Len(<<n % Base>>) = 1
  BY <1>2
<1>5. p \in Packets /\ Len(p.payload) <= MaxPayload
  <2>1. p.type \in PacketTypes
    BY DEF Written, HELLO, VIDEO, PacketTypes
  <2>2. p.flags \in 0 .. Base2 - 1
    BY <1>3 DEF Written
  <2>3. /\ p.timestamp = n % Base8 /\ p.sequence = n % Base4
        /\ p.payload = <<n % Base>>
    BY DEF Written
  <2>4. p = [type |-> p.type, flags |-> p.flags, timestamp |-> p.timestamp,
             sequence |-> p.sequence, payload |-> p.payload]
    BY DEF Written
  <2>5. 1 <= MaxPayload
    BY PipelineAssumption, FormatAssumption
  <2> HIDE DEF p
  <2> QED
    BY <1>2, <1>4, <2>1, <2>2, <2>3, <2>4, <2>5 DEF Packets
<1>6. ReadPacket(Encode(p) \o <<>>) = p /\ Encode(p) \o <<>> \in Seq(Byte)
  <2>1. <<>> \in Seq(Byte)
    BY EmptySeq
  <2>2. ReadPacket(Encode(p) \o <<>>) = p
    BY <1>5, <2>1, ReadsWhatWasWritten
  <2>3. Encode(p) \in Seq(Byte)
    BY <1>5, HeaderFields DEF Encode, Packets
  <2> QED
    BY <2>1, <2>2, <2>3
<1>7. Encode(p) \o <<>> = Encode(p)
  <2>1. Encode(p) \in Seq(Byte)
    BY <1>5, HeaderFields DEF Encode, Packets
  <2> QED
    BY <2>1, ConcatEmptySeq
<1>8. AsRead[n][kind] = p
  BY <1>6, <1>7 DEF AsRead
<1> QED
  BY <1>8 DEF Written, HELLO, VIDEO, KeyframeFlag, Kinds

(* The HELLO is passed over, a frame is put into the queue as what it is.  *)
LEMMA IngestEffect ==
  ASSUME PipeInv, Ingest
  PROVE  /\ received' = received + 1 /\ received \in Nat
         /\ received + 1 \in 1 .. Len(Wire)
         /\ UNCHANGED <<serverVars, decoderVars, since>>
         /\ \/ received = 0 /\ UNCHANGED queueVars
            \/ /\ received # 0 /\ Wire[received + 1] \in 1 .. Len(frames)
               /\ frames[Wire[received + 1]] \in Kinds
               /\ Q!Put(frames[Wire[received + 1]])
<1> DEFINE n == Wire[received + 1]
           kind == IF n = Hello THEN "delta" ELSE frames[n]
           packet == AsRead[n][kind]
<1>1. /\ received' = received + 1 /\ received < Len(Wire)
      /\ UNCHANGED <<serverVars, decoderVars, since>>
      /\ IF packet.type # VIDEO THEN UNCHANGED queueVars
         ELSE Q!Put(IF packet.flags % 2 = KeyframeFlag THEN "key" ELSE "delta")
  BY DEF Ingest
<1>2. /\ received \in Nat /\ received + 1 \in 1 .. Len(Wire)
  BY <1>1, WireFacts DEF PipeInv, PathInv
<1>3. /\ n \in 0 .. Len(frames)
      /\ n = Hello <=> received = 0
      /\ frames \in Seq(Kinds) /\ Len(frames) \in Nat /\ Len(frames) <= MaxFrames
  BY <1>2, WireFacts DEF PipeInv
<1> HIDE DEF n, packet
<1>4. kind \in Kinds /\ n \in 0 .. MaxFrames
  <2>1. n \in 0 .. MaxFrames /\ (n # 0 => n \in 1 .. Len(frames))
    BY <1>3, ServerAssumption
  <2>2. n # 0 => frames[n] \in Kinds
    BY <1>3, <2>1
  <2>3. "delta" \in Kinds
    BY DEF Kinds
  <2> QED
    BY <2>1, <2>2, <2>3 DEF Hello
<1> HIDE DEF kind
<1>5. /\ packet.type # VIDEO <=> n = Hello
      /\ packet.flags % 2 = KeyframeFlag <=> kind = "key"
  BY <1>4, ReadAs DEF packet
<1>6. CASE n = Hello
  BY <1>1, <1>2, <1>3, <1>5, <1>6
<1>7. CASE n # Hello
  <2>1. kind = frames[n] /\ n \in 1 .. Len(frames) /\ received # 0
    <3>1. n # 0 /\ kind = frames[n]
      BY <1>7 DEF kind, Hello
    <3> QED
      BY <1>3, <1>7, <3>1
  <2>2. Q!Put(kind)
    <3>1. kind = IF packet.flags % 2 = KeyframeFlag THEN "key" ELSE "delta"
      BY <1>4, <1>5 DEF Kinds
    <3> QED
      BY <1>1, <1>5, <1>7, <3>1
  <2> QED
    BY <1>1, <1>2, <1>4, <2>1, <2>2 DEF n
<1> QED
  BY <1>6, <1>7

-----------------------------------------------------------------------------
(* The queue.                                                              *)

LEMMA ArrivalEffect ==
  ASSUME PacketsInv, NEW kind \in Kinds, Q!Offer(kind)
  PROVE  /\ arrived' \in Seq(Kinds) /\ Len(arrived) \in Nat
         /\ Len(arrived') = Len(arrived) + 1
         /\ \A p \in 1 .. Len(arrived) : arrived'[p] = arrived[p]
         /\ arrived'[Len(arrived')] = kind
         /\ last' = last /\ got' = got
  BY AppendProperties, LenProperties DEF Q!Offer, PacketsInv

(* A put lets the new packet in, or the rest of a group of pictures go.    *)
Drained(kind) == queue' = <<>> /\ kind = "delta" /\ recovering' = TRUE
Restarted(kind) == queue' = <<Len(arrived')>> /\ kind = "key" /\ recovering' = FALSE
Extended == /\ queue' = Append(queue, Len(arrived')) /\ recovering = FALSE
            /\ recovering' = FALSE

LEMMA PutCases ==
  ASSUME PacketsInv, NEW kind \in Kinds, Q!Put(kind)
  PROVE  /\ Drained(kind) \/ Restarted(kind) \/ Extended
         /\ dropped' \in Nat /\ Q!Offer(kind)
<1>1. /\ queue \in Seq(Nat) /\ Len(queue) \in Nat
      /\ dropped \in Nat
      /\ recovering => queue = <<>>
  BY LenProperties DEF PacketsInv
<1>2. kind # "key" => kind = "delta"
  BY DEF Kinds
<1>3. recovering \in BOOLEAN
  BY DEF PacketsInv
<1>4. CASE Q!PutRecovering(kind)
  <2>1. recovering /\ Q!Offer(kind)
    BY <1>4 DEF Q!PutRecovering
  <2>2. queue = <<>> /\ Append(<<>>, Len(arrived')) = <<Len(arrived')>>
    <3>1. queue = <<>>
      BY <1>1, <2>1, Zenon
    <3>2. Append(<<>>, Len(arrived')) = <<Len(arrived')>>
      OBVIOUS
    <3> QED
      BY <3>1, <3>2
  <2>3. CASE kind = "key"
    <3>1. recovering' = FALSE /\ queue' = Append(queue, Len(arrived'))
          /\ dropped' = dropped
      BY <1>4, <2>3, Zenon DEF Q!PutRecovering
    <3>2. Restarted(kind)
      BY <2>2, <2>3, <3>1, Zenon DEF Restarted
    <3> QED
      BY <1>1, <2>1, <3>1, <3>2, Zenon
  <2>4. CASE kind # "key"
    <3>1. recovering' = recovering /\ queue' = queue /\ dropped' = dropped + 1
      BY <1>4, <2>4, Zenon DEF Q!PutRecovering
    <3>2. recovering' = TRUE
      BY <1>3, <2>1, <3>1, Zenon
    <3>3. Drained(kind)
      BY <1>2, <2>2, <2>4, <3>1, <3>2, Zenon DEF Drained
    <3>4. dropped' \in Nat
      <4>1. dropped \in Nat /\ dropped' = dropped + 1
        BY <1>1, <3>1, Zenon
      <4> QED
        BY <4>1
    <3> QED
      BY <2>1, <3>3, <3>4, Zenon
  <2> QED
    BY <2>3, <2>4
<1>5. CASE Q!PutOverflow(kind)
  <2>1. /\ Q!Offer(kind) /\ dropped' = dropped + Len(queue) + 1
    BY <1>5, Zenon DEF Q!PutOverflow
  <2>4. dropped' \in Nat
    <3>1. dropped \in Nat /\ Len(queue) \in Nat /\ dropped' = dropped + Len(queue) + 1
      BY <1>1, <2>1, Zenon
    <3> QED
      BY <3>1
  <2>2. CASE kind = "key"
    <3>1. queue' = <<Len(arrived')>> /\ recovering' = FALSE
      BY <1>5, <2>2, Zenon DEF Q!PutOverflow
    <3>2. Restarted(kind)
      BY <2>2, <3>1, Zenon DEF Restarted
    <3> QED
      BY <2>1, <2>4, <3>2, Zenon
  <2>3. CASE kind # "key"
    <3>1. queue' = <<>> /\ recovering' = TRUE
      BY <1>5, <2>3, Zenon DEF Q!PutOverflow
    <3>2. Drained(kind)
      BY <1>2, <2>3, <3>1, Zenon DEF Drained
    <3> QED
      BY <2>1, <2>4, <3>2, Zenon
  <2> QED
    BY <2>2, <2>3
<1>6. CASE Q!PutNormal(kind)
  <2>1. /\ Q!Offer(kind) /\ ~recovering /\ dropped' = dropped
        /\ recovering' = recovering /\ queue' = Append(queue, Len(arrived'))
    BY <1>6 DEF Q!PutNormal
  <2>2. Extended
    BY <1>3, <2>1, Zenon DEF Extended
  <2> QED
    BY <1>1, <2>1, <2>2, Zenon
<1> QED
  BY <1>4, <1>5, <1>6 DEF Q!Put

(* A put keeps the order and lets only the new packet in.                  *)
LEMMA PutStep ==
  ASSUME PacketsInv, NEW kind \in Kinds, Q!Put(kind)
  PROVE  PacketsInv'
<1>1. /\ Drained(kind) \/ Restarted(kind) \/ Extended
      /\ dropped' \in Nat /\ Q!Offer(kind)
  BY PutCases
<1>2. /\ arrived' \in Seq(Kinds) /\ Len(arrived) \in Nat
      /\ Len(arrived') = Len(arrived) + 1
      /\ \A p \in 1 .. Len(arrived) : arrived'[p] = arrived[p]
      /\ arrived'[Len(arrived')] = kind
      /\ last' = last /\ got' = got
  BY <1>1, ArrivalEffect
<1>3. /\ queue \in Seq(Nat) /\ Len(queue) \in Nat /\ got \in Nat /\ last \in Nat
      /\ last + Len(queue) <= Len(arrived)
      /\ \A i \in 1 .. Len(queue) : queue[i] = Len(arrived) - Len(queue) + i
  BY LenProperties DEF PacketsInv
<1>4. CASE Drained(kind)
  <2>1. queue' = <<>> /\ recovering' = TRUE
    BY <1>4 DEF Drained
  <2>2. queue' \in Seq(Nat) /\ Len(queue') = 0
    BY <2>1, EmptySeq
  <2>3. last' + Len(queue') <= Len(arrived')
    BY <1>2, <1>3, <2>2
  <2>4. \A i \in 1 .. Len(queue') : queue'[i] = Len(arrived') - Len(queue') + i
    BY <2>2
  <2> QED
    BY <1>1, <1>2, <1>3, <2>1, <2>2, <2>3, <2>4 DEF PacketsInv
<1>5. CASE Restarted(kind)
  <2>1. queue' = <<Len(arrived')>> /\ kind = "key" /\ recovering' = FALSE
    BY <1>5 DEF Restarted
  <2>2. /\ queue' \in Seq(Nat) /\ Len(queue') = 1 /\ queue'[1] = Len(arrived')
        /\ queue' # <<>>
    BY <1>2, <2>1
  <2>3. last' + Len(queue') <= Len(arrived')
    BY <1>2, <1>3, <2>2
  <2>4. \A i \in 1 .. Len(queue') : queue'[i] = Len(arrived') - Len(queue') + i
    BY <1>2, <2>2
  <2>5. Q!IsKey(queue[1])'
    BY <1>2, <2>1, <2>2 DEF Q!IsKey
  <2> QED
    BY <1>1, <1>2, <1>3, <2>1, <2>2, <2>3, <2>4, <2>5 DEF PacketsInv
<1>6. CASE Extended
  <2>1. /\ queue' \in Seq(Nat) /\ Len(queue') = Len(queue) + 1
        /\ Len(queue') \in Nat /\ Len(arrived') \in Nat
        /\ \A i \in 1 .. Len(queue) : queue'[i] = queue[i]
        /\ queue'[Len(queue')] = Len(arrived') /\ recovering' = FALSE
    BY <1>2, <1>3, <1>6, AppendProperties DEF Extended
  <2>2. /\ Len(queue) \in Nat /\ Len(queue') = Len(queue) + 1 /\ last \in Nat
        /\ Len(arrived) \in Nat /\ Len(arrived') = Len(arrived) + 1 /\ last' = last
        /\ last + Len(queue) <= Len(arrived)
    BY <1>2, <1>3, <2>1
  <2>3. \A i \in 1 .. Len(queue') : queue'[i] = Len(arrived') - Len(queue') + i
    <3> SUFFICES ASSUME NEW i \in 1 .. Len(queue')
                 PROVE  queue'[i] = Len(arrived') - Len(queue') + i
      OBVIOUS
    <3>1. CASE i \in 1 .. Len(queue)
      <4>1. queue'[i] = Len(arrived) - Len(queue) + i
        BY <1>3, <2>1, <3>1
      <4> QED
        BY <2>2, <3>1, <4>1
    <3>2. CASE i = Len(queue')
      BY <2>2, <2>1, <3>2
    <3> QED
      BY <2>2, <3>1, <3>2
  <2>4. queue # <<>> => /\ queue'[1] = queue[1] /\ queue[1] \in 1 .. Len(arrived)
                        /\ queue' # <<>>
    BY <1>2, <1>3, <2>1
  <2>5. \/ last' + Len(queue') = Len(arrived')
        \/ queue' # <<>> /\ arrived'[queue'[1]] = "key"
    <3>1. CASE last + Len(queue) = Len(arrived)
      BY <2>2, <3>1
    <3>2. CASE queue # <<>> /\ Q!IsKey(queue[1])
      BY <1>2, <2>4, <3>2 DEF Q!IsKey
    <3> QED
      BY <1>6, <3>1, <3>2 DEF PacketsInv, Extended
  <2>6. last' + Len(queue') <= Len(arrived')
    BY <2>2
  <2> QED
    BY <1>1, <1>2, <1>3, <2>1, <2>3, <2>5, <2>6 DEF PacketsInv, Q!IsKey
<1> QED
  BY <1>1, <1>4, <1>5, <1>6

(* What get returns is newer than what it returned before, and a keyframe  *)
(* or the immediate successor.                                             *)
LEMMA GetStep ==
  ASSUME PacketsInv, Q!Get
  PROVE  /\ PacketsInv' /\ arrived' = arrived /\ recovering' = recovering
         /\ last' = queue[1] /\ last' \in 1 .. Len(arrived) /\ last < last'
         /\ Q!IsKey(last') \/ last' = last + 1
         /\ Len(queue) \in Nat \ {0} /\ Len(queue') = Len(queue) - 1
         /\ \A i \in 1 .. Len(queue') : i + 1 \in 1 .. Len(queue) /\ queue'[i] = queue[i + 1]
<1>1. /\ queue # <<>> /\ queue \in Seq(Nat)
      /\ arrived \in Seq(Kinds) /\ Len(arrived) \in Nat
      /\ recovering' = recovering /\ dropped' = dropped /\ arrived' = arrived
      /\ recovering \in BOOLEAN /\ dropped \in Nat /\ last \in Nat
      /\ got' \in Nat /\ last' = Head(queue) /\ queue' = Tail(queue)
      /\ last + Len(queue) <= Len(arrived)
      /\ \A i \in 1 .. Len(queue) : queue[i] = Len(arrived) - Len(queue) + i
      /\ ~recovering
  BY LenProperties DEF PacketsInv, Q!Get
<1>2. /\ Len(queue) \in Nat \ {0} /\ queue' \in Seq(Nat)
      /\ Len(queue') = Len(queue) - 1 /\ last' = queue[1]
      /\ \A i \in 1 .. Len(queue') : i + 1 \in 1 .. Len(queue) /\ queue'[i] = queue[i + 1]
  BY <1>1, HeadTailProperties, LenProperties
<1>3. last' = Len(arrived) - Len(queue) + 1
  BY <1>1, <1>2
<1>4. last' \in 1 .. Len(arrived) /\ last < last' /\ last' + Len(queue') = Len(arrived)
  BY <1>1, <1>2, <1>3
<1>5. \A i \in 1 .. Len(queue') : queue'[i] = Len(arrived) - Len(queue') + i
  BY <1>1, <1>2
<1>6. Q!IsKey(last') \/ last' = last + 1
  BY <1>1, <1>2, <1>3 DEF PacketsInv
<1>7. PacketsInv'
  BY <1>1, <1>2, <1>4, <1>5 DEF PacketsInv
<1> QED
  BY <1>1, <1>2, <1>4, <1>6, <1>7

(* The packet just put is the frame just read.                             *)
LEMMA FrameArrives ==
  ASSUME PipeInv, Ingest, received # 0
  PROVE  /\ Wire' = Wire /\ frames' = frames /\ keyFed' = keyFed
         /\ Len(arrived') = received /\ Len(arrived) + 1 = received
         /\ \A p \in 1 .. Len(arrived) : arrived'[p] = arrived[p]
         /\ \E kind \in Kinds :
               /\ Q!Put(kind) /\ arrived'[received] = kind
               /\ frames[Wire[received + 1]] = kind
         /\ Wire[received + 1] \in 1 .. Len(frames)
         /\ \A i \in 1 .. received : Wire[i] < Wire[received + 1]
<1>1. /\ received' = received + 1 /\ received + 1 \in 1 .. Len(Wire) /\ received \in Nat
      /\ UNCHANGED <<serverVars, decoderVars, since>>
      /\ Wire[received + 1] \in 1 .. Len(frames)
      /\ frames[Wire[received + 1]] \in Kinds
      /\ Q!Put(frames[Wire[received + 1]])
  BY IngestEffect
<1>2. Wire' = Wire /\ frames' = frames /\ keyFed' = keyFed
  BY <1>1 DEF serverVars, vars, frameworkVars, encoderVars, decoderVars, Wire
<1> DEFINE kind == frames[Wire[received + 1]]
<1>3. kind \in Kinds /\ Q!Put(kind)
  BY <1>1
<1> HIDE DEF kind
<1>4. Q!Offer(kind)
  BY <1>3, PutCases DEF PipeInv
<1>5. /\ Len(arrived) \in Nat /\ Len(arrived') = Len(arrived) + 1
      /\ \A p \in 1 .. Len(arrived) : arrived'[p] = arrived[p]
      /\ arrived'[Len(arrived')] = kind
  BY <1>3, <1>4, ArrivalEffect DEF PipeInv
<1>6. Len(arrived) + 1 = received
  BY <1>1, <1>5 DEF PipeInv, PathInv
<1>7. \A i \in 1 .. received : Wire[i] < Wire[received + 1]
  <2>1. Len(Wire) \in Nat
    BY WireFacts DEF PipeInv
  <2>2. \A i \in 1 .. received : i \in 1 .. Len(Wire) /\ i < received + 1
    BY <1>1, <2>1
  <2> QED
    BY <1>1, <2>2, WireFacts DEF PipeInv
<1> QED
  BY <1>1, <1>2, <1>3, <1>5, <1>6, <1>7 DEF kind

LEMMA IngestKeepsPath == PipeInv /\ Ingest => PathInv'
<1> SUFFICES ASSUME PipeInv, Ingest PROVE PathInv'
  OBVIOUS
<1>1. /\ received' = received + 1 /\ received + 1 \in 1 .. Len(Wire) /\ received \in Nat
      /\ UNCHANGED <<serverVars, decoderVars, since>>
      /\ received = 0 => UNCHANGED queueVars
  BY IngestEffect
<1>2. Wire' = Wire /\ frames' = frames
  BY <1>1 DEF serverVars, vars, frameworkVars, encoderVars, Wire
<1>3. Len(Wire) \in Nat /\ received' \in 0 .. Len(Wire')
  BY <1>1, <1>2, WireFacts DEF PipeInv
<1>4. CASE received = 0
  <2>1. arrived' = arrived /\ Len(arrived) = 0
    BY <1>1, <1>4 DEF queueVars, PipeInv, PathInv
  <2> QED
    BY <1>1, <1>3, <1>4, <2>1 DEF PathInv
<1>5. CASE received # 0
  <2>1. /\ Len(arrived') = received /\ Len(arrived) + 1 = received
        /\ \A p \in 1 .. Len(arrived) : arrived'[p] = arrived[p]
        /\ arrived'[received] = frames[Wire[received + 1]]
        /\ Wire[received + 1] \in 1 .. Len(frames)
    BY <1>5, FrameArrives
  <2>2. \A p \in 1 .. Len(arrived') : p \in 1 .. Len(arrived) \/ p = received
    BY <1>1, <2>1
  <2>3. \A p \in 1 .. Len(arrived') :
           Wire[p + 1] \in 1 .. Len(frames) /\ arrived'[p] = frames[Wire[p + 1]]
    BY <2>1, <2>2 DEF PipeInv, PathInv, FrameOf
  <2>4. Len(arrived') = received' - 1 /\ received' # 0
    BY <1>1, <2>1
  <2> QED
    BY <1>2, <1>3, <2>3, <2>4 DEF PathInv, FrameOf
<1> QED
  BY <1>4, <1>5

(* A keyframe that is read is queued, or is older than one that is; one    *)
(* that goes with the queue is older than the end of the recovery.         *)
LEMMA IngestKeepsKeys ==
  ASSUME PipeInv, Ingest, received # 0, NEW n \in 1 .. Len(frames),
         OnItsWay(n) \/ Skipped(n) \/ Held(n)
  PROVE  OnItsWay(n)' \/ Skipped(n)' \/ Held(n)'
<1> DEFINE f == Wire[received + 1]
<1>1. /\ received' = received + 1 /\ received + 1 \in 1 .. Len(Wire) /\ received \in Nat
  BY IngestEffect
<1>2. /\ Wire' = Wire /\ frames' = frames
      /\ Len(arrived') = received /\ Len(arrived) + 1 = received
      /\ \A p \in 1 .. Len(arrived) : arrived'[p] = arrived[p]
      /\ f \in 1 .. Len(frames)
      /\ \A i \in 1 .. received : Wire[i] < f
  BY FrameArrives
<1>3. PICK kind \in Kinds : /\ Q!Put(kind) /\ arrived'[received] = kind
                            /\ frames[f] = kind
  BY FrameArrives
<1> HIDE DEF f
<1>4. Drained(kind) \/ Restarted(kind) \/ Extended
  BY <1>3, PutCases DEF PipeInv
<1>5. /\ Len(Wire) \in Nat /\ Len(frames) \in Nat
      /\ \A i \in 1 .. Len(Wire) : Wire[i] \in Nat
      /\ ServerInv /\ PacketsInv /\ PathInv
  BY WireFacts DEF PipeInv
(* What is behind the new packet on the way to the decoder.                *)
<1>6. ASSUME n <= f, kind = "key" PROVE Held(n)'
  <2>1. \E i \in 1 .. Len(queue') : queue'[i] = received
    <3>1. CASE Restarted(kind)
      BY <1>2, <3>1 DEF Restarted
    <3>2. CASE Extended
      <4>1. queue \in Seq(Nat) /\ Len(queue) \in Nat
        BY <1>5 DEF PacketsInv
      <4>2. Len(queue') = Len(queue) + 1 /\ queue'[Len(queue) + 1] = received
        BY <1>1, <1>2, <3>2, <4>1, AppendProperties DEF Extended
      <4> QED
        BY <4>1, <4>2
    <3> QED
      BY <1>4, <1>6, <3>1, <3>2 DEF Drained
  <2>2. PICK i \in 1 .. Len(queue') : queue'[i] = received
    BY <2>1
  <2>3. arrived'[queue'[i]] = "key" /\ n <= Wire'[queue'[i] + 1]
    BY <1>2, <1>3, <1>6, <2>2 DEF f
  <2> QED
    BY <2>3 DEF Held, Q!IsKey, FrameOf
<1>7. ASSUME NEW i \in 1 .. received, n <= Wire[i], Drained(kind) PROVE Skipped(n)'
  <2>1. i \in 1 .. received' /\ recovering' = TRUE /\ n <= Wire'[i]
    BY <1>1, <1>2, <1>7 DEF Drained
  <2> QED
    BY <2>1 DEF Skipped
<1>8. ASSUME NEW i \in 1 .. received, n <= Wire[i] PROVE n <= f
  <2>1. Wire[i] \in Nat /\ f \in Nat /\ Wire[i] < f
    BY <1>1, <1>2, <1>5, <1>8
  <2> QED
    BY <1>8, <2>1
<1>9. CASE OnItsWay(n)
  <2>1. PICK i \in received + 1 .. Len(Wire) : n <= Wire[i] /\ IsKey(Wire[i])
    BY <1>9 DEF OnItsWay
  <2>2. CASE i = received + 1
    <3>1. n <= f /\ kind = "key"
      BY <1>3, <2>1, <2>2 DEF f, IsKey
    <3> QED
      BY <1>6, <3>1
  <2>3. CASE i # received + 1
    <3>1. i \in received' + 1 .. Len(Wire')
      BY <1>1, <1>2, <1>5, <2>1, <2>3
    <3>2. n <= Wire'[i] /\ Wire'[i] # 0 /\ frames'[Wire'[i]] = "key"
      BY <1>2, <2>1 DEF IsKey
    <3> QED
      BY <3>1, <3>2 DEF OnItsWay, IsKey
  <2> QED
    BY <2>2, <2>3
<1>10. CASE Skipped(n)
  <2>1. PICK i \in 1 .. received : n <= Wire[i]
    BY <1>10 DEF Skipped
  <2>2. ~Extended
    BY <1>10 DEF Skipped, Extended
  <2>3. CASE Drained(kind)
    BY <1>7, <2>1, <2>3
  <2>4. CASE Restarted(kind)
    BY <1>6, <1>8, <2>1, <2>4 DEF Restarted
  <2> QED
    BY <1>4, <2>2, <2>3, <2>4
<1>11. CASE Held(n)
  <2>1. PICK i \in 1 .. Len(queue) : Q!IsKey(queue[i]) /\ n <= FrameOf(queue[i])
    BY <1>11 DEF Held
  <2>2. queue[i] \in 1 .. Len(arrived) /\ queue[i] + 1 \in 1 .. received
    BY <1>5, OnTheWire
  <2>3. n <= Wire[queue[i] + 1]
    BY <2>1 DEF FrameOf
  <2>4. CASE Drained(kind)
    BY <1>7, <2>2, <2>3, <2>4
  <2>5. CASE Restarted(kind)
    BY <1>6, <1>8, <2>2, <2>3, <2>5 DEF Restarted
  <2>6. CASE Extended
    <3>1. /\ queue \in Seq(Nat) /\ Len(arrived') \in Nat
          /\ queue' = Append(queue, Len(arrived'))
      BY <1>1, <1>2, <1>5, <2>6 DEF PacketsInv, Extended
    <3>2. i \in 1 .. Len(queue') /\ queue'[i] = queue[i]
      BY <3>1, Grown
    <3>3. arrived'[queue'[i]] = "key" /\ n <= Wire'[queue'[i] + 1]
      BY <1>2, <2>1, <2>2, <2>3, <3>2 DEF Q!IsKey
    <3> QED
      BY <3>2, <3>3 DEF Held, Q!IsKey, FrameOf
  <2> QED
    BY <1>4, <2>4, <2>5, <2>6
<1> QED
  BY <1>9, <1>10, <1>11

LEMMA IngestStep == PipeInv /\ Ingest => PipeInv'
<1> SUFFICES ASSUME PipeInv, Ingest PROVE PipeInv'
  OBVIOUS
<1>1. /\ received' = received + 1 /\ received \in Nat
      /\ UNCHANGED <<serverVars, decoderVars, since>>
      /\ received + 1 \in 1 .. Len(Wire)
      /\ \/ received = 0 /\ UNCHANGED queueVars
         \/ \E kind \in Kinds : received # 0 /\ Q!Put(kind)
  BY IngestEffect
<1>2. /\ UNCHANGED vars /\ wire' = wire /\ frames' = frames /\ jobs' = jobs
      /\ pending' = pending /\ connectionReady' = connectionReady
      /\ codec' = codec /\ synced' = synced /\ keyFed' = keyFed /\ since' = since
  BY <1>1 DEF serverVars, vars, stateVars, frameworkVars, encoderVars, decoderVars
<1>3. ServerInv'
  BY <1>2, ServerStep DEF PipeInv
<1>4. PathInv'
  BY IngestKeepsPath
<1>5. PacketsInv' /\ last' = last
  <2>1. CASE received = 0 /\ UNCHANGED queueVars
    BY <2>1 DEF queueVars, PipeInv, PacketsInv, Q!IsKey
  <2>2. ASSUME NEW kind \in Kinds, Q!Put(kind) PROVE PacketsInv' /\ last' = last
    BY <2>2, PutStep, PutCases, ArrivalEffect DEF PipeInv
  <2> QED
    BY <1>1, <2>1, <2>2
<1>6. CodecInv'
  BY <1>2, <1>5 DEF PipeInv, CodecInv, FrameOf, Wire
<1>7. KeysInv'
  <2> SUFFICES ASSUME connectionReady, NEW n \in 1 .. Len(frames),
                      n \notin since, IsKey(n)
               PROVE  \/ OnPhone(n)' \/ OnItsWay(n)' \/ Skipped(n)' \/ Held(n)'
                      \/ n <= keyFed'
    BY <1>2 DEF KeysInv, IsKey
  <2>1. \/ OnPhone(n) \/ OnItsWay(n) \/ Skipped(n) \/ Held(n)
        \/ n <= keyFed
    BY DEF PipeInv, KeysInv
  <2>2. CASE OnPhone(n)
    BY <1>2, <2>2 DEF OnPhone, IsKey
  <2>3. CASE n <= keyFed
    BY <1>2, <2>3
  <2>4. CASE (OnItsWay(n) \/ Skipped(n) \/ Held(n)) /\ received # 0
    BY <2>4, IngestKeepsKeys
  <2>5. CASE (OnItsWay(n) \/ Skipped(n) \/ Held(n)) /\ received = 0
    <3>1. Len(queue) = 0 /\ Wire' = Wire /\ Len(Wire) \in Nat /\ n # 0 /\ n \in Nat
      <4>1. Len(arrived) = 0 /\ last \in Nat /\ Len(queue) \in Nat
            /\ last + Len(queue) <= Len(arrived)
        BY <2>5, OnTheWire DEF PipeInv, PathInv, PacketsInv
      <4> QED
        BY <1>2, <4>1, WireFacts DEF PipeInv, Wire
    <3>2. OnItsWay(n)
      BY <2>5, <3>1 DEF Held, Skipped
    <3>3. PICK i \in received + 1 .. Len(Wire) : n <= Wire[i] /\ IsKey(Wire[i])
      BY <3>2 DEF OnItsWay
    <3>4. i # 1
      <4>1. Wire[i] # 0
        BY <3>3 DEF IsKey
      <4>2. i \in 1 .. Len(Wire)
        BY <1>1, <3>1, <3>3
      <4> QED
        BY <4>1, <4>2, WireFacts DEF PipeInv, Hello
    <3>5. i \in received' + 1 .. Len(Wire')
      BY <1>1, <2>5, <3>1, <3>3, <3>4
    <3>6. n <= Wire'[i] /\ Wire'[i] # 0 /\ frames'[Wire'[i]] = "key"
      BY <1>2, <3>1, <3>3 DEF IsKey
    <3> QED
      BY <3>5, <3>6 DEF OnItsWay, IsKey
  <2> QED
    BY <2>1, <2>2, <2>3, <2>4, <2>5
<1> QED
  BY <1>3, <1>4, <1>5, <1>6, <1>7 DEF PipeInv

-----------------------------------------------------------------------------
(* The decode task.                                                        *)

LEMMA DecodeStep == PipeInv /\ Decode => PipeInv'
<1> SUFFICES ASSUME PipeInv, Decode PROVE PipeInv'
  OBVIOUS
<1>1. /\ Q!Get /\ UNCHANGED <<serverVars, received, since>>
      /\ keyFed' = IF Q!IsKey(last') THEN FrameOf(last') ELSE keyFed
  BY DEF Decode
<1>2. /\ UNCHANGED vars /\ wire' = wire /\ frames' = frames /\ jobs' = jobs
      /\ pending' = pending /\ connectionReady' = connectionReady
      /\ since' = since /\ received' = received /\ Wire' = Wire
  BY <1>1 DEF serverVars, vars, stateVars, frameworkVars, encoderVars, Wire
<1>3. /\ PacketsInv' /\ arrived' = arrived /\ recovering' = recovering
      /\ last' = queue[1] /\ last' \in 1 .. Len(arrived) /\ last < last'
      /\ Len(queue) \in Nat \ {0} /\ Len(queue') = Len(queue) - 1
      /\ \A i \in 1 .. Len(queue') : i + 1 \in 1 .. Len(queue) /\ queue'[i] = queue[i + 1]
  BY <1>1, GetStep DEF PipeInv
<1>4. ServerInv'
  BY <1>2, ServerStep DEF PipeInv
<1>5. PathInv'
  BY <1>2, <1>3 DEF PipeInv, PathInv, FrameOf
<1>6. /\ last \in Nat /\ keyFed \in Nat /\ FrameOf(last') \in Nat
      /\ keyFed # 0 => keyFed < FrameOf(last')
  <2>1. last \in Nat /\ keyFed \in Nat
    BY DEF PipeInv, PacketsInv, CodecInv
  <2>2. last' + 1 \in 1 .. Len(Wire) /\ (last # 0 => last + 1 \in 1 .. Len(Wire))
    BY <1>3, OnTheWire DEF PipeInv
  <2>3. FrameOf(last') \in Nat /\ (last # 0 => FrameOf(last) < FrameOf(last')
                                              /\ FrameOf(last) \in Nat)
    <3>1. last + 1 < last' + 1
      BY <1>3, <2>1
    <3> QED
      BY <2>2, <3>1, WireFacts DEF PipeInv, FrameOf
  <2> QED
    BY <2>1, <2>3 DEF PipeInv, CodecInv
<1>7. CodecInv'
  <2>1. last' # 0 /\ Wire'[last' + 1] = FrameOf(last')
    BY <1>2, <1>3 DEF FrameOf
  <2>2. synced' => codec' = FrameOf(last')
    BY DEF Decode
  <2>3. keyFed' \in Nat /\ keyFed' <= FrameOf(last')
    <3>1. CASE Q!IsKey(last')
      BY <1>1, <1>6, <3>1
    <3>2. CASE ~Q!IsKey(last')
      BY <1>1, <1>6, <3>2
    <3> QED
      BY <3>1, <3>2
  <2> QED
    BY <2>1, <2>2, <2>3 DEF CodecInv, FrameOf
<1>8. KeysInv'
  <2> SUFFICES ASSUME connectionReady, NEW n \in 1 .. Len(frames),
                      n \notin since, IsKey(n)
               PROVE  \/ OnPhone(n)' \/ OnItsWay(n)' \/ Skipped(n)' \/ Held(n)'
                      \/ n <= keyFed'
    BY <1>2 DEF KeysInv, IsKey
  <2>1. \/ OnPhone(n) \/ OnItsWay(n) \/ Skipped(n) \/ Held(n)
        \/ n <= keyFed
    BY DEF PipeInv, KeysInv
  <2>2. CASE OnPhone(n) \/ OnItsWay(n) \/ Skipped(n)
    BY <1>2, <1>3, <2>2 DEF OnPhone, OnItsWay, Skipped, IsKey
  <2>3. CASE Held(n)
    <3>1. PICK i \in 1 .. Len(queue) : Q!IsKey(queue[i]) /\ n <= FrameOf(queue[i])
      BY <2>3 DEF Held
    <3>2. CASE i = 1
      <4>1. keyFed' = FrameOf(queue[1])
        BY <1>1, <1>3, <3>1, <3>2
      <4> QED
        BY <3>1, <3>2, <4>1
    <3>3. CASE i # 1
      <4>1. i - 1 \in 1 .. Len(queue') /\ (i - 1) + 1 = i
        BY <1>3, <3>1, <3>3
      <4>2. queue'[i - 1] = queue[i]
        BY <1>3, <4>1
      <4>3. arrived'[queue'[i - 1]] = "key" /\ n <= Wire'[queue'[i - 1] + 1]
        BY <1>2, <1>3, <3>1, <4>2 DEF Q!IsKey, FrameOf
      <4> QED
        BY <4>1, <4>3 DEF Held, Q!IsKey, FrameOf
    <3> QED
      BY <3>2, <3>3
  <2>4. CASE n <= keyFed
    <3>1. n \in Nat /\ n # 0
      BY WireFacts DEF PipeInv
    <3>2. keyFed <= keyFed' /\ keyFed' \in Nat
      <4>1. CASE Q!IsKey(last')
        BY <1>1, <1>6, <4>1
      <4>2. CASE ~Q!IsKey(last')
        BY <1>1, <1>6, <4>2
      <4> QED
        BY <4>1, <4>2
    <3> QED
      BY <1>6, <2>4, <3>1, <3>2
  <2> QED
    BY <2>1, <2>2, <2>3, <2>4
<1> QED
  BY <1>3, <1>4, <1>5, <1>7, <1>8 DEF PipeInv

-----------------------------------------------------------------------------
LEMMA InitPipeInv == PipeInit => PipeInv
<1> SUFFICES ASSUME PipeInit PROVE PipeInv
  OBVIOUS
<1>1. ServerInv
  BY InitServerInv DEF PipeInit
<1>2. /\ arrived = <<>> /\ queue = <<>> /\ recovering = FALSE
      /\ dropped = 0 /\ last = 0 /\ got = 0 /\ received = 0
      /\ keyFed = 0 /\ synced = FALSE /\ connectionReady = FALSE
  BY DEF PipeInit, Init, Q!Init
<1>3. /\ arrived \in Seq(Kinds) /\ Len(arrived) = 0
      /\ queue \in Seq(Nat) /\ Len(queue) = 0
  BY <1>2, EmptySeq
<1>4. PacketsInv
  <2>1. /\ dropped \in Nat /\ got \in Nat /\ last \in Nat
        /\ last + Len(queue) <= Len(arrived) /\ last + Len(queue) = Len(arrived)
    <3>1. last = 0 /\ dropped = 0 /\ got = 0
      BY <1>2
    <3> QED
      BY <1>3, <3>1
  <2>2. \A i \in 1 .. Len(queue) : queue[i] = Len(arrived) - Len(queue) + i
    BY <1>3
  <2>3. recovering = FALSE
    BY <1>2
  <2> QED
    BY <1>3, <2>1, <2>2, <2>3 DEF PacketsInv
<1>5. PathInv
  <2>1. Len(Wire) \in Nat /\ received = 0
    BY <1>1, <1>2, WireFacts
  <2> QED
    BY <1>3, <2>1 DEF PathInv
<1>6. CodecInv
  <2>1. keyFed = 0 /\ ~synced
    BY <1>2
  <2> QED
    BY <2>1 DEF CodecInv
<1>7. KeysInv
  BY <1>2, Zenon DEF KeysInv
<1> QED
  BY <1>1, <1>4, <1>5, <1>6, <1>7 DEF PipeInv

LEMMA PhoneKeepsInv ==
  PipeInv /\ (Phone \/ UNCHANGED pipeVars) => PipeInv'
<1> SUFFICES ASSUME PipeInv, Phone \/ UNCHANGED pipeVars PROVE PipeInv'
  OBVIOUS
<1>1. /\ [Next]_vars /\ UNCHANGED <<queueVars, decoderVars, received>>
  BY DEF Phone, pipeVars, serverVars
<1>2. ServerInv' /\ PhoneMoves
  BY <1>1, ServerStep, PhoneStep DEF PipeInv
<1>3. PacketsInv' /\ PathInv' /\ CodecInv'
  BY <1>1, <1>2, PhoneKeepsPath
<1>4. CASE Phone
  BY <1>2, <1>3, <1>4, PhoneKeepsKeys DEF PipeInv
<1>5. CASE UNCHANGED pipeVars
  <2>1. /\ connectionReady' = connectionReady /\ frames' = frames /\ since' = since
        /\ jobs' = jobs /\ pending' = pending /\ Wire' = Wire /\ received' = received
        /\ recovering' = recovering /\ queue' = queue /\ arrived' = arrived
        /\ keyFed' = keyFed
    BY <1>5 DEF pipeVars, serverVars, vars, stateVars, encoderVars, frameworkVars,
                queueVars, decoderVars, Wire
  <2>2. KeysInv'
    BY <2>1, Zenon DEF PipeInv, KeysInv, OnPhone, OnItsWay, Skipped, Held, IsKey,
                       Q!IsKey, FrameOf
  <2> QED
    BY <1>2, <1>3, <2>2 DEF PipeInv
<1> QED
  BY <1>4, <1>5

(* The invariant holds however the phone, the network and the two tasks    *)
(* interleave.                                                             *)
THEOREM PipelineInvariant == PipeSpec => []PipeInv
<1>1. PipeInv /\ [PipeNext]_pipeVars => PipeInv'
  BY PhoneKeepsInv, IngestStep, DecodeStep DEF PipeNext
<1> QED
  BY <1>1, InitPipeInv, PTL DEF PipeSpec

(* Whatever both ends drop, the newest keyframe reaches the decoder.       *)
THEOREM PipelineNewestKeyframe == PipeSpec => []NewestKeyframeArrives
<1>1. PipeInv => NewestKeyframeArrives
  <2> SUFFICES ASSUME PipeInv, Delivered, connectionReady,
                      NEW n \in 1 .. Len(frames), n \notin since, IsKey(n)
               PROVE  n <= keyFed
    BY DEF NewestKeyframeArrives
  <2>1. ~OnPhone(n)
    BY DEF Delivered, OnPhone, Among, IsKey
  <2>2. ~OnItsWay(n)
    <3>1. Len(Wire) \in Nat /\ received = Len(Wire)
      BY WireFacts DEF PipeInv, Delivered
    <3> QED
      BY <3>1 DEF OnItsWay
  <2>3. ~Skipped(n) /\ ~Held(n)
    BY DEF Delivered, Skipped, Held
  <2> QED
    BY <2>1, <2>2, <2>3 DEF PipeInv, KeysInv
<1> QED
  BY <1>1, PipelineInvariant, PTL

(* End to end, the decoder is given frames in the order in which they were *)
(* encoded, none twice, and each for what it is, keyframe or delta.        *)
GivenInOrder ==
    [][ last' # last =>
            /\ FrameOf(last') \in 1 .. Len(frames)
            /\ last # 0 => FrameOf(last) < FrameOf(last')
            /\ Q!IsKey(last') <=> IsKey(FrameOf(last')) ]_pipeVars

(* Only the decode task takes a packet.                                    *)
LEMMA TakesOne ==
  ASSUME PipeInv, [PipeNext]_pipeVars, last' # last
  PROVE  Decode /\ Q!Get
<1>1. CASE Phone \/ UNCHANGED pipeVars
  BY <1>1 DEF Phone, pipeVars, queueVars
<1>2. CASE Ingest
  <2>1. ASSUME NEW kind \in Kinds, Q!Put(kind) PROVE last' = last
    BY <2>1, PutCases, ArrivalEffect DEF PipeInv
  <2> QED
    BY <1>2, <2>1, IngestEffect DEF queueVars
<1> QED
  BY <1>1, <1>2 DEF PipeNext, Decode

(* The order of the encoder survives replaced frames, an overflow of the   *)
(* queue and its recovery.                                                 *)
THEOREM PipelineGivenInOrder == PipeSpec => GivenInOrder
<1>1. PipeInv /\ [PipeNext]_pipeVars
        => [last' # last =>
               /\ FrameOf(last') \in 1 .. Len(frames)
               /\ last # 0 => FrameOf(last) < FrameOf(last')
               /\ Q!IsKey(last') <=> IsKey(FrameOf(last'))]_pipeVars
  <2> SUFFICES ASSUME PipeInv, [PipeNext]_pipeVars, last' # last
               PROVE  /\ FrameOf(last') \in 1 .. Len(frames)
                      /\ last # 0 => FrameOf(last) < FrameOf(last')
                      /\ Q!IsKey(last') <=> IsKey(FrameOf(last'))
    OBVIOUS
  <2>1. last' \in 1 .. Len(arrived) /\ last < last' /\ last \in Nat
    BY TakesOne, GetStep DEF PipeInv, PacketsInv
  <2>2. FrameOf(last') \in 1 .. Len(frames) /\ arrived[last'] = frames[FrameOf(last')]
    BY <2>1 DEF PipeInv, PathInv
  <2>3. last # 0 => FrameOf(last) < FrameOf(last')
    <3> SUFFICES ASSUME last # 0 PROVE FrameOf(last) < FrameOf(last')
      OBVIOUS
    <3>1. last \in 1 .. Len(arrived) /\ last' \in 1 .. Len(arrived)
      BY <2>1, LenProperties DEF PipeInv, PacketsInv
    <3>2. last + 1 \in 1 .. Len(Wire) /\ last' + 1 \in 1 .. Len(Wire)
      BY <3>1, OnTheWire DEF PipeInv
    <3>3. Wire[last + 1] < Wire[last' + 1]
      BY <2>1, <3>2, WireFacts DEF PipeInv
    <3> QED
      BY <3>3 DEF FrameOf
  <2> QED
    BY <2>2, <2>3 DEF Q!IsKey, IsKey
<1> QED
  BY <1>1, PipelineInvariant, PTL DEF PipeSpec, GivenInOrder

(* The receiver adds no gap of its own to those the phone makes.           *)
THEOREM PipelineOnlyThePhoneSkips == PipeSpec => OnlyThePhoneSkips
<1>1. PipeInv /\ [PipeNext]_pipeVars
        => [last' # last /\ synced /\ ~Q!IsKey(last')
               => \A n \in codec + 1 .. FrameOf(last') - 1 : ~OnWire(n)]_pipeVars
  <2> SUFFICES ASSUME PipeInv, [PipeNext]_pipeVars, last' # last, synced,
                      ~Q!IsKey(last'),
                      NEW n \in codec + 1 .. FrameOf(last') - 1, OnWire(n)
               PROVE  FALSE
    OBVIOUS
  <2>1. Q!Get
    BY TakesOne
  <2>2. last' = last + 1 /\ last' \in 1 .. Len(arrived)
    BY <2>1, GetStep DEF PipeInv
  <2>3. last # 0 /\ codec = Wire[last + 1] /\ last \in Nat
    BY DEF PipeInv, CodecInv, PacketsInv, FrameOf
  <2>4. /\ last + 1 \in 1 .. Len(Wire) /\ last + 2 \in 1 .. Len(Wire)
        /\ FrameOf(last') = Wire[last + 2]
    <3>1. last \in 1 .. Len(arrived) /\ last' + 1 = last + 2
      BY <2>2, <2>3, OnTheWire DEF PipeInv
    <3> QED
      BY <2>2, <3>1, OnTheWire DEF PipeInv, FrameOf
  <2>5. PICK i \in 1 .. Len(Wire) : Wire[i] = n
    BY DEF OnWire
  <2>6. Wire[last + 1] < Wire[i] /\ Wire[i] < Wire[last + 2]
    <3>1. Wire[last + 1] \in Nat /\ Wire[last + 2] \in Nat
      BY <2>4, WireFacts DEF PipeInv
    <3> QED
      BY <2>3, <2>4, <2>5, <3>1
  <2>7. ASSUME NEW a \in 1 .. Len(Wire), NEW b \in 1 .. Len(Wire), Wire[a] < Wire[b]
        PROVE  a < b
    <3>1. Wire[a] \in Nat /\ Wire[b] \in Nat /\ a \in Nat /\ b \in Nat
      BY WireFacts DEF PipeInv
    <3>2. b < a => Wire[b] < Wire[a]
      BY WireFacts DEF PipeInv
    <3> QED
      BY <2>7, <3>1, <3>2
  <2>8. last + 1 < i /\ i < last + 2
    BY <2>4, <2>6, <2>7
  <2> QED
    BY <2>3, <2>5, <2>8
<1> QED
  BY <1>1, PipelineInvariant, PTL DEF PipeSpec, OnlyThePhoneSkips

(* The phone does on this path what it does alone, but for the fairness    *)
(* that the path does not assume: its safety theorems hold here.           *)
THEOREM PipelineUsesServer == PipeSpec => Init /\ [][Next]_vars
<1>1. PipeInit => Init
  BY DEF PipeInit
<1>2. [PipeNext]_pipeVars => [Next]_vars
  BY DEF PipeNext, pipeVars, Phone, Ingest, Decode, serverVars
<1> QED
  BY <1>1, <1>2, PTL DEF PipeSpec

(* Whatever comes in from the wire, the queue is that of KeyframeQueue.    *)
THEOREM PipelineUsesQueue == PipeSpec => Q!Spec
<1>1. PipeInit => Q!Init
  BY DEF PipeInit
<1>2. PipeInv /\ [PipeNext]_pipeVars => [Q!Next]_Q!vars
  <2> SUFFICES ASSUME PipeInv, [PipeNext]_pipeVars PROVE [Q!Next]_Q!vars
    OBVIOUS
  <2>1. CASE Phone \/ UNCHANGED pipeVars
    BY <2>1 DEF Phone, pipeVars, queueVars, Q!vars
  <2>2. CASE Ingest
    BY <2>2, IngestEffect, Zenon DEF queueVars, Q!vars, Q!Next, Q!Kinds, Kinds
  <2>3. CASE Decode
    BY <2>3, Zenon DEF Decode, Q!Next
  <2> QED
    BY <2>1, <2>2, <2>3 DEF PipeNext
<1> QED
  BY <1>1, <1>2, PipelineInvariant, PTL DEF PipeSpec, Q!Spec
=============================================================================
