-------------------------- MODULE RecordCodecProofs --------------------------
(***************************************************************************)
(* The record format, for keys and values of any length: a record that was *)
(* encoded is decoded to itself, nothing shorter decodes, and what decodes *)
(* is a record that can be written.  Then what RecordsIn finds in a file   *)
(* that appends have written, whole or in part.                            *)
(***************************************************************************)
EXTENDS RecordCodec, LSMTablesProofs, FiniteSetTheorems

-----------------------------------------------------------------------------
(* EncodeRecord *)

ValuePart(r) == IF r.entry = Tombstone THEN <<>> ELSE ValueBytes[r.entry]

Body(r) ==
    <<IF r.entry = Tombstone THEN kDelete ELSE kPut, LengthField(KeyBytes[r.key]),
      LengthField(ValuePart(r))>> \o KeyBytes[r.key] \o ValuePart(r)

\* What a concatenation holds, without a case distinction on the index.
LEMMA Joined ==
    ASSUME NEW S, NEW s \in Seq(S), NEW t \in Seq(S)
    PROVE  /\ s \o t \in Seq(S) /\ Len(s \o t) = Len(s) + Len(t)
           /\ Len(s) \in Nat /\ Len(t) \in Nat
           /\ \A x \in 1..Len(s) : (s \o t)[x] = s[x]
           /\ \A x \in 1..Len(t) : (s \o t)[Len(s) + x] = t[x]
<1> DEFINE u == s \o t
           m == Len(s)
           n == Len(t)
<1>1. u \in Seq(S) /\ Len(u) = m + n /\ m \in Nat /\ n \in Nat
  BY ConcatProperties
<1>2. \A i \in 1 .. m + n : u[i] = IF i <= m THEN s[i] ELSE t[i - m]
  BY ConcatProperties
<1> HIDE DEF u, m, n
<1>3. \A x \in 1..m : u[x] = s[x]
  BY <1>1, <1>2
<1>4. ASSUME NEW x \in 1..n PROVE u[m + x] = t[x]
  <2>1. m + x \in 1 .. m + n /\ ~(m + x <= m) /\ (m + x) - m = x
    BY <1>1
  <2> QED
    BY <1>2, <2>1
<1> QED
  BY <1>1, <1>3, <1>4 DEF u, m, n

\* A length field holds the length if it fits and something smaller if not.
LEMMA LengthFields ==
    ASSUME NEW s \in Seq(Nat)
    PROVE  /\ LengthField(s) \in Nat /\ LengthField(s) <= Len(s)
           /\ LengthField(s) = Len(s) <=> Len(s) < 2^LengthBits
<1> DEFINE P == 2^LengthBits
           n == Len(s)
<1>1. P \in Nat \ {0} /\ n \in Nat
  BY CodecAssumption
<1> HIDE DEF P, n
<1>2. n % P \in Nat /\ n % P <= n /\ (n % P = n <=> n < P)
  BY <1>1
<1> QED
  BY <1>2 DEF P, n, LengthField

\* The parts of a record.
LEMMA Parts ==
    ASSUME NEW r \in WalRecord
    PROVE  /\ r.key \in Key /\ r.entry \in Entry
           /\ KeyBytes[r.key] \in Seq(Nat) /\ ValuePart(r) \in Seq(Nat)
           /\ Fits(r) <=> /\ Len(KeyBytes[r.key]) < 2^LengthBits
                          /\ Len(ValuePart(r)) < 2^LengthBits
<1>1. r.key \in Key /\ r.entry \in Entry
  BY DEF WalRecord
<1>2. KeyBytes[r.key] \in Seq(Nat) /\ KeyLen[r.key] = Len(KeyBytes[r.key])
  BY <1>1, CodecAssumption
<1>3. CASE r.entry = Tombstone
  <2>1. ValuePart(r) = <<>> /\ Len(ValuePart(r)) = 0
    BY <1>3 DEF ValuePart
  <2>2. 2^LengthBits \in Int /\ 0 < 2^LengthBits
    BY CodecAssumption
  <2> QED
    BY <1>1, <1>2, <1>3, <2>1, <2>2 DEF Fits
<1>4. CASE r.entry # Tombstone
  <2>1. r.entry \in Value /\ ValuePart(r) = ValueBytes[r.entry]
    BY <1>1, <1>4 DEF Entry, ValuePart
  <2>2. ValuePart(r) \in Seq(Nat) /\ ValueLen[r.entry] = Len(ValuePart(r))
    BY <2>1, CodecAssumption
  <2> QED
    BY <1>1, <1>2, <1>4, <2>2 DEF Fits
<1> QED
  BY <1>3, <1>4

\* The bytes of a body.
LEMMA BodyBytes ==
    ASSUME NEW r \in WalRecord
    PROVE  LET K == KeyBytes[r.key]
               V == ValuePart(r)
               b == Body(r) IN
           /\ b \in Seq(Nat) /\ Len(b) = 3 + Len(K) + Len(V)
           /\ b[1] = (IF r.entry = Tombstone THEN kDelete ELSE kPut)
           /\ b[2] = LengthField(K) /\ b[3] = LengthField(V)
           /\ \A x \in 1..Len(K) : b[3 + x] = K[x]
           /\ \A x \in 1..Len(V) : b[3 + Len(K) + x] = V[x]
<1> DEFINE K == KeyBytes[r.key]
           V == ValuePart(r)
           t == IF r.entry = Tombstone THEN kDelete ELSE kPut
           h == <<t, LengthField(K), LengthField(V)>>
           a == h \o K
           b == a \o V
<1>1. K \in Seq(Nat) /\ V \in Seq(Nat) /\ LengthField(K) \in Nat /\ LengthField(V) \in Nat
      /\ t \in Nat
  BY Parts, LengthFields DEF kDelete, kPut
<1> HIDE DEF K, V, t
<1>2. h \in Seq(Nat) /\ Len(h) = 3 /\ h[1] = t /\ h[2] = LengthField(K) /\ h[3] = LengthField(V)
  BY <1>1
<1> HIDE DEF h
<1>3. /\ a \in Seq(Nat) /\ Len(a) = Len(h) + Len(K)
      /\ \A x \in 1..Len(h) : a[x] = h[x]
      /\ \A x \in 1..Len(K) : a[Len(h) + x] = K[x]
  <2>1. K \in Seq(Nat) /\ h \in Seq(Nat)
    BY <1>1, <1>2
  <2>2. \A x \in 1..Len(K) : a[Len(h) + x] = K[x]
    BY <2>1, Joined
  <2> QED
    BY <2>1, <2>2, Joined
<1> HIDE DEF a
<1>4. /\ b \in Seq(Nat) /\ Len(b) = Len(a) + Len(V)
      /\ \A x \in 1..Len(a) : b[x] = a[x]
      /\ \A x \in 1..Len(V) : b[Len(a) + x] = V[x]
  <2>1. V \in Seq(Nat) /\ a \in Seq(Nat)
    BY <1>1, <1>3
  <2>2. \A x \in 1..Len(V) : b[Len(a) + x] = V[x]
    BY <2>1, Joined
  <2> QED
    BY <2>1, <2>2, Joined
<1>5. b = Body(r)
  BY DEF Body, K, V, t, h, a
<1> HIDE DEF b
<1> DEFINE m == Len(K)
           n == Len(V)
<1>6. m \in Nat /\ n \in Nat
  BY <1>1
<1> HIDE DEF m, n
<1>7. Len(a) = 3 + m /\ Len(b) = 3 + m + n
  BY <1>2, <1>3, <1>4 DEF m, n
<1>8. b[1] = t /\ b[2] = LengthField(K) /\ b[3] = LengthField(V)
  <2>1. \A x \in 1..3 : x \in 1..Len(h) /\ x \in 1..Len(a)
    BY <1>2, <1>6, <1>7
  <2>2. \A x \in 1..3 : b[x] = h[x]
    BY <1>3, <1>4, <2>1
  <2> HIDE DEF b, K, V, t
  <2> QED
    BY <1>2, <2>2
<1>9. ASSUME NEW x \in 1..m PROVE b[3 + x] = K[x]
  <2>1. 3 + x \in 1..Len(a) /\ a[3 + x] = K[x]
    BY <1>2, <1>3, <1>6, <1>7 DEF m
  <2> QED
    BY <1>4, <2>1
<1>10. ASSUME NEW x \in 1..n PROVE b[3 + m + x] = V[x]
  BY <1>4, <1>7 DEF n
<1> QED
  BY <1>4, <1>5, <1>7, <1>8, <1>9, <1>10 DEF K, V, t, m, n

\* A record is its checksum followed by one cell for each byte of the body.
LEMMA EncodedCells ==
    ASSUME NEW r \in WalRecord
    PROVE  /\ EncodeRecord(r) \in Seq(Seq(Nat))
           /\ Len(EncodeRecord(r)) = 1 + Len(Body(r))
           /\ EncodeRecord(r)[1] = Body(r)
           /\ \A x \in 1..Len(Body(r)) : EncodeRecord(r)[x + 1] = <<Body(r)[x]>>
<1> DEFINE b == Body(r)
           c == [x \in 1..Len(b) |-> Cell(b[x])]
           e == <<b>> \o c
<1>1. b \in Seq(Nat) /\ Len(b) \in Nat
  BY BodyBytes
<1>2. EncodeRecord(r) = e
  BY DEF EncodeRecord, Body, ValuePart, Crc32
<1> HIDE DEF b
<1>3. c \in Seq(Seq(Nat)) /\ Len(c) = Len(b) /\ \A x \in 1..Len(b) : c[x] = <<b[x]>>
  BY <1>1 DEF Cell
<1> HIDE DEF c
<1>4. <<b>> \in Seq(Seq(Nat)) /\ Len(<<b>>) = 1 /\ <<b>>[1] = b
  BY <1>1
<1>5. /\ e \in Seq(Seq(Nat)) /\ Len(e) = 1 + Len(c) /\ e[1] = b
      /\ \A x \in 1..Len(c) : e[1 + x] = c[x]
  BY <1>3, <1>4
<1> QED
  BY <1>1, <1>2, <1>3, <1>5 DEF b

-----------------------------------------------------------------------------
(* DecodeRecord *)

\* The two lengths and the body that DecodeRecord reads.
KeyLenIn(data) == NumberIn(data[3])
ValueLenIn(data) == NumberIn(data[4])
BodyIn(data) == [i \in 1 .. 3 + KeyLenIn(data) + ValueLenIn(data) |-> NumberIn(data[i + 1])]

\* The conditions under which it accepts.
Accepted(data) ==
    /\ kHeaderSize <= Len(data)
    /\ kHeaderSize + KeyLenIn(data) + ValueLenIn(data) <= Len(data)
    /\ BodyIn(data) = data[1] /\ BodyIn(data)[1] \in {kPut, kDelete}

\* Any cell can be read as a number.
LEMMA NumberIsNat ==
    ASSUME NEW c \in Seq(Nat)
    PROVE  NumberIn(c) \in Nat
BY CodecAssumption DEF NumberIn

\* The header of enough cells can be read.
LEMMA HeaderIsNat ==
    ASSUME NEW data \in Seq(Seq(Nat)), kHeaderSize <= Len(data)
    PROVE  /\ KeyLenIn(data) \in Nat /\ ValueLenIn(data) \in Nat /\ data[1] \in Seq(Nat)
           /\ 3 + KeyLenIn(data) + ValueLenIn(data) \in Nat
<1>1. data[1] \in Seq(Nat) /\ data[3] \in Seq(Nat) /\ data[4] \in Seq(Nat)
  BY DEF kHeaderSize
<1>2. KeyLenIn(data) \in Nat /\ ValueLenIn(data) \in Nat
  BY <1>1, NumberIsNat DEF KeyLenIn, ValueLenIn
<1> QED
  BY <1>1, <1>2

\* DecodeRecord accepts exactly then, and returns the parts of the body.
LEMMA DecodeCases ==
    ASSUME NEW data \in Seq(Seq(Nat))
    PROVE  LET d == DecodeRecord(data) IN
           /\ d.status = "kOk" <=> Accepted(data)
           /\ Accepted(data) =>
                 /\ d.type = BodyIn(data)[1]
                 /\ d.key = SubSeq(BodyIn(data), 4, 3 + KeyLenIn(data))
                 /\ d.value = SubSeq(BodyIn(data), 4 + KeyLenIn(data), Len(BodyIn(data)))
                 /\ d.bytes_consumed = kHeaderSize + KeyLenIn(data) + ValueLenIn(data)
<1>1. CASE Len(data) < kHeaderSize
  <2>1. DecodeRecord(data) = Incomplete /\ ~(kHeaderSize <= Len(data))
    BY <1>1 DEF DecodeRecord, kHeaderSize
  <2> QED
    BY <2>1 DEF Accepted, Incomplete
<1>2. CASE ~(Len(data) < kHeaderSize)
  <2> DEFINE kl == NumberIn(data[3])
             vl == NumberIn(data[4])
             b == BodyIn(data)
             ok == [status |-> "kOk", type |-> b[1], key |-> SubSeq(b, 4, 3 + kl),
                    value |-> SubSeq(b, 4 + kl, Len(b)), bytes_consumed |-> kHeaderSize + kl + vl]
  <2>1. kl \in Nat /\ vl \in Nat /\ kHeaderSize <= Len(data)
    BY <1>2, HeaderIsNat DEF kHeaderSize, KeyLenIn, ValueLenIn
  <2>2. (kHeaderSize + kl + vl) - 1 = 3 + kl + vl
    BY <2>1 DEF kHeaderSize
  <2>3. DecodeRecord(data) = IF Len(data) < kHeaderSize + kl + vl THEN Incomplete
                             ELSE IF b # data[1] \/ b[1] \notin {kPut, kDelete} THEN Corrupt ELSE ok
    <3> DEFINE c == [i \in 1 .. (kHeaderSize + kl + vl) - 1 |-> NumberIn(data[i + 1])]
    <3>1. c = b
      BY <2>2, Zenon DEF BodyIn, KeyLenIn, ValueLenIn
    <3>2. DecodeRecord(data) =
            IF Len(data) < kHeaderSize THEN Incomplete
            ELSE IF Len(data) < kHeaderSize + kl + vl THEN Incomplete
            ELSE IF Crc32(c) # data[1] \/ c[1] \notin {kPut, kDelete} THEN Corrupt
            ELSE [status |-> "kOk", type |-> c[1], key |-> SubSeq(c, 4, 3 + kl),
                  value |-> SubSeq(c, 4 + kl, Len(c)), bytes_consumed |-> kHeaderSize + kl + vl]
      BY Zenon DEF DecodeRecord
    <3> HIDE DEF c, kl, vl, b
    <3>3. DecodeRecord(data) =
            IF Len(data) < kHeaderSize THEN Incomplete
            ELSE IF Len(data) < kHeaderSize + kl + vl THEN Incomplete
            ELSE IF Crc32(b) # data[1] \/ b[1] \notin {kPut, kDelete} THEN Corrupt ELSE ok
      BY <3>1, <3>2, Zenon
    <3> QED
      BY <1>2, <3>3, Zenon DEF Crc32
  <2> HIDE DEF kl, vl, b
  <2>4. Len(data) < kHeaderSize + kl + vl <=> ~(kHeaderSize + kl + vl <= Len(data))
    BY <2>1 DEF kHeaderSize
  <2>5. Accepted(data) <=> /\ kHeaderSize + kl + vl <= Len(data)
                           /\ b = data[1] /\ b[1] \in {kPut, kDelete}
    BY <2>1 DEF Accepted, KeyLenIn, ValueLenIn, kl, vl, b
  <2>6. CASE Accepted(data)
    <3>1. DecodeRecord(data) = ok
      BY <2>3, <2>4, <2>5, <2>6
    <3> DEFINE d == DecodeRecord(data)
    <3> HIDE DEF d
    <3>2. /\ d.status = "kOk" /\ d.type = b[1] /\ d.key = SubSeq(b, 4, 3 + kl)
          /\ d.value = SubSeq(b, 4 + kl, Len(b)) /\ d.bytes_consumed = kHeaderSize + kl + vl
      <4>1. d = ok
        BY <3>1 DEF d
      <4> QED
        BY <4>1, Zenon
    <3> QED
      BY <2>6, <3>2, Zenon DEF KeyLenIn, ValueLenIn, kl, vl, b, d
  <2>7. CASE ~Accepted(data)
    <3>1. DecodeRecord(data) \in {Incomplete, Corrupt}
      BY <2>3, <2>4, <2>5, <2>7
    <3> QED
      BY <2>7, <3>1 DEF Incomplete, Corrupt
  <2> QED
    BY <2>6, <2>7
<1> QED
  BY <1>1, <1>2

\* The body that is accepted, byte by byte.
LEMMA BodyInIsSeq ==
    ASSUME NEW data \in Seq(Seq(Nat)), Accepted(data)
    PROVE  /\ BodyIn(data) \in Seq(Nat)
           /\ Len(BodyIn(data)) = 3 + KeyLenIn(data) + ValueLenIn(data)
           /\ \A x \in 1..Len(BodyIn(data)) : BodyIn(data)[x] = NumberIn(data[x + 1])
<1> DEFINE L == 3 + KeyLenIn(data) + ValueLenIn(data)
<1>1. L \in Nat /\ L + 1 <= Len(data)
  BY HeaderIsNat DEF Accepted, kHeaderSize
<1>2. BodyIn(data) = [i \in 1..L |-> NumberIn(data[i + 1])]
  BY DEF BodyIn
<1> HIDE DEF L
<1>3. ASSUME NEW x \in 1..L PROVE NumberIn(data[x + 1]) \in Nat
  <2>1. data[x + 1] \in Seq(Nat)
    BY <1>1
  <2> QED
    BY <2>1, NumberIsNat
<1>4. BodyIn(data) \in Seq(Nat) /\ Len(BodyIn(data)) = L
  BY <1>1, <1>2, <1>3
<1> QED
  BY <1>2, <1>4 DEF L

\* A body and its two lengths give back the record.
LEMMA Decoded ==
    ASSUME NEW r \in WalRecord, NEW data \in Seq(Seq(Nat)), Accepted(data),
           BodyIn(data) = Body(r),
           KeyLenIn(data) = Len(KeyBytes[r.key]), ValueLenIn(data) = Len(ValuePart(r))
    PROVE  LET d == DecodeRecord(data) IN
           /\ d.status = "kOk" /\ RecordOf(d) = r
           /\ d.bytes_consumed = Len(EncodeRecord(r)) /\ d.bytes_consumed <= Len(data)
<1> DEFINE d == DecodeRecord(data)
           K == KeyBytes[r.key]
           V == ValuePart(r)
           m == Len(K)
           n == Len(V)
           b == Body(r)
<1>1. K \in Seq(Nat) /\ V \in Seq(Nat) /\ m \in Nat /\ n \in Nat /\ r.key \in Key /\ r.entry \in Entry
  BY Parts
<1>2. /\ b \in Seq(Nat) /\ Len(b) = 3 + m + n
      /\ b[1] = (IF r.entry = Tombstone THEN kDelete ELSE kPut)
      /\ \A x \in 1..m : b[3 + x] = K[x]
      /\ \A x \in 1..n : b[3 + m + x] = V[x]
  BY BodyBytes
<1>3. /\ d.status = "kOk" /\ d.type = b[1] /\ d.key = SubSeq(b, 4, 3 + m)
      /\ d.value = SubSeq(b, 4 + m, Len(b)) /\ d.bytes_consumed = kHeaderSize + m + n
  BY DecodeCases
<1>4. kHeaderSize + m + n <= Len(data) /\ Len(EncodeRecord(r)) = 1 + Len(b)
  BY EncodedCells DEF Accepted
<1> HIDE DEF d, K, V, m, n, b
<1>5. d.key = K
  <2> DEFINE s == SubSeq(b, 4, 3 + m)
  <2>1. s \in Seq(Nat) /\ Len(s) = m /\ \A x \in 1..m : s[x] = b[3 + x]
    BY <1>1, <1>2
  <2> HIDE DEF s
  <2>2. Len(K) = m /\ \A x \in 1..m : s[x] = K[x]
    BY <1>2, <2>1 DEF m
  <2>3. s = K
    BY <1>1, <2>1, <2>2
  <2> QED
    BY <1>3, <2>3 DEF s
<1>6. d.value = V
  <2> DEFINE s == SubSeq(b, 4 + m, Len(b))
  <2>1. s \in Seq(Nat) /\ Len(s) = n /\ \A x \in 1..n : s[x] = b[3 + m + x]
    BY <1>1, <1>2
  <2> HIDE DEF s
  <2>2. Len(V) = n /\ \A x \in 1..n : s[x] = V[x]
    BY <1>2, <2>1 DEF n
  <2>3. s = V
    BY <1>1, <2>1, <2>2
  <2> QED
    BY <1>3, <2>3 DEF s
<1>7. (CHOOSE k \in Key : KeyBytes[k] = d.key) = r.key
  BY <1>1, <1>5, CodecAssumption DEF K
<1>8. (IF d.type = kDelete THEN Tombstone
       ELSE CHOOSE v \in Value : ValueBytes[v] = d.value) = r.entry
  <2>1. CASE r.entry = Tombstone
    BY <1>2, <1>3, <2>1
  <2>2. CASE r.entry # Tombstone
    <3>1. r.entry \in Value /\ V = ValueBytes[r.entry] /\ d.type # kDelete
      BY <1>1, <1>2, <1>3, <2>2 DEF Entry, V, ValuePart, kDelete, kPut
    <3>2. (CHOOSE v \in Value : ValueBytes[v] = d.value) = r.entry
      BY <1>6, <3>1, CodecAssumption
    <3> QED
      BY <3>1, <3>2
  <2> QED
    BY <2>1, <2>2
<1>9. RecordOf(d) = r
  <2>1. RecordOf(d) = [key |-> r.key, entry |-> r.entry]
    BY <1>7, <1>8, Zenon DEF RecordOf
  <2> QED
    BY <2>1 DEF WalRecord
<1>10. kHeaderSize + m + n = 1 + Len(b)
  BY <1>1, <1>2 DEF kHeaderSize
<1> QED
  BY <1>3, <1>4, <1>9, <1>10 DEF d

\* A whole record decodes to itself, whatever follows it, and its length is
\* what the position is advanced by (wal_record.h: DecodeRecord after
\* EncodeRecord).
THEOREM RoundTrip ==
    ASSUME NEW r \in WalRecord, Fits(r), NEW rest \in Seq(Seq(Nat))
    PROVE  LET d == DecodeRecord(EncodeRecord(r) \o rest) IN
           d.status = "kOk" /\ RecordOf(d) = r /\ d.bytes_consumed = Len(EncodeRecord(r))
<1> DEFINE e == EncodeRecord(r)
           data == e \o rest
           b == Body(r)
           m == Len(KeyBytes[r.key])
           n == Len(ValuePart(r))
<1>1. /\ e \in Seq(Seq(Nat)) /\ Len(e) = 1 + Len(b) /\ e[1] = b
      /\ \A x \in 1..Len(b) : e[x + 1] = <<b[x]>>
  BY EncodedCells
<1>2. /\ KeyBytes[r.key] \in Seq(Nat) /\ ValuePart(r) \in Seq(Nat) /\ m \in Nat /\ n \in Nat
      /\ LengthField(KeyBytes[r.key]) = m /\ LengthField(ValuePart(r)) = n
  BY Parts, LengthFields
<1>3. /\ b \in Seq(Nat) /\ Len(b) = 3 + m + n /\ b[1] \in {kPut, kDelete}
      /\ b[2] = m /\ b[3] = n
  BY BodyBytes, <1>2
<1> HIDE DEF e, b, m, n
<1>4. /\ data \in Seq(Seq(Nat)) /\ Len(e) \in Nat /\ Len(e) <= Len(data)
      /\ \A x \in 1..Len(e) : data[x] = e[x]
  BY <1>1, Joined
<1> HIDE DEF data
<1>5. ASSUME NEW x \in 1 .. 3 + m + n PROVE NumberIn(data[x + 1]) = b[x]
  <2>1. x + 1 \in 1..Len(e) /\ x \in 1..Len(b)
    BY <1>1, <1>2, <1>3
  <2>2. data[x + 1] = <<b[x]>>
    BY <1>1, <1>4, <2>1
  <2> QED
    BY <2>2 DEF NumberIn
<1>6. data[1] = b
  <2>1. 1 \in 1..Len(e)
    BY <1>1, <1>2, <1>3
  <2> QED
    BY <1>1, <1>4, <2>1
<1>7. KeyLenIn(data) = m /\ ValueLenIn(data) = n
  BY <1>2, <1>3, <1>5 DEF KeyLenIn, ValueLenIn
<1>8. BodyIn(data) = b
  <2>1. BodyIn(data) = [i \in 1 .. 3 + m + n |-> b[i]]
    BY <1>5, <1>7 DEF BodyIn
  <2> QED
    BY <1>2, <1>3, <2>1
<1>9. Accepted(data)
  BY <1>1, <1>2, <1>3, <1>4, <1>6, <1>7, <1>8 DEF Accepted, kHeaderSize
<1> QED
  BY <1>4, <1>7, <1>8, <1>9, Decoded DEF e, b, m, n, data

\* A record that is cut short, and one with a length that its field cannot
\* hold, are never accepted (wal_record.h: the size checks and the checksum of
\* DecodeRecord), so that replay stops there.
THEOREM TornIsRejected ==
    ASSUME NEW r \in WalRecord, NEW n \in 0..Len(EncodeRecord(r)),
           n < Len(EncodeRecord(r)) \/ ~Fits(r)
    PROVE  DecodeRecord(SubSeq(EncodeRecord(r), 1, n)).status # "kOk"
<1> DEFINE e == EncodeRecord(r)
           data == SubSeq(e, 1, n)
           b == Body(r)
           K == KeyBytes[r.key]
           V == ValuePart(r)
<1>1. /\ e \in Seq(Seq(Nat)) /\ Len(e) = 1 + Len(b) /\ e[1] = b
      /\ \A x \in 1..Len(b) : e[x + 1] = <<b[x]>>
  BY EncodedCells
<1>2. /\ K \in Seq(Nat) /\ V \in Seq(Nat) /\ Len(K) \in Nat /\ Len(V) \in Nat
      /\ LengthField(K) \in Nat /\ LengthField(V) \in Nat
      /\ LengthField(K) <= Len(K) /\ LengthField(V) <= Len(V)
      /\ LengthField(K) = Len(K) /\ LengthField(V) = Len(V) => Fits(r)
  BY Parts, LengthFields
<1>3. /\ b \in Seq(Nat) /\ Len(b) = 3 + Len(K) + Len(V)
      /\ b[2] = LengthField(K) /\ b[3] = LengthField(V)
  BY BodyBytes
<1>4. n \in 0..Len(e) /\ (n < Len(e) \/ ~Fits(r))
  OBVIOUS
<1> HIDE DEF e, b, K, V
<1>5. Len(e) \in Nat /\ data \in Seq(Seq(Nat)) /\ Len(data) = n /\ \A x \in 1..n : data[x] = e[x]
  BY <1>1, <1>4
<1> HIDE DEF data
<1>6. ASSUME Accepted(data) PROVE FALSE
  <2> DEFINE kl == KeyLenIn(data)
             vl == ValueLenIn(data)
  <2>1. /\ n >= 4 /\ 4 + kl + vl <= n /\ Len(BodyIn(data)) = 3 + kl + vl
        /\ kl \in Nat /\ vl \in Nat
    <3>1. kHeaderSize <= Len(data) /\ kHeaderSize + kl + vl <= Len(data)
      BY <1>6 DEF Accepted
    <3>2. kl \in Nat /\ vl \in Nat
      BY <1>5, <3>1, HeaderIsNat
    <3>3. Len(BodyIn(data)) = 3 + kl + vl
      BY <1>5, <1>6, BodyInIsSeq
    <3> HIDE DEF kl, vl
    <3> QED
      BY <1>4, <1>5, <3>1, <3>2, <3>3 DEF kHeaderSize
  <2> HIDE DEF kl, vl
  <2>2. data[1] = b /\ data[3] = <<b[2]>> /\ data[4] = <<b[3]>>
    <3>1. 1 \in 1..n /\ 3 \in 1..n /\ 4 \in 1..n /\ 2 \in 1..Len(b) /\ 3 \in 1..Len(b)
      BY <1>2, <1>3, <1>4, <2>1
    <3>2. e[2 + 1] = <<b[2]>> /\ e[3 + 1] = <<b[3]>>
      BY <1>1, <3>1
    <3>3. data[1] = e[1] /\ data[3] = e[3] /\ data[4] = e[4]
      BY <1>5, <3>1
    <3>4. e[1] = b /\ 2 + 1 = 3 /\ 3 + 1 = 4
      BY <1>1
    <3> QED
      BY <3>2, <3>3, <3>4, Zenon
  <2>3. kl = LengthField(K) /\ vl = LengthField(V)
    BY <1>3, <2>2 DEF kl, vl, KeyLenIn, ValueLenIn, NumberIn
  <2>4. Len(BodyIn(data)) = 3 + Len(K) + Len(V)
    BY <1>3, <1>6, <2>2 DEF Accepted
  <2>5. LengthField(K) = Len(K) /\ LengthField(V) = Len(V)
    <3> DEFINE k == Len(K)
               v == Len(V)
    <3>1. 3 + kl + vl = 3 + k + v /\ k \in Nat /\ v \in Nat /\ kl <= k /\ vl <= v
      BY <1>2, <2>1, <2>3, <2>4
    <3> HIDE DEF k, v
    <3>2. kl = k /\ vl = v
      BY <2>1, <3>1
    <3> QED
      BY <2>3, <3>2 DEF k, v
  <2> QED
    BY <1>1, <1>2, <1>3, <1>4, <2>1, <2>4, <2>5
<1> QED
  BY <1>5, <1>6, DecodeCases DEF e, data

\* The cells that a log can hold: numbers, checksums, and checksums that went
\* bad.
GoodCell ==
    {c \in Seq(Nat) : \/ Len(c) = 1
                      \/ \E r \in WalRecord, s \in Seq(Nat) : c = Body(r) \o s}

\* All the cells of a record are good.
LEMMA EncodedGood ==
    ASSUME NEW r \in WalRecord
    PROVE  /\ EncodeRecord(r) \in Seq(GoodCell) /\ EncodeRecord(r) # <<>>
           /\ Len(EncodeRecord(r)) \in Nat
<1> DEFINE e == EncodeRecord(r)
           b == Body(r)
           L == Len(b)
<1>1. b \in Seq(Nat) /\ L \in Nat
  BY BodyBytes
<1>2. /\ e \in Seq(Seq(Nat)) /\ Len(e) = 1 + L /\ e[1] = b
      /\ \A x \in 1..L : e[x + 1] = <<b[x]>>
  BY EncodedCells
<1>3. b \in GoodCell
  <2>1. b \o <<>> = b /\ <<>> \in Seq(Nat)
    BY <1>1, ConcatEmptySeq
  <2> QED
    BY <1>1, <2>1 DEF GoodCell
<1> HIDE DEF e, b, L
<1>4. ASSUME NEW x \in 1..Len(e) PROVE e[x] \in GoodCell
  <2>1. CASE x = 1
    BY <1>2, <1>3, <2>1
  <2>2. CASE x # 1
    <3>1. x - 1 \in 1..L /\ (x - 1) + 1 = x
      BY <1>1, <1>2, <2>2
    <3>2. e[x] = <<b[x - 1]>>
      BY <1>2, <3>1
    <3>3. b[x - 1] \in Nat
      BY <1>1, <3>1 DEF L
    <3>4. e[x] \in Seq(Nat) /\ Len(e[x]) = 1
      BY <3>2, <3>3
    <3> QED
      BY <3>4 DEF GoodCell
  <2> QED
    BY <2>1, <2>2
<1>5. e \in Seq(GoodCell) /\ Len(e) \in Nat /\ Len(e) # 0
  BY <1>1, <1>2, <1>4
<1> QED
  BY <1>5 DEF e

\* What DecodeRecord accepts is a record that can be written, with the length
\* of its encoding, even among cells that went bad.
THEOREM DecodeIsSound ==
    ASSUME NEW data \in Seq(GoodCell), DecodeRecord(data).status = "kOk"
    PROVE  LET d == DecodeRecord(data) IN
           /\ RecordOf(d) \in WalRecord /\ Fits(RecordOf(d))
           /\ d.bytes_consumed = Len(EncodeRecord(RecordOf(d)))
           /\ d.bytes_consumed <= Len(data) /\ BodyIn(data) = Body(RecordOf(d))
<1> DEFINE kl == KeyLenIn(data)
           vl == ValueLenIn(data)
           b == BodyIn(data)
<1>1. GoodCell \subseteq Seq(Nat) /\ data \in Seq(Seq(Nat))
  <2>1. GoodCell \subseteq Seq(Nat)
    BY DEF GoodCell
  <2> QED
    BY <2>1
<1>2. Accepted(data)
  BY <1>1, DecodeCases
<1>3. kl \in Nat /\ vl \in Nat /\ Len(data) >= 4 /\ b = data[1] /\ data[1] \in GoodCell
  BY <1>1, <1>2, HeaderIsNat DEF Accepted, kHeaderSize
<1>4. /\ b \in Seq(Nat) /\ Len(b) = 3 + kl + vl
      /\ \A x \in 1..Len(b) : b[x] = NumberIn(data[x + 1])
  BY <1>1, <1>2, BodyInIsSeq
<1>5. b[2] = kl /\ b[3] = vl
  BY <1>3, <1>4 DEF KeyLenIn, ValueLenIn
<1> HIDE DEF b, kl, vl
<1>6. Len(b) # 1
  BY <1>3, <1>4
<1>7. PICK r \in WalRecord, s \in Seq(Nat) : b = Body(r) \o s
  BY <1>3, <1>6 DEF GoodCell
<1> DEFINE K == KeyBytes[r.key]
           V == ValuePart(r)
           B == Body(r)
<1>8. /\ K \in Seq(Nat) /\ V \in Seq(Nat) /\ Len(K) \in Nat /\ Len(V) \in Nat
      /\ LengthField(K) <= Len(K) /\ LengthField(V) <= Len(V)
      /\ LengthField(K) = Len(K) /\ LengthField(V) = Len(V) => Fits(r)
  BY Parts, LengthFields
<1>9. /\ B \in Seq(Nat) /\ Len(B) = 3 + Len(K) + Len(V)
      /\ B[2] = LengthField(K) /\ B[3] = LengthField(V)
  BY BodyBytes
<1> HIDE DEF K, V, B
<1>10. Len(b) = Len(B) + Len(s) /\ Len(s) \in Nat /\ \A x \in 1..Len(B) : b[x] = B[x]
  <2>1. b = B \o s /\ B \in Seq(Nat) /\ s \in Seq(Nat)
    BY <1>7, <1>9 DEF B
  <2>2. /\ Len(B \o s) = Len(B) + Len(s) /\ Len(s) \in Nat
        /\ \A x \in 1..Len(B) : (B \o s)[x] = B[x]
    BY <2>1, Joined
  <2> QED
    BY <2>1, <2>2
<1>11. kl = LengthField(K) /\ vl = LengthField(V)
  BY <1>5, <1>8, <1>9, <1>10
<1>12. kl = Len(K) /\ vl = Len(V) /\ Len(s) = 0
  <2> DEFINE m == Len(K)
             n == Len(V)
             z == Len(s)
  <2>1. 3 + kl + vl = 3 + m + n + z
    BY <1>4, <1>9, <1>10
  <2>2. m \in Nat /\ n \in Nat /\ z \in Nat /\ kl <= m /\ vl <= n
    BY <1>8, <1>10, <1>11
  <2> HIDE DEF m, n, z
  <2>3. kl = m /\ vl = n /\ z = 0
    BY <1>3, <2>1, <2>2
  <2> QED
    BY <2>3 DEF m, n, z
<1>13. b = B
  BY <1>4, <1>9, <1>10, <1>12
<1>14. Fits(r)
  BY <1>8, <1>11, <1>12
<1>15. BodyIn(data) = Body(r) /\ KeyLenIn(data) = Len(KeyBytes[r.key])
       /\ ValueLenIn(data) = Len(ValuePart(r))
  BY <1>12, <1>13 DEF b, kl, vl, K, V, B
<1>16. LET d == DecodeRecord(data) IN
       RecordOf(d) = r /\ d.bytes_consumed = Len(EncodeRecord(r)) /\ d.bytes_consumed <= Len(data)
  BY <1>1, <1>2, <1>15, Decoded
<1> QED
  BY <1>14, <1>15, <1>16

-----------------------------------------------------------------------------
(* RecordsIn *)

\* Every rank is taken.
LEMMA NthHasRank ==
    ASSUME NEW S \in SUBSET Int, IsFiniteSet(S), NEW n \in 1..Cardinality(S)
    PROVE  Nth(S, n) \in S /\ Rank(S, Nth(S, n)) = n
<1> DEFINE c == Cardinality(S)
           Below(p) == {q \in S : q <= p}
           f == [p \in S |-> Rank(S, p)]
<1>1. c \in Nat
  BY FS_CardinalityType
<1>2. ASSUME NEW p \in S
      PROVE  IsFiniteSet(Below(p)) /\ Rank(S, p) \in 1..c /\ Rank(S, p) = Cardinality(Below(p))
  <2>1. Below(p) \in SUBSET S /\ Below(p) # {}
    OBVIOUS
  <2>2. IsFiniteSet(Below(p)) /\ Cardinality(Below(p)) <= c
    BY <2>1, FS_Subset
  <2>3. Cardinality(Below(p)) \in Nat /\ Cardinality(Below(p)) # 0
    BY <2>1, <2>2, FS_CardinalityType, FS_EmptySet
  <2>4. Rank(S, p) = Cardinality(Below(p))
    BY DEF Rank
  <2> QED
    BY <1>1, <2>2, <2>3, <2>4
<1>3. ASSUME NEW p \in S, NEW q \in S, p < q PROVE Rank(S, p) # Rank(S, q)
  <2>1. Below(p) \in SUBSET Below(q) /\ q \in Below(q) /\ q \notin Below(p)
    <3>1. p \in Int /\ q \in Int /\ q <= q /\ ~(q <= p)
      BY <1>3
    <3>2. \A x \in S : x <= p => x <= q
      BY <1>3, <3>1
    <3> QED
      BY <3>1, <3>2, Zenon
  <2>2. Cardinality(Below(q)) # Cardinality(Below(p))
    BY <1>2, <2>1, FS_Subset
  <2> QED
    BY <1>2, <2>2
<1>4. f \in [S -> 1..c] /\ \A p, q \in S : f[p] = f[q] => p = q
  <2>1. \A p, q \in S : p = q \/ p < q \/ q < p
    OBVIOUS
  <2> QED
    BY <1>2, <1>3, <2>1
<1>5. f \in Injection(S, 1..c)
  BY <1>4 DEF Injection, IsInjective
<1>6. IsFiniteSet(1..c) /\ Cardinality(1..c) = c
  BY <1>1, FS_Interval
<1>7. f \in Surjection(S, 1..c)
  BY <1>5, <1>6, FS_Injection
<1>8. \E p \in S : f[p] = n
  BY <1>7 DEF Surjection
<1>9. \E p \in S : Rank(S, p) = n
  BY <1>8
<1> QED
  BY <1>9 DEF Nth

\* A new greatest element has the last rank, and the others keep theirs.
LEMMA NthAfterLast ==
    ASSUME NEW S \in SUBSET Int, IsFiniteSet(S), NEW p \in Int, \A q \in S : q < p
    PROVE  LET T == S \cup {p} IN
           /\ IsFiniteSet(T) /\ Cardinality(T) = Cardinality(S) + 1
           /\ Nth(T, Cardinality(S) + 1) = p
           /\ \A n \in 1..Cardinality(S) : Nth(T, n) = Nth(S, n)
<1> DEFINE T == S \cup {p}
           c == Cardinality(S)
<1>1. c \in Nat /\ p \notin S
  BY FS_CardinalityType
<1>2. IsFiniteSet(T) /\ Cardinality(T) = c + 1
  BY <1>1, FS_AddElement
<1>3. ASSUME NEW q \in S PROVE Rank(T, q) = Rank(S, q) /\ Rank(S, q) \in Nat /\ Rank(S, q) <= c
  <2>1. {x \in T : x <= q} = {x \in S : x <= q}
    OBVIOUS
  <2>2. {x \in S : x <= q} \in SUBSET S
    OBVIOUS
  <2>3. /\ Cardinality({x \in S : x <= q}) <= c
        /\ Cardinality({x \in S : x <= q}) \in Nat
    BY <2>2, FS_Subset, FS_CardinalityType
  <2> QED
    BY <2>1, <2>3 DEF Rank
<1>4. Rank(T, p) = c + 1
  <2>1. \A x \in T : x <= p
    OBVIOUS
  <2>2. {x \in T : x <= p} = T
    BY <2>1
  <2> QED
    BY <1>2, <2>2 DEF Rank
<1>5. ASSUME NEW q \in T, Rank(T, q) = c + 1 PROVE q = p
  BY <1>1, <1>3, <1>5
<1>6. Nth(T, c + 1) = p
  BY <1>4, <1>5 DEF Nth
<1>7. ASSUME NEW n \in 1..c PROVE Nth(T, n) = Nth(S, n)
  <2>1. \A q : q \in T /\ Rank(T, q) = n <=> q \in S /\ Rank(S, q) = n
    <3>1. Rank(T, p) # n
      BY <1>1, <1>4
    <3> QED
      BY <1>3, <3>1
  <2> QED
    BY <2>1, Zenon DEF Nth
<1> QED
  BY <1>2, <1>6, <1>7

\* What a file can hold, as far as the reference definition is concerned.
File == Seq(Seq(Nat))

\* The starts in a file are finitely many positions.
LEMMA StartsType ==
    ASSUME NEW f \in File
    PROVE  StartsIn(f) \in SUBSET Int /\ IsFiniteSet(StartsIn(f)) /\ Cardinality(StartsIn(f)) \in Nat
<1>1. Len(f) \in Nat /\ StartsIn(f) \in SUBSET (1..Len(f))
  BY DEF File, StartsIn
<1>2. IsFiniteSet(1..Len(f))
  BY <1>1, FS_Interval
<1> QED
  BY <1>1, <1>2, FS_Subset, FS_CardinalityType

\* Encoding is EncodeRecord on the records whose lengths fit.
LEMMA EncodingDomain ==
    /\ \A r \in DOMAIN Encoding :
          r \in WalRecord /\ Fits(r) /\ Encoding[r] = EncodeRecord(r)
    /\ \A r \in WalRecord : Fits(r) => r \in DOMAIN Encoding
BY DEF Encoding

\* A record starts with the only checksum cell it has.
LEMMA EncodedStarts ==
    ASSUME NEW r \in WalRecord
    PROVE  LET e == EncodeRecord(r) IN
           /\ e \in File /\ Len(e) \in Nat /\ Len(e) >= 4 /\ Len(e[1]) > 1
           /\ \A x \in 1..Len(e) : Len(e[x]) > 1 => x = 1
<1> DEFINE e == EncodeRecord(r)
           b == Body(r)
           L == Len(b)
<1>1. /\ e \in File /\ Len(e) = 1 + L /\ e[1] = b
      /\ \A x \in 1..L : e[x + 1] = <<b[x]>>
  BY EncodedCells DEF File
<1>2. L \in Nat /\ L >= 3
  <2>1. /\ Len(KeyBytes[r.key]) \in Nat /\ Len(ValuePart(r)) \in Nat
        /\ L = 3 + Len(KeyBytes[r.key]) + Len(ValuePart(r))
    BY Parts, BodyBytes
  <2> QED
    BY <2>1
<1> HIDE DEF e, b, L
<1>3. ASSUME NEW x \in 1..Len(e), x # 1 PROVE ~(Len(e[x]) > 1)
  <2>1. x - 1 \in 1..L /\ (x - 1) + 1 = x
    BY <1>1, <1>2, <1>3
  <2>2. e[x] = <<b[x - 1]>>
    BY <1>1, <2>1
  <2> QED
    BY <2>2
<1>4. Len(e[1]) > 1 /\ Len(e) \in Nat /\ Len(e) >= 4
  BY <1>1, <1>2 DEF L
<1>5. \A x \in 1..Len(e) : Len(e[x]) > 1 => x = 1
  BY <1>3, Zenon
<1> QED
  BY <1>1, <1>4, <1>5 DEF e

\* No two records have the same encoding.
LEMMA EncodeInjective ==
    ASSUME NEW q \in WalRecord, NEW r \in WalRecord, Fits(q), Fits(r),
           EncodeRecord(q) = EncodeRecord(r)
    PROVE  q = r
<1> DEFINE none == SubSeq(EncodeRecord(r), 1, 0)
<1>1. none \in Seq(Seq(Nat))
  BY EncodedCells
<1>2. /\ RecordOf(DecodeRecord(EncodeRecord(q) \o none)) = q
      /\ RecordOf(DecodeRecord(EncodeRecord(r) \o none)) = r
  BY <1>1, RoundTrip
<1> QED
  BY <1>2

\* What starts somewhere is a record or Torn.
LEMMA RecordAtType ==
    ASSUME NEW f, NEW i
    PROVE  RecordAt(f, i) \in WalRecord \cup {Torn}
<1> DEFINE rs == {r \in DOMAIN Encoding : IsRecordAt(f, i, r)}
<1>1. rs \subseteq WalRecord
  BY EncodingDomain
<1>2. RecordAt(f, i) = IF rs = {} THEN Torn ELSE CHOOSE r \in rs : TRUE
  BY Zenon DEF RecordAt
<1> HIDE DEF rs
<1> QED
  BY <1>1, <1>2

\* A file holds one record, or Torn, for each start.
LEMMA RecordsType ==
    ASSUME NEW f \in File
    PROVE  /\ RecordsIn(f) \in Seq(WalRecord \cup {Torn})
           /\ Len(RecordsIn(f)) = Cardinality(StartsIn(f))
<1> DEFINE c == Cardinality(StartsIn(f))
<1>1. c \in Nat
  BY StartsType
<1>2. RecordsIn(f) = [n \in 1..c |-> RecordAt(f, Nth(StartsIn(f), n))]
  BY Zenon DEF RecordsIn
<1> HIDE DEF c
<1>3. \A n \in 1..c : RecordAt(f, Nth(StartsIn(f), n)) \in WalRecord \cup {Torn}
  BY RecordAtType
<1>4. RecordsIn(f) \in Seq(WalRecord \cup {Torn}) /\ Len(RecordsIn(f)) = c
  BY <1>1, <1>2, <1>3
<1> QED
  BY <1>4 DEF c

\* What starts in a file is the same record when more is written behind it.
LEMMA RecordKept ==
    ASSUME NEW f \in File, NEW g \in File, Len(g) > 0 => Len(g[1]) > 1,
           NEW p \in StartsIn(f)
    PROVE  RecordAt(f \o g, p) = RecordAt(f, p)
<1> DEFINE h == f \o g
           m == Len(f)
           n == Len(g)
<1>1. /\ h \in File /\ Len(h) = m + n /\ m \in Nat /\ n \in Nat
      /\ \A x \in 1..m : h[x] = f[x]
  BY Joined DEF File
<1>2. n > 0 => Len(h[m + 1]) > 1
  <2>1. \A x \in 1..n : h[m + x] = g[x]
    BY Joined DEF File
  <2> QED
    BY <1>1, <2>1
<1>3. p \in 1..m
  BY DEF StartsIn
<1> HIDE DEF h, m, n
<1>4. ASSUME NEW r \in DOMAIN Encoding PROVE IsRecordAt(h, p, r) <=> IsRecordAt(f, p, r)
  <2> DEFINE e == Encoding[r]
             next == p + Len(e)
  <2>1. /\ e \in File /\ Len(e) \in Nat /\ Len(e) >= 4
        /\ \A x \in 1..Len(e) : Len(e[x]) > 1 => x = 1
    BY EncodingDomain, EncodedStarts
  <2> HIDE DEF e
  <2>2. next \in Int /\ next > p
    BY <1>3, <2>1
  <2>3. /\ IsRecordAt(h, p, r) <=> /\ next \in StartsIn(h) \cup {Len(h) + 1}
                                   /\ SubSeq(h, p, next - 1) = e
        /\ IsRecordAt(f, p, r) <=> /\ next \in StartsIn(f) \cup {m + 1}
                                   /\ SubSeq(f, p, next - 1) = e
    BY Zenon DEF IsRecordAt, e, m
  <2> HIDE DEF next
  <2>4. CASE next <= m + 1
    <3>1. SubSeq(h, p, next - 1) = SubSeq(f, p, next - 1)
      <4> DEFINE a == SubSeq(h, p, next - 1)
                 b == SubSeq(f, p, next - 1)
                 l == next - p
      <4>1. l \in Nat /\ p + l = next
        BY <1>3, <2>2
      <4>2. a \in File /\ Len(a) = l /\ \A x \in 1..l : a[x] = h[p + x - 1]
        BY <1>1, <1>3, <2>2, <2>4 DEF File
      <4>3. b \in File /\ Len(b) = l /\ \A x \in 1..l : b[x] = f[p + x - 1]
        <5>1. f \in Seq(Seq(Nat)) /\ Len(f) = m
          BY DEF File, m
        <5>2. p \in Nat /\ p > 0 /\ next \in Int /\ p < next /\ next - 1 <= m
          BY <1>1, <1>3, <2>2, <2>4
        <5> HIDE DEF m
        <5>3. Len(b) = l /\ \A x \in 1..l : b[x] = f[p + x - 1]
          BY <5>1, <5>2
        <5>4. b \in Seq(Seq(Nat))
          BY <5>1, <5>2
        <5> QED
          BY <5>3, <5>4 DEF File
      <4> HIDE DEF a, b, l
      <4>4. \A x \in 1..l : p + x - 1 \in 1..m
        BY <1>1, <1>3, <2>4, <4>1
      <4>5. \A x \in 1..l : a[x] = b[x]
        BY <1>1, <4>2, <4>3, <4>4
      <4>6. a = b
        BY <4>2, <4>3, <4>5 DEF File
      <4> QED
        BY <4>6 DEF a, b
    <3>2. next \in StartsIn(f) \cup {m + 1} <=> next \in StartsIn(h) \cup {Len(h) + 1}
      <4>1. CASE next = m + 1
        <5>1. CASE n = 0
          BY <1>1, <4>1, <5>1
        <5>2. CASE n # 0
          <6>1. n > 0 /\ m + 1 \in 1..Len(h)
            BY <1>1, <5>2
          <6> QED
            BY <1>2, <4>1, <6>1 DEF StartsIn
        <5> QED
          BY <5>1, <5>2
      <4>2. CASE next # m + 1
        <5>1. next \in 1..m /\ next # Len(h) + 1 /\ next \in 1..Len(h)
          BY <1>1, <1>3, <2>2, <2>4, <4>2
        <5>2. h[next] = f[next]
          BY <1>1, <5>1
        <5> QED
          BY <4>2, <5>1, <5>2 DEF StartsIn, m
      <4> QED
        BY <4>1, <4>2
    <3> QED
      BY <2>3, <3>1, <3>2
  <2>5. CASE ~(next <= m + 1)
    <3>1. next \notin StartsIn(f) \cup {m + 1}
      BY <1>1, <2>2, <2>5 DEF StartsIn, m
    <3>2. ASSUME next \in StartsIn(h) \cup {Len(h) + 1}, SubSeq(h, p, next - 1) = e PROVE FALSE
      <4> DEFINE x == (m + 1) - p + 1
      <4>1. n > 0 /\ next - 1 <= Len(h) /\ x \in 2..Len(e) /\ p + x - 1 = m + 1
        <5>1. next <= Len(h) + 1
          BY <1>1, <3>2 DEF StartsIn
        <5> QED
          BY <1>1, <1>3, <2>1, <2>2, <2>5, <5>1 DEF next
      <4>2. e[x] = h[m + 1]
        <5>1. x \in 1 .. next - p
          BY <1>1, <1>3, <2>1, <2>2, <2>5
        <5>2. SubSeq(h, p, next - 1)[x] = h[p + x - 1]
          BY <1>1, <1>3, <2>2, <4>1, <5>1 DEF File
        <5> QED
          BY <3>2, <4>1, <5>2
      <4> QED
        BY <1>2, <2>1, <4>1, <4>2
    <3> QED
      BY <2>3, <3>1, <3>2
  <2> QED
    BY <2>4, <2>5
<1> DEFINE A == {r \in DOMAIN Encoding : IsRecordAt(h, p, r)}
           B == {r \in DOMAIN Encoding : IsRecordAt(f, p, r)}
<1>5. A = B
  BY <1>4, Zenon
<1>6. /\ RecordAt(h, p) = IF A = {} THEN Torn ELSE CHOOSE r \in A : TRUE
      /\ RecordAt(f, p) = IF B = {} THEN Torn ELSE CHOOSE r \in B : TRUE
  BY Zenon DEF RecordAt
<1> HIDE DEF A, B
<1>7. RecordAt(h, p) = RecordAt(f, p)
  BY <1>5, <1>6
<1> QED
  BY <1>7 DEF h

\* What one append may add: a checksum cell and numbers.
Piece(g) ==
    /\ g \in File /\ Len(g) > 0 /\ Len(g[1]) > 1
    /\ \A x \in 1..Len(g) : Len(g[x]) > 1 => x = 1

\* An append adds one start, where the file ended.
LEMMA StartsAppend ==
    ASSUME NEW f \in File, NEW g, Piece(g)
    PROVE  StartsIn(f \o g) = StartsIn(f) \cup {Len(f) + 1}
<1> DEFINE h == f \o g
           m == Len(f)
           n == Len(g)
<1>1. g \in File /\ n > 0 /\ Len(g[1]) > 1 /\ \A x \in 1..n : Len(g[x]) > 1 => x = 1
  BY DEF Piece
<1>2. Len(h) = m + n /\ m \in Nat /\ n \in Nat /\ \A x \in 1..m : h[x] = f[x]
  BY <1>1, Joined DEF File
<1>3. \A x \in 1..n : h[m + x] = g[x]
  BY <1>1, Joined DEF File
<1> HIDE DEF h, m, n
<1>4. StartsIn(f) = {i \in 1..m : Len(f[i]) > 1} /\ StartsIn(h) = {i \in 1..Len(h) : Len(h[i]) > 1}
  BY DEF StartsIn, m
<1>5. ASSUME NEW i \in StartsIn(h) PROVE i \in StartsIn(f) \cup {m + 1}
  <2>1. i \in 1 .. m + n /\ Len(h[i]) > 1
    BY <1>2, <1>4
  <2>2. CASE i <= m
    <3>1. i \in 1..m
      BY <1>2, <2>1, <2>2
    <3> QED
      BY <1>2, <1>4, <2>1, <3>1
  <2>3. CASE ~(i <= m)
    <3>1. i - m \in 1..n /\ m + (i - m) = i
      BY <1>2, <2>1, <2>3
    <3>2. i - m = 1
      BY <1>1, <1>3, <2>1, <3>1
    <3> QED
      BY <1>2, <2>1, <3>2
  <2> QED
    BY <2>2, <2>3
<1>6. ASSUME NEW i \in StartsIn(f) PROVE i \in StartsIn(h)
  <2>1. i \in 1..m /\ Len(f[i]) > 1 /\ i \in 1..Len(h)
    BY <1>2, <1>4
  <2> QED
    BY <1>2, <1>4, <2>1
<1>7. m + 1 \in StartsIn(h)
  <2>1. m + 1 \in 1..Len(h) /\ 1 \in 1..n
    BY <1>1, <1>2
  <2>2. h[m + 1] = g[1]
    BY <1>3, <2>1
  <2> QED
    BY <1>1, <1>4, <2>1, <2>2
<1>8. StartsIn(h) = StartsIn(f) \cup {m + 1}
  BY <1>5, <1>6, <1>7
<1> QED
  BY <1>8 DEF h, m

\* It is the record that it is the whole encoding of, if there is one.
LEMMA RecordLast ==
    ASSUME NEW f \in File, NEW g, Piece(g)
    PROVE  /\ \A r \in WalRecord : Fits(r) /\ EncodeRecord(r) = g => RecordAt(f \o g, Len(f) + 1) = r
           /\ (\A r \in WalRecord : Fits(r) => EncodeRecord(r) # g) => RecordAt(f \o g, Len(f) + 1) = Torn
<1> DEFINE h == f \o g
           m == Len(f)
           n == Len(g)
           A == {r \in DOMAIN Encoding : IsRecordAt(h, m + 1, r)}
<1>1. g \in File /\ n > 0
  BY DEF Piece
<1>2. h \in File /\ Len(h) = m + n /\ m \in Nat /\ n \in Nat
  BY <1>1, Joined DEF File
<1>3. \A x \in 1..n : h[m + x] = g[x]
  BY <1>1, Joined DEF File
<1>4. StartsIn(h) = StartsIn(f) \cup {m + 1} /\ \A i \in StartsIn(f) : i <= m
  <2>1. \A i \in StartsIn(f) : i <= m
    BY DEF StartsIn
  <2> QED
    BY <2>1, StartsAppend
<1> HIDE DEF h, m, n
<1>5. SubSeq(h, m + 1, m + n) = g
  <2> DEFINE s == SubSeq(h, m + 1, m + n)
  <2>1. s \in File /\ Len(s) = n /\ \A x \in 1..n : s[x] = h[m + x]
    BY <1>2 DEF File
  <2> HIDE DEF s
  <2>2. \A x \in 1..n : s[x] = g[x]
    BY <1>3, <2>1
  <2>3. s = g
    <3>1. s \in Seq(Seq(Nat)) /\ g \in Seq(Seq(Nat)) /\ Len(s) = n /\ Len(g) = n
      BY <1>1, <2>1 DEF File, n
    <3> QED
      BY <2>2, <3>1
  <2> QED
    BY <2>3 DEF s
<1>6. ASSUME NEW r \in DOMAIN Encoding PROVE IsRecordAt(h, m + 1, r) <=> EncodeRecord(r) = g
  <2> DEFINE e == Encoding[r]
             l == Len(e)
  <2>1. e = EncodeRecord(r) /\ l \in Nat /\ l >= 4
    BY EncodingDomain, EncodedStarts
  <2>2. IsRecordAt(h, m + 1, r) <=> /\ (m + 1) + l \in StartsIn(h) \cup {Len(h) + 1}
                                    /\ SubSeq(h, m + 1, ((m + 1) + l) - 1) = e
    BY Zenon DEF IsRecordAt
  <2>3. e = g => l = n
    BY DEF n
  <2> HIDE DEF e, l
  <2>4. (m + 1) + l \in StartsIn(h) \cup {Len(h) + 1} <=> l = n
    <3>1. (m + 1) + l # m + 1 /\ ~((m + 1) + l <= m)
      BY <1>2, <2>1
    <3>2. (m + 1) + l = Len(h) + 1 <=> l = n
      BY <1>2, <2>1
    <3> QED
      BY <1>4, <3>1, <3>2
  <2>5. ((m + 1) + l) - 1 = m + l
    BY <1>2, <2>1
  <2> QED
    BY <1>5, <2>1, <2>2, <2>3, <2>4, <2>5, Zenon
<1>7. RecordAt(h, m + 1) = IF A = {} THEN Torn ELSE CHOOSE r \in A : TRUE
  BY Zenon DEF RecordAt
<1>8. A = {r \in DOMAIN Encoding : EncodeRecord(r) = g}
  BY <1>6, Zenon
<1> HIDE DEF A
<1>9. ASSUME NEW r \in WalRecord, Fits(r), EncodeRecord(r) = g PROVE RecordAt(h, m + 1) = r
  <2>1. A = {r}
    BY <1>8, <1>9, EncodingDomain, EncodeInjective
  <2> QED
    BY <1>7, <2>1
<1>10. ASSUME \A r \in WalRecord : Fits(r) => EncodeRecord(r) # g PROVE RecordAt(h, m + 1) = Torn
  <2>1. A = {}
    BY <1>8, <1>10, EncodingDomain
  <2> QED
    BY <1>7, <2>1
<1> QED
  BY <1>9, <1>10 DEF h, m

\* An append adds one element to the records of the file.
LEMMA RecordsAppend ==
    ASSUME NEW f \in File, NEW g, Piece(g)
    PROVE  RecordsIn(f \o g) = Append(RecordsIn(f), RecordAt(f \o g, Len(f) + 1))
<1> DEFINE h == f \o g
           p == Len(f) + 1
           S == StartsIn(f)
           T == StartsIn(h)
           c == Cardinality(S)
           v == RecordsIn(f)
           w == Append(v, RecordAt(h, p))
<1>1. S \in SUBSET Int /\ IsFiniteSet(S) /\ c \in Nat /\ p \in Int /\ \A q \in S : q < p
  BY StartsType DEF File, StartsIn
<1>2. T = S \cup {p}
  BY StartsAppend
<1>3. \A q \in S : RecordAt(h, q) = RecordAt(f, q)
  BY RecordKept DEF Piece
<1>4. v \in Seq(WalRecord \cup {Torn}) /\ Len(v) = c /\ RecordAt(h, p) \in WalRecord \cup {Torn}
  BY RecordsType, RecordAtType
<1>5. /\ RecordsIn(h) = [n \in 1..Cardinality(T) |-> RecordAt(h, Nth(T, n))]
      /\ v = [n \in 1..c |-> RecordAt(f, Nth(S, n))]
  BY Zenon DEF RecordsIn
<1> HIDE DEF h, p, S, T, c, v
<1>6. Cardinality(T) = c + 1 /\ Nth(T, c + 1) = p /\ \A n \in 1..c : Nth(T, n) = Nth(S, n)
  BY <1>1, <1>2, NthAfterLast DEF c
<1>7. w = [n \in 1 .. c + 1 |-> IF n = c + 1 THEN RecordAt(h, p) ELSE v[n]]
  <2> DEFINE U == WalRecord \cup {Torn}
             x == RecordAt(h, p)
             u == [n \in 1 .. c + 1 |-> IF n = c + 1 THEN x ELSE v[n]]
  <2>1. c \in Nat /\ v \in Seq(U) /\ Len(v) = c /\ x \in U
    BY <1>1, <1>4
  <2> HIDE DEF U, x
  <2>2. w = Append(v, x)
    BY DEF x
  <2> HIDE DEF w
  <2>3. w \in Seq(U) /\ Len(w) = c + 1 /\ w[c + 1] = x /\ \A n \in 1..c : w[n] = v[n]
    BY <2>1, <2>2, AppendProperties
  <2>4. u \in Seq(U) /\ Len(u) = c + 1 /\ u[c + 1] = x /\ \A n \in 1..c : u[n] = v[n]
    <3>1. \A n \in 1 .. c + 1 : n = c + 1 \/ n \in 1..c
      BY <2>1
    <3>2. \A n \in 1..c : n # c + 1 /\ n \in 1 .. c + 1 /\ v[n] \in U
      BY <2>1
    <3>3. c + 1 \in Nat /\ c + 1 \in 1 .. c + 1
      BY <2>1
    <3>4. u \in Seq(U) /\ Len(u) = c + 1
      BY <2>1, <3>1, <3>2, <3>3
    <3> QED
      BY <3>2, <3>3, <3>4
  <2> HIDE DEF u
  <2>5. \A n \in 1 .. c + 1 : w[n] = u[n]
    BY <2>1, <2>3, <2>4
  <2>6. w = u
    BY <2>1, <2>3, <2>4, <2>5, SeqEqual
  <2> QED
    BY <2>6 DEF u, x
<1>8. ASSUME NEW n \in 1 .. c + 1
      PROVE  RecordAt(h, Nth(T, n)) = IF n = c + 1 THEN RecordAt(h, p) ELSE v[n]
  <2>1. CASE n = c + 1
    BY <1>6, <2>1
  <2>2. CASE n # c + 1
    <3>1. n \in 1..c
      BY <1>1, <2>2
    <3>2. Nth(S, n) \in S
      BY <1>1, <3>1, NthHasRank DEF c
    <3>3. v[n] = RecordAt(f, Nth(S, n))
      BY <1>5, <3>1
    <3> QED
      BY <1>3, <1>6, <2>2, <3>1, <3>2, <3>3
  <2> QED
    BY <2>1, <2>2
<1>9. RecordsIn(h) = w
  BY <1>5, <1>6, <1>7, <1>8
<1> QED
  BY <1>9 DEF h, p, v

-----------------------------------------------------------------------------
(* Logs that only whole appends and one unfinished append have written *)

\* The first n cells of a record.
Cut(r, n) == SubSeq(EncodeRecord(r), 1, n)

\* A cut is a piece, and only the whole of it is the encoding of a record.
LEMMA CutIsPiece ==
    ASSUME NEW r \in WalRecord, NEW n \in 1..Len(EncodeRecord(r))
    PROVE  /\ Piece(Cut(r, n)) /\ Len(Cut(r, n)) = n
           /\ n = Len(EncodeRecord(r)) => Cut(r, n) = EncodeRecord(r)
           /\ n < Len(EncodeRecord(r)) =>
                 \A q \in WalRecord : Fits(q) => EncodeRecord(q) # Cut(r, n)
<1> DEFINE e == EncodeRecord(r)
           g == Cut(r, n)
<1>1. /\ e \in Seq(Seq(Nat)) /\ Len(e) \in Nat /\ Len(e) >= 4 /\ Len(e[1]) > 1
      /\ \A x \in 1..Len(e) : Len(e[x]) > 1 => x = 1
  BY EncodedStarts DEF File
<1>2. n \in 1..Len(e)
  OBVIOUS
<1>3. e[1] = Body(r) /\ Len(e) = 1 + Len(Body(r))
  BY EncodedCells
<1>4. g = SubSeq(e, 1, n)
  BY DEF Cut
<1> HIDE DEF e, g
<1>5. g \in Seq(Seq(Nat)) /\ Len(g) = n /\ \A x \in 1..n : g[x] = e[x]
  BY <1>1, <1>2, <1>4
<1>6. Piece(g)
  <2>1. 1 \in 1..n /\ n > 0 /\ \A x \in 1..n : x \in 1..Len(e)
    BY <1>1, <1>2
  <2>2. g[1] = e[1]
    BY <1>5, <2>1
  <2> QED
    BY <1>1, <1>5, <2>1, <2>2 DEF Piece, File
<1>7. n = Len(e) => g = e
  BY <1>1, <1>4, SubSeqFull
<1>8. ASSUME n < Len(e), NEW q \in WalRecord, EncodeRecord(q) = g PROVE FALSE
  <2>1. EncodeRecord(q)[1] = Body(q) /\ Len(EncodeRecord(q)) = 1 + Len(Body(q))
    BY EncodedCells
  <2>2. g[1] = e[1]
    BY <1>2, <1>5
  <2>3. Body(q) = Body(r)
    BY <1>3, <1>8, <2>1, <2>2
  <2>4. n = Len(e)
    BY <1>3, <1>5, <1>8, <2>1, <2>3
  <2> QED
    BY <1>1, <1>8, <2>4
<1> QED
  BY <1>5, <1>6, <1>7, <1>8 DEF e, g

\* A log of whole records.
Clean(f) ==
    /\ f \in File /\ (Len(f) > 0 => 1 \in StartsIn(f))
    /\ \A i \in StartsIn(f) : RecordAt(f, i) # Torn

\* Such a log holds no Torn.
LEMMA CleanRecords ==
    ASSUME NEW f, Clean(f)
    PROVE  \A n \in 1..Len(RecordsIn(f)) : RecordsIn(f)[n] # Torn
<1> SUFFICES ASSUME NEW n \in 1..Len(RecordsIn(f)) PROVE RecordsIn(f)[n] # Torn
  OBVIOUS
<1> DEFINE S == StartsIn(f)
<1>1. f \in File /\ \A i \in S : RecordAt(f, i) # Torn
  BY DEF Clean
<1>2. S \in SUBSET Int /\ IsFiniteSet(S) /\ n \in 1..Cardinality(S)
  BY <1>1, StartsType, RecordsType
<1>3. RecordsIn(f)[n] = RecordAt(f, Nth(S, n))
  BY <1>2 DEF RecordsIn
<1>4. Nth(S, n) \in S
  BY <1>2, NthHasRank
<1> QED
  BY <1>1, <1>3, <1>4

\* One more whole record is the newest of its key.
LEMMA ReplayedAppend ==
    ASSUME NEW w \in Seq(WalRecord \cup {Torn}), \A n \in 1..Len(w) : w[n] # Torn,
           NEW r \in WalRecord
    PROVE  Replayed(Append(w, r)) = Upsert(Replayed(w), r.key, r.entry)
<1> DEFINE U == WalRecord \cup {Torn}
           v == Append(w, Torn)
           u == Append(w, r)
           x == [v EXCEPT ![Len(v)] = r]
           c == Len(w)
<1>1. /\ c \in Nat /\ v \in Seq(U) /\ Len(v) = c + 1 /\ v[c + 1] = Torn
      /\ \A n \in 1..c : v[n] = w[n]
  BY AppendProperties
<1>2. u \in Seq(U) /\ Len(u) = c + 1 /\ u[c + 1] = r /\ \A n \in 1..c : u[n] = w[n]
  BY AppendProperties
<1>3. \A n \in 1..c : w[n] # Torn
  OBVIOUS
<1>4. Replayed(v) = Replayed(w)
  BY ReplayedTorn
<1> HIDE DEF u, v, c
<1>5. \A n \in 1..Len(v) : v[n] = Torn => n = Len(v)
  BY <1>1, <1>3
<1>6. Replayed(x) = Upsert(Replayed(v), r.key, r.entry)
  <2>1. v \in Seq(WalRecord \cup {Torn}) /\ Len(v) > 0 /\ v[Len(v)] = Torn
    BY <1>1
  <2> QED
    BY <1>5, <2>1, ReplayedWritten, Zenon
<1>7. x = u
  <2>1. x \in Seq(U) /\ Len(x) = c + 1 /\ x[c + 1] = r /\ \A n \in 1..c : x[n] = v[n]
    BY <1>1
  <2>2. \A n \in 1 .. c + 1 : x[n] = u[n]
    BY <1>1, <1>2, <2>1
  <2> QED
    BY <1>1, <1>2, <2>1, <2>2, SeqEqual
<1> QED
  BY <1>4, <1>6, <1>7 DEF u

\* A whole append leaves such a log, with its record as the newest of its key.
LEMMA CleanWritten ==
    ASSUME NEW c, Clean(c), NEW r \in WalRecord, Fits(r)
    PROVE  LET f == c \o EncodeRecord(r) IN
           /\ Clean(f)
           /\ Replayed(RecordsIn(f)) = Upsert(Replayed(RecordsIn(c)), r.key, r.entry)
<1> DEFINE e == EncodeRecord(r)
           f == c \o e
           p == Len(c) + 1
<1>1. /\ c \in File /\ (Len(c) > 0 => 1 \in StartsIn(c))
      /\ \A i \in StartsIn(c) : RecordAt(c, i) # Torn
  BY DEF Clean
<1>2. e \in File /\ Piece(e)
  <2>1. Len(e) \in 1..Len(e)
    BY EncodedStarts
  <2>2. Cut(r, Len(e)) = e /\ Piece(Cut(r, Len(e)))
    BY <2>1, CutIsPiece
  <2> QED
    BY <2>2 DEF Piece
<1>3. StartsIn(f) = StartsIn(c) \cup {p}
  BY <1>1, <1>2, StartsAppend
<1>4. RecordAt(f, p) = r /\ r # Torn
  BY <1>1, <1>2, RecordLast, TornAssumption DEF WalRecord, Entry
<1>5. \A i \in StartsIn(c) : RecordAt(f, i) = RecordAt(c, i)
  BY <1>1, <1>2, RecordKept DEF Piece
<1>6. RecordsIn(f) = Append(RecordsIn(c), r)
  BY <1>1, <1>2, <1>4, RecordsAppend
<1>7. f \in File /\ Len(c) \in Nat
  BY <1>1, <1>2, Joined DEF File
<1> HIDE DEF f
<1>8. Clean(f)
  <2>1. 1 \in StartsIn(f)
    BY <1>1, <1>3, <1>7
  <2> QED
    BY <1>1, <1>3, <1>4, <1>5, <1>7, <2>1 DEF Clean
<1>9. Replayed(RecordsIn(f)) = Upsert(Replayed(RecordsIn(c)), r.key, r.entry)
  BY <1>1, <1>6, RecordsType, CleanRecords, ReplayedAppend
<1> QED
  BY <1>8, <1>9 DEF f

\* An unfinished append changes nothing that replay sees.
LEMMA CleanCut ==
    ASSUME NEW c, Clean(c), NEW r \in WalRecord, NEW n \in Nat, n < Len(EncodeRecord(r))
    PROVE  /\ Replayed(RecordsIn(c \o Cut(r, n))) = Replayed(RecordsIn(c))
           /\ n = 0 => c \o Cut(r, n) = c
<1>1. c \in File /\ Len(EncodeRecord(r)) \in Nat
  BY EncodedStarts DEF Clean
<1>2. CASE n = 0
  <2>1. Cut(r, n) = <<>>
    BY <1>2, SubSeqEmpty DEF Cut
  <2>2. c \o Cut(r, n) = c
    BY <1>1, <2>1, ConcatEmptySeq DEF File
  <2> QED
    BY <2>2
<1>3. CASE n # 0
  <2> DEFINE g == Cut(r, n)
             f == c \o g
  <2>1. n \in 1..Len(EncodeRecord(r))
    BY <1>1, <1>3
  <2>2. Piece(g) /\ \A q \in WalRecord : Fits(q) => EncodeRecord(q) # g
    BY <2>1, CutIsPiece
  <2> HIDE DEF g
  <2>3. RecordAt(f, Len(c) + 1) = Torn
    BY <1>1, <2>2, RecordLast
  <2>4. RecordsIn(f) = Append(RecordsIn(c), Torn)
    BY <1>1, <2>2, <2>3, RecordsAppend
  <2>5. Replayed(RecordsIn(f)) = Replayed(RecordsIn(c))
    BY <1>1, <2>4, RecordsType, ReplayedTorn
  <2> QED
    BY <1>3, <2>5 DEF g
<1> QED
  BY <1>2, <1>3

\* The empty log is one, and replays to nothing.
LEMMA CleanEmpty == Clean(<<>>) /\ Replayed(RecordsIn(<<>>)) = EmptyTable
<1>1. StartsIn(<<>>) = {} /\ <<>> \in File /\ Len(<<>>) = 0
  BY DEF StartsIn, File
<1>2. Cardinality(StartsIn(<<>>)) = 0
  BY <1>1, FS_EmptySet
<1>3. RecordsIn(<<>>) \in Seq(WalRecord \cup {Torn}) /\ Len(RecordsIn(<<>>)) = 0
  BY <1>1, <1>2, RecordsType
<1>4. RecordsIn(<<>>) = <<>>
  BY <1>3
<1> QED
  BY <1>1, <1>4, ReplayedEmpty DEF Clean

\* Where a whole record starts, Replay decodes it and goes on where the next
\* one starts or the whole records end.
LEMMA CleanDecodes ==
    ASSUME NEW c, Clean(c), NEW g \in File, NEW p \in StartsIn(c)
    PROVE  LET f == c \o g
               d == DecodeRecord(SubSeq(f, p, Len(f))) IN
           d.status = "kOk" /\ p + d.bytes_consumed \in StartsIn(c) \cup {Len(c) + 1}
<1> DEFINE f == c \o g
           m == Len(c)
           A == {r \in DOMAIN Encoding : IsRecordAt(c, p, r)}
<1>1. c \in File /\ RecordAt(c, p) # Torn
  BY DEF Clean
<1>2. f \in File /\ Len(f) \in Nat /\ m \in Nat /\ m <= Len(f)
  BY <1>1, Joined DEF File
<1>3. p \in 1..m
  BY DEF StartsIn
<1>4. RecordAt(c, p) = IF A = {} THEN Torn ELSE CHOOSE r \in A : TRUE
  BY Zenon DEF RecordAt
<1>5. PICK r \in DOMAIN Encoding : IsRecordAt(c, p, r)
  <2>1. A # {}
    BY <1>1, <1>4
  <2> QED
    BY <2>1
<1> DEFINE e == EncodeRecord(r)
           next == p + Len(e)
           rest == SubSeq(f, next, Len(f))
<1>6. r \in WalRecord /\ Fits(r) /\ Encoding[r] = e
  BY EncodingDomain
<1>7. e \in File /\ Len(e) \in Nat /\ Len(e) >= 4
  BY <1>6, EncodedStarts
<1>8. next \in StartsIn(c) \cup {m + 1} /\ SubSeq(c, p, next - 1) = e
  BY <1>5, <1>6, Zenon DEF IsRecordAt
<1> HIDE DEF m, e, f
<1>9. next \in Int /\ next > p /\ next - 1 \in 1..m /\ next - 1 >= p /\ (next - 1) + 1 = next
  BY <1>2, <1>3, <1>7, <1>8 DEF StartsIn, m
<1>10. SubSeq(f, p, next - 1) = e
  <2>1. c \in Seq(Seq(Nat)) /\ g \in Seq(Seq(Nat)) /\ p \in 1..Len(c) /\ next - 1 \in 1..Len(c)
    BY <1>1, <1>3, <1>9 DEF File, m
  <2>2. SubSeq(c \o g, p, next - 1) = SubSeq(c, p, next - 1)
    BY <2>1, SubSeqOfConcat1
  <2> QED
    BY <1>8, <2>2 DEF f
<1>11. SubSeq(f, p, Len(f)) = e \o rest
  <2>1. /\ f \in Seq(Seq(Nat)) /\ p \in 1 .. Len(f) + 1 /\ next - 1 \in p - 1 .. Len(f)
        /\ Len(f) \in next - 1 .. Len(f)
    BY <1>2, <1>3, <1>9 DEF File
  <2>2. SubSeq(f, p, next - 1) \o SubSeq(f, (next - 1) + 1, Len(f)) = SubSeq(f, p, Len(f))
    BY <2>1, ConcatAdjacentSubSeq
  <2> QED
    BY <1>9, <1>10, <2>2
<1>12. rest \in Seq(Seq(Nat))
  BY <1>2, <1>3, <1>9 DEF File
<1> HIDE DEF rest, next
<1>13. LET d == DecodeRecord(e \o rest) IN d.status = "kOk" /\ d.bytes_consumed = Len(e)
  BY <1>6, <1>12, RoundTrip DEF e
<1> QED
  BY <1>8, <1>11, <1>13 DEF f, m, next

\* Where an unfinished record starts, Replay ends.
LEMMA CutEndsReplay ==
    ASSUME NEW c \in File, NEW r \in WalRecord, NEW n \in 1..Len(EncodeRecord(r)),
           n < Len(EncodeRecord(r))
    PROVE  LET f == c \o Cut(r, n)
           IN  /\ DecodeRecord(SubSeq(f, Len(c) + 1, Len(f))).status # "kOk"
               /\ SubSeq(f, 1, Len(c)) = c
<1> DEFINE g == Cut(r, n)
           f == c \o g
           m == Len(c)
<1>1. g \in Seq(Seq(Nat)) /\ Len(g) = n /\ n \in Nat /\ n > 0
  BY CutIsPiece DEF Piece, File
<1>2. c \in Seq(Seq(Nat)) /\ m \in Nat /\ Len(f) = m + n
  BY <1>1, Joined DEF File
<1>3. DecodeRecord(g).status # "kOk"
  BY TornIsRejected DEF Cut
<1> HIDE DEF g
<1>4. SubSeq(f, m + 1, m + n) = g
  <2>1. m + 1 \in Len(c) + 1 .. Len(c) + Len(g) /\ m + n \in Len(c) + 1 .. Len(c) + Len(g)
    BY <1>1, <1>2
  <2>2. SubSeq(f, m + 1, m + n) = SubSeq(g, (m + 1) - Len(c), (m + n) - Len(c))
    BY <1>1, <1>2, <2>1, SubSeqOfConcat2
  <2>3. (m + 1) - Len(c) = 1 /\ (m + n) - Len(c) = Len(g)
    BY <1>1, <1>2
  <2> QED
    BY <1>1, <2>2, <2>3, SubSeqFull
<1>5. SubSeq(f, 1, m) = c
  <2>1. \A x \in 1..m : f[x] = c[x]
    BY <1>1, <1>2, Joined
  <2> HIDE DEF f
  <2>2. \A x \in 1..m : f[x] \in Seq(Nat)
    BY <1>2, <2>1, ElementOfSeq
  <2> DEFINE s == SubSeq(f, 1, m)
  <2>3. s \in Seq(Seq(Nat)) /\ Len(s) = m /\ \A x \in 1..m : s[x] = f[x]
    BY <1>2, <2>2, SubSeqProperties
  <2> HIDE DEF s
  <2>4. s = c
    BY <1>2, <2>1, <2>3, SeqEqual
  <2> QED
    BY <2>4 DEF s
<1> QED
  BY <1>2, <1>3, <1>4, <1>5 DEF g

\* n elements of a sequence, after the first a.
LEMMA Slice ==
    ASSUME NEW S, NEW s \in Seq(S), NEW a \in Nat, NEW n \in Nat, a + n <= Len(s)
    PROVE  LET t == SubSeq(s, a + 1, a + n) IN
           t \in Seq(S) /\ Len(t) = n /\ \A x \in 1..n : t[x] = s[a + x]
<1> DEFINE t == SubSeq(s, a + 1, a + n)
<1>1. Len(s) \in Nat /\ \A i \in a + 1 .. a + n : i \in 1..Len(s)
  OBVIOUS
<1>2. \A i \in a + 1 .. a + n : s[i] \in S
  BY <1>1
<1>3. a + 1 \in Int /\ a + n \in Int
  OBVIOUS
<1>4. /\ t \in Seq(S) /\ Len(t) = (IF a + 1 <= a + n THEN (a + n) - (a + 1) + 1 ELSE 0)
      /\ \A i \in 1 .. (a + n) - (a + 1) + 1 : t[i] = s[(a + 1) + i - 1]
  BY <1>2, <1>3, SubSeqProperties
<1> HIDE DEF t
<1>5. (a + n) - (a + 1) + 1 = n /\ (~(a + 1 <= a + n) => n = 0)
  OBVIOUS
<1>6. \A i \in 1..n : (a + 1) + i - 1 = a + i
  OBVIOUS
<1>7. \A i \in 1..n : t[i] = s[a + i]
  BY <1>4, <1>5, <1>6
<1>8. Len(t) = n
  BY <1>4, <1>5
<1> QED
  BY <1>4, <1>7, <1>8 DEF t

\* What is left after the first m and then another n elements.
LEMMA RestOfRest ==
    ASSUME NEW S, NEW e \in Seq(S), NEW L, L = Len(e), NEW m \in Nat, NEW n \in Nat, m + n <= L
    PROVE  SubSeq(SubSeq(e, m + 1, L), n + 1, L - m) = SubSeq(e, m + n + 1, L)
<1> DEFINE rest == SubSeq(e, m + 1, L)
           b == SubSeq(rest, n + 1, L - m)
           s == SubSeq(e, m + n + 1, L)
           j == L - m
           l == L - (m + n)
           k == m + n
<1>1. L \in Nat /\ j \in Nat /\ l \in Nat /\ k \in Nat
      /\ m + j = L /\ n + l = j /\ k + l = L
  OBVIOUS
<1>2. rest = SubSeq(e, m + 1, m + j) /\ b = SubSeq(rest, n + 1, n + l)
      /\ s = SubSeq(e, k + 1, k + l)
  BY <1>1
<1> HIDE DEF rest, b, s, j, l, k
<1>3. rest \in Seq(S) /\ Len(rest) = j /\ \A x \in 1..j : rest[x] = e[m + x]
  BY <1>1, <1>2, Slice
<1>4. b \in Seq(S) /\ Len(b) = l /\ \A x \in 1..l : b[x] = rest[n + x]
  BY <1>1, <1>2, <1>3, Slice
<1>5. s \in Seq(S) /\ Len(s) = l /\ \A x \in 1..l : s[x] = e[k + x]
  BY <1>1, <1>2, Slice
<1>6. ASSUME NEW x \in 1..l PROVE b[x] = s[x]
  <2>1. n + x \in 1..j /\ m + (n + x) = k + x
    BY <1>1 DEF k
  <2> QED
    BY <1>3, <1>4, <1>5, <2>1
<1>7. b = s
  BY <1>1, <1>4, <1>5, <1>6, SeqEqual
<1> QED
  BY <1>7 DEF b, s, rest

\* One more write() of an append.
LEMMA CutGrows ==
    ASSUME NEW c \in File, NEW r \in WalRecord, NEW m \in Nat, NEW n \in Nat, n > 0,
           m + n <= Len(EncodeRecord(r))
    PROVE  LET e == EncodeRecord(r)
               rest == SubSeq(e, m + 1, Len(e)) IN
           /\ Len(rest) = Len(e) - m
           /\ (c \o Cut(r, m)) \o SubSeq(rest, 1, n) = c \o Cut(r, m + n)
           /\ SubSeq(rest, n + 1, Len(rest)) = SubSeq(e, m + n + 1, Len(e))
<1> DEFINE e == EncodeRecord(r)
           L == Len(e)
           rest == SubSeq(e, m + 1, L)
           a == SubSeq(rest, 1, n)
           b == SubSeq(rest, n + 1, L - m)
<1>1. e \in Seq(Seq(Nat)) /\ L \in Nat /\ m + n <= L
  BY EncodedStarts DEF File
<1> HIDE DEF e
<1>2. Len(e) = L
  OBVIOUS
<1> HIDE DEF L
<1>3. rest \in Seq(Seq(Nat)) /\ Len(rest) = L - m /\ \A x \in 1 .. L - m : rest[x] = e[m + x]
  BY <1>1, <1>2
<1> HIDE DEF rest
<1>4. a = SubSeq(e, m + 1, m + n)
  <2> DEFINE s == SubSeq(e, m + 1, m + n)
  <2>1. a \in Seq(Seq(Nat)) /\ Len(a) = n /\ \A x \in 1..n : a[x] = rest[x]
    BY <1>1, <1>3
  <2>2. s \in Seq(Seq(Nat)) /\ Len(s) = n /\ \A x \in 1..n : s[x] = e[m + x]
    BY <1>1, <1>2, Slice
  <2> HIDE DEF a, s
  <2>3. \A x \in 1..n : x \in 1 .. L - m
    BY <1>1
  <2>4. \A x \in 1..n : a[x] = s[x]
    BY <1>3, <2>1, <2>2, <2>3
  <2>5. a = s
    BY <2>1, <2>2, <2>4, SeqEqual
  <2> QED
    BY <2>5 DEF s
<1>5. b = SubSeq(e, m + n + 1, L)
  BY <1>1, <1>2, RestOfRest DEF rest
<1>6. SubSeq(e, 1, m) \o a = SubSeq(e, 1, m + n)
  <2>1. 1 \in 1 .. Len(e) + 1 /\ m \in 1 - 1 .. Len(e) /\ m + n \in m .. Len(e)
    BY <1>1, <1>2
  <2> QED
    BY <1>1, <1>4, <2>1, ConcatAdjacentSubSeq
<1>7. SubSeq(e, 1, m) \in Seq(Seq(Nat)) /\ a \in Seq(Seq(Nat)) /\ c \in Seq(Seq(Nat))
  <2>1. c \in Seq(Seq(Nat))
    BY DEF File
  <2>2. a \in Seq(Seq(Nat))
    BY <1>1, <1>3
  <2>3. SubSeq(e, 1, m) \in Seq(Seq(Nat))
    BY <1>1, <1>2
  <2> QED
    BY <2>1, <2>2, <2>3
<1> HIDE DEF a, b
<1>8. (c \o SubSeq(e, 1, m)) \o a = c \o (SubSeq(e, 1, m) \o a)
  <2> DEFINE k == SubSeq(e, 1, m)
             C == Seq(Nat)
  <2>1. c \in Seq(C) /\ k \in Seq(C) /\ a \in Seq(C)
    BY <1>7
  <2> HIDE DEF k, C
  <2>2. (c \o k) \o a = c \o (k \o a)
    BY <2>1, ConcatAssociative
  <2> QED
    BY <2>2 DEF k
<1> QED
  BY <1>3, <1>5, <1>6, <1>8 DEF e, L, rest, a, b, Cut

\* The numbers up to m have the first ranks, and what comes next after m has
\* the next one.
LEMMA NthBelow ==
    ASSUME NEW T \in SUBSET Int, IsFiniteSet(T), NEW m \in Int,
           NEW S, \A q : q \in S <=> q \in T /\ q <= m
    PROVE  /\ IsFiniteSet(S) /\ Cardinality(S) \in Nat
           /\ \A n \in 1..Cardinality(S) : Nth(T, n) = Nth(S, n)
           /\ m + 1 \in T =>
                 Cardinality(T) > Cardinality(S) /\ Nth(T, Cardinality(S) + 1) = m + 1
<1> DEFINE c == Cardinality(S)
           Below(p) == {q \in T : q <= p}
<1>0. \A q : q \in S <=> q \in T /\ q <= m
  OBVIOUS
<1>1. S \in SUBSET T /\ IsFiniteSet(S) /\ c \in Nat
  BY FS_Subset, FS_CardinalityType
<1>2. \A p \in T : IsFiniteSet(Below(p)) /\ Rank(T, p) = Cardinality(Below(p))
                   /\ Rank(T, p) \in Nat /\ Rank(T, p) <= Cardinality(T)
  <2> SUFFICES ASSUME NEW p \in T
               PROVE  IsFiniteSet(Below(p)) /\ Rank(T, p) = Cardinality(Below(p))
                      /\ Rank(T, p) \in Nat /\ Rank(T, p) <= Cardinality(T)
    BY Zenon
  <2>1. Below(p) \in SUBSET T /\ Rank(T, p) = Cardinality(Below(p))
    BY DEF Rank
  <2> QED
    BY <2>1, FS_Subset, FS_CardinalityType
<1>3. ASSUME NEW q \in S PROVE Rank(T, q) = Rank(S, q) /\ Rank(S, q) <= c
  <2>1. q \in Int /\ q <= m /\ \A x \in T : x \in Int
    BY <1>0
  <2>2. \A x \in Int : x <= q => x <= m
    BY <2>1
  <2>3. \A x \in T : x <= q => x \in S
    BY <1>0, <2>1, <2>2, Zenon
  <2>4. {x \in T : x <= q} = {x \in S : x <= q} /\ {x \in S : x <= q} \in SUBSET S
    BY <1>1, <2>3, Zenon
  <2> QED
    BY <1>1, <2>4, FS_Subset DEF Rank
<1>4. ASSUME NEW p \in T, p > m PROVE Rank(T, p) > c
  <2>1. S \in SUBSET Below(p) /\ p \in Below(p) /\ p \notin S
    <3>1. p \in Int /\ \A x \in S : x \in Int /\ x <= m
      BY <1>0
    <3>2. \A x \in S : x <= p
      BY <1>4, <3>1
    <3>3. p <= p /\ p \notin S
      BY <1>0, <1>4
    <3> QED
      BY <1>1, <3>2, <3>3
  <2>2. c <= Cardinality(Below(p)) /\ (c = Cardinality(Below(p)) => S = Below(p))
    BY <1>2, <2>1, FS_Subset
  <2> QED
    BY <1>1, <1>2, <2>1, <2>2
<1>5. ASSUME NEW n \in 1..c PROVE Nth(T, n) = Nth(S, n)
  <2>1. \A q : q \in T /\ Rank(T, q) = n <=> q \in S /\ Rank(S, q) = n
    <3>1. ASSUME NEW q \in T, q \notin S PROVE Rank(T, q) # n
      <4>1. q > m
        BY <3>1
      <4> QED
        BY <1>1, <1>2, <1>4, <4>1
    <3> QED
      BY <1>1, <1>3, <3>1
  <2> QED
    BY <2>1, Zenon DEF Nth
<1>6. ASSUME m + 1 \in T PROVE Cardinality(T) > c /\ Nth(T, c + 1) = m + 1
  <2> DEFINE p == m + 1
  <2>1. p \in T /\ p > m /\ p \in Int /\ \A x \in T : x <= p <=> x <= m \/ x = p
    BY <1>6
  <2> HIDE DEF p
  <2>2. Below(p) = S \cup {p} /\ p \notin S
    <3>1. \A x : x \in Below(p) <=> x \in S \/ x = p
      BY <1>0, <2>1
    <3>2. p \notin S
      BY <1>0, <2>1
    <3> QED
      BY <3>1, <3>2
  <2>3. Rank(T, p) = c + 1
    <3>1. Cardinality(S \cup {p}) = c + 1
      BY <1>1, <2>2, FS_AddElement
    <3> QED
      BY <1>2, <2>1, <2>2, <3>1
  <2>4. ASSUME NEW q \in T, Rank(T, q) = c + 1 PROVE q = p
    <3>1. q \notin S
      BY <1>1, <1>3, <2>4
    <3>2. CASE q > p
      <4>1. Below(p) \in SUBSET Below(q) /\ q \in Below(q) /\ q \notin Below(p)
        <5>1. \A x \in T : x <= p => x <= q
          BY <2>1, <3>2
        <5>2. q <= q /\ ~(q <= p)
          BY <2>1, <3>2
        <5> QED
          BY <5>1, <5>2
      <4>2. Cardinality(Below(q)) # Cardinality(Below(p))
        BY <1>2, <4>1, FS_Subset
      <4> QED
        BY <1>2, <2>1, <2>3, <2>4, <4>2
    <3> QED
      BY <2>1, <3>1, <3>2
  <2>5. Nth(T, c + 1) = p
    BY <2>1, <2>3, <2>4 DEF Nth
  <2>6. Cardinality(T) \in Nat
    BY FS_CardinalityType
  <2>7. Cardinality(T) > c
    <3>1. Rank(T, p) <= Cardinality(T)
      BY <1>2, <2>1
    <3> QED
      BY <1>1, <2>3, <2>6, <3>1
  <2> QED
    BY <2>5, <2>7 DEF p
<1> QED
  BY <1>1, <1>5, <1>6

\* The records of a file are first those of what it starts with, then what
\* starts where that ends.
LEMMA RecordsPrefix ==
    ASSUME NEW f \in File, NEW g \in File, Len(g) > 0, Len(g[1]) > 1
    PROVE  LET v == RecordsIn(f)
               w == RecordsIn(f \o g)
           IN  /\ Len(v) \in Nat /\ Len(w) > Len(v)
               /\ \A n \in 1..Len(v) : w[n] = v[n]
               /\ w[Len(v) + 1] = RecordAt(f \o g, Len(f) + 1)
<1> DEFINE h == f \o g
           m == Len(f)
           S == StartsIn(f)
           T == StartsIn(h)
           c == Cardinality(S)
           v == RecordsIn(f)
           w == RecordsIn(h)
<1>1. /\ h \in File /\ Len(h) = m + Len(g) /\ m \in Nat /\ Len(g) \in Nat
      /\ \A x \in 1..m : h[x] = f[x]
  BY Joined DEF File
<1>2. h[m + 1] = g[1]
  <2>1. 1 \in 1..Len(g) /\ \A x \in 1..Len(g) : h[m + x] = g[x]
    BY <1>1, Joined DEF File
  <2> QED
    BY <2>1
<1> HIDE DEF h
<1>3. m + 1 \in T /\ m \in Int /\ \A q : q \in S <=> q \in T /\ q <= m
  <2>1. S = {i \in 1..m : Len(f[i]) > 1} /\ T = {i \in 1..Len(h) : Len(h[i]) > 1}
    BY DEF StartsIn
  <2>2. \A i : i \in 1..m <=> i \in 1..Len(h) /\ i <= m
    BY <1>1
  <2>3. m + 1 \in 1..Len(h)
    BY <1>1
  <2> HIDE DEF S, T, m
  <2>4. \A i : i \in S <=> i \in T /\ i <= m
    BY <1>1, <2>1, <2>2
  <2> QED
    BY <1>1, <1>2, <2>1, <2>3, <2>4
<1>4. T \in SUBSET Int /\ IsFiniteSet(T) /\ S \in SUBSET Int
  BY <1>1, StartsType
<1>5. Len(v) = c /\ Len(w) = Cardinality(T)
  BY <1>1, RecordsType
<1>6. v = [n \in 1..c |-> RecordAt(f, Nth(S, n))] /\ w = [n \in 1..Cardinality(T) |-> RecordAt(h, Nth(T, n))]
  BY Zenon DEF RecordsIn
<1>7. \A q \in S : RecordAt(h, q) = RecordAt(f, q)
  BY RecordKept DEF h
<1> HIDE DEF S, T, m, v, w
<1>8. /\ IsFiniteSet(S) /\ c \in Nat /\ Cardinality(T) > c /\ Cardinality(T) \in Nat
      /\ Nth(T, c + 1) = m + 1
      /\ \A n \in 1..c : Nth(T, n) = Nth(S, n)
  <2>1. Cardinality(T) \in Nat
    BY <1>4, FS_CardinalityType
  <2>2. /\ IsFiniteSet(S) /\ c \in Nat
        /\ \A n \in 1..c : Nth(T, n) = Nth(S, n)
        /\ m + 1 \in T => Cardinality(T) > c /\ Nth(T, c + 1) = m + 1
    <3> HIDE DEF c
    <3>1. m \in Int /\ \A q : q \in S <=> q \in T /\ q <= m
      BY <1>3
    <3> QED
      BY ONLY <1>4, <3>1, NthBelow DEF c
  <2> QED
    BY <1>3, <2>1, <2>2
<1>9. ASSUME NEW n \in 1..c PROVE w[n] = v[n]
  <2>1. n \in 1..Cardinality(T) /\ Nth(T, n) = Nth(S, n) /\ Nth(S, n) \in S
    BY <1>4, <1>8, NthHasRank
  <2> QED
    BY <1>6, <1>7, <2>1
<1>10. w[c + 1] = RecordAt(h, m + 1)
  <2>1. c + 1 \in 1..Cardinality(T)
    BY <1>8
  <2> QED
    BY <1>6, <1>8, <2>1
<1> QED
  BY <1>5, <1>8, <1>9, <1>10 DEF v, w, h, m

\* The two parts of what was put together.
LEMMA PartsOf ==
    ASSUME NEW N, NEW c \in Seq(N), NEW g \in Seq(N)
    PROVE  LET f == c \o g IN
           /\ SubSeq(f, Len(c) + 1, Len(f)) = g
           /\ SubSeq(f, 1, Len(c)) = c
           /\ f \in Seq(N) /\ Len(f) = Len(c) + Len(g) /\ Len(c) \in Nat /\ Len(g) \in Nat
<1> DEFINE f == c \o g
           m == Len(c)
           n == Len(g)
<1>1. f \in Seq(N) /\ Len(f) = m + n /\ m \in Nat /\ n \in Nat
  BY Joined
<1>2. (\A x \in 1..m : f[x] = c[x]) /\ (\A x \in 1..n : f[m + x] = g[x])
  BY Joined
<1> HIDE DEF f
<1> DEFINE a == SubSeq(f, 0 + 1, 0 + m)
           b == SubSeq(f, m + 1, m + n)
<1>3. a \in Seq(N) /\ Len(a) = m /\ \A x \in 1..m : a[x] = f[0 + x]
  BY <1>1, Slice
<1>4. b \in Seq(N) /\ Len(b) = n /\ \A x \in 1..n : b[x] = f[m + x]
  BY <1>1, Slice
<1>5. a = SubSeq(f, 1, m) /\ b = SubSeq(f, m + 1, Len(f))
  BY <1>1
<1> HIDE DEF a, b
<1>6. a = c
  <2>1. \A x \in 1..m : a[x] = c[x]
    BY <1>1, <1>2, <1>3
  <2> QED
    BY <1>1, <1>3, <2>1, SeqEqual
<1>7. b = g
  <2>1. \A x \in 1..n : b[x] = g[x]
    BY <1>1, <1>2, <1>4
  <2> QED
    BY <1>1, <1>4, <2>1, SeqEqual
<1> QED
  BY <1>1, <1>5, <1>6, <1>7 DEF f
=============================================================================
