---------------------------- MODULE RecordCodec ----------------------------
(***************************************************************************)
(* EncodeRecord and DecodeRecord (wal_record.h), the framing that the WAL  *)
(* and the data section of an SSTable share.                               *)
(*                                                                         *)
(* A file is a sequence of cells.  Each field of the header is one cell    *)
(* and so is each byte of the key and the value; a cell holds a number n   *)
(* as <<n>>.  The checksum of a body is the body itself, in one cell: CRC32 *)
(* is taken to tell any two bodies apart that meet in a file.  Body cells  *)
(* number at least three, so that a checksum cell is never a number cell.  *)
(* Read as a number, as happens when decoding starts in the middle of a    *)
(* record, a checksum is Garbage.                                          *)
(***************************************************************************)
EXTENDS LSMTables

CONSTANTS
    KeyBytes, ValueBytes,   \* the bytes of a key, of a value
    LengthBits,             \* width of key_len and value_len, 32 in the code
    Garbage                 \* a checksum read as a number

ASSUME CodecAssumption ==
    /\ KeyBytes \in [Key -> Seq(Nat)] /\ ValueBytes \in [Value -> Seq(Nat)]
    /\ \A k \in Key : KeyLen[k] = Len(KeyBytes[k])
    /\ \A v \in Value : ValueLen[v] = Len(ValueBytes[v])
    /\ \A j, k \in Key : KeyBytes[j] = KeyBytes[k] => j = k
    /\ \A v, w \in Value : ValueBytes[v] = ValueBytes[w] => v = w
    /\ LengthBits \in Nat /\ 2^LengthBits > 0 /\ Garbage \in Nat

kPut == 1
kDelete == 2
kHeaderSize == 4

Crc32(body) == body

Cell(n) == <<n>>
NumberIn(c) == IF Len(c) = 1 THEN c[1] ELSE Garbage

\* static_cast<uint32_t>(s.size()).
LengthField(s) == Len(s) % 2^LengthBits

EncodeRecord(r) ==
    LET delete == r.entry = Tombstone
        key    == KeyBytes[r.key]
        value  == IF delete THEN <<>> ELSE ValueBytes[r.entry]
        body   == <<IF delete THEN kDelete ELSE kPut, LengthField(key), LengthField(value)>>
                  \o key \o value
    IN  <<Crc32(body)>> \o [i \in 1..Len(body) |-> Cell(body[i])]

Incomplete == [status |-> "kIncomplete"]
Corrupt == [status |-> "kCorrupt"]

\* The record at the start of data, which may be cut short or go on after it.
DecodeRecord(data) ==
    LET key_len    == NumberIn(data[3])
        value_len  == NumberIn(data[4])
        total_size == kHeaderSize + key_len + value_len
        body       == [i \in 1 .. total_size - 1 |-> NumberIn(data[i + 1])]
    IN  IF Len(data) < kHeaderSize THEN Incomplete
        ELSE IF Len(data) < total_size THEN Incomplete
        ELSE IF Crc32(body) # data[1] \/ body[1] \notin {kPut, kDelete} THEN Corrupt
        ELSE [status |-> "kOk", type |-> body[1],
              key    |-> SubSeq(body, 4, 3 + key_len),
              value  |-> SubSeq(body, 4 + key_len, Len(body)),
              bytes_consumed |-> total_size]

\* The key and the entry whose bytes were decoded.
RecordOf(d) ==
    [key   |-> CHOOSE k \in Key : KeyBytes[k] = d.key,
     entry |-> IF d.type = kDelete THEN Tombstone
               ELSE CHOOSE v \in Value : ValueBytes[v] = d.value]
-----------------------------------------------------------------------------
(* What a file holds, without decoding it: where its records start is where *)
(* its checksum cells are, and what starts there is a record when it is the *)
(* whole encoding of one, up to the next start, and its lengths fit.        *)

Fits(r) ==
    /\ KeyLen[r.key] < 2^LengthBits
    /\ r.entry # Tombstone => ValueLen[r.entry] < 2^LengthBits

\* The encoding of every record that can be read back.
Encoding == [r \in {q \in WalRecord : Fits(q)} |-> EncodeRecord(r)]

StartsIn(f) == {i \in 1..Len(f) : Len(f[i]) > 1}

IsRecordAt(f, i, r) ==
    LET next == i + Len(Encoding[r])
    IN  next \in StartsIn(f) \cup {Len(f) + 1} /\ SubSeq(f, i, next - 1) = Encoding[r]

\* The record that starts at i, Torn if what starts there is not one.
RecordAt(f, i) ==
    LET rs == {r \in DOMAIN Encoding : IsRecordAt(f, i, r)}
    IN  IF rs = {} THEN Torn ELSE CHOOSE r \in rs : TRUE

\* The n-th number of a set.
Rank(S, p) == Cardinality({q \in S : q <= p})
Nth(S, n) == CHOOSE p \in S : Rank(S, p) = n

\* The records of a file in order.
RecordsIn(f) ==
    [n \in 1 .. Cardinality(StartsIn(f)) |-> RecordAt(f, Nth(StartsIn(f), n))]
=============================================================================
