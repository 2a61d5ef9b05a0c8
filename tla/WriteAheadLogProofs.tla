------------------------- MODULE WriteAheadLogProofs -------------------------
(***************************************************************************)
(* The log keeps its types through short writes, failures, crashes, power  *)
(* loss and rotten cells, what a power failure leaves of it replays to the *)
(* acknowledged writes, the counter of the MemTable is exact, and the      *)
(* cells of the file implement the sequence of records of RecordLog.       *)
(***************************************************************************)
EXTENDS WriteAheadLog, RecordCodecProofs

-----------------------------------------------------------------------------
(* Types *)

\* The counter stays within its width whatever is added or taken off.
LEMMA UpsertSizedType ==
    ASSUME NEW m, m.table_ \in Table, m.approximate_size_bytes_ \in 0 .. 2^SizeBits - 1,
           NEW k \in Key, NEW e \in Entry
    PROVE  /\ UpsertSized(m, k, e).table_ \in Table
           /\ UpsertSized(m, k, e).approximate_size_bytes_ \in 0 .. 2^SizeBits - 1
<1> DEFINE P == 2^SizeBits
           size == m.approximate_size_bytes_
           old == m.table_[k]
<1>1. P \in Nat /\ P > 0 /\ size \in Int
  BY SizeAssumption
<1>2. \A x \in Entry : EntrySize(k, x) \in Nat
  <2>1. KeyLen[k] \in Nat /\ \A v \in Value : ValueLen[v] \in Nat
    BY LengthAssumption
  <2> QED
    BY <2>1 DEF EntrySize, Entry
<1>3. old \in Entry \cup {Absent}
  BY DEF Table
<1> HIDE DEF P, size, old
<1>4. \A x \in Int : x % P \in 0 .. P - 1
  BY <1>1
<1>5. DropOldSize(m, k) \in Int
  <2>1. DropOldSize(m, k) = IF old = Absent THEN size ELSE (size - EntrySize(k, old)) % P
    BY DEF DropOldSize, Find, old, size, P
  <2>2. CASE old = Absent
    BY <1>1, <2>1, <2>2
  <2>3. CASE old # Absent
    <3>1. size - EntrySize(k, old) \in Int
      BY <1>1, <1>2, <1>3, <2>3
    <3>2. (size - EntrySize(k, old)) % P \in 0 .. P - 1
      BY <1>4, <3>1
    <3> QED
      BY <1>1, <2>1, <2>3, <3>2
  <2> QED
    BY <2>2, <2>3
<1>6. (DropOldSize(m, k) + EntrySize(k, e)) % P \in 0 .. P - 1
  <2>1. DropOldSize(m, k) + EntrySize(k, e) \in Int
    BY <1>2, <1>5
  <2> QED
    BY <1>4, <2>1
<1>7. Upsert(m.table_, k, e) \in Table
  BY DEF Upsert, Table
<1> QED
  BY <1>6, <1>7 DEF UpsertSized, P

\* A new MemTable is one.
LEMMA NewMemTableType ==
    NewMemTable.table_ \in Table /\ NewMemTable.approximate_size_bytes_ \in 0 .. 2^SizeBits - 1
<1>1. 2^SizeBits \in Nat /\ 2^SizeBits > 0
  BY SizeAssumption
<1>2. 0 \in 0 .. 2^SizeBits - 1
  BY <1>1
<1> QED
  BY <1>2 DEF NewMemTable, EmptyTable, Table

\* What Replay reads from valid_end on.
LEMMA RemainingType ==
    ASSUME NEW S, file \in Seq(S), valid_end \in 0..Len(file)
    PROVE  Remaining \in Seq(S) /\ Len(Remaining) = Len(file) - valid_end
<1>1. Len(file) \in Nat
  OBVIOUS
<1> QED
  BY <1>1 DEF Remaining

\* Every cell of the file, of what the disk may hold and of what is still to be
\* written is a good one.
CellsInv ==
    /\ images \subseteq Seq(GoodCell) /\ record \in Seq(GoodCell)
    /\ apc # "idle" => call \in WalRecord

TypeInv == TypeOK /\ CellsInv

\* Appending in two steps.
LEMMA Regrouped ==
    ASSUME NEW N, NEW s \in Seq(N), NEW t \in Seq(N), NEW u \in Seq(N), NEW c, c = s \o t
    PROVE  c \o u = s \o (t \o u)
BY ConcatAssociative

\* One more rotten cell leaves a good one.
LEMMA RotIsGood ==
    ASSUME NEW c \in GoodCell
    PROVE  (IF Len(c) = 1 THEN RottenCell ELSE c \o RottenCell) \in GoodCell
<1>1. RottenCell \in Seq(Nat) /\ Len(RottenCell) = 1
  BY RotAssumption
<1>2. CASE Len(c) = 1
  BY <1>1, <1>2 DEF GoodCell
<1>3. CASE Len(c) # 1
  <2>1. PICK r \in WalRecord, s \in Seq(Nat) : c = Body(r) \o s
    BY <1>3 DEF GoodCell
  <2>2. Body(r) \in Seq(Nat)
    BY BodyBytes
  <2>3. c \o RottenCell = Body(r) \o (s \o RottenCell)
    BY <1>1, <2>1, <2>2, Regrouped
  <2>4. s \o RottenCell \in Seq(Nat) /\ c \o RottenCell \in Seq(Nat)
    BY <1>1, Joined DEF GoodCell
  <2> QED
    BY <1>3, <2>3, <2>4 DEF GoodCell
<1> QED
  BY <1>2, <1>3

\* TypeInv holds at first.
LEMMA TypeInvInit == Init => TypeInv
<1> SUFFICES ASSUME Init PROVE TypeInv
  OBVIOUS
<1>1. memtable.table_ \in Table /\ memtable.approximate_size_bytes_ \in 0 .. 2^SizeBits - 1
  BY NewMemTableType DEF Init
<1>2. file \in images /\ images \subseteq Seq(GoodCell) /\ record \in Seq(GoodCell) /\ record = <<>>
  BY DEF Init
<1>3. /\ allowed \in [Key -> SUBSET (Entry \cup {Absent})]
      /\ spoiled \in BOOLEAN /\ fsync_failed \in BOOLEAN
  BY DEF Init
<1>4. phase = "closed" /\ apc = "idle" /\ call = NoCall
  BY DEF Init
<1> QED
  BY <1>1, <1>2, <1>3, <1>4 DEF TypeInv, TypeOK, CellsInv

\* Every step keeps TypeInv.
LEMMA TypeInvNext == TypeInv /\ [Next]_vars => TypeInv'
<1> SUFFICES ASSUME TypeInv, [Next]_vars PROVE TypeInv'
  OBVIOUS
<1> USE DEF TypeInv, CellsInv, TypeOK
<1> DEFINE MemOK == memtable.table_ \in Table /\ memtable.approximate_size_bytes_ \in 0 .. 2^SizeBits - 1
<1>0. file \in Seq(GoodCell) /\ Len(file) \in Nat /\ Len(record) \in Nat
  OBVIOUS
<1>1. ASSUME NEW r \in WalRecord, AppendCall(r) PROVE TypeInv'
  <2>1. record' \in Seq(GoodCell) /\ record' # <<>>
    BY <1>1, EncodedGood DEF AppendCall
  <2>2. allowed' \in [Key -> SUBSET (Entry \cup {Absent})]
    BY <1>1 DEF AppendCall, WalRecord
  <2> QED
    BY <1>1, <2>1, <2>2 DEF AppendCall, fileVars
<1>2. ASSUME NEW n \in 1..Len(record), WriteSome(n) PROVE TypeInv'
  <2>1. \A m \in 1..n : file \o SubSeq(record, 1, m) \in Seq(GoodCell)
    <3> SUFFICES ASSUME NEW m \in 1..n PROVE file \o SubSeq(record, 1, m) \in Seq(GoodCell)
      OBVIOUS
    <3>1. SubSeq(record, 1, m) \in Seq(GoodCell)
      BY <1>0
    <3> QED
      BY <1>0, <3>1, Joined
  <2>2. file' \in images' /\ images' \subseteq Seq(GoodCell)
    <3>1. n \in 1..n
      BY <1>0
    <3> QED
      BY <1>2, <2>1, <3>1 DEF WriteSome
  <2>3. /\ record' \in Seq(GoodCell)
        /\ apc' = (IF n = Len(record) THEN "fsync" ELSE "write")
        /\ record' # <<>> <=> n # Len(record)
    <3>1. record' = SubSeq(record, n + 1, Len(record))
      BY <1>2 DEF WriteSome
    <3>2. record' \in Seq(GoodCell) /\ Len(record') = Len(record) - n
      BY <1>0, <3>1
    <3>3. Len(record') = 0 <=> n = Len(record)
      BY <1>0, <3>2
    <3>4. record' = <<>> <=> Len(record') = 0
      BY <3>2
    <3> QED
      BY <1>2, <3>2, <3>3, <3>4 DEF WriteSome, AllWritten
  <2>4. phase' = "open" /\ call' \in WalRecord
    BY <1>2 DEF WriteSome
  <2>5. UNCHANGED <<fsync_failed, memtable, call, valid_end, allowed, spoiled>>
    BY <1>2 DEF WriteSome
  <2> QED
    BY <2>2, <2>3, <2>4, <2>5
<1>3. CASE AppendThrows
  BY <1>3 DEF AppendThrows
<1>4. CASE AppendReturns
  <2>1. call.key \in Key /\ call.entry \in Entry
    BY <1>4 DEF AppendReturns, WalRecord
  <2>2. MemOK'
    <3>1. memtable' = UpsertSized(memtable, call.key, call.entry)
      BY <1>4 DEF AppendReturns
    <3> QED
      BY <2>1, <3>1, UpsertSizedType
  <2>3. allowed' \in [Key -> SUBSET (Entry \cup {Absent})]
    BY <1>4, <2>1 DEF AppendReturns
  <2> QED
    BY <1>0, <1>4, <2>2, <2>3 DEF AppendReturns, Fsync
<1>5. CASE Reset
  <2>1. MemOK'
    BY <1>5, NewMemTableType DEF Reset
  <2>2. allowed' \in [Key -> SUBSET (Entry \cup {Absent})]
    BY <1>5 DEF Reset
  <2> QED
    BY <1>5, <2>1, <2>2 DEF Reset, appendVars
<1>6. CASE Open
  BY <1>0, <1>6 DEF Open, fileVars, appendVars
<1>7. CASE ReplayRecord
  <2> DEFINE d == DecodeRecord(Remaining)
             r == RecordOf(d)
  <2>1. valid_end \in 0..Len(file) /\ d.status = "kOk"
    BY <1>7 DEF ReplayRecord
  <2>2. Remaining \in Seq(GoodCell) /\ Len(Remaining) = Len(file) - valid_end
    BY <1>0, <2>1, RemainingType
  <2>3. r \in WalRecord /\ d.bytes_consumed = Len(EncodeRecord(r)) /\ d.bytes_consumed <= Len(Remaining)
    BY <2>1, <2>2, DecodeIsSound
  <2>4. r.key \in Key /\ r.entry \in Entry /\ d.bytes_consumed \in Nat
    BY <2>3, EncodedGood DEF WalRecord
  <2>5. memtable' = UpsertSized(memtable, r.key, r.entry) /\ valid_end' = valid_end + d.bytes_consumed
    BY <1>7, Zenon DEF ReplayRecord
  <2> HIDE DEF d, r
  <2>6. MemOK'
    BY <2>4, <2>5, UpsertSizedType
  <2>7. valid_end' \in 0..Len(file)
    BY <1>0, <2>1, <2>2, <2>3, <2>4, <2>5
  <2> QED
    BY <1>7, <2>6, <2>7 DEF ReplayRecord, fileVars, appendVars
<1>8. CASE ReplayEnds
  <2>1. valid_end \in 0..Len(file)
    BY <1>8 DEF ReplayEnds
  <2>2. file' \in Seq(GoodCell)
    BY <1>0, <1>8, <2>1 DEF ReplayEnds, Truncated
  <2> QED
    BY <1>8, <2>2 DEF ReplayEnds, appendVars
<1>9. ASSUME Stop, file' \in images', images' \subseteq Seq(GoodCell), fsync_failed' \in BOOLEAN
      PROVE  TypeInv'
  <2>1. MemOK'
    BY <1>9, NewMemTableType DEF Stop
  <2> QED
    BY <1>9, <2>1 DEF Stop
<1>10. CASE Crash
  BY <1>9, <1>10 DEF Crash, fileVars
<1>11. CASE PowerLoss
  <2>1. file' \in Seq(GoodCell) /\ images' = {file'} /\ Stop /\ fsync_failed' = FALSE
    BY <1>11 DEF PowerLoss
  <2> QED
    BY <1>9, <2>1
<1>12. ASSUME NEW i \in 1..Len(file), Rot(i) PROVE TypeInv'
  <2>1. file[i] \in GoodCell
    BY <1>0
  <2>2. file' = [file EXCEPT ![i] = IF Len(@) = 1 THEN RottenCell ELSE @ \o RottenCell]
    BY <1>12 DEF Rot
  <2> DEFINE c == IF Len(file[i]) = 1 THEN RottenCell ELSE file[i] \o RottenCell
  <2>3. c \in GoodCell
    BY <2>1, RotIsGood
  <2>4. file' = [file EXCEPT ![i] = c]
    BY <2>2
  <2> HIDE DEF c
  <2>5. file' \in Seq(GoodCell)
    BY <1>0, <2>3, <2>4
  <2>6. images' = {file'} /\ phase' = "closed" /\ spoiled' = TRUE
    BY <1>12 DEF Rot
  <2>7. UNCHANGED <<fsync_failed, phase, memtable, appendVars, valid_end, allowed>>
    BY <1>12 DEF Rot
  <2> QED
    BY <2>5, <2>6, <2>7 DEF appendVars
<1>13. CASE UNCHANGED vars
  BY <1>13 DEF vars, fileVars, appendVars
<1> QED
  BY <1>1, <1>2, <1>3, <1>4, <1>5, <1>6, <1>7, <1>8, <1>10, <1>11, <1>12, <1>13 DEF Next

\* Whatever short writes, failures, crashes, power losses and bad cells leave
\* of the file, Replay stays inside it and feeds the MemTable keys and values,
\* and the counter approximate_size_bytes_ stays within its width.
THEOREM LogTypes == Spec => []TypeOK
<1>1. Spec => []TypeInv
  BY TypeInvInit, TypeInvNext, PTL DEF Spec
<1>2. TypeInv => TypeOK
  BY DEF TypeInv
<1> QED
  BY <1>1, <1>2, PTL

-----------------------------------------------------------------------------
(* Durability *)

\* f is whole records, c, and at most an unfinished one.
Split(f, c) ==
    /\ Clean(c)
    /\ \/ f = c
       \/ \E r \in WalRecord : \E n \in 1 .. Len(EncodeRecord(r)) :
             n < Len(EncodeRecord(r)) /\ f = c \o Cut(r, n)

\* What replaying f gives is allowed.
Survives(f) == \A k \in Key : Replayed(RecordsIn(f))[k] \in allowed[k]

ImagesInv == \A f \in images : Survives(f) /\ \E c : Split(f, c)

\* Where an append has got to.
AppendInv ==
    /\ phase = "open" /\ apc = "idle" => Clean(file)
    /\ apc = "write" =>
          /\ Fits(call) /\ call.entry \in allowed[call.key]
          /\ \E c : \E n \in Nat :
                /\ Clean(c) /\ n < Len(EncodeRecord(call)) /\ file = c \o Cut(call, n)
                /\ record = SubSeq(EncodeRecord(call), n + 1, Len(EncodeRecord(call)))
    /\ apc = "fsync" => Clean(file) /\ Replayed(RecordsIn(file))[call.key] = call.entry

\* Replay has got to the start of a record, or to the end of the whole ones.
ReplayInv ==
    phase = "replay" => \E c : Split(file, c) /\ valid_end + 1 \in StartsIn(c) \cup {Len(c) + 1}

SafeInv == ~spoiled => ImagesInv /\ AppendInv /\ ReplayInv

\* An unfinished record at the end changes nothing that replay sees.
LEMMA SplitReplays ==
    ASSUME NEW f, NEW c, Split(f, c)
    PROVE  f \in File /\ c \in File /\ Replayed(RecordsIn(f)) = Replayed(RecordsIn(c))
<1>1. Clean(c) /\ c \in File
  BY DEF Split, Clean
<1>2. CASE f = c
  BY <1>1, <1>2
<1>3. CASE f # c
  <2>3. PICK r \in WalRecord : \E n \in 1 .. Len(EncodeRecord(r)) :
             n < Len(EncodeRecord(r)) /\ f = c \o Cut(r, n)
    BY <1>3 DEF Split
  <2>1. PICK n \in 1 .. Len(EncodeRecord(r)) :
             n < Len(EncodeRecord(r)) /\ f = c \o Cut(r, n)
    BY <2>3
  <2>2. Cut(r, n) \in File /\ n \in Nat
    BY CutIsPiece DEF Piece
  <2> QED
    BY <1>1, <2>1, <2>2, CleanCut, Joined DEF File
<1> QED
  BY <1>2, <1>3

\* At the start of a record of c Replay goes on, at the end of c it ends.
LEMMA SplitDecodes ==
    ASSUME NEW f, NEW c, Split(f, c), NEW p \in StartsIn(c) \cup {Len(c) + 1}
    PROVE  LET d == DecodeRecord(SubSeq(f, p, Len(f))) IN
           /\ p \in StartsIn(c) =>
                 d.status = "kOk" /\ p + d.bytes_consumed \in StartsIn(c) \cup {Len(c) + 1}
           /\ p = Len(c) + 1 => d.status # "kOk" /\ SubSeq(f, 1, Len(c)) = c
<1>1. Clean(c) /\ c \in Seq(Seq(Nat)) /\ Len(c) \in Nat
  BY DEF Split, Clean, File
<1>2. CASE f = c
  <2>1. f = c \o <<>> /\ <<>> \in File
    BY <1>1, <1>2, ConcatEmptySeq DEF File
  <2>2. ASSUME p = Len(c) + 1
        PROVE  DecodeRecord(SubSeq(f, p, Len(f))).status # "kOk" /\ SubSeq(f, 1, Len(c)) = c
    <3>1. SubSeq(f, p, Len(f)) = <<>>
      BY <1>1, <1>2, <2>2, SubSeqEmpty
    <3>2. <<>> \in Seq(Seq(Nat)) /\ ~Accepted(<<>>)
      BY DEF Accepted, kHeaderSize
    <3> QED
      BY <1>1, <1>2, <3>1, <3>2, DecodeCases, SubSeqFull
  <2> QED
    BY <1>1, <2>1, <2>2, CleanDecodes
<1>3. CASE f # c
  <2>3. PICK r \in WalRecord : \E n \in 1 .. Len(EncodeRecord(r)) :
             n < Len(EncodeRecord(r)) /\ f = c \o Cut(r, n)
    BY <1>3 DEF Split
  <2>1. PICK n \in 1 .. Len(EncodeRecord(r)) :
             n < Len(EncodeRecord(r)) /\ f = c \o Cut(r, n)
    BY <2>3
  <2>2. Cut(r, n) \in File
    BY CutIsPiece DEF Piece
  <2> QED
    BY <1>1, <2>1, <2>2, CleanDecodes, CutEndsReplay DEF File
<1> QED
  BY <1>2, <1>3

\* SafeInv holds at first.
LEMMA SafeInvInit == Init => SafeInv
<1> SUFFICES ASSUME Init PROVE SafeInv
  OBVIOUS
<1>1. Survives(<<>>)
  BY CleanEmpty DEF Init, Survives, EmptyTable
<1>2. Split(<<>>, <<>>)
  BY CleanEmpty DEF Split
<1>3. ImagesInv
  BY <1>1, <1>2 DEF Init, ImagesInv
<1> QED
  BY <1>3 DEF Init, SafeInv, AppendInv, ReplayInv

\* Every step keeps SafeInv.
LEMMA SafeInvNext == TypeInv /\ SafeInv /\ [Next]_vars => SafeInv'
<1> SUFFICES ASSUME TypeInv, SafeInv, [Next]_vars, ~spoiled' PROVE (ImagesInv /\ AppendInv /\ ReplayInv)'
  BY DEF SafeInv
<1> USE DEF TypeInv
<1>0. spoiled \in BOOLEAN /\ file \in images /\ allowed \in [Key -> SUBSET (Entry \cup {Absent})]
  BY DEF TypeOK
<1>1. ASSUME NEW r \in WalRecord, AppendCall(r) PROVE (ImagesInv /\ AppendInv /\ ReplayInv)'
  <2>1. ~spoiled /\ Fits(r)
    BY <1>0, <1>1 DEF AppendCall
  <2>2. ImagesInv /\ Clean(file)
    BY <1>1, <2>1 DEF SafeInv, AppendInv, AppendCall
  <2>3. /\ r.key \in Key /\ r.entry \in allowed'[r.key]
        /\ \A k \in Key : allowed[k] \subseteq allowed'[k]
    BY <1>0, <1>1 DEF AppendCall, WalRecord
  <2>4. ImagesInv'
    BY <1>1, <2>2, <2>3 DEF AppendCall, fileVars, ImagesInv, Survives
  <2>5. Len(EncodeRecord(r)) \in Nat /\ 0 < Len(EncodeRecord(r)) /\ EncodeRecord(r) \in Seq(Seq(Nat))
    BY EncodedStarts DEF File
  <2>6. /\ file = file \o Cut(r, 0)
        /\ EncodeRecord(r) = SubSeq(EncodeRecord(r), 0 + 1, Len(EncodeRecord(r)))
    BY <2>2, <2>5, CleanCut, SubSeqFull
  <2>7. AppendInv'
    <3>1. /\ call' = r /\ record' = EncodeRecord(r) /\ file' = file
          /\ apc' = "write" /\ phase' = "open"
      BY <1>1 DEF AppendCall, fileVars
    <3>2. \E c : \E n \in Nat :
                /\ Clean(c) /\ n < Len(EncodeRecord(call')) /\ file' = c \o Cut(call', n)
                /\ record' = SubSeq(EncodeRecord(call'), n + 1, Len(EncodeRecord(call')))
      BY <2>2, <2>5, <2>6, <3>1
    <3> QED
      BY <2>1, <2>3, <3>1, <3>2 DEF AppendInv
  <2> QED
    BY <1>1, <2>4, <2>7 DEF AppendCall, ReplayInv
<1>2. ASSUME NEW n \in 1..Len(record), WriteSome(n) PROVE (ImagesInv /\ AppendInv /\ ReplayInv)'
  <2> DEFINE e == EncodeRecord(call)
             L == Len(e)
  <2>1. ~spoiled /\ apc = "write" /\ phase = "open" /\ call \in WalRecord
    BY <1>2 DEF WriteSome, CellsInv, TypeOK
  <2>2. ImagesInv /\ Fits(call) /\ call.entry \in allowed[call.key] /\ Survives(file)
    BY <1>0, <2>1 DEF SafeInv, AppendInv, ImagesInv
  <2>3. PICK c : \E m \in Nat : /\ Clean(c) /\ m < L /\ file = c \o Cut(call, m)
                                 /\ record = SubSeq(e, m + 1, L)
    BY <2>1 DEF SafeInv, AppendInv
  <2>4. PICK m \in Nat : /\ Clean(c) /\ m < L /\ file = c \o Cut(call, m)
                          /\ record = SubSeq(e, m + 1, L)
    BY <2>3
  <2>5. L \in Nat /\ e \in Seq(Seq(Nat)) /\ c \in File
    BY <2>1, <2>4, EncodedStarts DEF Clean, File
  <2>6. Len(record) = L - m
    BY <2>4, <2>5
  <2>7. n \in Nat /\ n > 0 /\ m + n <= L /\ (n = Len(record) <=> m + n = L)
    BY <2>4, <2>5, <2>6
  <2>8. \A j \in 1..n : j \in Nat /\ j > 0 /\ m + j <= L /\ m + j \in 1..L
    BY <2>5, <2>7
  <2>9. \A j \in 1..n : file \o SubSeq(record, 1, j) = c \o Cut(call, m + j)
    BY <2>1, <2>4, <2>5, <2>8, CutGrows
  <2>10. SubSeq(record, n + 1, Len(record)) = SubSeq(e, m + n + 1, L)
    BY <2>1, <2>4, <2>5, <2>7, CutGrows
  <2>11. Replayed(RecordsIn(file)) = Replayed(RecordsIn(c))
    BY <2>1, <2>4, CleanCut
  <2>12. call.key \in Key /\ call.entry \in Entry
    BY <2>1 DEF WalRecord
  <2>13. ASSUME NEW j \in 1..n, m + j < L
         PROVE  LET f == c \o Cut(call, m + j) IN Survives(f) /\ Split(f, c)
    <3>1. Replayed(RecordsIn(c \o Cut(call, m + j))) = Replayed(RecordsIn(file))
      BY <2>1, <2>4, <2>8, <2>11, <2>13, CleanCut
    <3>2. Split(c \o Cut(call, m + j), c)
      BY <2>1, <2>4, <2>8, <2>13 DEF Split
    <3> QED
      BY <2>2, <3>1, <3>2 DEF Survives
  <2>14. LET f == c \o Cut(call, L) IN
         /\ Clean(f) /\ Survives(f) /\ Split(f, f)
         /\ Replayed(RecordsIn(f))[call.key] = call.entry
    <3> DEFINE f == c \o Cut(call, L)
    <3>1. f = c \o e
      BY <2>1, <2>5, SubSeqFull DEF Cut
    <3>2. /\ Clean(f)
          /\ Replayed(RecordsIn(f)) = Upsert(Replayed(RecordsIn(file)), call.key, call.entry)
      BY <2>1, <2>2, <2>4, <2>11, <3>1, CleanWritten
    <3> HIDE DEF f
    <3>3. Replayed(RecordsIn(file)) \in Table
      BY <2>5, <2>11, RecordsType, ReplayedType
    <3>4. Replayed(RecordsIn(f))[call.key] = call.entry /\ Survives(f)
      BY <2>2, <2>12, <3>2, <3>3 DEF Upsert, Survives, Table
    <3> QED
      BY <3>2, <3>4 DEF Split, f
  <2>15. /\ file' = file \o SubSeq(record, 1, n)
         /\ images' = images \cup {file \o SubSeq(record, 1, j) : j \in 1..n}
         /\ record' = SubSeq(record, n + 1, Len(record))
         /\ apc' = (IF n = Len(record) THEN "fsync" ELSE "write")
         /\ phase' = "open" /\ call' = call /\ allowed' = allowed
    BY <1>2, <2>1 DEF WriteSome, AllWritten
  <2> HIDE DEF L
  <2>16. \A j \in 1..n : LET f == c \o Cut(call, m + j) IN Survives(f) /\ \E x : Split(f, x)
    <3> SUFFICES ASSUME NEW j \in 1..n
                 PROVE  LET f == c \o Cut(call, m + j) IN Survives(f) /\ \E x : Split(f, x)
      OBVIOUS
    <3>1. CASE m + j < L
      BY <2>13, <3>1
    <3>2. CASE m + j = L
      BY <2>14, <3>2
    <3>3. m + j < L \/ m + j = L
      <4>1. j \in Nat /\ m + j <= L /\ L \in Nat /\ m \in Nat
        BY <2>5, <2>8
      <4> QED
        BY <4>1
    <3> QED
      BY <3>1, <3>2, <3>3
  <2>17. \A f \in images' : Survives(f) /\ \E x : Split(f, x)
    BY <2>2, <2>9, <2>15, <2>16 DEF ImagesInv
  <2>18. ImagesInv'
    BY <2>15, <2>17 DEF ImagesInv, Survives
  <2>19. n \in 1..n /\ file' = c \o Cut(call, m + n)
    <3>1. n \in 1..n
      BY <2>7
    <3>2. file \o SubSeq(record, 1, n) = c \o Cut(call, m + n)
      BY <2>9, <3>1
    <3> QED
      BY <2>15, <3>1, <3>2
  <2>20. CASE m + n = L
    <3>1. apc' = "fsync" /\ Clean(file') /\ Replayed(RecordsIn(file'))[call'.key] = call'.entry
      BY <2>7, <2>14, <2>15, <2>19, <2>20
    <3> QED
      BY <2>15, <2>18, <3>1 DEF AppendInv, ReplayInv
  <2>21. CASE m + n # L
    <3>1. apc' = "write" /\ m + n \in Nat /\ m + n < L
      BY <2>5, <2>7, <2>15, <2>21
    <3>2. record' = SubSeq(e, (m + n) + 1, L)
      BY <2>10, <2>15
    <3>3. \E x : \E l \in Nat :
                /\ Clean(x) /\ l < Len(EncodeRecord(call')) /\ file' = x \o Cut(call', l)
                /\ record' = SubSeq(EncodeRecord(call'), l + 1, Len(EncodeRecord(call')))
      BY <2>4, <2>15, <2>19, <3>1, <3>2 DEF L
    <3> QED
      BY <2>2, <2>15, <2>18, <3>1, <3>3 DEF AppendInv, ReplayInv
  <2> QED
    BY <2>20, <2>21
<1>3. CASE AppendThrows
  <2>1. /\ ~spoiled /\ phase = "open" /\ phase' = "open" /\ apc' = "idle"
        /\ file' = file /\ images' = images /\ allowed' = allowed
        /\ apc = "write" => record = EncodeRecord(call)
        /\ apc \in {"write", "fsync"} /\ call \in WalRecord
    BY <1>0, <1>3 DEF AppendThrows, TypeOK, CellsInv
  <2>2. ImagesInv /\ AppendInv
    BY <2>1 DEF SafeInv
  <2>3. Clean(file)
    <3>1. CASE apc = "fsync"
      BY <2>2, <3>1 DEF AppendInv
    <3>2. CASE apc = "write"
      <4> DEFINE e == EncodeRecord(call)
      <4>1. PICK c : \E m \in Nat : /\ Clean(c) /\ m < Len(e) /\ file = c \o Cut(call, m)
                                     /\ record = SubSeq(e, m + 1, Len(e))
        BY <2>2, <3>2 DEF AppendInv
      <4>2. PICK m \in Nat : /\ Clean(c) /\ m < Len(e) /\ file = c \o Cut(call, m)
                              /\ record = SubSeq(e, m + 1, Len(e))
        BY <4>1
      <4>3. e \in Seq(Seq(Nat)) /\ Len(e) \in Nat
        BY <2>1, EncodedStarts DEF File
      <4>4. Len(record) = Len(e) - m /\ record = e
        BY <2>1, <3>2, <4>2, <4>3
      <4>5. m = 0
        BY <4>3, <4>4
      <4> QED
        BY <2>1, <4>2, <4>5, CleanCut
    <3> QED
      BY <2>1, <3>1, <3>2
  <2> QED
    BY <2>1, <2>2, <2>3 DEF ImagesInv, Survives, AppendInv, ReplayInv
<1>4. CASE AppendReturns
  <2>1. /\ ~spoiled /\ phase = "open" /\ phase' = "open" /\ apc = "fsync" /\ apc' = "idle"
        /\ file' = file /\ images' = {file} /\ call \in WalRecord
        /\ allowed' = [allowed EXCEPT ![call.key] = {call.entry}]
    BY <1>4 DEF AppendReturns, Fsync, TypeOK, CellsInv
  <2>2. /\ Clean(file) /\ Replayed(RecordsIn(file))[call.key] = call.entry /\ Survives(file)
    BY <1>0, <2>1 DEF SafeInv, ImagesInv, AppendInv
  <2>3. call.key \in Key /\ \A k \in Key : allowed'[k] = IF k = call.key THEN {call.entry} ELSE allowed[k]
    BY <1>0, <2>1 DEF WalRecord
  <2>4. \A k \in Key : Replayed(RecordsIn(file))[k] \in allowed'[k]
    BY <2>2, <2>3 DEF Survives
  <2>5. ImagesInv'
    BY <2>1, <2>2, <2>4 DEF ImagesInv, Survives, Split
  <2> QED
    BY <2>1, <2>2, <2>5 DEF AppendInv, ReplayInv
<1>5. CASE Reset
  <2>1. /\ ~spoiled /\ phase' = "open" /\ apc' = "idle"
        /\ file' = <<>> /\ images' = images \cup {<<>>}
        /\ \A k \in Key : allowed'[k] = allowed[k] \cup {Absent}
    BY <1>5 DEF Reset, appendVars
  <2>2. ImagesInv
    BY <2>1 DEF SafeInv
  <2>3. \A k \in Key : Replayed(RecordsIn(<<>>))[k] \in allowed'[k]
    BY <2>1, CleanEmpty DEF EmptyTable
  <2>4. ImagesInv'
    BY <2>1, <2>2, <2>3, CleanEmpty DEF ImagesInv, Survives, Split
  <2> QED
    BY <2>1, <2>4, CleanEmpty DEF AppendInv, ReplayInv
<1>6. CASE Open
  <2>1. /\ ~spoiled /\ phase = "closed" /\ phase' = "replay" /\ valid_end' = 0
        /\ file' = file /\ images' = images /\ allowed' = allowed /\ apc' = "idle"
    BY <1>6 DEF Open, fileVars, appendVars, TypeOK
  <2>2. ImagesInv
    BY <2>1 DEF SafeInv
  <2>3. PICK c : Split(file, c)
    BY <1>0, <2>2 DEF ImagesInv
  <2>4. Len(c) \in Nat /\ (Len(c) > 0 => 1 \in StartsIn(c))
    BY <2>3 DEF Split, Clean, File
  <2>5. 0 + 1 \in StartsIn(c) \cup {Len(c) + 1}
    BY <2>4
  <2> QED
    BY <2>1, <2>2, <2>3, <2>5 DEF ImagesInv, Survives, AppendInv, ReplayInv
<1>7. CASE ReplayRecord
  <2> DEFINE d == DecodeRecord(Remaining)
  <2>1. /\ ~spoiled /\ phase = "replay" /\ phase' = "replay" /\ apc' = "idle" /\ d.status = "kOk"
        /\ valid_end' = valid_end + d.bytes_consumed
        /\ file' = file /\ images' = images /\ allowed' = allowed
    BY <1>7 DEF ReplayRecord, fileVars, appendVars, TypeOK
  <2>2. ImagesInv /\ ReplayInv
    BY <2>1 DEF SafeInv
  <2>3. PICK c : Split(file, c) /\ valid_end + 1 \in StartsIn(c) \cup {Len(c) + 1}
    BY <2>1, <2>2 DEF ReplayInv
  <2>4. valid_end + 1 \in StartsIn(c) /\ (valid_end + 1) + d.bytes_consumed \in StartsIn(c) \cup {Len(c) + 1}
    BY <2>1, <2>3, SplitDecodes DEF Remaining
  <2>5. valid_end \in Nat /\ d.bytes_consumed \in Nat
    <3>1. file \in Seq(GoodCell) /\ valid_end \in 0..Len(file)
      BY <2>1 DEF TypeOK, CellsInv
    <3>2. Remaining \in Seq(GoodCell)
      BY <3>1, RemainingType
    <3>3. RecordOf(d) \in WalRecord /\ d.bytes_consumed = Len(EncodeRecord(RecordOf(d)))
      BY <2>1, <3>2, DecodeIsSound
    <3> QED
      BY <3>1, <3>3, EncodedGood
  <2>6. valid_end' + 1 = (valid_end + 1) + d.bytes_consumed
    BY <2>1, <2>5
  <2> QED
    BY <2>1, <2>2, <2>3, <2>4, <2>6 DEF ImagesInv, Survives, AppendInv, ReplayInv
<1>8. CASE ReplayEnds
  <2> DEFINE d == DecodeRecord(Remaining)
  <2>1. /\ ~spoiled /\ phase = "replay" /\ phase' = "open" /\ apc' = "idle" /\ d.status # "kOk"
        /\ file' = SubSeq(file, 1, valid_end) /\ images' = images \cup {file'} /\ allowed' = allowed
        /\ valid_end \in 0..Len(file)
    BY <1>8 DEF ReplayEnds, Truncated, appendVars, TypeOK
  <2>2. ImagesInv /\ ReplayInv
    BY <2>1 DEF SafeInv
  <2>3. PICK c : Split(file, c) /\ valid_end + 1 \in StartsIn(c) \cup {Len(c) + 1}
    BY <2>1, <2>2 DEF ReplayInv
  <2>4. valid_end + 1 = Len(c) + 1 /\ SubSeq(file, 1, Len(c)) = c
    BY <2>1, <2>3, SplitDecodes DEF Remaining
  <2>5. valid_end = Len(c)
    <3> DEFINE l == Len(c)
    <3>1. l \in Nat /\ valid_end \in Int
      BY <2>1, <2>3 DEF Split, Clean, File
    <3>2. valid_end + 1 = l + 1
      BY <2>4
    <3> HIDE DEF l
    <3>3. valid_end = l
      BY <3>1, <3>2
    <3> QED
      BY <3>3 DEF l
  <2>6. file' = c /\ Clean(c) /\ Split(c, c)
    BY <2>1, <2>3, <2>4, <2>5 DEF Split
  <2>7. Survives(c)
    BY <1>0, <2>2, <2>3, SplitReplays DEF ImagesInv, Survives
  <2>8. ImagesInv'
    BY <2>1, <2>2, <2>6, <2>7 DEF ImagesInv, Survives
  <2> QED
    BY <2>1, <2>6, <2>8 DEF AppendInv, ReplayInv
<1>9. ASSUME Stop, images' \subseteq images PROVE (ImagesInv /\ AppendInv /\ ReplayInv)'
  <2>1. ~spoiled /\ phase' = "closed" /\ apc' = "idle" /\ allowed' = allowed
    BY <1>9 DEF Stop
  <2>2. ImagesInv
    BY <2>1 DEF SafeInv
  <2> QED
    BY <1>9, <2>1, <2>2 DEF ImagesInv, Survives, AppendInv, ReplayInv
<1>10. CASE Crash
  BY <1>9, <1>10 DEF Crash, fileVars
<1>11. CASE PowerLoss
  BY <1>9, <1>11 DEF PowerLoss
<1>12. ASSUME NEW i \in 1..Len(file), Rot(i) PROVE FALSE
  BY <1>12 DEF Rot
<1>13. CASE UNCHANGED vars
  BY <1>13 DEF vars, fileVars, appendVars, SafeInv, ImagesInv, Survives, AppendInv, ReplayInv
<1> QED
  BY <1>1, <1>2, <1>3, <1>4, <1>5, <1>6, <1>7, <1>8, <1>10, <1>11, <1>12, <1>13 DEF Next

\* The promise of wal.h:25 for any number of appends, resets, short writes,
\* crashes and power losses: what a power failure leaves of the log replays,
\* for every key, to the last acknowledged write or one begun after it, unless
\* the log is spoiled: an append failed half way, one was acknowledged after a
\* failed fsync, a cell went bad, or a length did not fit.
THEOREM LogDurability == Spec => []AckedSurvivePowerLoss
<1>1. Spec => [](TypeInv /\ SafeInv)
  BY TypeInvInit, TypeInvNext, SafeInvInit, SafeInvNext, PTL DEF Spec
<1>2. SafeInv => AckedSurvivePowerLoss
  BY DEF SafeInv, ImagesInv, Survives, AckedSurvivePowerLoss
<1> QED
  BY <1>1, <1>2, PTL

-----------------------------------------------------------------------------
(* The size of the MemTable *)

\* A remainder may be taken before an addition as well.
LEMMA RemainderFirst ==
    ASSUME NEW P \in Nat, P > 0, NEW a \in Int, NEW b \in Int
    PROVE  ((a % P) + b) % P = (a + b) % P
<1> DEFINE r == a % P
           u == (r + b) % P
           v == (a + b) % P
<1>1. \A x \in Int : /\ x % P \in 0 .. P - 1 /\ x \div P \in Int
                     /\ x = P * (x \div P) + (x % P)
  OBVIOUS
<1>2. PICK i \in Int : a = P * i + r
  BY <1>1
<1>3. r \in 0 .. P - 1
  BY <1>1
<1> HIDE DEF r
<1>4. PICK j \in Int : r + b = P * j + u
  BY <1>1, <1>3
<1>5. PICK k \in Int : a + b = P * k + v
  BY <1>1
<1>6. u \in 0 .. P - 1 /\ v \in 0 .. P - 1
  BY <1>1, <1>3
<1> HIDE DEF u, v
<1> DEFINE d == i + j - k
<1>7. P * i + P * j + u = P * k + v /\ P * d = P * i + P * j - P * k
  BY <1>2, <1>3, <1>4, <1>5, <1>6
<1>8. d \in Int /\ P * d = v - u
  BY <1>6, <1>7
<1> HIDE DEF d
<1>9. d = 0
  <2>1. CASE d >= 1
    <3>1. P * d >= P
      BY <1>8, <2>1
    <3> QED
      BY <1>6, <1>8, <3>1
  <2>2. CASE d <= -1
    <3>1. P * d <= -P
      BY <1>8, <2>2
    <3> QED
      BY <1>6, <1>8, <3>1
  <2> QED
    BY <1>8, <2>1, <2>2
<1>10. P * d = 0
  BY <1>9
<1> QED
  BY <1>6, <1>8, <1>10 DEF r, u, v

\* The bytes of an entry are as many as its size says.
LEMMA BytesOfEntry ==
    ASSUME NEW k \in Key, NEW e \in Entry
    PROVE  /\ EntrySize(k, e) \in Nat
           /\ IsFiniteSet(BytesOf(k, e)) /\ Cardinality(BytesOf(k, e)) = EntrySize(k, e)
<1> DEFINE n == EntrySize(k, e)
<1>1. n \in Nat
  <2>1. KeyLen[k] \in Nat /\ \A v \in Value : ValueLen[v] \in Nat
    BY LengthAssumption
  <2> QED
    BY <2>1 DEF EntrySize, Entry
<1> HIDE DEF n
<1>2. IsFiniteSet(1..n) /\ Cardinality(1..n) = n
  BY <1>1, FS_Interval
<1>3. IsFiniteSet({k}) /\ Cardinality({k}) = 1
  BY FS_Singleton
<1>4. IsFiniteSet({k} \X (1..n)) /\ Cardinality({k} \X (1..n)) = 1 * n
  <2>1. /\ IsFiniteSet({k} \X (1..n))
        /\ Cardinality({k} \X (1..n)) = Cardinality({k}) * Cardinality(1..n)
    BY <1>2, <1>3, FS_Product, Zenon
  <2> QED
    BY <1>2, <1>3, <2>1, Zenon
<1> QED
  BY <1>1, <1>4 DEF n, BytesOf

\* Upsert replaces the bytes of the old entry by those of the new one.
LEMMA BytesUpsert ==
    ASSUME NEW t \in Table, NEW k \in Key, NEW e \in Entry, IsFiniteSet(BytesIn(t))
    PROVE  LET old == IF t[k] = Absent THEN 0 ELSE EntrySize(k, t[k]) IN
           /\ IsFiniteSet(BytesIn(Upsert(t, k, e))) /\ old \in Nat
           /\ ApproximateSize(t) \in Nat /\ ApproximateSize(t) >= old
           /\ ApproximateSize(Upsert(t, k, e)) = ApproximateSize(t) - old + EntrySize(k, e)
<1> DEFINE u == Upsert(t, k, e)
           B == BytesIn(t)
           O == IF t[k] = Absent THEN {} ELSE BytesOf(k, t[k])
           N == BytesOf(k, e)
           old == IF t[k] = Absent THEN 0 ELSE EntrySize(k, t[k])
<1>1. u[k] = e /\ \A j \in Key : j # k => u[j] = t[j]
  BY DEF Upsert, Table
<1>2. e # Absent /\ t[k] \in Entry \cup {Absent}
  BY DataAssumption DEF Entry, Table
<1>3. \A x, j : x \in BytesOf(j, t[j]) => x[1] = j
  BY DEF BytesOf
<1>4. \A x : x \in N => x[1] = k
  BY DEF BytesOf
<1>5. \A x : x \in O => x[1] = k
  BY <1>3
<1>6. \A x : x \in B <=> \E j \in Key : t[j] # Absent /\ x \in BytesOf(j, t[j])
  BY DEF BytesIn
<1>7. \A x : x \in BytesIn(u) <=> \E j \in Key : u[j] # Absent /\ x \in BytesOf(j, u[j])
  BY DEF BytesIn
<1> HIDE DEF u, B, N
<1>8. BytesIn(u) = (B \ O) \cup N
  <2>1. ASSUME NEW x \in BytesIn(u) PROVE x \in (B \ O) \cup N
    <3>1. PICK j \in Key : u[j] # Absent /\ x \in BytesOf(j, u[j])
      BY <1>7, <2>1
    <3>2. CASE j = k
      BY <1>1, <3>1, <3>2 DEF N
    <3>3. CASE j # k
      BY <1>1, <1>3, <1>5, <1>6, <3>1, <3>3
    <3> QED
      BY <3>2, <3>3
  <2>2. ASSUME NEW x \in B \ O PROVE x \in BytesIn(u)
    <3>1. PICK j \in Key : t[j] # Absent /\ x \in BytesOf(j, t[j])
      BY <1>6, <2>2
    <3>2. j # k
      BY <2>2, <3>1
    <3> QED
      BY <1>1, <1>7, <3>1, <3>2
  <2>3. ASSUME NEW x \in N PROVE x \in BytesIn(u)
    BY <1>1, <1>2, <1>7, <2>3 DEF N
  <2> QED
    BY <2>1, <2>2, <2>3
<1>9. (B \ O) \cap N = {}
  <2> SUFFICES ASSUME NEW x \in B, x \notin O, x \in N PROVE FALSE
    OBVIOUS
  <2>1. PICK j \in Key : t[j] # Absent /\ x \in BytesOf(j, t[j])
    BY <1>6
  <2>2. j = k
    BY <1>3, <1>4, <2>1
  <2> QED
    BY <2>1, <2>2
<1>10. O \subseteq B /\ B \cap O = O
  <2>1. ASSUME NEW x \in O PROVE x \in B
    BY <1>6, <2>1
  <2> QED
    BY <2>1
<1>11. IsFiniteSet(O) /\ Cardinality(O) = old /\ old \in Nat
  <2>1. CASE t[k] = Absent
    BY <2>1, FS_EmptySet
  <2>2. CASE t[k] # Absent
    BY <1>2, <2>2, BytesOfEntry
  <2> QED
    BY <2>1, <2>2
<1>12. IsFiniteSet(N) /\ Cardinality(N) = EntrySize(k, e) /\ EntrySize(k, e) \in Nat
  BY BytesOfEntry DEF N
<1> HIDE DEF O, old
<1>13. IsFiniteSet(B) /\ Cardinality(B) \in Nat
  BY FS_CardinalityType DEF B
<1>14. /\ IsFiniteSet(B \ O) /\ Cardinality(B \ O) = Cardinality(B) - old
       /\ Cardinality(B \ O) \in Nat
  <2>1. IsFiniteSet(B \ O) /\ Cardinality(B \ O) = Cardinality(B) - Cardinality(B \cap O)
    BY <1>13, FS_Difference
  <2>2. Cardinality(B \ O) \in Nat
    BY <2>1, FS_CardinalityType
  <2> QED
    BY <1>10, <1>11, <2>1, <2>2
<1>15. /\ IsFiniteSet((B \ O) \cup N)
       /\ Cardinality((B \ O) \cup N) = Cardinality(B \ O) + Cardinality(N) - Cardinality({})
  BY <1>9, <1>12, <1>14, FS_Union
<1>16. Cardinality({}) = 0
  BY FS_EmptySet
<1>17. /\ IsFiniteSet(BytesIn(u))
       /\ Cardinality(BytesIn(u)) = Cardinality(B) - old + EntrySize(k, e)
       /\ Cardinality(B) >= old
  BY <1>8, <1>11, <1>12, <1>13, <1>14, <1>15, <1>16
<1> QED
  BY <1>11, <1>13, <1>17 DEF u, B, old, ApproximateSize

\* The counter is the size, up to what its width cannot hold.
CountsModulo(m) ==
    /\ IsFiniteSet(BytesIn(m.table_))
    /\ m.approximate_size_bytes_ = ApproximateSize(m.table_) % 2^SizeBits

\* A new MemTable has no bytes.
LEMMA NewCounts == CountsModulo(NewMemTable)
<1>1. BytesIn(EmptyTable) = {}
  BY DEF BytesIn, EmptyTable
<1>2. IsFiniteSet({}) /\ Cardinality({}) = 0
  BY FS_EmptySet
<1> DEFINE P == 2^SizeBits
<1>3. P \in Nat /\ P > 0
  BY SizeAssumption
<1> HIDE DEF P
<1>4. 0 % P = 0
  BY <1>3
<1> QED
  BY <1>1, <1>2, <1>4 DEF CountsModulo, NewMemTable, ApproximateSize, P

\* An upsert keeps count.
LEMMA UpsertCounts ==
    ASSUME NEW m, m.table_ \in Table, CountsModulo(m), NEW k \in Key, NEW e \in Entry
    PROVE  CountsModulo(UpsertSized(m, k, e))
<1> DEFINE P == 2^SizeBits
           t == m.table_
           a == ApproximateSize(t)
           old == IF t[k] = Absent THEN 0 ELSE EntrySize(k, t[k])
           n == EntrySize(k, e)
<1>1. P \in Nat /\ P > 0
  BY SizeAssumption
<1>2. /\ IsFiniteSet(BytesIn(Upsert(t, k, e))) /\ old \in Nat /\ a \in Nat
      /\ ApproximateSize(Upsert(t, k, e)) = a - old + n
  BY BytesUpsert DEF CountsModulo
<1>3. n \in Nat
  BY BytesOfEntry
<1>4. m.approximate_size_bytes_ = a % P
  BY DEF CountsModulo
<1>5. DropOldSize(m, k) = IF t[k] = Absent THEN a % P ELSE ((a % P) - EntrySize(k, t[k])) % P
  BY <1>4 DEF DropOldSize, Find
<1> HIDE DEF P, a, n
<1>6. DropOldSize(m, k) = (a - old) % P
  <2>1. CASE t[k] = Absent
    BY <1>2, <1>5, <2>1
  <2>2. CASE t[k] # Absent
    <3> DEFINE b == -old
    <3>1. a \in Int /\ b \in Int /\ (a % P) + b = (a % P) - old /\ a + b = a - old
      BY <1>1, <1>2
    <3> HIDE DEF b
    <3>2. ((a % P) + b) % P = (a + b) % P
      BY <1>1, <3>1, RemainderFirst, Zenon
    <3> QED
      BY <1>5, <2>2, <3>1, <3>2
  <2> QED
    BY <2>1, <2>2
<1> HIDE DEF old
<1>7. (DropOldSize(m, k) + n) % P = (a - old + n) % P
  <2> DEFINE c == a - old
  <2>1. c \in Int /\ n \in Int
    BY <1>2, <1>3
  <2>2. DropOldSize(m, k) = c % P /\ a - old + n = c + n
    BY <1>2, <1>3, <1>6
  <2> HIDE DEF c
  <2>3. ((c % P) + n) % P = (c + n) % P
    BY <1>1, <2>1, RemainderFirst, Zenon
  <2> QED
    BY <2>2, <2>3
<1> QED
  BY <1>2, <1>7 DEF UpsertSized, CountsModulo, P, n

\* approximate_size_bytes_ has counted every overwrite, remove, reset and
\* replayed record.
SizeInv == CountsModulo(memtable)

\* SizeInv holds at first.
LEMMA SizeInvInit == Init => SizeInv
BY NewCounts DEF Init, SizeInv

\* Every step keeps SizeInv.
LEMMA SizeInvNext == TypeInv /\ SizeInv /\ [Next]_vars => SizeInv'
<1> SUFFICES ASSUME TypeInv, SizeInv, [Next]_vars PROVE SizeInv'
  OBVIOUS
<1>0. memtable.table_ \in Table /\ CountsModulo(memtable)
  BY DEF TypeInv, TypeOK, SizeInv
<1>1. ASSUME memtable' = memtable PROVE SizeInv'
  BY <1>0, <1>1 DEF SizeInv
<1>2. ASSUME memtable' = NewMemTable PROVE SizeInv'
  BY <1>2, NewCounts DEF SizeInv
<1>3. CASE \E r \in WalRecord : AppendCall(r)
  BY <1>1, <1>3 DEF AppendCall
<1>4. CASE \E n \in 1..Len(record) : WriteSome(n)
  BY <1>1, <1>4 DEF WriteSome
<1>5. CASE AppendThrows
  BY <1>1, <1>5 DEF AppendThrows
<1>6. CASE AppendReturns
  <2>1. call.key \in Key /\ call.entry \in Entry
    BY <1>6 DEF AppendReturns, TypeInv, CellsInv, WalRecord
  <2>2. memtable' = UpsertSized(memtable, call.key, call.entry)
    BY <1>6 DEF AppendReturns
  <2> QED
    BY <1>0, <2>1, <2>2, UpsertCounts DEF SizeInv
<1>7. CASE Reset
  BY <1>2, <1>7 DEF Reset
<1>8. CASE Open
  BY <1>1, <1>8 DEF Open
<1>9. CASE ReplayRecord
  <2> DEFINE d == DecodeRecord(Remaining)
             r == RecordOf(d)
  <2>1. file \in Seq(GoodCell) /\ valid_end \in 0..Len(file) /\ d.status = "kOk"
    BY <1>9 DEF ReplayRecord, TypeInv, TypeOK, CellsInv
  <2>2. r \in WalRecord
    BY <2>1, RemainingType, DecodeIsSound
  <2>3. memtable' = UpsertSized(memtable, r.key, r.entry)
    BY <1>9, Zenon DEF ReplayRecord
  <2> HIDE DEF r
  <2>4. r.key \in Key /\ r.entry \in Entry
    BY <2>2 DEF WalRecord
  <2> QED
    BY <1>0, <2>3, <2>4, UpsertCounts DEF SizeInv
<1>10. CASE ReplayEnds
  BY <1>1, <1>10 DEF ReplayEnds
<1>11. CASE Crash
  BY <1>2, <1>11 DEF Crash, Stop
<1>12. CASE PowerLoss
  BY <1>2, <1>12 DEF PowerLoss, Stop
<1>13. CASE \E i \in 1..Len(file) : Rot(i)
  BY <1>1, <1>13 DEF Rot
<1>14. CASE UNCHANGED vars
  BY <1>1, <1>14 DEF vars
<1> QED
  BY <1>3, <1>4, <1>5, <1>6, <1>7, <1>8, <1>9, <1>10, <1>11, <1>12, <1>13, <1>14 DEF Next

\* The counter is exact up to a multiple of 2^SizeBits, whatever is put,
\* removed, overwritten, replayed or reset (memtable.cpp:19-28).
THEOREM SizeModulo == Spec => []SizeInv
<1>1. Spec => [](TypeInv /\ SizeInv)
  BY TypeInvInit, TypeInvNext, SizeInvInit, SizeInvNext, PTL DEF Spec
<1> QED
  BY <1>1, PTL

\* It is exact when the counter can hold the size of any MemTable, as a size_t
\* can: the bytes counted are in memory.
THEOREM SizeExact ==
    ASSUME \A t \in Table : IsFiniteSet(BytesIn(t)) => ApproximateSize(t) < 2^SizeBits
    PROVE  Spec => []SizeIsExact
<1>1. TypeInv /\ SizeInv => SizeIsExact
  <2> SUFFICES ASSUME TypeInv, SizeInv PROVE SizeIsExact
    OBVIOUS
  <2> DEFINE P == 2^SizeBits
             a == ApproximateSize(memtable.table_)
  <2>1. P \in Nat /\ P > 0
    BY SizeAssumption
  <2>2. memtable.approximate_size_bytes_ = a % P /\ a < P /\ a \in Nat
    BY FS_CardinalityType DEF SizeInv, CountsModulo, TypeInv, TypeOK, ApproximateSize
  <2> HIDE DEF P, a
  <2>3. a % P = a
    BY <2>1, <2>2
  <2> QED
    BY <2>2, <2>3 DEF SizeIsExact, HasExactSize, a
<1>2. Spec => [](TypeInv /\ SizeInv)
  BY TypeInvInit, TypeInvNext, SizeInvInit, SizeInvNext, PTL DEF Spec
<1> QED
  BY <1>1, <1>2, PTL

-----------------------------------------------------------------------------
(* Refinement of RecordLog *)

\* Nothing, or something that starts with a checksum cell.
Headed(g) == Len(g) > 0 => Len(g[1]) > 1

\* An append adds its record when it is whole and its lengths fit, Torn
\* otherwise.
LEMMA AppendAdds ==
    ASSUME NEW c \in File, NEW r \in WalRecord, NEW n \in 1..Len(EncodeRecord(r))
    PROVE  LET f == c \o Cut(r, n) IN
           /\ f \in File
           /\ n < Len(EncodeRecord(r)) \/ ~Fits(r) => RecordsIn(f) = Append(RecordsIn(c), Torn)
           /\ n = Len(EncodeRecord(r)) /\ Fits(r) => RecordsIn(f) = Append(RecordsIn(c), r)
<1> DEFINE g == Cut(r, n)
           f == c \o g
           L == Len(EncodeRecord(r))
<1>1. Piece(g) /\ L \in Nat /\ n \in Nat /\ n <= L
  BY CutIsPiece, EncodedStarts
<1>2. f \in File
  BY <1>1, Joined DEF Piece, File
<1>3. RecordsIn(f) = Append(RecordsIn(c), RecordAt(f, Len(c) + 1))
  BY <1>1, RecordsAppend
<1>4. ASSUME n < L \/ ~Fits(r) PROVE RecordAt(f, Len(c) + 1) = Torn
  <2>1. ASSUME NEW q \in WalRecord, Fits(q), EncodeRecord(q) = g PROVE FALSE
    <3>1. n = L /\ ~Fits(r) /\ g = EncodeRecord(r)
      BY <1>1, <1>4, <2>1, CutIsPiece
    <3> HIDE DEF g
    <3>2. Body(q) = Body(r)
      BY <2>1, <3>1, EncodedCells
    <3> DEFINE K == KeyBytes[r.key]
               V == ValuePart(r)
               J == KeyBytes[q.key]
               W == ValuePart(q)
    <3>3. /\ Len(K) \in Nat /\ Len(V) \in Nat /\ LengthField(K) <= Len(K) /\ LengthField(V) <= Len(V)
          /\ LengthField(K) = Len(K) /\ LengthField(V) = Len(V) => Fits(r)
      BY Parts, LengthFields
    <3>4. /\ Len(J) \in Nat /\ Len(W) \in Nat
          /\ LengthField(J) = Len(J) /\ LengthField(W) = Len(W)
      BY <2>1, Parts, LengthFields
    <3>5. /\ Len(Body(r)) = 3 + Len(K) + Len(V)
          /\ Body(r)[2] = LengthField(K) /\ Body(r)[3] = LengthField(V)
          /\ Len(Body(q)) = 3 + Len(J) + Len(W)
          /\ Body(q)[2] = LengthField(J) /\ Body(q)[3] = LengthField(W)
      BY BodyBytes
    <3> HIDE DEF K, V, J, W
    <3>6. 3 + Len(K) + Len(V) = 3 + Len(J) + Len(W)
      BY <3>2, <3>5
    <3>7. LengthField(K) = Len(J) /\ LengthField(V) = Len(W)
      BY <3>2, <3>4, <3>5
    <3>8. Len(J) = Len(K) /\ Len(W) = Len(V)
      BY <3>3, <3>4, <3>6, <3>7
    <3> QED
      BY <3>1, <3>3, <3>7, <3>8
  <2> QED
    BY <1>1, <2>1, RecordLast
<1>5. ASSUME n = L, Fits(r) PROVE RecordAt(f, Len(c) + 1) = r
  <2>1. EncodeRecord(r) = g
    BY <1>5, CutIsPiece
  <2> HIDE DEF g
  <2> QED
    BY <1>1, <1>5, <2>1, RecordLast
<1> HIDE DEF f, g
<1>6. /\ n < L \/ ~Fits(r) => RecordsIn(f) = Append(RecordsIn(c), Torn)
      /\ n = L /\ Fits(r) => RecordsIn(f) = Append(RecordsIn(c), r)
  BY <1>3, <1>4, <1>5
<1> QED
  BY <1>2, <1>6 DEF f, g

\* What DecodeRecord accepts is the whole encoding of a record, cell by cell.
LEMMA DecodesWhole ==
    ASSUME NEW data \in Seq(GoodCell), DecodeRecord(data).status = "kOk"
    PROVE  LET d == DecodeRecord(data)
               r == RecordOf(d)
               L == Len(EncodeRecord(r))
           IN  /\ r \in WalRecord /\ Fits(r) /\ d.bytes_consumed = L
               /\ L \in Nat /\ L >= 4 /\ L <= Len(data)
               /\ SubSeq(data, 1, L) = EncodeRecord(r)
<1> DEFINE d == DecodeRecord(data)
           r == RecordOf(d)
           e == EncodeRecord(r)
           b == Body(r)
           L == Len(e)
<1>1. r \in WalRecord /\ Fits(r) /\ d.bytes_consumed = L /\ d.bytes_consumed <= Len(data)
  BY DecodeIsSound
<1>2. GoodCell \subseteq Seq(Nat) /\ data \in Seq(Seq(Nat))
  <2>1. GoodCell \subseteq Seq(Nat)
    BY DEF GoodCell
  <2> QED
    BY <2>1
<1>3. Accepted(data)
  BY <1>2, DecodeCases
<1>4. BodyIn(data) = b
  BY DecodeIsSound
<1>5. /\ e \in Seq(Seq(Nat)) /\ L = 1 + Len(b) /\ e[1] = b
      /\ \A x \in 1..Len(b) : e[x + 1] = <<b[x]>>
  BY <1>1, EncodedCells
<1>6. data[1] = b /\ \A x \in 1..Len(b) : b[x] = NumberIn(data[x + 1])
  BY <1>2, <1>3, <1>4, BodyInIsSeq DEF Accepted
<1>7. L \in Nat /\ L >= 4 /\ b \in Seq(Nat) /\ Len(b) \in Nat
  BY <1>1, EncodedStarts, BodyBytes
<1>8. \A x \in 1..L : e[x] # <<Garbage>>
  BY <1>1, GarbageAssumption DEF Cell
<1> HIDE DEF d, r, e, b, L
<1>9. ASSUME NEW x \in 1..L PROVE data[x] = e[x]
  <2>1. CASE x = 1
    BY <1>5, <1>6, <2>1
  <2>2. CASE x # 1
    <3> DEFINE y == x - 1
    <3>1. y \in 1..Len(b) /\ y + 1 = x /\ x \in 1..Len(data)
      BY <1>1, <1>5, <1>7, <2>2
    <3> HIDE DEF y
    <3>2. e[x] = <<b[y]>> /\ b[y] = NumberIn(data[x])
      BY <1>5, <1>6, <3>1
    <3>3. data[x] \in Seq(Nat)
      BY <1>2, <3>1
    <3>4. Len(data[x]) = 1
      BY <1>8, <3>2 DEF NumberIn
    <3>5. NumberIn(data[x]) = data[x][1]
      BY <3>4 DEF NumberIn
    <3>6. data[x] = <<data[x][1]>>
      BY <3>3, <3>4
    <3> QED
      BY <3>2, <3>5, <3>6
  <2> QED
    BY <2>1, <2>2
<1> DEFINE s == SubSeq(data, 1, L)
<1>10. s \in Seq(Seq(Nat)) /\ Len(s) = L /\ \A x \in 1..L : s[x] = data[x]
  BY <1>1, <1>2, <1>7
<1> HIDE DEF s
<1>11. s = e
  <2>1. Len(s) = Len(e) /\ \A x \in 1..Len(s) : s[x] = e[x]
    BY <1>9, <1>10 DEF L
  <2> QED
    BY <1>5, <1>10, <2>1, SeqEqual, Zenon
<1> QED
  BY <1>1, <1>7, <1>11 DEF d, r, e, L, s

\* A file begins with a checksum cell, and no more numbers follow one than the
\* checksum is of.
Covered(f) ==
    /\ Headed(f)
    /\ \A i \in StartsIn(f) : \A j \in 1..Len(f) :
          j > i + Len(f[i]) => \E x \in StartsIn(f) : i < x /\ x <= j

\* What a covered file begins with is covered.
LEMMA CoveredPrefix ==
    ASSUME NEW f \in File, Covered(f), NEW m \in 0..Len(f)
    PROVE  Covered(SubSeq(f, 1, m))
<1> DEFINE g == SubSeq(f, 1, m)
<1>1. Len(f) \in Nat /\ f \in Seq(Seq(Nat))
  BY DEF File
<1>2. Len(g) = m /\ \A x \in 1..m : g[x] = f[x]
  BY <1>1
<1> HIDE DEF g
<1>3. /\ StartsIn(g) = {i \in 1..m : Len(g[i]) > 1}
      /\ StartsIn(f) = {i \in 1..Len(f) : Len(f[i]) > 1}
  BY <1>2 DEF StartsIn
<1>4. \A i : i \in StartsIn(g) <=> i \in StartsIn(f) /\ i <= m
  BY <1>1, <1>2, <1>3
<1>5. Headed(g)
  <2>1. ASSUME m > 0 PROVE Len(f) > 0 /\ g[1] = f[1]
    BY <1>1, <1>2, <2>1
  <2> QED
    BY <1>2, <2>1 DEF Covered, Headed
<1>6. ASSUME NEW i \in StartsIn(g), NEW j \in 1..m, j > i + Len(g[i])
      PROVE  \E x \in StartsIn(g) : i < x /\ x <= j
  <2>1. i \in StartsIn(f) /\ j \in 1..Len(f) /\ g[i] = f[i]
    BY <1>1, <1>2, <1>3, <1>4
  <2>2. PICK x \in StartsIn(f) : i < x /\ x <= j
    BY <1>6, <2>1 DEF Covered
  <2>3. x <= m
    BY <1>1, <1>3, <2>2
  <2> QED
    BY <1>4, <2>2, <2>3
<1> QED
  BY <1>2, <1>5, <1>6 DEF Covered, g

\* So are two covered files one after the other.
LEMMA CoveredJoin ==
    ASSUME NEW f \in File, NEW g \in File, Covered(f), Covered(g)
    PROVE  Covered(f \o g)
<1> DEFINE h == f \o g
           m == Len(f)
           n == Len(g)
<1>0. h \in File
  BY Joined DEF File
<1>1. Len(h) = m + n /\ m \in Nat /\ n \in Nat /\ \A x \in 1..m : h[x] = f[x]
  BY Joined DEF File
<1>2. \A x \in 1..n : h[m + x] = g[x]
  BY Joined DEF File
<1> HIDE DEF h, m, n
<1>3. /\ StartsIn(f) = {i \in 1..m : Len(f[i]) > 1}
      /\ StartsIn(g) = {i \in 1..n : Len(g[i]) > 1}
      /\ StartsIn(h) = {i \in 1..Len(h) : Len(h[i]) > 1}
  BY DEF StartsIn, m, n
<1>4. \A x \in StartsIn(f) : x \in StartsIn(h) /\ x \in 1..m
  BY <1>1, <1>3
<1>5. ASSUME NEW x \in StartsIn(g) PROVE m + x \in StartsIn(h)
  <2>1. m + x \in 1..Len(h) /\ h[m + x] = g[x] /\ Len(g[x]) > 1
    BY <1>1, <1>2, <1>3
  <2> QED
    BY <1>3, <2>1
<1>6. n > 0 => 1 \in StartsIn(g)
  <2>1. n > 0 => Len(g[1]) > 1 /\ 1 \in 1..n
    BY <1>1 DEF Covered, Headed, n
  <2> QED
    BY <1>3, <2>1
<1>7. Headed(h)
  <2>1. CASE m > 0
    <3>1. h[1] = f[1] /\ Len(f[1]) > 1
      BY <1>1, <2>1 DEF Covered, Headed, m
    <3> QED
      BY <3>1 DEF Headed
  <2>2. CASE m = 0
    <3>1. Len(h) = n /\ (n > 0 => h[1] = g[1])
      BY <1>1, <1>2, <2>2
    <3> QED
      BY <3>1 DEF Covered, Headed, n
  <2> QED
    BY <1>1, <2>1, <2>2
<1>8. ASSUME NEW i \in StartsIn(h), NEW j \in 1..Len(h), j > i + Len(h[i])
      PROVE  \E x \in StartsIn(h) : i < x /\ x <= j
  <2> DEFINE l == Len(h[i])
  <2>1. i \in 1..Len(h) /\ l > 1 /\ l \in Nat
    <3>1. i \in 1..Len(h) /\ l > 1
      BY <1>3
    <3>2. h[i] \in Seq(Nat)
      BY <1>0, <3>1 DEF File
    <3> QED
      BY <3>1, <3>2
  <2>2. (h[i] = f[i] /\ i \in StartsIn(f)) \/ i > m
    BY <1>1, <1>3, <2>1
  <2> HIDE DEF l
  <2>3. CASE i <= m /\ j <= m
    <3>1. i \in StartsIn(f) /\ h[i] = f[i] /\ j \in 1..m /\ j > i + Len(f[i])
      BY <1>1, <1>8, <2>1, <2>2, <2>3
    <3>2. PICK x \in StartsIn(f) : i < x /\ x <= j
      BY <3>1 DEF Covered, m
    <3> QED
      BY <1>4, <3>2
  <2>4. CASE i <= m /\ j > m
    <3>1. n > 0 /\ i < m + 1 /\ m + 1 <= j
      BY <1>1, <2>1, <2>4
    <3> QED
      BY <1>5, <1>6, <3>1
  <2>5. CASE i > m
    <3> DEFINE a == i - m
               b == j - m
    <3>1. a \in 1..n /\ m + a = i
      BY <1>1, <2>1, <2>5
    <3>2. b \in 1..n /\ m + b = j /\ b > a + l
      BY <1>1, <1>8, <2>1, <2>5 DEF l
    <3> HIDE DEF a, b
    <3>3. h[i] = g[a] /\ a \in StartsIn(g)
      BY <1>2, <1>3, <2>1, <3>1 DEF l
    <3>4. PICK x \in StartsIn(g) : a < x /\ x <= b
      BY <3>2, <3>3 DEF Covered, l, n
    <3>5. m + x \in StartsIn(h) /\ i < m + x /\ m + x <= j
      BY <1>1, <1>3, <1>5, <3>1, <3>2, <3>4
    <3> QED
      BY <3>5
  <2>6. (i <= m \/ i > m) /\ (j <= m \/ j > m)
    BY <1>1, <2>1
  <2> QED
    BY <2>3, <2>4, <2>5, <2>6
<1> QED
  BY <1>7, <1>8 DEF Covered, h

\* A record is covered, whole or not.
LEMMA CoveredCut ==
    ASSUME NEW r \in WalRecord, NEW n \in 0..Len(EncodeRecord(r))
    PROVE  Cut(r, n) \in File /\ Covered(Cut(r, n))
<1> DEFINE e == EncodeRecord(r)
<1>1. /\ e \in File /\ Len(e) \in Nat /\ Len(e) >= 4 /\ Len(e[1]) > 1
      /\ \A x \in 1..Len(e) : Len(e[x]) > 1 => x = 1
  BY EncodedStarts
<1>2. Len(e) = 1 + Len(e[1]) /\ Len(e[1]) \in Nat
  BY EncodedCells, BodyBytes
<1>3. n \in 0..Len(e) /\ Cut(r, n) = SubSeq(e, 1, n)
  BY DEF Cut
<1> HIDE DEF e
<1>4. \A i \in StartsIn(e) : i = 1
  BY <1>1 DEF StartsIn
<1>5. \A j \in 1..Len(e) : ~(j > 1 + Len(e[1]))
  BY <1>1, <1>2
<1>6. Covered(e)
  BY <1>1, <1>4, <1>5 DEF Covered, Headed
<1>7. SubSeq(e, 1, n) \in File
  BY <1>1, <1>3 DEF File
<1> QED
  BY <1>1, <1>3, <1>6, <1>7, CoveredPrefix

\* A cell that goes bad stays a number or a checksum, of no less.
LEMMA CoveredRot ==
    ASSUME NEW f \in File, Covered(f), NEW i \in 1..Len(f), NEW g,
           g = [f EXCEPT ![i] = IF Len(@) = 1 THEN RottenCell ELSE @ \o RottenCell]
    PROVE  Covered(g)
<1>1. f \in Seq(Seq(Nat)) /\ Len(f) \in Nat /\ f[i] \in Seq(Nat)
  BY DEF File
<1>2. RottenCell \in Seq(Nat) /\ Len(RottenCell) = 1
  BY RotAssumption
<1> DEFINE c == IF Len(f[i]) = 1 THEN RottenCell ELSE f[i] \o RottenCell
<1>3. c \in Seq(Nat) /\ Len(c) >= Len(f[i]) /\ (Len(c) > 1 <=> Len(f[i]) > 1)
  <2> DEFINE d == f[i]
  <2>1. d \in Seq(Nat) /\ Len(d) \in Nat
    BY <1>1
  <2> HIDE DEF d
  <2>2. d \o RottenCell \in Seq(Nat) /\ Len(d \o RottenCell) = Len(d) + 1
    <3>1. d \o RottenCell \in Seq(Nat) /\ Len(d \o RottenCell) = Len(d) + Len(RottenCell)
      BY <1>2, <2>1, Joined
    <3> QED
      BY <1>2, <3>1
  <2>3. c = IF Len(d) = 1 THEN RottenCell ELSE d \o RottenCell
    BY DEF d
  <2> HIDE DEF c
  <2>4. c \in Seq(Nat) /\ Len(c) >= Len(d) /\ (Len(c) > 1 <=> Len(d) > 1)
    BY <1>2, <2>1, <2>2, <2>3
  <2> QED
    BY <2>4 DEF d
<1>4. g = [f EXCEPT ![i] = c]
  OBVIOUS
<1> HIDE DEF c
<1>5. Len(g) = Len(f) /\ g[i] = c /\ \A x \in 1..Len(f) : x # i => g[x] = f[x]
  BY <1>1, <1>4
<1>6. \A x \in 1..Len(f) : /\ Len(g[x]) >= Len(f[x]) /\ (Len(g[x]) > 1 <=> Len(f[x]) > 1)
                           /\ Len(g[x]) \in Nat /\ Len(f[x]) \in Nat
  <2> SUFFICES ASSUME NEW x \in 1..Len(f)
               PROVE  /\ Len(g[x]) >= Len(f[x]) /\ (Len(g[x]) > 1 <=> Len(f[x]) > 1)
                      /\ Len(g[x]) \in Nat /\ Len(f[x]) \in Nat
    OBVIOUS
  <2>1. f[x] \in Seq(Nat) /\ Len(f[x]) \in Nat
    BY <1>1
  <2>2. g[x] = f[x] \/ x = i
    BY <1>5
  <2> QED
    BY <1>3, <1>5, <2>1, <2>2
<1>7. StartsIn(g) = StartsIn(f)
  BY <1>5, <1>6 DEF StartsIn
<1>8. Headed(g)
  <2>1. Len(f) > 0 => 1 \in 1..Len(f) /\ Len(f[1]) > 1
    BY <1>1 DEF Covered, Headed
  <2> QED
    BY <1>5, <1>6, <2>1 DEF Headed
<1>9. ASSUME NEW a \in StartsIn(f), NEW j \in 1..Len(f), j > a + Len(g[a])
      PROVE  \E x \in StartsIn(f) : a < x /\ x <= j
  <2>1. a \in 1..Len(f)
    BY DEF StartsIn
  <2>2. j > a + Len(f[a])
    BY <1>6, <1>9, <2>1
  <2> QED
    BY <2>2 DEF Covered
<1> QED
  BY <1>5, <1>7, <1>8, <1>9 DEF Covered

\* After a record that Replay accepts, another one starts or the file ends.
LEMMA HeadedAfter ==
    ASSUME NEW c \in File, NEW r \in WalRecord, NEW g \in File,
           Covered(c \o (EncodeRecord(r) \o g))
    PROVE  Headed(g)
<1> DEFINE e == EncodeRecord(r)
           m == Len(c)
           L == Len(e)
           t == e \o g
           f == c \o t
<1>1. /\ e \in File /\ L \in Nat /\ L >= 4 /\ Len(e[1]) > 1
      /\ \A x \in 1..L : Len(e[x]) > 1 => x = 1
  BY EncodedStarts
<1>2. L = 1 + Len(e[1]) /\ Len(e[1]) \in Nat
  BY EncodedCells, BodyBytes
<1> HIDE DEF e
<1>3. /\ t \in File /\ Len(t) = L + Len(g) /\ Len(g) \in Nat
      /\ \A x \in 1..L : t[x] = e[x]
  BY <1>1, Joined DEF File
<1>4. \A x \in 1..Len(g) : t[L + x] = g[x]
  <2>1. e \in Seq(Seq(Nat)) /\ g \in Seq(Seq(Nat))
    BY <1>1 DEF File
  <2> QED
    BY <2>1, Joined
<1> HIDE DEF t
<1>5. m \in Nat /\ Len(f) = m + Len(t) /\ \A x \in 1..Len(t) : f[m + x] = t[x]
  <2>1. c \in Seq(Seq(Nat)) /\ t \in Seq(Seq(Nat))
    BY <1>3 DEF File
  <2>2. m \in Nat /\ Len(f) = m + Len(t)
    BY <2>1, Joined
  <2>3. \A x \in 1..Len(t) : f[m + x] = t[x]
    BY <2>1, Joined
  <2> QED
    BY <2>2, <2>3
<1>6. Covered(f)
  BY DEF f, t, e
<1> HIDE DEF f, m, L
<1> SUFFICES ASSUME Len(g) > 0 PROVE Len(g[1]) > 1
  BY DEF Headed
<1> DEFINE p == m + 1
           j == m + L + 1
<1>7. p \in 1..Len(f) /\ j \in 1..Len(f) /\ j = m + (L + 1) /\ 1 \in 1..Len(t) /\ L + 1 \in 1..Len(t)
      /\ 1 \in 1..L /\ 1 \in 1..Len(g)
  BY <1>1, <1>3, <1>5
<1>8. f[p] = e[1] /\ f[j] = g[1]
  <2>1. f[p] = t[1] /\ f[j] = t[L + 1]
    BY <1>5, <1>7
  <2> QED
    BY <1>3, <1>4, <1>7, <2>1
<1>9. p \in StartsIn(f) /\ j > p + Len(f[p])
  <2> DEFINE l == Len(e[1])
  <2>1. L = 1 + l /\ l \in Nat
    BY <1>2
  <2> HIDE DEF l
  <2>2. j > p + l
    BY <1>5, <2>1
  <2> QED
    BY <1>1, <1>7, <1>8, <2>2 DEF StartsIn, l
<1>10. PICK x \in StartsIn(f) : p < x /\ x <= j
  BY <1>6, <1>7, <1>9 DEF Covered
<1>11. x \in 1..Len(f) /\ Len(f[x]) > 1
  BY DEF StartsIn
<1>12. x = j
  <2>1. CASE x < j
    <3> DEFINE y == x - m
    <3>1. y \in 1..L /\ m + y = x /\ y # 1 /\ y \in 1..Len(t)
      BY <1>1, <1>3, <1>5, <1>10, <1>11, <2>1
    <3> HIDE DEF y
    <3>2. f[x] = e[y]
      BY <1>3, <1>5, <3>1
    <3> QED
      BY <1>1, <1>11, <3>1, <3>2
  <2> QED
    BY <1>7, <1>10, <1>11, <2>1
<1> QED
  BY <1>8, <1>11, <1>12

\* A file of good cells is a file.
LEMMA GoodFile == Seq(GoodCell) \subseteq File
<1>1. GoodCell \subseteq Seq(Nat)
  BY DEF GoodCell
<1> QED
  BY <1>1 DEF File

\* A record that Replay accepts is the next one of the file, and what comes
\* after it starts with a checksum cell.
LEMMA ReplayAccepts ==
    ASSUME NEW c \in Seq(GoodCell), NEW g \in Seq(GoodCell), Covered(c \o g),
           DecodeRecord(g).status = "kOk"
    PROVE  LET d == DecodeRecord(g)
               r == RecordOf(d)
               e == EncodeRecord(r)
           IN  /\ r \in WalRecord /\ e \in Seq(GoodCell) /\ d.bytes_consumed = Len(e)
               /\ RecordsIn(c \o e) = Append(RecordsIn(c), r)
               /\ \E rest \in Seq(GoodCell) :
                     Headed(rest) /\ c \o g = (c \o e) \o rest
<1> DEFINE d == DecodeRecord(g)
           r == RecordOf(d)
           e == EncodeRecord(r)
           L == Len(e)
           rest == SubSeq(g, L + 1, Len(g))
<1>1. /\ r \in WalRecord /\ Fits(r) /\ d.bytes_consumed = L
      /\ L \in Nat /\ L >= 4 /\ L <= Len(g) /\ SubSeq(g, 1, L) = e
  BY DecodesWhole
<1>2. e \in Seq(GoodCell) /\ c \in File
  BY <1>1, EncodedGood, GoodFile
<1>3. RecordsIn(c \o e) = Append(RecordsIn(c), r)
  <2>1. L \in 1..L
    BY <1>1
  <2>2. Cut(r, L) = e
    BY <1>1, <2>1, CutIsPiece
  <2> QED
    BY <1>1, <1>2, <2>1, <2>2, AppendAdds
<1> HIDE DEF d, r, e, L
<1>4. rest \in Seq(GoodCell) /\ Len(g) \in Nat
  BY <1>1
<1>5. g = e \o rest
  <2>1. /\ 1 \in 1 .. Len(g) + 1 /\ L \in 1 - 1 .. Len(g) /\ Len(g) \in L .. Len(g)
    BY <1>1, <1>4
  <2>2. SubSeq(g, 1, L) \o SubSeq(g, L + 1, Len(g)) = SubSeq(g, 1, Len(g))
    BY <2>1, ConcatAdjacentSubSeq
  <2> QED
    BY <1>1, <2>2, SubSeqFull
<1> HIDE DEF rest
<1>6. Headed(rest)
  BY <1>1, <1>2, <1>4, <1>5, GoodFile, HeadedAfter DEF e
<1>7. c \o g = (c \o e) \o rest
  <2> DEFINE h == c \o e
  <2>1. h = c \o e
    OBVIOUS
  <2> HIDE DEF h
  <2>2. h \o rest = c \o (e \o rest)
    BY <1>2, <1>4, <2>1, Regrouped
  <2> QED
    BY <1>5, <2>1, <2>2
<1>8. \E x \in Seq(GoodCell) : Headed(x) /\ c \o g = (c \o e) \o x
  BY <1>4, <1>6, <1>7
<1> QED
  BY <1>1, <1>2, <1>3, <1>8 DEF d, r, e, L

\* Where Replay does not accept, the file ends or what starts there is Torn.
LEMMA ReplayStops ==
    ASSUME NEW c \in File, NEW g \in File, Headed(g), DecodeRecord(g).status # "kOk",
           \A n \in 1..Len(RecordsIn(c)) : RecordsIn(c)[n] # Torn
    PROVE  LET w == RecordsIn(c \o g) IN
           TruncateTail(w) = RecordsIn(c) /\ Replayed(w) = Replayed(RecordsIn(c))
<1> DEFINE f == c \o g
           v == RecordsIn(c)
           w == RecordsIn(f)
           p == Len(c) + 1
<1>1. c \in Seq(Seq(Nat)) /\ g \in Seq(Seq(Nat)) /\ f \in File /\ Len(g) \in Nat
  BY Joined DEF File
<1>2. v \in Seq(WalRecord \cup {Torn}) /\ w \in Seq(WalRecord \cup {Torn})
  BY <1>1, RecordsType
<1>3. CASE Len(g) = 0
  <2>1. g = <<>>
    BY <1>1, <1>3
  <2>2. w = v
    BY <1>1, <2>1, ConcatEmptySeq
  <2> HIDE DEF w, v
  <2> QED
    BY <1>2, <2>2, TailCut DEF w, v
<1>4. CASE Len(g) # 0
  <2>1. Len(g) > 0 /\ Len(g[1]) > 1
    BY <1>1, <1>4 DEF Headed
  <2>2. /\ Len(v) \in Nat /\ Len(w) > Len(v) /\ w[Len(v) + 1] = RecordAt(f, p)
        /\ \A n \in 1..Len(v) : w[n] = v[n]
    BY <2>1, RecordsPrefix
  <2>3. RecordAt(f, p) = Torn
    <3> DEFINE A == {r \in DOMAIN Encoding : IsRecordAt(f, p, r)}
    <3>1. ASSUME NEW r \in DOMAIN Encoding, IsRecordAt(f, p, r) PROVE FALSE
      <4> DEFINE e == EncodeRecord(r)
                 L == Len(e)
                 next == p + L
                 rest == SubSeq(g, L + 1, Len(g))
      <4>1. r \in WalRecord /\ Fits(r) /\ Encoding[r] = e
        BY EncodingDomain
      <4>2. L \in Nat /\ L >= 4 /\ e \in File
        BY <4>1, EncodedStarts
      <4>3. next \in StartsIn(f) \cup {Len(f) + 1} /\ SubSeq(f, p, next - 1) = e
        BY <3>1, <4>1, Zenon DEF IsRecordAt
      <4>4. Len(f) = Len(c) + Len(g) /\ Len(c) \in Nat /\ SubSeq(f, p, Len(f)) = g
        BY <1>1, PartsOf
      <4> HIDE DEF e, L, f
      <4>5. L <= Len(g)
        <5>1. next <= Len(f) + 1
          BY <1>1, <4>3, <4>4 DEF StartsIn
        <5> QED
          BY <1>1, <4>2, <4>4, <5>1
      <4>6. SubSeq(f, p, next - 1) = SubSeq(g, 1, L)
        <5>1. p \in Len(c) + 1 .. Len(c) + Len(g) /\ next - 1 \in Len(c) + 1 .. Len(c) + Len(g)
          BY <1>1, <4>2, <4>4, <4>5
        <5>2. SubSeq(f, p, next - 1) = SubSeq(g, p - Len(c), (next - 1) - Len(c))
          BY <1>1, <5>1, SubSeqOfConcat2 DEF f
        <5>3. p - Len(c) = 1 /\ (next - 1) - Len(c) = L
          BY <4>2, <4>4
        <5> QED
          BY <5>2, <5>3
      <4>7. g = e \o rest /\ rest \in Seq(Seq(Nat))
        <5>1. 1 \in 1 .. Len(g) + 1 /\ L \in 1 - 1 .. Len(g) /\ Len(g) \in L .. Len(g)
          BY <1>1, <4>2, <4>5
        <5>2. SubSeq(g, 1, L) \o SubSeq(g, L + 1, Len(g)) = SubSeq(g, 1, Len(g))
          BY <1>1, <5>1, ConcatAdjacentSubSeq
        <5>3. rest \in Seq(Seq(Nat))
          BY <1>1, <4>2, <4>5
        <5> QED
          BY <1>1, <4>3, <4>6, <5>2, <5>3, SubSeqFull
      <4> HIDE DEF rest
      <4>8. DecodeRecord(e \o rest).status = "kOk"
        BY <4>1, <4>7, RoundTrip DEF e
      <4> QED
        BY <4>7, <4>8
    <3>2. A = {}
      BY <3>1
    <3>3. RecordAt(f, p) = IF A = {} THEN Torn ELSE CHOOSE r \in A : TRUE
      BY Zenon DEF RecordAt
    <3> HIDE DEF A
    <3> QED
      BY <3>2, <3>3
  <2>4. \A n \in 1..Len(v) : v[n] # Torn
    OBVIOUS
  <2> HIDE DEF v, w
  <2>5. Len(v) <= Len(w)
    BY <1>2, <2>2
  <2>6. TruncateTail(w) = v /\ Replayed(w) = Replayed(v)
    BY <1>2, <2>2, <2>3, <2>4, <2>5, TailCut
  <2> QED
    BY <2>6 DEF v, w
<1> QED
  BY <1>3, <1>4

\* The disk may hold no more numbers after a checksum than it is of.
PiecesInv == \A f \in images : Covered(f)

\* How much of an append is in the file.
WriteInv ==
    /\ apc = "write" => \E c \in File : \E n \in Nat :
          /\ Covered(c) /\ n < Len(EncodeRecord(call)) /\ file = c \o Cut(call, n)
          /\ record = SubSeq(EncodeRecord(call), n + 1, Len(EncodeRecord(call)))
    /\ apc = "fsync" => \E c \in File : file = c \o Cut(call, Len(EncodeRecord(call)))

\* Replay has read the records of a first part c of the file, none of them
\* Torn, and put them in the MemTable.
Read(c, g) ==
    /\ file = c \o g /\ valid_end = Len(c) /\ Headed(g)
    /\ \A n \in 1..Len(RecordsIn(c)) : RecordsIn(c)[n] # Torn
    /\ memtable.table_ = Replayed(RecordsIn(c))

ReadInv ==
    /\ phase = "closed" => memtable = NewMemTable
    /\ phase = "replay" => \E c \in Seq(GoodCell) : \E g \in Seq(GoodCell) : Read(c, g)

RefineInv == TypeInv /\ PiecesInv /\ WriteInv /\ ReadInv

\* An append that has not begun.
LEMMA CutNone ==
    ASSUME NEW c \in File, NEW r \in WalRecord
    PROVE  /\ c \o Cut(r, 0) = c /\ SubSeq(EncodeRecord(r), 0 + 1, Len(EncodeRecord(r))) = EncodeRecord(r)
           /\ Len(EncodeRecord(r)) \in Nat /\ 0 < Len(EncodeRecord(r))
<1>1. c \in Seq(Seq(Nat)) /\ EncodeRecord(r) \in Seq(Seq(Nat))
      /\ Len(EncodeRecord(r)) \in Nat /\ 0 < Len(EncodeRecord(r))
  BY EncodedStarts DEF File
<1>2. Cut(r, 0) = <<>>
  BY SubSeqEmpty DEF Cut
<1>3. 0 + 1 = 1
  OBVIOUS
<1> QED
  BY <1>1, <1>2, <1>3, ConcatEmptySeq, SubSeqFull

\* The empty file.
LEMMA CoveredEmpty == <<>> \in Seq(GoodCell) /\ Covered(<<>>) /\ RecordsIn(<<>>) = <<>>
<1>1. StartsIn(<<>>) = {} /\ <<>> \in File /\ Len(<<>>) = 0
  BY DEF StartsIn, File
<1>2. Cardinality(StartsIn(<<>>)) = 0
  BY <1>1, FS_EmptySet
<1>3. RecordsIn(<<>>) \in Seq(WalRecord \cup {Torn}) /\ Len(RecordsIn(<<>>)) = 0
  BY <1>1, <1>2, RecordsType
<1>4. Covered(<<>>)
  BY <1>1 DEF Covered, Headed
<1> QED
  BY <1>3, <1>4

\* RefineInv holds at first.
LEMMA RefineInvInit == Init => RefineInv
<1> SUFFICES ASSUME Init PROVE RefineInv
  OBVIOUS
<1>1. TypeInv
  BY TypeInvInit
<1>2. PiecesInv
  BY CoveredEmpty DEF Init, PiecesInv
<1> QED
  BY <1>1, <1>2 DEF RefineInv, Init, WriteInv, ReadInv

\* Every step keeps RefineInv.
LEMMA RefineInvNext == RefineInv /\ [Next]_vars => RefineInv'
<1> SUFFICES ASSUME RefineInv, [Next]_vars PROVE (PiecesInv /\ WriteInv /\ ReadInv)'
  <2>1. RefineInv /\ [Next]_vars => TypeInv'
    BY TypeInvNext DEF RefineInv
  <2> QED
    BY <2>1 DEF RefineInv
<1>0. /\ file \in images /\ images \subseteq Seq(GoodCell) /\ file \in File /\ Covered(file)
      /\ apc \in {"idle", "write", "fsync"} /\ (apc # "idle" => phase = "open" /\ call \in WalRecord)
      /\ PiecesInv
  BY GoodFile DEF RefineInv, TypeInv, TypeOK, CellsInv, PiecesInv
<1>1. ASSUME NEW r \in WalRecord, AppendCall(r) PROVE (PiecesInv /\ WriteInv /\ ReadInv)'
  <2>1. /\ apc' = "write" /\ record' = EncodeRecord(r) /\ call' = r /\ file' = file
        /\ images' = images /\ phase' = "open"
    BY <1>1 DEF AppendCall, fileVars
  <2>2. /\ file = file \o Cut(r, 0) /\ EncodeRecord(r) = SubSeq(EncodeRecord(r), 0 + 1, Len(EncodeRecord(r)))
        /\ 0 < Len(EncodeRecord(r)) /\ 0 \in Nat
    BY <1>0, CutNone
  <2>3. \E c \in File : \E n \in Nat :
          /\ Covered(c) /\ n < Len(EncodeRecord(call')) /\ file' = c \o Cut(call', n)
          /\ record' = SubSeq(EncodeRecord(call'), n + 1, Len(EncodeRecord(call')))
    BY <1>0, <2>1, <2>2
  <2>4. WriteInv' /\ ReadInv'
    BY <2>1, <2>3 DEF WriteInv, ReadInv
  <2> QED
    BY <1>0, <2>1, <2>4 DEF PiecesInv
<1>2. ASSUME NEW n \in 1..Len(record), WriteSome(n) PROVE (PiecesInv /\ WriteInv /\ ReadInv)'
  <2> DEFINE e == EncodeRecord(call)
             L == Len(e)
  <2>1. apc = "write" /\ phase = "open" /\ call \in WalRecord
    BY <1>0, <1>2 DEF WriteSome
  <2>2. PICK c \in File : \E m \in Nat : /\ Covered(c) /\ m < L /\ file = c \o Cut(call, m)
                                          /\ record = SubSeq(e, m + 1, L)
    BY <2>1 DEF RefineInv, WriteInv
  <2>3. PICK m \in Nat : /\ Covered(c) /\ m < L /\ file = c \o Cut(call, m)
                          /\ record = SubSeq(e, m + 1, L)
    BY <2>2
  <2>4. L \in Nat /\ e \in Seq(Seq(Nat))
    BY <2>1, EncodedStarts DEF File
  <2> HIDE DEF e
  <2>5. Len(record) = L - m
    BY <2>3, <2>4
  <2> HIDE DEF L
  <2>6. n \in Nat /\ n > 0 /\ m + n <= L
    BY <2>3, <2>4, <2>5
  <2>7. ASSUME NEW k \in 1..n
        PROVE  /\ file \o SubSeq(record, 1, k) = c \o Cut(call, m + k)
               /\ Covered(file \o SubSeq(record, 1, k))
    <3>1. k \in Nat /\ k > 0 /\ m + k <= L /\ m + k \in 0..L
      BY <2>3, <2>4, <2>6
    <3>2. file \o SubSeq(record, 1, k) = c \o Cut(call, m + k)
      BY <2>1, <2>3, <3>1, CutGrows DEF e, L
    <3>3. Cut(call, m + k) \in File /\ Covered(Cut(call, m + k))
      BY <2>1, <3>1, CoveredCut DEF e, L
    <3> QED
      BY <2>3, <3>2, <3>3, CoveredJoin
  <2>8. record' = SubSeq(e, m + n + 1, L)
    <3>1. record' = SubSeq(record, n + 1, Len(record))
      BY <1>2 DEF WriteSome
    <3> QED
      BY <2>1, <2>3, <2>6, <3>1, CutGrows DEF e, L
  <2>9. n \in 1..n /\ file' = file \o SubSeq(record, 1, n)
        /\ images' = images \cup {file \o SubSeq(record, 1, k) : k \in 1..n}
    BY <1>2, <2>6 DEF WriteSome
  <2>10. PiecesInv'
    BY <1>0, <2>7, <2>9 DEF PiecesInv
  <2>11. call' = call /\ phase' = "open" /\ apc' = (IF n = Len(record) THEN "fsync" ELSE "write")
    BY <1>2, <2>1 DEF WriteSome, AllWritten
  <2>12. file' = c \o Cut(call, m + n)
    BY <2>7, <2>9
  <2>13. CASE n = Len(record)
    <3>1. m + n = L
      BY <2>3, <2>4, <2>5, <2>13
    <3> QED
      BY <2>10, <2>11, <2>12, <2>13, <3>1 DEF WriteInv, ReadInv, e, L
  <2>14. CASE n # Len(record)
    <3>1. m + n < L /\ m + n \in Nat
      BY <2>3, <2>4, <2>5, <2>6, <2>14
    <3>2. \E b \in File : \E k \in Nat :
          /\ Covered(b) /\ k < Len(EncodeRecord(call')) /\ file' = b \o Cut(call', k)
          /\ record' = SubSeq(EncodeRecord(call'), k + 1, Len(EncodeRecord(call')))
      BY <2>3, <2>8, <2>11, <2>12, <3>1 DEF e, L
    <3> QED
      BY <2>10, <2>11, <2>14, <3>2 DEF WriteInv, ReadInv
  <2> QED
    BY <2>13, <2>14
<1>3. CASE AppendThrows
  <2>1. apc' = "idle" /\ images' = images /\ phase' = "open"
    BY <1>0, <1>3 DEF AppendThrows
  <2> QED
    BY <1>0, <2>1 DEF PiecesInv, WriteInv, ReadInv
<1>4. CASE AppendReturns
  <2>1. apc' = "idle" /\ images' \in {images, {file}} /\ phase' = "open"
    BY <1>0, <1>4 DEF AppendReturns, Fsync
  <2> QED
    BY <1>0, <2>1 DEF PiecesInv, WriteInv, ReadInv
<1>5. CASE Reset
  <2>1. apc' = "idle" /\ images' = images \cup {<<>>} /\ phase' = "open"
    BY <1>5 DEF Reset, appendVars
  <2> QED
    BY <1>0, <2>1, CoveredEmpty DEF PiecesInv, WriteInv, ReadInv
<1>6. CASE Open
  <2>1. /\ phase = "closed" /\ phase' = "replay" /\ valid_end' = 0 /\ file' = file /\ images' = images
        /\ memtable' = memtable /\ apc' = apc /\ apc = "idle"
    BY <1>0, <1>6 DEF Open, fileVars, appendVars
  <2>2. memtable' = NewMemTable /\ NewMemTable.table_ = EmptyTable
    BY <2>1 DEF RefineInv, ReadInv, NewMemTable
  <2>3. <<>> \o file = file /\ file \in Seq(GoodCell) /\ Headed(file)
    BY <1>0, ConcatEmptySeq DEF Covered
  <2>4. RecordsIn(<<>>) = <<>> /\ Replayed(<<>>) = EmptyTable /\ Len(<<>>) = 0
    BY CoveredEmpty, ReplayedEmpty
  <2>5. Read(<<>>, file)'
    BY <2>1, <2>2, <2>3, <2>4 DEF Read
  <2>6. ReadInv'
    <3>1. \E c \in Seq(GoodCell) : \E g \in Seq(GoodCell) : Read(c, g)'
      BY <2>1, <2>3, <2>5, CoveredEmpty
    <3> QED
      BY <2>1, <3>1 DEF ReadInv
  <2> QED
    BY <1>0, <2>1, <2>6 DEF PiecesInv, WriteInv
<1>7. CASE ReplayRecord
  <2> DEFINE d == DecodeRecord(Remaining)
             r == RecordOf(d)
             e == EncodeRecord(r)
  <2>1. /\ phase = "replay" /\ phase' = "replay" /\ d.status = "kOk" /\ file' = file /\ images' = images
        /\ apc' = apc /\ apc = "idle"
    BY <1>0, <1>7 DEF ReplayRecord, fileVars, appendVars
  <2>2. PICK c \in Seq(GoodCell) : \E g \in Seq(GoodCell) : Read(c, g)
    BY <2>1 DEF RefineInv, ReadInv
  <2>3. PICK g \in Seq(GoodCell) : Read(c, g)
    BY <2>2
  <2>4. file = c \o g /\ valid_end = Len(c) /\ c \in File
    BY <2>3, GoodFile DEF Read
  <2>5. Remaining = g
    BY <2>4, PartsOf DEF Remaining
  <2>6. /\ memtable' = UpsertSized(memtable, r.key, r.entry) /\ valid_end' = valid_end + d.bytes_consumed
    BY <1>7, Zenon DEF ReplayRecord
  <2>7. /\ r \in WalRecord /\ e \in Seq(GoodCell) /\ d.bytes_consumed = Len(e)
        /\ RecordsIn(c \o e) = Append(RecordsIn(c), r)
        /\ \E rest \in Seq(GoodCell) : Headed(rest) /\ c \o g = (c \o e) \o rest
    BY <1>0, <2>1, <2>4, <2>5, ReplayAccepts
  <2>8. PICK q : q = r
    OBVIOUS
  <2> HIDE DEF d, r
  <2> DEFINE x == EncodeRecord(q)
             b == c \o x
             v == RecordsIn(c)
  <2>9. /\ q \in WalRecord /\ x \in Seq(GoodCell) /\ RecordsIn(b) = Append(v, q)
        /\ valid_end' = Len(c) + Len(x) /\ memtable' = UpsertSized(memtable, q.key, q.entry)
        /\ \E rest \in Seq(GoodCell) : Headed(rest) /\ c \o g = b \o rest
    BY <2>4, <2>6, <2>7, <2>8
  <2>10. PICK rest \in Seq(GoodCell) : Headed(rest) /\ c \o g = b \o rest
    BY <2>9
  <2>11. b \in Seq(GoodCell) /\ Len(b) = Len(c) + Len(x)
    BY <2>9, Joined
  <2>12. v \in Seq(WalRecord \cup {Torn}) /\ \A n \in 1..Len(v) : v[n] # Torn
    BY <2>3, <2>4, RecordsType DEF Read
  <2>13. q # Torn
    BY <2>9, TornAssumption DEF WalRecord, Entry
  <2>14. memtable.table_ = Replayed(v)
    BY <2>3 DEF Read
  <2> HIDE DEF b, v, x
  <2>15. Replayed(RecordsIn(b)) = Upsert(Replayed(v), q.key, q.entry)
    BY <2>9, <2>12, ReplayedAppend
  <2>16. \A n \in 1..Len(RecordsIn(b)) : RecordsIn(b)[n] # Torn
    <3> DEFINE U == WalRecord \cup {Torn}
               w == RecordsIn(b)
    <3>1. v \in Seq(U) /\ q \in U /\ w = Append(v, q)
      BY <2>9, <2>12
    <3> HIDE DEF U, w
    <3>2. /\ Len(w) = Len(v) + 1 /\ Len(v) \in Nat /\ w[Len(v) + 1] = q
          /\ \A n \in 1..Len(v) : w[n] = v[n]
      BY <3>1, AppendProperties
    <3>3. \A n \in 1..Len(w) : w[n] # Torn
      BY <2>12, <2>13, <3>2
    <3> QED
      BY <3>3 DEF w
  <2>17. memtable'.table_ = Replayed(RecordsIn(b))
    BY <2>9, <2>14, <2>15 DEF UpsertSized
  <2>18. Read(b, rest)'
    BY <2>1, <2>4, <2>9, <2>10, <2>11, <2>16, <2>17 DEF Read
  <2>19. ReadInv'
    <3>1. \E y \in Seq(GoodCell) : \E z \in Seq(GoodCell) : Read(y, z)'
      BY <2>10, <2>11, <2>18
    <3> QED
      BY <2>1, <3>1 DEF ReadInv
  <2> QED
    BY <1>0, <2>1, <2>19 DEF PiecesInv, WriteInv
<1>8. CASE ReplayEnds
  <2>1. /\ phase = "replay" /\ phase' = "open" /\ images' = images \cup {file'}
        /\ file' = SubSeq(file, 1, valid_end) /\ apc' = apc /\ apc = "idle"
    BY <1>0, <1>8 DEF ReplayEnds, Truncated, appendVars
  <2>2. valid_end \in 0..Len(file)
    BY <2>1 DEF RefineInv, TypeInv, TypeOK
  <2>3. Covered(file')
    BY <1>0, <2>1, <2>2, CoveredPrefix
  <2> QED
    BY <1>0, <2>1, <2>3 DEF PiecesInv, WriteInv, ReadInv
<1>9. ASSUME Stop, \A f \in images' : Covered(f) PROVE (PiecesInv /\ WriteInv /\ ReadInv)'
  <2>1. phase' = "closed" /\ memtable' = NewMemTable /\ apc' = "idle"
    BY <1>9 DEF Stop
  <2> QED
    BY <1>9, <2>1 DEF PiecesInv, WriteInv, ReadInv
<1>10. CASE Crash
  BY <1>0, <1>9, <1>10 DEF Crash, fileVars, PiecesInv
<1>11. CASE PowerLoss
  BY <1>0, <1>9, <1>11 DEF PowerLoss, PiecesInv
<1>12. ASSUME NEW i \in 1..Len(file), Rot(i) PROVE (PiecesInv /\ WriteInv /\ ReadInv)'
  <2>1. file' = [file EXCEPT ![i] = IF Len(@) = 1 THEN RottenCell ELSE @ \o RottenCell]
    BY <1>12 DEF Rot
  <2>2. Covered(file')
    BY <1>0, <2>1, CoveredRot
  <2>3. images' = {file'} /\ phase = "closed" /\ phase' = phase /\ memtable' = memtable
        /\ apc' = apc /\ apc = "idle"
    BY <1>0, <1>12 DEF Rot, appendVars
  <2>4. memtable = NewMemTable
    BY <2>3 DEF RefineInv, ReadInv
  <2> QED
    BY <2>2, <2>3, <2>4 DEF PiecesInv, WriteInv, ReadInv
<1>13. CASE UNCHANGED vars
  BY <1>13 DEF vars, fileVars, appendVars, RefineInv, PiecesInv, WriteInv, ReadInv, Read
<1> QED
  BY <1>1, <1>2, <1>3, <1>4, <1>5, <1>6, <1>7, <1>8, <1>10, <1>11, <1>12, <1>13 DEF Next

\* The operators of the abstract log are those of LSMTables.
LEMMA SameOperators ==
    /\ Log!WalRecord = WalRecord /\ Log!EmptyTable = EmptyTable
    /\ \A w : Log!Replayed(w) = Replayed(w) /\ Log!TruncateTail(w) = TruncateTail(w)
    /\ \A t, k, x : Log!Upsert(t, k, x) = Upsert(t, k, x)
<1>1. Log!WalRecord = WalRecord /\ Log!EmptyTable = EmptyTable
  BY DEF Log!WalRecord, WalRecord, Log!Entry, Entry, Log!EmptyTable, EmptyTable
<1>2. \A w : Log!Decodable(w) = Decodable(w)
  BY DEF Log!Decodable, Decodable
<1>3. \A S : Log!Max(S) = Max(S)
  BY DEF Log!Max, Max
<1>4. \A w : Log!TruncateTail(w) = TruncateTail(w)
  BY <1>2, <1>3 DEF Log!TruncateTail, TruncateTail
<1>5. ASSUME NEW w PROVE Log!Replayed(w) = Replayed(w)
  <2> DEFINE Hits(k) == {i \in Decodable(w) : w[i].key = k}
  <2>1. Log!Replayed(w) = [k \in Key |-> IF Hits(k) = {} THEN Absent ELSE w[Max(Hits(k))].entry]
    BY <1>2, <1>3 DEF Log!Replayed
  <2> QED
    BY <2>1 DEF Replayed
<1>6. \A t, k, x : Log!Upsert(t, k, x) = Upsert(t, k, x)
  BY DEF Log!Upsert, Upsert
<1> QED
  BY <1>1, <1>4, <1>5, <1>6

\* An append counts as begun once a cell of it is in the file; then the last
\* record is Torn.
LEMMA PartMeans ==
    ASSUME apc = "write", call \in WalRecord, NEW c \in File, NEW n \in Nat,
           n < Len(EncodeRecord(call)), file = c \o Cut(call, n),
           record = SubSeq(EncodeRecord(call), n + 1, Len(EncodeRecord(call)))
    PROVE  /\ InPart <=> n # 0
           /\ RecordsIn(file) = IF InPart THEN Append(RecordsIn(c), Torn) ELSE RecordsIn(c)
<1> DEFINE e == EncodeRecord(call)
           L == Len(e)
<1>1. L \in Nat /\ e \in Seq(Seq(Nat))
  BY EncodedStarts DEF File
<1>2. Len(record) = L - n
  <2> HIDE DEF e
  <2> QED
    BY <1>1 DEF e
<1>3. CASE n = 0
  <2>1. record = e /\ file = c
    BY <1>3, CutNone
  <2> QED
    BY <1>3, <2>1 DEF InPart
<1>4. CASE n # 0
  <2>1. n \in 1..L /\ record # e
    BY <1>1, <1>2, <1>4
  <2>2. RecordsIn(file) = Append(RecordsIn(c), Torn)
    BY <2>1, AppendAdds
  <2> QED
    BY <1>4, <2>1, <2>2 DEF InPart
<1> QED
  BY <1>3, <1>4

\* The last record of a log and the ones before it.
LEMMA AllButLast ==
    ASSUME NEW v \in Seq(WalRecord \cup {Torn}), NEW x \in WalRecord \cup {Torn},
           NEW w, w = Append(v, x)
    PROVE  SubSeq(w, 1, Len(w) - 1) = v /\ w # <<>> /\ w[Len(w)] = x
<1> DEFINE U == WalRecord \cup {Torn}
<1>1. v \in Seq(U) /\ x \in U
  OBVIOUS
<1> HIDE DEF U
<1>2. w \in Seq(U) /\ Len(w) = Len(v) + 1 /\ Len(v) \in Nat /\ w[Len(v) + 1] = x
      /\ \A n \in 1..Len(v) : w[n] = v[n]
  BY <1>1, AppendProperties
<1>3. Len(w) - 1 = Len(v) /\ w # <<>> /\ w[Len(w)] = x
  BY <1>2
<1> DEFINE s == SubSeq(w, 1, Len(v))
<1>4. s \in Seq(U) /\ Len(s) = Len(v) /\ \A n \in 1..Len(v) : s[n] = w[n]
  BY <1>2
<1> HIDE DEF s
<1>5. s = v
  <2>1. \A n \in 1..Len(v) : s[n] = v[n]
    BY <1>2, <1>4
  <2> QED
    BY <1>1, <1>4, <2>1, SeqEqual
<1> QED
  BY <1>3, <1>5 DEF s

\* The abstract log sees one record, or Torn, whatever an append wrote.
LEMMA WriteIsWrite ==
    ASSUME RefineInv, NEW n \in 1..Len(record), WriteSome(n)
    PROVE  Log!Write
<1> DEFINE e == EncodeRecord(call)
           L == Len(e)
           U == WalRecord \cup {Torn}
<1>1. apc = "write" /\ phase = "open" /\ call \in WalRecord
  BY DEF WriteSome, RefineInv, TypeInv, TypeOK, CellsInv
<1>2. PICK c \in File : \E m \in Nat : /\ Covered(c) /\ m < L /\ file = c \o Cut(call, m)
                                        /\ record = SubSeq(e, m + 1, L)
  BY <1>1 DEF RefineInv, WriteInv
<1>3. PICK m \in Nat : m < L /\ file = c \o Cut(call, m) /\ record = SubSeq(e, m + 1, L)
  BY <1>2
<1>4. L \in Nat /\ e \in Seq(Seq(Nat)) /\ L > 0
  BY <1>1, EncodedStarts DEF File
<1> DEFINE v == RecordsIn(c)
           before == IF InPart THEN SubSeq(RecordsIn(file), 1, Len(RecordsIn(file)) - 1)
                     ELSE RecordsIn(file)
<1>5. v \in Seq(U)
  BY RecordsType
<1>6. before = v
  <2>1. RecordsIn(file) = IF InPart THEN Append(v, Torn) ELSE v
    BY <1>1, <1>3, PartMeans
  <2> HIDE DEF v
  <2>2. CASE InPart
    BY <1>5, <2>1, <2>2, AllButLast
  <2>3. CASE ~InPart
    BY <2>1, <2>3
  <2> QED
    BY <2>2, <2>3
<1> HIDE DEF e
<1>7. Len(record) = L - m
  BY <1>3, <1>4
<1> HIDE DEF L
<1>8. n \in Nat /\ n > 0 /\ m + n <= L /\ m + n \in 1..L /\ (m + n = L <=> n = Len(record))
  BY <1>3, <1>4, <1>7
<1>9. /\ file' = c \o Cut(call, m + n) /\ record' = SubSeq(e, m + n + 1, L)
  <2>1. file' = file \o SubSeq(record, 1, n) /\ record' = SubSeq(record, n + 1, Len(record))
    BY DEF WriteSome
  <2> QED
    BY <1>1, <1>3, <1>8, <2>1, CutGrows DEF e, L
<1>10. call' = call /\ phase' = "open" /\ memtable' = memtable
       /\ apc' = (IF n = Len(record) THEN "fsync" ELSE "write")
  BY <1>1 DEF WriteSome, AllWritten
<1>11. /\ m + n < L \/ ~Fits(call) => RecordsIn(file') = Append(v, Torn)
       /\ m + n = L /\ Fits(call) => RecordsIn(file') = Append(v, call)
  BY <1>1, <1>8, <1>9, AppendAdds DEF e, L
<1>12. InPart' <=> m + n # L
  <2>1. InPart' <=> apc' = "write" /\ record' # EncodeRecord(call')
    BY DEF InPart
  <2>2. Len(record') = L - (m + n)
    BY <1>4, <1>8, <1>9 DEF L
  <2>3. record' # e
    BY <1>4, <1>8, <2>2 DEF L
  <2> QED
    BY <1>8, <1>10, <2>1, <2>3 DEF e
<1> HIDE DEF v, before
<1>13. \E x \in IF InPart' THEN {Torn} ELSE {Log!Written(r) : r \in Log!WalRecord} :
          RecordsIn(file') = Append(before, x)
  <2>1. CASE InPart'
    <3>1. m + n < L
      BY <1>4, <1>8, <1>12, <2>1
    <3>2. RecordsIn(file') = Append(before, Torn)
      BY <1>6, <1>11, <3>1
    <3> QED
      BY <2>1, <3>2
  <2>2. CASE ~InPart'
    <3>1. Log!Written(call) = IF Fits(call) THEN call ELSE Torn
      BY <1>1 DEF Log!Written, Oversized
    <3>2. RecordsIn(file') = Append(before, Log!Written(call))
      BY <1>6, <1>11, <1>12, <2>2, <3>1
    <3>3. Log!Written(call) \in {Log!Written(r) : r \in Log!WalRecord}
      BY <1>1, SameOperators
    <3> QED
      BY <2>2, <3>2, <3>3
  <2> QED
    BY <2>1, <2>2
<1> QED
  BY <1>1, <1>10, <1>13 DEF Log!Write, before

\* The initial states are initial states of the abstract log.
LEMMA LogRefinesInit == Init => Log!Init
<1> SUFFICES ASSUME Init PROVE Log!Init
  OBVIOUS
<1>1. file = <<>> /\ phase = "closed" /\ apc = "idle"
  BY DEF Init
<1>2. RecordsIn(file) = <<>> /\ ~InPart
  BY <1>1, CoveredEmpty DEF InPart
<1> QED
  BY <1>1, <1>2, SameOperators DEF Log!Init

\* Every step is a step of the abstract log, or none.
LEMMA LogRefinesStep == RefineInv /\ [Next]_vars => [Log!Next]_Log!vars
<1> SUFFICES ASSUME RefineInv, [Next]_vars PROVE [Log!Next]_Log!vars
  OBVIOUS
<1> DEFINE wal == RecordsIn(file)
           table == IF phase = "open" THEN memtable.table_ ELSE EmptyTable
<1>0. /\ file \in images /\ images \subseteq File /\ file \in File
      /\ apc \in {"idle", "write", "fsync"} /\ (apc # "idle" => phase = "open" /\ call \in WalRecord)
  BY GoodFile DEF RefineInv, TypeInv, TypeOK, CellsInv
<1>1. (InPart \in BOOLEAN) /\ (InPart' \in BOOLEAN)
  BY DEF InPart
<1>2. ASSUME file' = file, phase' = "open" <=> phase = "open", InPart' <=> InPart,
             phase = "open" => memtable' = memtable
      PROVE  [Log!Next]_Log!vars
  <2>1. (phase = "open")' = (phase = "open")
    BY <1>2
  <2>2. InPart' = InPart
    BY <1>1, <1>2
  <2>3. (IF phase = "open" THEN memtable.table_ ELSE EmptyTable)'
           = IF phase = "open" THEN memtable.table_ ELSE EmptyTable
    BY <1>2 DEF EmptyTable
  <2>4. UNCHANGED Log!vars
    BY <1>2, <2>1, <2>2, <2>3, Zenon DEF Log!vars
  <2> QED
    BY <2>4
<1>3. ASSUME NEW r \in WalRecord, AppendCall(r) PROVE [Log!Next]_Log!vars
  <2>1. ~InPart /\ ~InPart' /\ file' = file /\ memtable' = memtable /\ phase = "open" /\ phase' = "open"
    BY <1>3 DEF AppendCall, InPart, fileVars
  <2> QED
    BY <1>2, <2>1
<1>4. ASSUME NEW n \in 1..Len(record), WriteSome(n) PROVE [Log!Next]_Log!vars
  BY <1>4, WriteIsWrite DEF Log!Next
<1>5. CASE AppendThrows
  <2>1. ~InPart' /\ file' = file /\ memtable' = memtable /\ phase' = phase
    BY <1>5 DEF AppendThrows, InPart
  <2>2. CASE InPart
    <3>1. Log!GiveUp
      BY <2>1, <2>2 DEF Log!GiveUp
    <3> QED
      BY <3>1 DEF Log!Next
  <2>3. CASE ~InPart
    BY <1>2, <2>1, <2>3
  <2> QED
    BY <2>2, <2>3
<1>6. CASE AppendReturns
  <2>1. /\ apc = "fsync" /\ phase = "open" /\ call \in WalRecord /\ file' = file /\ phase' = phase
        /\ apc' = "idle" /\ memtable' = UpsertSized(memtable, call.key, call.entry)
    BY <1>0, <1>6 DEF AppendReturns
  <2>2. PICK c \in File : file = c \o Cut(call, Len(EncodeRecord(call)))
    BY <2>1 DEF RefineInv, WriteInv
  <2>3. Len(EncodeRecord(call)) \in 1..Len(EncodeRecord(call))
    BY <2>1, EncodedStarts
  <2>4. wal = Append(RecordsIn(c), Log!Written(call))
    <3>1. Log!Written(call) = IF Fits(call) THEN call ELSE Torn
      BY <2>1 DEF Log!Written, Oversized
    <3> QED
      BY <2>1, <2>2, <2>3, <3>1, AppendAdds
  <2>5. Log!Written(call) \in WalRecord \cup {Torn}
    BY <2>1 DEF Log!Written
  <2>6. wal # <<>> /\ wal[Len(wal)] = Log!Written(call)
    BY <2>4, <2>5, RecordsType, AllButLast
  <2>7. memtable'.table_ = Upsert(memtable.table_, call.key, call.entry)
    BY <2>1 DEF UpsertSized
  <2>8. ~InPart /\ ~InPart'
    BY <2>1 DEF InPart
  <2>9. Log!Sync(call)
    <3>1. (phase = "open")' = (phase = "open") /\ InPart' = InPart
      BY <1>1, <2>1, <2>8
    <3>2. table = memtable.table_ /\ table' = memtable'.table_ /\ wal' = wal
      BY <2>1
    <3> QED
      BY <2>1, <2>6, <2>7, <2>8, <3>1, <3>2, SameOperators DEF Log!Sync
  <2>10. call \in Log!WalRecord
    BY <2>1, SameOperators
  <2> QED
    BY <2>9, <2>10 DEF Log!Next
<1>7. CASE Reset
  <2>1. /\ phase = "open" /\ phase' = phase /\ apc = "idle" /\ apc' = "idle" /\ file' = <<>>
        /\ memtable'.table_ = EmptyTable
    BY <1>7 DEF Reset, appendVars, NewMemTable
  <2>2. ~InPart /\ ~InPart' /\ wal' = <<>>
    BY <2>1, CoveredEmpty DEF InPart
  <2>3. Log!Reset
    <3>1. (phase = "open")' = (phase = "open") /\ InPart' = InPart
      BY <1>1, <2>1, <2>2
    <3>2. table' = EmptyTable
      BY <2>1
    <3> QED
      BY <2>1, <2>2, <3>1, <3>2, SameOperators DEF Log!Reset
  <2> QED
    BY <2>3 DEF Log!Next
<1>8. CASE Open \/ ReplayRecord
  <2>1. file' = file /\ phase # "open" /\ phase' # "open" /\ apc' = apc /\ apc = "idle"
    BY <1>0, <1>8 DEF Open, ReplayRecord, fileVars, appendVars
  <2> QED
    BY <1>2, <2>1 DEF InPart
<1>9. CASE ReplayEnds
  <2>1. /\ phase = "replay" /\ phase' = "open" /\ apc = "idle" /\ apc' = "idle"
        /\ DecodeRecord(Remaining).status # "kOk" /\ memtable' = memtable
        /\ file' = SubSeq(file, 1, valid_end)
    BY <1>0, <1>9 DEF ReplayEnds, Truncated, appendVars
  <2>2. PICK c \in Seq(GoodCell) : \E g \in Seq(GoodCell) : Read(c, g)
    BY <2>1 DEF RefineInv, ReadInv
  <2>3. PICK g \in Seq(GoodCell) : Read(c, g)
    BY <2>2
  <2>4. /\ file = c \o g /\ valid_end = Len(c) /\ c \in File /\ g \in File /\ Headed(g)
        /\ memtable.table_ = Replayed(RecordsIn(c))
        /\ \A n \in 1..Len(RecordsIn(c)) : RecordsIn(c)[n] # Torn
    BY <2>3, GoodFile DEF Read
  <2>5. Remaining = g /\ file' = c
    BY <2>1, <2>4, PartsOf DEF Remaining
  <2>6. TruncateTail(wal) = wal' /\ Replayed(wal) = memtable'.table_
    BY <2>1, <2>4, <2>5, ReplayStops
  <2>7. Log!Replay
    BY <2>1, <2>6, SameOperators DEF Log!Replay, InPart
  <2> QED
    BY <2>7 DEF Log!Next
<1>10. ASSUME Stop PROVE Log!Stopped /\ phase' # "open" /\ ~InPart'
  BY <1>10, SameOperators DEF Stop, Log!Stopped, InPart
<1>11. CASE Crash
  <2>1. file' = file /\ Stop
    BY <1>11 DEF Crash, fileVars
  <2>2. CASE phase = "open"
    <3>1. Log!Crash
      BY <1>10, <2>1, <2>2 DEF Log!Crash
    <3> QED
      BY <3>1 DEF Log!Next
  <2>3. CASE phase # "open"
    <3>1. ~InPart
      BY <1>0, <2>3 DEF InPart
    <3> QED
      BY <1>2, <1>10, <2>1, <2>3, <3>1
  <2> QED
    BY <2>2, <2>3
<1>12. ASSUME Log!Stopped, file' \in File PROVE Log!Damage
  BY <1>12, RecordsType, SameOperators DEF Log!Damage
<1>13. CASE PowerLoss
  <2>1. Stop /\ file' \in File
    BY <1>0, <1>13 DEF PowerLoss
  <2> QED
    BY <1>10, <1>12, <2>1 DEF Log!Next
<1>14. ASSUME NEW i \in 1..Len(file), Rot(i) PROVE [Log!Next]_Log!vars
  <2>1. phase = "closed" /\ phase' = phase /\ apc = "idle" /\ apc' = apc
    BY <1>0, <1>14 DEF Rot, appendVars
  <2>2. Log!Stopped
    BY <2>1, SameOperators DEF Log!Stopped, InPart
  <2>3. file' \in File
    <3>1. TypeInv'
      BY TypeInvNext DEF RefineInv
    <3> QED
      BY <3>1, GoodFile DEF TypeInv, TypeOK, CellsInv
  <2> QED
    BY <1>12, <2>2, <2>3 DEF Log!Next
<1>15. CASE UNCHANGED vars
  <2>1. UNCHANGED <<file, phase, memtable, apc, record, call>>
    BY <1>15 DEF vars, fileVars, appendVars
  <2> QED
    BY <1>2, <2>1 DEF InPart
<1> QED
  BY <1>3, <1>4, <1>5, <1>6, <1>7, <1>8, <1>9, <1>11, <1>13, <1>14, <1>15 DEF Next

\* The cells of the file, the short writes, the decoding and the truncation
\* amount to the sequence of records that module Database keeps: whatever the
\* failures, crashes, power losses and bad cells, Replay applies the records
\* before the first that does not decode and cuts the file after them.
THEOREM LogRefinement == Spec => ImplementsRecordLog
<1>1. RefineInv /\ [Next]_vars => RefineInv'
  BY RefineInvNext
<1> QED
  BY <1>1, RefineInvInit, LogRefinesInit, LogRefinesStep, PTL DEF Spec, ImplementsRecordLog, Log!Spec
=============================================================================
