------------------------- MODULE SSTableFileProofs -------------------------
(***************************************************************************)
(* Proofs about one SSTable file: for every table, every interval of the   *)
(* sparse index and every damage to the data section, what Find, ScanRaw   *)
(* and AllRaw return is what the table holds, or they throw.               *)
(*                                                                         *)
(* The argument follows the file: WrittenInv says what WriteSSTable has    *)
(* put into the data section so far, IndexInv how the index samples it,    *)
(* FileInv that the reader has loaded just that, the intact records at     *)
(* least, FindInv and WalkInv what the record-by-record loops know when    *)
(* they are at pos, and PassedInv that no damaged record is behind them.   *)
(***************************************************************************)
EXTENDS SSTableFile, LSMTablesProofs

\* What a read returns of the i-th record of the data section.
Rec(i) == [key |-> data[i].key, entry |-> data[i].entry]

\* The data section holds, in ascending order, entries of the table and none
\* is left out up to the last one written.
WrittenInv ==
    /\ \A i \in 1..Len(data) :
          entries[data[i].key] # Absent /\ data[i].entry = entries[data[i].key]
    /\ \A i, j \in 1..Len(data) : i < j => data[i].key < data[j].key
    /\ \A k \in Key, i \in 1..Len(data) :
          entries[k] # Absent /\ k <= data[i].key => \E j \in 1..Len(data) : data[j].key = k
    /\ phase # "writing" => Unwritten = {}

\* The index starts at the first record, names the key at each of its offsets
\* and never leaves more than an interval between two of them or at the end.
IndexInv ==
    /\ Len(data) > 0 =>
          /\ Len(sparse_index) > 0 /\ sparse_index[1].offset = 0
          /\ Len(data) <= sparse_index[Len(sparse_index)].offset + kSparseIndexInterval
    /\ \A j \in 1..Len(sparse_index) :
          /\ sparse_index[j].offset < Len(data)
          /\ sparse_index[j].offset % kSparseIndexInterval = 0
          /\ sparse_index[j].key = data[sparse_index[j].offset + 1].key
    /\ \A j \in 1 .. Len(sparse_index) - 1 :
          /\ sparse_index[j].offset < sparse_index[j + 1].offset
          /\ sparse_index[j + 1].offset <= sparse_index[j].offset + kSparseIndexInterval

\* A record whose checksum fits is the one that was written.
Intact(i) ==
    contents[i].ok => contents[i].key = data[i].key /\ contents[i].entry = data[i].entry

\* The file is the three sections in order, with a checksum that does not fit
\* wherever a record is not as it was written, and an open reader has the
\* first two.
FileInv ==
    /\ phase = "writing" => contents = <<>>
    /\ phase # "writing" =>
          /\ Len(contents) = Len(data) + Len(sparse_index) + 1
          /\ \A i \in 1..Len(data) : contents[i] \in DataCell /\ Intact(i)
          /\ \A j \in 1..Len(sparse_index) : contents[Len(data) + j] = sparse_index[j]
          /\ ReadFooter \in {[Footer EXCEPT !.ok = b] : b \in BOOLEAN}
    /\ phase # "open" => data_ = <<>> /\ index_ = <<>> /\ rpc = "idle"
    /\ phase = "open" => /\ Len(data_) = Len(data)
                         /\ \A i \in 1..Len(data) : data_[i] = contents[i]
                         /\ index_ = sparse_index

\* A lookup in progress: the key is in the block between pos and bound or
\* nowhere, and what is left of the block and what was decoded of it fit into
\* one interval.
FindInv ==
    /\ rpc = "idle" => pos = 0 /\ bound = 0 /\ results = <<>>
    /\ rpc \in {"idle", "scan", "all", "scanned", "listed"} => examined = 0
    /\ examined <= kSparseIndexInterval
    /\ rpc = "find" =>
          /\ results = <<>> /\ bound + examined <= pos + kSparseIndexInterval
          /\ \A i \in 1..pos : data[i].key < rkey
          /\ \A i \in 1..Len(data) : bound < i => rkey < data[i].key
    /\ rpc = "found" => results = Answer(rkey)

\* The records up to pos that the scan in progress is to return.
Wanted(p) == {i \in 1..p : rpc = "all" \/ rkey <= data[i].key}

\* A scan in progress: what it has collected, and that it has passed no record
\* it had to stop at.
WalkInv ==
    /\ rpc \in {"scan", "all"} =>
          /\ bound = Len(data)
          /\ {results[i] : i \in 1..Len(results)} = {Rec(i) : i \in Wanted(pos)}
          /\ \A i, j \in 1..Len(results) : i < j => results[i].key < results[j].key
    /\ rpc = "scan" => \A i \in 1..pos : rkey <= data[i].key => data[i].key < rend

\* Behind every read are intact records; at pos there is one too if the read
\* returned without coming to the end, and a damaged one if it threw.
PassedInv ==
    /\ \A i \in start_offset + 1 .. pos : data_[i].ok
    /\ rpc \in {"found", "scanned"} /\ pos < bound => data_[pos + 1].ok
    /\ rpc = "listed" => pos = bound
    /\ rpc = "threw" => pos < bound /\ ~data_[pos + 1].ok

FormatInv ==
    TypeOK /\ WrittenInv /\ IndexInv /\ FileInv /\ FindInv /\ WalkInv /\ ScanIsExact

USE DEF Entry, Table

-----------------------------------------------------------------------------
(* Facts about the operators *)

\* The position std::upper_bound returns exists, whatever the index holds.
LEMMA UpperBoundExact ==
    ASSUME index_ \in Seq(IndexCell), NEW k \in Int
    PROVE  /\ UpperBound(k) \in 1 .. Len(index_) + 1
           /\ UpperBound(k) <= Len(index_) => index_[UpperBound(k)].key > k
           /\ \A j \in 1 .. UpperBound(k) - 1 : index_[j].key <= k
<1> DEFINE n == Len(index_)
           S == {u \in 1 .. n + 1 : u <= n => index_[u].key > k}
           T == {n + 1 - u : u \in S}
<1>1. n \in Nat
  OBVIOUS
<1>2. ASSUME NEW j \in 1..n PROVE index_[j].key \in Int
  <2>1. index_[j] \in IndexCell
    OBVIOUS
  <2> QED
    BY <2>1, DataAssumption DEF IndexCell
<1>3. n + 1 \in S
  BY <1>1
<1>4. T \in SUBSET (0 .. n + 1) /\ T # {}
  <2>1. (n + 1) - (n + 1) \in T
    BY <1>3
  <2>2. ASSUME NEW x \in T PROVE x \in 0 .. n + 1
    <3>1. PICK u \in S : x = n + 1 - u
      OBVIOUS
    <3>2. u \in 1 .. n + 1
      OBVIOUS
    <3> HIDE DEF n, S
    <3> QED
      BY <1>1, <3>1, <3>2
  <2> QED
    BY <2>1, <2>2
<1>5. Max(T) \in T /\ \A y \in T : y <= Max(T)
  <2>1. n + 1 \in Nat
    BY <1>1
  <2> HIDE DEF n, T
  <2> QED
    BY <2>1, <1>4, MaxExists
<1>6. PICK m \in S : Max(T) = n + 1 - m
  BY <1>5
<1>7. m \in 1 .. n + 1 /\ (m <= n => index_[m].key > k)
  OBVIOUS
<1>8. ASSUME NEW j \in 1 .. m - 1 PROVE index_[j].key <= k
  <2>1. j \in 1 .. n + 1 /\ j < m /\ j <= n
    BY <1>1, <1>7
  <2>2. j \notin S
    <3>1. SUFFICES ASSUME j \in S PROVE FALSE
      OBVIOUS
    <3>2. n + 1 - j \in T
      BY <3>1
    <3>3. n + 1 - j <= n + 1 - m
      BY <1>5, <1>6, <3>2
    <3> HIDE DEF n, S, T
    <3> QED
      BY <1>1, <1>7, <2>1, <3>3
  <2>3. ~(index_[j].key > k)
    BY <2>1, <2>2
  <2> QED
    BY <1>2, <2>1, <2>3
<1>9. \E u \in 1 .. Len(index_) + 1 :
         /\ u <= Len(index_) => index_[u].key > k
         /\ \A j \in 1 .. u - 1 : index_[j].key <= k
  BY <1>7, <1>8
<1> QED
  BY <1>9 DEF UpperBound

\* Sampling at the multiples of the interval leaves one interval between two.
LEMMA NextSample ==
    ASSUME NEW K \in Nat \ {0}, NEW a \in Nat, a % K = 0
    PROVE  (a + K) % K = 0
<1> DEFINE q == a \div K
           p == (a + K) \div K
           r == (a + K) % K
<1>1. q \in Int /\ p \in Int /\ r \in 0 .. K - 1
  OBVIOUS
<1>2. a = K * q
  OBVIOUS
<1>3. a + K = K * p + r
  OBVIOUS
<1> HIDE DEF p, q, r
<1>4. K * (p - q - 1) + r = 0
  BY <1>1, <1>2, <1>3
<1>5. CASE p - q - 1 >= 0
  <2>1. K * (p - q - 1) >= 0
    BY <1>1, <1>5
  <2> QED
    BY <1>1, <1>4, <2>1 DEF r
<1>6. CASE p - q - 1 < 0
  <2> DEFINE x == 0 - (p - q - 1) - 1
  <2>1. x \in Int /\ x >= 0
    BY <1>1, <1>6
  <2>2. K * x = 0 - K * (p - q - 1) - K
    BY <1>1
  <2>3. K * x >= 0
    BY <2>1
  <2> HIDE DEF x
  <2> DEFINE y == K * (p - q - 1)
  <2>4. y \in Int
    BY <1>1
  <2> HIDE DEF y
  <2>5. y + r = 0 /\ 0 - y - K >= 0
    BY <1>4, <2>2, <2>3 DEF y
  <2> QED
    BY <1>1, <2>4, <2>5
<1> QED
  BY <1>1, <1>5, <1>6

\* The types of the records of the data section and of the index.
LEMMA CellTypes ==
    ASSUME TypeOK
    PROVE  /\ Len(data) \in Nat /\ Len(sparse_index) \in Nat
           /\ \A i \in 1..Len(data) : /\ data[i] \in DataCell /\ data[i].key \in Key
                                      /\ data[i].key \in Int /\ data[i].entry \in Entry
           /\ \A j \in 1..Len(sparse_index) : /\ sparse_index[j].key \in Int
                                              /\ sparse_index[j].offset \in Nat
<1>1. Len(data) \in Nat /\ Len(sparse_index) \in Nat
  BY DEF TypeOK
<1>2. ASSUME NEW i \in 1..Len(data)
      PROVE  /\ data[i] \in DataCell /\ data[i].key \in Key
             /\ data[i].key \in Int /\ data[i].entry \in Entry
  <2>1. data[i] \in DataCell
    BY DEF TypeOK
  <2> QED
    BY <2>1, DataAssumption DEF DataCell
<1>3. ASSUME NEW j \in 1..Len(sparse_index)
      PROVE  sparse_index[j].key \in Int /\ sparse_index[j].offset \in Nat
  <2>1. sparse_index[j] \in IndexCell
    BY DEF TypeOK
  <2> QED
    BY <2>1, DataAssumption DEF IndexCell
<1> QED
  BY <1>1, <1>2, <1>3

\* Once written, the data section has a record for every entry of the table.
LEMMA Complete ==
    ASSUME TypeOK, WrittenInv, phase # "writing", NEW k \in Key, entries[k] # Absent
    PROVE  \E j \in 1..Len(data) : data[j].key = k
<1>1. PICK i \in 1..Len(data) : ~(data[i].key < k)
  BY DEF WrittenInv, Unwritten
<1>2. k <= data[i].key
  BY <1>1, CellTypes, DataAssumption
<1> QED
  BY <1>2 DEF WrittenInv

\* The answer for a key is its record in the data section, if there is one.
LEMMA AnswerHit ==
    ASSUME TypeOK, WrittenInv, NEW i \in 1..Len(data)
    PROVE  Answer(data[i].key) = <<Rec(i)>>
<1>1. data[i].key \in Key
  BY CellTypes
<1> QED
  BY <1>1 DEF WrittenInv, Answer, Rec

\* It is nothing for a key without a record.
LEMMA AnswerMiss ==
    ASSUME TypeOK, WrittenInv, phase # "writing", NEW k,
           \A i \in 1..Len(data) : data[i].key # k
    PROVE  Answer(k) = <<>>
  BY Complete DEF Answer

\* A result list is exact if it has the records whose keys are in the range.
LEMMA ExactList ==
    ASSUME TypeOK, WrittenInv, phase # "writing", NEW S \in SUBSET Key,
           {results[i] : i \in 1..Len(results)}
              = {Rec(i) : i \in {j \in 1..Len(data) : data[j].key \in S}},
           \A i, j \in 1..Len(results) : i < j => results[i].key < results[j].key
    PROVE  Lists(S)
<1> DEFINE got == {Rec(i) : i \in {j \in 1..Len(data) : data[j].key \in S}}
           due == {[key |-> k, entry |-> entries[k]] : k \in {j \in S : entries[j] # Absent}}
<1>1. ASSUME NEW x \in got PROVE x \in due
  <2>1. PICK i \in 1..Len(data) : data[i].key \in S /\ x = Rec(i)
    OBVIOUS
  <2>2. entries[data[i].key] # Absent /\ data[i].entry = entries[data[i].key]
    BY DEF WrittenInv
  <2> QED
    BY <2>1, <2>2 DEF Rec
<1>2. ASSUME NEW x \in due PROVE x \in got
  <2>1. PICK k \in S : entries[k] # Absent /\ x = [key |-> k, entry |-> entries[k]]
    OBVIOUS
  <2>2. PICK i \in 1..Len(data) : data[i].key = k
    BY <2>1, Complete
  <2>3. data[i].entry = entries[k]
    BY <2>2 DEF WrittenInv
  <2> QED
    BY <2>1, <2>2, <2>3 DEF Rec
<1>3. got = due
  BY <1>1, <1>2
<1> QED
  BY <1>3 DEF Lists

\* What an open reader sees at a position.
LEMMA OpenCell ==
    ASSUME TypeOK, FileInv, phase = "open", NEW i \in 1..Len(data)
    PROVE  /\ i \in 1..Len(data_) /\ data_[i] = contents[i] /\ data_[i] \in DataCell
           /\ data_[i].section = "data" /\ data_[i].ok \in BOOLEAN
           /\ data_[i].ok => data_[i].key = data[i].key /\ data_[i].entry = data[i].entry
<1>1. data_[i] = contents[i] /\ contents[i] \in DataCell /\ i \in 1..Len(data_)
      /\ (contents[i].ok => contents[i].key = data[i].key /\ contents[i].entry = data[i].entry)
  BY DEF FileInv, Intact
<1> QED
  BY <1>1 DEF DataCell

-----------------------------------------------------------------------------
(* WriteSSTable and the opening of the file *)

\* FormatInv holds at first.
LEMMA FormatInit == Init => FormatInv
<1> SUFFICES ASSUME Init PROVE FormatInv
  OBVIOUS
<1>1. TypeOK
  BY FormatAssumption DEF Init, TypeOK
<1>2. WrittenInv /\ IndexInv
  BY DEF Init, WrittenInv, IndexInv
<1>3. FileInv
  BY DEF Init, FileInv
<1>4. FindInv
  BY FormatAssumption DEF Init, FindInv
<1>5. WalkInv /\ ScanIsExact
  BY DEF Init, WalkInv, ScanIsExact
<1> QED
  BY <1>1, <1>2, <1>3, <1>4, <1>5 DEF FormatInv

\* The part of the invariant about reads is idle before the file is open.
LEMMA NoReads ==
    ASSUME FormatInv, UNCHANGED readVars, rpc = "idle"
    PROVE  (FindInv /\ WalkInv /\ ScanIsExact)'
<1> USE DEF FormatInv, readVars
<1>1. FindInv'
  BY DEF FindInv
<1>2. WalkInv'
  BY DEF WalkInv
<1>3. ScanIsExact'
  BY DEF ScanIsExact
<1> QED
  BY <1>1, <1>2, <1>3

\* One record more in the data section.
LEMMA WriteEntryStep ==
    ASSUME FormatInv, WriteEntry
    PROVE  FormatInv'
<1> USE DEF FormatInv
<1> DEFINE n == Len(data)
           m == Len(sparse_index)
           K == kSparseIndexInterval
<1>1. PICK k \in Unwritten :
         /\ \A j \in Unwritten : k <= j
         /\ data' = Append(data, [section |-> "data", key |-> k, entry |-> entries[k],
                                  ok |-> TRUE])
         /\ sparse_index' = IF Len(data) % kSparseIndexInterval = 0
                            THEN Append(sparse_index, [section |-> "index", key |-> k,
                                                       offset |-> Len(data)])
                            ELSE sparse_index
  BY DEF WriteEntry
<1>2. /\ phase = "writing" /\ phase' = "writing" /\ entries' = entries
      /\ contents' = contents /\ data_' = data_ /\ index_' = index_ /\ UNCHANGED readVars
      /\ damage' = damage
  BY DEF WriteEntry, readerVars
<1>3. /\ k \in Key /\ k \in Int /\ entries[k] # Absent /\ entries[k] \in Entry
      /\ \A i \in 1..n : data[i].key < k
  BY DataAssumption DEF Unwritten, TypeOK
<1> DEFINE cell == [section |-> "data", key |-> k, entry |-> entries[k], ok |-> TRUE]
           mark == [section |-> "index", key |-> k, offset |-> n]
<1>4. /\ data \in Seq(DataCell) /\ cell \in DataCell
      /\ n \in Nat /\ m \in Nat /\ sparse_index \in Seq(IndexCell) /\ mark \in IndexCell
  BY <1>3 DEF TypeOK, DataCell, IndexCell
<1>5. /\ data' \in Seq(DataCell) /\ Len(data') = n + 1
      /\ data'[n + 1] = cell /\ \A i \in 1..n : data'[i] = data[i]
  BY <1>1, <1>4
<1>6. cell.key = k /\ cell.entry = entries[k] /\ mark.key = k /\ mark.offset = n
  OBVIOUS
<1> HIDE DEF n, m, cell, mark
<1>7. sparse_index' \in Seq(IndexCell)
  BY <1>1, <1>4 DEF n, mark
<1>8. TypeOK'
  <2>1. contents' = <<>> /\ data_' = <<>> /\ index_' = <<>>
    BY <1>2 DEF FileInv
  <2>2. /\ rpc' = rpc /\ rkey' = rkey /\ rend' = rend /\ pos' = pos /\ bound' = bound
        /\ examined' = examined /\ results' = results /\ damage' = damage
        /\ start_offset' = start_offset
    BY <1>2 DEF readVars
  <2>3. data_ = <<>> /\ index_ = <<>>
    BY <1>2, <2>1
  <2> QED
    BY <1>2, <1>5, <1>7, <2>1, <2>2, <2>3 DEF TypeOK
<1>9. WrittenInv'
  <2>1. ASSUME NEW i \in 1 .. n + 1
        PROVE  entries[data'[i].key] # Absent /\ data'[i].entry = entries[data'[i].key]
    <3>1. CASE i = n + 1
      BY <1>3, <1>5, <1>6, <3>1
    <3>2. CASE i \in 1..n
      BY <1>5, <3>2 DEF WrittenInv, n
    <3> QED
      BY <1>4, <3>1, <3>2
  <2>2. ASSUME NEW i \in 1 .. n + 1, NEW j \in 1 .. n + 1, i < j
        PROVE  data'[i].key < data'[j].key
    <3>1. CASE j = n + 1
      <4>1. i \in 1..n
        BY <1>4, <2>2, <3>1
      <4> QED
        BY <1>3, <1>5, <1>6, <3>1, <4>1
    <3>2. CASE j \in 1..n
      <4>1. i \in 1..n
        BY <1>4, <2>2, <3>2
      <4> QED
        BY <1>5, <2>2, <3>2, <4>1 DEF WrittenInv, n
    <3> QED
      BY <1>4, <3>1, <3>2
  <2>3. ASSUME NEW e \in Key, NEW i \in 1 .. n + 1, entries[e] # Absent, e <= data'[i].key
        PROVE  \E j \in 1 .. n + 1 : data'[j].key = e
    <3>1. CASE \E x \in 1..n : e <= data[x].key
      <4>1. PICK j \in 1..n : data[j].key = e
        BY <2>3, <3>1 DEF WrittenInv, n
      <4>2. j \in 1 .. n + 1 /\ data'[j].key = e
        BY <1>4, <1>5, <4>1
      <4> QED
        BY <4>2
    <3>2. CASE ~\E x \in 1..n : e <= data[x].key
      <4>1. \A x \in 1..n : data[x].key < e
        BY <3>2, CellTypes, DataAssumption DEF n
      <4>2. e \in Unwritten
        BY <2>3, <4>1 DEF Unwritten, n
      <4>3. i = n + 1
        BY <1>4, <1>5, <2>3, <3>2
      <4>4. e = k
        BY <1>1, <1>3, <1>5, <1>6, <2>3, <4>2, <4>3, DataAssumption
      <4>5. n + 1 \in 1 .. n + 1
        BY <1>4
      <4> QED
        BY <1>5, <1>6, <4>4, <4>5
    <3> QED
      BY <3>1, <3>2
  <2> QED
    BY <1>2, <1>5, <2>1, <2>2, <2>3 DEF WrittenInv
<1>10. IndexInv'
  <2>k. K \in Nat \ {0}
    BY FormatAssumption
  <2> HIDE DEF K
  <2>1. \A j \in 1..m : /\ sparse_index[j].offset \in Nat /\ sparse_index[j].offset < n
                        /\ sparse_index[j].offset % K = 0
                        /\ sparse_index[j].key = data[sparse_index[j].offset + 1].key
    BY CellTypes DEF IndexInv, n, m, K
  <2>2. \A j \in 1 .. m - 1 : /\ sparse_index[j].offset < sparse_index[j + 1].offset
                              /\ sparse_index[j + 1].offset <= sparse_index[j].offset + K
    BY DEF IndexInv, m, K
  <2>3. n > 0 => m > 0 /\ sparse_index[1].offset = 0 /\ n <= sparse_index[m].offset + K
    BY DEF IndexInv, m, n, K
  <2>4. ASSUME NEW j \in 1..m
        PROVE  data'[sparse_index[j].offset + 1].key = sparse_index[j].key
    <3> DEFINE o == sparse_index[j].offset
    <3>1. o \in Nat /\ o < n /\ sparse_index[j].key = data[o + 1].key
      BY <2>1
    <3> HIDE DEF o
    <3>2. o + 1 \in 1..n
      BY <1>4, <3>1
    <3> QED
      BY <1>5, <3>1, <3>2 DEF o
  <2>5. CASE n % K = 0
    <3>1. /\ Len(sparse_index') = m + 1 /\ sparse_index'[m + 1] = mark
          /\ \A j \in 1..m : sparse_index'[j] = sparse_index[j]
      BY <1>1, <1>4, <2>5 DEF n, m, mark, K
    <3>2. sparse_index'[1].offset = 0
      <4>1. CASE n = 0
        <5>1. m = 0
          <6>1. SUFFICES ASSUME m # 0 PROVE FALSE
            OBVIOUS
          <6>2. 1 \in 1..m
            BY <1>4, <6>1
          <6> QED
            BY <2>1, <4>1, <6>2
        <5> QED
          BY <1>6, <3>1, <4>1, <5>1
      <4>2. CASE n > 0
        BY <1>4, <2>3, <3>1, <4>2
      <4> QED
        BY <1>4, <4>1, <4>2
    <3>3. ASSUME NEW j \in 1 .. m + 1
          PROVE  /\ sparse_index'[j].offset < n + 1
                 /\ sparse_index'[j].offset % K = 0
                 /\ sparse_index'[j].key = data'[sparse_index'[j].offset + 1].key
      <4>1. CASE j = m + 1
        BY <1>4, <1>5, <1>6, <2>5, <3>1, <4>1
      <4>2. CASE j \in 1..m
        BY <1>4, <2>1, <2>4, <3>1, <4>2
      <4> QED
        BY <1>4, <4>1, <4>2
    <3>4. ASSUME NEW j \in 1..m
          PROVE  /\ sparse_index'[j].offset < sparse_index'[j + 1].offset
                 /\ sparse_index'[j + 1].offset <= sparse_index'[j].offset + K
      <4>1. CASE j = m
        <5>1. sparse_index'[j + 1].offset = n /\ sparse_index'[j] = sparse_index[m] /\ n > 0
          BY <1>4, <1>6, <2>1, <3>1, <4>1
        <5> QED
          BY <1>4, <2>1, <2>3, <4>1, <5>1
      <4>2. CASE j \in 1 .. m - 1
        <5>1. j + 1 \in 1..m
          BY <1>4, <4>2
        <5> QED
          BY <2>2, <3>1, <4>2, <5>1
      <4> QED
        BY <1>4, <4>1, <4>2
    <3>5. n + 1 <= sparse_index'[m + 1].offset + K
      BY <1>4, <1>6, <2>k, <3>1
    <3> QED
      BY <1>4, <1>5, <3>1, <3>2, <3>3, <3>4, <3>5 DEF IndexInv, K
  <2>6. CASE n % K # 0
    <3>1. sparse_index' = sparse_index
      BY <1>1, <2>6 DEF n, K
    <3>2. n > 0
      <4>1. 0 % K = 0
        BY <2>k
      <4> QED
        BY <1>4, <2>6, <4>1
    <3>3. n + 1 <= sparse_index[m].offset + K
      <4> DEFINE o == sparse_index[m].offset
      <4>1. m \in 1..m
        BY <1>4, <2>3, <3>2
      <4>2. o \in Nat /\ o % K = 0 /\ n <= o + K
        BY <2>1, <2>3, <3>2, <4>1
      <4> HIDE DEF o
      <4>3. n # o + K
        BY <2>k, <2>6, <4>2, NextSample
      <4>4. n + 1 <= o + K
        BY <1>4, <2>k, <4>2, <4>3
      <4> QED
        BY <4>4 DEF o
    <3>4. ASSUME NEW j \in 1..m PROVE sparse_index[j].offset < n + 1
      BY <1>4, <2>1
    <3> QED
      BY <1>4, <1>5, <2>1, <2>2, <2>3, <2>4, <3>1, <3>2, <3>3, <3>4 DEF IndexInv, m, K
  <2> QED
    BY <2>5, <2>6
<1>11. FileInv'
  BY <1>2 DEF FileInv, readVars
<1>12. (FindInv /\ WalkInv /\ ScanIsExact)'
  BY <1>2, NoReads DEF FileInv
<1> QED
  BY <1>8, <1>9, <1>10, <1>11, <1>12

\* What a file holds: the cells of its three sections.
Cells == DataCell \cup IndexCell \cup {[Footer EXCEPT !.ok = b] : b \in BOOLEAN}

\* The footer WriteSSTable appends, and the damaged one.
LEMMA Footers ==
    ASSUME TypeOK
    PROVE  /\ Footer \in {[Footer EXCEPT !.ok = b] : b \in BOOLEAN}
           /\ \A b \in BOOLEAN :
                 /\ [Footer EXCEPT !.ok = b].index_offset = Len(data)
                 /\ [Footer EXCEPT !.ok = b].index_size = Len(sparse_index)
                 /\ [[Footer EXCEPT !.ok = b] EXCEPT !.ok = FALSE] = [Footer EXCEPT !.ok = FALSE]
<1>1. Footer \in FooterCell /\ Footer.ok = TRUE /\ Footer.index_offset = Len(data)
      /\ Footer.index_size = Len(sparse_index)
  BY CellTypes DEF Footer, FooterCell
<1> HIDE DEF Footer
<1>2. Footer = [Footer EXCEPT !.ok = TRUE]
  BY <1>1 DEF FooterCell
<1>3. ASSUME NEW b \in BOOLEAN
      PROVE  /\ [Footer EXCEPT !.ok = b].index_offset = Len(data)
             /\ [Footer EXCEPT !.ok = b].index_size = Len(sparse_index)
             /\ [[Footer EXCEPT !.ok = b] EXCEPT !.ok = FALSE] = [Footer EXCEPT !.ok = FALSE]
  BY <1>1 DEF FooterCell
<1> QED
  BY <1>2, <1>3

\* The three sections one after the other.
LEMMA Sections ==
    ASSUME TypeOK
    PROVE  LET file == data \o sparse_index \o <<Footer>> IN
           /\ file \in Seq(Cells)
           /\ Len(file) = Len(data) + Len(sparse_index) + 1
           /\ \A i \in 1..Len(data) : file[i] = data[i]
           /\ \A j \in 1..Len(sparse_index) : file[Len(data) + j] = sparse_index[j]
           /\ file[Len(file)] = Footer
<1> DEFINE a == data \o sparse_index
           file == a \o <<Footer>>
<1>1. /\ Len(data) \in Nat /\ Len(sparse_index) \in Nat
      /\ data \in Seq(Cells) /\ sparse_index \in Seq(Cells)
  <2>1. data \in Seq(DataCell) /\ sparse_index \in Seq(IndexCell)
    BY DEF TypeOK
  <2>2. DataCell \subseteq Cells /\ IndexCell \subseteq Cells
    BY DEF Cells
  <2> HIDE DEF Cells
  <2> QED
    BY <2>1, <2>2
<1>3. Footer \in Cells
  BY Footers DEF Cells
<1>4. /\ a \in Seq(Cells) /\ Len(a) = Len(data) + Len(sparse_index)
      /\ \A i \in 1..Len(data) : a[i] = data[i]
      /\ \A j \in 1..Len(sparse_index) : a[Len(data) + j] = sparse_index[j]
  BY <1>1
<1> HIDE DEF a
<1>5. /\ file \in Seq(Cells) /\ Len(file) = Len(a) + 1
      /\ \A i \in 1..Len(a) : file[i] = a[i]
      /\ file[Len(a) + 1] = Footer
  BY <1>3, <1>4
<1> HIDE DEF file
<1>6. ASSUME NEW i \in 1..Len(data) PROVE file[i] = data[i]
  <2>1. i \in 1..Len(a)
    BY <1>1, <1>4
  <2> QED
    BY <1>4, <1>5, <2>1
<1>7. ASSUME NEW j \in 1..Len(sparse_index) PROVE file[Len(data) + j] = sparse_index[j]
  <2>1. Len(data) + j \in 1..Len(a)
    BY <1>1, <1>4
  <2> QED
    BY <1>4, <1>5, <2>1
<1>8. /\ file \in Seq(Cells) /\ Len(file) = Len(data) + Len(sparse_index) + 1
      /\ file[Len(file)] = Footer
  BY <1>1, <1>4, <1>5
<1> QED
  BY <1>6, <1>7, <1>8 DEF file, a

\* WriteFile keeps FormatInv.
LEMMA WriteFileStep ==
    ASSUME FormatInv, WriteFile
    PROVE  FormatInv'
<1> USE DEF FormatInv
<1>1. /\ phase = "writing" /\ phase' = "written" /\ Unwritten = {}
      /\ contents' = data \o sparse_index \o <<Footer>>
      /\ UNCHANGED <<writeVars, readerVars, readVars, damage>>
  BY DEF WriteFile
<1>2. entries' = entries /\ data' = data /\ sparse_index' = sparse_index
      /\ data_' = data_ /\ index_' = index_
  BY <1>1 DEF writeVars, readerVars
<1>3. Footer' = Footer
  BY <1>2 DEF Footer
<1>4. /\ contents' \in Seq(Cells)
      /\ Len(contents') = Len(data) + Len(sparse_index) + 1
      /\ \A i \in 1..Len(data) : contents'[i] = data[i]
      /\ \A j \in 1..Len(sparse_index) : contents'[Len(data) + j] = sparse_index[j]
      /\ contents'[Len(contents')] = Footer
  BY <1>1, Sections
<1>5. TypeOK'
  <2>1. contents' \in Seq(DataCell \cup IndexCell \cup {[Footer EXCEPT !.ok = b] : b \in BOOLEAN})'
    BY <1>3, <1>4 DEF Cells
  <2> QED
    BY <1>1, <1>2, <2>1 DEF TypeOK, readVars
<1>6. WrittenInv' /\ IndexInv'
  <2>1. WrittenInv'
    BY <1>1, <1>2 DEF WrittenInv, Unwritten
  <2>2. IndexInv'
    BY <1>2 DEF IndexInv
  <2> QED
    BY <2>1, <2>2
<1>7. FileInv'
  <2>1. ASSUME NEW i \in 1..Len(data)
        PROVE  contents'[i] \in DataCell /\ Intact(i)'
    BY <1>2, <1>4, CellTypes DEF Intact
  <2>2. ReadFooter' \in {[Footer' EXCEPT !.ok = b] : b \in BOOLEAN}
    BY <1>3, <1>4, Footers DEF ReadFooter
  <2>3. data_ = <<>> /\ index_ = <<>> /\ rpc = "idle"
    BY <1>1 DEF FileInv
  <2>4. rpc' = "idle"
    BY <1>1, <2>3 DEF readVars
  <2> QED
    BY <1>1, <1>2, <1>4, <2>1, <2>2, <2>3, <2>4 DEF FileInv
<1>8. (FindInv /\ WalkInv /\ ScanIsExact)'
  BY <1>1, NoReads DEF FileInv
<1> QED
  BY <1>5, <1>6, <1>7, <1>8

\* A damaged record fails its checksum, whatever it says now, and the others
\* are as before.
LEMMA DamageStep ==
    ASSUME FormatInv, NEW x \in 1..Len(contents), Damage(x)
    PROVE  FormatInv'
<1> USE DEF FormatInv
<1>1. /\ phase = "written" /\ damage < MaxDamage
      /\ damage' = damage + 1
      /\ UNCHANGED <<writeVars, phase, readerVars, readVars>>
  BY DEF Damage
<1>0. PICK new : /\ contents' = [contents EXCEPT ![x] = new]
                 /\ \/ /\ contents[x].section = "data"
                       /\ new \in DataCell /\ new.ok = FALSE
                    \/ /\ contents[x].section = "footer"
                       /\ new = [contents[x] EXCEPT !.ok = FALSE]
  <2>1. CASE /\ contents[x].section = "data"
             /\ \E k \in Key, e \in Entry :
                   contents' = [contents EXCEPT ![x] = [section |-> "data", key |-> k,
                                                        entry |-> e, ok |-> FALSE]]
    <3>1. PICK k \in Key, e \in Entry :
                   contents' = [contents EXCEPT ![x] = [section |-> "data", key |-> k,
                                                        entry |-> e, ok |-> FALSE]]
      BY <2>1
    <3>2. PICK c : c = [section |-> "data", key |-> k, entry |-> e, ok |-> FALSE]
      OBVIOUS
    <3>3. c \in DataCell /\ c.ok = FALSE
      BY <3>2 DEF DataCell
    <3> QED
      BY <2>1, <3>1, <3>2, <3>3
  <2>2. CASE /\ contents[x].section = "footer"
             /\ contents' = [contents EXCEPT ![x].ok = FALSE]
    BY <2>2
  <2> QED
    BY <2>1, <2>2 DEF Damage
<1>2. entries' = entries /\ data' = data /\ sparse_index' = sparse_index
      /\ data_' = data_ /\ index_' = index_ /\ phase' = phase
  BY <1>1 DEF writeVars, readerVars
<1> DEFINE n == Len(data)
           m == Len(sparse_index)
           z == n + m + 1
<1>3. /\ n \in Nat /\ m \in Nat /\ Len(contents) = z /\ contents \in Seq(Cells)
      /\ \A i \in 1..n : contents[i] \in DataCell /\ Intact(i)
      /\ \A j \in 1..m : contents[n + j] = sparse_index[j]
      /\ contents[z] \in {[Footer EXCEPT !.ok = b] : b \in BOOLEAN}
  BY <1>1, CellTypes DEF TypeOK, FileInv, ReadFooter, Cells
<1>4. Footer' = Footer
  BY <1>2 DEF Footer
<1>5. x \in 1..n \/ x = z
  <2>1. SUFFICES ASSUME x \notin 1..n, x # z PROVE FALSE
    OBVIOUS
  <2> DEFINE j == x - n
  <2>2. j \in 1..m /\ x = n + j
    <3> HIDE DEF n, m
    <3> QED
      BY <1>3, <2>1
  <2> HIDE DEF j
  <2>3. contents[x] = sparse_index[j]
    BY <1>3, <2>2
  <2>4. sparse_index[j] \in IndexCell
    BY <2>2 DEF TypeOK
  <2> QED
    BY <1>0, <2>3, <2>4 DEF IndexCell
<1> HIDE DEF n, m, z
<1>6. new \in Cells
      /\ (x \in 1..n => new \in DataCell /\ new.ok = FALSE)
      /\ (x = z => new \in {[Footer EXCEPT !.ok = b] : b \in BOOLEAN})
  <2>1. CASE x \in 1..n
    <3>1. contents[x] \in DataCell
      BY <1>3, <2>1
    <3>2. new \in DataCell /\ new.ok = FALSE
      BY <1>0, <3>1 DEF DataCell
    <3>3. x # z
      BY <1>3, <2>1 DEF z
    <3> QED
      BY <3>2, <3>3 DEF Cells
  <2>2. CASE x = z
    <3>1. PICK b \in BOOLEAN : contents[x] = [Footer EXCEPT !.ok = b]
      BY <1>3, <2>2
    <3>2. new = [Footer EXCEPT !.ok = FALSE]
      <4>1. contents[x].section = "footer"
        BY <3>1 DEF Footer
      <4>2. new = [contents[x] EXCEPT !.ok = FALSE]
        BY <1>0, <4>1
      <4> QED
        BY <3>1, <4>2, Footers
    <3>3. x \notin 1..n
      BY <1>3, <2>2 DEF z
    <3> QED
      BY <3>2, <3>3 DEF Cells
  <2> QED
    BY <1>5, <2>1, <2>2
<1>7. /\ contents' \in Seq(Cells) /\ Len(contents') = z
      /\ \A i \in 1..z : contents'[i] = IF i = x THEN new ELSE contents[i]
  BY <1>0, <1>3, <1>6
<1>8. TypeOK'
  <2>1. contents' \in Seq(DataCell \cup IndexCell \cup {[Footer EXCEPT !.ok = b] : b \in BOOLEAN})'
    BY <1>4, <1>7 DEF Cells
  <2>2. damage' \in 0..MaxDamage
    <3>1. damage \in 0..MaxDamage /\ MaxDamage \in Nat
      BY FormatAssumption DEF TypeOK
    <3>2. damage < MaxDamage /\ damage' = damage + 1
      BY <1>1
    <3> QED
      BY <3>1, <3>2
  <2> QED
    BY <1>1, <1>2, <2>1, <2>2 DEF TypeOK, readVars
<1>9. WrittenInv' /\ IndexInv'
  <2>1. WrittenInv'
    BY <1>1, <1>2 DEF WrittenInv, Unwritten
  <2>2. IndexInv'
    BY <1>2 DEF IndexInv
  <2> QED
    BY <2>1, <2>2
<1>10. FileInv'
  <2>1. ASSUME NEW i \in 1..n
        PROVE  contents'[i] \in DataCell /\ Intact(i)'
    <3>1. i \in 1..z
      BY <1>3 DEF z
    <3>2. CASE i = x
      BY <1>6, <1>7, <3>1, <3>2 DEF Intact
    <3>3. CASE i # x
      BY <1>2, <1>3, <1>7, <3>1, <3>3 DEF Intact
    <3> QED
      BY <3>2, <3>3
  <2>2. ASSUME NEW j \in 1..m PROVE contents'[n + j] = sparse_index[j]
    <3>1. n + j \in 1..z /\ n + j # x
      BY <1>3, <1>5 DEF z
    <3> QED
      BY <1>3, <1>7, <3>1
  <2>3. contents'[z] \in {[Footer EXCEPT !.ok = b] : b \in BOOLEAN}
    <3>1. z \in 1..z
      BY <1>3 DEF z
    <3>2. CASE z = x
      BY <1>6, <1>7, <3>1, <3>2
    <3>3. CASE z # x
      BY <1>3, <1>7, <3>1, <3>3
    <3> QED
      BY <3>2, <3>3
  <2>4. data_ = <<>> /\ index_ = <<>> /\ rpc = "idle" /\ rpc' = "idle"
    BY <1>1 DEF FileInv, readVars
  <2>5. ReadFooter' \in {[Footer' EXCEPT !.ok = b] : b \in BOOLEAN}
    BY <1>4, <1>7, <2>3 DEF ReadFooter
  <2>6. Len(contents') = Len(data') + Len(sparse_index') + 1
    BY <1>2, <1>7 DEF n, m, z
  <2>7. /\ \A i \in 1..Len(data') : contents'[i] \in DataCell /\ Intact(i)'
        /\ \A j \in 1..Len(sparse_index') : contents'[Len(data') + j] = sparse_index'[j]
    BY <1>2, <2>1, <2>2 DEF n, m
  <2> HIDE DEF ReadFooter, Footer
  <2>8. phase' = "written" /\ data_' = <<>> /\ index_' = <<>>
    BY <1>1, <1>2, <2>4
  <2> QED
    BY <2>4, <2>5, <2>6, <2>7, <2>8 DEF FileInv
<1>11. (FindInv /\ WalkInv /\ ScanIsExact)'
  BY <1>1, NoReads DEF FileInv
<1> QED
  BY <1>8, <1>9, <1>10, <1>11

\* OpenReader keeps FormatInv.
LEMMA OpenReaderStep ==
    ASSUME FormatInv, OpenReader
    PROVE  FormatInv'
<1> USE DEF FormatInv
<1>1. /\ phase = "written" /\ phase' = "open"
      /\ data_' = DataSection /\ index_' = IndexSection
      /\ UNCHANGED <<writeVars, contents, readVars, damage>>
  BY DEF OpenReader
<1>2. entries' = entries /\ data' = data /\ sparse_index' = sparse_index
      /\ contents' = contents /\ rpc' = rpc
  BY <1>1 DEF writeVars, readVars
<1> DEFINE n == Len(data)
           m == Len(sparse_index)
<1>3. /\ n \in Nat /\ m \in Nat /\ Len(contents) = n + m + 1 /\ contents \in Seq(Cells)
      /\ \A i \in 1..n : contents[i] \in DataCell
      /\ \A j \in 1..m : contents[n + j] = sparse_index[j] /\ sparse_index[j] \in IndexCell
      /\ sparse_index \in Seq(IndexCell)
  BY <1>1, CellTypes DEF TypeOK, FileInv, Cells
<1>4. ReadFooter.index_offset = n /\ ReadFooter.index_size = m
  <2>1. ReadFooter \in {[Footer EXCEPT !.ok = b] : b \in BOOLEAN}
    BY <1>1 DEF FileInv
  <2> QED
    BY <2>1, Footers
<1>5. Footer' = Footer
  BY <1>2 DEF Footer
<1>6. data_' = SubSeq(contents, 1, n) /\ index_' = SubSeq(contents, n + 1, n + m)
  BY <1>1, <1>4 DEF DataSection, IndexSection
<1> HIDE DEF n, m, Cells
<1>7. /\ Len(data_') = n /\ data_' \in Seq(DataCell)
      /\ \A i \in 1..n : data_'[i] = contents[i]
  <2>1. /\ Len(data_') = n /\ data_' \in Seq(Cells)
        /\ \A i \in 1..n : data_'[i] = contents[i]
    BY <1>3, <1>6
  <2>2. ASSUME NEW i \in 1..n PROVE data_'[i] \in DataCell
    BY <1>3, <2>1
  <2> QED
    BY <1>3, <2>1, <2>2
<1>8. index_' = sparse_index
  <2>1. /\ index_' \in Seq(Cells) /\ Len(index_') = m
        /\ \A j \in 1..m : index_'[j] = contents[n + j]
    BY <1>3, <1>6
  <2>2. Len(sparse_index) = m
    BY DEF m
  <2>3. \A j \in 1..m : index_'[j] = sparse_index[j]
    BY <1>3, <2>1
  <2> QED
    BY <1>3, <2>1, <2>2, <2>3
<1>9. \A j \in 1..m : sparse_index[j].offset < n
  BY DEF IndexInv, n, m
<1>10. TypeOK'
  <2>1. contents' \in Seq(DataCell \cup IndexCell \cup {[Footer EXCEPT !.ok = b] : b \in BOOLEAN})'
    BY <1>2, <1>3, <1>5 DEF Cells
  <2>2. pos = 0 /\ bound = 0 /\ Len(data_') \in Nat
    BY <1>1, <1>3, <1>7 DEF FileInv, FindInv
  <2>3. index_' \in Seq(IndexCell) /\ \A j \in 1..Len(index_') : index_'[j].offset < Len(data_')
    BY <1>3, <1>7, <1>8, <1>9 DEF m
  <2> QED
    BY <1>1, <1>2, <1>7, <2>1, <2>2, <2>3 DEF TypeOK, readVars
<1>11. WrittenInv' /\ IndexInv'
  <2>1. WrittenInv'
    BY <1>1, <1>2 DEF WrittenInv, Unwritten
  <2>2. IndexInv'
    BY <1>2 DEF IndexInv
  <2> QED
    BY <2>1, <2>2
<1>12. FileInv'
  <2>1. ReadFooter' = ReadFooter
    BY <1>2 DEF ReadFooter
  <2> QED
    BY <1>1, <1>2, <1>5, <1>7, <1>8, <2>1 DEF FileInv, Intact, n
<1>13. (FindInv /\ WalkInv /\ ScanIsExact)'
  BY <1>1, NoReads DEF FileInv
<1> QED
  BY <1>10, <1>11, <1>12, <1>13

\* OpenThrows keeps FormatInv.
LEMMA OpenThrowsStep ==
    ASSUME FormatInv, OpenThrows
    PROVE  FormatInv'
<1> USE DEF FormatInv
<1>1. /\ phase = "written" /\ phase' = "rejected"
      /\ UNCHANGED <<writeVars, contents, readerVars, readVars, damage>>
  BY DEF OpenThrows
<1>2. /\ entries' = entries /\ data' = data /\ sparse_index' = sparse_index
      /\ data_' = data_ /\ index_' = index_ /\ contents' = contents /\ rpc' = rpc
  BY <1>1 DEF writeVars, readVars, readerVars
<1>3. Footer' = Footer /\ ReadFooter' = ReadFooter
  BY <1>2 DEF Footer, ReadFooter
<1>4. TypeOK'
  BY <1>1, <1>2, <1>3 DEF TypeOK, readVars
<1>5. WrittenInv' /\ IndexInv'
  <2>1. WrittenInv'
    BY <1>1, <1>2 DEF WrittenInv, Unwritten
  <2>2. IndexInv'
    BY <1>2 DEF IndexInv
  <2> QED
    BY <2>1, <2>2
<1>6. FileInv'
  BY <1>1, <1>2, <1>3 DEF FileInv, Intact
<1>7. (FindInv /\ WalkInv /\ ScanIsExact)'
  BY <1>1, NoReads DEF FileInv
<1> QED
  BY <1>4, <1>5, <1>6, <1>7

-----------------------------------------------------------------------------
(* Reads *)

\* A read in progress changes nothing but its own state, so the type is all
\* there is to show of the parts of the invariant about the file.
LEMMA ReadFrame ==
    ASSUME FormatInv, phase = "open",
           UNCHANGED <<writeVars, contents, phase, readerVars, damage>>,
           rpc' \in {"idle", "find", "scan", "all", "found", "scanned", "listed", "threw"},
           rkey' \in Probe \cup {0}, rend' \in Probe \cup {0},
           start_offset' \in 0..pos', pos' \in 0..bound', bound' \in 0..Len(data),
           examined' \in Nat,
           results' \in Seq([key : Key, entry : Entry])
    PROVE  (TypeOK /\ WrittenInv /\ IndexInv /\ FileInv)'
<1> USE DEF FormatInv
<1>1. /\ entries' = entries /\ data' = data /\ sparse_index' = sparse_index
      /\ data_' = data_ /\ index_' = index_ /\ contents' = contents /\ phase' = phase
      /\ damage' = damage
  BY DEF writeVars, readerVars
<1>2. Footer' = Footer /\ ReadFooter' = ReadFooter
  BY <1>1 DEF Footer, ReadFooter
<1>3. Len(data_) = Len(data)
  BY DEF FileInv
<1>4. TypeOK'
  BY <1>1, <1>2, <1>3 DEF TypeOK
<1>5. WrittenInv'
  BY <1>1 DEF WrittenInv, Unwritten
<1>6. IndexInv'
  BY <1>1 DEF IndexInv
<1>7. FileInv'
  BY <1>1, <1>2 DEF FileInv, Intact
<1> QED
  BY <1>4, <1>5, <1>6, <1>7

\* The loop variables of a read.
LEMMA ReadTypes ==
    ASSUME FormatInv
    PROVE  /\ start_offset \in 0..pos /\ start_offset \in Nat /\ start_offset <= pos
           /\ pos \in Nat /\ bound \in Nat /\ pos <= bound /\ Len(data) \in Nat
           /\ examined \in Nat /\ rkey \in Int /\ rend \in Int
           /\ phase = "open" => bound <= Len(data)
           /\ rpc # "idle" => phase = "open"
           /\ pos \in 0..bound /\ rkey \in Probe \cup {0} /\ rend \in Probe \cup {0}
           /\ results \in Seq([key : Key, entry : Entry])
  BY FormatAssumption DEF FormatInv, TypeOK, FileInv

\* What the record at pos is.
LEMMA NextRecord ==
    ASSUME FormatInv, rpc # "idle", pos < bound
    PROVE  /\ pos + 1 \in 1..Len(data) /\ pos + 1 \in Nat
           /\ data[pos + 1].key \in Int
           /\ Rec(pos + 1) \in [key : Key, entry : Entry]
           /\ Rec(pos + 1).key = data[pos + 1].key
           /\ Decodes <=> data_[pos + 1].ok
           /\ Decodes =>
                 /\ data_[pos + 1].key = data[pos + 1].key
                 /\ Rec(pos + 1) = [key |-> data_[pos + 1].key, entry |-> data_[pos + 1].entry]
<1> USE DEF FormatInv
<1>1. phase = "open" /\ pos + 1 \in 1..Len(data) /\ pos + 1 \in Nat
  BY ReadTypes
<1>2. /\ data_[pos + 1].section = "data"
      /\ data_[pos + 1].ok => /\ data_[pos + 1].key = data[pos + 1].key
                              /\ data_[pos + 1].entry = data[pos + 1].entry
  BY <1>1, OpenCell
<1>3. /\ data[pos + 1].key \in Int /\ data[pos + 1].key \in Key
      /\ data[pos + 1].entry \in Entry
  BY <1>1, CellTypes
<1> QED
  BY <1>1, <1>2, <1>3 DEF Rec, Decodes

\* The keys of the data section around a position.
LEMMA Around ==
    ASSUME FormatInv, NEW p \in 1..Len(data)
    PROVE  /\ \A i \in 1..Len(data) : i < p => data[i].key < data[p].key
           /\ \A i \in 1..Len(data) : p < i => data[p].key < data[i].key
           /\ \A i \in 1..Len(data) : data[i].key \in Int
  BY CellTypes DEF FormatInv, WrittenInv

\* The block a search starts with: nothing before it is as great as the key
\* searched for, and if there is no such block everything is greater.
LEMMA BlockStart ==
    ASSUME FormatInv, phase = "open", NEW k \in Int, NEW u, u = UpperBound(k)
    PROVE  /\ u \in 1 .. Len(sparse_index) + 1
           /\ u = 1 => \A i \in 1..Len(data) : k < data[i].key
           /\ u # 1 => /\ u - 1 \in 1..Len(sparse_index)
                       /\ index_[u - 1].offset \in Nat
                       /\ index_[u - 1].offset < Len(data)
                       /\ \A i \in 1..Len(data) :
                             i <= index_[u - 1].offset => data[i].key < k
<1> USE DEF FormatInv
<1> DEFINE n == Len(data)
           m == Len(sparse_index)
<1>1. n \in Nat /\ m \in Nat /\ index_ = sparse_index
  BY CellTypes DEF FileInv
<1>2. /\ u \in 1 .. m + 1
      /\ u <= m => sparse_index[u].key > k
      /\ \A j \in 1 .. u - 1 : sparse_index[j].key <= k
  <2>1. index_ \in Seq(IndexCell)
    BY DEF TypeOK
  <2> QED
    BY <1>1, <2>1, UpperBoundExact
<1>3. \A j \in 1..m : /\ sparse_index[j].offset \in Nat /\ sparse_index[j].offset < n
                      /\ sparse_index[j].key = data[sparse_index[j].offset + 1].key
                      /\ sparse_index[j].key \in Int
  BY CellTypes DEF IndexInv
<1>4. ASSUME u = 1, NEW i \in 1..n PROVE k < data[i].key
  <2>1. m > 0 /\ sparse_index[1].offset = 0
    BY <1>1 DEF IndexInv
  <2>2. 1 \in 1..m /\ 1 \in 1..n
    BY <1>1, <2>1
  <2>3. sparse_index[1].key = data[1].key
    BY <1>3, <2>1, <2>2
  <2>4. data[1].key > k
    BY <1>2, <1>4, <2>1, <2>2, <2>3
  <2>5. i = 1 \/ data[1].key < data[i].key
    BY <1>1, <2>2, Around
  <2> QED
    BY <2>2, <2>4, <2>5, Around
<1>5. ASSUME u # 1
      PROVE  /\ u - 1 \in 1..m
             /\ sparse_index[u - 1].offset \in Nat /\ sparse_index[u - 1].offset < n
             /\ \A i \in 1..n : i <= sparse_index[u - 1].offset => data[i].key < k
  <2> DEFINE v == u - 1
             o == sparse_index[v].offset
  <2>1. v \in 1..m /\ v \in 1 .. u - 1
    <3> HIDE DEF m
    <3> QED
      BY <1>1, <1>2, <1>5
  <2>2. o \in Nat /\ o < n /\ sparse_index[v].key = data[o + 1].key /\ sparse_index[v].key <= k
    BY <1>2, <1>3, <2>1
  <2> HIDE DEF v, o, n
  <2>3. o + 1 \in 1..n
    BY <1>1, <2>2
  <2>4. ASSUME NEW i \in 1..n, i <= o PROVE data[i].key < k
    <3>1. i < o + 1
      BY <1>1, <2>2, <2>4
    <3>2. data[i].key < data[o + 1].key /\ data[i].key \in Int /\ data[o + 1].key \in Int
      BY <2>3, <3>1, Around DEF n
    <3> QED
      BY <2>2, <3>2
  <2> QED
    BY <2>1, <2>2, <2>4 DEF v, o, n
<1> QED
  BY <1>1, <1>2, <1>4, <1>5

\* Where it ends: at most an interval further, before anything greater.
LEMMA BlockEnds ==
    ASSUME FormatInv, phase = "open", NEW k \in Int, NEW u, u = UpperBound(k), u # 1
    PROVE  /\ BlockEnd(u) \in Nat /\ BlockEnd(u) <= Len(data)
           /\ index_[u - 1].offset <= BlockEnd(u)
           /\ BlockEnd(u) <= index_[u - 1].offset + kSparseIndexInterval
           /\ \A i \in 1..Len(data) : BlockEnd(u) < i => k < data[i].key
<1> USE DEF FormatInv
<1> DEFINE n == Len(data)
           m == Len(sparse_index)
           v == u - 1
           o == sparse_index[v].offset
           e == BlockEnd(u)
<1>1. n \in Nat /\ m \in Nat /\ index_ = sparse_index /\ Len(data_) = n
  BY CellTypes DEF FileInv
<1>2. u \in 1 .. m + 1 /\ v \in 1..m /\ o \in Nat /\ o < n
  BY <1>1, BlockStart
<1>3. CASE u <= m
  <2>1. e = sparse_index[u].offset
    BY <1>1, <1>3 DEF BlockEnd
  <2>2. u \in 1..m /\ v \in 1 .. m - 1 /\ v + 1 = u
    <3> HIDE DEF m
    <3> QED
      BY <1>1, <1>2, <1>3
  <2>3. /\ e \in Nat /\ e < n /\ sparse_index[u].key = data[e + 1].key
        /\ o < e /\ e <= o + kSparseIndexInterval
    BY <1>1, <2>1, <2>2, CellTypes DEF IndexInv
  <2>4. sparse_index[u].key > k
    <3>1. index_ \in Seq(IndexCell)
      BY DEF TypeOK
    <3> QED
      BY <1>1, <1>3, <3>1, UpperBoundExact
  <2> HIDE DEF e, o, n
  <2>5. ASSUME NEW i \in 1..n, e < i PROVE k < data[i].key
    <3>1. e + 1 \in 1..n /\ (i = e + 1 \/ e + 1 < i)
      BY <1>1, <2>3, <2>5
    <3>2. data[i].key \in Int /\ data[e + 1].key \in Int
          /\ (i = e + 1 \/ data[e + 1].key < data[i].key)
      BY <3>1, Around DEF n
    <3> QED
      BY <2>3, <2>4, <3>2
  <2>6. e <= n /\ o <= e
    BY <1>1, <1>2, <2>3
  <2> QED
    BY <1>1, <2>3, <2>5, <2>6 DEF e, o, n
<1>4. CASE ~(u <= m)
  <2>1. e = n
    BY <1>1, <1>4 DEF BlockEnd
  <2>2. v = m
    <3> HIDE DEF m
    <3> QED
      BY <1>1, <1>2, <1>4
  <2>3. n <= o + kSparseIndexInterval
    BY <1>1, <1>2, <2>2 DEF IndexInv
  <2> QED
    BY <1>1, <1>2, <2>1, <2>3
<1> QED
  BY <1>3, <1>4

\* Find keeps FormatInv.
LEMMA FindStep ==
    ASSUME FormatInv, NEW k \in Probe, Find(k)
    PROVE  FormatInv'
<1> USE DEF FormatInv
<1> DEFINE u == UpperBound(k)
           n == Len(data)
<1>1. /\ phase = "open" /\ rpc = "idle" /\ rkey' = k
      /\ IF u = 1
         THEN rpc' = "found" /\ UNCHANGED <<start_offset, pos, bound>>
         ELSE /\ rpc' = "find" /\ start_offset' = index_[u - 1].offset
              /\ pos' = start_offset' /\ bound' = BlockEnd(u)
      /\ UNCHANGED <<writeVars, contents, phase, readerVars, rend, examined, results, damage>>
  BY DEF Find
<1>2. entries' = entries /\ data' = data /\ data_' = data_
  BY <1>1 DEF writeVars, readerVars
<1>3. k \in Int /\ kSparseIndexInterval \in Nat
  BY FormatAssumption
<1>4. start_offset = 0 /\ pos = 0 /\ bound = 0 /\ examined = 0 /\ results = <<>> /\ n \in Nat
  BY <1>1, ReadTypes DEF FindInv
<1> HIDE DEF u
<1>5. CASE u = 1
  <2>1. rpc' = "found" /\ pos' = 0 /\ bound' = 0 /\ results' = <<>> /\ examined' = 0
        /\ rend' = rend /\ start_offset' = 0
    BY <1>1, <1>4, <1>5
  <2>2. Answer(k) = <<>>
    <3>1. \A i \in 1..n : k < data[i].key
      BY <1>1, <1>3, <1>5, BlockStart DEF u
    <3>2. \A i \in 1..n : data[i].key # k
      BY <1>3, <3>1, CellTypes
    <3> QED
      BY <1>1, <3>2, AnswerMiss
  <2>3. Answer(rkey)' = <<>>
    BY <1>1, <1>2, <2>2 DEF Answer
  <2>4. (TypeOK /\ WrittenInv /\ IndexInv /\ FileInv)'
    BY <1>1, <1>4, <2>1, ReadTypes, ReadFrame
  <2>5. FindInv'
    BY <1>3, <2>1, <2>3 DEF FindInv
  <2>6. WalkInv' /\ ScanIsExact'
    BY <2>1 DEF WalkInv, ScanIsExact
  <2> QED
    BY <2>4, <2>5, <2>6
<1>6. CASE u # 1
  <2> DEFINE o == index_[u - 1].offset
             e == BlockEnd(u)
  <2>1. /\ rpc' = "find" /\ pos' = o /\ bound' = e /\ results' = <<>> /\ examined' = 0
        /\ rend' = rend /\ start_offset' = o
    BY <1>1, <1>4, <1>6
  <2>2. o \in Nat /\ o < n /\ \A i \in 1..n : i <= o => data[i].key < k
    BY <1>1, <1>3, <1>6, BlockStart DEF u
  <2>3. /\ e \in Nat /\ e <= n /\ o <= e /\ e <= o + kSparseIndexInterval
        /\ \A i \in 1..n : e < i => k < data[i].key
    BY <1>1, <1>3, <1>6, BlockEnds DEF u
  <2> HIDE DEF o, e
  <2>4. (TypeOK /\ WrittenInv /\ IndexInv /\ FileInv)'
    <3>1. results' \in Seq([key : Key, entry : Entry])
      BY <2>1
    <3> QED
      BY <1>1, <1>4, <2>1, <2>2, <2>3, <3>1, ReadTypes, ReadFrame
  <2>5. FindInv'
    <3>1. bound' + examined' <= pos' + kSparseIndexInterval
      BY <2>1, <2>3, <1>3
    <3>2. \A i \in 1..pos' : data'[i].key < rkey'
      BY <1>1, <1>2, <1>4, <2>1, <2>2
    <3> QED
      BY <1>1, <1>2, <1>3, <2>1, <2>3, <3>1, <3>2 DEF FindInv
  <2>6. WalkInv' /\ ScanIsExact'
    BY <2>1 DEF WalkInv, ScanIsExact
  <2> QED
    BY <2>4, <2>5, <2>6
<1> QED
  BY <1>5, <1>6

\* FindRecord keeps FormatInv.
LEMMA FindRecordStep ==
    ASSUME FormatInv, FindRecord
    PROVE  FormatInv'
<1> USE DEF FormatInv
<1> DEFINE r == data_[pos + 1]
           n == Len(data)
           K == kSparseIndexInterval
<1>1. /\ rpc = "find" /\ pos < bound /\ Decodes
      /\ IF r.key < rkey
         THEN pos' = pos + 1 /\ examined' = examined + 1 /\ UNCHANGED <<rpc, results>>
         ELSE /\ rpc' = "found" /\ examined' = examined + 1
              /\ results' = IF r.key = rkey THEN <<[key |-> r.key, entry |-> r.entry]>> ELSE <<>>
              /\ UNCHANGED pos
      /\ UNCHANGED <<writeVars, contents, phase, readerVars, rkey, rend, start_offset, bound,
                     damage>>
  BY DEF FindRecord
<1>2. entries' = entries /\ data' = data /\ data_' = data_ /\ rkey' = rkey /\ rend' = rend
      /\ bound' = bound /\ start_offset' = start_offset
  BY <1>1 DEF writeVars, readerVars
<1>3. /\ phase = "open" /\ pos \in Nat /\ bound \in Nat /\ n \in Nat /\ examined \in Nat
      /\ bound <= n /\ rkey \in Int /\ K \in Nat
  BY <1>1, ReadTypes, FormatAssumption
<1>4. /\ pos + 1 \in 1..n /\ r.key = data[pos + 1].key /\ r.key \in Int
      /\ Rec(pos + 1) \in [key : Key, entry : Entry]
      /\ Rec(pos + 1) = [key |-> r.key, entry |-> r.entry]
  BY <1>1, NextRecord
<1>5. /\ results = <<>> /\ bound + examined <= pos + K
      /\ \A i \in 1..pos : data[i].key < rkey
      /\ \A i \in 1..n : bound < i => rkey < data[i].key
  BY <1>1 DEF FindInv
<1> HIDE DEF r, n, K
<1>6. examined + 1 \in Nat /\ examined + 1 <= K
  BY <1>1, <1>3, <1>5
<1>7. CASE r.key < rkey
  <2>1. /\ pos' = pos + 1 /\ examined' = examined + 1 /\ rpc' = "find" /\ results' = <<>>
    BY <1>1, <1>5, <1>7
  <2>2. (TypeOK /\ WrittenInv /\ IndexInv /\ FileInv)'
    <3>1. results' \in Seq([key : Key, entry : Entry])
      BY <2>1
    <3>2. start_offset' \in 0..pos' /\ pos' \in 0..bound' /\ bound' \in 0..n
      BY <1>1, <1>2, <1>3, <2>1, ReadTypes
    <3> QED
      BY <1>1, <1>2, <1>3, <1>6, <2>1, <3>1, <3>2, ReadTypes, ReadFrame DEF n
  <2>3. FindInv'
    <3>1. bound + (examined + 1) <= (pos + 1) + K
      BY <1>3, <1>5
    <3>2. ASSUME NEW i \in 1 .. pos + 1 PROVE data[i].key < rkey
      BY <1>3, <1>4, <1>5, <1>7
    <3> QED
      BY <1>2, <1>5, <1>6, <2>1, <3>1, <3>2 DEF FindInv, n, K
  <2>4. WalkInv' /\ ScanIsExact'
    BY <2>1 DEF WalkInv, ScanIsExact
  <2> QED
    BY <2>2, <2>3, <2>4
<1>8. CASE ~(r.key < rkey)
  <2>1. /\ pos' = pos /\ examined' = examined + 1 /\ rpc' = "found"
        /\ results' = IF r.key = rkey THEN <<Rec(pos + 1)>> ELSE <<>>
    BY <1>1, <1>4, <1>8
  <2>2. results' = Answer(rkey)
    <3>1. CASE r.key = rkey
      BY <1>4, <2>1, <3>1, AnswerHit DEF n
    <3>2. CASE r.key # rkey
      <4>1. ASSUME NEW i \in 1..n PROVE data[i].key # rkey
        <5>1. CASE i <= pos
          BY <1>3, <1>5, <5>1, CellTypes DEF n
        <5>2. CASE i = pos + 1
          BY <1>4, <3>2, <5>2
        <5>3. CASE i > pos + 1
          <6>1. data[pos + 1].key < data[i].key /\ data[i].key \in Int
            BY <1>3, <1>4, <5>3, Around DEF n
          <6> QED
            BY <1>3, <1>4, <1>8, <6>1
        <5> QED
          BY <1>3, <5>1, <5>2, <5>3
      <4> QED
        BY <1>3, <2>1, <3>2, <4>1, AnswerMiss DEF n
    <3> QED
      BY <3>1, <3>2
  <2>3. Answer(rkey)' = Answer(rkey)
    BY <1>2 DEF Answer
  <2>4. (TypeOK /\ WrittenInv /\ IndexInv /\ FileInv)'
    <3>1. results' \in Seq([key : Key, entry : Entry])
      <4> HIDE DEF Rec
      <4>1. CASE r.key = rkey
        BY <1>4, <2>1, <4>1
      <4>2. CASE r.key # rkey
        BY <2>1, <4>2
      <4> QED
        BY <4>1, <4>2
    <3>2. start_offset' \in 0..pos' /\ pos' \in 0..bound' /\ bound' \in 0..n
      BY <1>1, <1>2, <1>3, <2>1, ReadTypes
    <3> QED
      BY <1>1, <1>2, <1>3, <1>6, <2>1, <3>1, <3>2, ReadTypes, ReadFrame DEF n
  <2>5. FindInv'
    BY <1>6, <2>1, <2>2, <2>3 DEF FindInv, K
  <2>6. WalkInv' /\ ScanIsExact'
    BY <2>1 DEF WalkInv, ScanIsExact
  <2> QED
    BY <2>4, <2>5, <2>6
<1> QED
  BY <1>7, <1>8

\* FindEnds keeps FormatInv.
LEMMA FindEndsStep ==
    ASSUME FormatInv, FindEnds
    PROVE  FormatInv'
<1> USE DEF FormatInv
<1>1. /\ rpc = "find" /\ pos = bound /\ rpc' = "found"
      /\ UNCHANGED <<writeVars, contents, phase, readerVars, rkey, rend, results,
                     start_offset, pos, bound, examined, damage>>
  BY DEF FindEnds
<1>2. entries' = entries /\ data' = data /\ rkey' = rkey /\ results' = results
      /\ examined' = examined
  BY <1>1 DEF writeVars
<1>3. phase = "open"
  BY <1>1, ReadTypes
<1>4. (TypeOK /\ WrittenInv /\ IndexInv /\ FileInv)'
  BY <1>1, <1>3, ReadTypes, ReadFrame
<1>5. ASSUME NEW i \in 1..Len(data) PROVE data[i].key # rkey
  <2>1. i \in 1..pos \/ bound < i
    BY <1>1, ReadTypes
  <2> QED
    BY <1>1, <2>1, CellTypes, ReadTypes DEF FindInv
<1>6. Answer(rkey) = <<>> /\ results = <<>>
  BY <1>1, <1>3, <1>5, AnswerMiss DEF FindInv
<1>7. Answer(rkey)' = Answer(rkey)
  BY <1>2 DEF Answer
<1>8. FindInv'
  BY <1>1, <1>2, <1>6, <1>7 DEF FindInv
<1>9. WalkInv' /\ ScanIsExact'
  BY <1>1 DEF WalkInv, ScanIsExact
<1> QED
  BY <1>4, <1>8, <1>9

\* ScanRaw keeps FormatInv.
LEMMA ScanRawStep ==
    ASSUME FormatInv, NEW start \in Probe, NEW end \in Probe, ScanRaw(start, end)
    PROVE  FormatInv'
<1> USE DEF FormatInv
<1> DEFINE u == UpperBound(start)
           n == Len(data)
           o == ScanStart(u)
<1>1. /\ phase = "open" /\ rpc = "idle"
      /\ rpc' = IF index_ = <<>> THEN "scanned" ELSE "scan"
      /\ rkey' = start /\ rend' = end
      /\ start_offset' = o /\ pos' = o /\ bound' = Len(data_)
      /\ UNCHANGED <<writeVars, contents, phase, readerVars, examined, results, damage>>
  BY DEF ScanRaw
<1>2. /\ entries' = entries /\ data' = data /\ data_' = data_ /\ phase' = phase
      /\ Len(data_) = n /\ index_ = sparse_index /\ sparse_index \in Seq(IndexCell)
  BY <1>1 DEF writeVars, readerVars, FileInv, TypeOK
<1>3. start \in Int /\ end \in Int /\ kSparseIndexInterval \in Nat
  BY FormatAssumption
<1>4. examined' = 0 /\ results' = <<>> /\ results = <<>> /\ n \in Nat
  BY <1>1, ReadTypes DEF FindInv
<1> HIDE DEF u
<1>5. o \in Nat /\ o <= n /\ \A i \in 1..n : i <= o => data[i].key < start
  <2>1. CASE u = 1
    BY <1>4, <2>1 DEF ScanStart
  <2>2. CASE u # 1
    <3>1. o = index_[u - 1].offset
      BY <2>2 DEF ScanStart
    <3>2. o \in Nat /\ o < n /\ \A i \in 1..n : i <= o => data[i].key < start
      BY <1>1, <1>3, <2>2, <3>1, BlockStart DEF u
    <3> HIDE DEF o
    <3> QED
      BY <1>4, <3>2
  <2> QED
    BY <2>1, <2>2
<1> HIDE DEF o
<1>6. (TypeOK /\ WrittenInv /\ IndexInv /\ FileInv)'
  <2>1. results' \in Seq([key : Key, entry : Entry])
    BY <1>4
  <2>2. start_offset' \in 0..pos' /\ pos' \in 0..bound' /\ bound' \in 0..Len(data)
    BY <1>1, <1>2, <1>4, <1>5
  <2>3. rpc' \in {"scanned", "scan"}
    BY <1>1
  <2> QED
    BY <1>1, <1>4, <2>1, <2>2, <2>3, ReadFrame
<1>7. FindInv'
  <2>1. rpc' \in {"scanned", "scan"}
    BY <1>1
  <2> QED
    BY <1>3, <1>4, <2>1 DEF FindInv
<1>8. CASE index_ = <<>>
  <2>1. rpc' = "scanned"
    BY <1>1, <1>8
  <2>2. n = 0
    BY <1>2, <1>4, <1>8 DEF IndexInv
  <2>3. ASSUME NEW k \in Key PROVE entries[k] = Absent
    BY <1>1, <1>4, <2>2, Complete
  <2>4. Lists({k \in Key : rkey <= k /\ k < rend})'
    BY <1>2, <1>4, <2>3 DEF Lists
  <2>5. ScanIsExact'
    BY <2>1, <2>4 DEF ScanIsExact
  <2>6. WalkInv'
    BY <2>1 DEF WalkInv
  <2> QED
    BY <1>6, <1>7, <2>5, <2>6
<1>9. CASE index_ # <<>>
  <2>1. rpc' = "scan"
    BY <1>1, <1>9
  <2>2. ASSUME NEW i \in 1..o PROVE ~(start <= data[i].key)
    <3>1. i \in 1..n /\ i <= o
      BY <1>4, <1>5
    <3>2. data[i].key < start /\ data[i].key \in Int
      BY <1>5, <3>1, CellTypes
    <3> QED
      BY <1>3, <3>2
  <2>3. Wanted(pos)' = {}
    BY <1>1, <1>2, <2>1, <2>2 DEF Wanted
  <2>4. {results'[i] : i \in 1..Len(results')} = {Rec(i)' : i \in Wanted(pos)'}
    BY <1>4, <2>3
  <2>5. \A i, j \in 1..Len(results') : i < j => results'[i].key < results'[j].key
    BY <1>4
  <2>6. WalkInv'
    BY <1>1, <1>2, <2>1, <2>2, <2>4, <2>5 DEF WalkInv
  <2>7. ScanIsExact'
    BY <2>1 DEF ScanIsExact
  <2> QED
    BY <1>6, <1>7, <2>6, <2>7
<1> QED
  BY <1>8, <1>9

\* AllRaw keeps FormatInv.
LEMMA AllRawStep ==
    ASSUME FormatInv, AllRaw
    PROVE  FormatInv'
<1> USE DEF FormatInv
<1>1. /\ phase = "open" /\ rpc = "idle" /\ rpc' = "all"
      /\ start_offset' = 0 /\ pos' = 0 /\ bound' = Len(data_)
      /\ UNCHANGED <<writeVars, contents, phase, readerVars, rkey, rend, examined, results, damage>>
  BY DEF AllRaw
<1>2. data' = data /\ data_' = data_ /\ Len(data_) = Len(data)
  BY <1>1 DEF writeVars, readerVars, FileInv
<1>3. examined' = 0 /\ results' = <<>> /\ Len(data) \in Nat /\ kSparseIndexInterval \in Nat
  BY <1>1, ReadTypes, FormatAssumption DEF FindInv
<1>4. (TypeOK /\ WrittenInv /\ IndexInv /\ FileInv)'
  BY <1>1, <1>2, <1>3, ReadTypes, ReadFrame
<1>5. FindInv'
  BY <1>1, <1>3 DEF FindInv
<1>6. Wanted(pos)' = {}
  BY <1>1 DEF Wanted
<1>7. {results'[i] : i \in 1..Len(results')} = {Rec(i)' : i \in Wanted(pos)'}
  BY <1>3, <1>6
<1>8. WalkInv'
  BY <1>1, <1>2, <1>3, <1>7 DEF WalkInv
<1>9. ScanIsExact'
  BY <1>1 DEF ScanIsExact
<1> QED
  BY <1>4, <1>5, <1>8, <1>9

\* The scan stops, at a record past the range or at the end of the data.
LEMMA StopsExact ==
    ASSUME FormatInv, rpc = "scan",
           \A i \in 1..Len(data) : pos < i => data[i].key >= rend
    PROVE  Lists({k \in Key : rkey <= k /\ k < rend})
<1> USE DEF FormatInv
<1> DEFINE S == {k \in Key : rkey <= k /\ k < rend}
           n == Len(data)
<1>1. /\ phase = "open" /\ pos \in Nat /\ n \in Nat /\ pos <= n /\ rkey \in Int /\ rend \in Int
  BY ReadTypes
<1>2. Wanted(pos) = {i \in 1..n : data[i].key \in S}
  <2>1. ASSUME NEW i \in Wanted(pos) PROVE i \in 1..n /\ data[i].key \in S
    <3>1. i \in 1..pos /\ rkey <= data[i].key
      BY DEF Wanted
    <3>2. i \in 1..n /\ data[i].key < rend
      BY <1>1, <3>1 DEF WalkInv
    <3>3. data[i].key \in Key
      BY <3>2, CellTypes
    <3> QED
      BY <3>1, <3>2, <3>3
  <2>2. ASSUME NEW i \in 1..n, data[i].key \in S PROVE i \in Wanted(pos)
    <3>1. data[i].key \in Int /\ data[i].key < rend /\ rkey <= data[i].key
      BY <2>2, CellTypes
    <3>2. ~(pos < i)
      BY <1>1, <3>1
    <3>3. i \in 1..pos
      BY <1>1, <3>2
    <3> QED
      BY <3>1, <3>3 DEF Wanted
  <2> QED
    BY <2>1, <2>2 DEF Wanted
<1>3. /\ {results[i] : i \in 1..Len(results)} = {Rec(i) : i \in {j \in 1..n : data[j].key \in S}}
      /\ \A i, j \in 1..Len(results) : i < j => results[i].key < results[j].key
  BY <1>2 DEF WalkInv
<1>4. S \in SUBSET Key
  OBVIOUS
<1> HIDE DEF S
<1>5. Lists(S)
  BY <1>1, <1>3, <1>4, ExactList
<1> QED
  BY <1>5 DEF S

\* ScanRecord keeps FormatInv.
LEMMA ScanRecordStep ==
    ASSUME FormatInv, ScanRecord
    PROVE  FormatInv'
<1> USE DEF FormatInv
<1> DEFINE r == data_[pos + 1]
           n == Len(data)
           rec == Rec(pos + 1)
<1>1. /\ rpc \in {"scan", "all"} /\ pos < bound /\ Decodes
      /\ IF rpc = "scan" /\ r.key >= rend
         THEN rpc' = "scanned" /\ UNCHANGED <<pos, results>>
         ELSE /\ pos' = pos + 1 /\ UNCHANGED rpc
              /\ results' = IF rpc = "scan" /\ r.key < rkey THEN results
                            ELSE Append(results, [key |-> r.key, entry |-> r.entry])
      /\ UNCHANGED <<writeVars, contents, phase, readerVars, rkey, rend, start_offset, bound,
                     examined, damage>>
  BY DEF ScanRecord
<1>2. /\ entries' = entries /\ data' = data /\ data_' = data_ /\ rkey' = rkey /\ rend' = rend
      /\ bound' = bound /\ examined' = examined /\ start_offset' = start_offset
  BY <1>1 DEF writeVars, readerVars
<1>3. /\ phase = "open" /\ pos \in Nat /\ bound \in Nat /\ n \in Nat /\ bound = n
      /\ rkey \in Int /\ rend \in Int /\ results \in Seq([key : Key, entry : Entry])
      /\ examined = 0 /\ kSparseIndexInterval \in Nat
  BY <1>1, ReadTypes, FormatAssumption DEF WalkInv, FindInv
<1>4. /\ pos + 1 \in 1..n /\ r.key = data[pos + 1].key /\ r.key \in Int
      /\ rec \in [key : Key, entry : Entry] /\ rec.key = r.key
      /\ rec = [key |-> r.key, entry |-> r.entry]
  BY <1>1, NextRecord
<1>5. /\ {results[i] : i \in 1..Len(results)} = {Rec(i) : i \in Wanted(pos)}
      /\ \A i, j \in 1..Len(results) : i < j => results[i].key < results[j].key
  BY <1>1 DEF WalkInv
<1> HIDE DEF r, n, rec
<1>6. CASE rpc = "scan" /\ r.key >= rend
  <2>1. rpc' = "scanned" /\ pos' = pos /\ results' = results
    BY <1>1, <1>6
  <2>2. (TypeOK /\ WrittenInv /\ IndexInv /\ FileInv)'
    BY <1>1, <1>2, <1>3, <2>1, ReadTypes, ReadFrame
  <2>3. FindInv'
    BY <1>2, <1>3, <2>1 DEF FindInv
  <2>4. ASSUME NEW i \in 1..n, pos < i PROVE data[i].key >= rend
    <3>1. i = pos + 1 \/ pos + 1 < i
      BY <1>3, <2>4
    <3>2. data[i].key \in Int /\ (i = pos + 1 \/ data[pos + 1].key < data[i].key)
      BY <1>4, <3>1, Around DEF n
    <3> QED
      BY <1>3, <1>4, <1>6, <3>2
  <2>5. Lists({k \in Key : rkey <= k /\ k < rend})
    BY <1>6, <2>4, StopsExact DEF n
  <2>6. ScanIsExact'
    BY <1>2, <2>1, <2>5 DEF ScanIsExact, Lists
  <2>7. WalkInv'
    BY <2>1 DEF WalkInv
  <2> QED
    BY <2>2, <2>3, <2>6, <2>7
<1>7. CASE ~(rpc = "scan" /\ r.key >= rend)
  <2>1. /\ rpc' = rpc /\ pos' = pos + 1
        /\ results' = IF rpc = "scan" /\ r.key < rkey THEN results ELSE Append(results, rec)
    BY <1>1, <1>4, <1>7
  <2>2. results' \in Seq([key : Key, entry : Entry])
    <3>1. CASE rpc = "scan" /\ r.key < rkey
      BY <1>3, <2>1, <3>1
    <3>2. CASE ~(rpc = "scan" /\ r.key < rkey)
      <4>1. results' = Append(results, rec)
        BY <2>1, <3>2
      <4>2. rec \in [key : Key, entry : Entry]
        BY <1>4
      <4> QED
        BY <1>3, <4>1, <4>2
    <3> QED
      BY <3>1, <3>2
  <2>3. (TypeOK /\ WrittenInv /\ IndexInv /\ FileInv)'
    <3>1. start_offset' \in 0..pos' /\ pos' \in 0..bound' /\ bound' \in 0..n
      BY <1>1, <1>2, <1>3, <2>1, ReadTypes
    <3> QED
      BY <1>1, <1>2, <1>3, <2>1, <2>2, <3>1, ReadTypes, ReadFrame DEF n
  <2>4. FindInv'
    BY <1>1, <1>2, <1>3, <2>1 DEF FindInv
  <2>5. ScanIsExact'
    BY <1>1, <2>1 DEF ScanIsExact
  <2>6. /\ {results'[i] : i \in 1..Len(results')} = {Rec(i) : i \in Wanted(pos + 1)}
        /\ \A i, j \in 1..Len(results') : i < j => results'[i].key < results'[j].key
    <3> HIDE DEF Rec
    <3>1. CASE rpc = "scan" /\ r.key < rkey
      <4>1. ASSUME NEW i \in Wanted(pos + 1) PROVE i \in Wanted(pos)
        <5>1. i \in 1 .. pos + 1 /\ rkey <= data[i].key
          BY <3>1 DEF Wanted
        <5>2. i # pos + 1
          BY <1>3, <1>4, <3>1, <5>1
        <5>3. i \in 1..pos
          BY <1>3, <5>1, <5>2
        <5> QED
          BY <5>1, <5>3 DEF Wanted
      <4>2. ASSUME NEW i \in Wanted(pos) PROVE i \in Wanted(pos + 1)
        BY <1>3 DEF Wanted
      <4>3. Wanted(pos + 1) = Wanted(pos)
        BY <4>1, <4>2
      <4> QED
        BY <1>5, <2>1, <3>1, <4>3
    <3>2. CASE ~(rpc = "scan" /\ r.key < rkey)
      <4> DEFINE l == Len(results)
      <4>1. /\ results' = Append(results, rec) /\ l \in Nat /\ Len(results') = l + 1
            /\ results'[l + 1] = rec /\ \A i \in 1..l : results'[i] = results[i]
        BY <1>3, <1>4, <2>1, <3>2
      <4> HIDE DEF l
      <4>2. Wanted(pos + 1) = Wanted(pos) \cup {pos + 1}
        <5>1. ASSUME NEW i \in Wanted(pos + 1) PROVE i \in Wanted(pos) \cup {pos + 1}
          BY <1>3 DEF Wanted
        <5>2. ASSUME NEW i \in Wanted(pos) PROVE i \in Wanted(pos + 1)
          BY <1>3 DEF Wanted
        <5>3. pos + 1 \in Wanted(pos + 1)
          <6>1. pos + 1 \in 1 .. pos + 1 /\ (rpc = "all" \/ rkey <= data[pos + 1].key)
            BY <1>1, <1>3, <1>4, <3>2
          <6> QED
            BY <6>1 DEF Wanted
        <5> QED
          BY <5>1, <5>2, <5>3
      <4>3. {Rec(i) : i \in Wanted(pos + 1)} = {Rec(i) : i \in Wanted(pos)} \cup {rec}
        BY <4>2 DEF rec
      <4>4. {results'[i] : i \in 1 .. l + 1} = {results[i] : i \in 1..l} \cup {rec}
        <5>1. ASSUME NEW i \in 1 .. l + 1
              PROVE  results'[i] \in {results[x] : x \in 1..l} \cup {rec}
          <6>1. i \in 1..l \/ i = l + 1
            BY <4>1
          <6> QED
            BY <4>1, <6>1
        <5>2. ASSUME NEW i \in 1..l PROVE results[i] \in {results'[x] : x \in 1 .. l + 1}
          <6>1. i \in 1 .. l + 1 /\ results'[i] = results[i]
            BY <4>1
          <6> QED
            BY <6>1
        <5>3. rec \in {results'[x] : x \in 1 .. l + 1}
          <6>1. l + 1 \in 1 .. l + 1 /\ results'[l + 1] = rec
            BY <4>1
          <6> QED
            BY <6>1
        <5> QED
          BY <5>1, <5>2, <5>3
      <4>5. ASSUME NEW i \in 1..l PROVE results[i].key < rec.key
        <5>1. PICK x \in Wanted(pos) : results[i] = Rec(x)
          BY <1>5 DEF l
        <5>2. x \in 1..n /\ x < pos + 1 /\ Rec(x).key = data[x].key
          BY <1>3, <1>4 DEF Wanted, Rec
        <5> QED
          BY <1>4, <5>1, <5>2, Around DEF n
      <4>6. ASSUME NEW i \in 1 .. l + 1, NEW j \in 1 .. l + 1, i < j
            PROVE  results'[i].key < results'[j].key
        <5>1. i \in 1..l /\ (j = l + 1 \/ j \in 1..l)
          BY <4>1, <4>6
        <5>2. CASE j = l + 1
          BY <4>1, <4>5, <5>1, <5>2
        <5>3. CASE j \in 1..l
          BY <1>5, <4>1, <4>6, <5>1, <5>3 DEF l
        <5> QED
          BY <5>1, <5>2, <5>3
      <4> QED
        BY <1>5, <4>1, <4>3, <4>4, <4>6 DEF l
    <3> QED
      BY <3>1, <3>2
  <2>7. WalkInv'
    <3>1. Wanted(pos)' = Wanted(pos + 1)
      BY <1>2, <2>1 DEF Wanted
    <3>2. {Rec(i)' : i \in Wanted(pos)'} = {Rec(i) : i \in Wanted(pos + 1)}
      BY <1>2, <3>1 DEF Rec
    <3>3. ASSUME rpc = "scan", NEW i \in 1 .. pos + 1, rkey <= data[i].key
          PROVE  data[i].key < rend
      <4>1. CASE i = pos + 1
        BY <1>3, <1>4, <1>7, <3>3, <4>1
      <4>2. CASE i \in 1..pos
        BY <3>3, <4>2 DEF WalkInv
      <4> QED
        BY <1>3, <4>1, <4>2
    <3> HIDE DEF Rec
    <3> QED
      BY <1>1, <1>2, <1>3, <2>1, <2>6, <3>2, <3>3 DEF WalkInv, n
  <2> QED
    BY <2>3, <2>4, <2>5, <2>7
<1> QED
  BY <1>6, <1>7

\* ScanEnds keeps FormatInv.
LEMMA ScanEndsStep ==
    ASSUME FormatInv, ScanEnds
    PROVE  FormatInv'
<1> USE DEF FormatInv
<1>1. /\ rpc \in {"scan", "all"} /\ pos = bound
      /\ rpc' = IF rpc = "scan" THEN "scanned" ELSE "listed"
      /\ UNCHANGED <<writeVars, contents, phase, readerVars, rkey, rend, results,
                     start_offset, pos, bound, examined, damage>>
  BY DEF ScanEnds
<1>2. /\ entries' = entries /\ data' = data /\ data_' = data_ /\ rkey' = rkey /\ rend' = rend
      /\ pos' = pos /\ results' = results /\ examined' = examined
  BY <1>1 DEF writeVars, readerVars
<1>3. /\ phase = "open" /\ pos = Len(data) /\ Len(data) \in Nat /\ examined = 0
  BY <1>1, ReadTypes DEF WalkInv, FindInv
<1>4. rpc' \in {"scanned", "listed"}
  BY <1>1
<1>5. (TypeOK /\ WrittenInv /\ IndexInv /\ FileInv)'
  BY <1>1, <1>3, <1>4, ReadTypes, ReadFrame
<1>6. FindInv'
  BY <1>2, <1>3, <1>4, FormatAssumption DEF FindInv
<1>7. WalkInv'
  BY <1>1, <1>2, <1>3 DEF WalkInv
<1>8. ScanIsExact'
  <2>1. CASE rpc = "scan"
    <3>1. Lists({k \in Key : rkey <= k /\ k < rend})
      BY <1>3, <2>1, StopsExact
    <3> QED
      BY <1>1, <1>2, <2>1, <3>1 DEF ScanIsExact, Lists
  <2>2. CASE rpc = "all"
    <3>1. Wanted(pos) = {j \in 1..Len(data) : data[j].key \in Key}
      BY <1>3, <2>2, CellTypes DEF Wanted
    <3>2. Lists(Key)
      BY <1>3, <2>2, <3>1, ExactList DEF WalkInv
    <3> QED
      BY <1>1, <1>2, <2>2, <3>2 DEF ScanIsExact, Lists
  <2> QED
    BY <1>1, <2>1, <2>2
<1> QED
  BY <1>5, <1>6, <1>7, <1>8

\* ReadThrows keeps FormatInv.
LEMMA ReadThrowsStep ==
    ASSUME FormatInv, ReadThrows
    PROVE  FormatInv'
<1> USE DEF FormatInv
<1>1. /\ rpc \in {"find", "scan", "all"} /\ pos < bound /\ ~Decodes /\ rpc' = "threw"
      /\ UNCHANGED <<writeVars, contents, phase, readerVars, rkey, rend, results,
                     start_offset, pos, bound, examined, damage>>
  BY DEF ReadThrows
<1>2. data' = data /\ data_' = data_ /\ examined' = examined /\ phase = "open"
  BY <1>1, ReadTypes DEF writeVars, readerVars
<1>3. (TypeOK /\ WrittenInv /\ IndexInv /\ FileInv)'
  BY <1>1, <1>2, ReadTypes, ReadFrame
<1>4. FindInv'
  BY <1>1, <1>2 DEF FindInv
<1>5. WalkInv' /\ ScanIsExact'
  BY <1>1 DEF WalkInv, ScanIsExact
<1> QED
  BY <1>3, <1>4, <1>5

\* ReadReturns keeps FormatInv.
LEMMA ReadReturnsStep ==
    ASSUME FormatInv, ReadReturns
    PROVE  FormatInv'
<1> USE DEF FormatInv
<1>1. /\ rpc \in {"found", "scanned", "listed", "threw"}
      /\ rpc' = "idle" /\ rkey' = 0 /\ rend' = 0 /\ results' = <<>>
      /\ start_offset' = 0 /\ pos' = 0 /\ bound' = 0 /\ examined' = 0
      /\ UNCHANGED <<writeVars, contents, phase, readerVars, damage>>
  BY DEF ReadReturns
<1>2. phase = "open" /\ Len(data) \in Nat
  BY <1>1, ReadTypes
<1>3. (TypeOK /\ WrittenInv /\ IndexInv /\ FileInv)'
  <2>1. results' \in Seq([key : Key, entry : Entry])
    BY <1>1
  <2> QED
    BY <1>1, <1>2, <2>1, ReadFrame
<1>4. FindInv'
  BY <1>1, FormatAssumption DEF FindInv
<1>5. WalkInv' /\ ScanIsExact'
  BY <1>1 DEF WalkInv, ScanIsExact
<1> QED
  BY <1>3, <1>4, <1>5

-----------------------------------------------------------------------------
(* The invariant and what follows from it *)

\* Every step keeps FormatInv.
LEMMA FormatStep == FormatInv /\ [Next]_vars => FormatInv'
<1> SUFFICES ASSUME FormatInv, [Next]_vars PROVE FormatInv'
  OBVIOUS
<1>1. CASE UNCHANGED vars
  <2>1. /\ UNCHANGED <<entries, data, sparse_index>> /\ UNCHANGED <<contents, phase, damage>>
        /\ UNCHANGED <<data_, index_>>
        /\ UNCHANGED <<rpc, rkey, rend, results, start_offset, pos, bound, examined>>
    BY <1>1 DEF vars, writeVars, readerVars, readVars
  <2>2. Footer' = Footer /\ ReadFooter' = ReadFooter /\ Unwritten' = Unwritten
    BY <2>1 DEF Footer, ReadFooter, Unwritten
  <2>3. TypeOK'
    BY <2>1, <2>2 DEF FormatInv, TypeOK
  <2>4. (WrittenInv /\ IndexInv)'
    BY <2>1, <2>2 DEF FormatInv, WrittenInv, IndexInv
  <2>5. FileInv'
    BY <2>1, <2>2 DEF FormatInv, FileInv, Intact
  <2>6. FindInv'
    BY <2>1 DEF FormatInv, FindInv, Answer
  <2>7. WalkInv'
    BY <2>1 DEF FormatInv, WalkInv, Wanted, Rec
  <2>8. ScanIsExact'
    BY <2>1 DEF FormatInv, ScanIsExact, Lists
  <2> QED
    BY <2>3, <2>4, <2>5, <2>6, <2>7, <2>8 DEF FormatInv
<1>2. CASE Next
  <2>1. CASE WriteEntry
    BY <2>1, WriteEntryStep
  <2>2. CASE WriteFile
    BY <2>2, WriteFileStep
  <2>3. CASE OpenReader
    BY <2>3, OpenReaderStep
  <2>4. CASE OpenThrows
    BY <2>4, OpenThrowsStep
  <2>5. CASE \E i \in 1..Len(contents) : Damage(i)
    BY <2>5, DamageStep
  <2>6. CASE \E k \in Probe : Find(k)
    BY <2>6, FindStep
  <2>7. CASE \E start, end \in Probe : ScanRaw(start, end)
    BY <2>7, ScanRawStep
  <2>8. CASE AllRaw
    BY <2>8, AllRawStep
  <2>9. CASE FindRecord
    BY <2>9, FindRecordStep
  <2>10. CASE FindEnds
    BY <2>10, FindEndsStep
  <2>11. CASE ScanRecord
    BY <2>11, ScanRecordStep
  <2>12. CASE ScanEnds
    BY <2>12, ScanEndsStep
  <2>13. CASE ReadThrows
    BY <2>13, ReadThrowsStep
  <2>14. CASE ReadReturns
    BY <2>14, ReadReturnsStep
  <2> QED
    BY <1>2, <2>1, <2>2, <2>3, <2>4, <2>5, <2>6, <2>7, <2>8, <2>9, <2>10, <2>11, <2>12, <2>13,
       <2>14 DEF Next
<1> QED
  BY <1>1, <1>2

\* FormatInv is an invariant: what the writer, the reader and the loops of a
\* read know at every step (sstable.cpp:44-214).
THEOREM FormatInvariance == Spec => []FormatInv
  BY FormatInit, FormatStep, PTL DEF Spec

\* Every variable keeps its type; in particular a read never leaves the data
\* section and every index entry points into it, for every table, interval and
\* damage (sstable.cpp:139).
THEOREM FormatTypes == Spec => []TypeOK
<1>1. FormatInv => TypeOK
  BY DEF FormatInv
<1> QED
  BY <1>1, FormatInvariance, PTL

\* Find returns the entry of the key if the table has one and nothing
\* otherwise, wherever the key falls between the sampled ones.
THEOREM FindExact == Spec => []FindIsExact
<1>1. FormatInv => FindIsExact
  BY DEF FormatInv, FindInv, FindIsExact
<1> QED
  BY <1>1, FormatInvariance, PTL

\* A lookup decodes at most kSparseIndexInterval records.
THEOREM FindOneBlock == Spec => []FindReadsOneBlock
<1>1. FormatInv => FindReadsOneBlock
  BY DEF FormatInv, FindInv, FindReadsOneBlock
<1> QED
  BY <1>1, FormatInvariance, PTL

\* ScanRaw returns the entries of its range, AllRaw those of the table, in
\* order and each once.
THEOREM ScanExact == Spec => []ScanIsExact
<1>1. FormatInv => ScanIsExact
  BY DEF FormatInv
<1> QED
  BY <1>1, FormatInvariance, PTL

\* A read at the start of its block has passed no record.
LEMMA NothingPassed == \A a \in Nat : a + 1 .. a = {}
  OBVIOUS

\* The part of PassedInv about a read holds of one that has not begun.
LEMMA PassedIdle ==
    ASSUME FormatInv', (rpc = "idle")'
    PROVE  PassedInv'
<1>1. start_offset' = 0 /\ pos' = 0
  BY DEF FormatInv, TypeOK, FindInv
<1> QED
  BY <1>1 DEF PassedInv

\* A record is decoded, and passed or stopped at, only if it is intact.
LEMMA PassedRecord ==
    ASSUME FormatInv, PassedInv, FindRecord \/ ScanRecord
    PROVE  PassedInv'
<1>1. /\ rpc \in {"find", "scan", "all"} /\ pos < bound /\ data_[pos + 1].ok
      /\ data_' = data_ /\ start_offset' = start_offset /\ bound' = bound
      /\ \/ pos' = pos + 1 /\ rpc' = rpc
         \/ pos' = pos /\ rpc' \in {"found", "scanned"}
  BY DEF FindRecord, ScanRecord, Decodes, readerVars
<1>2. start_offset \in Nat /\ pos \in Nat
  BY ReadTypes
<1>3. ASSUME NEW i \in start_offset + 1 .. pos' PROVE data_[i].ok
  <2>1. i \in start_offset + 1 .. pos \/ i = pos + 1
    BY <1>1, <1>2
  <2> QED
    BY <1>1, <2>1 DEF PassedInv
<1> QED
  BY <1>1, <1>3 DEF PassedInv

\* Every step keeps PassedInv.
LEMMA PassedStep ==
    ASSUME FormatInv, FormatInv', PassedInv, [Next]_vars
    PROVE  PassedInv'
<1>1. CASE UNCHANGED vars
  BY <1>1 DEF vars, readerVars, readVars, PassedInv
<1>2. CASE \/ WriteEntry \/ WriteFile \/ OpenReader \/ OpenThrows
           \/ \E i \in 1..Len(contents) : Damage(i)
  <2>1. rpc' = rpc /\ phase # "open"
    BY <1>2 DEF WriteEntry, WriteFile, OpenReader, OpenThrows, Damage, readVars
  <2>2. rpc = "idle"
    BY <2>1 DEF FormatInv, FileInv
  <2> QED
    BY <2>1, <2>2, PassedIdle
<1>3. CASE \E k \in Probe : Find(k)
  <2>1. PICK k \in Probe : Find(k)
    BY <1>3
  <2>2. rpc = "idle"
    BY <2>1 DEF Find
  <2>3. pos = 0 /\ bound = 0 /\ start_offset = 0
    BY <2>2, ReadTypes DEF FormatInv, FindInv
  <2>4. \/ rpc' = "found" /\ start_offset' = 0 /\ pos' = 0 /\ bound' = 0
        \/ rpc' = "find" /\ pos' = start_offset'
    BY <2>1, <2>3 DEF Find
  <2>5. start_offset' \in Nat
    BY DEF FormatInv, TypeOK
  <2>6. start_offset' + 1 .. pos' = {} /\ ~(0 < 0)
    BY <2>4, <2>5, NothingPassed
  <2> QED
    BY <2>4, <2>6 DEF PassedInv
<1>4. CASE \E start, end \in Probe : ScanRaw(start, end)
  <2>1. PICK start \in Probe, end \in Probe : ScanRaw(start, end)
    BY <1>4
  <2>2. /\ phase = "open" /\ bound' = Len(data_) /\ index_' = index_ /\ data_' = data_
        /\ start_offset' = pos' /\ rpc' = IF index_ = <<>> THEN "scanned" ELSE "scan"
    BY <2>1 DEF ScanRaw, readerVars
  <2>3. start_offset' \in Nat
    BY DEF FormatInv, TypeOK
  <2>5. start_offset' + 1 .. pos' = {}
    BY <2>2, <2>3, NothingPassed
  <2>4. index_ = <<>> => bound' = 0
    <3>1. Len(data) \in Nat /\ Len(data_) = Len(data) /\ index_ = sparse_index
      BY <2>2, CellTypes DEF FormatInv, FileInv
    <3>2. Len(data) > 0 => Len(sparse_index) > 0
      BY DEF FormatInv, IndexInv
    <3> QED
      BY <2>2, <3>1, <3>2
  <2>6. CASE index_ = <<>>
    <3>1. pos' \in 0..bound'
      BY DEF FormatInv, TypeOK
    <3>2. ~(pos' < bound')
      BY <2>2, <2>3, <2>4, <2>6, <3>1
    <3>3. rpc' = "scanned"
      BY <2>2, <2>6
    <3> QED
      BY <2>5, <3>2, <3>3 DEF PassedInv
  <2>7. CASE index_ # <<>>
    BY <2>2, <2>5, <2>7 DEF PassedInv
  <2> QED
    BY <2>6, <2>7
<1>5. CASE AllRaw
  BY <1>5 DEF AllRaw, PassedInv
<1>6. CASE FindRecord \/ ScanRecord
  BY <1>6, PassedRecord
<1>7. CASE FindEnds \/ ScanEnds
  <2>1. /\ rpc' \in {"found", "scanned", "listed"} /\ pos' = bound' /\ pos' = pos
        /\ start_offset' = start_offset /\ data_' = data_ /\ bound \in Nat /\ bound' = bound
    BY <1>7, ReadTypes DEF FindEnds, ScanEnds, readerVars
  <2> QED
    BY <2>1 DEF PassedInv
<1>8. CASE ReadThrows
  <2>1. /\ rpc' = "threw" /\ pos' = pos /\ bound' = bound /\ pos < bound
        /\ start_offset' = start_offset /\ data_' = data_ /\ rpc # "idle" /\ ~Decodes
    BY <1>8 DEF ReadThrows, readerVars
  <2>2. ~data_[pos + 1].ok
    BY <2>1, NextRecord
  <2> QED
    BY <2>1, <2>2 DEF PassedInv
<1>9. CASE ReadReturns
  <2>1. rpc' = "idle"
    BY <1>9 DEF ReadReturns
  <2> QED
    BY <2>1, PassedIdle
<1> QED
  BY <1>1, <1>2, <1>3, <1>4, <1>5, <1>6, <1>7, <1>8, <1>9 DEF Next

\* A read that throws has come to a damaged record, the first on its way, and
\* one that returns has decoded intact records only: for every table, interval
\* and damage (sstable.cpp:162, 190, 209).
THEOREM ThrowsExact == Spec => []ThrowsOnlyOnDamage
<1>1. Init => PassedInv
  BY DEF Init, PassedInv
<1>2. FormatInv /\ FormatInv' /\ PassedInv /\ [Next]_vars => PassedInv'
  BY PassedStep
<1>3. FormatInv /\ PassedInv => ThrowsOnlyOnDamage
  <2> SUFFICES ASSUME FormatInv, PassedInv PROVE ThrowsOnlyOnDamage
    OBVIOUS
  <2>1. /\ start_offset \in Nat /\ pos \in Nat /\ bound \in Nat /\ Len(data) \in Nat
        /\ pos <= bound
    BY ReadTypes
  <2>2. rpc # "idle" => bound <= Len(data) /\ \A i \in 1..Len(data) : data_[i] = contents[i]
    BY ReadTypes DEF FormatInv, FileInv
  <2>3. ASSUME rpc = "threw"
        PROVE  /\ pos < bound /\ ~contents[pos + 1].ok
               /\ \A i \in start_offset + 1 .. pos : contents[i].ok
    <3>1. pos < bound /\ ~data_[pos + 1].ok /\ \A i \in start_offset + 1 .. pos : data_[i].ok
      BY <2>3 DEF PassedInv
    <3>2. \A i \in 1 .. pos + 1 : data_[i] = contents[i]
      BY <2>1, <2>2, <2>3, <3>1
    <3> QED
      BY <2>1, <3>1, <3>2
  <2>4. ASSUME rpc \in {"found", "scanned", "listed"},
               NEW i \in start_offset + 1 .. bound, i <= pos + 1
        PROVE  contents[i].ok
    <3>1. data_[i] = contents[i]
      BY <2>1, <2>2, <2>4
    <3>2. i \in start_offset + 1 .. pos \/ (i = pos + 1 /\ pos < bound)
      BY <2>1, <2>4
    <3>3. data_[i].ok
      BY <2>1, <2>4, <3>2 DEF PassedInv
    <3> QED
      BY <3>1, <3>3
  <2> QED
    BY <2>3, <2>4 DEF ThrowsOnlyOnDamage
<1> QED
  BY <1>1, <1>2, <1>3, FormatInvariance, PTL DEF Spec
=============================================================================
