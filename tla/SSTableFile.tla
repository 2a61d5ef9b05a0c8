----------------------------- MODULE SSTableFile -----------------------------
(***************************************************************************)
(* One SSTable file: WriteSSTable builds the data section, the sparse      *)
(* index and the footer from a table, SSTableReader loads them, and Find,  *)
(* ScanRaw and AllRaw walk the data section record by record.              *)
(*                                                                         *)
(* A file is a sequence of cells: a record of the data section, an entry   *)
(* of the index, the footer.  Offsets count records, since EncodeRecord    *)
(* and DecodeRecord (module RecordCodec) always advance by a whole one.    *)
(* Before it is opened, the medium may turn records of the data section    *)
(* into other bytes, and damage the footer.  The steps of writing the file *)
(* under a temporary name are those of module Database.                    *)
(***************************************************************************)
EXTENDS LSMTables

CONSTANTS
    kSparseIndexInterval,
    Probe,          \* keys that Find and ScanRaw are asked for
    MaxDamage       \* bound on damaged cells

ASSUME FormatAssumption ==
    /\ kSparseIndexInterval \in Nat \ {0}
    /\ Probe \subseteq Int
    /\ MaxDamage \in Nat

VARIABLES
    entries,                    \* the table to be written
    data, sparse_index,         \* WriteSSTable
    contents,                   \* the file
    phase,                      \* "writing", "written", "open", "rejected"
    data_, index_,              \* SSTableReader
    rpc, rkey, rend, results,           \* the read in progress: its keys and result,
    start_offset, pos, bound, examined, \* its block, place and number of records
    damage

writeVars == <<entries, data, sparse_index>>
readerVars == <<data_, index_>>
readVars == <<rpc, rkey, rend, results, start_offset, pos, bound, examined>>
vars == <<writeVars, contents, phase, readerVars, readVars, damage>>

DataCell == [section : {"data"}, key : Key, entry : Entry, ok : BOOLEAN]
IndexCell == [section : {"index"}, key : Key, offset : Nat]
FooterCell == [section : {"footer"}, index_offset : Nat, index_size : Nat, ok : BOOLEAN]

Init ==
    /\ entries \in Table
    /\ data = <<>> /\ sparse_index = <<>> /\ contents = <<>>
    /\ phase = "writing"
    /\ data_ = <<>> /\ index_ = <<>>
    /\ rpc = "idle" /\ rkey = 0 /\ rend = 0 /\ results = <<>>
    /\ start_offset = 0 /\ pos = 0 /\ bound = 0 /\ examined = 0
    /\ damage = 0
-----------------------------------------------------------------------------
(* WriteSSTable *)

Unwritten == {k \in Key : entries[k] # Absent /\ \A i \in 1..Len(data) : data[i].key < k}

\* The next entry of the std::map, sampled at every multiple of the interval.
WriteEntry ==
    /\ phase = "writing"
    /\ \E k \in Unwritten :
          /\ \A j \in Unwritten : k <= j
          /\ data' = Append(data, [section |-> "data", key |-> k, entry |-> entries[k],
                                   ok |-> TRUE])
          /\ sparse_index' = IF Len(data) % kSparseIndexInterval = 0
                             THEN Append(sparse_index, [section |-> "index", key |-> k,
                                                        offset |-> Len(data)])
                             ELSE sparse_index
    /\ UNCHANGED <<entries, contents, phase, readerVars, readVars, damage>>

Footer == [section |-> "footer", index_offset |-> Len(data),
           index_size |-> Len(sparse_index), ok |-> TRUE]

WriteFile ==
    /\ phase = "writing" /\ Unwritten = {}
    /\ contents' = data \o sparse_index \o <<Footer>>
    /\ phase' = "written"
    /\ UNCHANGED <<writeVars, readerVars, readVars, damage>>

\* Bytes rot: a record of the data section may now say anything, under a
\* checksum that no longer fits, or the magic number or the sizes in the
\* footer do not.
Damage(i) ==
    /\ phase = "written" /\ damage < MaxDamage
    /\ \/ /\ contents[i].section = "data"
          /\ \E k \in Key, e \in Entry :
                contents' = [contents EXCEPT ![i] = [section |-> "data", key |-> k, entry |-> e,
                                                     ok |-> FALSE]]
       \/ /\ contents[i].section = "footer"
          /\ contents' = [contents EXCEPT ![i].ok = FALSE]
    /\ damage' = damage + 1
    /\ UNCHANGED <<writeVars, phase, readerVars, readVars>>
-----------------------------------------------------------------------------
(* SSTableReader *)

ReadFooter == contents[Len(contents)]

\* Mutant: the data section is taken to reach up to the footer.
AllButFooter == SubSeq(contents, 1, Len(contents) - 1)

DataSection == SubSeq(contents, 1, ReadFooter.index_offset)

IndexSection ==
    SubSeq(contents, ReadFooter.index_offset + 1,
           ReadFooter.index_offset + ReadFooter.index_size)

OpenReader ==
    /\ phase = "written"
    /\ ReadFooter.ok
    /\ data_' = DataSection /\ index_' = IndexSection
    /\ phase' = "open"
    /\ UNCHANGED <<writeVars, contents, readVars, damage>>

OpenThrows ==
    /\ phase = "written"
    /\ ~ReadFooter.ok
    /\ phase' = "rejected"
    /\ UNCHANGED <<writeVars, contents, readerVars, readVars, damage>>
-----------------------------------------------------------------------------
(* Find *)

\* Mutant: std::lower_bound.
LowerBound(k) ==
    CHOOSE u \in 1 .. Len(index_) + 1 :
        /\ u <= Len(index_) => index_[u].key >= k
        /\ \A j \in 1 .. u - 1 : index_[j].key < k

\* std::upper_bound: the position of the first index entry with a greater
\* key, the end of the index if there is none.
UpperBound(k) ==
    CHOOSE u \in 1 .. Len(index_) + 1 :
        /\ u <= Len(index_) => index_[u].key > k
        /\ \A j \in 1 .. u - 1 : index_[j].key <= k

\* Mutant: the block reaches to the end of the data.
DataEnd(u) == Len(data_)

\* Where the block before index entry u ends.
BlockEnd(u) == IF u <= Len(index_) THEN index_[u].offset ELSE Len(data_)

Find(k) ==
    LET u == UpperBound(k) IN
    /\ phase = "open" /\ rpc = "idle"
    /\ rkey' = k
    /\ IF u = 1
       THEN rpc' = "found" /\ UNCHANGED <<start_offset, pos, bound>>
       ELSE /\ rpc' = "find" /\ start_offset' = index_[u - 1].offset
            /\ pos' = start_offset' /\ bound' = BlockEnd(u)
    /\ UNCHANGED <<writeVars, contents, phase, readerVars, rend, examined, results, damage>>

\* Mutant: the status DecodeRecord returns is not looked at.
DecodesAnyBytes == data_[pos + 1].section = "data"

\* DecodeRecord on the rest of the block.
Decodes == data_[pos + 1].section = "data" /\ data_[pos + 1].ok

FindRecord ==
    LET r == data_[pos + 1] IN
    /\ rpc = "find" /\ pos < bound /\ Decodes
    /\ IF r.key < rkey
       THEN pos' = pos + 1 /\ examined' = examined + 1 /\ UNCHANGED <<rpc, results>>
       ELSE /\ rpc' = "found" /\ examined' = examined + 1
            /\ results' = IF r.key = rkey THEN <<[key |-> r.key, entry |-> r.entry]>> ELSE <<>>
            /\ UNCHANGED pos
    /\ UNCHANGED <<writeVars, contents, phase, readerVars, rkey, rend, start_offset, bound,
                   damage>>

FindEnds ==
    /\ rpc = "find" /\ pos = bound
    /\ rpc' = "found"
    /\ UNCHANGED <<writeVars, contents, phase, readerVars, rkey, rend, results,
                   start_offset, pos, bound, examined, damage>>
-----------------------------------------------------------------------------
(* ScanRaw and AllRaw *)

\* Mutant: the block at the upper bound itself.
StartAtUpperBound(u) == IF u <= Len(index_) THEN index_[u].offset ELSE Len(data_)

ScanStart(u) == IF u = 1 THEN 0 ELSE index_[u - 1].offset

ScanRaw(start, end) ==
    /\ phase = "open" /\ rpc = "idle"
    /\ rpc' = IF index_ = <<>> THEN "scanned" ELSE "scan"
    /\ rkey' = start /\ rend' = end
    /\ start_offset' = ScanStart(UpperBound(start)) /\ pos' = start_offset'
    /\ bound' = Len(data_)
    /\ UNCHANGED <<writeVars, contents, phase, readerVars, examined, results, damage>>

AllRaw ==
    /\ phase = "open" /\ rpc = "idle"
    /\ rpc' = "all"
    /\ start_offset' = 0 /\ pos' = 0 /\ bound' = Len(data_)
    /\ UNCHANGED <<writeVars, contents, phase, readerVars, rkey, rend, examined, results, damage>>

ScanRecord ==
    LET r == data_[pos + 1] IN
    /\ rpc \in {"scan", "all"} /\ pos < bound /\ Decodes
    /\ IF rpc = "scan" /\ r.key >= rend
       THEN rpc' = "scanned" /\ UNCHANGED <<pos, results>>
       ELSE /\ pos' = pos + 1 /\ UNCHANGED rpc
            /\ results' = IF rpc = "scan" /\ r.key < rkey THEN results
                          ELSE Append(results, [key |-> r.key, entry |-> r.entry])
    /\ UNCHANGED <<writeVars, contents, phase, readerVars, rkey, rend, start_offset, bound,
                   examined, damage>>

ScanEnds ==
    /\ rpc \in {"scan", "all"} /\ pos = bound
    /\ rpc' = IF rpc = "scan" THEN "scanned" ELSE "listed"
    /\ UNCHANGED <<writeVars, contents, phase, readerVars, rkey, rend, results,
                   start_offset, pos, bound, examined, damage>>

\* "corrupt SSTable data block".
ReadThrows ==
    /\ rpc \in {"find", "scan", "all"} /\ pos < bound /\ ~Decodes
    /\ rpc' = "threw"
    /\ UNCHANGED <<writeVars, contents, phase, readerVars, rkey, rend, results,
                   start_offset, pos, bound, examined, damage>>

ReadReturns ==
    /\ rpc \in {"found", "scanned", "listed", "threw"}
    /\ rpc' = "idle" /\ rkey' = 0 /\ rend' = 0 /\ results' = <<>>
    /\ start_offset' = 0 /\ pos' = 0 /\ bound' = 0 /\ examined' = 0
    /\ UNCHANGED <<writeVars, contents, phase, readerVars, damage>>
-----------------------------------------------------------------------------
Next ==
    \/ WriteEntry \/ WriteFile \/ OpenReader \/ OpenThrows
    \/ \E i \in 1..Len(contents) : Damage(i)
    \/ \E k \in Probe : Find(k)
    \/ \E start, end \in Probe : ScanRaw(start, end)
    \/ AllRaw
    \/ FindRecord \/ FindEnds \/ ScanRecord \/ ScanEnds \/ ReadThrows \/ ReadReturns

Spec == Init /\ [][Next]_vars
-----------------------------------------------------------------------------
\* Every variable has the type its C++ counterpart has; a read stays inside
\* the data section and the index points into it.
TypeOK ==
    /\ entries \in Table
    /\ data \in Seq(DataCell) /\ sparse_index \in Seq(IndexCell)
    /\ contents \in Seq(DataCell \cup IndexCell \cup {[Footer EXCEPT !.ok = b] : b \in BOOLEAN})
    /\ phase \in {"writing", "written", "open", "rejected"}
    /\ data_ \in Seq(DataCell) /\ index_ \in Seq(IndexCell)
    /\ \A j \in 1..Len(index_) : index_[j].offset < Len(data_)
    /\ rpc \in {"idle", "find", "scan", "all", "found", "scanned", "listed", "threw"}
    /\ rkey \in Probe \cup {0} /\ rend \in Probe \cup {0}
    /\ start_offset \in 0..pos /\ pos \in 0..bound /\ bound \in 0..Len(data_)
    /\ examined \in Nat
    /\ results \in Seq([key : Key, entry : Entry]) /\ damage \in 0..MaxDamage

Answer(k) == IF k \in Key /\ entries[k] # Absent THEN <<[key |-> k, entry |-> entries[k]]>>
             ELSE <<>>

\* The sparse-index search and the walk through one block (sstable.cpp:139)
\* find the entry of a key if the table has one and nothing otherwise, at the
\* first key, at multiples of the interval, in the last block and between keys,
\* and no damage in the file changes the answer.
FindIsExact == rpc = "found" => results = Answer(rkey)

\* DESIGN.md:129: "exactly one ~16-entry block as the only place the key could
\* be, then linearly scan just that block": a lookup decodes at most
\* kSparseIndexInterval records, however large the table is.
FindReadsOneBlock == examined <= kSparseIndexInterval

\* results holds, in ascending order and each once, the entries of the keys
\* in S.
Lists(S) ==
    /\ {results[i] : i \in 1..Len(results)} =
          {[key |-> k, entry |-> entries[k]] : k \in {j \in S : entries[j] # Absent}}
    /\ \A i, j \in 1..Len(results) : i < j => results[i].key < results[j].key

\* "Every entry (tombstones included) with start <= key < end, in ascending
\* key order" (sstable.h:53), and the whole table for AllRaw (sstable.h:58),
\* for ranges that start and end anywhere.
ScanIsExact ==
    /\ rpc = "scanned" => Lists({k \in Key : rkey <= k /\ k < rend})
    /\ rpc = "listed" => Lists(Key)

\* DecodeRecord's status decides every read (sstable.cpp:162, 190, 209): a
\* read that throws has come to a damaged record, the first on its way, and
\* one that returns, found or not, has decoded intact records only, the one it
\* stopped at included.  So damage is neither served, nor skipped, nor the
\* reason to reject a read that never came to it.
ThrowsOnlyOnDamage ==
    /\ rpc = "threw" =>
          /\ pos < bound /\ ~contents[pos + 1].ok
          /\ \A i \in start_offset + 1 .. pos : contents[i].ok
    /\ rpc \in {"found", "scanned", "listed"} =>
          \A i \in start_offset + 1 .. bound : i <= pos + 1 => contents[i].ok
=============================================================================
