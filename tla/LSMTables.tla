----------------------------- MODULE LSMTables -----------------------------
(***************************************************************************)
(* The data of the store and the pure functions on it: the entries of one  *)
(* MemTable or SSTable, the "newest wins" rule that get, scan and the      *)
(* merge of a compaction share, and what WAL replay rebuilds.              *)
(*                                                                         *)
(* A table maps every key to an entry, a live value or a tombstone, or to  *)
(* Absent when it holds nothing for the key.  An SSTable keeps the number  *)
(* in its file name with its entries.  The WAL is a sequence of records in *)
(* file order; Torn stands for any run of bytes DecodeRecord rejects       *)
(* (kIncomplete or kCorrupt: a prefix of a record, or bytes whose checksum *)
(* does not match).                                                        *)
(***************************************************************************)
EXTENDS Integers, Sequences, FiniteSetsExt

CONSTANTS
    Key,        \* keys, as integers: the code orders them by operator<
    Value,      \* values a put may store
    Tombstone,  \* Entry{"", is_tombstone = true}
    Absent,     \* no entry in a table; std::nullopt as an answer
    Torn,       \* bytes at the end of the valid part of the WAL that do not decode
    KeyLen,     \* key.size()
    ValueLen    \* value.size()

Entry == Value \cup {Tombstone}
Table == [Key -> Entry \cup {Absent}]
SSTable == [number : Nat, entries : Table]
WalRecord == [key : Key, entry : Entry]

ASSUME DataAssumption ==
    /\ Key \subseteq Int
    /\ Tombstone \notin Value
    /\ Absent \notin Value \cup {Tombstone}

ASSUME TornAssumption == Torn \notin [key : Key, entry : Value \cup {Tombstone}]

ASSUME LengthAssumption == KeyLen \in [Key -> Nat] /\ ValueLen \in [Value -> Nat]

EmptyTable == [k \in Key |-> Absent]

-----------------------------------------------------------------------------
(* MemTable *)

EntrySize(k, e) == KeyLen[k] + (IF e = Tombstone THEN 0 ELSE ValueLen[e])

\* The bytes of a table's keys and values, one by one.
BytesOf(k, e) == {k} \X (1 .. EntrySize(k, e))
BytesIn(t) == UNION {BytesOf(k, t[k]) : k \in {j \in Key : t[j] # Absent}}

\* approximate_size_bytes_, which the code keeps incrementally.
ApproximateSize(t) == Cardinality(BytesIn(t))

Upsert(t, k, e) == [t EXCEPT ![k] = e]

-----------------------------------------------------------------------------
(* Reading through the layers *)

\* Mutant: is_tombstone is not looked at.
Raw(e) == e

\* What the caller sees of an entry: tombstones and misses are both nullopt.
Optional(e) == IF e = Tombstone THEN Absent ELSE e

\* The entry of k in the last table of the list that has one.
Newest(ssts, k) ==
    LET hits == {i \in 1..Len(ssts) : ssts[i].entries[k] # Absent}
    IN  IF hits = {} THEN Absent ELSE ssts[Max(hits)].entries[k]

\* The answer of a get that is not disturbed.
Lookup(mem, ssts, k) ==
    IF mem[k] # Absent THEN Optional(mem[k]) ELSE Optional(Newest(ssts, k))

MergeSSTables(ssts) == [k \in Key |-> Newest(ssts, k)]

DropTombstones(t) == [k \in Key |-> IF t[k] = Tombstone THEN Absent ELSE t[k]]

-----------------------------------------------------------------------------
(* WAL replay *)

\* The records replay reaches: it stops at the first that does not decode.
Decodable(w) == {i \in 1..Len(w) : \A j \in 1..i : w[j] # Torn}

Replayed(w) ==
    [k \in Key |-> LET hits == {i \in Decodable(w) : w[i].key = k}
                   IN  IF hits = {} THEN Absent ELSE w[Max(hits)].entry]

\* The log after ftruncate(valid_end).
TruncateTail(w) == SubSeq(w, 1, Max(Decodable(w) \cup {0}))

-----------------------------------------------------------------------------
(* Directory contents: a function from file numbers to what the file holds *)

NoFiles == [n \in {} |-> Absent]
AddFile(d, n, x) == [m \in DOMAIN d \cup {n} |-> IF m = n THEN x ELSE d[m]]
RemoveFile(d, n) == [m \in DOMAIN d \ {n} |-> d[m]]

\* The entry of k in the highest-numbered file that has one.
NewestOnDisk(d, k) ==
    LET hits == {n \in DOMAIN d : d[n][k] # Absent}
    IN  IF hits = {} THEN Absent ELSE d[Max(hits)][k]

\* What a Database opened on this directory would answer for k.
Recovered(w, d, k) ==
    IF Replayed(w)[k] # Absent THEN Optional(Replayed(w)[k])
                               ELSE Optional(NewestOnDisk(d, k))
=============================================================================
