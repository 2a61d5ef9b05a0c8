------------------------------ MODULE MemTable ------------------------------
(***************************************************************************)
(* class MemTable with the size it keeps as it goes: table_ is a table of  *)
(* LSMTables, approximate_size_bytes_ an unsigned counter of SizeBits bits  *)
(* (size_t, 64 in the code).                                               *)
(***************************************************************************)
EXTENDS LSMTables

CONSTANT SizeBits

ASSUME SizeAssumption == SizeBits \in Nat /\ 2^SizeBits > 0

NewMemTable == [table_ |-> EmptyTable, approximate_size_bytes_ |-> 0]

Find(m, k) == m.table_[k]

\* Mutant: the size of an overwritten entry is not taken off.
KeepOldSize(m, k) == m.approximate_size_bytes_

\* The counter without the entry that is about to be overwritten.
DropOldSize(m, k) ==
    IF Find(m, k) = Absent THEN m.approximate_size_bytes_
    ELSE (m.approximate_size_bytes_ - EntrySize(k, Find(m, k))) % 2^SizeBits

UpsertSized(m, k, e) ==
    [table_ |-> Upsert(m.table_, k, e),
     approximate_size_bytes_ |-> (DropOldSize(m, k) + EntrySize(k, e)) % 2^SizeBits]

\* The counter kept by additions and subtractions (memtable.cpp:19-28) is the
\* sum over every entry of the table, the key of a tombstone included, as
\* memtable_test.cpp:122-128 expects ("tombstone: 3 + 0 = 3").  The comment at
\* memtable.h:51, "Sum of every live entry's key+value size", is not what the
\* code does: live is "non-tombstone" at memtable.h:37.
HasExactSize(m) == m.approximate_size_bytes_ = ApproximateSize(m.table_)
=============================================================================
