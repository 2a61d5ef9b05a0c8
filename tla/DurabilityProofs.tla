-------------------------- MODULE DurabilityProofs --------------------------
(***************************************************************************)
(* What the directory holds while a process is live, for any keys, values, *)
(* thresholds and bounds: every open table has its file, a process death   *)
(* loses no acknowledged write outside the window of Overtaken, and        *)
(* Database implements KVStore.                                            *)
(***************************************************************************)
EXTENDS DatabaseProofs

USE DEF PushBack, NextNumber, CompactionIsDue, NothingToMerge, MergedList,
        OldPaths, SwapLock

-----------------------------------------------------------------------------
(* The inductive invariant, beyond DatabaseInv *)

Merging == {"create", "fill", "rename", "swap"}

\* The files of a compaction: its new file has a number of its own, above
\* those of the snapshot; the files it still has to delete are the last ones
\* of the snapshot, in the order of the list, and no longer in use.
MergeInv ==
    /\ cpc \in Merging =>
          /\ \A i \in 1..Len(sstables) : sstables[i].number # compacted_number
          /\ \A i \in 1..Len(to_compact) : to_compact[i].number < compacted_number
    /\ cpc = "delete" =>
          /\ Len(sstables) > 0
          /\ sstables[1] = [number |-> compacted_number,
                            entries |-> DropTombstones(MergeSSTables(to_compact))]
          /\ \A i \in 1..Len(sstables), j \in 1..Len(old_paths) :
                sstables[i].number # old_paths[j]
          /\ Len(old_paths) <= Len(to_compact)
          /\ \A j \in 1..Len(old_paths) :
                LET t == to_compact[Len(to_compact) - Len(old_paths) + j]
                IN  /\ old_paths[j] = t.number /\ t.number < compacted_number
                    /\ t.number \in DOMAIN disk /\ disk[t.number] = t.entries
          /\ \A i, j \in 1..Len(old_paths) : old_paths[i] = old_paths[j] => i = j

\* What a flush that failed after its rename leaves under the next number, or
\* under the number a compaction has taken since: nothing the MemTable or a
\* newer table does not have as well.
SparesInv ==
    Live =>
        /\ \A n \in DOMAIN disk : n <= next_sstable_number
        /\ next_sstable_number \in DOMAIN disk =>
              /\ wpc # "reset"
              /\ \A k \in Key : disk[next_sstable_number][k] # Absent => memtable[k] # Absent
        /\ wpc = "reset" => next_sstable_number = sstables[Len(sstables)].number + 1
        /\ cpc \in {"create", "fill", "rename"} /\ compacted_number \in DOMAIN disk =>
              \A k \in Key : disk[compacted_number][k] # Absent =>
                  \/ memtable[k] # Absent
                  \/ \E i \in 1..Len(sstables) : /\ sstables[i].number > compacted_number
                                                 /\ sstables[i].entries[k] # Absent

FilesInv == OpenTablesAreOnDisk /\ MergeInv /\ SparesInv

\* Every file is accounted for, unless removing one may fail.
Doomed == IF cpc = "delete" THEN {old_paths[j] : j \in 1..Len(old_paths)} ELSE {}
Coming == IF cpc \in Merging THEN {compacted_number} ELSE {}

DirectoryIsKnown ==
    Live => DOMAIN disk \subseteq Opened \cup Doomed \cup Coming \cup {next_sstable_number}

\* The log replays to the MemTable, or to the MemTable after the write in
\* progress, unless an append may fail.
LogInv ==
    Live =>
        /\ \A i \in 1..Len(wal) : wal[i] = Torn => wpc = "appending" /\ i = Len(wal)
        /\ wpc = "appending" => Len(wal) > 0 /\ wal[Len(wal)] = Torn
        /\ Replayed(wal) = IF wpc = "fsync" THEN Upsert(memtable, wkey, wentry) ELSE memtable

\* A write in progress is one of the pending ones.
PendingInv == wpc \in {"append", "appending", "fsync"} => Optional(wentry) \in pending[wkey]

-----------------------------------------------------------------------------
(* The list before and after the steps that change it *)

\* The parts of the state the proofs below compute with.
LEMMA ListTypes ==
    ASSUME TypeOK
    PROVE  /\ sstables \in Seq(SSTable) /\ to_compact \in Seq(SSTable) /\ old_paths \in Seq(Nat)
           /\ Len(sstables) \in Nat /\ Len(to_compact) \in Nat /\ Len(old_paths) \in Nat
           /\ next_sstable_number \in Nat /\ compacted_number \in Nat
           /\ DOMAIN disk \subseteq Nat
           /\ \A i \in 1..Len(sstables) : sstables[i].number \in Nat
           /\ \A i \in 1..Len(to_compact) : to_compact[i].number \in Nat
           /\ \A j \in 1..Len(old_paths) : old_paths[j] \in Nat
<1>1. /\ sstables \in Seq(SSTable) /\ to_compact \in Seq(SSTable) /\ old_paths \in Seq(Nat)
      /\ next_sstable_number \in Nat /\ compacted_number \in Nat
      /\ DOMAIN disk \subseteq Nat
  BY DEF TypeOK, IsDirectory
<1>2. \A i \in 1..Len(sstables) : sstables[i].number \in Nat
  BY <1>1, ElementType
<1>3. \A i \in 1..Len(to_compact) : to_compact[i].number \in Nat
  BY <1>1, ElementType
<1> QED
  BY <1>1, <1>2, <1>3

\* A flush adds the MemTable at the back, under a number never used before.
LEMMA FlushOpenList ==
    ASSUME DatabaseInv, FlushOpen
    PROVE  /\ Len(sstables') = Len(sstables) + 1
           /\ sstables'[Len(sstables) + 1] = [number |-> next_sstable_number, entries |-> memtable]
           /\ \A i \in 1..Len(sstables) : sstables'[i] = sstables[i]
           /\ next_sstable_number \in DOMAIN disk /\ disk[next_sstable_number] = memtable
           /\ next_sstable_number' = next_sstable_number + 1
           /\ wpc' = "reset"
           /\ UNCHANGED <<wal, disk, phase, memtable, cpc, to_compact, compacted_number, old_paths>>
<1>1. TypeOK /\ WriterInv
  BY DEF DatabaseInv
<1>2. next_sstable_number \in DOMAIN disk /\ disk[next_sstable_number] = memtable
  BY <1>1 DEF FlushOpen, WriterInv
<1> DEFINE t == [number |-> next_sstable_number, entries |-> memtable]
<1>3. sstables' = Append(sstables, t)
  BY <1>2 DEF FlushOpen
<1>4. sstables \in Seq(SSTable) /\ t \in SSTable
  BY <1>1 DEF TypeOK, SSTable
<1> HIDE DEF t
<1>5. /\ Len(sstables') = Len(sstables) + 1 /\ sstables'[Len(sstables) + 1] = t
      /\ \A i \in 1..Len(sstables) : sstables'[i] = sstables[i]
  BY <1>3, <1>4
<1> QED
  BY <1>2, <1>5 DEF FlushOpen, walVars, fileVars, compactorVars, t

\* A swap puts the merged table in the place of the snapshot.
LEMMA SwapList ==
    ASSUME DatabaseInv, CompactSwap
    PROVE  /\ Len(to_compact) \in 1..Len(sstables)
           /\ \A i \in 1..Len(to_compact) : to_compact[i] = sstables[i]
           /\ Len(sstables') = Len(sstables) - Len(to_compact) + 1
           /\ sstables'[1] = [number |-> compacted_number,
                              entries |-> DropTombstones(MergeSSTables(to_compact))]
           /\ \A i \in 2..Len(sstables') : sstables'[i] = sstables[Len(to_compact) + i - 1]
           /\ Len(old_paths') = Len(to_compact)
           /\ \A j \in 1..Len(to_compact) : old_paths'[j] = to_compact[j].number
           /\ compacted_number \in DOMAIN disk
           /\ disk[compacted_number] = DropTombstones(MergeSSTables(to_compact))
           /\ cpc = "swap" /\ cpc' = "delete" /\ wpc = "idle"
           /\ UNCHANGED <<wal, disk, phase, memtable, next_sstable_number, wpc, to_compact,
                          compacted_number>>
<1>1. TypeOK /\ SnapshotIsPrefix /\ CompactorInv
  BY DEF DatabaseInv
<1>2. /\ cpc = "swap" /\ cpc' = "delete" /\ wpc = "idle"
      /\ UNCHANGED <<wal, disk, phase, memtable, next_sstable_number, wpc, to_compact,
                     compacted_number>>
  BY DEF CompactSwap, CanLockExclusive, walVars, fileVars, writerVars
<1>3. /\ sstables \in Seq(SSTable) /\ Len(sstables) \in Nat /\ Len(to_compact) \in Nat
      /\ Len(to_compact) > 0 /\ Len(to_compact) <= Len(sstables)
      /\ \A i \in 1..Len(to_compact) : to_compact[i] = sstables[i]
  BY <1>1, <1>2, ListTypes DEF SnapshotIsPrefix, CompactorInv
<1>4. /\ compacted_number \in DOMAIN disk
      /\ disk[compacted_number] = DropTombstones(MergeSSTables(to_compact))
  BY <1>1, <1>2 DEF CompactorInv
<1> DEFINE n == Len(to_compact)
           t == [number |-> compacted_number,
                 entries |-> DropTombstones(MergeSSTables(to_compact))]
           rest == SubSeq(sstables, n + 1, Len(sstables))
<1>5. /\ n \in 1..Len(sstables)
      /\ rest \in Seq(SSTable) /\ Len(rest) = Len(sstables) - n
      /\ \A i \in 1..Len(rest) : rest[i] = sstables[n + i]
  BY <1>3
<1>6. sstables' = <<t>> \o rest
  BY <1>4 DEF CompactSwap
<1>7. old_paths' = [i \in 1..n |-> sstables[i].number]
  BY DEF CompactSwap
<1>8. Len(old_paths') = n /\ \A j \in 1..n : old_paths'[j] = to_compact[j].number
  BY <1>3, <1>7
<1>t. t \in SSTable
  <2>1. compacted_number \in Nat /\ disk[compacted_number] \in Table
    BY <1>1, <1>2, <1>4, ListTypes DEF TypeOK, CompactorInv, IsDirectory
  <2> QED
    BY <1>4, <2>1 DEF SSTable
<1> HIDE DEF n, t, rest
<1>9. /\ Len(sstables') = 1 + Len(rest) /\ sstables'[1] = t
      /\ \A i \in 2..Len(sstables') : sstables'[i] = rest[i - 1]
  <2>1. <<t>> \in Seq(SSTable) /\ Len(<<t>>) = 1 /\ <<t>>[1] = t /\ Len(rest) \in Nat
    BY <1>3, <1>5, <1>t
  <2>2. /\ Len(sstables') = Len(<<t>>) + Len(rest)
        /\ \A i \in 1 .. Len(<<t>>) + Len(rest) :
              sstables'[i] = IF i <= Len(<<t>>) THEN <<t>>[i] ELSE rest[i - Len(<<t>>)]
    BY <1>5, <1>6, <2>1, ConcatProperties
  <2> QED
    BY <2>1, <2>2
<1>10. ASSUME NEW i \in 2..Len(sstables') PROVE sstables'[i] = sstables[n + i - 1]
  <2>1. n \in Nat /\ Len(rest) \in Nat /\ i - 1 \in 1..Len(rest) /\ n + (i - 1) = n + i - 1
    BY <1>3, <1>5, <1>9
  <2> QED
    BY <1>5, <1>9, <2>1
<1>11. Len(sstables') = Len(sstables) - n + 1
  BY <1>3, <1>5, <1>9
<1> QED
  BY <1>2, <1>3, <1>4, <1>5, <1>8, <1>9, <1>10, <1>11 DEF n, t

-----------------------------------------------------------------------------
(* Open tables and their files *)

\* Adding a file under a number that no open table has.
LEMMA AddOtherFile ==
    ASSUME OpenTablesAreOnDisk, NEW n, NEW x, disk' = AddFile(disk, n, x), sstables' = sstables,
           \A i \in 1..Len(sstables) : sstables[i].number # n
    PROVE  OpenTablesAreOnDisk'
  BY DEF OpenTablesAreOnDisk, AddFile

\* No step takes the file from under an open table.
LEMMA OpenTablesStep == DatabaseInv /\ FilesInv /\ [Next]_vars => OpenTablesAreOnDisk'
<1> SUFFICES ASSUME DatabaseInv, FilesInv, [Next]_vars PROVE OpenTablesAreOnDisk'
  OBVIOUS
<1>t. TypeOK /\ NumbersInv /\ OpenTablesAreOnDisk /\ MergeInv
  BY DEF DatabaseInv, FilesInv
<1>n. /\ Len(sstables) \in Nat /\ next_sstable_number \in Nat
      /\ \A i \in 1..Len(sstables) : /\ sstables[i].number \in Nat
                                     /\ sstables[i].number # next_sstable_number
  BY <1>t, ListTypes DEF NumbersInv
<1>1. CASE UNCHANGED <<disk, sstables>>
  BY <1>t, <1>1 DEF OpenTablesAreOnDisk
<1>2. CASE FlushRename
  BY <1>t, <1>n, <1>2, AddOtherFile DEF FlushRename, RenameTmp, tableVars
<1>3. CASE FlushOpen
  <2>1. /\ Len(sstables') = Len(sstables) + 1 /\ disk' = disk
        /\ sstables'[Len(sstables) + 1].number = next_sstable_number
        /\ sstables'[Len(sstables) + 1].entries = disk[next_sstable_number]
        /\ next_sstable_number \in DOMAIN disk
        /\ \A i \in 1..Len(sstables) : sstables'[i] = sstables[i]
    BY <1>3, FlushOpenList
  <2>2. \A i \in 1..Len(sstables') : i \in 1..Len(sstables) \/ i = Len(sstables) + 1
    BY <1>n, <2>1
  <2>3. ASSUME NEW i \in 1..Len(sstables')
        PROVE  sstables'[i].number \in DOMAIN disk /\ disk[sstables'[i].number] = sstables'[i].entries
    <3>1. CASE i \in 1..Len(sstables)
      BY <1>t, <2>1, <3>1 DEF OpenTablesAreOnDisk
    <3> QED
      BY <2>1, <2>2, <3>1
  <2>4. ASSUME NEW i \in 1..Len(sstables'), NEW j \in 1..Len(sstables'),
               sstables'[i].number = sstables'[j].number
        PROVE  i = j
    <3>1. CASE i \in 1..Len(sstables) /\ j \in 1..Len(sstables)
      BY <1>t, <2>1, <2>4, <3>1 DEF OpenTablesAreOnDisk
    <3> QED
      BY <1>n, <2>1, <2>2, <2>4, <3>1
  <2> QED
    BY <2>1, <2>3, <2>4 DEF OpenTablesAreOnDisk
<1>4. CASE CompactRename
  BY <1>t, <1>4, AddOtherFile DEF CompactRename, RenameTmp, tableVars, MergeInv, Merging
<1>5. CASE CompactSwap
  <2> DEFINE n == Len(to_compact)
  <2>1. /\ n \in 1..Len(sstables) /\ Len(sstables') = Len(sstables) - n + 1 /\ disk' = disk
        /\ sstables'[1].number = compacted_number
        /\ sstables'[1].entries = disk[compacted_number] /\ compacted_number \in DOMAIN disk
        /\ \A i \in 2..Len(sstables') : sstables'[i] = sstables[n + i - 1]
    BY <1>5, SwapList
  <2>2. \A i \in 1..Len(sstables) : sstables[i].number # compacted_number
    BY <1>t, <1>5 DEF CompactSwap, MergeInv, Merging
  <2> HIDE DEF n
  <2>3. ASSUME NEW i \in 2..Len(sstables')
        PROVE  n + i - 1 \in 1..Len(sstables) /\ sstables'[i] = sstables[n + i - 1]
    BY <1>n, <2>1
  <2>4. ASSUME NEW i \in 1..Len(sstables') PROVE i = 1 \/ i \in 2..Len(sstables')
    BY <1>n, <2>1
  <2>5. ASSUME NEW i \in 1..Len(sstables')
        PROVE  sstables'[i].number \in DOMAIN disk' /\ disk'[sstables'[i].number] = sstables'[i].entries
    <3>1. CASE i \in 2..Len(sstables')
      <4>1. n + i - 1 \in 1..Len(sstables) /\ sstables'[i] = sstables[n + i - 1]
        BY <2>3, <3>1
      <4> QED
        BY <1>t, <2>1, <4>1 DEF OpenTablesAreOnDisk
    <3> QED
      BY <2>1, <2>4, <3>1
  <2>6. ASSUME NEW i \in 1..Len(sstables'), NEW j \in 1..Len(sstables'),
               sstables'[i].number = sstables'[j].number
        PROVE  i = j
    <3>1. CASE i \in 2..Len(sstables') /\ j \in 2..Len(sstables')
      <4> DEFINE a == n + i - 1
                 b == n + j - 1
      <4>1. /\ a \in 1..Len(sstables) /\ sstables'[i] = sstables[a]
            /\ b \in 1..Len(sstables) /\ sstables'[j] = sstables[b]
        BY <2>3, <3>1
      <4> HIDE DEF a, b
      <4>2. a = b
        BY <1>t, <2>6, <4>1 DEF OpenTablesAreOnDisk
      <4>3. n + i - 1 = n + j - 1
        BY <4>2 DEF a, b
      <4> QED
        BY <1>n, <2>1, <4>3
    <3>2. CASE i = 1 /\ j \in 2..Len(sstables')
      BY <2>1, <2>2, <2>3, <2>6, <3>2
    <3>3. CASE j = 1 /\ i \in 2..Len(sstables')
      BY <2>1, <2>2, <2>3, <2>6, <3>3
    <3> QED
      BY <2>4, <3>1, <3>2, <3>3
  <2> QED
    BY <2>5, <2>6 DEF OpenTablesAreOnDisk
<1>6. CASE CompactDelete
  <2>1. Len(old_paths) > 0 /\ old_paths \in Seq(Nat)
    BY <1>t, <1>6, ListTypes DEF CompactDelete, DatabaseInv, CompactorInv
  <2>2. Head(old_paths) = old_paths[1] /\ 1 \in 1..Len(old_paths)
    BY <2>1
  <2>3. \A i \in 1..Len(sstables) : sstables[i].number # Head(old_paths)
    BY <1>t, <1>6, <2>2 DEF CompactDelete, MergeInv
  <2>4. disk' = disk \/ disk' = RemoveFile(disk, Head(old_paths))
    BY <1>6 DEF CompactDelete
  <2>5. sstables' = sstables
    BY <1>6 DEF CompactDelete, tableVars
  <2> QED
    BY <1>t, <1>1, <2>3, <2>4, <2>5 DEF OpenTablesAreOnDisk, RemoveFile
<1>7. CASE ProcessEnds
  BY <1>7 DEF ProcessEnds, OpenTablesAreOnDisk
<1>8. CASE OpenTable
  <2>1. phase' = "opening"
    BY <1>8 DEF OpenTable
  <2>2. OpeningInv' /\ TypeOK'
    BY RestStep, TypeStep
  <2>3. Len(sstables') \in Nat /\ \A i \in 1..Len(sstables') : sstables'[i].number \in Nat
    <3>1. sstables' \in Seq(SSTable)
      BY <2>2 DEF TypeOK
    <3> QED
      BY <3>1, ElementType
  <2>4. \A i, j \in 1..Len(sstables') : i < j => sstables'[i].number < sstables'[j].number
    BY <2>1, <2>2 DEF OpeningInv
  <2>5. \A i, j \in 1..Len(sstables') : sstables'[i].number = sstables'[j].number => i = j
    BY <2>3, <2>4
  <2> QED
    BY <2>1, <2>2, <2>5 DEF OpeningInv, OpenTablesAreOnDisk
<1>9. ASSUME NEW k \in Key, NEW e \in Entry, BeginWrite(k, e) PROVE OpenTablesAreOnDisk'
  BY <1>1, <1>9 DEF BeginWrite, fileVars, tableVars
<1>10. CASE WriterNext
  BY <1>1, <1>2, <1>3, <1>10 DEF WriterNext, AppendPart, AppendRest, AppendThrows, ApplyToMemTable,
     FlushCreate, FlushFill, FlushReset, FlushThrows, CreateTmp, FillTmp, fileVars, tableVars
<1>11. CASE CompactorNext
  BY <1>1, <1>4, <1>5, <1>6, <1>11 DEF CompactorNext, StartCompaction, CompactSnapshot,
     CompactMerge, CompactCreate, CompactFill, CreateTmp, FillTmp, fileVars, tableVars
<1>12. CASE ReadStep \/ Close \/ Open \/ OpenReplay
  BY <1>1, <1>12 DEF ReadStep, Close, Open, OpenReplay, fileVars, tableVars
<1> QED
  BY <1>7, <1>8, <1>9, <1>10, <1>11, <1>12, Steps

\* The compaction keeps its numbers, and its old files until it deletes them.
LEMMA MergeStep == DatabaseInv /\ FilesInv /\ [Next]_vars => MergeInv'
<1> SUFFICES ASSUME DatabaseInv, FilesInv, [Next]_vars PROVE MergeInv'
  OBVIOUS
<1>t. /\ TypeOK /\ NumbersInv /\ CompactorInv /\ SnapshotIsPrefix
      /\ OpenTablesAreOnDisk /\ MergeInv
  BY DEF DatabaseInv, FilesInv
<1>n. /\ Len(sstables) \in Nat /\ Len(to_compact) \in Nat /\ Len(old_paths) \in Nat
      /\ next_sstable_number \in Nat /\ compacted_number \in Nat
      /\ \A i \in 1..Len(sstables) : sstables[i].number \in Nat
      /\ \A j \in 1..Len(old_paths) : old_paths[j] \in Nat
      /\ old_paths \in Seq(Nat)
  BY <1>t, ListTypes
<1>1. CASE UNCHANGED <<disk, sstables, cpc, to_compact, compacted_number, old_paths>>
  BY <1>t, <1>1 DEF MergeInv
<1>2. CASE cpc' \in {"wait", "snapshot", "merge"}
  BY <1>2 DEF MergeInv, Merging
<1>3. CASE FlushRename
  <2>1. /\ disk' = AddFile(disk, next_sstable_number, tmp[next_sstable_number])
        /\ UNCHANGED <<sstables, cpc, to_compact, compacted_number, old_paths>>
    BY <1>3 DEF FlushRename, RenameTmp, tableVars, compactorVars
  <2>2. cpc = "delete" => \A j \in 1..Len(old_paths) : old_paths[j] # next_sstable_number
    BY <1>t, <1>n DEF CompactorInv
  <2> QED
    BY <1>t, <2>1, <2>2 DEF MergeInv, AddFile
<1>4. CASE FlushOpen
  <2>1. /\ Len(sstables') = Len(sstables) + 1
        /\ sstables'[Len(sstables) + 1].number = next_sstable_number
        /\ \A i \in 1..Len(sstables) : sstables'[i] = sstables[i]
        /\ UNCHANGED <<disk, cpc, to_compact, compacted_number, old_paths>>
    BY <1>4, FlushOpenList
  <2>2. ASSUME NEW m \in Nat, m < next_sstable_number,
               \A i \in 1..Len(sstables) : sstables[i].number # m,
               NEW i \in 1..Len(sstables')
        PROVE  sstables'[i].number # m
    <3>1. i \in 1..Len(sstables) \/ i = Len(sstables) + 1
      BY <1>n, <2>1
    <3> QED
      BY <1>n, <2>1, <2>2, <3>1
  <2>3. CASE cpc \in Merging
    <3>1. compacted_number < next_sstable_number
      BY <1>t, <2>3 DEF CompactorInv, Merging
    <3> QED
      BY <1>t, <1>n, <2>1, <2>2, <2>3, <3>1 DEF MergeInv, Merging
  <2>4. CASE cpc = "delete"
    <3>1. \A j \in 1..Len(old_paths) : old_paths[j] < next_sstable_number
      BY <1>t, <2>4 DEF CompactorInv
    <3>2. Len(sstables') > 0 /\ sstables'[1] = sstables[1]
      BY <1>t, <1>n, <2>1, <2>4 DEF MergeInv
    <3>3. \A i \in 1..Len(sstables'), j \in 1..Len(old_paths) : sstables'[i].number # old_paths[j]
      BY <1>t, <1>n, <2>2, <2>4, <3>1 DEF MergeInv
    <3> QED
      BY <1>t, <2>1, <2>4, <3>2, <3>3 DEF MergeInv, Merging
  <2> QED
    BY <2>1, <2>3, <2>4 DEF MergeInv
<1>5. CASE CompactMerge
  <2>1. /\ compacted_number' = next_sstable_number /\ cpc = "merge" /\ cpc' = "create"
        /\ UNCHANGED <<sstables, to_compact>>
    BY <1>5 DEF CompactMerge
  <2>2. \A i \in 1..Len(sstables) : sstables[i].number # next_sstable_number
    BY <1>t, <1>n DEF NumbersInv
  <2>3. \A i \in 1..Len(to_compact) : to_compact[i].number < next_sstable_number
    <3>1. /\ Len(to_compact) <= Len(sstables)
          /\ \A i \in 1..Len(to_compact) : to_compact[i] = sstables[i]
      BY <1>t, <2>1 DEF SnapshotIsPrefix
    <3>2. \A i \in 1..Len(to_compact) : i \in 1..Len(sstables)
      BY <1>n, <3>1
    <3> QED
      BY <1>t, <3>1, <3>2 DEF NumbersInv
  <2> QED
    BY <2>1, <2>2, <2>3 DEF MergeInv, Merging
<1>6. CASE CompactCreate \/ CompactFill \/ CompactRename
  <2>1. /\ cpc \in Merging /\ cpc' \in {"fill", "rename", "swap"}
        /\ UNCHANGED <<sstables, to_compact, compacted_number>>
    BY <1>6 DEF CompactCreate, CompactFill, CompactRename, tableVars, Merging
  <2> QED
    BY <1>t, <2>1 DEF MergeInv, Merging
<1>7. CASE CompactSwap
  <2> DEFINE n == Len(to_compact)
  <2>1. /\ n \in 1..Len(sstables) /\ Len(sstables') = Len(sstables) - n + 1
        /\ \A i \in 1..n : to_compact[i] = sstables[i]
        /\ sstables'[1] = [number |-> compacted_number,
                           entries |-> DropTombstones(MergeSSTables(to_compact))]
        /\ \A i \in 2..Len(sstables') : sstables'[i] = sstables[n + i - 1]
        /\ Len(old_paths') = n /\ \A j \in 1..n : old_paths'[j] = to_compact[j].number
        /\ cpc = "swap" /\ cpc' = "delete"
        /\ UNCHANGED <<disk, to_compact, compacted_number>>
    BY <1>7, SwapList
  <2>2. /\ \A i \in 1..Len(sstables) : sstables[i].number # compacted_number
        /\ \A i \in 1..n : to_compact[i].number < compacted_number
    BY <1>t, <2>1 DEF MergeInv, Merging
  <2> HIDE DEF n
  <2>n. n \in Nat /\ n > 0 /\ \A i \in 1..n : i \in 1..Len(sstables)
    BY <1>n, <2>1
  <2>3. Len(sstables') > 0
    BY <1>n, <2>1
  <2>4. ASSUME NEW i \in 1..Len(sstables'), NEW j \in 1..n
        PROVE  sstables'[i].number # old_paths'[j]
    <3>1. old_paths'[j] = sstables[j].number /\ j \in 1..Len(sstables)
      BY <2>1, <2>n
    <3>2. CASE i = 1
      BY <2>1, <2>2, <3>1, <3>2
    <3>3. CASE i # 1
      <4> DEFINE a == n + i - 1
      <4>1. a \in 1..Len(sstables) /\ a # j /\ i \in 2..Len(sstables')
        BY <1>n, <2>1, <2>n, <3>3
      <4>2. sstables'[i] = sstables[a]
        BY <2>1, <4>1
      <4> HIDE DEF a
      <4> QED
        BY <1>t, <3>1, <4>1, <4>2 DEF OpenTablesAreOnDisk
    <3> QED
      BY <3>2, <3>3
  <2>5. ASSUME NEW j \in 1..n
        PROVE  LET t == to_compact[n - n + j]
               IN  /\ old_paths'[j] = t.number /\ t.number < compacted_number
                   /\ t.number \in DOMAIN disk /\ disk[t.number] = t.entries
    <3>1. n - n + j = j
      BY <2>n
    <3>2. j \in 1..Len(sstables) /\ to_compact[j] = sstables[j]
      BY <2>1, <2>n
    <3> QED
      BY <1>t, <2>1, <2>2, <3>1, <3>2 DEF OpenTablesAreOnDisk
  <2>6. ASSUME NEW i \in 1..n, NEW j \in 1..n, old_paths'[i] = old_paths'[j] PROVE i = j
    <3>1. /\ i \in 1..Len(sstables) /\ old_paths'[i] = sstables[i].number
          /\ j \in 1..Len(sstables) /\ old_paths'[j] = sstables[j].number
      BY <2>1, <2>n
    <3> QED
      BY <1>t, <2>6, <3>1 DEF OpenTablesAreOnDisk
  <2>7. Len(to_compact') = n /\ n <= n
    BY <2>1, <2>n DEF n
  <2> QED
    BY <2>1, <2>3, <2>4, <2>5, <2>6, <2>7 DEF MergeInv, Merging
<1>8. CASE CompactDelete
  <2>1. cpc = "delete" /\ old_paths' = Tail(old_paths) /\ UNCHANGED <<sstables, compacted_number>>
    BY <1>8 DEF CompactDelete, tableVars
  <2>2. Len(old_paths) > 0
    BY <1>t, <2>1 DEF CompactorInv
  <2>3. CASE Len(old_paths) = 1
    BY <1>2, <1>8, <2>3 DEF CompactDelete
  <2>4. CASE Len(old_paths) # 1
    <3> DEFINE m == Len(old_paths)
               n == Len(to_compact)
    <3>0. m \in Nat /\ m > 1
      <4>1. \A x \in Nat : x > 0 /\ x # 1 => x > 1
        OBVIOUS
      <4> QED
        BY <1>n, <2>2, <2>4, <4>1
    <3>1. /\ m \in Nat /\ m > 1 /\ Len(Tail(old_paths)) = m - 1
          /\ \A j \in 1..(m - 1) : Tail(old_paths)[j] = old_paths[j + 1]
          /\ Head(old_paths) = old_paths[1]
      BY <1>n, <3>0
    <3>2. cpc' = "delete" /\ to_compact' = to_compact
      BY <1>8, <2>1, <2>4 DEF CompactDelete
    <3>3. \A j \in 1..(m - 1) : j + 1 \in 1..m /\ j + 1 # 1 /\ n - (m - 1) + j = n - m + (j + 1)
      BY <1>n, <3>1
    <3>4. \A x \in DOMAIN disk : x # old_paths[1] => x \in DOMAIN disk' /\ disk'[x] = disk[x]
      BY <1>8, <3>1 DEF CompactDelete, RemoveFile
    <3>5. /\ Len(sstables) > 0
          /\ sstables[1] = [number |-> compacted_number,
                            entries |-> DropTombstones(MergeSSTables(to_compact))]
          /\ \A i \in 1..Len(sstables), j \in 1..m : sstables[i].number # old_paths[j]
          /\ m <= n
          /\ \A j \in 1..m :
                LET t == to_compact[n - m + j]
                IN  /\ old_paths[j] = t.number /\ t.number < compacted_number
                    /\ t.number \in DOMAIN disk /\ disk[t.number] = t.entries
          /\ \A i, j \in 1..m : old_paths[i] = old_paths[j] => i = j
      BY <1>t, <2>1 DEF MergeInv
    <3>6. n \in Nat /\ Len(to_compact') = n /\ Len(old_paths') = m - 1 /\ m - 1 <= n
          /\ 1 \in 1..m
      BY <1>n, <2>1, <3>1, <3>2, <3>5
    <3> HIDE DEF m, n
    <3>7. \A j \in 1..(m - 1) : old_paths'[j] = old_paths[j + 1]
      BY <2>1, <3>1
    <3>8. \A j \in 1..(m - 1) :
             LET t == to_compact[n - (m - 1) + j]
             IN  /\ old_paths'[j] = t.number /\ t.number < compacted_number
                 /\ t.number \in DOMAIN disk' /\ disk'[t.number] = t.entries
      <4> SUFFICES ASSUME NEW j \in 1..(m - 1)
                   PROVE  LET t == to_compact[n - m + (j + 1)]
                          IN  /\ old_paths'[j] = t.number /\ t.number < compacted_number
                              /\ t.number \in DOMAIN disk' /\ disk'[t.number] = t.entries
        BY <3>3
      <4>1. j + 1 \in 1..m /\ old_paths'[j] = old_paths[j + 1] /\ old_paths[j + 1] # old_paths[1]
        BY <3>3, <3>5, <3>6, <3>7
      <4> QED
        BY <3>4, <3>5, <4>1
    <3>9. \A i, j \in 1..(m - 1) : old_paths'[i] = old_paths'[j] => i = j
      <4> SUFFICES ASSUME NEW i \in 1..(m - 1), NEW j \in 1..(m - 1), old_paths'[i] = old_paths'[j]
                   PROVE  i = j
        OBVIOUS
      <4>1. i + 1 = j + 1
        BY <3>3, <3>5, <3>7
      <4> QED
        BY <4>1
    <3>10. \A i \in 1..Len(sstables), j \in 1..(m - 1) : sstables[i].number # old_paths'[j]
      BY <3>3, <3>5, <3>7
    <3>11. \A j \in 1..Len(old_paths') :
              LET t == to_compact'[Len(to_compact') - Len(old_paths') + j]
              IN  /\ old_paths'[j] = t.number /\ t.number < compacted_number'
                  /\ t.number \in DOMAIN disk' /\ disk'[t.number] = t.entries
      BY <2>1, <3>2, <3>6, <3>8
    <3>12. Len(old_paths') <= Len(to_compact')
      BY <3>6
    <3>13. /\ \A i, j \in 1..Len(old_paths') : old_paths'[i] = old_paths'[j] => i = j
           /\ \A i \in 1..Len(sstables'), j \in 1..Len(old_paths') :
                 sstables'[i].number # old_paths'[j]
      <4>1. \A i, j \in 1..Len(old_paths') : old_paths'[i] = old_paths'[j] => i = j
        BY <3>6, <3>9
      <4>2. \A i \in 1..Len(sstables), j \in 1..Len(old_paths') :
               sstables[i].number # old_paths'[j]
        BY <3>6, <3>10
      <4> QED
        BY <2>1, <4>1, <4>2
    <3>14. /\ Len(sstables') > 0
           /\ sstables'[1] = [number |-> compacted_number',
                              entries |-> DropTombstones(MergeSSTables(to_compact'))]
      BY <2>1, <3>2, <3>5
    <3> QED
      BY <3>2, <3>11, <3>12, <3>13, <3>14 DEF MergeInv, Merging
  <2> QED
    BY <2>3, <2>4
<1>9. ASSUME NEW k \in Key, NEW e \in Entry, BeginWrite(k, e) PROVE MergeInv'
  BY <1>1, <1>9 DEF BeginWrite, fileVars, tableVars, compactorVars
<1>10. CASE WriterNext
  BY <1>1, <1>3, <1>4, <1>10 DEF WriterNext, AppendPart, AppendRest, AppendThrows, ApplyToMemTable,
     FlushCreate, FlushFill, FlushReset, FlushThrows, CreateTmp, FillTmp, fileVars, tableVars,
     compactorVars
<1>11. CASE StartCompaction \/ CompactSnapshot
  BY <1>2, <1>11 DEF StartCompaction, CompactSnapshot
<1>12. CASE CompactorNext
  BY <1>5, <1>6, <1>7, <1>8, <1>11, <1>12 DEF CompactorNext
<1>13. CASE ReadStep \/ Close
  BY <1>1, <1>13 DEF ReadStep, Close, fileVars, tableVars, compactorVars
<1>14. CASE ProcessEnds
  BY <1>2, <1>14 DEF ProcessEnds
<1>15. CASE Open \/ OpenTable \/ OpenReplay
  <2>1. cpc = "wait"
    BY <1>15 DEF Open, OpenTable, OpenReplay, DatabaseInv, RestInv, Live
  <2> QED
    BY <1>2, <1>15, <2>1 DEF Open, OpenTable, OpenReplay, compactorVars
<1> QED
  BY <1>9, <1>10, <1>12, <1>13, <1>14, <1>15, Steps

\* A file left under the next number is never one that recovery would miss.
LEMMA SparesStep == DatabaseInv /\ FilesInv /\ [Next]_vars => SparesInv'
<1> SUFFICES ASSUME DatabaseInv, FilesInv, [Next]_vars, Live' PROVE SparesInv'
  BY DEF SparesInv
<1>t. TypeOK /\ NumbersInv /\ CompactorInv /\ WriterInv /\ MergeInv /\ SparesInv
  BY DEF DatabaseInv, FilesInv
<1>n. /\ Len(sstables) \in Nat /\ next_sstable_number \in Nat /\ compacted_number \in Nat
      /\ DOMAIN disk \subseteq Nat
      /\ \A i \in 1..Len(sstables) : sstables[i].number \in Nat
  BY <1>t, ListTypes
<1>1. CASE ~Live
  <2>1. ReadStep \/ OpenReplay
    BY <1>1, RestSteps DEF ProcessEnds, Open, OpenTable, Live
  <2>2. OpenReplay
    BY <1>1, <2>1 DEF ReadStep, Live
  <2>3. /\ wpc = "idle" /\ cpc = "wait" /\ DOMAIN disk \subseteq Opened
        /\ UNCHANGED <<disk, next_sstable_number, wpc, cpc>>
    BY <1>1, <2>2 DEF OpenReplay, DatabaseInv, RestInv, fileVars, writerVars, compactorVars
  <2>4. \A n \in Opened : n < next_sstable_number
    BY <1>t DEF Opened, NumbersInv
  <2>5. \A n \in DOMAIN disk : n \in Nat /\ n < next_sstable_number
    BY <1>n, <2>3, <2>4
  <2>6. next_sstable_number \notin DOMAIN disk /\ \A n \in DOMAIN disk : n <= next_sstable_number
    BY <1>n, <2>5
  <2> QED
    BY <2>3, <2>6 DEF SparesInv
<1>2. CASE Live
  <2>s. /\ \A n \in DOMAIN disk : n <= next_sstable_number
        /\ next_sstable_number \in DOMAIN disk =>
              /\ wpc # "reset"
              /\ \A k \in Key : disk[next_sstable_number][k] # Absent => memtable[k] # Absent
        /\ wpc = "reset" => next_sstable_number = sstables[Len(sstables)].number + 1
        /\ cpc \in {"create", "fill", "rename"} /\ compacted_number \in DOMAIN disk =>
              \A k \in Key : disk[compacted_number][k] # Absent =>
                  \/ memtable[k] # Absent
                  \/ \E i \in 1..Len(sstables) : /\ sstables[i].number > compacted_number
                                                 /\ sstables[i].entries[k] # Absent
    BY <1>t, <1>2 DEF SparesInv
  <2>m. cpc \in Merging => compacted_number < next_sstable_number
    BY <1>t DEF CompactorInv, Merging
  <2>1. CASE /\ UNCHANGED <<disk, next_sstable_number, memtable, sstables, compacted_number>>
             /\ cpc' = cpc \/ cpc' \notin {"create", "fill", "rename"}
             /\ wpc' = wpc \/ wpc' # "reset"
    BY <2>s, <2>1 DEF SparesInv
  <2>2. ASSUME NEW k \in Key, NEW e \in Entry, BeginWrite(k, e) PROVE SparesInv'
    BY <2>1, <2>2 DEF BeginWrite, fileVars, tableVars, compactorVars
  <2>3. CASE ApplyToMemTable
    <3>1. wkey \in Key /\ wentry \in Entry /\ wentry # Absent
      BY <1>t, <2>3, DataAssumption DEF ApplyToMemTable, WriterInv, Entry
    <3>2. \A k \in Key : memtable[k] # Absent => memtable'[k] # Absent
      BY <1>t, <2>3, <3>1 DEF ApplyToMemTable, Upsert, TypeOK, Table
    <3>3. /\ wpc' # "reset"
          /\ UNCHANGED <<disk, next_sstable_number, sstables, cpc, compacted_number>>
      BY <2>3 DEF ApplyToMemTable, fileVars, compactorVars
    <3> QED
      BY <2>s, <3>2, <3>3 DEF SparesInv
  <2>4. CASE FlushRename
    <3>1. /\ disk' = AddFile(disk, next_sstable_number, memtable) /\ wpc' = "open"
          /\ UNCHANGED <<next_sstable_number, memtable, sstables, cpc, compacted_number>>
      BY <1>t, <2>4 DEF FlushRename, RenameTmp, WriterInv, tableVars, compactorVars
    <3>2. cpc \in Merging => compacted_number # next_sstable_number
      BY <1>n, <2>m
    <3>3. /\ DOMAIN disk' = DOMAIN disk \cup {next_sstable_number}
          /\ disk'[next_sstable_number] = memtable
          /\ \A n \in DOMAIN disk : n # next_sstable_number => disk'[n] = disk[n]
      BY <3>1 DEF AddFile
    <3> QED
      BY <1>n, <2>s, <3>1, <3>2, <3>3 DEF SparesInv, Merging
  <2>5. CASE FlushOpen
    <3>1. /\ Len(sstables') = Len(sstables) + 1
          /\ sstables'[Len(sstables) + 1].number = next_sstable_number
          /\ \A i \in 1..Len(sstables) : sstables'[i] = sstables[i]
          /\ next_sstable_number' = next_sstable_number + 1
          /\ UNCHANGED <<disk, memtable, cpc, compacted_number>>
      BY <2>5, FlushOpenList
    <3>2. /\ next_sstable_number' \notin DOMAIN disk
          /\ \A n \in DOMAIN disk : n <= next_sstable_number'
      BY <1>n, <2>s, <3>1
    <3>3. next_sstable_number' = sstables'[Len(sstables')].number + 1
      BY <3>1
    <3>4. \A i \in 1..Len(sstables) : i \in 1..Len(sstables')
      BY <1>n, <3>1
    <3> QED
      BY <2>s, <3>1, <3>2, <3>3, <3>4 DEF SparesInv
  <2>6. CASE FlushReset
    <3>1. /\ wpc = "reset" /\ wpc' = "idle"
          /\ UNCHANGED <<disk, next_sstable_number, sstables, cpc, compacted_number>>
      BY <2>6 DEF FlushReset, fileVars, compactorVars
    <3> DEFINE last == Len(sstables)
    <3>2. /\ last \in 1..Len(sstables) /\ sstables[last].entries = memtable
          /\ next_sstable_number = sstables[last].number + 1
      BY <1>t, <1>n, <2>s, <3>1 DEF WriterInv
    <3>3. cpc \in Merging => sstables[last].number > compacted_number
      <4>1. cpc \in Merging => sstables[last].number # compacted_number
        BY <1>t, <3>2 DEF MergeInv
      <4> QED
        BY <1>n, <2>m, <3>2, <4>1
    <3> HIDE DEF last
    <3>4. next_sstable_number \notin DOMAIN disk
      BY <2>s, <3>1
    <3>5. ASSUME cpc \in {"create", "fill", "rename"}, compacted_number \in DOMAIN disk,
                 NEW k \in Key, disk[compacted_number][k] # Absent
          PROVE  \E i \in 1..Len(sstables) : /\ sstables[i].number > compacted_number
                                             /\ sstables[i].entries[k] # Absent
      BY <2>s, <3>2, <3>3, <3>5 DEF Merging
    <3> QED
      BY <2>s, <3>1, <3>4, <3>5 DEF SparesInv
  <2>7. CASE WriterNext
    BY <2>1, <2>3, <2>4, <2>5, <2>6, <2>7 DEF WriterNext, AppendPart, AppendRest, AppendThrows,
       FlushCreate, FlushFill, FlushThrows, CreateTmp, FillTmp, fileVars, tableVars, compactorVars
  <2>8. CASE StartCompaction \/ CompactSnapshot
    BY <2>1, <2>8 DEF StartCompaction, CompactSnapshot, fileVars, tableVars, writerVars
  <2>9. CASE CompactMerge
    <3>1. /\ wpc = "idle" /\ wpc' = "idle" /\ compacted_number' = next_sstable_number
          /\ next_sstable_number' = next_sstable_number + 1
          /\ UNCHANGED <<disk, memtable>>
      BY <2>9 DEF CompactMerge, CanLockExclusive, fileVars, writerVars
    <3>2. /\ next_sstable_number' \notin DOMAIN disk
          /\ \A n \in DOMAIN disk : n <= next_sstable_number'
      BY <1>n, <2>s, <3>1
    <3> QED
      BY <2>s, <3>1, <3>2 DEF SparesInv
  <2>10. CASE CompactCreate \/ CompactFill
    <3>1. /\ cpc \in {"create", "fill"}
          /\ UNCHANGED <<disk, next_sstable_number, memtable, sstables, compacted_number, wpc>>
      BY <2>10 DEF CompactCreate, CompactFill, CreateTmp, FillTmp, tableVars, writerVars
    <3> QED
      BY <2>s, <3>1 DEF SparesInv
  <2>11. CASE CompactRename
    <3>1. /\ cpc = "rename" /\ cpc' = "swap"
          /\ disk' = AddFile(disk, compacted_number, tmp[compacted_number])
          /\ UNCHANGED <<next_sstable_number, memtable, sstables, wpc>>
      BY <2>11 DEF CompactRename, RenameTmp, tableVars, writerVars
    <3>2. compacted_number # next_sstable_number /\ compacted_number <= next_sstable_number
      BY <1>n, <2>m, <3>1 DEF Merging
    <3>3. /\ DOMAIN disk' = DOMAIN disk \cup {compacted_number}
          /\ \A n \in DOMAIN disk : n # compacted_number => disk'[n] = disk[n]
      BY <3>1 DEF AddFile
    <3> QED
      BY <2>s, <3>1, <3>2, <3>3 DEF SparesInv
  <2>12. CASE CompactSwap
    BY <2>s, <2>12, SwapList DEF SparesInv
  <2>13. CASE CompactDelete
    <3>1. /\ cpc' \in {"wait", "delete"}
          /\ UNCHANGED <<next_sstable_number, memtable, sstables, wpc>>
      BY <2>13 DEF CompactDelete, tableVars, writerVars
    <3>2. DOMAIN disk' \subseteq DOMAIN disk /\ \A n \in DOMAIN disk' : disk'[n] = disk[n]
      BY <2>13 DEF CompactDelete, RemoveFile
    <3> QED
      BY <2>s, <3>1, <3>2 DEF SparesInv
  <2>14. CASE CompactorNext
    BY <2>8, <2>9, <2>10, <2>11, <2>12, <2>13, <2>14 DEF CompactorNext
  <2>15. CASE ReadStep \/ Close
    BY <2>1, <2>15 DEF ReadStep, Close, fileVars, tableVars, writerVars, compactorVars
  <2>16. ~ProcessEnds /\ ~Open /\ ~OpenTable /\ ~OpenReplay
    BY <1>2 DEF ProcessEnds, Open, OpenTable, OpenReplay, Live
  <2> QED
    BY <2>2, <2>7, <2>14, <2>15, <2>16, Steps
<1> QED
  BY <1>1, <1>2

-----------------------------------------------------------------------------
(* The first theorem *)

\* The invariant of the files holds of an empty directory ...
LEMMA FilesInit == Init => FilesInv
  BY DEF Init, FilesInv, OpenTablesAreOnDisk, MergeInv, Merging, SparesInv, Live

\* ... and every step keeps it, whatever system calls fail.
LEMMA FilesStep == DatabaseInv /\ FilesInv /\ [Next]_vars => FilesInv'
  BY OpenTablesStep, MergeStep, SparesStep DEF FilesInv

\* The files are as FilesInv says in every state of every execution.
THEOREM FilesInvariance == Spec => [](DatabaseInv /\ FilesInv)
<1>1. Init => DatabaseInv /\ FilesInv
  BY InitInv, FilesInit
<1>2. DatabaseInv /\ FilesInv /\ [Next]_vars => (DatabaseInv /\ FilesInv)'
  BY StepInv, FilesStep
<1> QED
  BY <1>1, <1>2, PTL DEF Spec

\* Every open table has a file of its own, with the same contents: neither a
\* flush nor a compaction reuses, overwrites or deletes the file of a table
\* that is still in sstables_, whichever system calls fail and wherever
\* processes die.
THEOREM TablesStayOnDisk == Spec => []OpenTablesAreOnDisk
<1>1. DatabaseInv /\ FilesInv => OpenTablesAreOnDisk
  BY DEF FilesInv
<1> QED
  BY <1>1, FilesInvariance, PTL

-----------------------------------------------------------------------------
(* Nothing else is in the directory *)

\* Without failing unlinks, the directory holds the open tables, the old files
\* of a compaction, its new file and what a failed flush left, nothing else.
LEMMA KnownStep ==
    ASSUME "unlink" \notin Faults
    PROVE  DatabaseInv /\ FilesInv /\ DirectoryIsKnown /\ [Next]_vars => DirectoryIsKnown'
<1> SUFFICES ASSUME DatabaseInv, FilesInv, DirectoryIsKnown, [Next]_vars, Live'
             PROVE  DirectoryIsKnown'
  BY DEF DirectoryIsKnown
<1>t. TypeOK /\ CompactorInv
  BY DEF DatabaseInv
<1>n. /\ Len(sstables) \in Nat /\ Len(old_paths) \in Nat /\ old_paths \in Seq(Nat)
  BY <1>t, ListTypes
<1>1. CASE ~Live
  <2>1. ReadStep \/ OpenReplay
    BY <1>1, RestSteps DEF ProcessEnds, Open, OpenTable, Live
  <2>2. OpenReplay
    BY <1>1, <2>1 DEF ReadStep, Live
  <2> QED
    BY <2>2 DEF OpenReplay, Opened, DirectoryIsKnown, fileVars
<1>2. CASE Live
  <2>k. DOMAIN disk \subseteq Opened \cup Doomed \cup Coming \cup {next_sstable_number}
    BY <1>2 DEF DirectoryIsKnown
  <2>1. CASE UNCHANGED <<disk, sstables, next_sstable_number, cpc, compacted_number, old_paths>>
    BY <2>k, <2>1 DEF DirectoryIsKnown, Opened, Doomed, Coming
  <2>2. ASSUME NEW k \in Key, NEW e \in Entry, BeginWrite(k, e) PROVE DirectoryIsKnown'
    BY <2>1, <2>2 DEF BeginWrite, fileVars, tableVars, compactorVars
  <2>3. CASE FlushRename
    <3>1. DOMAIN disk' = DOMAIN disk \cup {next_sstable_number}
      BY <2>3 DEF FlushRename, RenameTmp, AddFile
    <3>2. UNCHANGED <<sstables, next_sstable_number, cpc, compacted_number, old_paths>>
      BY <2>3 DEF FlushRename, tableVars, compactorVars
    <3> QED
      BY <2>k, <3>1, <3>2 DEF DirectoryIsKnown, Opened, Doomed, Coming
  <2>4. CASE FlushOpen
    <3>1. /\ Len(sstables') = Len(sstables) + 1
          /\ sstables'[Len(sstables) + 1].number = next_sstable_number
          /\ \A i \in 1..Len(sstables) : sstables'[i] = sstables[i]
          /\ UNCHANGED <<disk, cpc, compacted_number, old_paths>>
      BY <2>4, FlushOpenList
    <3>2. Opened' = Opened \cup {next_sstable_number}
      <4>1. \A i \in 1..Len(sstables') : i \in 1..Len(sstables) \/ i = Len(sstables) + 1
        BY <1>n, <3>1
      <4>2. /\ \A i \in 1..Len(sstables) : i \in 1..Len(sstables')
            /\ Len(sstables) + 1 \in 1..Len(sstables')
        BY <1>n, <3>1
      <4> QED
        BY <3>1, <4>1, <4>2 DEF Opened
    <3> QED
      BY <2>k, <3>1, <3>2 DEF DirectoryIsKnown, Doomed, Coming
  <2>5. CASE WriterNext
    BY <2>1, <2>3, <2>4, <2>5 DEF WriterNext, AppendPart, AppendRest, AppendThrows, ApplyToMemTable,
       FlushCreate, FlushFill, FlushReset, FlushThrows, CreateTmp, FillTmp, fileVars, tableVars,
       compactorVars
  <2>6. CASE StartCompaction \/ CompactSnapshot
    <3>1. /\ cpc \in {"wait", "snapshot"} /\ cpc' \in {"wait", "snapshot", "merge"}
          /\ UNCHANGED <<disk, sstables, next_sstable_number>>
      BY <2>6 DEF StartCompaction, CompactSnapshot, fileVars, tableVars
    <3> QED
      BY <2>k, <3>1 DEF DirectoryIsKnown, Opened, Doomed, Coming, Merging
  <2>7. CASE CompactMerge
    <3>1. /\ cpc = "merge" /\ cpc' = "create" /\ compacted_number' = next_sstable_number
          /\ UNCHANGED <<disk, sstables>>
      BY <2>7 DEF CompactMerge, fileVars
    <3> QED
      BY <2>k, <3>1 DEF DirectoryIsKnown, Opened, Doomed, Coming, Merging
  <2>8. CASE CompactCreate \/ CompactFill \/ CompactRename
    <3>1. /\ cpc \in {"create", "fill", "rename"} /\ cpc' \in {"fill", "rename", "swap"}
          /\ UNCHANGED <<sstables, next_sstable_number, compacted_number>>
      BY <2>8 DEF CompactCreate, CompactFill, CompactRename, tableVars
    <3>2. DOMAIN disk' \subseteq DOMAIN disk \cup {compacted_number}
      BY <2>8 DEF CompactCreate, CompactFill, CompactRename, CreateTmp, FillTmp, RenameTmp, AddFile
    <3> QED
      BY <2>k, <3>1, <3>2 DEF DirectoryIsKnown, Opened, Doomed, Coming, Merging
  <2>9. CASE CompactSwap
    <3> DEFINE n == Len(to_compact)
    <3>1. /\ n \in 1..Len(sstables) /\ Len(sstables') = Len(sstables) - n + 1
          /\ \A i \in 1..n : to_compact[i] = sstables[i]
          /\ sstables'[1].number = compacted_number
          /\ \A i \in 2..Len(sstables') : sstables'[i] = sstables[n + i - 1]
          /\ Len(old_paths') = n /\ \A j \in 1..n : old_paths'[j] = to_compact[j].number
          /\ cpc = "swap" /\ cpc' = "delete"
          /\ UNCHANGED <<disk, next_sstable_number>>
      BY <2>9, SwapList
    <3> HIDE DEF n
    <3>2. compacted_number \in Opened'
      <4>1. 1 \in 1..Len(sstables')
        BY <1>n, <3>1
      <4> QED
        BY <3>1, <4>1 DEF Opened
    <3>3. ASSUME NEW i \in 1..Len(sstables) PROVE sstables[i].number \in Opened' \cup Doomed'
      <4>1. CASE i <= n
        <5>1. i \in 1..n
          BY <3>1, <4>1
        <5>2. old_paths'[i] = sstables[i].number
          BY <3>1, <5>1
        <5> QED
          BY <3>1, <5>1, <5>2 DEF Doomed
      <4>2. CASE i > n
        <5> DEFINE j == i - n + 1
        <5>1. j \in 2..Len(sstables') /\ n + j - 1 = i /\ j \in 1..Len(sstables')
          BY <1>n, <3>1, <4>2
        <5>2. sstables'[j] = sstables[i]
          BY <3>1, <5>1
        <5> HIDE DEF j
        <5> QED
          BY <5>1, <5>2 DEF Opened
      <4> QED
        BY <3>1, <4>1, <4>2
    <3>4. Opened \subseteq Opened' \cup Doomed'
      BY <3>3 DEF Opened
    <3> QED
      BY <2>k, <3>1, <3>2, <3>4 DEF DirectoryIsKnown, Doomed, Coming, Merging
  <2>10. CASE CompactDelete
    <3>1. /\ cpc = "delete" /\ old_paths' = Tail(old_paths)
          /\ disk' = RemoveFile(disk, Head(old_paths))
          /\ cpc' = IF Len(old_paths) = 1 THEN "wait" ELSE "delete"
          /\ UNCHANGED <<sstables, next_sstable_number>>
      BY <2>10 DEF CompactDelete, tableVars
    <3>2. Len(old_paths) > 0
      BY <1>t, <3>1 DEF CompactorInv
    <3>3. /\ Head(old_paths) = old_paths[1] /\ Len(Tail(old_paths)) = Len(old_paths) - 1
          /\ \A j \in 1..(Len(old_paths) - 1) : Tail(old_paths)[j] = old_paths[j + 1]
      BY <1>n, <3>2
    <3>4. DOMAIN disk' = DOMAIN disk \ {old_paths[1]}
      BY <3>1, <3>3 DEF RemoveFile
    <3>5. ASSUME NEW j \in 1..Len(old_paths), old_paths[j] # old_paths[1]
          PROVE  old_paths[j] \in Doomed'
      <4>1. j # 1 /\ Len(old_paths) # 1
        BY <1>n, <3>5
      <4>2. j - 1 \in 1..(Len(old_paths) - 1) /\ (j - 1) + 1 = j
        BY <1>n, <4>1
      <4>3. old_paths'[j - 1] = old_paths[j] /\ Len(old_paths') = Len(old_paths) - 1
        BY <3>1, <3>3, <4>2
      <4>4. cpc' = "delete"
        BY <3>1, <4>1
      <4> QED
        BY <4>2, <4>3, <4>4 DEF Doomed
    <3>6. Doomed \subseteq Doomed' \cup {old_paths[1]} /\ Coming = {} /\ Coming' = {}
      BY <3>1, <3>5 DEF Doomed, Coming, Merging
    <3> QED
      BY <2>k, <3>1, <3>4, <3>6 DEF DirectoryIsKnown, Opened
  <2>11. CASE CompactorNext
    BY <2>6, <2>7, <2>8, <2>9, <2>10, <2>11 DEF CompactorNext
  <2>12. CASE ReadStep \/ Close
    BY <2>1, <2>12 DEF ReadStep, Close, fileVars, tableVars, compactorVars
  <2>13. ~ProcessEnds /\ ~Open /\ ~OpenTable /\ ~OpenReplay
    BY <1>2 DEF ProcessEnds, Open, OpenTable, OpenReplay, Live
  <2> QED
    BY <2>2, <2>5, <2>11, <2>12, <2>13, Steps
<1> QED
  BY <1>1, <1>2

-----------------------------------------------------------------------------
(* The log and the MemTable *)

\* As long as no append fails, the log is what the MemTable was built from.
LEMMA LogStep ==
    ASSUME ~AppendThrows
    PROVE  DatabaseInv /\ LogInv /\ [Next]_vars => LogInv'
<1> SUFFICES ASSUME DatabaseInv, LogInv, [Next]_vars, Live' PROVE LogInv'
  BY DEF LogInv
<1>t. TypeOK /\ WriterInv /\ wal \in Seq(WalRecord \cup {Torn}) /\ Len(wal) \in Nat
  <2>1. TypeOK /\ WriterInv
    BY DEF DatabaseInv
  <2> QED
    BY <2>1 DEF TypeOK
<1>1. CASE ~Live
  <2>1. ReadStep \/ OpenReplay
    BY <1>1, RestSteps DEF ProcessEnds, Open, OpenTable, Live
  <2>2. OpenReplay
    BY <1>1, <2>1 DEF ReadStep, Live
  <2>3. wpc' = "idle" /\ wal' = TruncateTail(wal) /\ memtable' = Replayed(wal)
    BY <1>1, <2>2 DEF OpenReplay, DatabaseInv, RestInv, writerVars
  <2> QED
    BY <1>t, <2>3, TruncateTailExact DEF LogInv
<1>2. CASE Live
  <2>l. /\ \A i \in 1..Len(wal) : wal[i] = Torn => wpc = "appending" /\ i = Len(wal)
        /\ wpc = "appending" => Len(wal) > 0 /\ wal[Len(wal)] = Torn
        /\ Replayed(wal) = IF wpc = "fsync" THEN Upsert(memtable, wkey, wentry) ELSE memtable
    BY <1>2 DEF LogInv
  <2>1. CASE /\ UNCHANGED <<wal, memtable, wpc, wkey, wentry>>
    BY <2>l, <2>1 DEF LogInv
  <2>2. CASE /\ UNCHANGED <<wal, memtable>>
             /\ wpc \notin {"appending", "fsync"} /\ wpc' \notin {"appending", "fsync"}
    BY <2>l, <2>2 DEF LogInv
  <2>3. ASSUME NEW k \in Key, NEW e \in Entry, BeginWrite(k, e) PROVE LogInv'
    BY <2>2, <2>3 DEF BeginWrite, CanLockExclusive, walVars, tableVars
  <2>4. CASE AppendPart
    <3>1. /\ wpc = "append" /\ wpc' = "appending" /\ wal' = Append(wal, Torn)
          /\ memtable' = memtable
      BY <2>4 DEF AppendPart, tableVars
    <3>2. Replayed(wal') = memtable
      BY <1>t, <2>l, <3>1, ReplayedTorn
    <3>3. /\ Len(wal') = Len(wal) + 1 /\ wal'[Len(wal')] = Torn
          /\ \A i \in 1..Len(wal) : wal'[i] = wal[i]
      BY <1>t, <3>1
    <3>4. ASSUME NEW i \in 1..Len(wal'), wal'[i] = Torn PROVE i = Len(wal')
      <4>1. i \in 1..Len(wal) \/ i = Len(wal')
        BY <1>t, <3>3
      <4> QED
        BY <2>l, <3>1, <3>3, <3>4, <4>1
    <3>5. Len(wal') > 0
      BY <1>t, <3>3
    <3> QED
      BY <3>1, <3>2, <3>3, <3>4, <3>5 DEF LogInv
  <2>5. CASE AppendRest
    <3> DEFINE r == [key |-> wkey, entry |-> wentry]
    <3>1. /\ wpc = "appending" /\ wpc' = "fsync" /\ wal' = [wal EXCEPT ![Len(wal)] = r]
          /\ UNCHANGED <<memtable, wkey, wentry>>
      BY <2>5 DEF AppendRest, tableVars
    <3>2. r \in WalRecord /\ r # Torn /\ r.key = wkey /\ r.entry = wentry
      BY <1>t, <3>1, TornAssumption DEF WriterInv, WalRecord, Entry
    <3> HIDE DEF r
    <3>3. Replayed(wal') = Upsert(memtable, wkey, wentry)
      BY <1>t, <2>l, <3>1, <3>2, ReplayedWritten
    <3>4. \A i \in 1..Len(wal') : wal'[i] # Torn
      <4>1. wal \in [1..Len(wal) -> WalRecord \cup {Torn}]
        BY <1>t
      <4>2. Len(wal') = Len(wal) /\ \A i \in 1..Len(wal) : wal'[i] = IF i = Len(wal) THEN r ELSE wal[i]
        BY <1>t, <3>1, <4>1
      <4> QED
        BY <2>l, <3>2, <4>2
    <3> QED
      BY <3>1, <3>3, <3>4 DEF LogInv
  <2>6. CASE ApplyToMemTable
    <3>1. /\ wpc = "fsync" /\ wpc' \notin {"appending", "fsync"} /\ wal' = wal
          /\ memtable' = Upsert(memtable, wkey, wentry)
      BY <2>6 DEF ApplyToMemTable, walVars
    <3> QED
      BY <2>l, <3>1 DEF LogInv
  <2>7. CASE FlushReset
    <3>1. wal' = <<>> /\ memtable' = EmptyTable /\ wpc' = "idle"
      BY <2>7 DEF FlushReset
    <3> QED
      BY <3>1, ReplayedEmpty DEF LogInv
  <2>8. CASE FlushCreate \/ FlushFill \/ FlushRename \/ FlushOpen \/ FlushThrows
    BY <2>2, <2>8 DEF FlushCreate, FlushFill, FlushRename, FlushOpen, FlushThrows, walVars, tableVars
  <2>9. CASE WriterNext
    BY <2>4, <2>5, <2>6, <2>7, <2>8, <2>9 DEF WriterNext
  <2>10. CASE CompactorNext
    BY <2>1, <2>10 DEF CompactorNext, StartCompaction, CompactSnapshot, CompactMerge, CompactCreate,
       CompactFill, CompactRename, CompactSwap, CompactDelete, walVars, tableVars, writerVars
  <2>11. CASE ReadStep \/ Close
    BY <2>1, <2>11 DEF ReadStep, Close, walVars, tableVars, writerVars
  <2>12. ~ProcessEnds /\ ~Open /\ ~OpenTable /\ ~OpenReplay
    BY <1>2 DEF ProcessEnds, Open, OpenTable, OpenReplay, Live
  <2> QED
    BY <2>3, <2>9, <2>10, <2>11, <2>12, Steps
<1> QED
  BY <1>1, <1>2

\* The history knows of the write in progress.
LEMMA PendingStep == DatabaseInv /\ PendingInv /\ [Next]_vars => PendingInv'
<1> SUFFICES ASSUME DatabaseInv, PendingInv, [Next]_vars PROVE PendingInv'
  OBVIOUS
<1>t. TypeOK
  BY DEF DatabaseInv
<1>1. CASE UNCHANGED <<wpc, wkey, wentry, pending>>
  BY <1>1 DEF PendingInv
<1>2. CASE wpc' \notin {"append", "appending", "fsync"}
  BY <1>2 DEF PendingInv
<1>3. ASSUME NEW k \in Key, NEW e \in Entry, BeginWrite(k, e) PROVE PendingInv'
  BY <1>t, <1>3 DEF BeginWrite, PendingInv, TypeOK
<1>4. CASE AppendPart \/ AppendRest
  BY <1>4 DEF AppendPart, AppendRest, PendingInv, historyVars
<1>5. CASE WriterNext
  BY <1>2, <1>4, <1>5 DEF WriterNext, AppendThrows, ApplyToMemTable, FlushCreate, FlushFill,
     FlushRename, FlushOpen, FlushReset, FlushThrows
<1>6. CASE CompactorNext
  BY <1>1, <1>6 DEF CompactorNext, StartCompaction, CompactSnapshot, CompactMerge, CompactCreate,
     CompactFill, CompactRename, CompactSwap, CompactDelete, writerVars, historyVars
<1>7. CASE ReadStep \/ Close \/ Open \/ OpenTable \/ OpenReplay
  BY <1>1, <1>7 DEF ReadStep, Close, Open, OpenTable, OpenReplay, writerVars, historyVars
<1>8. CASE ProcessEnds
  BY <1>2, <1>8 DEF ProcessEnds
<1> QED
  BY <1>3, <1>5, <1>6, <1>7, <1>8, Steps

-----------------------------------------------------------------------------
(* What recovery would find *)

\* Everything the last two sections need together.
DurableInv == DatabaseInv /\ FilesInv /\ DirectoryIsKnown /\ LogInv /\ PendingInv

\* Outside the window of Overtaken the numbers are in the order of the list, and
\* the tables flushed since the snapshot are above the number of the merge.
LEMMA NumbersInOrder ==
    ASSUME TypeOK, OpenTablesAreOnDisk, MergeInv, ~Overtaken
    PROVE  /\ \A i, j \in 1..Len(sstables) : i <= j => sstables[i].number <= sstables[j].number
           /\ \A i, j \in 1..Len(old_paths) : i <= j => old_paths[i] <= old_paths[j]
           /\ cpc \in Merging => \A i \in Len(to_compact) + 1 .. Len(sstables) :
                                    i \in 1..Len(sstables) => sstables[i].number > compacted_number
<1>n. /\ Len(sstables) \in Nat /\ Len(to_compact) \in Nat /\ Len(old_paths) \in Nat
      /\ compacted_number \in Nat /\ old_paths \in Seq(Nat)
      /\ \A i \in 1..Len(sstables) : sstables[i].number \in Nat
      /\ \A j \in 1..Len(old_paths) : old_paths[j] \in Nat
  BY ListTypes
<1> DEFINE numbers == [i \in 1..Len(sstables) |-> sstables[i].number]
<1>1. Len(numbers) = Len(sstables) /\ \A i \in 1..Len(sstables) : numbers[i] = sstables[i].number
  BY <1>n
<1> HIDE DEF numbers
<1>2. ~Inverted(numbers) /\ ~Inverted(old_paths)
  BY DEF Overtaken, numbers
<1>3. \A i, j \in 1..Len(sstables) : i < j => ~(sstables[i].number > sstables[j].number)
  BY <1>1, <1>2 DEF Inverted
<1>4. \A i, j \in 1..Len(old_paths) : i < j => ~(old_paths[i] > old_paths[j])
  BY <1>2 DEF Inverted
<1>5. ASSUME cpc \in Merging, NEW i \in Len(to_compact) + 1 .. Len(sstables),
             i \in 1..Len(sstables)
      PROVE  sstables[i].number > compacted_number
  <2>1. sstables[i].number # compacted_number
    BY <1>5 DEF MergeInv
  <2>2. ~(sstables[i].number < compacted_number)
    BY <1>5 DEF Overtaken, Merging
  <2> QED
    BY <1>n, <1>5, <2>1, <2>2
<1>6. \A i, j \in 1..Len(sstables) : i <= j => sstables[i].number <= sstables[j].number
  <2> SUFFICES ASSUME NEW i \in 1..Len(sstables), NEW j \in 1..Len(sstables), i <= j
               PROVE  sstables[i].number <= sstables[j].number
    OBVIOUS
  <2>1. CASE i = j
    BY <1>n, <2>1
  <2>2. CASE i < j
    BY <1>n, <1>3, <2>2
  <2> QED
    BY <1>n, <2>1, <2>2
<1>7. \A i, j \in 1..Len(old_paths) : i <= j => old_paths[i] <= old_paths[j]
  <2> SUFFICES ASSUME NEW i \in 1..Len(old_paths), NEW j \in 1..Len(old_paths), i <= j
               PROVE  old_paths[i] <= old_paths[j]
    OBVIOUS
  <2>1. CASE i = j
    BY <1>n, <2>1
  <2>2. CASE i < j
    BY <1>n, <1>4, <2>2
  <2> QED
    BY <1>n, <2>1, <2>2
<1> QED
  BY <1>5, <1>6, <1>7

\* Nothing that a failed flush or an unfinished compaction left in the
\* directory has the last word on a key that is not in the MemTable.
LEMMA DiskAnswers ==
    ASSUME DurableInv, Live, ~Overtaken, NEW k \in Key, memtable[k] = Absent
    PROVE  Optional(NewestOnDisk(disk, k)) = Optional(Newest(sstables, k))
<1>t. /\ TypeOK /\ SnapshotIsPrefix /\ CompactorInv /\ OpenTablesAreOnDisk /\ MergeInv /\ SparesInv
      /\ DOMAIN disk \subseteq Opened \cup Doomed \cup Coming \cup {next_sstable_number}
  BY DEF DurableInv, DatabaseInv, FilesInv, DirectoryIsKnown
<1>n. /\ sstables \in Seq(SSTable) /\ to_compact \in Seq(SSTable)
      /\ Len(sstables) \in Nat /\ Len(to_compact) \in Nat /\ Len(old_paths) \in Nat
      /\ compacted_number \in Nat /\ next_sstable_number \in Nat /\ DOMAIN disk \subseteq Nat
      /\ \A i \in 1..Len(sstables) : sstables[i].number \in Nat
      /\ \A i \in 1..Len(to_compact) : to_compact[i].number \in Nat
      /\ \A j \in 1..Len(old_paths) : old_paths[j] \in Nat
  BY <1>t, ListTypes
<1>o. /\ \A i, j \in 1..Len(sstables) : i <= j => sstables[i].number <= sstables[j].number
      /\ \A i, j \in 1..Len(old_paths) : i <= j => old_paths[i] <= old_paths[j]
      /\ cpc \in Merging => \A i \in Len(to_compact) + 1 .. Len(sstables) :
                               i \in 1..Len(sstables) => sstables[i].number > compacted_number
  BY <1>t, NumbersInOrder
<1>f. \A i \in 1..Len(sstables) : /\ sstables[i].number \in DOMAIN disk
                                  /\ disk[sstables[i].number] = sstables[i].entries
  BY <1>t DEF OpenTablesAreOnDisk
<1>s. cpc \in Merging =>
        /\ Len(to_compact) <= Len(sstables)
        /\ \A i \in 1..Len(to_compact) : /\ to_compact[i] = sstables[i]
                                         /\ sstables[i].number < compacted_number
  BY <1>t DEF SnapshotIsPrefix, MergeInv, Merging
<1> DEFINE snap == Newest(to_compact, k)
<1>m. DropTombstones(MergeSSTables(to_compact))[k] = IF snap = Tombstone THEN Absent ELSE snap
  BY DEF DropTombstones, MergeSSTables
<1>w. cpc = "swap" => /\ compacted_number \in DOMAIN disk
                      /\ disk[compacted_number][k] = IF snap = Tombstone THEN Absent ELSE snap
  BY <1>t, <1>m DEF CompactorInv
\* Where an entry for k can be.
<1>1. ASSUME NEW x \in DOMAIN disk, disk[x][k] # Absent
      PROVE  \/ \E i \in 1..Len(sstables) : x = sstables[i].number /\ sstables[i].entries[k] # Absent
             \/ cpc = "delete" /\ \E j \in 1..Len(old_paths) : x = old_paths[j]
             \/ /\ cpc \in {"create", "fill", "rename"}
                /\ \E i \in 1..Len(sstables) : /\ sstables[i].number > x
                                               /\ sstables[i].entries[k] # Absent
             \/ cpc = "swap" /\ x = compacted_number
  <2>1. x # next_sstable_number
    BY <1>t, <1>1 DEF SparesInv
  <2>2. CASE x \in Opened
    BY <1>1, <1>f, <2>2 DEF Opened
  <2>3. CASE x \in Doomed
    BY <2>3 DEF Doomed
  <2>4. CASE x \in Coming
    <3>1. x = compacted_number /\ cpc \in Merging
      BY <2>4 DEF Coming
    <3>2. CASE cpc = "swap"
      BY <3>1, <3>2
    <3>3. CASE cpc \in {"create", "fill", "rename"}
      BY <1>t, <1>1, <3>1, <3>3 DEF SparesInv
    <3> QED
      BY <3>1, <3>2, <3>3 DEF Merging
  <2> QED
    BY <1>t, <2>1, <2>2, <2>3, <2>4
<1> HIDE DEF snap
\* An open table has an entry.
<1>2. ASSUME NEW i \in 1..Len(sstables), sstables[i].entries[k] # Absent,
             \A j \in 1..Len(sstables) : i < j => sstables[j].entries[k] = Absent
      PROVE  Optional(NewestOnDisk(disk, k)) = Optional(Newest(sstables, k))
  <2> DEFINE n == sstables[i].number
  <2>1. Newest(sstables, k) = sstables[i].entries[k]
    BY <1>n, <1>2, NewestHit
  <2>2. n \in DOMAIN disk /\ n \in Nat /\ disk[n][k] = sstables[i].entries[k]
    BY <1>n, <1>f
  <2>3. \A j \in 1..Len(sstables) : sstables[j].entries[k] # Absent => j <= i
    BY <1>n, <1>2
  <2>4. \A j \in 1..Len(sstables) : sstables[j].entries[k] # Absent => sstables[j].number <= n
    BY <1>o, <2>3
  <2>5. cpc = "delete" => \A j \in 1..Len(old_paths) : old_paths[j] <= n
    <3> SUFFICES ASSUME cpc = "delete", NEW j \in 1..Len(old_paths) PROVE old_paths[j] <= n
      OBVIOUS
    <3>1. 1 \in 1..Len(sstables) /\ 1 <= i /\ sstables[1].number = compacted_number
      BY <1>t, <1>n DEF MergeInv
    <3>2. old_paths[j] < compacted_number
      BY <1>t DEF MergeInv
    <3>3. compacted_number <= n
      BY <1>o, <3>1
    <3> QED
      BY <1>n, <2>2, <3>2, <3>3
  <2>6. CASE cpc = "swap" /\ i <= Len(to_compact) /\ disk[compacted_number][k] # Absent
    <3>1. /\ i \in 1..Len(to_compact) /\ to_compact[i] = sstables[i]
          /\ \A j \in 1..Len(to_compact) : j \in 1..Len(sstables) /\ to_compact[j] = sstables[j]
      BY <1>n, <1>s, <2>6 DEF Merging
    <3>2. snap = sstables[i].entries[k]
      BY <1>n, <1>2, <3>1, NewestHit DEF snap
    <3>3. disk[compacted_number][k] = sstables[i].entries[k]
      BY <1>w, <2>6, <3>2
    <3>4. n < compacted_number
      BY <1>s, <2>6, <3>1 DEF Merging
    <3>5. \A x \in DOMAIN disk : disk[x][k] # Absent => x <= compacted_number
      <4> SUFFICES ASSUME NEW x \in DOMAIN disk, disk[x][k] # Absent PROVE x <= compacted_number
        OBVIOUS
      <4>1. CASE x = compacted_number
        BY <1>n, <4>1
      <4>2. CASE \E j \in 1..Len(sstables) : x = sstables[j].number /\ sstables[j].entries[k] # Absent
        <5>1. x <= n /\ x \in Nat
          BY <1>n, <2>4, <4>2
        <5> QED
          BY <1>n, <2>2, <3>4, <5>1
      <4> QED
        BY <1>1, <2>6, <4>1, <4>2
    <3>6. NewestOnDisk(disk, k) = disk[compacted_number][k]
      BY <1>n, <1>w, <2>6, <3>5, OnDiskHit
    <3> QED
      BY <2>1, <3>3, <3>6
  <2>7. CASE ~(cpc = "swap" /\ i <= Len(to_compact) /\ disk[compacted_number][k] # Absent)
    <3>1. \A x \in DOMAIN disk : disk[x][k] # Absent => x <= n
      <4> SUFFICES ASSUME NEW x \in DOMAIN disk, disk[x][k] # Absent PROVE x <= n
        OBVIOUS
      <4>1. CASE \E j \in 1..Len(sstables) : x = sstables[j].number /\ sstables[j].entries[k] # Absent
        BY <2>4, <4>1
      <4>2. CASE cpc = "delete" /\ \E j \in 1..Len(old_paths) : x = old_paths[j]
        BY <2>5, <4>2
      <4>3. CASE \E j \in 1..Len(sstables) : sstables[j].number > x /\ sstables[j].entries[k] # Absent
        <5>1. PICK j \in 1..Len(sstables) : sstables[j].number > x /\ sstables[j].number <= n
          BY <2>4, <4>3
        <5>2. x \in Nat /\ sstables[j].number \in Nat
          BY <1>n
        <5> QED
          BY <2>2, <5>1, <5>2
      <4>4. CASE cpc = "swap" /\ x = compacted_number
        <5>1. ~(i <= Len(to_compact))
          BY <2>7, <4>4
        <5>2. i \in Len(to_compact) + 1 .. Len(sstables)
          BY <1>n, <5>1
        <5>3. n > compacted_number
          BY <1>o, <4>4, <5>2 DEF Merging
        <5> QED
          BY <1>n, <2>2, <4>4, <5>3
      <4> QED
        BY <1>1, <4>1, <4>2, <4>3, <4>4
    <3>2. NewestOnDisk(disk, k) = disk[n][k]
      BY <1>n, <1>2, <2>2, <3>1, OnDiskHit
    <3> QED
      BY <2>1, <2>2, <3>2
  <2> QED
    BY <2>6, <2>7
\* No open table has one.
<1>3. ASSUME \A j \in 1..Len(sstables) : sstables[j].entries[k] = Absent
      PROVE  Optional(NewestOnDisk(disk, k)) = Optional(Newest(sstables, k))
  <2>1. Newest(sstables, k) = Absent /\ Optional(Absent) = Absent
    BY <1>n, <1>3, NewestMiss, DataAssumption DEF Optional
  <2>2. cpc = "swap" => disk[compacted_number][k] = Absent
    <3> SUFFICES ASSUME cpc = "swap" PROVE disk[compacted_number][k] = Absent
      OBVIOUS
    <3>1. \A j \in 1..Len(to_compact) : j \in 1..Len(sstables) /\ to_compact[j] = sstables[j]
      BY <1>n, <1>s DEF Merging
    <3>2. snap = Absent
      BY <1>n, <1>3, <3>1, NewestMiss DEF snap
    <3> QED
      BY <1>w, <3>2
  <2>3. ASSUME NEW x \in DOMAIN disk, disk[x][k] # Absent
        PROVE  cpc = "delete" /\ \E j \in 1..Len(old_paths) : x = old_paths[j]
    BY <1>1, <1>3, <2>2, <2>3
  <2>4. CASE \A x \in DOMAIN disk : disk[x][k] = Absent
    BY <2>1, <2>4, OnDiskMiss
  <2>5. CASE \E x \in DOMAIN disk : disk[x][k] # Absent
    <3> DEFINE m == Len(old_paths)
               n == Len(to_compact)
               old == {j \in 1..m : disk[old_paths[j]][k] # Absent}
               last == Max(old)
    <3>1. cpc = "delete" /\ old # {}
      BY <2>3, <2>5
    <3>2. m \in Nat /\ old \in SUBSET (0..m)
      BY <1>n
    <3>3. last \in old /\ \A j \in old : j <= last
      BY <3>1, <3>2, MaxExists
    <3>4. /\ m <= n
          /\ \A j \in 1..m : /\ old_paths[j] = to_compact[n - m + j].number
                             /\ old_paths[j] \in DOMAIN disk
                             /\ disk[old_paths[j]] = to_compact[n - m + j].entries
          /\ 1 \in 1..Len(sstables)
          /\ sstables[1].entries = DropTombstones(MergeSSTables(to_compact))
      BY <1>t, <1>n, <3>1 DEF MergeInv
    <3> HIDE DEF last, m, n
    <3>5. last \in 1..m /\ disk[old_paths[last]][k] # Absent
      BY <3>3
    <3>6. ASSUME NEW x \in DOMAIN disk, disk[x][k] # Absent PROVE x <= old_paths[last]
      <4>1. PICK j \in 1..m : x = old_paths[j]
        BY <2>3, <3>6 DEF m
      <4>2. j \in old
        BY <3>6, <4>1
      <4> QED
        BY <1>o, <3>3, <3>5, <4>1, <4>2 DEF m
    <3>7. NewestOnDisk(disk, k) = disk[old_paths[last]][k]
      BY <1>n, <3>4, <3>5, <3>6, OnDiskHit
    <3> DEFINE p == n - m + last
    <3>8. n \in Nat /\ n = Len(to_compact) /\ p \in 1..n
      BY <1>n, <3>2, <3>4, <3>5 DEF n
    <3>9. to_compact[p].entries[k] = disk[old_paths[last]][k]
      BY <3>4, <3>5
    <3>10. ASSUME NEW q \in 1..n, p < q PROVE to_compact[q].entries[k] = Absent
      <4> DEFINE j == q - n + m
      <4>1. j \in 1..m /\ n - m + j = q /\ last < j
        BY <3>2, <3>4, <3>5, <3>8, <3>10
      <4> HIDE DEF j
      <4>2. j \notin old
        BY <3>2, <3>3, <3>5, <4>1
      <4>3. disk[old_paths[j]] = to_compact[q].entries
        BY <3>4, <4>1
      <4> QED
        BY <4>1, <4>2, <4>3
    <3> HIDE DEF p, old
    <3>11. snap = to_compact[p].entries[k]
      <4>1. to_compact[p].entries[k] # Absent
        BY <3>5, <3>9
      <4>2. \A j \in 1..Len(to_compact) : p < j => to_compact[j].entries[k] = Absent
        BY <3>8, <3>10
      <4>3. p \in 1..Len(to_compact)
        BY <3>8
      <4> QED
        BY <1>n, <4>1, <4>2, <4>3, NewestHit DEF snap
    <3>12. (IF snap = Tombstone THEN Absent ELSE snap) = Absent
      BY <1>3, <1>m, <3>4 DEF snap
    <3>13. snap = Tombstone
      BY <3>5, <3>9, <3>11, <3>12
    <3> QED
      BY <2>1, <3>7, <3>9, <3>11, <3>13 DEF Optional
  <2> QED
    BY <2>4, <2>5
<1> QED
  BY <1>n, <1>2, <1>3, NewestCases

\* In a state with the invariant and not overtaken, recovery would answer with
\* the acknowledged writes.
LEMMA DurableState == DurableInv => DurableUnlessOvertaken
<1> SUFFICES ASSUME DurableInv, ~Overtaken, NEW k \in Key
             PROVE  Recovered(wal, disk, k) \in {kv[k]} \cup pending[k]
  BY DEF DurableUnlessOvertaken, AckedWritesSurvive
<1>t. TypeOK /\ RestInv /\ WriterInv /\ MemoryIsCurrent /\ LogInv /\ PendingInv
  BY DEF DurableInv, DatabaseInv
<1>1. CASE ~Live
  BY <1>t, <1>1 DEF RestInv
<1>2. CASE Live
  <2>1. kv[k] = IF memtable[k] # Absent THEN Optional(memtable[k]) ELSE Optional(Newest(sstables, k))
    BY <1>t, <1>2 DEF MemoryIsCurrent, Lookup
  <2>2. CASE wpc = "fsync" /\ k = wkey
    <3>1. wentry \in Entry /\ wentry # Absent
      BY <1>t, <2>2, DataAssumption DEF WriterInv, Entry
    <3>2. Replayed(wal)[k] = wentry
      BY <1>t, <1>2, <2>2 DEF LogInv, Upsert, TypeOK, Table
    <3> QED
      BY <1>t, <2>2, <3>1, <3>2 DEF Recovered, PendingInv
  <2>3. CASE ~(wpc = "fsync" /\ k = wkey)
    <3>1. Replayed(wal)[k] = memtable[k]
      BY <1>t, <1>2, <2>3 DEF LogInv, Upsert, TypeOK, Table
    <3>2. CASE memtable[k] # Absent
      BY <2>1, <3>1, <3>2 DEF Recovered
    <3>3. CASE memtable[k] = Absent
      BY <1>2, <2>1, <3>1, <3>3, DiskAnswers DEF Recovered
    <3> QED
      BY <3>2, <3>3
  <2> QED
    BY <2>2, <2>3
<1> QED
  BY <1>1, <1>2

\* Before the first open there is nothing to account for.
LEMMA DurableInit == Init => DurableInv
  BY InitInv, FilesInit DEF Init, DurableInv, DirectoryIsKnown, LogInv, PendingInv, Live

\* Every step keeps the invariant when neither an append nor an unlink fails.
LEMMA DurableStep ==
    ASSUME Faults \subseteq {"flush"}
    PROVE  DurableInv /\ [Next]_vars => DurableInv'
<1>1. "unlink" \notin Faults /\ ~AppendThrows
  BY DEF AppendThrows
<1> QED
  BY <1>1, StepInv, FilesStep, KnownStep, LogStep, PendingStep DEF DurableInv

-----------------------------------------------------------------------------
(* Durability *)

\* DESIGN.md:144 for every execution in which only flushes fail: whenever the
\* process dies, at any step of a put, a flush, a compaction or a recovery, no
\* acknowledged write is lost, unless a flush has overtaken a compaction.
THEOREM Durability ==
    ASSUME Faults \subseteq {"flush"}
    PROVE  Spec => []DurableUnlessOvertaken
<1>1. Init => DurableInv
  BY DurableInit
<1>2. DurableInv /\ [Next]_vars => DurableInv'
  BY DurableStep
<1>3. DurableInv => DurableUnlessOvertaken
  BY DurableState
<1> QED
  BY <1>1, <1>2, <1>3, PTL DEF Spec

-----------------------------------------------------------------------------
(* Database implements KVStore *)

\* The answers are the map of the history, in a live process and between two.
LEMMA ViewIsHistory == DatabaseInv => View = kv
<1> SUFFICES ASSUME DatabaseInv PROVE View = kv
  OBVIOUS
<1>1. kv \in [Key -> Value \cup {Absent}]
  BY DEF DatabaseInv, TypeOK
<1>2. ASSUME NEW k \in Key PROVE View[k] = kv[k]
  <2>1. CASE Live
    BY <2>1 DEF View, DatabaseInv, MemoryIsCurrent
  <2>2. CASE ~Live
    BY <2>2 DEF View, DatabaseInv, RestInv
  <2> QED
    BY <2>1, <2>2
<1> QED
  BY <1>1, <1>2 DEF View

\* A fresh directory is the empty store.
LEMMA RefinesInit == Init => Promise!Init
<1> SUFFICES ASSUME Init PROVE Promise!Init
  OBVIOUS
<1>1. View = kv
  BY InitInv, ViewIsHistory
<1> QED
  BY <1>1 DEF Init, Promise!Init

\* Only three steps are visible: the begin of a call, the update of the
\* MemTable, and the end of a process, which loses nothing but pending writes.
LEMMA RefinesStep ==
    ASSUME DurableInv, ~Overtaken, [Next]_vars, DatabaseInv'
    PROVE  [Promise!Next]_Promise!vars
<1>t. TypeOK /\ TypeOK' /\ View = kv /\ View' = kv'
  <2>1. DatabaseInv /\ TypeOK /\ TypeOK'
    BY DEF DurableInv, DatabaseInv
  <2>2. (DatabaseInv => View = kv)'
    BY ViewIsHistory, PTL
  <2>3. View' = kv'
    BY <2>2
  <2> QED
    BY <2>1, <2>3, ViewIsHistory
<1>1. CASE UNCHANGED <<kv, pending>>
  BY <1>t, <1>1 DEF Promise!vars
<1>2. ASSUME NEW k \in Key, NEW e \in Entry, BeginWrite(k, e) PROVE Promise!Next
  <2>1. Optional(e) \in Promise!Outcome
    BY OptionalType DEF Promise!Outcome
  <2>2. Promise!Begin(k, Optional(e))
    BY <1>t, <1>2 DEF BeginWrite, Promise!Begin
  <2> QED
    BY <2>1, <2>2 DEF Promise!Next
<1>3. CASE ApplyToMemTable
  <2>1. wkey \in Key /\ wentry \in Entry /\ Optional(wentry) \in pending[wkey]
    BY <1>3 DEF ApplyToMemTable, DurableInv, DatabaseInv, WriterInv, PendingInv
  <2>2. Optional(wentry) \in Promise!Outcome
    BY <2>1, OptionalType DEF Promise!Outcome
  <2>3. Promise!Commit(wkey, Optional(wentry))
    BY <1>t, <1>3, <2>1 DEF ApplyToMemTable, Promise!Commit
  <2> QED
    BY <2>1, <2>2, <2>3 DEF Promise!Next
<1>4. CASE ProcessEnds
  <2>1. kv' = [k \in Key |-> Recovered(wal, disk, k)] /\ pending' = [k \in Key |-> {}]
    BY <1>4 DEF ProcessEnds
  <2>2. \A k \in Key : Recovered(wal, disk, k) \in {kv[k]} \cup pending[k]
    BY DurableState DEF DurableUnlessOvertaken, AckedWritesSurvive
  <2>3. kv' \in [Key -> Promise!Outcome]
    BY <1>t DEF TypeOK, Promise!Outcome
  <2>4. Promise!Restart
    BY <1>t, <2>1, <2>2, <2>3 DEF Promise!Restart
  <2> QED
    BY <2>4 DEF Promise!Next
<1>5. CASE WriterNext
  BY <1>1, <1>3, <1>5 DEF WriterNext, AppendPart, AppendRest, AppendThrows, FlushCreate, FlushFill,
     FlushRename, FlushOpen, FlushReset, FlushThrows, historyVars
<1>6. CASE CompactorNext
  BY <1>1, <1>6 DEF CompactorNext, StartCompaction, CompactSnapshot, CompactMerge, CompactCreate,
     CompactFill, CompactRename, CompactSwap, CompactDelete, historyVars
<1>7. CASE ReadStep \/ Close \/ Open \/ OpenTable \/ OpenReplay
  BY <1>1, <1>7 DEF ReadStep, Close, Open, OpenTable, OpenReplay, historyVars
<1> QED
  BY <1>2, <1>4, <1>5, <1>6, <1>7, Steps

\* class Database implements the promise of kv_store.h and DESIGN.md in the
\* executions in which no flush overtakes a compaction and only flushes fail.
THEOREM Refinement ==
    ASSUME Faults \subseteq {"flush"}
    PROVE  CalmSpec => ImplementsKVStore
<1> DEFINE Inv == DurableInv /\ ~Overtaken
<1>1. Init => Inv
  <2>1. Init => ~Overtaken
    <3> SUFFICES ASSUME Init PROVE ~Overtaken
      OBVIOUS
    <3>1. sstables = <<>> /\ old_paths = <<>> /\ cpc = "wait"
      BY DEF Init
    <3>2. [i \in 1..Len(sstables) |-> sstables[i].number] = <<>>
      BY <3>1
    <3>3. ~Inverted(<<>>)
      BY DEF Inverted
    <3> QED
      BY <3>1, <3>2, <3>3 DEF Overtaken
  <2> QED
    BY <2>1, DurableInit
<1>2. Inv /\ [CalmNext]_vars => Inv'
  <2>1. CASE CalmNext
    BY <2>1, DurableStep DEF CalmNext
  <2>2. CASE UNCHANGED vars
    <3> SUFFICES ASSUME Inv PROVE Inv'
      OBVIOUS
    <3>1. DurableInv'
      BY <2>2, DurableStep
    <3>2. ~Overtaken'
      BY <2>2 DEF vars, tableVars, compactorVars, Overtaken, Inverted
    <3> QED
      BY <3>1, <3>2
  <2> QED
    BY <2>1, <2>2
<1>3. Init => Promise!Init
  BY RefinesInit
<1>4. Inv /\ Inv' /\ [CalmNext]_vars => [Promise!Next]_Promise!vars
  <2> SUFFICES ASSUME Inv, Inv', [CalmNext]_vars PROVE [Promise!Next]_Promise!vars
    OBVIOUS
  <2>1. [Next]_vars
    BY DEF CalmNext
  <2>2. DurableInv /\ ~Overtaken /\ DatabaseInv'
    BY DEF DurableInv
  <2> QED
    BY <2>1, <2>2, RefinesStep
<1> HIDE DEF Inv
<1> QED
  BY <1>1, <1>2, <1>3, <1>4, PTL DEF CalmSpec, ImplementsKVStore, Promise!Spec
=============================================================================
