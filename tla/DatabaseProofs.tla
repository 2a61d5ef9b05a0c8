--------------------------- MODULE DatabaseProofs ---------------------------
(***************************************************************************)
(* The safety invariants of Database, for any keys, values, thresholds,    *)
(* readers, faults and bounds.                                             *)
(***************************************************************************)
EXTENDS Database, LSMTablesProofs

USE DEF PushBack, NextNumber, CompactionIsDue, NothingToMerge, MergedList,
        OldPaths, SwapLock
-----------------------------------------------------------------------------
(* The inductive invariant *)

\* Outside a live process nothing is in progress and the history is what the
\* directory holds.
RestInv ==
    ~Live =>
        /\ wpc = "idle" /\ cpc = "wait" /\ memtable = EmptyTable
        /\ \A k \in Key : kv[k] = Recovered(wal, disk, k)

\* The constructor opens files in the order of their numbers.
OpeningInv ==
    /\ phase = "down" => sstables = <<>>
    /\ phase = "opening" =>
        /\ \A i \in 1..Len(sstables) : /\ sstables[i].number \in DOMAIN disk
                                       /\ disk[sstables[i].number] = sstables[i].entries
        /\ \A i, j \in 1..Len(sstables) : i < j => sstables[i].number < sstables[j].number
        /\ \A i \in 1..Len(sstables), n \in DOMAIN disk \ Opened : sstables[i].number < n

\* A file number is taken once.
NumbersInv == \A i \in 1..Len(sstables) : sstables[i].number < next_sstable_number

\* Recovery will find finitely many files, all complete.
DirectoryInv ==
    /\ ReopenNeverThrows
    /\ \E b \in Nat : \A n \in DOMAIN disk : n <= b

\* From MemTable to .tmp file to SSTable to the back of the list: the same
\* entries.
WriterInv ==
    /\ wpc # "idle" => wkey \in Key /\ wentry \in Entry
    /\ wpc = "rename" => /\ next_sstable_number \in DOMAIN tmp
                         /\ tmp[next_sstable_number] = memtable
    /\ wpc = "open" => /\ next_sstable_number \in DOMAIN disk
                       /\ disk[next_sstable_number] = memtable
    /\ wpc = "reset" => /\ Len(sstables) > 0
                        /\ sstables[Len(sstables)].entries = memtable

\* The merged file holds the merge of the snapshot, under a number of its own.
CompactorInv ==
    /\ cpc \in {"merge", "create", "fill", "rename", "swap"} => Len(to_compact) > 0
    /\ cpc \in {"create", "fill", "rename", "swap"} =>
        /\ compacted_number < next_sstable_number
        /\ merged = DropTombstones(MergeSSTables(to_compact))
    /\ cpc = "rename" => compacted_number \in DOMAIN tmp /\ tmp[compacted_number] = merged
    /\ cpc = "swap" => compacted_number \in DOMAIN disk /\ disk[compacted_number] = merged
    /\ cpc = "delete" => /\ Len(old_paths) > 0
                         /\ \A i \in 1..Len(old_paths) : old_paths[i] < next_sstable_number

\* A get: the tables it has passed hold nothing for its key, and its answer
\* is the current one.
GetterPart(g) ==
    /\ g.pc = "idle" => g.i = 0
    /\ g.pc # "idle" => g.key \in Key /\ wpc = "idle" /\ phase = "up"
    /\ g.i <= Len(sstables)
    /\ g.pc = "tables" =>
        /\ memtable[g.key] = Absent
        /\ \A j \in 1..Len(sstables) : g.i < j => sstables[j].entries[g.key] = Absent
        /\ g.value = Absent
    /\ g.pc = "done" => g.value = kv[g.key]

GetterInv == \A r \in Getter : GetterPart(getter[r])

\* A scan: what it has gathered is what the tables it has passed say.
ScannedPart(s) ==
    [k \in Key |-> IF InRange(k, s.start, s.end)
                   THEN Newest(SubSeq(sstables, 1, s.i - 1), k) ELSE Absent]

ScannerPart(s) ==
    /\ s.pc = "idle" => s.i = 0
    /\ s.pc # "idle" => wpc = "idle" /\ phase = "up"
    /\ s.i <= Len(sstables) + 1
    /\ s.pc = "tables" => s.i > 0 /\ s.merged = ScannedPart(s)
    /\ s.pc = "done" => s.merged = [k \in Key |-> IF InRange(k, s.start, s.end)
                                                  THEN kv[k] ELSE Absent]

ScannerInv == \A r \in Scanner : ScannerPart(scanner[r])

\* The conjunction, which every step preserves.
DatabaseInv ==
    /\ TypeOK
    /\ RestInv
    /\ OpeningInv
    /\ NumbersInv
    /\ DirectoryInv
    /\ WriterInv
    /\ SnapshotIsPrefix
    /\ CompactorInv
    /\ MemoryIsCurrent
    /\ GetterInv
    /\ ScannerInv

-----------------------------------------------------------------------------
(* TypeOK *)

\* Overwriting an element keeps a sequence a sequence.
LEMMA OverwriteInSeq ==
    ASSUME NEW T, NEW s \in Seq(T), NEW e \in T, NEW i
    PROVE  [s EXCEPT ![i] = e] \in Seq(T)
<1> DEFINE t == [s EXCEPT ![i] = e]
<1>0. s \in [1..Len(s) -> T]
  OBVIOUS
<1>1. t \in [1..Len(s) -> T]
  BY <1>0
<1> HIDE DEF t
<1>2. Len(s) \in Nat
  OBVIOUS
<1>3. t \in Seq(T)
  BY <1>1, <1>2
<1> QED
  BY <1>3 DEF t

\* A caller never sees a tombstone.
LEMMA OptionalType ==
    ASSUME NEW e \in Entry \cup {Absent}
    PROVE  Optional(e) \in Value \cup {Absent}
  BY DEF Optional, Entry

\* What recovery would answer is a value or nothing.
LEMMA RecoveredType ==
    ASSUME TypeOK, DirectoryInv, NEW k \in Key
    PROVE  Recovered(wal, disk, k) \in Value \cup {Absent}
<1> DEFINE hits == {n \in DOMAIN disk : disk[n][k] # Absent}
<1>1. Replayed(wal)[k] \in Entry \cup {Absent}
  BY ReplayedType DEF TypeOK, Table
<1>2. NewestOnDisk(disk, k) \in Entry \cup {Absent}
  <2>1. CASE hits = {}
    BY <2>1 DEF NewestOnDisk
  <2>2. CASE hits # {}
    <3>1. PICK b \in Nat : \A n \in DOMAIN disk : n <= b
      BY DEF DirectoryInv
    <3>2. hits \in SUBSET (0..b)
      BY <3>1 DEF TypeOK, IsDirectory
    <3>3. Max(hits) \in hits
      BY <2>2, <3>2, MaxExists
    <3>4. disk[Max(hits)] \in Table
      BY <3>3 DEF TypeOK, IsDirectory, DirectoryInv, ReopenNeverThrows
    <3> QED
      BY <2>2, <3>4 DEF NewestOnDisk, Table
  <2> QED
    BY <2>1, <2>2
<1> QED
  BY <1>1, <1>2, OptionalType DEF Recovered

\* Every action preserves TypeOK.
LEMMA TypeStep == DatabaseInv /\ [Next]_vars => TypeOK'
<1> SUFFICES ASSUME DatabaseInv, [Next]_vars PROVE TypeOK'
  OBVIOUS
<1> USE DataAssumption, ParameterAssumption
<1> USE DEF walVars, fileVars, tableVars, writerVars, compactorVars, readerVars, historyVars,
            Entry, WriterStep, CompactorStep
<1>t. TypeOK
  BY DEF DatabaseInv
<1>1. CASE AppendPart
  BY <1>t, <1>1 DEF TypeOK, AppendPart, WalRecord
<1>2. CASE AppendRest
  <2>1. [key |-> wkey, entry |-> wentry] \in WalRecord \cup {Torn}
    BY <1>2 DEF AppendRest, WriterInv, DatabaseInv, WalRecord
  <2>2. wal' \in Seq(WalRecord \cup {Torn})
    BY <1>t, <1>2, <2>1, OverwriteInSeq DEF TypeOK, AppendRest
  <2> QED
    BY <1>t, <1>2, <2>2 DEF TypeOK, AppendRest
<1>3. CASE AppendThrows
  BY <1>t, <1>3 DEF TypeOK, AppendThrows
<1>4. CASE ApplyToMemTable
  BY <1>t, <1>4 DEF TypeOK, ApplyToMemTable, WriterInv, DatabaseInv, Upsert, Table, Optional
<1>5. CASE FlushCreate
  BY <1>t, <1>5 DEF TypeOK, FlushCreate, CreateTmp, AddFile, IsDirectory
<1>6. CASE FlushFill
  BY <1>t, <1>6 DEF TypeOK, FlushFill, FillTmp, AddFile, IsDirectory
<1>7. CASE FlushRename
  BY <1>t, <1>7 DEF TypeOK, FlushRename, RenameTmp, AddFile, RemoveFile,
     IsDirectory, WriterInv, DatabaseInv
<1>8. CASE FlushOpen
  BY <1>t, <1>8 DEF TypeOK, FlushOpen, WriterInv, DatabaseInv, SSTable
<1>9. CASE FlushReset
  BY <1>t, <1>9 DEF TypeOK, FlushReset, EmptyTable, Table
<1>10. CASE FlushThrows
  BY <1>t, <1>10 DEF TypeOK, FlushThrows
<1>11. CASE StartCompaction
  BY <1>t, <1>11 DEF TypeOK, StartCompaction
<1>12. CASE CompactSnapshot
  BY <1>t, <1>12 DEF TypeOK, CompactSnapshot
<1>13. CASE CompactMerge
  BY <1>t, <1>13, NewestType DEF TypeOK, CompactMerge, DropTombstones, MergeSSTables, Table
<1>14. CASE CompactCreate
  BY <1>t, <1>14 DEF TypeOK, CompactCreate, CreateTmp, AddFile, IsDirectory
<1>15. CASE CompactFill
  BY <1>t, <1>15 DEF TypeOK, CompactFill, FillTmp, AddFile, IsDirectory
<1>16. CASE CompactRename
  BY <1>t, <1>16 DEF TypeOK, CompactRename, RenameTmp, AddFile, RemoveFile,
     IsDirectory, CompactorInv, DatabaseInv
<1>17. CASE CompactSwap
  <2> DEFINE n == Len(to_compact)
  <2>1. n \in Nat /\ Len(sstables) \in Nat /\ n <= Len(sstables)
    BY <1>t, <1>17 DEF TypeOK, CompactSwap, SnapshotIsPrefix, DatabaseInv
  <2>2. \A i \in 1..n : sstables[i].number \in Nat
    BY <1>t, <2>1, ElementType DEF TypeOK
  <2>3. old_paths' \in Seq(Nat)
    BY <1>17, <2>1, <2>2 DEF CompactSwap
  <2>4. [number |-> compacted_number, entries |-> disk[compacted_number]] \in SSTable
    BY <1>t, <1>17 DEF TypeOK, CompactSwap, CompactorInv, DatabaseInv, SSTable
  <2>5. sstables' \in Seq(SSTable)
    <3>1. SubSeq(sstables, n + 1, Len(sstables)) \in Seq(SSTable)
      BY <1>t, <2>1 DEF TypeOK
    <3> QED
      BY <1>17, <2>4, <3>1 DEF CompactSwap
  <2> QED
    BY <1>t, <1>17, <2>3, <2>5 DEF TypeOK, CompactSwap
<1>18. CASE CompactDelete
  <2>1. IsDirectory(disk')
    BY <1>t, <1>18 DEF TypeOK, CompactDelete, RemoveFile, IsDirectory
  <2>2. old_paths' \in Seq(Nat)
    BY <1>t, <1>18 DEF TypeOK, CompactDelete, CompactorInv, DatabaseInv
  <2>3. cpc' \in CompactorStep /\ to_compact' \in Seq(SSTable) /\ merged' \in Table
    BY <1>t, <1>18 DEF TypeOK, CompactDelete, EmptyTable, Table
  <2> QED
    BY <1>t, <1>18, <2>1, <2>2, <2>3 DEF TypeOK, CompactDelete
<1>19. ASSUME NEW k \in Key, NEW e \in Entry, BeginWrite(k, e) PROVE TypeOK'
  BY <1>t, <1>19 DEF TypeOK, BeginWrite, Optional
<1>20. ASSUME NEW r \in Getter, NEW k \in Key, Get(r, k) PROVE TypeOK'
  BY <1>t, <1>20 DEF TypeOK, Get, GetState, Optional, Table
<1>21. ASSUME NEW r \in Getter, GetFromTable(r) PROVE TypeOK'
  <2> DEFINE g == getter[r]
  <2>1. g \in GetState /\ g.key \in Key /\ g.i <= Len(sstables)
    BY <1>t, <1>21 DEF TypeOK, GetFromTable, GetterInv, GetterPart, DatabaseInv
  <2>2. g.i > 0 => sstables[g.i] \in SSTable
    BY <1>t, <2>1 DEF TypeOK, GetState
  <2>3. g.i > 0 => Optional(sstables[g.i].entries[g.key]) \in Value \cup {Absent}
    BY <2>1, <2>2, OptionalType DEF SSTable, Table
  <2>4. CASE g.i > 0 /\ sstables[g.i].entries[g.key] # Absent
    <3> DEFINE new == [pc |-> "done", key |-> g.key, i |-> g.i,
                       value |-> Optional(sstables[g.i].entries[g.key])]
    <3>1. new \in GetState
      BY <2>1, <2>3, <2>4 DEF GetState
    <3>2. getter' = [getter EXCEPT ![r] = new]
      BY <1>21, <2>4 DEF GetFromTable
    <3> HIDE DEF new
    <3>3. getter' \in [Getter -> GetState]
      BY <1>t, <3>1, <3>2 DEF TypeOK
    <3> QED
      BY <1>t, <1>21, <3>3 DEF TypeOK, GetFromTable
  <2>5. CASE ~(g.i > 0 /\ sstables[g.i].entries[g.key] # Absent)
    <3> DEFINE new == IF g.i = 0 THEN [g EXCEPT !.pc = "done"] ELSE [g EXCEPT !.i = @ - 1]
    <3>1. new \in GetState
      <4>1. CASE g.i = 0
        BY <2>1, <4>1 DEF GetState
      <4>2. CASE g.i # 0
        <5>1. g.i - 1 \in Nat
          BY <2>1, <4>2 DEF GetState
        <5> QED
          BY <2>1, <4>2, <5>1 DEF GetState
      <4> QED
        BY <4>1, <4>2
    <3>2. getter' = [getter EXCEPT ![r] = new]
      BY <1>21, <2>5 DEF GetFromTable
    <3> HIDE DEF new
    <3>3. getter' \in [Getter -> GetState]
      BY <1>t, <3>1, <3>2 DEF TypeOK
    <3> QED
      BY <1>t, <1>21, <3>3 DEF TypeOK, GetFromTable
  <2> QED
    BY <2>4, <2>5
<1>22. ASSUME NEW r \in Getter, GetReturn(r) PROVE TypeOK'
  BY <1>t, <1>22 DEF TypeOK, GetReturn, GetState, NoGet
<1>23. ASSUME NEW r \in Scanner, NEW lo \in ScanBound, NEW hi \in ScanBound, Scan(r, lo, hi)
       PROVE  TypeOK'
  BY <1>t, <1>23 DEF TypeOK, Scan, ScanState, EmptyTable, Table
<1>24. ASSUME NEW r \in Scanner, ScanTable(r) PROVE TypeOK'
  <2> DEFINE s == scanner[r]
  <2>0. s \in ScanState /\ ScannerPart(s) /\ s.pc = "tables" /\ s.i <= Len(sstables)
    BY <1>t, <1>24 DEF TypeOK, ScanTable, ScannerInv, DatabaseInv
  <2>1. s \in ScanState /\ s.i \in 1..Len(sstables)
    BY <2>0 DEF ScannerPart, ScanState
  <2>2. sstables[s.i].entries \in Table
    BY <1>t, <2>1, ElementType DEF TypeOK
  <2>3. Overlay(s.merged, sstables[s.i].entries, s.start, s.end) \in Table
    BY <2>1, <2>2 DEF Overlay, Table, ScanState
  <2> DEFINE new == [pc |-> "tables", start |-> s.start, end |-> s.end, i |-> s.i + 1,
                     merged |-> Overlay(s.merged, sstables[s.i].entries, s.start, s.end)]
  <2>4. new \in ScanState
    BY <2>1, <2>3 DEF ScanState
  <2>5. scanner' = [scanner EXCEPT ![r] = new]
    BY <1>24 DEF ScanTable
  <2> HIDE DEF new
  <2>6. scanner' \in [Scanner -> ScanState]
    BY <1>t, <2>4, <2>5 DEF TypeOK
  <2> QED
    BY <1>t, <1>24, <2>6 DEF TypeOK, ScanTable
<1>25. ASSUME NEW r \in Scanner, ScanMemTable(r) PROVE TypeOK'
  <2> DEFINE s == scanner[r]
  <2>1. s \in ScanState
    BY <1>t DEF TypeOK
  <2>2. DropTombstones(Overlay(s.merged, memtable, s.start, s.end)) \in Table
    BY <1>t, <2>1 DEF TypeOK, Overlay, DropTombstones, Table, ScanState
  <2>3. scanner' \in [Scanner -> ScanState]
    BY <1>t, <1>25, <2>1, <2>2 DEF TypeOK, ScanMemTable, ScanState
  <2> QED
    BY <1>t, <1>25, <2>3 DEF TypeOK, ScanMemTable
<1>26. ASSUME NEW r \in Scanner, ScanReturn(r) PROVE TypeOK'
  BY <1>t, <1>26 DEF TypeOK, ScanReturn, ScanState, NoScan, EmptyTable, Table
<1>27. ASSUME ProcessEnds, restarts' \in Nat PROVE TypeOK'
  <2>1. kv' \in [Key -> Value \cup {Absent}]
    BY <1>t, <1>27, RecoveredType DEF ProcessEnds, DatabaseInv
  <2>2. getter' \in [Getter -> GetState] /\ scanner' \in [Scanner -> ScanState]
    BY <1>27 DEF ProcessEnds, GetState, ScanState, NoGet, NoScan, EmptyTable, Table
  <2>3. memtable' \in Table /\ merged' \in Table
    BY <1>27 DEF ProcessEnds, EmptyTable, Table
  <2>4. wal' = wal /\ disk' = disk /\ tmp' = tmp /\ writes' = writes
    BY <1>27 DEF ProcessEnds
  <2>5. pending' \in [Key -> SUBSET (Value \cup {Absent})]
    BY <1>27 DEF ProcessEnds
  <2>6. sstables' \in Seq(SSTable) /\ to_compact' \in Seq(SSTable) /\ old_paths' \in Seq(Nat)
    BY <1>27 DEF ProcessEnds
  <2> QED
    BY <1>t, <1>27, <2>1, <2>2, <2>3, <2>4, <2>5, <2>6 DEF TypeOK, ProcessEnds
<1>28. CASE Close
  BY <1>t, <1>28 DEF TypeOK, Close
<1>29. CASE Open
  BY <1>t, <1>29 DEF TypeOK, Open, IsDirectory
<1>30. CASE OpenTable
  <2>1. PICK n \in DOMAIN disk \ Opened :
           /\ disk[n] # Partial
           /\ sstables' = Append(sstables, [number |-> n, entries |-> disk[n]])
           /\ next_sstable_number' = n + 1
    BY <1>30 DEF OpenTable
  <2>2. n \in Nat /\ disk[n] \in Table
    BY <1>t, <2>1 DEF TypeOK, IsDirectory
  <2>3. [number |-> n, entries |-> disk[n]] \in SSTable
    BY <2>2 DEF SSTable
  <2>4. sstables' \in Seq(SSTable) /\ next_sstable_number' \in Nat
    BY <1>t, <2>1, <2>2, <2>3 DEF TypeOK
  <2> QED
    BY <1>t, <1>30, <2>4 DEF TypeOK, OpenTable
<1>31. CASE OpenReplay
  <2>1. memtable' \in Table /\ wal' \in Seq(WalRecord \cup {Torn})
    BY <1>t, <1>31, ReplayedType, TruncateTailType DEF TypeOK, OpenReplay
  <2> QED
    BY <1>t, <1>31, <2>1 DEF TypeOK, OpenReplay
<1>32. CASE UNCHANGED vars
  BY <1>t, <1>32 DEF TypeOK, vars
<1>33. CASE WriterNext
  BY <1>1, <1>2, <1>3, <1>4, <1>5, <1>6, <1>7, <1>8, <1>9, <1>10, <1>33 DEF WriterNext
<1>34. CASE CompactorNext
  BY <1>11, <1>12, <1>13, <1>14, <1>15, <1>16, <1>17, <1>18, <1>34 DEF CompactorNext
<1>35. CASE Crash \/ CloseJoin
  <2>1. restarts \in Nat
    BY <1>t DEF TypeOK
  <2>2. ProcessEnds /\ restarts' \in Nat
    BY <1>35, <2>1 DEF Crash, CloseJoin
  <2> QED
    BY <1>27, <2>2
<1>36. ASSUME NEW r \in Getter, GetterNext(r) \/ \E k \in Key : Get(r, k) PROVE TypeOK'
  BY <1>20, <1>21, <1>22, <1>36 DEF GetterNext
<1>37. ASSUME NEW r \in Scanner,
              ScannerNext(r) \/ \E lo, hi \in ScanBound : Scan(r, lo, hi)
       PROVE  TypeOK'
  BY <1>23, <1>24, <1>25, <1>26, <1>37 DEF ScannerNext
<1>38. ASSUME NEW k \in Key, Remove(k) \/ \E v \in Value : Put(k, v) PROVE TypeOK'
  BY <1>19, <1>38 DEF Remove, Put
<1> QED
  BY <1>28, <1>29, <1>30, <1>31, <1>32, <1>33, <1>34, <1>35, <1>36, <1>37, <1>38
     DEF Next, LifecycleNext
-----------------------------------------------------------------------------
(* The kinds of steps *)

\* A step of a get or scan changes nothing but the position of the reader.
ReadStep == UNCHANGED <<walVars, fileVars, phase, tableVars, compaction_requested,
                        writerVars, compactorVars, historyVars>>

\* Every step of a get or scan is such a step.
LEMMA ReadSteps ==
    ASSUME NEW r,
           \/ \E k \in Key : Get(r, k)
           \/ \E lo, hi \in ScanBound : Scan(r, lo, hi)
           \/ GetterNext(r) \/ ScannerNext(r)
    PROVE  ReadStep
  BY DEF ReadStep, Get, GetterNext, GetFromTable, GetReturn, Scan, ScannerNext, ScanTable,
     ScanMemTable, ScanReturn

\* A step is one of a writer, of the compaction thread, of a reader, or of the
\* life of the process.
LEMMA Steps ==
    ASSUME [Next]_vars
    PROVE  \/ \E k \in Key, e \in Entry : BeginWrite(k, e)
           \/ WriterNext \/ CompactorNext \/ ReadStep
           \/ ProcessEnds \/ Close \/ Open \/ OpenTable \/ OpenReplay
<1>1. CASE \E k \in Key : Remove(k) \/ \E v \in Value : Put(k, v)
  BY <1>1 DEF Remove, Put, Entry
<1>2. CASE \/ \E r \in Getter : GetterNext(r) \/ \E k \in Key : Get(r, k)
           \/ \E r \in Scanner : ScannerNext(r) \/ \E lo, hi \in ScanBound : Scan(r, lo, hi)
  BY <1>2, ReadSteps
<1>3. CASE UNCHANGED vars
  BY <1>3 DEF vars, ReadStep
<1> QED
  BY <1>1, <1>2, <1>3 DEF Next, LifecycleNext, Crash, CloseJoin

\* Outside a live process only the constructor runs.
LEMMA RestSteps ==
    ASSUME DatabaseInv, [Next]_vars, ~Live
    PROVE  ReadStep \/ ProcessEnds \/ Open \/ OpenTable \/ OpenReplay
<1>1. wpc = "idle" /\ cpc = "wait" /\ phase # "up"
  BY DEF DatabaseInv, RestInv, Live
<1>2. ~WriterNext
  BY <1>1 DEF WriterNext, AppendPart, AppendRest, AppendThrows, ApplyToMemTable, FlushCreate,
     FlushFill, FlushRename, FlushOpen, FlushReset, FlushThrows
<1>3. ~CompactorNext
  BY <1>1 DEF CompactorNext, StartCompaction, CompactSnapshot, CompactMerge, CompactCreate,
     CompactFill, CompactRename, CompactSwap, CompactDelete
<1>4. ~Close /\ ~\E k \in Key, e \in Entry : BeginWrite(k, e)
  BY <1>1 DEF Close, BeginWrite
<1> QED
  BY <1>2, <1>3, <1>4, Steps

\* A live process stays live until it ends.
LEMMA LiveSteps ==
    ASSUME DatabaseInv, [Next]_vars, Live
    PROVE  Live' \/ ProcessEnds
<1>1. ASSUME NEW k \in Key, NEW e \in Entry, BeginWrite(k, e) PROVE Live'
  BY <1>1 DEF BeginWrite, Live
<1>2. CASE WriterNext
  BY <1>2 DEF WriterNext, AppendPart, AppendRest, AppendThrows, ApplyToMemTable, FlushCreate,
     FlushFill, FlushRename, FlushOpen, FlushReset, FlushThrows, Live
<1>3. CASE CompactorNext
  BY <1>3 DEF CompactorNext, StartCompaction, CompactSnapshot, CompactMerge, CompactCreate,
     CompactFill, CompactRename, CompactSwap, CompactDelete, Live
<1>4. CASE ReadStep \/ Close \/ Open \/ OpenTable \/ OpenReplay
  BY <1>4 DEF ReadStep, Close, Open, OpenTable, OpenReplay, Live
<1> QED
  BY <1>1, <1>2, <1>3, <1>4, Steps

-----------------------------------------------------------------------------
(* Recovery *)

\* The end of a process establishes what the constructor relies on, and its
\* steps keep the list sorted by file number.
LEMMA RestStep == DatabaseInv /\ [Next]_vars => RestInv' /\ OpeningInv'
<1> SUFFICES ASSUME DatabaseInv, [Next]_vars PROVE RestInv' /\ OpeningInv'
  OBVIOUS
<1>t. TypeOK /\ RestInv /\ OpeningInv
  BY DEF DatabaseInv
<1>1. CASE ProcessEnds
  BY <1>1 DEF ProcessEnds, RestInv, OpeningInv, Live, fileVars, walVars, EmptyTable
<1>2. CASE Live'
  BY <1>2 DEF RestInv, OpeningInv, Live
<1>3. CASE ~Live /\ ReadStep
  BY <1>t, <1>3 DEF ReadStep, RestInv, OpeningInv, Opened, Live, walVars, fileVars, tableVars,
     writerVars, compactorVars, historyVars
<1>4. CASE Open
  BY <1>t, <1>4 DEF Open, RestInv, OpeningInv, Live, walVars, tableVars, writerVars,
     compactorVars, historyVars
<1>5. CASE OpenReplay
  BY <1>5 DEF OpenReplay, RestInv, OpeningInv, Live
<1>6. CASE OpenTable
  <2>1. PICK n \in DOMAIN disk \ Opened :
           /\ \A m \in DOMAIN disk \ Opened : n <= m
           /\ sstables' = Append(sstables, [number |-> n, entries |-> disk[n]])
    BY <1>6 DEF OpenTable
  <2>2. phase = "opening" /\ phase' = "opening" /\ disk' = disk /\ wal' = wal /\ kv' = kv
    BY <1>6 DEF OpenTable, fileVars, walVars, historyVars
  <2>3. RestInv'
    BY <1>t, <1>6, <2>2 DEF OpenTable, RestInv, Live, writerVars, compactorVars
  <2>4. /\ Len(sstables) \in Nat /\ Len(sstables') = Len(sstables) + 1
        /\ sstables'[Len(sstables) + 1] = [number |-> n, entries |-> disk[n]]
        /\ \A i \in 1..Len(sstables) : sstables'[i] = sstables[i]
    BY <1>t, <2>1 DEF TypeOK
  <2>5. /\ n \in Nat
        /\ \A i \in 1..Len(sstables) : sstables[i].number \in Nat /\ sstables[i].number < n
    BY <1>t, <2>1, <2>2, ElementType DEF TypeOK, IsDirectory, OpeningInv
  <2>6. \A i \in 1..Len(sstables') : /\ sstables'[i].number \in DOMAIN disk
                                      /\ disk[sstables'[i].number] = sstables'[i].entries
    BY <1>t, <2>1, <2>2, <2>4 DEF OpeningInv
  <2>7. \A i, j \in 1..Len(sstables') : i < j => sstables'[i].number < sstables'[j].number
    <3> SUFFICES ASSUME NEW i \in 1..Len(sstables'), NEW j \in 1..Len(sstables'), i < j
                 PROVE  sstables'[i].number < sstables'[j].number
      OBVIOUS
    <3>1. i \in 1..Len(sstables)
      BY <2>4
    <3>2. CASE j = Len(sstables) + 1
      BY <2>4, <2>5, <3>1, <3>2
    <3>3. CASE j \in 1..Len(sstables)
      BY <1>t, <2>2, <2>4, <3>1, <3>3 DEF OpeningInv
    <3> QED
      BY <2>4, <3>2, <3>3
  <2>8. Opened' = Opened \cup {n}
    BY <2>4 DEF Opened
  <2>9. \A i \in 1..Len(sstables'), m \in DOMAIN disk \ Opened' : sstables'[i].number < m
    <3> SUFFICES ASSUME NEW i \in 1..Len(sstables'), NEW m \in DOMAIN disk \ Opened'
                 PROVE  sstables'[i].number < m
      OBVIOUS
    <3>1. m \in Nat /\ n < m
      BY <1>t, <2>1, <2>5, <2>8 DEF TypeOK, IsDirectory
    <3> QED
      BY <2>4, <2>5, <3>1
  <2> QED
    BY <2>2, <2>3, <2>6, <2>7, <2>9 DEF OpeningInv
<1> QED
  BY <1>1, <1>2, <1>3, <1>4, <1>5, <1>6, RestSteps, LiveSteps

-----------------------------------------------------------------------------
(* File numbers and files *)

\* No table gets a number that was given out before.
LEMMA NumbersStep == DatabaseInv /\ [Next]_vars => NumbersInv'
<1> SUFFICES ASSUME DatabaseInv, [Next]_vars PROVE NumbersInv'
  OBVIOUS
<1>t. TypeOK /\ NumbersInv
  BY DEF DatabaseInv
<1>u. /\ Len(sstables) \in Nat /\ next_sstable_number \in Nat
      /\ \A i \in 1..Len(sstables) : sstables[i].number \in Nat
  <2>1. sstables \in Seq(SSTable) /\ next_sstable_number \in Nat
    BY <1>t DEF TypeOK
  <2>2. Len(sstables) \in Nat
    BY <2>1
  <2>3. ASSUME NEW i \in 1..Len(sstables) PROVE sstables[i].number \in Nat
    BY <2>1, ElementType
  <2> QED
    BY <2>1, <2>2, <2>3
<1>1. CASE UNCHANGED <<sstables, next_sstable_number>>
  BY <1>t, <1>1 DEF NumbersInv
<1>2. CASE FlushOpen
  <2>1. /\ Len(sstables') = Len(sstables) + 1
        /\ sstables'[Len(sstables) + 1].number = next_sstable_number
        /\ \A i \in 1..Len(sstables) : sstables'[i] = sstables[i]
        /\ next_sstable_number' = next_sstable_number + 1
    BY <1>t, <1>2 DEF FlushOpen, TypeOK
  <2> QED
    BY <1>t, <1>u, <2>1 DEF NumbersInv
<1>3. CASE CompactMerge
  BY <1>t, <1>u, <1>3 DEF CompactMerge, NumbersInv
<1>4. CASE CompactSwap
  <2> DEFINE n == Len(to_compact)
             rest == SubSeq(sstables, n + 1, Len(sstables))
  <2>1. n \in Nat /\ n <= Len(sstables) /\ compacted_number \in Nat
    BY <1>t, <1>4 DEF CompactSwap, TypeOK, DatabaseInv, SnapshotIsPrefix
  <2>2. /\ rest \in Seq(SSTable) /\ Len(rest) = Len(sstables) - n
        /\ \A i \in 1..Len(rest) : rest[i] = sstables[n + i]
    BY <1>t, <2>1 DEF TypeOK
  <2> DEFINE head == [number |-> compacted_number, entries |-> disk[compacted_number]]
  <2>3. sstables' = <<head>> \o rest /\ next_sstable_number' = next_sstable_number
    BY <1>4 DEF CompactSwap
  <2>4. head.number < next_sstable_number
    BY <1>4 DEF CompactSwap, DatabaseInv, CompactorInv
  <2> HIDE DEF rest, head
  <2>5. /\ Len(sstables') = 1 + Len(rest) /\ sstables'[1] = head
        /\ \A i \in 2..Len(sstables') : sstables'[i] = rest[i - 1]
    BY <2>2, <2>3
  <2>6. \A i \in 1..Len(rest) : rest[i].number < next_sstable_number
    BY <1>t, <1>u, <2>1, <2>2 DEF NumbersInv
  <2>7. ASSUME NEW i \in 1..Len(sstables') PROVE sstables'[i].number < next_sstable_number
    <3>1. CASE i = 1
      BY <2>4, <2>5, <3>1
    <3>2. CASE i # 1
      <4>1. Len(rest) \in Nat /\ Len(sstables') = 1 + Len(rest)
        BY <2>2, <2>5
      <4>2. i \in 2..Len(sstables') /\ i - 1 \in 1..Len(rest)
        BY <3>2, <4>1
      <4>3. sstables'[i] = rest[i - 1]
        BY <2>5, <4>2
      <4> QED
        BY <2>6, <4>2, <4>3
    <3> QED
      BY <3>1, <3>2
  <2> QED
    BY <2>3, <2>7 DEF NumbersInv
<1>5. CASE ProcessEnds
  BY <1>5 DEF ProcessEnds, NumbersInv
<1>6. CASE OpenTable
  <2>1. PICK n \in DOMAIN disk \ Opened :
           /\ sstables' = Append(sstables, [number |-> n, entries |-> disk[n]])
           /\ next_sstable_number' = n + 1
    BY <1>6 DEF OpenTable
  <2>2. n \in Nat /\ \A i \in 1..Len(sstables) : sstables[i].number < n
    BY <1>t, <1>6 DEF OpenTable, TypeOK, IsDirectory, DatabaseInv, OpeningInv
  <2>3. /\ Len(sstables') = Len(sstables) + 1
        /\ sstables'[Len(sstables) + 1].number = n
        /\ \A i \in 1..Len(sstables) : sstables'[i] = sstables[i]
    BY <1>t, <2>1 DEF TypeOK
  <2> QED
    BY <1>u, <2>1, <2>2, <2>3 DEF NumbersInv
<1>7. ASSUME NEW k \in Key, NEW e \in Entry, BeginWrite(k, e) PROVE NumbersInv'
  BY <1>1, <1>7 DEF BeginWrite, tableVars
<1>8. CASE ReadStep \/ Close \/ Open \/ OpenReplay
  BY <1>1, <1>8 DEF ReadStep, Close, Open, OpenReplay, tableVars
<1>9. CASE WriterNext
  BY <1>1, <1>2, <1>9 DEF WriterNext, AppendPart, AppendRest, AppendThrows, ApplyToMemTable,
     FlushCreate, FlushFill, FlushRename, FlushReset, FlushThrows, tableVars
<1>10. CASE CompactorNext
  BY <1>1, <1>3, <1>4, <1>10 DEF CompactorNext, StartCompaction, CompactSnapshot, CompactCreate,
     CompactFill, CompactRename, CompactDelete, tableVars
<1> QED
  BY <1>5, <1>6, <1>7, <1>8, <1>9, <1>10, Steps

\* A rename only ever makes a complete file visible.
LEMMA DirectoryStep == DatabaseInv /\ [Next]_vars => DirectoryInv'
<1> SUFFICES ASSUME DatabaseInv, [Next]_vars PROVE DirectoryInv'
  OBVIOUS
<1>t. TypeOK /\ DirectoryInv
  BY DEF DatabaseInv
<1>1. CASE UNCHANGED disk
  BY <1>t, <1>1 DEF DirectoryInv, ReopenNeverThrows
<1>2. ASSUME NEW n \in Nat, NEW x \in Table, disk' = AddFile(disk, n, x) PROVE DirectoryInv'
  <2>1. DOMAIN disk' = DOMAIN disk \cup {n} /\ \A m \in DOMAIN disk' : disk'[m] # Partial
    BY <1>t, <1>2, PartialAssumption DEF AddFile, DirectoryInv, ReopenNeverThrows
  <2>2. PICK b \in Nat : \A m \in DOMAIN disk : m <= b
    BY <1>t DEF DirectoryInv
  <2>3. b + n \in Nat /\ \A m \in DOMAIN disk' : m <= b + n
    BY <1>t, <2>1, <2>2 DEF TypeOK, IsDirectory
  <2> QED
    BY <2>1, <2>3 DEF DirectoryInv, ReopenNeverThrows
<1>3. CASE FlushRename
  BY <1>t, <1>2, <1>3 DEF FlushRename, RenameTmp, TypeOK, DatabaseInv, WriterInv
<1>4. CASE CompactRename
  BY <1>t, <1>2, <1>4 DEF CompactRename, RenameTmp, TypeOK, DatabaseInv, CompactorInv
<1>5. CASE CompactDelete
  <2>1. DOMAIN disk' \subseteq DOMAIN disk /\ \A m \in DOMAIN disk' : disk'[m] = disk[m]
    BY <1>5 DEF CompactDelete, RemoveFile
  <2> QED
    BY <1>t, <2>1 DEF DirectoryInv, ReopenNeverThrows
<1>6. ASSUME NEW k \in Key, NEW e \in Entry, BeginWrite(k, e) PROVE DirectoryInv'
  BY <1>1, <1>6 DEF BeginWrite, fileVars
<1>7. CASE ReadStep \/ Close \/ Open \/ OpenReplay \/ OpenTable \/ ProcessEnds
  BY <1>1, <1>7 DEF ReadStep, Close, Open, OpenReplay, OpenTable, ProcessEnds, fileVars
<1>8. CASE WriterNext
  BY <1>1, <1>3, <1>8 DEF WriterNext, AppendPart, AppendRest, AppendThrows, ApplyToMemTable,
     FlushCreate, FlushFill, FlushOpen, FlushReset, FlushThrows, CreateTmp, FillTmp, fileVars
<1>9. CASE CompactorNext
  BY <1>1, <1>4, <1>5, <1>9 DEF CompactorNext, StartCompaction, CompactSnapshot, CompactMerge,
     CompactCreate, CompactFill, CompactSwap, CreateTmp, FillTmp, fileVars
<1> QED
  BY <1>6, <1>7, <1>8, <1>9, Steps

-----------------------------------------------------------------------------
(* The put, remove or flush in progress *)

\* The compaction thread, which works on the directory without mutex_, does not
\* disturb the files of a flush.
LEMMA WriterStepInv == DatabaseInv /\ [Next]_vars => WriterInv'
<1> SUFFICES ASSUME DatabaseInv, [Next]_vars PROVE WriterInv'
  OBVIOUS
<1>t. TypeOK /\ WriterInv
  BY DEF DatabaseInv
<1>1. CASE UNCHANGED <<wpc, wkey, wentry, tmp, disk, next_sstable_number, memtable, sstables>>
  BY <1>t, <1>1 DEF WriterInv
<1>2. CASE wpc' = "idle"
  BY <1>2 DEF WriterInv
<1>3. ASSUME NEW k \in Key, NEW e \in Entry, BeginWrite(k, e) PROVE WriterInv'
  BY <1>3 DEF BeginWrite, WriterInv
<1>4. CASE WriterNext
  <2>1. CASE AppendPart \/ AppendRest
    BY <1>t, <2>1 DEF AppendPart, AppendRest, WriterInv
  <2>2. CASE AppendThrows \/ FlushThrows \/ FlushReset
    BY <1>2, <2>2 DEF AppendThrows, FlushThrows, FlushReset
  <2>3. CASE ApplyToMemTable
    BY <1>t, <2>3 DEF ApplyToMemTable, WriterInv
  <2>4. CASE FlushCreate
    BY <1>t, <2>4 DEF FlushCreate, WriterInv
  <2>5. CASE FlushFill
    BY <1>t, <2>5 DEF FlushFill, FillTmp, AddFile, WriterInv, tableVars
  <2>6. CASE FlushRename
    BY <1>t, <2>6 DEF FlushRename, RenameTmp, AddFile, WriterInv, tableVars
  <2>7. CASE FlushOpen
    BY <1>t, <2>7 DEF FlushOpen, WriterInv, TypeOK
  <2> QED
    BY <1>4, <2>1, <2>2, <2>3, <2>4, <2>5, <2>6, <2>7 DEF WriterNext
<1>5. CASE CompactorNext
  <2>1. CASE StartCompaction \/ CompactSnapshot
    BY <1>1, <2>1 DEF StartCompaction, CompactSnapshot, writerVars, fileVars, tableVars
  <2>2. CASE CompactMerge \/ CompactSwap
    BY <1>2, <2>2 DEF CompactMerge, CompactSwap, CanLockExclusive, writerVars
  <2>3. compacted_number < next_sstable_number => compacted_number # next_sstable_number
    BY <1>t DEF TypeOK
  <2>4. CASE CompactCreate
    BY <1>t, <2>3, <2>4 DEF CompactCreate, CreateTmp, AddFile, WriterInv, DatabaseInv, CompactorInv,
       writerVars, tableVars
  <2>5. CASE CompactFill
    BY <1>t, <2>3, <2>5 DEF CompactFill, FillTmp, AddFile, WriterInv, DatabaseInv, CompactorInv,
       writerVars, tableVars
  <2>6. CASE CompactRename
    BY <1>t, <2>3, <2>6 DEF CompactRename, RenameTmp, AddFile, RemoveFile, WriterInv, DatabaseInv,
       CompactorInv, writerVars, tableVars
  <2>7. CASE CompactDelete
    <3>1. old_paths \in Seq(Nat) /\ Len(old_paths) > 0
      BY <1>t, <2>7 DEF CompactDelete, TypeOK, DatabaseInv, CompactorInv
    <3>2. Head(old_paths) = old_paths[1] /\ 1 \in 1..Len(old_paths) /\ old_paths[1] \in Nat
      BY <3>1
    <3>3. Head(old_paths) # next_sstable_number
      BY <1>t, <2>7, <3>2 DEF CompactDelete, TypeOK, DatabaseInv, CompactorInv
    <3> QED
      BY <1>t, <2>7, <3>3 DEF CompactDelete, RemoveFile, WriterInv, writerVars, tableVars
  <2> QED
    BY <1>5, <2>1, <2>2, <2>4, <2>5, <2>6, <2>7 DEF CompactorNext
<1>6. CASE ReadStep
  BY <1>1, <1>6 DEF ReadStep, writerVars, fileVars, tableVars
<1>7. CASE ProcessEnds \/ Close
  BY <1>2, <1>7 DEF ProcessEnds, Close, CanLockExclusive, writerVars
<1>8. CASE Open \/ OpenTable \/ OpenReplay
  <2>1. wpc = "idle"
    BY <1>8 DEF Open, OpenTable, OpenReplay, DatabaseInv, RestInv, Live
  <2> QED
    BY <1>2, <1>8, <2>1 DEF Open, OpenTable, OpenReplay, writerVars
<1> QED
  BY <1>3, <1>4, <1>5, <1>6, <1>7, <1>8, Steps

-----------------------------------------------------------------------------
(* The compaction in progress *)

\* From the snapshot to the swap the list changes only at its end.
LEMMA SnapshotStep == DatabaseInv /\ [Next]_vars => SnapshotIsPrefix'
<1> SUFFICES ASSUME DatabaseInv, [Next]_vars PROVE SnapshotIsPrefix'
  OBVIOUS
<1>t. TypeOK /\ SnapshotIsPrefix
  BY DEF DatabaseInv
<1>1. CASE UNCHANGED <<cpc, to_compact, sstables>>
  BY <1>t, <1>1 DEF SnapshotIsPrefix
<1>2. CASE cpc' \in {"wait", "snapshot", "delete"}
  BY <1>2 DEF SnapshotIsPrefix
<1>3. ASSUME NEW k \in Key, NEW e \in Entry, BeginWrite(k, e) PROVE SnapshotIsPrefix'
  BY <1>1, <1>3 DEF BeginWrite, compactorVars, tableVars
<1>4. CASE FlushOpen
  <2>1. /\ Len(sstables') = Len(sstables) + 1 /\ Len(sstables) \in Nat /\ Len(to_compact) \in Nat
        /\ \A i \in 1..Len(sstables) : sstables'[i] = sstables[i]
    BY <1>t, <1>4 DEF FlushOpen, TypeOK
  <2>2. UNCHANGED <<cpc, to_compact>>
    BY <1>4 DEF FlushOpen, compactorVars
  <2> QED
    BY <1>t, <2>1, <2>2 DEF SnapshotIsPrefix
<1>5. CASE WriterNext
  BY <1>1, <1>4, <1>5 DEF WriterNext, AppendPart, AppendRest, AppendThrows, ApplyToMemTable,
     FlushCreate, FlushFill, FlushRename, FlushReset, FlushThrows, tableVars, compactorVars
<1>6. CASE CompactorNext
  <2>1. CASE StartCompaction \/ CompactSwap
    BY <1>2, <2>1 DEF StartCompaction, CompactSwap
  <2>2. CASE CompactSnapshot
    BY <1>t, <2>2 DEF CompactSnapshot, SnapshotIsPrefix, TypeOK, tableVars
  <2>3. CASE CompactMerge \/ CompactCreate \/ CompactFill \/ CompactRename
    BY <1>t, <2>3 DEF CompactMerge, CompactCreate, CompactFill, CompactRename, SnapshotIsPrefix,
       tableVars
  <2>4. CASE CompactDelete
    BY <1>2, <2>4 DEF CompactDelete
  <2> QED
    BY <1>6, <2>1, <2>2, <2>3, <2>4 DEF CompactorNext
<1>7. CASE ReadStep \/ Close
  BY <1>1, <1>7 DEF ReadStep, Close, compactorVars, tableVars
<1>8. CASE ProcessEnds
  BY <1>2, <1>8 DEF ProcessEnds
<1>9. CASE Open \/ OpenTable \/ OpenReplay
  <2>1. cpc = "wait"
    BY <1>9 DEF Open, OpenTable, OpenReplay, DatabaseInv, RestInv, Live
  <2> QED
    BY <1>2, <1>9, <2>1 DEF Open, OpenTable, OpenReplay, compactorVars
<1> QED
  BY <1>3, <1>5, <1>6, <1>7, <1>8, <1>9, Steps

\* Flushes do not disturb the file of a compaction.
LEMMA CompactorStepInv == DatabaseInv /\ [Next]_vars => CompactorInv'
<1> SUFFICES ASSUME DatabaseInv, [Next]_vars PROVE CompactorInv'
  OBVIOUS
<1>t. TypeOK /\ CompactorInv
  BY DEF DatabaseInv
<1>n. /\ compacted_number \in Nat /\ next_sstable_number \in Nat
      /\ old_paths \in Seq(Nat) /\ Len(old_paths) \in Nat
      /\ \A i \in 1..Len(old_paths) : old_paths[i] \in Nat
  BY <1>t DEF TypeOK
<1>1. CASE UNCHANGED <<compactorVars, tmp, disk, next_sstable_number>>
  BY <1>t, <1>1 DEF CompactorInv, compactorVars
<1>2. CASE cpc' \in {"wait", "snapshot"}
  BY <1>2 DEF CompactorInv
<1>3. ASSUME NEW k \in Key, NEW e \in Entry, BeginWrite(k, e) PROVE CompactorInv'
  BY <1>1, <1>3 DEF BeginWrite, fileVars, tableVars
<1>4. CASE WriterNext
  <2>1. CASE AppendPart \/ AppendRest \/ AppendThrows \/ ApplyToMemTable
             \/ FlushReset \/ FlushThrows
    BY <1>1, <2>1 DEF AppendPart, AppendRest, AppendThrows, ApplyToMemTable, FlushReset,
       FlushThrows, fileVars, tableVars
  <2>2. compacted_number < next_sstable_number => compacted_number # next_sstable_number
    BY <1>n
  <2>3. CASE FlushCreate
    BY <1>t, <2>2, <2>3 DEF FlushCreate, CreateTmp, AddFile, CompactorInv, compactorVars, tableVars
  <2>4. CASE FlushFill
    BY <1>t, <2>2, <2>4 DEF FlushFill, FillTmp, AddFile, CompactorInv, compactorVars, tableVars
  <2>5. CASE FlushRename
    BY <1>t, <2>2, <2>5 DEF FlushRename, RenameTmp, AddFile, RemoveFile, CompactorInv, compactorVars,
       tableVars
  <2>6. CASE FlushOpen
    <3>1. /\ next_sstable_number' = next_sstable_number + 1
          /\ UNCHANGED <<compactorVars, tmp, disk>>
      BY <2>6 DEF FlushOpen, fileVars
    <3> QED
      BY <1>t, <1>n, <3>1 DEF CompactorInv, compactorVars
  <2> QED
    BY <1>4, <2>1, <2>3, <2>4, <2>5, <2>6 DEF WriterNext
<1>5. CASE CompactorNext
  <2>1. CASE StartCompaction
    BY <1>2, <2>1 DEF StartCompaction
  <2>2. CASE CompactSnapshot
    BY <1>t, <2>2 DEF CompactSnapshot, CompactorInv, TypeOK
  <2>3. CASE CompactMerge
    BY <1>t, <1>n, <2>3 DEF CompactMerge, CompactorInv
  <2>4. CASE CompactCreate
    BY <1>t, <2>4 DEF CompactCreate, CompactorInv, tableVars
  <2>5. CASE CompactFill
    BY <1>t, <2>5 DEF CompactFill, FillTmp, AddFile, CompactorInv, tableVars
  <2>6. CASE CompactRename
    BY <1>t, <2>6 DEF CompactRename, RenameTmp, AddFile, CompactorInv, tableVars
  <2>7. CASE CompactSwap
    <3>1. Len(to_compact) \in Nat /\ Len(to_compact) > 0 /\ Len(to_compact) <= Len(sstables)
      BY <1>t, <2>7 DEF CompactSwap, TypeOK, CompactorInv, DatabaseInv, SnapshotIsPrefix
    <3>2. /\ old_paths' = [i \in 1..Len(to_compact) |-> sstables[i].number]
          /\ next_sstable_number' = next_sstable_number /\ cpc' = "delete"
      BY <2>7 DEF CompactSwap
    <3>3. Len(old_paths') = Len(to_compact)
      BY <3>1, <3>2
    <3>4. \A i \in 1..Len(to_compact) : sstables[i].number < next_sstable_number
      BY <1>t, <3>1 DEF DatabaseInv, NumbersInv, TypeOK
    <3> QED
      BY <3>1, <3>2, <3>3, <3>4 DEF CompactorInv
  <2>8. CASE CompactDelete
    <3>1. CASE Len(old_paths) = 1
      BY <1>2, <2>8, <3>1 DEF CompactDelete
    <3>2. CASE Len(old_paths) # 1
      <4>1. Len(old_paths) > 1
        <5>1. cpc = "delete"
          BY <2>8 DEF CompactDelete
        <5>2. Len(old_paths) > 0
          BY <1>t, <5>1 DEF CompactorInv
        <5>3. Len(old_paths) \in Nat
          BY <1>n
        <5>4. \A n \in Nat : n > 0 /\ n # 1 => n > 1
          OBVIOUS
        <5> QED
          BY <3>2, <5>2, <5>3, <5>4
      <4>2. /\ Len(Tail(old_paths)) = Len(old_paths) - 1
            /\ \A i \in 1..Len(Tail(old_paths)) : Tail(old_paths)[i] = old_paths[i + 1]
        BY <1>n, <4>1
      <4>3. /\ cpc = "delete" /\ cpc' = cpc /\ old_paths' = Tail(old_paths)
            /\ next_sstable_number' = next_sstable_number
        BY <2>8, <3>2 DEF CompactDelete, tableVars
      <4> QED
        BY <1>t, <1>n, <4>1, <4>2, <4>3 DEF CompactorInv
    <3> QED
      BY <3>1, <3>2
  <2> QED
    BY <1>5, <2>1, <2>2, <2>3, <2>4, <2>5, <2>6, <2>7, <2>8 DEF CompactorNext
<1>6. CASE ReadStep \/ Close
  BY <1>1, <1>6 DEF ReadStep, Close, fileVars, tableVars
<1>7. CASE ProcessEnds
  BY <1>2, <1>7 DEF ProcessEnds
<1>8. CASE Open \/ OpenTable \/ OpenReplay
  <2>1. cpc = "wait"
    BY <1>8 DEF Open, OpenTable, OpenReplay, DatabaseInv, RestInv, Live
  <2> QED
    BY <1>2, <1>8, <2>1 DEF Open, OpenTable, OpenReplay, compactorVars
<1> QED
  BY <1>3, <1>4, <1>5, <1>6, <1>7, <1>8, Steps

-----------------------------------------------------------------------------
(* The answers *)

\* No step but a write changes an answer.
LEMMA MemoryStep == DatabaseInv /\ [Next]_vars => MemoryIsCurrent'
<1> SUFFICES ASSUME DatabaseInv, [Next]_vars PROVE MemoryIsCurrent'
  OBVIOUS
<1>t. TypeOK /\ MemoryIsCurrent /\ sstables \in Seq(SSTable) /\ memtable \in Table
  BY DEF DatabaseInv, TypeOK
<1>1. CASE UNCHANGED <<phase, memtable, sstables, kv>>
  BY <1>t, <1>1 DEF MemoryIsCurrent, Live
<1>2. ASSUME NEW k \in Key, NEW e \in Entry, BeginWrite(k, e) PROVE MemoryIsCurrent'
  BY <1>1, <1>2 DEF BeginWrite, tableVars
<1>3. CASE ApplyToMemTable
  <2>1. wkey \in Key /\ wentry \in Entry /\ wentry # Absent /\ Live
    BY <1>3, DataAssumption DEF ApplyToMemTable, DatabaseInv, WriterInv, Entry, RestInv
  <2>2. /\ \A k \in Key : memtable'[k] = IF k = wkey THEN wentry ELSE memtable[k]
        /\ \A k \in Key : kv'[k] = IF k = wkey THEN Optional(wentry) ELSE kv[k]
        /\ sstables' = sstables
    BY <1>t, <1>3, <2>1 DEF ApplyToMemTable, Upsert, TypeOK, Table
  <2> QED
    BY <1>t, <2>1, <2>2 DEF MemoryIsCurrent, Lookup
<1>4. CASE FlushOpen
  <2> DEFINE t == [number |-> next_sstable_number, entries |-> disk[next_sstable_number]]
  <2>1. t \in SSTable /\ t.entries = memtable /\ Live
    BY <1>t, <1>4 DEF FlushOpen, DatabaseInv, WriterInv, TypeOK, SSTable, RestInv
  <2>2. sstables' = Append(sstables, t) /\ memtable' = memtable /\ kv' = kv
    BY <1>4 DEF FlushOpen, historyVars
  <2> HIDE DEF t
  <2>3. \A k \in Key : Newest(sstables', k) = IF memtable[k] # Absent THEN memtable[k]
                                               ELSE Newest(sstables, k)
    BY <1>t, <2>1, <2>2, NewestAppend
  <2> QED
    BY <1>t, <2>1, <2>2, <2>3 DEF MemoryIsCurrent, Lookup
<1>5. CASE FlushReset
  <2>1. /\ memtable' = EmptyTable /\ sstables' = sstables /\ kv' = kv /\ Live
        /\ Len(sstables) > 0 /\ sstables[Len(sstables)].entries = memtable
    BY <1>5 DEF FlushReset, DatabaseInv, WriterInv, RestInv, historyVars
  <2>2. ASSUME NEW k \in Key, memtable[k] # Absent PROVE Newest(sstables, k) = memtable[k]
    <3>1. Len(sstables) \in 1..Len(sstables)
      BY <1>t, <2>1
    <3> QED
      BY <1>t, <2>1, <2>2, <3>1, NewestHit
  <2> QED
    BY <1>t, <2>1, <2>2 DEF MemoryIsCurrent, Lookup, EmptyTable
<1>6. CASE WriterNext
  BY <1>1, <1>3, <1>4, <1>5, <1>6 DEF WriterNext, AppendPart, AppendRest, AppendThrows, FlushCreate,
     FlushFill, FlushRename, FlushThrows, tableVars, historyVars
<1>7. CASE CompactSwap
  <2> DEFINE t == [number |-> compacted_number, entries |-> disk[compacted_number]]
  <2>1. t \in SSTable /\ t.entries = DropTombstones(MergeSSTables(to_compact))
    BY <1>t, <1>7 DEF CompactSwap, DatabaseInv, CompactorInv, TypeOK, SSTable
  <2>2. Live /\ memtable' = memtable /\ kv' = kv
    BY <1>7 DEF CompactSwap, DatabaseInv, RestInv, historyVars
  <2>3. /\ to_compact \in Seq(SSTable) /\ Len(to_compact) <= Len(sstables)
        /\ \A i \in 1..Len(to_compact) : to_compact[i] = sstables[i]
    BY <1>7 DEF CompactSwap, DatabaseInv, SnapshotIsPrefix, TypeOK
  <2>4. sstables' = <<t>> \o SubSeq(sstables, Len(to_compact) + 1, Len(sstables))
    BY <1>7 DEF CompactSwap
  <2> HIDE DEF t
  <2>5. \A k \in Key : Optional(Newest(sstables', k)) = Optional(Newest(sstables, k))
    BY <1>t, <2>1, <2>3, <2>4, NewestSwap
  <2> QED
    BY <1>t, <2>2, <2>5 DEF MemoryIsCurrent, Lookup
<1>8. CASE CompactorNext
  BY <1>1, <1>7, <1>8 DEF CompactorNext, StartCompaction, CompactSnapshot, CompactMerge,
     CompactCreate, CompactFill, CompactRename, CompactDelete, tableVars, historyVars
<1>9. CASE ReadStep
  BY <1>1, <1>9 DEF ReadStep, tableVars, historyVars
<1>10. CASE Close
  BY <1>t, <1>10 DEF Close, MemoryIsCurrent, Live, tableVars, CanLockExclusive
<1>11. CASE ProcessEnds \/ Open \/ OpenTable
  BY <1>11 DEF ProcessEnds, Open, OpenTable, MemoryIsCurrent, Live
<1>12. CASE OpenReplay
  <2>1. /\ memtable' = Replayed(wal) /\ sstables' = sstables /\ kv' = kv
        /\ phase = "opening" /\ DOMAIN disk \ Opened = {}
    BY <1>12 DEF OpenReplay, historyVars
  <2>2. \A k \in Key : kv[k] = Recovered(wal, disk, k)
    BY <2>1 DEF DatabaseInv, RestInv, Live
  <2>3. /\ DOMAIN disk = {sstables[i].number : i \in 1..Len(sstables)}
        /\ \A i \in 1..Len(sstables) : disk[sstables[i].number] = sstables[i].entries
        /\ \A i, j \in 1..Len(sstables) : i < j => sstables[i].number < sstables[j].number
    BY <2>1 DEF DatabaseInv, OpeningInv, Opened
  <2>4. \A k \in Key : Newest(sstables, k) = NewestOnDisk(disk, k)
    BY <1>t, <2>3, NewestSorted
  <2> QED
    BY <2>1, <2>2, <2>4 DEF MemoryIsCurrent, Lookup, Recovered
<1> QED
  BY <1>2, <1>6, <1>8, <1>9, <1>10, <1>11, <1>12, Steps

-----------------------------------------------------------------------------
(* get and scan *)

\* What the readers' shared lock is for: while a reader is inside, the steps
\* of other threads do not change what it reads.
LEMMA ReadersExclude ==
    ASSUME DatabaseInv, [Next]_vars,
           \/ \E r \in Getter : getter[r].pc # "idle"
           \/ \E r \in Scanner : scanner[r].pc # "idle"
    PROVE  ProcessEnds \/ UNCHANGED <<phase, wpc, memtable, sstables, kv>>
<1>1. wpc = "idle" /\ phase = "up" /\ ~CanLockExclusive
  BY DEF DatabaseInv, GetterInv, GetterPart, ScannerInv, ScannerPart, CanLockExclusive
<1>2. ~WriterNext
  BY <1>1 DEF WriterNext, AppendPart, AppendRest, AppendThrows, ApplyToMemTable, FlushCreate,
     FlushFill, FlushRename, FlushOpen, FlushReset, FlushThrows
<1>3. CASE CompactorNext
  BY <1>1, <1>3 DEF CompactorNext, StartCompaction, CompactSnapshot, CompactMerge, CompactCreate,
     CompactFill, CompactRename, CompactSwap, CompactDelete, tableVars, writerVars, historyVars
<1>4. CASE ReadStep
  BY <1>4 DEF ReadStep, tableVars, writerVars, historyVars
<1>5. ~Close /\ ~Open /\ ~OpenTable /\ ~OpenReplay /\ ~\E k \in Key, e \in Entry : BeginWrite(k, e)
  BY <1>1 DEF Close, Open, OpenTable, OpenReplay, BeginWrite
<1> QED
  BY <1>2, <1>3, <1>4, <1>5, Steps

\* Only its own thread moves a reader.
LEMMA ReaderFrame ==
    ASSUME [Next]_vars
    PROVE  /\ \/ UNCHANGED getter \/ ProcessEnds
              \/ \E r \in Getter : GetterNext(r) \/ \E k \in Key : Get(r, k)
           /\ \/ UNCHANGED scanner \/ ProcessEnds
              \/ \E r \in Scanner : ScannerNext(r) \/ \E lo, hi \in ScanBound : Scan(r, lo, hi)
<1>1. CASE \E k \in Key : Remove(k) \/ \E v \in Value : Put(k, v)
  BY <1>1 DEF Remove, Put, BeginWrite, readerVars
<1>2. CASE WriterNext
  BY <1>2 DEF WriterNext, AppendPart, AppendRest, AppendThrows, ApplyToMemTable, FlushCreate,
     FlushFill, FlushRename, FlushOpen, FlushReset, FlushThrows, readerVars
<1>3. CASE CompactorNext
  BY <1>3 DEF CompactorNext, StartCompaction, CompactSnapshot, CompactMerge, CompactCreate,
     CompactFill, CompactRename, CompactSwap, CompactDelete, readerVars
<1>4. CASE \E r \in Getter : GetterNext(r) \/ \E k \in Key : Get(r, k)
  BY <1>4 DEF GetterNext, Get, GetFromTable, GetReturn
<1>5. CASE \E r \in Scanner : ScannerNext(r) \/ \E lo, hi \in ScanBound : Scan(r, lo, hi)
  BY <1>5 DEF ScannerNext, Scan, ScanTable, ScanMemTable, ScanReturn
<1>6. CASE Crash \/ CloseJoin
  BY <1>6 DEF Crash, CloseJoin
<1>7. CASE Close \/ Open \/ OpenTable \/ OpenReplay
  BY <1>7 DEF Close, Open, OpenTable, OpenReplay, readerVars
<1>8. CASE UNCHANGED vars
  BY <1>8 DEF vars, readerVars
<1> QED
  BY <1>1, <1>2, <1>3, <1>4, <1>5, <1>6, <1>7, <1>8 DEF Next, LifecycleNext

\* A get that is under way keeps what it has found true.
LEMMA GetterStep == DatabaseInv /\ [Next]_vars => GetterInv'
<1> SUFFICES ASSUME DatabaseInv, [Next]_vars, NEW r \in Getter
             PROVE  GetterPart(getter[r])'
  BY DEF GetterInv
<1>t. TypeOK /\ MemoryIsCurrent /\ GetterPart(getter[r]) /\ getter[r] \in GetState
  BY DEF DatabaseInv, GetterInv, TypeOK
<1>l. Len(sstables) \in Nat /\ Len(sstables') \in Nat
  <2>1. TypeOK'
    BY TypeStep
  <2> QED
    BY <1>t, <2>1 DEF TypeOK
<1>1. CASE ProcessEnds
  BY <1>1, <1>l DEF ProcessEnds, GetterPart, NoGet
<1>2. CASE getter'[r] = getter[r] /\ getter[r].pc = "idle"
  BY <1>t, <1>l, <1>2 DEF GetterPart
<1>3. CASE getter'[r] = getter[r] /\ getter[r].pc # "idle"
  BY <1>t, <1>1, <1>3, ReadersExclude DEF GetterPart
<1>4. ASSUME NEW k \in Key, Get(r, k) PROVE GetterPart(getter[r])'
  <2>1. UNCHANGED <<phase, wpc, memtable, sstables, kv>> /\ wpc = "idle" /\ phase = "up"
    BY <1>4 DEF Get, CanLockShared, tableVars, writerVars, historyVars
  <2>2. CASE memtable[k] # Absent
    <3>1. getter'[r] = [pc |-> "done", key |-> k, i |-> 0, value |-> Optional(memtable[k])]
      BY <1>t, <1>4, <2>2 DEF Get, TypeOK
    <3>2. kv[k] = Optional(memtable[k])
      BY <1>t, <2>1, <2>2 DEF MemoryIsCurrent, Live, Lookup
    <3> QED
      BY <1>l, <2>1, <3>1, <3>2 DEF GetterPart
  <2>3. CASE memtable[k] = Absent
    <3>1. getter'[r] = [pc |-> "tables", key |-> k, i |-> Len(sstables), value |-> Absent]
      BY <1>t, <1>4, <2>3 DEF Get, TypeOK
    <3> QED
      BY <1>l, <2>1, <2>3, <3>1 DEF GetterPart
  <2> QED
    BY <2>2, <2>3
<1>5. CASE GetFromTable(r)
  <2> DEFINE g == getter[r]
             hit == g.i > 0 /\ sstables[g.i].entries[g.key] # Absent
  <2>1. UNCHANGED <<phase, wpc, memtable, sstables, kv>>
    BY <1>5 DEF GetFromTable, tableVars, writerVars, historyVars
  <2>2. /\ g.pc = "tables" /\ g.key \in Key /\ wpc = "idle" /\ phase = "up"
        /\ g.i \in Nat /\ g.i <= Len(sstables) /\ memtable[g.key] = Absent
        /\ \A j \in 1..Len(sstables) : g.i < j => sstables[j].entries[g.key] = Absent
    BY <1>t, <1>5 DEF GetFromTable, GetterPart, GetState
  <2>3. kv[g.key] = Optional(Newest(sstables, g.key))
    BY <1>t, <2>2 DEF MemoryIsCurrent, Live, Lookup
  <2>4. CASE hit
    <3>1. getter'[r] = [pc |-> "done", key |-> g.key, i |-> g.i,
                        value |-> Optional(sstables[g.i].entries[g.key])]
      BY <1>t, <1>5, <2>4 DEF GetFromTable, TypeOK
    <3>2. Newest(sstables, g.key) = sstables[g.i].entries[g.key]
      <4>1. sstables \in Seq(SSTable) /\ g.i \in 1..Len(sstables)
        BY <1>t, <1>l, <2>2, <2>4 DEF TypeOK
      <4> QED
        BY <2>2, <2>4, <4>1, NewestHit
    <3> QED
      BY <2>1, <2>2, <2>3, <3>1, <3>2 DEF GetterPart
  <2>5. CASE ~hit /\ g.i = 0
    <3>1. getter'[r] = [g EXCEPT !.pc = "done"]
      BY <1>t, <1>5, <2>5 DEF GetFromTable, TypeOK
    <3>2. g.value = Absent
      BY <1>t, <2>2 DEF GetterPart
    <3>3. Newest(sstables, g.key) = Absent
      <4>1. \A j \in 1..Len(sstables) : sstables[j].entries[g.key] = Absent
        BY <1>l, <2>2, <2>5
      <4> QED
        BY <1>t, <2>2, <4>1, NewestMiss DEF TypeOK
    <3> QED
      BY <1>t, <2>1, <2>2, <2>3, <2>5, <3>1, <3>2, <3>3 DEF GetterPart, Optional, GetState
  <2>6. CASE ~hit /\ g.i # 0
    <3>1. getter'[r] = [g EXCEPT !.i = g.i - 1]
      BY <1>t, <1>5, <2>6 DEF GetFromTable, TypeOK
    <3>2. /\ getter'[r].pc = g.pc /\ getter'[r].key = g.key /\ getter'[r].i = g.i - 1
      BY <1>t, <3>1 DEF GetState
    <3>3. \A j \in 1..Len(sstables) : g.i - 1 < j => sstables[j].entries[g.key] = Absent
      BY <1>l, <2>2, <2>6
    <3>4. g.i - 1 <= Len(sstables)
      BY <1>l, <2>2
    <3>5. getter'[r].value = Absent
      BY <1>t, <2>2, <3>1 DEF GetterPart, GetState
    <3> QED
      BY <2>1, <2>2, <3>2, <3>3, <3>4, <3>5 DEF GetterPart
  <2> QED
    BY <2>4, <2>5, <2>6
<1>6. CASE GetReturn(r)
  <2>1. getter'[r] = NoGet
    BY <1>t, <1>6 DEF GetReturn, TypeOK
  <2> QED
    BY <1>l, <2>1 DEF GetterPart, NoGet
<1>7. ASSUME NEW q \in Getter, q # r, GetterNext(q) \/ \E k \in Key : Get(q, k)
      PROVE  getter'[r] = getter[r]
  BY <1>t, <1>7 DEF GetterNext, Get, GetFromTable, GetReturn, TypeOK
<1> QED
  BY <1>1, <1>2, <1>3, <1>4, <1>5, <1>6, <1>7, ReaderFrame DEF GetterNext

\* A scan that is under way keeps what it has gathered true.
LEMMA ScannerStep == DatabaseInv /\ [Next]_vars => ScannerInv'
<1> SUFFICES ASSUME DatabaseInv, [Next]_vars, NEW r \in Scanner
             PROVE  ScannerPart(scanner[r])'
  BY DEF ScannerInv
<1>t. TypeOK /\ MemoryIsCurrent /\ ScannerPart(scanner[r]) /\ scanner[r] \in ScanState
  BY DEF DatabaseInv, ScannerInv, TypeOK
<1>l. Len(sstables) \in Nat /\ Len(sstables') \in Nat /\ sstables \in Seq(SSTable)
  <2>1. TypeOK'
    BY TypeStep
  <2> QED
    BY <1>t, <2>1 DEF TypeOK
<1>1. CASE ProcessEnds
  BY <1>1, <1>l DEF ProcessEnds, ScannerPart, NoScan
<1>2. CASE scanner'[r] = scanner[r] /\ scanner[r].pc = "idle"
  BY <1>t, <1>l, <1>2 DEF ScannerPart
<1>3. CASE scanner'[r] = scanner[r] /\ scanner[r].pc # "idle"
  BY <1>t, <1>1, <1>3, ReadersExclude DEF ScannerPart, ScannedPart
<1>4. ASSUME NEW lo \in ScanBound, NEW hi \in ScanBound, Scan(r, lo, hi)
      PROVE  ScannerPart(scanner[r])'
  <2>1. UNCHANGED <<phase, wpc, sstables, kv>> /\ wpc = "idle" /\ phase = "up"
    BY <1>4 DEF Scan, CanLockShared, tableVars, writerVars, historyVars
  <2>2. scanner'[r] = [pc |-> "tables", start |-> lo, end |-> hi, i |-> 1, merged |-> EmptyTable]
    BY <1>t, <1>4 DEF Scan, TypeOK
  <2>3. \A k \in Key : Newest(SubSeq(sstables, 1, 0), k) = Absent
    <3> DEFINE p == SubSeq(sstables, 1, 0)
    <3>1. p \in Seq(SSTable) /\ Len(p) = 0
      BY <1>l
    <3> HIDE DEF p
    <3>2. 1..Len(p) = {}
      BY <3>1
    <3>3. ASSUME NEW k \in Key PROVE Newest(p, k) = Absent
      BY <3>1, <3>2, NewestMiss
    <3> QED
      BY <3>3 DEF p
  <2>4. EmptyTable = [k \in Key |-> IF InRange(k, lo, hi)
                                    THEN Newest(SubSeq(sstables, 1, 0), k) ELSE Absent]
    BY <2>3 DEF EmptyTable
  <2> QED
    BY <1>l, <2>1, <2>2, <2>4 DEF ScannerPart, ScannedPart
<1>5. CASE ScanTable(r)
  <2> DEFINE s == scanner[r]
             t == sstables[s.i]
  <2>1. UNCHANGED <<phase, wpc, sstables, kv>>
    BY <1>5 DEF ScanTable, tableVars, writerVars, historyVars
  <2>2. /\ s.pc = "tables" /\ wpc = "idle" /\ phase = "up"
        /\ s.i \in 1..Len(sstables) /\ s.merged = ScannedPart(s)
    BY <1>t, <1>l, <1>5 DEF ScanTable, ScannerPart, ScanState
  <2>3. scanner'[r] = [pc |-> "tables", start |-> s.start, end |-> s.end, i |-> s.i + 1,
                       merged |-> Overlay(s.merged, t.entries, s.start, s.end)]
    BY <1>t, <1>5 DEF ScanTable, TypeOK
  <2>4. t \in SSTable /\ SubSeq(sstables, 1, s.i - 1) \in Seq(SSTable)
    BY <1>l, <2>2, ElementType
  <2>5. SubSeq(sstables, 1, s.i) = Append(SubSeq(sstables, 1, s.i - 1), t)
    BY <1>l, <2>2, PrefixAppend
  <2>6. \A k \in Key : Newest(SubSeq(sstables, 1, s.i), k) =
                          IF t.entries[k] # Absent THEN t.entries[k]
                          ELSE Newest(SubSeq(sstables, 1, s.i - 1), k)
    <3> DEFINE p == SubSeq(sstables, 1, s.i - 1)
    <3>1. p \in Seq(SSTable) /\ t \in SSTable
      BY <2>4
    <3> HIDE DEF p, t
    <3>2. ASSUME NEW k \in Key
          PROVE  Newest(Append(p, t), k) =
                    IF t.entries[k] # Absent THEN t.entries[k] ELSE Newest(p, k)
      BY <3>1, NewestAppend
    <3> QED
      BY <2>5, <3>2 DEF p
  <2>7. Overlay(s.merged, t.entries, s.start, s.end)
           = [k \in Key |-> IF InRange(k, s.start, s.end)
                            THEN Newest(SubSeq(sstables, 1, s.i), k) ELSE Absent]
    BY <2>2, <2>6 DEF Overlay, ScannedPart
  <2>8. s.i + 1 - 1 = s.i /\ s.i + 1 > 0 /\ s.i + 1 <= Len(sstables) + 1
    BY <1>l, <2>2
  <2> QED
    BY <2>1, <2>2, <2>3, <2>7, <2>8 DEF ScannerPart, ScannedPart
<1>6. CASE ScanMemTable(r)
  <2> DEFINE s == scanner[r]
             new == DropTombstones(Overlay(s.merged, memtable, s.start, s.end))
  <2>1. UNCHANGED <<phase, wpc, sstables, kv>>
    BY <1>6 DEF ScanMemTable, tableVars, writerVars, historyVars
  <2>2. /\ s.pc = "tables" /\ wpc = "idle" /\ phase = "up"
        /\ s.i = Len(sstables) + 1 /\ s.merged = ScannedPart(s)
    BY <1>t, <1>l, <1>6 DEF ScanMemTable, ScannerPart, ScanState
  <2>3. SubSeq(sstables, 1, s.i - 1) = sstables
    BY <1>l, <2>2
  <2>4. ASSUME NEW k \in Key
        PROVE  new[k] = IF InRange(k, s.start, s.end) THEN kv[k] ELSE Absent
    <3>1. s.merged[k] = IF InRange(k, s.start, s.end) THEN Newest(sstables, k) ELSE Absent
      BY <2>2, <2>3 DEF ScannedPart
    <3>2. kv[k] = Lookup(memtable, sstables, k)
      BY <1>t, <2>2 DEF MemoryIsCurrent, Live
    <3> QED
      BY <3>1, <3>2, DataAssumption DEF DropTombstones, Overlay, Lookup, Optional
  <2>5. new = [k \in Key |-> IF InRange(k, s.start, s.end) THEN kv[k] ELSE Absent]
    BY <2>4 DEF DropTombstones
  <2> HIDE DEF new
  <2>6. scanner'[r] = [s EXCEPT !.pc = "done", !.merged = new]
    BY <1>t, <1>6 DEF ScanMemTable, TypeOK, new
  <2>7. /\ scanner'[r].pc = "done" /\ scanner'[r].merged = new /\ scanner'[r].i = s.i
        /\ scanner'[r].start = s.start /\ scanner'[r].end = s.end
    BY <1>t, <2>6 DEF ScanState
  <2> QED
    BY <1>l, <2>1, <2>2, <2>5, <2>7 DEF ScannerPart
<1>7. CASE ScanReturn(r)
  <2>1. scanner'[r] = NoScan
    BY <1>t, <1>7 DEF ScanReturn, TypeOK
  <2> QED
    BY <1>l, <2>1 DEF ScannerPart, NoScan
<1>8. ASSUME NEW q \in Scanner, q # r,
             ScannerNext(q) \/ \E lo, hi \in ScanBound : Scan(q, lo, hi)
      PROVE  scanner'[r] = scanner[r]
  BY <1>t, <1>8 DEF ScannerNext, Scan, ScanTable, ScanMemTable, ScanReturn, TypeOK
<1> QED
  BY <1>1, <1>2, <1>3, <1>4, <1>5, <1>6, <1>7, <1>8, ReaderFrame DEF ScannerNext

-----------------------------------------------------------------------------
(* The theorems *)

\* The invariant holds of an empty directory before the first open.
LEMMA InitInv == Init => DatabaseInv
<1> SUFFICES ASSUME Init PROVE DatabaseInv
  OBVIOUS
<1>1. TypeOK
  <2>1. EmptyTable \in Table
    BY DEF EmptyTable, Table
  <2>2. IsDirectory(disk) /\ IsDirectory(tmp)
    BY DEF Init, IsDirectory, NoFiles
  <2>3. NoGet \in GetState /\ NoScan \in ScanState
    BY <2>1 DEF NoGet, NoScan, GetState, ScanState
  <2>4. kv \in [Key -> Value \cup {Absent}] /\ pending \in [Key -> SUBSET (Value \cup {Absent})]
    BY DEF Init
  <2>5. getter \in [Getter -> GetState] /\ scanner \in [Scanner -> ScanState]
    BY <2>3 DEF Init
  <2>6. /\ wal \in Seq(WalRecord \cup {Torn}) /\ sstables \in Seq(SSTable)
        /\ to_compact \in Seq(SSTable) /\ old_paths \in Seq(Nat)
    BY DEF Init
  <2> QED
    BY <2>1, <2>2, <2>4, <2>5, <2>6 DEF Init, TypeOK, WriterStep, CompactorStep
<1>2. RestInv
  <2>1. \A k \in Key : Recovered(wal, disk, k) = Absent
    <3>1. \A k \in Key : Replayed(wal)[k] = Absent
      BY DEF Init, Replayed, Decodable
    <3>2. \A k \in Key : NewestOnDisk(disk, k) = Absent
      BY DEF Init, NewestOnDisk, NoFiles
    <3> QED
      BY <3>1, <3>2, DataAssumption DEF Recovered, Optional
  <2> QED
    BY <2>1 DEF Init, RestInv
<1>3. OpeningInv /\ NumbersInv /\ MemoryIsCurrent
  BY DEF Init, OpeningInv, NumbersInv, MemoryIsCurrent, Live
<1>4. DirectoryInv
  <2>1. 0 \in Nat /\ \A n \in DOMAIN disk : n <= 0
    BY DEF Init, NoFiles
  <2> QED
    BY <2>1 DEF Init, DirectoryInv, ReopenNeverThrows, NoFiles
<1>5. WriterInv /\ SnapshotIsPrefix /\ CompactorInv
  BY DEF Init, WriterInv, SnapshotIsPrefix, CompactorInv
<1>6. GetterInv /\ ScannerInv
  BY DEF Init, GetterInv, GetterPart, ScannerInv, ScannerPart, NoGet, NoScan
<1> QED
  BY <1>1, <1>2, <1>3, <1>4, <1>5, <1>6 DEF DatabaseInv

\* Every step preserves it.
LEMMA StepInv == DatabaseInv /\ [Next]_vars => DatabaseInv'
  BY TypeStep, RestStep, NumbersStep, DirectoryStep, WriterStepInv, SnapshotStep,
     CompactorStepInv, MemoryStep, GetterStep, ScannerStep DEF DatabaseInv

\* The inductive invariant holds in every state of every execution.
THEOREM Invariance == Spec => []DatabaseInv
  BY InitInv, StepInv, PTL DEF Spec

\* Every variable keeps its type through failures, process deaths and
\* recoveries.
THEOREM DatabaseTypeOK == Spec => []TypeOK
  BY Invariance, PTL DEF DatabaseInv

\* Flush, compaction, failed system calls and recovery change no answer: the
\* layers together always hold the map the completed writes have built.
THEOREM ReadsAreCurrent == Spec => []MemoryIsCurrent
  BY Invariance, PTL DEF DatabaseInv

\* get returns the current value, for any number of concurrent callers.
THEOREM GetIsCorrect == Spec => []GetReturnsCurrent
<1>1. DatabaseInv => GetReturnsCurrent
  BY DEF DatabaseInv, GetterInv, GetterPart, GetReturnsCurrent
<1> QED
  BY <1>1, Invariance, PTL

\* scan returns the current contents of its range.
THEOREM ScanIsCorrect == Spec => []ScanReturnsCurrent
<1>1. DatabaseInv => ScanReturnsCurrent
  BY DEF DatabaseInv, ScannerInv, ScannerPart, ScanReturnsCurrent
<1> QED
  BY <1>1, Invariance, PTL

\* No swap or flush moves the list under a reader.
THEOREM IteratorsAreSafe == Spec => []IteratorsStayValid
<1>1. DatabaseInv => IteratorsStayValid
  BY DEF DatabaseInv, GetterInv, GetterPart, ScannerInv, ScannerPart, IteratorsStayValid
<1> QED
  BY <1>1, Invariance, PTL

\* What database.cpp:276-281 assumes of the list at the swap is true.
THEOREM SwapAssumption == Spec => []SnapshotIsPrefix
  BY Invariance, PTL DEF DatabaseInv

\* The constructor never meets an incomplete SSTable.
THEOREM ReopenIsSafe == Spec => []ReopenNeverThrows
<1>1. DatabaseInv => ReopenNeverThrows
  BY DEF DatabaseInv, DirectoryInv
<1> QED
  BY <1>1, Invariance, PTL
=============================================================================
