--------------------------- MODULE HarnessProofs ---------------------------
(***************************************************************************)
(* Every trial of the crash-recovery harness passes: for any number of     *)
(* records, any thresholds, any failing system calls and a kill at any     *)
(* point, the reopened Database answers every acknowledged key with its    *)
(* value and never throws.                                                 *)
(*                                                                         *)
(* DurableUnlessOvertaken is not enough for this, as a flush may overtake  *)
(* a compaction in a trial too.  What saves the trial is FreshInv: no      *)
(* layer holds anything for a key but the one value the harness gives it,  *)
(* so the order in which recovery reads the layers does not matter.        *)
(***************************************************************************)
EXTENDS CrashHarness, DurabilityProofs

Writing == {"append", "appending", "fsync"}

OnlyValue(t) == \A k \in Key : t[k] \in {Absent, ValueOf[k]}

\* All the layers hold for a key is the value of the harness for it.
FreshInv ==
    /\ OnlyValue(memtable)
    /\ \A x \in 1..Len(sstables) : OnlyValue(sstables[x].entries)
    /\ \A n \in DOMAIN disk : OnlyValue(disk[n])
    /\ \A x \in 1..Len(wal) : wal[x] # Torn => wal[x].entry = ValueOf[wal[x].key]
    /\ wpc \in Writing => wentry = ValueOf[wkey]

\* The child works on a live Database, and until the parent has killed it only
\* the child does.
ProcessInv ==
    /\ child \in {"put", "putting", "ack"} => phase = "up"
    /\ child \in {"putting", "ack"} => i < count
    /\ parent \notin {"check", "read", "kill"} => child = "gone"

\* What has been acknowledged, or is about to be, is in the store.
AckedInv ==
    /\ \A k \in Key : k < i => kv[k] = ValueOf[k]
    /\ child = "putting" => kv[i] = ValueOf[i] \/ (wpc \in Writing /\ wkey = i)
    /\ child = "ack" => kv[i] = ValueOf[i]

\* The lookup in progress is one of an acknowledged key.
VerifyInv ==
    /\ parent \in {"check", "read", "kill", "reopen"} => checked = 0
    /\ parent = "get" => /\ getter[Parent].pc # "idle" /\ getter[Parent].key = checked
                         /\ checked <= last_acked

TrialInv ==
    /\ DatabaseInv /\ FilesInv /\ LogInv
    /\ HarnessTypeOK /\ FreshInv /\ ProcessInv /\ AckedInv /\ VerifyInv /\ TrialPasses

USE DEF PushBack, NextNumber, CompactionIsDue, NothingToMerge, MergedList,
        OldPaths, SwapLock

-----------------------------------------------------------------------------
(* The harness calls Database *)

\* The values of the harness are no tombstones.
LEMMA Values ==
    ASSUME NEW k \in Key
    PROVE  /\ k \in Int /\ ValueOf[k] \in Value /\ ValueOf[k] \in Entry
           /\ ValueOf[k] # Absent /\ Optional(ValueOf[k]) = ValueOf[k]
  BY HarnessAssumption, DataAssumption DEF Entry, Optional

\* What a step of the harness is to the Database: of all the writes, only that
\* of the next key.
LEMMA HarnessSteps ==
    ASSUME HarnessTypeOK, [HarnessNext]_allVars
    PROVE  \/ ChildPut /\ i \in Key /\ BeginWrite(i, ValueOf[i])
           \/ WriterNext /\ ~AppendThrows
           \/ CompactorNext \/ ReadStep
           \/ ProcessEnds \/ Close \/ Open \/ OpenTable \/ OpenReplay
<1>1. CASE ChildPut
  BY <1>1, HarnessAssumption DEF ChildPut, Put, HarnessTypeOK
<1>2. CASE ChildOpened \/ ChildPutReturns \/ ChildAck
  BY <1>2 DEF ChildOpened, ChildPutReturns, ChildAck, ReadStep, vars
<1>3. CASE ChildExit \/ ChildTerminates
  BY <1>3 DEF ChildExit, ChildTerminates, Crash
<1>4. CASE CollectCheck \/ CollectRead \/ CollectEof \/ Reopened \/ Return
  BY <1>4 DEF CollectCheck, CollectRead, CollectEof, Reopened, Return, ReadStep, vars
<1>5. CASE Kill
  BY <1>5 DEF Kill, Crash, ReadStep, vars
<1>6. CASE VerifyGet \/ VerifyCompare
  BY <1>6 DEF VerifyGet, VerifyCompare, Get, GetReturn, ReadStep
<1>7. CASE VerifyEnds
  BY <1>7 DEF VerifyEnds
<1>8. CASE DatabaseNext
  BY <1>8 DEF DatabaseNext, harnessVars, GetFromTable, ReadStep, CloseJoin
<1>9. CASE UNCHANGED allVars
  BY <1>9 DEF allVars, harnessVars, vars, ReadStep
<1> QED
  BY <1>1, <1>2, <1>3, <1>4, <1>5, <1>6, <1>7, <1>8, <1>9 DEF HarnessNext, ChildNext, ParentNext

\* No append fails and leaves the Database in use.
LEMMA NoThrow ==
    ASSUME DatabaseInv, HarnessTypeOK, [HarnessNext]_allVars
    PROVE  ~AppendThrows
<1> SUFFICES ASSUME AppendThrows PROVE FALSE
  OBVIOUS
<1>1. wpc # "idle" /\ wpc' = "idle" /\ phase' = phase
  BY DEF AppendThrows
<1>2. phase # "down"
  BY <1>1 DEF DatabaseInv, RestInv, Live
<1>3. ~CompactorNext /\ ~ReadStep
  BY <1>1 DEF CompactorNext, StartCompaction, CompactSnapshot, CompactMerge, CompactCreate,
     CompactFill, CompactRename, CompactSwap, CompactDelete, ReadStep, writerVars
<1>4. ~ProcessEnds /\ ~Close /\ ~Open /\ ~OpenTable /\ ~OpenReplay
  BY <1>1, <1>2 DEF ProcessEnds, Close, Open, OpenTable, OpenReplay, writerVars
<1>5. ~BeginWrite(i, ValueOf[i])
  BY <1>1 DEF BeginWrite
<1> QED
  BY <1>3, <1>4, <1>5, HarnessSteps

\* They are all steps that Database allows.
LEMMA HarnessIsDatabase ==
    ASSUME HarnessTypeOK, [HarnessNext]_allVars
    PROVE  [Next]_vars
<1>1. CASE ChildPut
  <2>1. i \in Key /\ Put(i, ValueOf[i])
    BY <1>1, HarnessAssumption DEF ChildPut, HarnessTypeOK
  <2>2. ValueOf[i] \in Value
    BY <2>1, Values
  <2> QED
    BY <2>1, <2>2 DEF Next
<1>2. CASE ChildExit \/ ChildTerminates \/ Kill
  BY <1>2 DEF ChildExit, ChildTerminates, Kill, Next
<1>3. CASE VerifyGet
  <2>1. checked \in Key /\ Get(Parent, checked) /\ Parent \in Getter
    BY <1>3, HarnessAssumption DEF VerifyGet, MoreToCheck, HarnessTypeOK
  <2> QED
    BY <2>1 DEF Next
<1>4. CASE VerifyCompare
  <2>1. GetReturn(Parent) /\ Parent \in Getter
    BY <1>4, HarnessAssumption DEF VerifyCompare
  <2> QED
    BY <2>1 DEF Next, GetterNext
<1>5. CASE VerifyEnds
  BY <1>5 DEF VerifyEnds, Next
<1>6. CASE DatabaseNext
  BY <1>6, HarnessAssumption DEF DatabaseNext, Next, GetterNext, LifecycleNext
<1>7. CASE UNCHANGED vars
  BY <1>7
<1> QED
  BY <1>1, <1>2, <1>3, <1>4, <1>5, <1>6, <1>7
     DEF HarnessNext, ChildNext, ParentNext, ChildOpened, ChildPutReturns, ChildAck, CollectCheck,
         CollectRead, CollectEof, Reopened, Return, allVars

-----------------------------------------------------------------------------
(* One value per key *)

\* Merging and replaying bring in nothing new.
LEMMA FreshNewest ==
    ASSUME NEW ssts \in Seq(SSTable),
           \A x \in 1..Len(ssts) : OnlyValue(ssts[x].entries)
    PROVE  OnlyValue(DropTombstones(MergeSSTables(ssts)))
<1> SUFFICES ASSUME NEW k \in Key PROVE DropTombstones(MergeSSTables(ssts))[k] \in {Absent, ValueOf[k]}
  BY DEF OnlyValue
<1>1. Newest(ssts, k) \in {Absent, ValueOf[k]}
  <2>1. CASE \A x \in 1..Len(ssts) : ssts[x].entries[k] = Absent
    BY <2>1, NewestMiss
  <2>2. CASE \E x \in 1..Len(ssts) :
                /\ ssts[x].entries[k] # Absent
                /\ \A y \in 1..Len(ssts) : x < y => ssts[y].entries[k] = Absent
    BY <2>2, NewestHit DEF OnlyValue
  <2> QED
    BY <2>1, <2>2, NewestCases
<1> QED
  BY <1>1 DEF DropTombstones, MergeSSTables

\* A log of the harness's values replays to them.
LEMMA FreshReplayed ==
    ASSUME NEW w \in Seq(WalRecord \cup {Torn}),
           \A x \in 1..Len(w) : w[x] # Torn => w[x].entry = ValueOf[w[x].key]
    PROVE  OnlyValue(Replayed(w))
<1> SUFFICES ASSUME NEW k \in Key PROVE Replayed(w)[k] \in {Absent, ValueOf[k]}
  BY DEF OnlyValue
<1> DEFINE hits == {x \in Decodable(w) : w[x].key = k}
<1>1. CASE hits = {}
  BY <1>1 DEF Replayed
<1>2. CASE hits # {}
  <2>1. Len(w) \in Nat /\ hits \in SUBSET (0..Len(w))
    BY DEF Decodable
  <2>2. Max(hits) \in hits
    BY <1>2, <2>1, MaxExists
  <2>3. Replayed(w)[k] = w[Max(hits)].entry
    BY <1>2 DEF Replayed
  <2>4. Max(hits) \in 1..Len(w) /\ w[Max(hits)] # Torn /\ w[Max(hits)].key = k
    BY <2>2 DEF Decodable
  <2> QED
    BY <2>3, <2>4
<1> QED
  BY <1>1, <1>2

\* Every step of the database on the harness's writes keeps FreshInv.
LEMMA FreshStep ==
    ASSUME DatabaseInv, FreshInv,
           \/ \E k \in Key : BeginWrite(k, ValueOf[k])
           \/ WriterNext \/ CompactorNext \/ ReadStep
           \/ ProcessEnds \/ Close \/ Open \/ OpenTable \/ OpenReplay
    PROVE  FreshInv'
<1>t. /\ TypeOK /\ WriterInv /\ CompactorInv /\ SnapshotIsPrefix
      /\ sstables \in Seq(SSTable) /\ Len(sstables) \in Nat
      /\ to_compact \in Seq(SSTable) /\ Len(to_compact) \in Nat
      /\ wal \in Seq(WalRecord \cup {Torn}) /\ Len(wal) \in Nat /\ memtable \in Table
  <2>1. TypeOK /\ WriterInv /\ CompactorInv /\ SnapshotIsPrefix
    BY DEF DatabaseInv
  <2> QED
    BY <2>1 DEF TypeOK
<1>1. CASE /\ UNCHANGED <<memtable, sstables, disk, wal>>
           /\ wpc' \in Writing => wpc \in Writing /\ UNCHANGED <<wkey, wentry>>
  BY <1>1 DEF FreshInv
<1>2. ASSUME NEW k \in Key, BeginWrite(k, ValueOf[k]) PROVE FreshInv'
  BY <1>2 DEF BeginWrite, FreshInv, tableVars, fileVars, walVars
<1>3. CASE AppendPart
  <2>1. /\ wpc = "append" /\ wal' = Append(wal, Torn)
        /\ UNCHANGED <<memtable, sstables, disk, wkey, wentry>>
    BY <1>3 DEF AppendPart, tableVars, fileVars
  <2>2. Len(wal') = Len(wal) + 1 /\ wal'[Len(wal) + 1] = Torn
        /\ \A x \in 1..Len(wal) : wal'[x] = wal[x]
    BY <1>t, <2>1
  <2>3. ASSUME NEW x \in 1..Len(wal'), wal'[x] # Torn PROVE wal'[x].entry = ValueOf[wal'[x].key]
    <3>1. x \in 1..Len(wal)
      BY <1>t, <2>2, <2>3
    <3> QED
      BY <2>2, <2>3, <3>1 DEF FreshInv
  <2> QED
    BY <2>1, <2>3 DEF FreshInv, Writing
<1>4. CASE AppendRest
  <2> DEFINE r == [key |-> wkey, entry |-> wentry]
  <2>1. /\ wpc = "appending" /\ wal' = [wal EXCEPT ![Len(wal)] = r]
        /\ UNCHANGED <<memtable, sstables, disk, wkey, wentry>>
    BY <1>4 DEF AppendRest, tableVars, fileVars
  <2>2. r.entry = ValueOf[r.key]
    BY <2>1 DEF FreshInv, Writing
  <2> HIDE DEF r
  <2>3. /\ Len(wal') = Len(wal)
        /\ \A x \in 1..Len(wal) : wal'[x] = IF x = Len(wal) THEN r ELSE wal[x]
    <3>1. wal \in [1..Len(wal) -> WalRecord \cup {Torn}]
      BY <1>t
    <3> QED
      BY <1>t, <2>1, <3>1
  <2>4. ASSUME NEW x \in 1..Len(wal'), wal'[x] # Torn PROVE wal'[x].entry = ValueOf[wal'[x].key]
    BY <2>2, <2>3, <2>4 DEF FreshInv
  <2> QED
    BY <2>1, <2>4 DEF FreshInv, Writing
<1>5. CASE ApplyToMemTable
  <2>1. /\ wpc = "fsync" /\ memtable' = Upsert(memtable, wkey, wentry) /\ wpc' \notin Writing
        /\ UNCHANGED <<wal, sstables, disk>>
    BY <1>5 DEF ApplyToMemTable, walVars, fileVars, Writing
  <2>2. OnlyValue(memtable')
    BY <1>t, <2>1 DEF FreshInv, OnlyValue, Upsert, Table, Writing
  <2> QED
    BY <2>1, <2>2 DEF FreshInv
<1>6. CASE FlushRename
  <2>1. /\ disk' = AddFile(disk, next_sstable_number, memtable) /\ wpc' \notin Writing
        /\ UNCHANGED <<wal, sstables, memtable>>
    BY <1>t, <1>6 DEF FlushRename, RenameTmp, WriterInv, walVars, tableVars, Writing
  <2>2. \A n \in DOMAIN disk' : OnlyValue(disk'[n])
    BY <2>1 DEF AddFile, FreshInv
  <2> QED
    BY <2>1, <2>2 DEF FreshInv
<1>7. CASE FlushOpen
  <2>1. /\ Len(sstables') = Len(sstables) + 1
        /\ sstables'[Len(sstables) + 1].entries = memtable
        /\ \A x \in 1..Len(sstables) : sstables'[x] = sstables[x]
        /\ wpc' \notin Writing /\ UNCHANGED <<wal, disk, memtable>>
    BY <1>7, FlushOpenList DEF Writing
  <2>2. ASSUME NEW x \in 1..Len(sstables') PROVE OnlyValue(sstables'[x].entries)
    <3>1. x \in 1..Len(sstables) \/ x = Len(sstables) + 1
      BY <1>t, <2>1
    <3> QED
      BY <2>1, <3>1 DEF FreshInv
  <2> QED
    BY <2>1, <2>2 DEF FreshInv
<1>8. CASE FlushReset
  <2>1. /\ wal' = <<>> /\ memtable' = EmptyTable /\ wpc' \notin Writing
        /\ UNCHANGED <<sstables, disk>>
    BY <1>8 DEF FlushReset, fileVars, Writing
  <2>2. OnlyValue(memtable')
    BY <2>1 DEF OnlyValue, EmptyTable
  <2> QED
    BY <2>1, <2>2 DEF FreshInv
<1>9. CASE WriterNext
  <2>1. CASE AppendThrows \/ FlushCreate \/ FlushFill \/ FlushThrows
    BY <1>1, <2>1 DEF AppendThrows, FlushCreate, FlushFill, FlushThrows, CreateTmp, FillTmp,
       walVars, tableVars, fileVars, Writing
  <2> QED
    BY <1>3, <1>4, <1>5, <1>6, <1>7, <1>8, <1>9, <2>1 DEF WriterNext
<1>10. cpc \in Merging => OnlyValue(DropTombstones(MergeSSTables(to_compact)))
  <2>1. SUFFICES ASSUME cpc \in Merging, NEW x \in 1..Len(to_compact)
                 PROVE  OnlyValue(to_compact[x].entries)
    BY <1>t, FreshNewest
  <2>2. x \in 1..Len(sstables) /\ to_compact[x] = sstables[x]
    BY <1>t, <2>1 DEF SnapshotIsPrefix, Merging
  <2> QED
    BY <2>2 DEF FreshInv
<1>11. CASE CompactorNext
  <2>1. CASE CompactRename
    <3>1. /\ disk' = AddFile(disk, compacted_number, DropTombstones(MergeSSTables(to_compact)))
          /\ UNCHANGED <<wal, sstables, memtable, wpc, wkey, wentry>> /\ cpc \in Merging
      BY <1>t, <2>1 DEF CompactRename, RenameTmp, CompactorInv, walVars, tableVars, writerVars,
         Merging
    <3>2. \A n \in DOMAIN disk' : OnlyValue(disk'[n])
      BY <1>10, <3>1 DEF AddFile, FreshInv
    <3> QED
      BY <3>1, <3>2 DEF FreshInv
  <2>2. CASE CompactSwap
    <3>1. /\ Len(to_compact) \in 1..Len(sstables)
          /\ Len(sstables') = Len(sstables) - Len(to_compact) + 1
          /\ sstables'[1].entries = DropTombstones(MergeSSTables(to_compact))
          /\ \A x \in 2..Len(sstables') : sstables'[x] = sstables[Len(to_compact) + x - 1]
          /\ cpc \in Merging
          /\ UNCHANGED <<wal, disk, memtable, wpc>>
      BY <2>2, SwapList DEF Merging
    <3>2. UNCHANGED <<wkey, wentry>>
      BY <2>2 DEF CompactSwap, writerVars
    <3>3. ASSUME NEW x \in 1..Len(sstables') PROVE OnlyValue(sstables'[x].entries)
      <4>1. CASE x = 1
        BY <1>10, <3>1, <4>1
      <4>2. CASE x # 1
        <5>1. x \in 2..Len(sstables') /\ Len(to_compact) + x - 1 \in 1..Len(sstables)
          BY <1>t, <3>1, <4>2
        <5> QED
          BY <3>1, <5>1 DEF FreshInv
      <4> QED
        BY <4>1, <4>2
    <3> QED
      BY <3>1, <3>2, <3>3 DEF FreshInv
  <2>3. CASE CompactDelete
    <3>1. /\ disk' = RemoveFile(disk, Head(old_paths)) \/ disk' = disk
          /\ UNCHANGED <<wal, sstables, memtable, wpc, wkey, wentry>>
      BY <2>3 DEF CompactDelete, walVars, tableVars, writerVars
    <3>2. \A n \in DOMAIN disk' : OnlyValue(disk'[n])
      BY <3>1 DEF RemoveFile, FreshInv
    <3> QED
      BY <3>1, <3>2 DEF FreshInv
  <2>4. CASE StartCompaction \/ CompactSnapshot \/ CompactMerge \/ CompactCreate \/ CompactFill
    BY <1>1, <2>4 DEF StartCompaction, CompactSnapshot, CompactMerge, CompactCreate, CompactFill,
       CreateTmp, FillTmp, walVars, tableVars, writerVars, fileVars
  <2> QED
    BY <1>11, <2>1, <2>2, <2>3, <2>4 DEF CompactorNext
<1>12. CASE ReadStep \/ Close \/ Open
  BY <1>1, <1>12 DEF ReadStep, Close, Open, walVars, tableVars, writerVars, fileVars
<1>13. CASE ProcessEnds
  <2>1. /\ memtable' = EmptyTable /\ sstables' = <<>> /\ wpc' \notin Writing
        /\ UNCHANGED <<wal, disk>>
    BY <1>13 DEF ProcessEnds, walVars, fileVars, Writing
  <2>2. OnlyValue(memtable')
    BY <2>1 DEF OnlyValue, EmptyTable
  <2> QED
    BY <2>1, <2>2 DEF FreshInv
<1>14. CASE OpenTable
  <2>1. PICK n \in DOMAIN disk : sstables' = Append(sstables, [number |-> n, entries |-> disk[n]])
    BY <1>14 DEF OpenTable
  <2>2. UNCHANGED <<wal, disk, memtable, wpc, wkey, wentry>>
    BY <1>14 DEF OpenTable, walVars, fileVars, writerVars
  <2>3. /\ Len(sstables') = Len(sstables) + 1
        /\ sstables'[Len(sstables) + 1].entries = disk[n]
        /\ \A x \in 1..Len(sstables) : sstables'[x] = sstables[x]
    BY <1>t, <2>1
  <2>4. ASSUME NEW x \in 1..Len(sstables') PROVE OnlyValue(sstables'[x].entries)
    <3>1. x \in 1..Len(sstables) \/ x = Len(sstables) + 1
      BY <1>t, <2>3
    <3> QED
      BY <2>3, <3>1 DEF FreshInv
  <2> QED
    BY <2>2, <2>4 DEF FreshInv
<1>15. CASE OpenReplay
  <2>1. /\ memtable' = Replayed(wal) /\ wal' = TruncateTail(wal)
        /\ UNCHANGED <<sstables, disk, wpc, wkey, wentry>>
    BY <1>15 DEF OpenReplay, fileVars, writerVars
  <2>2. OnlyValue(memtable')
    BY <1>t, <2>1, FreshReplayed DEF FreshInv
  <2>3. ASSUME NEW x \in 1..Len(wal') PROVE x \in 1..Len(wal) /\ wal'[x] = wal[x]
    <3> DEFINE S == Decodable(wal) \cup {0}
    <3>1. S \in SUBSET (0..Len(wal)) /\ S # {}
      BY <1>t DEF Decodable
    <3>2. Max(S) \in 0..Len(wal)
      BY <1>t, <3>1, MaxExists
    <3> DEFINE m == Max(S)
    <3>3. wal' = SubSeq(wal, 1, m) /\ m \in Nat /\ m <= Len(wal)
      BY <1>t, <2>1, <3>2 DEF TruncateTail
    <3> HIDE DEF m
    <3>4. Len(wal') = m /\ \A y \in 1..m : wal'[y] = wal[y]
      BY <1>t, <3>3
    <3> QED
      BY <1>t, <3>3, <3>4
  <2> QED
    BY <2>1, <2>2, <2>3 DEF FreshInv
<1> QED
  BY <1>2, <1>9, <1>11, <1>12, <1>13, <1>14, <1>15

-----------------------------------------------------------------------------
(* The end of a process *)

\* What has its value in the store has it after the next restart, whichever
\* layers recovery finds it in and in whatever order.
LEMMA ValueSurvives ==
    ASSUME DatabaseInv, FilesInv, LogInv, FreshInv, NEW k \in Key, kv[k] = ValueOf[k]
    PROVE  Recovered(wal, disk, k) = ValueOf[k]
<1>t. /\ TypeOK /\ RestInv /\ DirectoryInv /\ WriterInv /\ MemoryIsCurrent /\ OpenTablesAreOnDisk
  BY DEF DatabaseInv, FilesInv
<1>1. CASE ~Live
  BY <1>t, <1>1 DEF RestInv
<1>2. CASE Live
  <2>1. Lookup(memtable, sstables, k) = ValueOf[k]
    BY <1>t, <1>2 DEF MemoryIsCurrent
  <2>2. sstables \in Seq(SSTable) /\ wal \in Seq(WalRecord \cup {Torn}) /\ memtable \in Table
        /\ DOMAIN disk \subseteq Nat
    BY <1>t DEF TypeOK, IsDirectory
  <2>3. Replayed(wal)[k] \in {Absent, ValueOf[k]}
    BY <2>2, FreshReplayed DEF FreshInv, OnlyValue
  <2>4. memtable[k] # Absent => Replayed(wal)[k] # Absent
    <3>1. wpc = "fsync" => wentry \in Entry
      BY <1>t DEF WriterInv
    <3>2. Absent \notin Entry
      BY DataAssumption DEF Entry
    <3>3. Replayed(wal) = IF wpc = "fsync" THEN Upsert(memtable, wkey, wentry) ELSE memtable
      BY <1>2 DEF LogInv
    <3> QED
      BY <2>2, <3>1, <3>2, <3>3 DEF Upsert, Table
  <2>5. CASE Replayed(wal)[k] # Absent
    BY <2>3, <2>5, Values DEF Recovered
  <2>6. CASE Replayed(wal)[k] = Absent
    <3>1. Optional(Newest(sstables, k)) = ValueOf[k]
      BY <2>1, <2>4, <2>6 DEF Lookup
    <3>2. Newest(sstables, k) # Absent
      BY <3>1, Values, DataAssumption DEF Optional
    <3>3. PICK x \in 1..Len(sstables) : sstables[x].entries[k] # Absent
      BY <2>2, <3>2, NewestCases, NewestMiss
    <3>4. sstables[x].number \in DOMAIN disk /\ disk[sstables[x].number][k] # Absent
      BY <1>t, <3>3 DEF OpenTablesAreOnDisk
    <3> DEFINE hits == {n \in DOMAIN disk : disk[n][k] # Absent}
    <3>5. PICK b \in Nat : \A n \in DOMAIN disk : n <= b
      BY <1>t DEF DirectoryInv
    <3>6. hits \in SUBSET (0..b) /\ hits # {}
      BY <2>2, <3>4, <3>5
    <3>7. Max(hits) \in hits
      BY <3>6, MaxExists
    <3>8. NewestOnDisk(disk, k) = disk[Max(hits)][k]
      BY <3>6 DEF NewestOnDisk
    <3>9. disk[Max(hits)][k] = ValueOf[k]
      BY <3>7 DEF FreshInv, OnlyValue
    <3> QED
      BY <2>6, <3>8, <3>9, Values DEF Recovered
  <2> QED
    BY <2>5, <2>6
<1> QED
  BY <1>1, <1>2

\* A value of the harness stays in the store.
LEMMA ValueStays ==
    ASSUME DatabaseInv, FilesInv, LogInv, FreshInv, HarnessTypeOK, [HarnessNext]_allVars,
           NEW k \in Key, kv[k] = ValueOf[k]
    PROVE  kv'[k] = ValueOf[k]
<1>t. TypeOK /\ WriterInv
  BY DEF DatabaseInv
<1>1. CASE kv' = kv
  BY <1>1
<1>2. CASE ProcessEnds
  BY <1>2, ValueSurvives DEF ProcessEnds
<1>3. CASE ApplyToMemTable
  <2>1. wpc = "fsync" /\ kv' = [kv EXCEPT ![wkey] = Optional(wentry)]
    BY <1>3 DEF ApplyToMemTable
  <2>2. wkey \in Key /\ Optional(wentry) = ValueOf[wkey]
    BY <1>t, <2>1, Values DEF WriterInv, FreshInv, Writing
  <2> QED
    BY <1>t, <2>1, <2>2 DEF TypeOK
<1>4. CASE WriterNext
  BY <1>1, <1>3, <1>4 DEF WriterNext, AppendPart, AppendRest, AppendThrows, FlushCreate, FlushFill,
     FlushRename, FlushOpen, FlushReset, FlushThrows, historyVars
<1>5. CASE CompactorNext
  BY <1>1, <1>5 DEF CompactorNext, StartCompaction, CompactSnapshot, CompactMerge, CompactCreate,
     CompactFill, CompactRename, CompactSwap, CompactDelete, historyVars
<1>6. CASE BeginWrite(i, ValueOf[i]) \/ ReadStep \/ Close \/ Open \/ OpenTable \/ OpenReplay
  BY <1>1, <1>6 DEF BeginWrite, ReadStep, Close, Open, OpenTable, OpenReplay, historyVars
<1> QED
  BY <1>2, <1>4, <1>5, <1>6, HarnessSteps

-----------------------------------------------------------------------------
(* The trial *)

\* The counters of the harness.
LEMMA HarnessTypeStep ==
    ASSUME HarnessTypeOK, ProcessInv, VerifyInv, [HarnessNext]_allVars
    PROVE  HarnessTypeOK'
<1>t. /\ count \in Nat /\ i \in 0..count /\ i \in Nat /\ pipe \in Seq(0 .. i - 1)
      /\ last_acked \in -1 .. i - 1 /\ checked \in 0 .. last_acked + 1 /\ Len(pipe) \in Nat
      /\ ok \in BOOLEAN
  BY HarnessAssumption DEF HarnessTypeOK
<1>1. CASE UNCHANGED <<i, pipe, last_acked, checked, ok>>
  <2>1. /\ child' \in {"start", "put", "putting", "ack", "gone"}
        /\ parent' \in {"check", "read", "kill", "reopen", "verify", "get", "close", "done"}
    BY DEF HarnessTypeOK, HarnessNext, ChildNext, ParentNext, DatabaseNext, ChildOpened, ChildPut,
       ChildPutReturns, ChildAck, ChildExit, ChildTerminates, CollectCheck, CollectRead, CollectEof, Kill, Reopened,
       VerifyGet, VerifyCompare, VerifyEnds, Return, harnessVars, allVars
  <2> QED
    BY <1>1, <2>1 DEF HarnessTypeOK
<1>2. CASE ChildAck
  <2>1. /\ child = "ack" /\ pipe' \in {Append(pipe, i), pipe} /\ i' = i + 1 /\ child' = "put"
        /\ UNCHANGED <<parent, last_acked, checked, ok>>
    BY <1>2 DEF ChildAck
  <2>2. i < count
    BY <2>1 DEF ProcessInv
  <2>3. i' \in 0..count /\ last_acked' \in -1 .. i' - 1
    BY <1>t, <2>1, <2>2
  <2>4. pipe' \in Seq(0 .. i' - 1)
    <3> DEFINE S == 0 .. i' - 1
    <3>1. (0 .. i - 1) \subseteq S /\ i \in S
      BY <1>t, <2>1
    <3> HIDE DEF S
    <3>2. pipe \in Seq(S)
      BY <1>t, <3>1
    <3>3. Append(pipe, i) \in Seq(S)
      BY <3>1, <3>2
    <3> QED
      BY <2>1, <3>2, <3>3 DEF S
  <2> QED
    BY <2>1, <2>3, <2>4 DEF HarnessTypeOK
<1>3. CASE CollectRead
  <2>1. PICK n \in 1..Len(pipe) : last_acked' = pipe[n] /\ pipe' = SubSeq(pipe, n + 1, Len(pipe))
    BY <1>3 DEF CollectRead
  <2>2. parent = "read" /\ parent' = "check" /\ UNCHANGED <<child, i, checked, ok>>
    BY <1>3 DEF CollectRead
  <2>3. pipe[n] \in 0 .. i - 1 /\ pipe' \in Seq(0 .. i - 1)
    BY <1>t, <2>1
  <2>4. checked = 0
    BY <2>2 DEF VerifyInv
  <2> QED
    BY <1>t, <2>1, <2>2, <2>3, <2>4 DEF HarnessTypeOK
<1>4. CASE Reopened
  BY <1>4 DEF Reopened, HarnessTypeOK
<1>5. CASE VerifyCompare
  <2>1. /\ parent = "get" /\ checked' = checked + 1 /\ parent' = "verify"
        /\ ok' = (ok /\ getter[Parent].value = ValueOf[checked])
        /\ UNCHANGED <<child, i, pipe, last_acked>>
    BY <1>5 DEF VerifyCompare
  <2>2. checked <= last_acked
    BY <2>1 DEF VerifyInv
  <2>3. checked' \in 0 .. last_acked + 1 /\ ok' \in BOOLEAN
    BY <1>t, <2>1, <2>2
  <2> QED
    BY <2>1, <2>3 DEF HarnessTypeOK
<1> QED
  BY <1>1, <1>2, <1>3, <1>4, <1>5 DEF HarnessNext, ChildNext, ParentNext, DatabaseNext, ChildOpened,
     ChildPut, ChildPutReturns, ChildExit, ChildTerminates, CollectCheck, CollectEof, Kill,
     VerifyGet, VerifyEnds, Return, harnessVars, allVars

\* Which process has the Database, in each of their steps.
LEMMA ProcessStep ==
    ASSUME DatabaseInv, HarnessTypeOK, ProcessInv, [HarnessNext]_allVars
    PROVE  ProcessInv'
<1>1. CASE ChildOpened \/ ChildPutReturns \/ ChildAck
  BY <1>1 DEF ChildOpened, ChildPutReturns, ChildAck, ProcessInv, vars
<1>2. CASE ChildPut
  <2>1. child = "put" /\ child' = "putting" /\ i' = i /\ i < count /\ parent' = parent
    BY <1>2 DEF ChildPut
  <2>2. phase' = phase
    BY <1>2 DEF ChildPut, Put, BeginWrite
  <2> QED
    BY <2>1, <2>2 DEF ProcessInv
<1>3. CASE ChildExit \/ ChildTerminates \/ Kill
  BY <1>3 DEF ChildExit, ChildTerminates, Kill, ProcessInv
<1>4. CASE CollectCheck \/ CollectRead \/ CollectEof \/ Reopened \/ Return
  BY <1>4 DEF CollectCheck, CollectRead, CollectEof, Reopened, Return, ProcessInv, vars
<1>5. CASE VerifyGet \/ VerifyCompare \/ VerifyEnds
  BY <1>5 DEF VerifyGet, VerifyCompare, VerifyEnds, ProcessInv
<1>6. CASE DatabaseNext
  <2>1. UNCHANGED <<child, i, parent>>
    BY <1>6 DEF DatabaseNext, harnessVars
  <2>2. phase = "up" => phase' = "up"
    BY <1>6 DEF DatabaseNext, WriterNext, CompactorNext, AppendPart, AppendRest, AppendThrows,
       ApplyToMemTable, FlushCreate, FlushFill, FlushRename, FlushOpen, FlushReset, FlushThrows,
       StartCompaction, CompactSnapshot, CompactMerge, CompactCreate, CompactFill, CompactRename,
       CompactSwap, CompactDelete, GetFromTable, CloseJoin, OpenTable, OpenReplay, Open
  <2> QED
    BY <2>1, <2>2 DEF ProcessInv
<1>7. CASE UNCHANGED allVars
  BY <1>7 DEF allVars, harnessVars, vars, ProcessInv
<1> QED
  BY <1>1, <1>2, <1>3, <1>4, <1>5, <1>6, <1>7 DEF HarnessNext, ChildNext, ParentNext

\* The put of the child leaves its value in the store before it returns.
LEMMA AckedStep ==
    ASSUME DatabaseInv, FilesInv, LogInv, FreshInv, HarnessTypeOK, ProcessInv, AckedInv,
           [HarnessNext]_allVars
    PROVE  AckedInv'
<1>t. TypeOK /\ i \in Int /\ (i < count => i \in Key) /\ \A k \in Key : k \in Int
  BY HarnessAssumption DEF DatabaseInv, HarnessTypeOK
<1>1. ASSUME NEW k \in Key, kv[k] = ValueOf[k] PROVE kv'[k] = ValueOf[k]
  BY <1>1, ValueStays
<1>2. i' = i => \A k \in Key : k < i' => kv'[k] = ValueOf[k]
  BY <1>1 DEF AckedInv
<1>3. CASE i' = i /\ child' \notin {"putting", "ack"}
  BY <1>2, <1>3 DEF AckedInv
<1>4. CASE ChildPut
  <2>1. child' = "putting" /\ i' = i /\ wpc' \in Writing /\ wkey' = i
    BY <1>4 DEF ChildPut, Put, BeginWrite, Writing
  <2> QED
    BY <1>2, <2>1 DEF AckedInv
<1>5. CASE ChildPutReturns
  <2>1. child = "putting" /\ wpc = "idle" /\ child' = "ack" /\ i' = i
    BY <1>5 DEF ChildPutReturns
  <2>2. kv[i] = ValueOf[i] /\ i \in Key
    BY <1>t, <2>1 DEF AckedInv, ProcessInv, Writing
  <2> QED
    BY <1>1, <1>2, <2>1, <2>2 DEF AckedInv
<1>6. CASE ChildAck
  <2>1. child = "ack" /\ child' = "put" /\ i' = i + 1
    BY <1>6 DEF ChildAck
  <2>2. ASSUME NEW k \in Key, k < i + 1 PROVE kv'[k] = ValueOf[k]
    <3>1. k < i \/ k = i
      BY <1>t, <2>2
    <3>2. kv[k] = ValueOf[k]
      BY <2>1, <3>1 DEF AckedInv
    <3> QED
      BY <1>1, <3>2
  <2> QED
    BY <2>1, <2>2 DEF AckedInv
<1>7. CASE child' = child /\ i' = i /\ ~ChildPut
  <2>1. CASE child = "ack"
    <3>1. kv[i] = ValueOf[i] /\ i \in Key
      BY <1>t, <2>1 DEF AckedInv, ProcessInv
    <3> QED
      BY <1>1, <1>2, <1>7, <2>1, <3>1 DEF AckedInv
  <2>2. CASE child = "putting"
    <3>1. i \in Key
      BY <1>t, <2>2 DEF ProcessInv
    <3>2. CASE kv[i] = ValueOf[i]
      BY <1>1, <1>2, <1>7, <2>2, <3>1, <3>2 DEF AckedInv
    <3>3. CASE wpc \in Writing /\ wkey = i
      <4>1. CASE UNCHANGED <<wpc, wkey>>
        BY <1>2, <1>7, <2>2, <3>3, <4>1 DEF AckedInv
      <4>2. CASE AppendPart \/ AppendRest
        <5>1. wpc' \in Writing /\ wkey' = wkey
          BY <4>2 DEF AppendPart, AppendRest, Writing
        <5> QED
          BY <1>2, <1>7, <2>2, <3>3, <5>1 DEF AckedInv
      <4>3. CASE ApplyToMemTable
        <5>1. wpc = "fsync" /\ kv' = [kv EXCEPT ![wkey] = Optional(wentry)]
          BY <4>3 DEF ApplyToMemTable
        <5>2. Optional(wentry) = ValueOf[i]
          BY <3>1, <3>3, <5>1, Values DEF FreshInv, Writing
        <5>3. kv'[i] = ValueOf[i]
          BY <1>t, <3>1, <3>3, <5>1, <5>2 DEF TypeOK
        <5> QED
          BY <1>2, <1>7, <2>2, <5>3 DEF AckedInv
      <4>4. CASE WriterNext /\ ~AppendThrows
        BY <3>3, <4>2, <4>3, <4>4 DEF WriterNext, FlushCreate, FlushFill, FlushRename,
           FlushOpen, FlushReset, FlushThrows, Writing
      <4>5. CASE CompactorNext
        BY <4>1, <4>5 DEF CompactorNext, StartCompaction, CompactSnapshot, CompactMerge,
           CompactCreate, CompactFill, CompactRename, CompactSwap, CompactDelete, writerVars
      <4>6. CASE ReadStep \/ Close \/ Open \/ OpenTable \/ OpenReplay
        BY <4>1, <4>6 DEF ReadStep, Close, Open, OpenTable, OpenReplay, writerVars
      <4>7. ~ProcessEnds
        <5>1. ProcessInv'
          BY ProcessStep
        <5>2. phase' = "up"
          BY <1>7, <2>2, <5>1 DEF ProcessInv
        <5> QED
          BY <5>2 DEF ProcessEnds
      <4> QED
        BY <1>7, <4>4, <4>5, <4>6, <4>7, HarnessSteps
    <3> QED
      BY <2>2, <3>2, <3>3 DEF AckedInv
  <2>3. CASE child \notin {"ack", "putting"}
    BY <1>3, <1>7, <2>3
  <2> QED
    BY <2>1, <2>2, <2>3
<1> QED
  BY <1>3, <1>4, <1>5, <1>6, <1>7 DEF HarnessNext, ChildNext, ParentNext, DatabaseNext, ChildOpened,
     ChildExit, ChildTerminates, CollectCheck, CollectRead, CollectEof, Kill, Reopened, VerifyGet,
     VerifyCompare, VerifyEnds, Return, harnessVars, allVars

\* The parent looks up one acknowledged key after the other.
LEMMA VerifyStep ==
    ASSUME DatabaseInv, HarnessTypeOK, ProcessInv, VerifyInv, [HarnessNext]_allVars
    PROVE  VerifyInv'
<1>t. TypeOK /\ Parent \in Getter /\ getter \in [Getter -> GetState]
  BY HarnessAssumption DEF DatabaseInv, TypeOK
<1>1. CASE VerifyGet
  <2>1. /\ parent = "verify" /\ parent' = "get" /\ checked <= last_acked
        /\ UNCHANGED <<checked, last_acked>> /\ Get(Parent, checked)
    BY <1>1 DEF VerifyGet, MoreToCheck
  <2>2. getter'[Parent].key = checked /\ getter'[Parent].pc # "idle"
    BY <1>t, <2>1 DEF Get
  <2> QED
    BY <2>1, <2>2 DEF VerifyInv
<1>2. CASE VerifyCompare \/ VerifyEnds \/ Return \/ Reopened \/ Kill \/ CollectCheck \/ CollectRead
           \/ CollectEof
  BY <1>2 DEF VerifyCompare, VerifyEnds, Return, Reopened, Kill, CollectCheck, CollectRead,
     CollectEof, VerifyInv
<1>3. CASE UNCHANGED <<parent, checked, last_acked>> /\ (parent # "get" \/ UNCHANGED getter)
  BY <1>3 DEF VerifyInv
<1>4. CASE ChildNext \/ ChildTerminates
  <2>1. child # "gone"
    BY <1>4 DEF ChildNext, ChildOpened, ChildPut, ChildPutReturns, ChildAck, ChildExit,
       ChildTerminates
  <2>2. parent # "get"
    BY <2>1 DEF ProcessInv
  <2> QED
    BY <1>3, <1>4, <2>2 DEF ChildNext, ChildOpened, ChildPut, ChildPutReturns, ChildAck, ChildExit,
       ChildTerminates
<1>5. CASE DatabaseNext
  <2>1. UNCHANGED <<parent, checked, last_acked>>
    BY <1>5 DEF DatabaseNext, harnessVars
  <2>2. CASE GetFromTable(Parent)
    <3>1. getter'[Parent].key = getter[Parent].key /\ getter'[Parent].pc # "idle"
      BY <1>t, <2>2 DEF GetFromTable, GetState
    <3> QED
      BY <2>1, <3>1 DEF VerifyInv
  <2>3. CASE CloseJoin
    <3>1. parent # "get" \/ phase = "up"
      BY <1>t DEF VerifyInv, DatabaseInv, GetterInv, GetterPart
    <3> QED
      BY <1>3, <2>1, <2>3, <3>1 DEF CloseJoin
  <2>4. CASE WriterNext \/ CompactorNext \/ OpenTable \/ OpenReplay \/ Open
    <3>1. getter' = getter
      BY <2>4 DEF WriterNext, CompactorNext, AppendPart, AppendRest, AppendThrows,
         ApplyToMemTable, FlushCreate, FlushFill, FlushRename, FlushOpen, FlushReset, FlushThrows,
         StartCompaction, CompactSnapshot, CompactMerge, CompactCreate, CompactFill, CompactRename,
         CompactSwap, CompactDelete, OpenTable, OpenReplay, Open, readerVars
    <3> QED
      BY <1>3, <2>1, <3>1
  <2> QED
    BY <1>5, <2>2, <2>3, <2>4 DEF DatabaseNext
<1>6. CASE UNCHANGED allVars
  BY <1>3, <1>6 DEF allVars, harnessVars, vars, readerVars
<1> QED
  BY <1>1, <1>2, <1>4, <1>5, <1>6 DEF HarnessNext, ParentNext

\* No check of the parent fails.
LEMMA PassesStep ==
    ASSUME DatabaseInv, HarnessTypeOK, AckedInv, VerifyInv, TrialPasses, [HarnessNext]_allVars
    PROVE  TrialPasses'
<1>1. CASE ok' = ok
  BY <1>1 DEF TrialPasses
<1>2. CASE Reopened
  <2>1. ~ConstructorThrows
    BY DEF ConstructorThrows, DatabaseInv, DirectoryInv, ReopenNeverThrows
  <2> QED
    BY <1>2, <2>1 DEF Reopened, TrialPasses
<1>3. CASE VerifyCompare
  <2>1. /\ parent = "get" /\ getter[Parent].pc = "done"
        /\ ok' = (ok /\ getter[Parent].value = ValueOf[checked])
    BY <1>3 DEF VerifyCompare, GetReturn
  <2>2. getter[Parent].value = kv[checked]
    BY <2>1, HarnessAssumption DEF DatabaseInv, GetterInv, GetterPart, VerifyInv
  <2>3. checked \in Key /\ checked < i
    BY <2>1, HarnessAssumption DEF VerifyInv, HarnessTypeOK
  <2>4. kv[checked] = ValueOf[checked]
    BY <2>3 DEF AckedInv
  <2> QED
    BY <2>1, <2>2, <2>4 DEF TrialPasses
<1> QED
  BY <1>1, <1>2, <1>3 DEF HarnessNext, ChildNext, ParentNext, DatabaseNext, ChildOpened, ChildPut,
     ChildPutReturns, ChildAck, ChildExit, ChildTerminates, CollectCheck, CollectRead, CollectEof,
     Kill, VerifyGet, VerifyEnds, Return, harnessVars, allVars

\* TrialInv holds at first.
LEMMA TrialInit == HarnessInit => TrialInv
<1> SUFFICES ASSUME HarnessInit PROVE TrialInv
  OBVIOUS
<1>1. DatabaseInv /\ FilesInv /\ LogInv
  BY InitInv, FilesInit DEF HarnessInit, Init, LogInv, Live
<1>2. HarnessTypeOK
  <2>1. pipe \in Seq(0 .. i - 1)
    BY DEF HarnessInit
  <2> QED
    BY <2>1, HarnessAssumption DEF HarnessInit, HarnessTypeOK
<1>3. FreshInv
  BY DEF HarnessInit, Init, FreshInv, OnlyValue, EmptyTable, NoFiles, Writing
<1>4. ProcessInv /\ VerifyInv /\ TrialPasses
  BY DEF HarnessInit, ProcessInv, VerifyInv, TrialPasses
<1>5. AckedInv
  BY HarnessAssumption DEF HarnessInit, AckedInv
<1> QED
  BY <1>1, <1>2, <1>3, <1>4, <1>5 DEF TrialInv

\* Every step of a trial keeps TrialInv.
LEMMA TrialStep == TrialInv /\ [HarnessNext]_allVars => TrialInv'
<1> SUFFICES ASSUME TrialInv, [HarnessNext]_allVars PROVE TrialInv'
  OBVIOUS
<1>t. /\ DatabaseInv /\ FilesInv /\ LogInv /\ HarnessTypeOK /\ FreshInv /\ ProcessInv /\ AckedInv
      /\ VerifyInv /\ TrialPasses
  BY DEF TrialInv
<1>1. [Next]_vars
  BY <1>t, HarnessIsDatabase
<1>2. DatabaseInv' /\ FilesInv' /\ LogInv'
  BY <1>t, <1>1, NoThrow, StepInv, FilesStep, LogStep
<1>3. HarnessTypeOK' /\ ProcessInv' /\ VerifyInv'
  BY <1>t, HarnessTypeStep, ProcessStep, VerifyStep
<1>4. FreshInv'
  <2>1. \/ \E k \in Key : BeginWrite(k, ValueOf[k])
        \/ WriterNext \/ CompactorNext \/ ReadStep
        \/ ProcessEnds \/ Close \/ Open \/ OpenTable \/ OpenReplay
    BY <1>t, HarnessSteps
  <2> QED
    BY <1>t, <2>1, FreshStep
<1>5. AckedInv' /\ TrialPasses'
  BY <1>t, AckedStep, PassesStep
<1> QED
  BY <1>2, <1>3, <1>4, <1>5 DEF TrialInv

\* TrialInv is an invariant of the harness, whichever system calls fail: a
\* put that throws ends the child (crash_recovery_harness.cpp:49), so torn bytes
\* in the log stay at its end.
THEOREM TrialInvariance == HarnessSpec => []TrialInv
  BY TrialStep, TrialInit, PTL DEF HarnessSpec

\* The parent looks up only what was acknowledged and the child acknowledges
\* only what it has put (crash_recovery_harness.cpp:133).
THEOREM HarnessTypes == HarnessSpec => []HarnessTypeOK
<1>1. TrialInv => HarnessTypeOK
  BY DEF TrialInv
<1> QED
  BY <1>1, TrialInvariance, PTL

\* Every trial passes (crash_recovery_harness.cpp:4), wherever the kill lands,
\* whatever fails, and with a flush that overtakes a compaction as well.
THEOREM EveryTrialPasses == HarnessSpec => []TrialPasses
<1>1. TrialInv => TrialPasses
  BY DEF TrialInv
<1> QED
  BY <1>1, TrialInvariance, PTL
=============================================================================
