------------------------------ MODULE Database ------------------------------
(***************************************************************************)
(* class Database: the MemTable backed by the WAL, the list of SSTables,   *)
(* flushing, the background compaction thread, process death at any point  *)
(* and the recovery done by the constructor.                               *)
(*                                                                         *)
(* One put or remove holds mutex_ exclusively from its first line to its   *)
(* return, so at most one is past its lock; wpc says which step it does    *)
(* next.  Its steps are separate actions because the compaction thread     *)
(* works on the same directory without the lock, and because the process   *)
(* may die between any two of them.  cpc is the step of the compaction     *)
(* thread.  Critical sections of a few instructions on memory only (taking *)
(* the snapshot, taking a file number, swapping the list) are one action.  *)
(*                                                                         *)
(* A process death loses memory and keeps what system calls did to files.  *)
(***************************************************************************)
EXTENDS LSMTables

CONSTANTS
    FlushThreshold,     \* flush_threshold_bytes_
    CompactionTrigger,  \* compaction_trigger_count_
    Partial,            \* contents of a .tmp file that is not yet complete
    Getter, Scanner,    \* threads that call get, and scan
    ScanBound,          \* arguments of scan
    Faults,             \* kinds of system call that may fail: see FaultKind
    MaxWrites,          \* bound on put and remove calls
    MaxRestarts         \* bound on process deaths and closes

FaultKind == {"append", "flush", "unlink"}

ASSUME ParameterAssumption ==
    /\ FlushThreshold \in Nat /\ CompactionTrigger \in Nat
    /\ Faults \subseteq FaultKind
    /\ ScanBound \subseteq Int
    /\ MaxWrites \in Nat /\ MaxRestarts \in Nat

ASSUME PartialAssumption == Partial \notin Table

VARIABLES
    \* the directory
    wal,        \* wal.log: sequence of records, Torn for bytes that do not decode
    disk,       \* sst-<number>.sst
    tmp,        \* sst-<number>.sst.tmp
    \* the process
    phase,      \* "down", "opening" (constructor), "up", "closing" (destructor)
    memtable, sstables, next_sstable_number, compaction_requested,
    wpc, wkey, wentry,                              \* the put or remove in progress
    cpc, to_compact, merged, compacted_number, old_paths,   \* CompactOnce
    getter, scanner,
    \* history
    kv,         \* the map the calls have built so far
    pending,    \* results of writes begun and not in effect, by key
    writes, restarts

walVars == <<wal>>
fileVars == <<disk, tmp>>
tableVars == <<memtable, sstables, next_sstable_number>>
writerVars == <<wpc, wkey, wentry>>
compactorVars == <<cpc, to_compact, merged, compacted_number, old_paths>>
readerVars == <<getter, scanner>>
historyVars == <<kv, pending, writes, restarts>>
vars == <<walVars, fileVars, phase, tableVars, compaction_requested, writerVars,
          compactorVars, readerVars, historyVars>>

WriterStep == {"idle", "append", "appending", "fsync", "create", "fill",
               "rename", "open", "reset"}
CompactorStep == {"wait", "snapshot", "merge", "create", "fill", "rename",
                  "swap", "delete"}

Live == phase \in {"up", "closing"}

NoGet == [pc |-> "idle", key |-> 0, i |-> 0, value |-> Absent]
NoScan == [pc |-> "idle", start |-> 0, end |-> 0, i |-> 0, merged |-> EmptyTable]

\* Mutant: a reader does not wait for the writer.
LockSharedAlways == TRUE

\* mutex_, a std::shared_mutex: held exclusively by the call that wpc
\* follows, shared by the get and scan calls in progress.
CanLockShared == wpc = "idle"

CanLockExclusive ==
    /\ wpc = "idle"
    /\ \A r \in Getter : getter[r].pc = "idle"
    /\ \A r \in Scanner : scanner[r].pc = "idle"

Init ==
    /\ wal = <<>> /\ disk = NoFiles /\ tmp = NoFiles
    /\ phase = "down"
    /\ memtable = EmptyTable /\ sstables = <<>> /\ next_sstable_number = 1
    /\ compaction_requested = FALSE
    /\ wpc = "idle" /\ wkey = 0 /\ wentry = Absent
    /\ cpc = "wait" /\ to_compact = <<>> /\ merged = EmptyTable
    /\ compacted_number = 0 /\ old_paths = <<>>
    /\ getter = [r \in Getter |-> NoGet]
    /\ scanner = [r \in Scanner |-> NoScan]
    /\ kv = [k \in Key |-> Absent] /\ pending = [k \in Key |-> {}]
    /\ writes = 0 /\ restarts = 0
-----------------------------------------------------------------------------
(* put and remove *)

\* The call takes mutex_ and enters WriteAheadLog::Append.
BeginWrite(k, e) ==
    /\ phase = "up" /\ CanLockExclusive /\ writes < MaxWrites
    /\ wpc' = "append" /\ wkey' = k /\ wentry' = e
    /\ pending' = [pending EXCEPT ![k] = @ \cup {Optional(e)}]
    /\ writes' = writes + 1
    /\ UNCHANGED <<walVars, fileVars, phase, tableVars, compaction_requested,
                   compactorVars, readerVars, kv, restarts>>

Put(k, v) == BeginWrite(k, v)
Remove(k) == BeginWrite(k, Tombstone)

\* WriteAll: a first write() leaves a proper prefix of the record ...
AppendPart ==
    /\ wpc = "append"
    /\ wal' = Append(wal, Torn)
    /\ wpc' = "appending"
    /\ UNCHANGED <<fileVars, phase, tableVars, compaction_requested, wkey, wentry,
                   compactorVars, readerVars, historyVars>>

\* ... and the following ones complete it.
AppendRest ==
    /\ wpc = "appending"
    /\ wal' = [wal EXCEPT ![Len(wal)] = [key |-> wkey, entry |-> wentry]]
    /\ wpc' = "fsync"
    /\ UNCHANGED <<fileVars, phase, tableVars, compaction_requested, wkey, wentry,
                   compactorVars, readerVars, historyVars>>

\* write or fsync fails: the exception leaves put and releases mutex_.
AppendThrows ==
    /\ "append" \in Faults
    /\ wpc \in {"append", "appending", "fsync"}
    /\ wpc' = "idle"
    /\ UNCHANGED <<walVars, fileVars, phase, tableVars, compaction_requested, wkey,
                   wentry, compactorVars, readerVars, historyVars>>

\* fsync returned: memtable_.put/remove, then MaybeFlush decides whether
\* the call returns or goes on to Flush.
ApplyToMemTable ==
    /\ wpc = "fsync"
    /\ memtable' = Upsert(memtable, wkey, wentry)
    /\ wpc' = IF ApproximateSize(memtable') >= FlushThreshold THEN "create" ELSE "idle"
    /\ kv' = [kv EXCEPT ![wkey] = Optional(wentry)]
    /\ pending' = [pending EXCEPT ![wkey] = {}]
    /\ UNCHANGED <<walVars, fileVars, phase, sstables, next_sstable_number,
                   compaction_requested, wkey, wentry, compactorVars, readerVars,
                   writes, restarts>>
-----------------------------------------------------------------------------
(* Flush *)

\* Mutant: no temporary file, the table is written under its final name.
CreateInPlace(n) == disk' = AddFile(disk, n, Partial) /\ UNCHANGED tmp

\* WriteSSTable, its steps on the directory: open(O_CREAT | O_TRUNC) ...
CreateTmp(n) == tmp' = AddFile(tmp, n, Partial) /\ UNCHANGED disk
\* ... data, index and footer, fsync, close ...
FillTmp(n, t) == tmp' = AddFile(tmp, n, t) /\ UNCHANGED disk
\* ... and the rename into place.
RenameTmp(n) == disk' = AddFile(disk, n, tmp[n]) /\ tmp' = RemoveFile(tmp, n)

FlushCreate ==
    /\ wpc = "create" /\ CreateTmp(next_sstable_number) /\ wpc' = "fill"
    /\ UNCHANGED <<walVars, phase, tableVars, compaction_requested, wkey, wentry,
                   compactorVars, readerVars, historyVars>>

FlushFill ==
    /\ wpc = "fill" /\ FillTmp(next_sstable_number, memtable) /\ wpc' = "rename"
    /\ UNCHANGED <<walVars, phase, tableVars, compaction_requested, wkey, wentry,
                   compactorVars, readerVars, historyVars>>

FlushRename ==
    /\ wpc = "rename" /\ RenameTmp(next_sstable_number) /\ wpc' = "open"
    /\ UNCHANGED <<walVars, phase, tableVars, compaction_requested, wkey, wentry,
                   compactorVars, readerVars, historyVars>>

\* Mutant: the new table goes to the front of the list.
PushFront(ssts, t) == <<t>> \o ssts
\* Mutant: ++next_sstable_number_ is missing.
SameNumber(n) == n

PushBack(ssts, t) == Append(ssts, t)
NextNumber(n) == n + 1

\* A reader on the new file goes to the back of sstables_.
FlushOpen ==
    /\ wpc = "open"
    /\ sstables' = PushBack(sstables, [number |-> next_sstable_number,
                                       entries |-> disk[next_sstable_number]])
    /\ next_sstable_number' = NextNumber(next_sstable_number)
    /\ wpc' = "reset"
    /\ UNCHANGED <<walVars, fileVars, phase, memtable, compaction_requested, wkey,
                   wentry, compactorVars, readerVars, historyVars>>

\* Mutant: a request is made only when no compaction runs.
IsDueAndIdle == Len(sstables) >= CompactionTrigger /\ cpc = "wait"

CompactionIsDue == Len(sstables) >= CompactionTrigger

\* wal_->Reset(), a fresh MemTable, MaybeTriggerCompaction, return.
FlushReset ==
    /\ wpc = "reset"
    /\ wal' = <<>>
    /\ memtable' = EmptyTable
    /\ compaction_requested' = (compaction_requested \/ CompactionIsDue)
    /\ wpc' = "idle"
    /\ UNCHANGED <<fileVars, phase, sstables, next_sstable_number, wkey, wentry,
                   compactorVars, readerVars, historyVars>>

\* Any system call of Flush fails: the exception leaves put; what was done
\* before it stays.
FlushThrows ==
    /\ "flush" \in Faults
    /\ wpc \in {"create", "fill", "rename", "open", "reset"}
    /\ wpc' = "idle"
    /\ UNCHANGED <<walVars, fileVars, phase, tableVars, compaction_requested, wkey,
                   wentry, compactorVars, readerVars, historyVars>>
-----------------------------------------------------------------------------
(* get and scan: mutex_ is shared until the call returns *)

\* Takes the lock and asks the MemTable.
Get(r, k) ==
    /\ phase = "up" /\ CanLockShared /\ getter[r].pc = "idle"
    /\ getter' = [getter EXCEPT ![r] =
          IF memtable[k] # Absent
          THEN [pc |-> "done", key |-> k, i |-> 0, value |-> Optional(memtable[k])]
          ELSE [pc |-> "tables", key |-> k, i |-> Len(sstables), value |-> Absent]]
    /\ UNCHANGED <<walVars, fileVars, phase, tableVars, compaction_requested,
                   writerVars, compactorVars, scanner, historyVars>>

\* One turn of the loop from sstables_.rbegin() to rend().
GetFromTable(r) ==
    LET g == getter[r]
        hit == g.i > 0 /\ sstables[g.i].entries[g.key] # Absent
    IN
    /\ g.pc = "tables"
    /\ getter' = [getter EXCEPT ![r] =
          IF hit THEN [pc |-> "done", key |-> g.key, i |-> g.i,
                       value |-> Optional(sstables[g.i].entries[g.key])]
          ELSE IF g.i = 0 THEN [g EXCEPT !.pc = "done"]
          ELSE [g EXCEPT !.i = @ - 1]]
    /\ UNCHANGED <<walVars, fileVars, phase, tableVars, compaction_requested,
                   writerVars, compactorVars, scanner, historyVars>>

GetReturn(r) ==
    /\ getter[r].pc = "done"
    /\ getter' = [getter EXCEPT ![r] = NoGet]
    /\ UNCHANGED <<walVars, fileVars, phase, tableVars, compaction_requested,
                   writerVars, compactorVars, scanner, historyVars>>

InRange(k, lo, hi) == lo <= k /\ k < hi

\* Mutant: map::insert keeps an entry that is already there.
OverlayMissing(m, t, lo, hi) ==
    [k \in Key |-> IF InRange(k, lo, hi) /\ m[k] = Absent THEN t[k] ELSE m[k]]

\* merged[key] = entry for the entries of t with lo <= key < hi.
Overlay(m, t, lo, hi) ==
    [k \in Key |-> IF InRange(k, lo, hi) /\ t[k] # Absent THEN t[k] ELSE m[k]]

Scan(r, lo, hi) ==
    /\ phase = "up" /\ CanLockShared /\ scanner[r].pc = "idle"
    /\ scanner' = [scanner EXCEPT ![r] =
          [pc |-> "tables", start |-> lo, end |-> hi, i |-> 1, merged |-> EmptyTable]]
    /\ UNCHANGED <<walVars, fileVars, phase, tableVars, compaction_requested,
                   writerVars, compactorVars, getter, historyVars>>

\* One SSTable, oldest first.
ScanTable(r) ==
    LET s == scanner[r] IN
    /\ s.pc = "tables" /\ s.i <= Len(sstables)
    /\ scanner' = [scanner EXCEPT ![r] =
          [pc |-> "tables", start |-> s.start, end |-> s.end, i |-> s.i + 1,
           merged |-> Overlay(s.merged, sstables[s.i].entries, s.start, s.end)]]
    /\ UNCHANGED <<walVars, fileVars, phase, tableVars, compaction_requested,
                   writerVars, compactorVars, getter, historyVars>>

\* The MemTable last, then tombstones are left out of the result.
ScanMemTable(r) ==
    LET s == scanner[r] IN
    /\ s.pc = "tables" /\ s.i > Len(sstables)
    /\ scanner' = [scanner EXCEPT ![r] =
          [s EXCEPT !.pc = "done",
                    !.merged = DropTombstones(Overlay(@, memtable, s.start, s.end))]]
    /\ UNCHANGED <<walVars, fileVars, phase, tableVars, compaction_requested,
                   writerVars, compactorVars, getter, historyVars>>

ScanReturn(r) ==
    /\ scanner[r].pc = "done"
    /\ scanner' = [scanner EXCEPT ![r] = NoScan]
    /\ UNCHANGED <<walVars, fileVars, phase, tableVars, compaction_requested,
                   writerVars, compactorVars, getter, historyVars>>
-----------------------------------------------------------------------------
(* The compaction thread.  An exception in it reaches std::terminate: the  *)
(* process dies, which Crash covers.                                       *)

\* CompactionThreadMain takes a request; a thread told to shut down does not.
StartCompaction ==
    /\ phase = "up" /\ cpc = "wait" /\ compaction_requested
    /\ compaction_requested' = FALSE
    /\ cpc' = "snapshot"
    /\ UNCHANGED <<walVars, fileVars, phase, tableVars, writerVars, to_compact, merged,
                   compacted_number, old_paths, readerVars, historyVars>>

\* Mutant: with fewer than two tables the thread looks again.
LookAgain == "snapshot"

\* "nothing meaningful to merge".
NothingToMerge == "wait"

CompactSnapshot ==
    /\ cpc = "snapshot" /\ CanLockShared
    /\ IF Len(sstables) < 2
       THEN cpc' = NothingToMerge /\ UNCHANGED to_compact
       ELSE cpc' = "merge" /\ to_compact' = sstables
    /\ UNCHANGED <<walVars, fileVars, phase, tableVars, compaction_requested,
                   writerVars, merged, compacted_number, old_paths, readerVars,
                   historyVars>>

\* The merge reads only the snapshot, so it is one action with the next
\* step, which takes a file number under mutex_.
CompactMerge ==
    /\ cpc = "merge" /\ CanLockExclusive
    /\ merged' = DropTombstones(MergeSSTables(to_compact))
    /\ compacted_number' = next_sstable_number
    /\ next_sstable_number' = next_sstable_number + 1
    /\ cpc' = "create"
    /\ UNCHANGED <<walVars, fileVars, phase, memtable, sstables, compaction_requested,
                   writerVars, to_compact, old_paths, readerVars, historyVars>>

CompactCreate ==
    /\ cpc = "create" /\ CreateTmp(compacted_number) /\ cpc' = "fill"
    /\ UNCHANGED <<walVars, phase, tableVars, compaction_requested, writerVars,
                   to_compact, merged, compacted_number, old_paths, readerVars,
                   historyVars>>

CompactFill ==
    /\ cpc = "fill" /\ FillTmp(compacted_number, merged) /\ cpc' = "rename"
    /\ UNCHANGED <<walVars, phase, tableVars, compaction_requested, writerVars,
                   to_compact, merged, compacted_number, old_paths, readerVars,
                   historyVars>>

CompactRename ==
    /\ cpc = "rename" /\ RenameTmp(compacted_number) /\ cpc' = "swap"
    /\ UNCHANGED <<walVars, phase, tableVars, compaction_requested, writerVars,
                   to_compact, merged, compacted_number, old_paths, readerVars,
                   historyVars>>

\* Mutant: the merged table replaces the whole list.
MergedOnly(t) == <<t>>
\* Mutant: the newest of the old files is deleted first.
NewestPathsFirst(n) == [i \in 1..n |-> sstables[n + 1 - i].number]

MergedList(t) == <<t>> \o SubSeq(sstables, Len(to_compact) + 1, Len(sstables))
OldPaths(n) == [i \in 1..n |-> sstables[i].number]

SwapLock == CanLockExclusive

\* A reader on the merged file replaces the first to_compact.size() tables.
CompactSwap ==
    /\ cpc = "swap" /\ SwapLock
    /\ old_paths' = OldPaths(Len(to_compact))
    /\ sstables' = MergedList([number |-> compacted_number, entries |-> disk[compacted_number]])
    /\ cpc' = "delete"
    /\ UNCHANGED <<walVars, fileVars, phase, memtable, next_sstable_number,
                   compaction_requested, writerVars, to_compact, merged,
                   compacted_number, readerVars, historyVars>>

\* One old file is removed; an error is ignored and the file stays.
CompactDelete ==
    /\ cpc = "delete"
    /\ \/ disk' = RemoveFile(disk, Head(old_paths))
       \/ "unlink" \in Faults /\ UNCHANGED disk
    /\ old_paths' = Tail(old_paths)
    /\ IF Len(old_paths) = 1
       THEN cpc' = "wait" /\ to_compact' = <<>> /\ merged' = EmptyTable
       ELSE UNCHANGED <<cpc, to_compact, merged>>
    /\ UNCHANGED <<walVars, tmp, phase, tableVars, compaction_requested, writerVars,
                   compacted_number, readerVars, historyVars>>
-----------------------------------------------------------------------------
(* The end of a process, and the next one *)

\* Memory is gone.  The history restarts from what the directory holds.
ProcessEnds ==
    /\ phase' = "down"
    /\ memtable' = EmptyTable /\ sstables' = <<>> /\ next_sstable_number' = 1
    /\ compaction_requested' = FALSE
    /\ wpc' = "idle" /\ wkey' = 0 /\ wentry' = Absent
    /\ cpc' = "wait" /\ to_compact' = <<>> /\ merged' = EmptyTable
    /\ compacted_number' = 0 /\ old_paths' = <<>>
    /\ getter' = [r \in Getter |-> NoGet] /\ scanner' = [r \in Scanner |-> NoScan]
    /\ kv' = [k \in Key |-> Recovered(wal, disk, k)]
    /\ pending' = [k \in Key |-> {}]
    /\ UNCHANGED <<walVars, fileVars, writes>>

\* SIGKILL, std::terminate, a bug in the caller: at any point, in the
\* constructor too.
Crash ==
    /\ phase # "down" /\ restarts < MaxRestarts
    /\ ProcessEnds
    /\ restarts' = restarts + 1

\* The destructor asks the compaction thread to stop (no call may be in
\* progress) ...
Close ==
    /\ phase = "up" /\ CanLockExclusive /\ restarts < MaxRestarts
    /\ phase' = "closing"
    /\ restarts' = restarts + 1
    /\ UNCHANGED <<walVars, fileVars, tableVars, compaction_requested, writerVars,
                   compactorVars, readerVars, kv, pending, writes>>

\* ... and joins it: a compaction under way runs to its end first.
CloseJoin ==
    /\ phase = "closing" /\ cpc = "wait"
    /\ ProcessEnds
    /\ UNCHANGED restarts

\* The constructor removes left-over .tmp files; errors are ignored.
Open ==
    /\ phase = "down"
    /\ phase' = "opening"
    /\ \E left \in SUBSET DOMAIN tmp :
          /\ "unlink" \notin Faults => left = {}
          /\ tmp' = [n \in left |-> tmp[n]]
    /\ UNCHANGED <<walVars, disk, tableVars, compaction_requested, writerVars,
                   compactorVars, readerVars, historyVars>>

Opened == {sstables[i].number : i \in 1..Len(sstables)}

\* The next file of the sorted list of numbers.  SSTableReader throws on a
\* file that is not complete.
OpenTable ==
    /\ phase = "opening"
    /\ \E n \in DOMAIN disk \ Opened :
          /\ \A m \in DOMAIN disk \ Opened : n <= m
          /\ disk[n] # Partial
          /\ sstables' = Append(sstables, [number |-> n, entries |-> disk[n]])
          /\ next_sstable_number' = n + 1
    /\ UNCHANGED <<walVars, fileVars, phase, memtable, compaction_requested,
                   writerVars, compactorVars, readerVars, historyVars>>

\* WAL replay into the MemTable, truncation of its tail, thread start.
OpenReplay ==
    /\ phase = "opening" /\ DOMAIN disk \ Opened = {}
    /\ memtable' = Replayed(wal)
    /\ wal' = TruncateTail(wal)
    /\ phase' = "up"
    /\ UNCHANGED <<fileVars, sstables, next_sstable_number, compaction_requested,
                   writerVars, compactorVars, readerVars, historyVars>>
-----------------------------------------------------------------------------
WriterNext ==
    \/ AppendPart \/ AppendRest \/ AppendThrows \/ ApplyToMemTable
    \/ FlushCreate \/ FlushFill \/ FlushRename \/ FlushOpen \/ FlushReset \/ FlushThrows

CompactorNext ==
    \/ StartCompaction \/ CompactSnapshot \/ CompactMerge \/ CompactCreate
    \/ CompactFill \/ CompactRename \/ CompactSwap \/ CompactDelete

GetterNext(r) == GetFromTable(r) \/ GetReturn(r)
ScannerNext(r) == ScanTable(r) \/ ScanMemTable(r) \/ ScanReturn(r)
LifecycleNext == CloseJoin \/ Open \/ OpenTable \/ OpenReplay

Next ==
    \/ \E k \in Key : Remove(k) \/ \E v \in Value : Put(k, v)
    \/ WriterNext
    \/ CompactorNext
    \/ \E r \in Getter : GetterNext(r) \/ \E k \in Key : Get(r, k)
    \/ \E r \in Scanner : ScannerNext(r) \/ \E lo, hi \in ScanBound : Scan(r, lo, hi)
    \/ Crash \/ Close \/ LifecycleNext

Spec == Init /\ [][Next]_vars

\* The operating system runs every thread that can run.  Callers do not have
\* to call, system calls do not have to fail, processes do not have to die.
FairSpec ==
    /\ Spec
    /\ WF_vars(WriterNext /\ ~AppendThrows /\ ~FlushThrows)
    /\ WF_vars(CompactorNext)
    /\ \A r \in Getter : WF_vars(GetterNext(r))
    /\ \A r \in Scanner : WF_vars(ScannerNext(r))
    /\ WF_vars(LifecycleNext)
-----------------------------------------------------------------------------
(* Types *)

GetState == [pc : {"idle", "tables", "done"}, key : Key \cup {0}, i : Nat,
             value : Value \cup {Absent}]
ScanState == [pc : {"idle", "tables", "done"}, start : Int, end : Int, i : Nat,
              merged : Table]

\* A directory of tables, some of which may not be complete.
IsDirectory(d) == DOMAIN d \subseteq Nat /\ \A n \in DOMAIN d : d[n] \in Table \cup {Partial}

\* Every variable has the type its C++ counterpart has; in particular every
\* answer is a value or nullopt, never a tombstone (get, database.cpp:120).
TypeOK ==
    /\ wal \in Seq(WalRecord \cup {Torn}) /\ IsDirectory(disk) /\ IsDirectory(tmp)
    /\ phase \in {"down", "opening", "up", "closing"}
    /\ memtable \in Table /\ sstables \in Seq(SSTable) /\ next_sstable_number \in Nat
    /\ compaction_requested \in BOOLEAN
    /\ wpc \in WriterStep /\ wkey \in Key \cup {0} /\ wentry \in Entry \cup {Absent}
    /\ cpc \in CompactorStep /\ to_compact \in Seq(SSTable) /\ merged \in Table
    /\ compacted_number \in Nat /\ old_paths \in Seq(Nat)
    /\ getter \in [Getter -> GetState] /\ scanner \in [Scanner -> ScanState]
    /\ kv \in [Key -> Value \cup {Absent}] /\ pending \in [Key -> SUBSET (Value \cup {Absent})]
    /\ writes \in Nat /\ restarts \in Nat
-----------------------------------------------------------------------------
(* What readers see *)

\* Whatever flushes, compactions, failed system calls and restarts have done
\* to the layers, the MemTable and the open SSTables together hold exactly
\* the map the completed puts and removes have built.
MemoryIsCurrent == Live => \A k \in Key : Lookup(memtable, sstables, k) = kv[k]

\* The loop of get over sstables_, one table at a time under the shared lock
\* (database.cpp:120-139), ends with the current value of its key, whatever
\* the compaction thread and other callers do meanwhile.
GetReturnsCurrent ==
    \A r \in Getter : getter[r].pc = "done" => getter[r].value = kv[getter[r].key]

\* The merge of scan (database.cpp:141-167) ends with the current values of
\* the keys in [start, end) and nothing else.
ScanReturnsCurrent ==
    \A r \in Scanner : scanner[r].pc = "done" =>
        scanner[r].merged = [k \in Key |-> IF InRange(k, scanner[r].start, scanner[r].end)
                                           THEN kv[k] ELSE Absent]

\* The position a get or scan holds in sstables_ between two tables stays in
\* the list: no swap or flush moves the list under it (the iterators of
\* database.cpp:132 and 150).
IteratorsStayValid ==
    /\ \A r \in Getter : getter[r].i <= Len(sstables)
    /\ \A r \in Scanner : scanner[r].i <= Len(sstables) + 1
-----------------------------------------------------------------------------
(* What survives the process *)

\* The durability guarantee of DESIGN.md:144: a process death now would lose
\* no acknowledged write.  A write that is not acknowledged may show or not.
AckedWritesSurvive == \A k \in Key : Recovered(wal, disk, k) \in {kv[k]} \cup pending[k]

Inverted(numbers) == \E i, j \in 1..Len(numbers) : i < j /\ numbers[i] > numbers[j]

\* A flush between the snapshot of a compaction and its allocation of a file
\* number takes the lower number of the two although its data is newer, so
\* the order of the numbers is not the order of the list.
Overtaken ==
    \/ Inverted([i \in 1..Len(sstables) |-> sstables[i].number])
    \/ Inverted(old_paths)
    \/ /\ cpc \in {"create", "fill", "rename", "swap"}
       /\ \E i \in Len(to_compact) + 1 .. Len(sstables) : sstables[i].number < compacted_number

\* Outside that window the guarantee holds at every step of a put, a flush,
\* a compaction and a recovery, with flushes that fail half way.
DurableUnlessOvertaken == ~Overtaken => AckedWritesSurvive

\* Every file the constructor will open is complete (the rename of
\* sstable.cpp:82 comes after the fsync), so SSTableReader never throws at
\* start-up, wherever the process died before.
ReopenNeverThrows == \A n \in DOMAIN disk : disk[n] # Partial

\* The comment at database.cpp:276: from the snapshot to the swap, the first
\* to_compact.size() tables of sstables_ are the ones that were merged.
SnapshotIsPrefix ==
    cpc \in {"merge", "create", "fill", "rename", "swap"} =>
        /\ Len(to_compact) <= Len(sstables)
        /\ \A i \in 1..Len(to_compact) : to_compact[i] = sstables[i]

\* Every open table is backed by its own file, complete and with the same
\* contents: no flush or compaction reuses, overwrites or deletes the file of
\* a table that is still in sstables_.
OpenTablesAreOnDisk ==
    /\ \A i \in 1..Len(sstables) :
          /\ sstables[i].number \in DOMAIN disk
          /\ disk[sstables[i].number] = sstables[i].entries
    /\ \A i, j \in 1..Len(sstables) : sstables[i].number = sstables[j].number => i = j
-----------------------------------------------------------------------------
(* The promise of KVStore *)

\* The answers of a live database, or of the one that would be opened next.
View == [k \in Key |-> IF Live THEN Lookup(memtable, sstables, k)
                              ELSE Recovered(wal, disk, k)]

Promise == INSTANCE KVStore WITH kv <- View

\* The executions in which no flush overtakes a compaction.
CalmNext == Next /\ ~Overtaken'
CalmSpec == Init /\ [][CalmNext]_vars

\* Flushing, compacting and recovering change no answer, a write changes the
\* answer for its own key at one instant, and a restart loses no
\* acknowledged write: class Database implements the promise.
ImplementsKVStore == Promise!Spec
-----------------------------------------------------------------------------
(* Progress *)

\* A flush that brings the count to the trigger leads to a compaction that
\* brings it down, even when it comes while a compaction is running.
FlushLeadsToCompaction ==
    (wpc = "reset" /\ Len(sstables) >= CompactionTrigger)
        ~> (Len(sstables) < CompactionTrigger \/ phase # "up")

\* The destructor returns: join waits for a running compaction, which itself
\* needs mutex_, and a pending request is dropped.
CloseReturns == phase = "closing" ~> phase = "down"
=============================================================================
