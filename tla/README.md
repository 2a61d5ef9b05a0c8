# TLA+ specification of tiny-lsm-kv

The repository is a small embedded key-value store: a log-structured merge tree
with a write-ahead log (WAL), a sorted MemTable, immutable SSTables on disk and
one background compaction thread. This directory models its engine in TLA+,
checks it with TLC and proves its safety properties and both of its
refinements with TLAPS. Paths such as `database.cpp:264` are relative to `src/`
(sources) or `include/tinylsm/` (headers) of the repository.

## Inventory

| Part | State | Operations | Interacts with |
|---|---|---|---|
| `Database` writes | `memtable_`, `sstables_`, `next_sstable_number_`, `mutex_` | `put`, `remove`, `MaybeFlush`, `Flush` | WAL, SSTable files, compaction signal |
| `Database` reads | position in `sstables_` under the shared lock | `get`, `scan`, `sstable_count` | MemTable, SSTables |
| Compaction | snapshot, merged map, file number, old paths | `CompactOnce` | `sstables_` (three short critical sections), the directory without any lock |
| Compaction signal | `compaction_cv_`, `compaction_requested_`, `compaction_running_`, `shutting_down_` | `MaybeTriggerCompaction`, `CompactionThreadMain`, `WaitForBackgroundCompaction`, `~Database` | all threads |
| Recovery | the directory | constructor: delete `*.tmp`, open SSTables by number, replay the WAL | everything a dead process left |
| `WriteAheadLog` | the log file | `Append`, `Replay`, `Reset` | record codec, POSIX calls |
| Record codec | none | `EncodeRecord`, `DecodeRecord`, `Crc32` | WAL, SSTable data section |
| SSTable file | data, sparse index, footer | `WriteSSTable`, `SSTableReader`, `Find`, `ScanRaw`, `AllRaw`, `MergeSSTables` | codec, POSIX calls |
| `MemTable` | `table_`, `approximate_size_bytes_` | `Upsert`, `find`, `entries` | flush threshold |
| Crash harness | child, pipe, last acknowledgement, checked keys | `RunTrial`, `RunChild`, `CollectAcks` | one `Database` in the child, then one in the parent |
| REPL, benchmark | none of their own | drivers of one `Database` | `Database` |

What is hard here, and what correctness means:

* **Concurrency.** `put`/`remove` hold `mutex_` exclusively, `get`/`scan` share
  it, and the compaction thread does its long work without it. Reads must see
  the current map whatever the compaction thread is doing; the list must still
  start with the snapshot when the swap happens.
* **Process death.** `DESIGN.md` promises that an acknowledged write survives a
  crash at any point, flushes and compactions included. Several steps on
  several files must be in the right order, and recovery sees only file names.
* **Failing system calls.** `put` throws, `CompactOnce` ends the process, the
  errors of deletions are ignored; the database may be used afterwards.
* **Signalling.** One condition variable serves the compaction thread and the
  callers of `WaitForBackgroundCompaction`; a lost wakeup is for ever.
* **Bytes.** Replay must accept exactly the records that were written whole,
  whatever a short write, a power loss or a bad sector left; the sparse index
  must send every key to the one block that can hold it; an unsigned counter
  is decremented on every overwrite.

`PROJECT.json` lists every hazard at its line with the properties that cover it.

## Modules

| Module | Models |
|---|---|
| `LSMTables` | The data: entries, tables, the "newest wins" rule, WAL replay, directory contents. Pure operators. |
| `Database` | The state machine of class `Database`, with process death and recovery. |
| `KVStore` | The abstract promise: a map that changes only when a write takes effect; after a restart, only unacknowledged writes are uncertain. |
| `CompactionSignal` | The condition variable, its waiters, the request and shutdown flags, the destructor. |
| `RecordCodec` | `EncodeRecord` and `DecodeRecord` over the cells of a file, and a reference that reads a file without decoding it. Pure operators. |
| `MemTable` | `MemTable` with `approximate_size_bytes_` as it is kept. Pure operators. |
| `WriteAheadLog` | `Append`, `Reset` and `Replay` over cells, with short writes, failures, process death, power loss and bit rot. |
| `RecordLog` | What `Database` assumes of the log: a sequence of records. `WriteAheadLog` implements it. |
| `SSTableFile` | One SSTable file: writing, opening, `Find`, `ScanRaw`, `AllRaw`. |
| `CrashHarness` | One trial of `tools/crash_recovery_harness.cpp`, composed with `Database`. |
| `MCDatabase`, `MCWriteAheadLog`, `MCSSTableFile`, `MCCrashHarness` | Small constants for TLC. |
| `LSMTablesProofs`, `RecordCodecProofs` | Lemmas about the operators of `LSMTables` and `RecordCodec`, and what the codec promises. |
| `DatabaseProofs`, `DurabilityProofs` | Theorems about `Database`: what readers see; what the directory holds, and the refinement of `KVStore`. |
| `CompactionSignalProofs`, `WriteAheadLogProofs`, `SSTableFileProofs`, `HarnessProofs` | Theorems about the other state machines. |

### Database

A put or remove is at most one at a time past its lock, so its progress is the
one variable `wpc` (with `wkey`, `wentry`):

    idle -> append -> appending -> fsync -> [create -> fill -> rename -> open -> reset] -> idle

The first three are `WriteAheadLog::Append`, cut where a process death or an
error leaves something different in the file; `ApplyToMemTable` is
`memtable_.put/remove` with the decision of `MaybeFlush`; the bracket is
`Flush`. The compaction thread is `cpc`:

    wait -> snapshot -> merge -> create -> fill -> rename -> swap -> delete ... -> wait

Steps that touch only memory inside one critical section are one action; steps
on files are separate ones. Readers visit one SSTable per action. `mutex_` is
the predicates `CanLockShared` and `CanLockExclusive` over these positions.

The directory is `wal` (records in file order, `Torn` for bytes that
`DecodeRecord` rejects), `disk` (SSTable number to contents) and `tmp`
(left-over `.tmp` files). Keys are integers, because the code only compares
them; a table maps every key to a value, `Tombstone` or `Absent`; `Partial` is
a file being written. Lengths of keys and values are constants, so that the
flush threshold is reached the way it is in the code. The size of a table is
the number of its bytes (`BytesIn`); that the counter the code keeps by adding
and subtracting is this number is `SizeIsExact`, about `MemTable`. A tombstone
counts with the bytes of its key, as in `memtable.cpp:9` and `memtable.cpp:19-28`.

`Crash` may happen at any point of any process, the constructor included, and
loses memory only; it also stands for `std::terminate` after an exception in
the compaction thread. `Close` and `CloseJoin` are the destructor, `Open`,
`OpenTable` and `OpenReplay` the constructor. `Faults` chooses which system
calls may fail: `append` (write and fsync of the log), `flush` (any call of
`Flush`), `unlink` (deletions, whose errors the code ignores).

History variables: `kv` is the map built by the writes that took effect, and
restarts from what the directory holds; `pending` holds the results of writes
that began and did not take effect, which may show up after a restart.
`MaxWrites` and `MaxRestarts` bound a behaviour.

### CompactionSignal

`waiting` is the wait set of `compaction_cv_`. A critical section of
`compaction_cv_mutex_` is one action that needs the mutex to be free, a notify
another, since every notify comes after the unlock. `notify_one` wakes any
waiter; spurious wakeups are allowed. `mutex` records that `put` holds `mutex_`
across its signal, where it takes `compaction_cv_mutex_` too; `CompactOnce` needs
`mutex_` three times. The compaction thread comes to it out of a critical section
of its own, so there the unlock (`database.cpp:222`) is an action, and `cv_mutex`
says who holds `compaction_cv_mutex_` until then: without the unlock a put and
the compaction thread wait for each other, and `CallsReturn` fails (its mutant).
`QuietWaits` says whether callers keep `put`
and `WaitForBackgroundCompaction` apart, as the tests of the repository do.
With `Database`, the two modules share `compaction_requested` and the order of
the compaction thread's steps: `Database` takes a request atomically, and
`CompactionSignal` justifies that under quiet waits.

### RecordCodec, MemTable, WriteAheadLog, RecordLog

A file is a sequence of cells: the checksum, the type, the two lengths, and each
byte of key and value. A checksum cell holds the whole body, that is, CRC32 is
taken to be injective on the bodies that meet in a file; with the one below on
`Garbage` this is what is assumed of the checksum. `LengthField` cuts a length to `LengthBits` bits,
as `static_cast<uint32_t>` does, so a value can be too long for its field.
`RecordsIn` says what a file holds without decoding: a piece from one checksum
cell (`StartsIn`) to the next is a record when it is the whole encoding of one,
and `Torn` otherwise. Decoding does not know where records start: it may read a
checksum as a length or as a byte, and reads `Garbage` then.

`Append` is `AppendCall`, any number of `WriteSome` (each `write()` takes a
part), `AppendReturns` after the fsync, or `AppendThrows`. The constructor is
`Open`, one `ReplayRecord` per record and `ReplayEnds` with the truncation.
`file` is what the page cache holds and `images` the contents the disk may have
instead: everything the file has been since the last fsync. `PowerLoss` picks
one of them. A failed fsync sets `fsync_failed`: the kernel may have marked pages
clean that are not on the disk, so no later fsync is trusted to have written
them, until a power loss brings the file back from the disk. `Rot` changes one cell of a closed file. `allowed` holds for every
key what a power failure may leave: the last acknowledged entry and the ones
begun after it, or nothing after a `Reset` that is not synced (the table it was
flushed to is in `Database`). `spoiled` marks the four things the log does not
survive: an append that failed half way (`torn_log`), a write acknowledged after
an fsync has failed, a bad cell, and a record with a length that its field cannot
hold, which `Append` accepts and replay rejects together with all that follows.

`ImplementsRecordLog` maps the cells to the sequence of records with
`RecordsIn` and shows that each step is a step of `RecordLog`, whose actions
are named after those of `Database`. It has no exceptions: torn, rotten and
oversized records are `Torn` in the sequence.

### SSTableFile

Here a cell is a record of the data section, an entry of the index or the
footer, and offsets count records, since the codec advances by whole records.
`WriteEntry` appends the next entry of the map and samples it for the index;
`WriteFile` lays out the three sections; `Damage` turns a record into any other
key and entry, with a checksum that does not fit, or spoils the footer;
`OpenReader` splits the file at the footer's offset or `OpenThrows`. `Find` and
`ScanRaw` choose a block with `UpperBound`, then `FindRecord` and `ScanRecord`
decode one record per action from `start_offset` on. A read that took a damaged
record for a good one, or went past it, would answer with what it says now:
`ThrowsOnlyOnDamage` says that a read throws exactly at the first damaged record
on its way and that one that returns decoded intact records only, whichever of
`Find`, `ScanRaw` and `AllRaw` it is. Every table over the keys is an initial
state.

### CrashHarness

The trial shares `Database`'s variables: the child's puts are `Put`, its end
and the kill are `Crash`, the parent's lookups are `Get`. The deadline may pass
whenever it is looked at. The blocking `read` of `CollectAcks` ends with data or
with the end of the pipe. An acknowledgement may be lost, which the harness
tolerates. An exception of `put`, or in the compaction thread, is caught nowhere
and ends the child (`ChildTerminates`), so a failing append or flush never comes
back to it as an acknowledged put. Every key is written once, so the harness passes in the executions
of `overtaken` too: it cannot see an old value come back. That is a limit of
the test and no claim about the engine.

## Runs

| Run | Instance | Shows |
|---|---|---|
| `reads` | 2 keys, 1 value, 1 getter, 1 scanner, 3 writes, 1 restart, all faults | `TypeOK`, `MemoryIsCurrent`, `GetReturnsCurrent`, `ScanReturnsCurrent`, `IteratorsStayValid`; no deadlock. 2.3 million states. |
| `durability` | 2 keys, 2 values (symmetric), 4 writes, 2 restarts, failing flushes | `ReopenNeverThrows`, `OpenTablesAreOnDisk`, `SnapshotIsPrefix`, `DurableUnlessOvertaken`. 4 million states. |
| `refinement` | 2 keys, 1 value, 4 writes, 2 restarts, failing flushes, `CalmSpec` | `Database` implements `KVStore` (`ImplementsKVStore`). |
| `progress` | 1 key, 2 values, 4 writes, 1 restart, `FairSpec` | `FlushLeadsToCompaction`, `CloseReturns`. |
| `signal` | 2 putters, 3 waiters (2 threads are both), 5 calls, quiet, `FairSpec` | no lost wakeup, calls and destructor return, the mutexes do not block each other, no deadlock. |
| `log` | 2 keys, 2 values of which one is too long for a 1-bit length, 2 appends, 1 reset, 2 stops, 1 bad cell, 4-bit sizes | `TypeOK`, `SizeIsExact`, `AckedSurvivePowerLoss`, `ImplementsRecordLog`. 0.7 million states. |
| `sstable` | 5 keys with gaps, 1 value and tombstones, interval 2, 8 probes, 1 damaged cell | `TypeOK`, `FindIsExact`, `FindReadsOneBlock`, `ScanIsExact`, `ThrowsOnlyOnDamage`. 1.6 million states. |
| `harness` | 6 records, a flush every second put, trigger 2, failing appends and flushes, `HarnessSpec` | `HarnessTypeOK`, `TrialPasses`, `TrialEnds`. 0.2 million states. |
| `overtaken`, `torn_log`, `failed_unlink`, `lost_wakeup` | smallest that shows it | violations, below. |

Why the bounds are enough: with a threshold of two bytes and one-byte keys and
values every put flushes and a first remove does not, so four writes give two
tables and a compaction, a flush that runs beside it, and an entry left in the
WAL; two tables are the trigger. A second restart reaches states that need a
crash in one process and a flush or compaction in the next. Two keys
distinguish "this key" from "another key"; ranges of `scan` include an empty,
an inverted and a proper one that leaves a key out. `reads` bounds writes by
three because readers multiply the states; what it checks is also proved.
Symmetry over values is used for invariants only.

In `log` two appends are enough for a torn record followed by a whole one and
for an overwrite, and two stops for a power loss whose replay is interrupted
again; five to seven cells per record let every short write happen. In `sstable` five
keys give a full block, a second one and a short last one, and the probes lie
before, between, at and after the keys. Six records in `harness` give three
flushes, so that a flush can run beside a compaction of the first two tables.

Deadlock is checked in `reads` and `signal`. The others may stop when the
bounds are used up: their cfg says so.

Each property has a mutant: a one-line change of a definition, written next to
it and marked "Mutant", under which TLC finds the property violated.

Fairness: the operating system runs every thread that can run, so each thread
has weak fairness on its next step. Calls, failures, crashes and closes are not
fair. In `FairSpec` of `Database` a writer's failing steps are excluded from
the fair action, and the run has no reader, since `std::shared_mutex` does not
promise a writer its turn among overlapping readers. `HarnessSpec` has weak
fairness for the child, the parent and the threads of the open database, and
none for the exceptions that end the child.

### Violations

The code and its documents disagree in four places, each shown by a run:

* `overtaken`: the compaction takes its number after the merge
  (`database.cpp:264`). A flush in between has newer data and a lower number;
  recovery sorts by number, so an acknowledged write is lost, against
  `DESIGN.md:144`. `Overtaken` describes exactly this window, and
  `DurableUnlessOvertaken` and the refinement of `KVStore` by `CalmSpec`, both
  proved, show that while appends and deletions succeed it is the only way to
  lose a write.
* `torn_log`: after an append that fails half way (`wal.cpp:28`), later
  acknowledged writes follow torn bytes and replay drops them, against
  `DESIGN.md:107`.
* `failed_unlink`: an ignored deletion error (`database.cpp:308`) can bring a
  deleted key back, against the comment at `database.cpp:301`.
* `lost_wakeup`: `notify_one` (`database.cpp:210`) can wake a
  `WaitForBackgroundCompaction` caller instead of the compaction thread,
  against `database.h:60`.

A fifth place where a comment and the code disagree needs no run. `memtable.h:51`
calls `approximate_size_bytes` the "Sum of every live entry's key+value size", and
`memtable.h:37` says what live means: "non-tombstone". The code adds the key of a
tombstone (`memtable.cpp:9`, `memtable.cpp:19-28`), and `memtable_test.cpp:122-128`
expects that ("tombstone: 3 + 0 = 3"): after one `remove` of a fresh key the counter
is the length of the key and the sum over live entries is 0. `SizeIsExact` is about
the sum over all entries, which is what the flush threshold needs, since `Flush`
writes tombstones too; the comment is what should change.

A behaviour worth knowing that no document rules out clearly: a database
reopened with its table count at the trigger requests no compaction until its
next flush (`database.cpp:94`, compare `database.h:35`).

## Proofs

All theorems hold for every value of the constants that satisfies the named
assumptions, which TLC evaluates on the runs:

* keys are integers, and `Tombstone`, `Absent`, `Torn` and `Partial` are distinct
  from data;
* lengths and thresholds are naturals, the sparse index interval is positive, and
  a field of some bits holds at least one number;
* different keys, and different values, have different bytes, since a key or a
  value is its bytes in the code; a bad cell is one number;
* `Garbage`, what a checksum reads as when it is taken for a number, is no field
  or byte of a record that fits (`GarbageAssumption`, used for the refinement of
  `RecordLog` only). It excludes the one accident that CRC32 makes improbable and
  not impossible: the record behind a torn one completes the torn one's body;
* `Faults` is any set of fault kinds, and there are any numbers of readers and
  callers.

Theorems that need a call not to fail say so as a hypothesis of their own, below.

### Database in memory

`DatabaseProofs` proves `Spec => []DatabaseInv` and from it `TypeOK`,
`MemoryIsCurrent`, `GetReturnsCurrent`, `ScanReturnsCurrent`,
`IteratorsStayValid`, `SnapshotIsPrefix` and `ReopenNeverThrows`. None of them
is inductive alone; `DatabaseInv` adds what each step relies on:

* `WriterInv` carries the MemTable's entries from the `.tmp` file to the file
  to the back of the list, so that dropping the MemTable changes no answer;
* `CompactorInv` says that the merged file is the merge of the snapshot under a
  number no one else uses; with `SnapshotIsPrefix` and the lemma `NewestSwap`
  (replacing a prefix by its merge without tombstones changes no answer) the
  swap preserves `MemoryIsCurrent`;
* `NumbersInv` gives the compaction and the next flush different files;
* `RestInv` and `OpeningInv` say that a process that is not yet up has opened a
  prefix of the sorted files, so that at the end of the constructor the list
  answers as `Recovered` does;
* `GetterInv` and `ScannerInv` are the loop invariants of `get` and `scan`, and
  say that a reader in progress excludes the writer;
* `DirectoryInv` says that the files are complete and numbered below a
  bound, so that a greatest number exists.

### Database on disk

`DurabilityProofs` relates the directory to memory.

* `TablesStayOnDisk`: `OpenTablesAreOnDisk` holds with all faults. It needs
  `MergeInv` (the files a compaction will still delete are no longer in the list,
  and its own number is in no other use) and `SparesInv` (what a flush that
  failed after its rename left behind has nothing that the MemTable or a newer
  table does not have), together `FilesInv`.
* `Durability`: `DurableUnlessOvertaken`, under the hypothesis that only flushes
  fail (`Faults \subseteq {"flush"}`). `DirectoryIsKnown` says that every file is
  in the list, to be deleted, being merged or under the next number, and `LogInv`
  that the log replays to the MemTable, with the write in progress once it is
  appended. Outside the window of `Overtaken` the numbers are in the order of the
  list (`NumbersInOrder`), so that what recovery would read is what the list
  answers.
* `Refinement`: `CalmSpec => ImplementsKVStore`, under the same hypothesis. Each
  step is a step of `KVStore` or changes nothing it sees; `PendingInv` says that a
  write in progress is among those that a restart may bring up.

The hypothesis cannot be dropped: a failing deletion breaks `DirectoryIsKnown`
and a failing append `LogInv`, and the runs `failed_unlink` and `torn_log` show a
lost write in each case.

### Record codec and log

`RecordCodecProofs` proves three facts about the codec for any keys, values and
width of the length fields:

* `RoundTrip`: a record whose lengths fit decodes to itself, whatever follows;
* `TornIsRejected`: a record cut anywhere, or with a length that does not fit its
  field, is not accepted;
* `DecodeIsSound`: whatever is accepted, also among bad cells, is a record with
  the length of its encoding. `GoodCell` describes the cells this is true for.

The rest of the module says how `RecordsIn` changes when a record, or a part of
one, is appended to whole records.

`WriteAheadLogProofs` proves `LogTypes` (`TypeOK`: replay stays in the file and
yields keys and values whatever the disk holds; `CellsInv` says that all cells
are good ones) and `LogDurability` (`AckedSurvivePowerLoss`). The latter needs
`SafeInv`. Unless the log is spoiled, everything the disk may hold is a sequence
of whole records with at most one unfinished record behind it, and replays to
something allowed (`ImagesInv`); an acknowledgement narrows what is allowed, and
either its fsync narrows what the disk may hold or an earlier one had failed and
the log is spoiled. `AppendInv` says how much of its record the
append in progress has written, and `ReplayInv` that replay is at the start of
one of the whole records or at their end, so that the truncation removes the
unfinished one only.

`SizeModulo` says that `approximate_size_bytes_` is the number of bytes of the
table modulo `2^SizeBits`, with no condition: the counter is unsigned, a
subtraction may wrap around, and the next addition brings it back (`UpsertCounts`:
an upsert replaces the bytes of one key by others, and the bytes of different keys
are disjoint; `RemainderFirst`: a remainder may be taken at any point of a sum).
`SizeExact` concludes `SizeIsExact` where the counter can hold the size of every
table of finitely many bytes, as 64 bits do for what fits in memory.

`LogRefinement` is `Spec => ImplementsRecordLog`, with no hypothesis: spoiled logs
are included. `RefineInv` has, besides the types,

* `PiecesInv`: in everything the disk may hold, no more numbers follow a checksum
  than it is the checksum of (`Covered`). Prefixes, appends and bad cells keep
  this. It is what makes the cell behind an accepted record the start of another
  one or the end (`HeadedAfter`); without it, decoding and `RecordsIn` could
  disagree about a whole record with stray numbers behind it;
* `WriteInv`: how many cells of its record the append in progress has written;
  the file before them may hold anything;
* `ReadInv`: replay is behind a first part of the file whose records are none of
  them `Torn`, and the MemTable is what they replay to.

`DecodesWhole` and `ReplayAccepts` then say that a decoded record is the next one
of `RecordsIn`, and `ReplayStops` that where decoding fails the next one is `Torn`
or there is none, so that the truncation leaves what `TruncateTail` leaves.
`WriteIsWrite` maps any number of short writes to one record of the sequence.

### SSTable file

`SSTableFileProofs` proves `TypeOK`, `FindIsExact`, `FindReadsOneBlock`,
`ScanIsExact` and `ThrowsOnlyOnDamage` for every table, interval, probe and
number of damaged cells, from `FormatInv`. `WrittenInv` says that the data section
is ascending and leaves out nothing up to its last key, `IndexInv` that samples
are at most an interval apart, `FileInv` that a record whose checksum fits is the
one that was written and an open reader has the sections of the file. `FindInv` is
the loop invariant of `Find`: the key is between the position and the end of the
block or nowhere. `WalkInv` is that of `ScanRaw` and `AllRaw`. `PassedInv` says
that every record between `start_offset` and the position is intact, and which
one a read has stopped at; `ThrowsOnlyOnDamage` follows from it.

### Crash harness

`HarnessProofs` proves `HarnessTypeOK` and `TrialPasses` for any number of
records, whichever system calls can fail: an append or a flush that does ends the
child, which never gets to put another record behind a torn one (`torn_log`), and
deletions may fail and a flush may overtake a compaction. The reason is
`FreshInv`: every layer holds for a key the one value the harness ever writes to
it, or nothing, so the order of the files does not matter and only presence does.
That is also why the harness cannot see the defect of `overtaken`. `AckedInv`
follows an acknowledgement from the put to the pipe, `ProcessInv` says which
process uses the directory, `VerifyInv` that only acknowledged keys are looked up.

### Signalling

`CompactionSignalProofs` proves `TypeOK`, with who holds either mutex at which
step, and the three wakeup invariants.

### Only model-checked

Liveness (`FlushLeadsToCompaction`, `CloseReturns`, `RequestIsServed`,
`CallsReturn`, `DestructorReturns`, `TrialEnds`), which is outside the prover's
reach. Every invariant and both refinements that a passing run checks are proved.

## Not modelled

* Collisions of CRC32: two different bodies with the same checksum, or a torn
  record that the bytes after it happen to complete.
* Power loss beyond the log: after it, `Database` keeps what system calls did
  to the directory. The code syncs file contents and not the directory, so a
  file system may keep a truncation of the log and lose the rename before it.
  `DESIGN.md` promises survival of process crashes only. Within the log, a
  power loss leaves an earlier contents of the file, not garbage, and after a
  failed fsync nothing is claimed about what is acknowledged next.
* A damaged index section of an SSTable: it has no checksum, and an offset out
  of range is undefined behaviour in `Find`.
* File name text (`sst-%06llu.sst`, `ParseSSTableNumber`): the code sorts
  numbers, never names.
* `EINTR`, which the loop of `WriteAll` turns into another `write()`; memory
  exhaustion, descriptor leaks, two processes on one directory.
* The REPL and the benchmark drive one `Database` and keep no state of their
  own; `main` of the crash harness only repeats trials.

## Plan

1. Done: `LSMTables`, `Database`, `KVStore`, `CompactionSignal`, their runs and
   the safety theorems above.
2. Done: `RecordCodec`, `MemTable`, `WriteAheadLog` with power loss and bit rot,
   shown to implement `RecordLog`; `SSTableFile`; `CrashHarness`.
3. Done: theorems about the directory, the refinement of `KVStore`, the codec, the
   log, the SSTable file and the harness.
4. Done: the exact size of the MemTable, and the refinement of `RecordLog` with an
   invariant on the pieces of a file that bad cells have spoiled.

Worth adding later: an index section that can be damaged, once the code checks its
offsets, and readers in the `progress` run, once their lock orders its waiters.
