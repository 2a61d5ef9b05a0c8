---------------------------- MODULE WriteAheadLog ----------------------------
(***************************************************************************)
(* class WriteAheadLog over the cells of its file, with the MemTable that  *)
(* put, remove and replay feed.  write() may take any part of what it is   *)
(* given; the process may die, the machine may lose power and a system     *)
(* call may fail between any two steps.                                    *)
(*                                                                         *)
(* What the page cache holds of the file is file; images are the contents  *)
(* the disk may have instead: all that file has been since the last fsync. *)
(* An fsync that fails may leave pages marked clean that never reached the *)
(* disk, so none after it makes anything durable until the machine starts  *)
(* anew.                                                                   *)
(***************************************************************************)
EXTENDS RecordCodec, MemTable

CONSTANTS
    RottenCell,     \* what a cell that went bad reads as
    MaxAppends,     \* bound on Append calls
    MaxResets,      \* bound on Reset calls
    MaxStops,       \* bound on process deaths, power failures and failed opens
    MaxRots         \* bound on cells that go bad

ASSUME RotAssumption == RottenCell \in Seq(Nat) /\ Len(RottenCell) = 1

\* A checksum read as a number is not taken for a field or a byte of a record:
\* what a record is cut short by never completes its body.
ASSUME GarbageAssumption ==
    \A r \in WalRecord : Fits(r) =>
        \A i \in 1..Len(EncodeRecord(r)) : EncodeRecord(r)[i] # Cell(Garbage)

VARIABLES
    file, images,
    fsync_failed,       \* an fsync has failed since the machine started
    phase,              \* "closed", "replay", "open"
    memtable,
    apc, record, call,  \* Append: its step, the cells still to write, its arguments
    valid_end,          \* Replay
    \* history
    allowed,            \* for every key, the entries a power failure may leave in the log
    spoiled,            \* something has happened that the log cannot survive
    appends, resets, stops, rots

fileVars == <<file, images, fsync_failed>>
appendVars == <<apc, record, call>>
boundVars == <<appends, resets, stops, rots>>
vars == <<fileVars, phase, memtable, appendVars, valid_end, allowed, spoiled, boundVars>>

NoCall == [key |-> 0, entry |-> Absent]

Init ==
    /\ file = <<>> /\ images = {<<>>} /\ fsync_failed = FALSE
    /\ phase = "closed" /\ memtable = NewMemTable
    /\ apc = "idle" /\ record = <<>> /\ call = NoCall
    /\ valid_end = 0
    /\ allowed = [k \in Key |-> {Absent}] /\ spoiled = FALSE
    /\ appends = 0 /\ resets = 0 /\ stops = 0 /\ rots = 0
-----------------------------------------------------------------------------
(* Append, called by put and remove *)

AppendCall(r) ==
    /\ phase = "open" /\ apc = "idle" /\ appends < MaxAppends
    /\ apc' = "write" /\ record' = EncodeRecord(r) /\ call' = r
    /\ allowed' = [allowed EXCEPT ![r.key] = @ \cup {r.entry}]
    /\ spoiled' = (spoiled \/ ~Fits(r))
    /\ appends' = appends + 1
    /\ UNCHANGED <<fileVars, phase, memtable, valid_end, resets, stops, rots>>

\* Mutant: a short write is taken for a complete one.
AnyWriteIsEnough(n) == TRUE

\* The loop condition of WriteAll.
AllWritten(n) == n = Len(record)

\* One write() of WriteAll takes the first n cells of the rest.
WriteSome(n) ==
    /\ apc = "write"
    /\ file' = file \o SubSeq(record, 1, n)
    /\ images' = images \cup {file \o SubSeq(record, 1, m) : m \in 1..n}
    /\ record' = SubSeq(record, n + 1, Len(record))
    /\ apc' = IF AllWritten(n) THEN "fsync" ELSE "write"
    /\ UNCHANGED <<fsync_failed, phase, memtable, call, valid_end, allowed, spoiled, boundVars>>

\* write() or fsync() fails: Append throws and put with it.
AppendThrows ==
    /\ apc \in {"write", "fsync"}
    /\ apc' = "idle" /\ record' = <<>> /\ call' = NoCall
    /\ spoiled' = (spoiled \/ (apc = "write" /\ record # EncodeRecord(call)))
    /\ fsync_failed' = (fsync_failed \/ apc = "fsync")
    /\ UNCHANGED <<file, images, phase, memtable, valid_end, allowed, boundVars>>

\* Mutant: the call returns without the fsync.
NoFsync == UNCHANGED images

Fsync == images' = IF fsync_failed THEN images ELSE {file}

\* fsync() returned: Append returns, the MemTable is updated, the write is
\* acknowledged, after a failed fsync too.
AppendReturns ==
    /\ apc = "fsync"
    /\ Fsync
    /\ memtable' = UpsertSized(memtable, call.key, call.entry)
    /\ allowed' = [allowed EXCEPT ![call.key] = {call.entry}]
    /\ apc' = "idle" /\ call' = NoCall
    /\ spoiled' = (spoiled \/ fsync_failed)
    /\ UNCHANGED <<file, fsync_failed, phase, record, valid_end, boundVars>>
-----------------------------------------------------------------------------
(* Reset, called by Flush when the MemTable is in an SSTable *)

Reset ==
    /\ phase = "open" /\ apc = "idle" /\ resets < MaxResets
    /\ file' = <<>> /\ images' = images \cup {<<>>}
    /\ memtable' = NewMemTable
    /\ allowed' = [k \in Key |-> allowed[k] \cup {Absent}]
    /\ resets' = resets + 1
    /\ UNCHANGED <<fsync_failed, phase, appendVars, valid_end, spoiled, appends, stops, rots>>
-----------------------------------------------------------------------------
(* The constructor, and Replay on the contents that ReadAll returned *)

Remaining == SubSeq(file, valid_end + 1, Len(file))

Open ==
    /\ phase = "closed"
    /\ phase' = "replay" /\ valid_end' = 0
    /\ UNCHANGED <<fileVars, memtable, appendVars, allowed, spoiled, boundVars>>

ReplayRecord ==
    LET decoded == DecodeRecord(Remaining) IN
    /\ phase = "replay" /\ decoded.status = "kOk"
    /\ LET r == RecordOf(decoded) IN memtable' = UpsertSized(memtable, r.key, r.entry)
    /\ valid_end' = valid_end + decoded.bytes_consumed
    /\ UNCHANGED <<fileVars, phase, appendVars, allowed, spoiled, boundVars>>

\* Mutant: the torn tail stays in the file.
KeepTail(f, end) == f

\* ftruncate(fd_, valid_end).
Truncated(f, end) == SubSeq(f, 1, end)

ReplayEnds ==
    /\ phase = "replay" /\ DecodeRecord(Remaining).status # "kOk"
    /\ file' = Truncated(file, valid_end) /\ images' = images \cup {file'}
    /\ phase' = "open"
    /\ UNCHANGED <<fsync_failed, memtable, appendVars, valid_end, allowed, spoiled, boundVars>>
-----------------------------------------------------------------------------
(* Faults *)

Stop ==
    /\ stops < MaxStops /\ stops' = stops + 1
    /\ phase' = "closed" /\ memtable' = NewMemTable
    /\ apc' = "idle" /\ record' = <<>> /\ call' = NoCall /\ valid_end' = 0
    /\ UNCHANGED <<allowed, spoiled, appends, resets, rots>>

\* The process dies, or open(), read() or ftruncate() fails and the
\* constructor throws.
Crash == phase # "closed" /\ Stop /\ UNCHANGED fileVars

PowerLoss == Stop /\ file' \in images /\ images' = {file'} /\ fsync_failed' = FALSE

\* A cell of the closed file goes bad on the medium.  A rotten checksum cell
\* is still no number.
Rot(i) ==
    /\ phase = "closed" /\ rots < MaxRots
    /\ file' = [file EXCEPT ![i] = IF Len(@) = 1 THEN RottenCell ELSE @ \o RottenCell]
    /\ file' # file
    /\ images' = {file'}
    /\ rots' = rots + 1 /\ spoiled' = TRUE
    /\ UNCHANGED <<fsync_failed, phase, memtable, appendVars, valid_end, allowed, appends, resets, stops>>
-----------------------------------------------------------------------------
Next ==
    \/ \E r \in WalRecord : AppendCall(r)
    \/ \E n \in 1..Len(record) : WriteSome(n)
    \/ AppendThrows \/ AppendReturns \/ Reset
    \/ Open \/ ReplayRecord \/ ReplayEnds
    \/ Crash \/ PowerLoss \/ \E i \in 1..Len(file) : Rot(i)

Spec == Init /\ [][Next]_vars
-----------------------------------------------------------------------------
\* Every variable has the type its C++ counterpart has, and the disk may
\* always hold what the page cache holds.
TypeOK ==
    /\ file \in images
    /\ phase \in {"closed", "replay", "open"}
    /\ memtable.table_ \in Table /\ memtable.approximate_size_bytes_ \in 0 .. 2^SizeBits - 1
    /\ apc \in {"idle", "write", "fsync"} /\ call \in WalRecord \cup {NoCall}
    /\ apc # "idle" => phase = "open"
    /\ apc = "write" <=> record # <<>>
    /\ valid_end \in 0..Len(file) \/ phase # "replay"
    /\ spoiled \in BOOLEAN /\ fsync_failed \in BOOLEAN
    /\ allowed \in [Key -> SUBSET (Entry \cup {Absent})]

\* approximate_size_bytes_ (memtable.cpp:19-28) stays the bytes of the keys
\* and values in the table, tombstones with their keys, through overwrites,
\* removes, resets and replays: no subtraction wraps around and MaybeFlush
\* compares that sum.  (It is not the sum over the live entries, though
\* memtable.h:51 says so; see HasExactSize.)
SizeIsExact == HasExactSize(memtable)

\* wal.h:25, "this call does not return until the write is durable": whatever
\* a power failure at this moment leaves of the file, replaying it gives for
\* every key the last acknowledged write or one begun after it.  Excepted are
\* a log in which an Append failed half way, a write acknowledged after an
\* fsync had failed, a cell that went bad, and a record with a length of 2^32
\* or more, which replay will reject.
AckedSurvivePowerLoss ==
    ~spoiled => \A f \in images :
        LET recovered == Replayed(RecordsIn(f)) IN \A k \in Key : recovered[k] \in allowed[k]

\* The image of the file in the abstract log.
Oversized == {r \in WalRecord : ~Fits(r)}
InPart == apc = "write" /\ record # EncodeRecord(call)

Log == INSTANCE RecordLog WITH
    wal <- RecordsIn(file),
    table <- IF phase = "open" THEN memtable.table_ ELSE EmptyTable,
    open <- phase = "open", writing <- InPart, Oversize <- Oversized

\* The cells, short writes, decoding and truncation amount to the sequence
\* of records that module Database keeps in wal, torn and rotten records in
\* the middle included: replay applies the records before the first that does
\* not decode and cuts the file after them.
ImplementsRecordLog == Log!Spec
=============================================================================
