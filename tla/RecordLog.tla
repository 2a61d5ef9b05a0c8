------------------------------ MODULE RecordLog ------------------------------
(***************************************************************************)
(* The log as module Database uses it: a sequence of records, with Torn    *)
(* for bytes that do not decode, and the table that replay and the calls   *)
(* build from it.  WriteAheadLog implements this.                          *)
(***************************************************************************)
EXTENDS LSMTables

CONSTANT Oversize   \* records with a length that its field cannot hold

VARIABLES
    wal, table, open,
    writing     \* the last record is being written: it is Torn so far

vars == <<wal, table, open, writing>>

Written(r) == IF r \in Oversize THEN Torn ELSE r

Init == wal = <<>> /\ table = EmptyTable /\ open = FALSE /\ writing = FALSE

\* One write() of an append: AppendPart of Database when there is more to
\* come, otherwise AppendRest, or both at once.
Write ==
    LET before == IF writing THEN SubSeq(wal, 1, Len(wal) - 1) ELSE wal
        after  == wal'
    IN
    /\ open /\ UNCHANGED <<open, table>>
    /\ \E x \in IF writing' THEN {Torn} ELSE {Written(r) : r \in WalRecord} :
          after = Append(before, x)

\* AppendThrows of Database, when the record is in part in the log.
GiveUp == writing /\ ~writing' /\ UNCHANGED <<wal, table, open>>

\* fsync returned: ApplyToMemTable of Database.
Sync(r) ==
    /\ open /\ ~writing /\ UNCHANGED <<open, writing>>
    /\ table' = Upsert(table, r.key, r.entry)
    /\ wal # <<>> /\ wal[Len(wal)] = Written(r) /\ UNCHANGED wal

\* FlushReset of Database.
Reset ==
    /\ open /\ ~writing /\ UNCHANGED <<open, writing>>
    /\ table' = EmptyTable
    /\ wal' = <<>>

\* OpenReplay of Database.
Replay ==
    /\ ~open /\ open' /\ ~writing'
    /\ table' = Replayed(wal)
    /\ wal' = TruncateTail(wal)

Stopped == ~open' /\ ~writing' /\ table' = EmptyTable

Crash == open /\ Stopped /\ UNCHANGED wal

\* A power failure or a medium error.  What is left of the log is the subject
\* of AckedSurvivePowerLoss.
Damage == Stopped /\ wal' \in Seq(WalRecord \cup {Torn})

Next ==
    \/ Write \/ GiveUp \/ \E r \in WalRecord : Sync(r)
    \/ Reset \/ Replay \/ Crash \/ Damage

Spec == Init /\ [][Next]_vars
=============================================================================
