----------------------------- MODULE MCDatabase -----------------------------
(* Small instances of Database for TLC. *)
EXTENDS Database, TLC

CONSTANTS v1, v2    \* values

MCKey == {1, 2}
MCOneKey == {1}
MCValue == {v1, v2}
MCOneValue == {v1}

\* One byte each: with FlushThreshold = 2 a put always flushes, a remove into
\* an empty MemTable does not.
MCKeyLen == [k \in Key |-> 1]
MCValueLen == [v \in Value |-> 1]

\* The ranges [2, 3), which leaves key 1 out, [2, 2), [3, 3) and [3, 2).
MCScanBound == {2, 3}
NoScanBound == {}

\* The values are interchangeable.  Not used with temporal properties.
MCSymmetry == Permutations(Value)
=============================================================================
