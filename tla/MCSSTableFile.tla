---------------------------- MODULE MCSSTableFile ----------------------------
(* A small instance of SSTableFile for TLC. *)
EXTENDS SSTableFile

CONSTANT v1     \* the value

MCKey == {2, 3, 4, 6, 7}
MCValue == {v1}
MCKeyLen == [k \in Key |-> 1]
MCValueLen == [v \in Value |-> 1]

\* Every key, a key before all, one between two and one after all.
MCProbe == 1..8
=============================================================================
