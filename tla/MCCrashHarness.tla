--------------------------- MODULE MCCrashHarness ---------------------------
(* A small instance of CrashHarness for TLC. *)
EXTENDS CrashHarness

MCKey == 0 .. count - 1
MCValue == {10 + k : k \in MCKey}
MCValueOf == [k \in MCKey |-> 10 + k]
MCGetter == {Parent}
MCKeyLen == [k \in Key |-> 1]
MCValueLen == [v \in Value |-> 1]
NoBound == {}
=============================================================================
