--------------------------- MODULE MCWriteAheadLog ---------------------------
(* A small instance of WriteAheadLog for TLC. *)
EXTENDS WriteAheadLog, TLC

CONSTANTS short, long    \* values

MCKey == {1, 2}
MCValue == {short, long}
\* With LengthBits = 1 the value long has a length that its field cannot hold.
MCKeyBytes == (1 :> <<7>>) @@ (2 :> <<8>>)
MCValueBytes == (short :> <<9>>) @@ (long :> <<9, 9>>)
MCKeyLen == [k \in Key |-> Len(KeyBytes[k])]
MCValueLen == [v \in Value |-> Len(ValueBytes[v])]
MCRottenCell == <<3>>
=============================================================================
