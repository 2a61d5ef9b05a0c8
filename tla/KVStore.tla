------------------------------ MODULE KVStore ------------------------------
(***************************************************************************)
(* What the store promises its callers (kv_store.h, and the durability     *)
(* guarantee of DESIGN.md): a map from keys to values that changes only    *)
(* when a write takes effect.  A write that has begun and is not yet in    *)
(* effect, or that failed, may or may not show after a restart; every      *)
(* other write does.                                                       *)
(***************************************************************************)
CONSTANTS Key, Value, Absent

VARIABLES
    kv,       \* the answer of get for every key
    pending   \* for every key, the results of unacknowledged writes to it

vars == <<kv, pending>>

Outcome == Value \cup {Absent}

TypeOK ==
    /\ kv \in [Key -> Outcome]
    /\ pending \in [Key -> SUBSET Outcome]

Init ==
    /\ kv = [k \in Key |-> Absent]
    /\ pending = [k \in Key |-> {}]

Begin(k, v) ==
    /\ pending' = [pending EXCEPT ![k] = @ \cup {v}]
    /\ UNCHANGED kv

Commit(k, v) ==
    /\ v \in pending[k]
    /\ kv' = [kv EXCEPT ![k] = v]
    /\ pending' = [pending EXCEPT ![k] = {}]

\* The process ended, in whatever way, and the directory is what is left.
Restart ==
    /\ kv' \in [Key -> Outcome]
    /\ \A k \in Key : kv'[k] \in {kv[k]} \cup pending[k]
    /\ pending' = [k \in Key |-> {}]

Next ==
    \/ \E k \in Key, v \in Outcome : Begin(k, v) \/ Commit(k, v)
    \/ Restart

Spec == Init /\ [][Next]_vars
=============================================================================
