---------------------------- MODULE CrashHarness ----------------------------
(***************************************************************************)
(* One trial of tools/crash_recovery_harness.cpp around module Database: a *)
(* child process puts fresh keys one after the other and acknowledges each *)
(* on a pipe; the parent counts acknowledgements until a deadline or the   *)
(* end of the pipe, kills the child, opens the same directory and looks    *)
(* every acknowledged key up.  RunTrial empties the directory first, so    *)
(* trials do not depend on each other.                                     *)
(***************************************************************************)
EXTENDS Database

CONSTANTS
    count,      \* records per trial
    ValueOf,    \* Value(i) of the harness
    Parent      \* the parent's thread

ASSUME HarnessAssumption ==
    /\ count \in Nat /\ Key = 0 .. count - 1
    /\ ValueOf \in [Key -> Value]
    /\ Getter = {Parent}

VARIABLES
    child,          \* "start", "put", "putting", "ack", "gone"
    i,              \* its loop variable
    pipe,           \* acknowledgements written and not read
    parent,         \* "check", "read" (CollectAcks), "kill", "reopen", "verify", "get", "close", "done"
    last_acked, checked, ok

harnessVars == <<child, i, pipe, parent, last_acked, checked, ok>>
allVars == <<vars, harnessVars>>

HarnessInit ==
    /\ Init
    /\ child = "start" /\ i = 0 /\ pipe = <<>>
    /\ parent = "check" /\ last_acked = -1 /\ checked = 0 /\ ok = TRUE
-----------------------------------------------------------------------------
(* RunChild *)

ChildOpened ==
    /\ child = "start" /\ phase = "up"
    /\ child' = "put"
    /\ UNCHANGED <<vars, i, pipe, parent, last_acked, checked, ok>>

ChildPut ==
    /\ child = "put" /\ i < count
    /\ Put(i, ValueOf[i])
    /\ child' = "putting"
    /\ UNCHANGED <<i, pipe, parent, last_acked, checked, ok>>

\* No exception can have come out of it: see ChildTerminates.
ChildPutReturns ==
    /\ child = "putting" /\ wpc = "idle"
    /\ child' = "ack"
    /\ UNCHANGED <<vars, i, pipe, parent, last_acked, checked, ok>>

\* The write to the pipe may fail, which the child ignores.
ChildAck ==
    /\ child = "ack"
    /\ pipe' \in {Append(pipe, i), pipe}
    /\ i' = i + 1 /\ child' = "put"
    /\ UNCHANGED <<vars, parent, last_acked, checked, ok>>

\* An exception of put, or of CompactOnce in the compaction thread, is caught
\* nowhere: std::terminate ends the child.
ChildTerminates ==
    /\ child \in {"put", "putting", "ack"}
    /\ \/ "append" \in Faults /\ wpc \in {"append", "appending", "fsync"}
       \/ "flush" \in Faults /\ wpc \in {"create", "fill", "rename", "open", "reset"}
       \/ cpc # "wait"
    /\ Crash
    /\ child' = "gone"
    /\ UNCHANGED <<i, pipe, parent, last_acked, checked, ok>>

\* _exit(0) runs no destructor.
ChildExit ==
    /\ child = "put" /\ i = count
    /\ Crash
    /\ child' = "gone"
    /\ UNCHANGED <<i, pipe, parent, last_acked, checked, ok>>

ChildNext == ChildOpened \/ ChildPut \/ ChildPutReturns \/ ChildAck \/ ChildExit
-----------------------------------------------------------------------------
(* CollectAcks and RunTrial *)

\* The deadline may have passed.
CollectCheck ==
    /\ parent = "check"
    /\ parent' \in {"read", "kill"}
    /\ UNCHANGED <<vars, child, i, pipe, last_acked, checked, ok>>

\* read() returns some of what the pipe holds; an incomplete line waits in buf.
CollectRead ==
    /\ parent = "read"
    /\ \E n \in 1..Len(pipe) :
          /\ last_acked' = pipe[n]
          /\ pipe' = SubSeq(pipe, n + 1, Len(pipe))
    /\ parent' = "check"
    /\ UNCHANGED <<vars, child, i, checked, ok>>

\* Mutant: the parent keeps the write end of the pipe open.
NeverEof == FALSE

\* The parent has closed its own write end, so the child's is the last.
PipeClosed == child = "gone"

CollectEof ==
    /\ parent = "read" /\ pipe = <<>> /\ PipeClosed
    /\ parent' = "kill"
    /\ UNCHANGED <<vars, child, i, pipe, last_acked, checked, ok>>

\* kill(SIGKILL) and waitpid.
Kill ==
    /\ parent = "kill"
    /\ IF phase # "down" THEN Crash ELSE UNCHANGED vars
    /\ child' = "gone" /\ parent' = "reopen"
    /\ UNCHANGED <<i, pipe, last_acked, checked, ok>>

\* The next file to open is not complete: SSTableReader throws.
ConstructorThrows ==
    /\ phase = "opening"
    /\ \E n \in DOMAIN disk \ Opened :
          disk[n] = Partial /\ \A m \in DOMAIN disk \ Opened : n <= m

\* The constructor is done, or "reopening after kill threw".
Reopened ==
    /\ parent = "reopen" /\ (phase = "up" \/ ConstructorThrows)
    /\ ok' = ~ConstructorThrows
    /\ parent' = IF ConstructorThrows THEN "done" ELSE "verify"
    /\ UNCHANGED <<vars, child, i, pipe, last_acked, checked>>

\* Mutant: the key after the last acknowledged one is checked too.
OneMoreToCheck == checked <= last_acked + 1

MoreToCheck == checked <= last_acked

VerifyGet ==
    /\ parent = "verify" /\ MoreToCheck
    /\ Get(Parent, checked)
    /\ parent' = "get"
    /\ UNCHANGED <<child, i, pipe, last_acked, checked, ok>>

VerifyCompare ==
    /\ parent = "get"
    /\ GetReturn(Parent)
    /\ ok' = (ok /\ getter[Parent].value = ValueOf[checked])
    /\ checked' = checked + 1 /\ parent' = "verify"
    /\ UNCHANGED <<child, i, pipe, last_acked>>

\* The end of RunTrial destroys the Database.
VerifyEnds ==
    /\ parent = "verify" /\ ~MoreToCheck
    /\ Close
    /\ parent' = "close"
    /\ UNCHANGED <<child, i, pipe, last_acked, checked, ok>>

Return ==
    /\ parent = "close" /\ phase = "down"
    /\ parent' = "done"
    /\ UNCHANGED <<vars, child, i, pipe, last_acked, checked, ok>>

ParentNext ==
    \/ CollectCheck \/ CollectRead \/ CollectEof \/ Kill
    \/ Reopened \/ VerifyGet \/ VerifyCompare \/ VerifyEnds \/ Return
-----------------------------------------------------------------------------
\* The threads of the Database that is open, in the child or in the parent.
\* Each process opens it once.  A put that throws is ChildTerminates.
DatabaseNext ==
    /\ \/ WriterNext /\ ~AppendThrows /\ ~FlushThrows
       \/ CompactorNext \/ GetFromTable(Parent)
       \/ CloseJoin \/ OpenTable \/ OpenReplay
       \/ Open /\ (child = "start" \/ parent = "reopen")
    /\ UNCHANGED harnessVars

HarnessNext == ChildNext \/ ChildTerminates \/ ParentNext \/ DatabaseNext

\* The operating system runs both processes; no call has to fail.
HarnessSpec ==
    /\ HarnessInit /\ [][HarnessNext]_allVars
    /\ WF_allVars(ChildNext) /\ WF_allVars(ParentNext) /\ WF_allVars(DatabaseNext)
-----------------------------------------------------------------------------
\* The counters stay within the trial: what is looked up has been
\* acknowledged, and what is acknowledged has been put (crash_recovery_harness.cpp:133).
HarnessTypeOK ==
    /\ child \in {"start", "put", "putting", "ack", "gone"} /\ i \in 0..count
    /\ pipe \in Seq(0 .. i - 1) /\ last_acked \in -1 .. i - 1
    /\ parent \in {"check", "read", "kill", "reopen", "verify", "get", "close", "done"}
    /\ checked \in 0 .. last_acked + 1 /\ ok \in BOOLEAN

\* "checks that every acknowledged write survived and that recovery itself
\* never throws" (crash_recovery_harness.cpp:4): wherever the kill lands, or an
\* exception ends the child, in a write, a flush or a compaction, the trial
\* passes.  It does so in the
\* executions of finding overtaken as well, because no key is written twice.
TrialPasses == ok

\* "Reopening must neither throw nor hang" (crash_recovery_harness.cpp:120):
\* the trial ends, with its Database destroyed, wherever the kill lands or the
\* child ends by itself.
TrialEnds == <>(parent = "done")
=============================================================================
