-------------------------- MODULE CompactionSignal --------------------------
(***************************************************************************)
(* How threads talk to the compaction thread: compaction_cv_mutex_, the    *)
(* one condition variable compaction_cv_ that the compaction thread and    *)
(* the callers of WaitForBackgroundCompaction share, and the destructor.   *)
(*                                                                         *)
(* A critical section of compaction_cv_mutex_ tests or sets flags and      *)
(* blocks on nothing but the condition variable, which releases the mutex, *)
(* so each is one action, that waits for the mutex to be free.  The one of *)
(* the compaction thread that leads to CompactOnce, where mutex_ is taken, *)
(* ends in an unlock of its own.  A notify comes after the unlock and is   *)
(* an action.  What a flush or a compaction does to the tables is in       *)
(* module Database; here a flush either reaches the trigger or not.        *)
(***************************************************************************)
EXTENDS Integers, FiniteSets

CONSTANTS
    Putter,     \* threads that call put or remove
    Waiter,     \* threads that call WaitForBackgroundCompaction
    Compactor,  \* the compaction thread
    Nobody,     \* no thread holds the mutex
    QuietWaits, \* callers never overlap a put and a WaitForBackgroundCompaction
    MaxCalls    \* bound on the calls of all clients together

Client == Putter \cup Waiter
Thread == Client \cup {Compactor}

ASSUME ThreadAssumption == Compactor \notin Client /\ Nobody \notin Thread
ASSUME CallsAssumption == QuietWaits \in BOOLEAN /\ MaxCalls \in Nat

VARIABLES
    pc,             \* the step each thread does next
    waiting,        \* threads blocked in compaction_cv_.wait
    mutex,          \* who holds mutex_ exclusively across steps
    cv_mutex,       \* who holds compaction_cv_mutex_ across steps
    compaction_requested, compaction_running, shutting_down,
    owner,          \* the thread that runs ~Database
    calls

flags == <<compaction_requested, compaction_running, shutting_down>>
locks == <<mutex, cv_mutex>>
vars == <<pc, waiting, locks, flags, owner, calls>>

ClientStep == {"idle", "flush", "request", "notify", "check", "blocked"}
CompactorStep == {"check", "blocked", "unlock", "snapshot", "number", "swap", "finish",
                  "notify_all", "exited"}
OwnerStep == {"open", "shutdown", "join", "closed"}

Goto(t, step) == pc' = [pc EXCEPT ![t] = step]

Init ==
    /\ pc = [t \in Thread |-> IF t = Compactor THEN "check" ELSE "idle"]
    /\ waiting = {} /\ mutex = Nobody /\ cv_mutex = Nobody
    /\ compaction_requested = FALSE /\ compaction_running = FALSE
    /\ shutting_down = FALSE /\ owner = "open" /\ calls = 0
-----------------------------------------------------------------------------
(* The condition variable *)

\* wait(lock, pred) where pred does not hold.
Block(t) == waiting' = waiting \cup {t} /\ Goto(t, "blocked")

\* A thread that is woken locks the mutex again and tests its predicate.
Awake(W) == [t \in Thread |-> IF t \in W THEN "check" ELSE pc[t]]

\* One waiter wakes, any of them; with no waiter nothing happens.
NotifyOne(others) ==
    IF waiting = {} THEN waiting' = waiting /\ pc' = others
    ELSE \E t \in waiting :
            /\ waiting' = waiting \ {t}
            /\ pc' = [others EXCEPT ![t] = "check"]

SpuriousWakeup(t) ==
    /\ t \in waiting
    /\ waiting' = waiting \ {t}
    /\ Goto(t, "check")
    /\ UNCHANGED <<locks, flags, owner, calls>>
-----------------------------------------------------------------------------
(* put and remove, as far as they signal *)

InWait(c) == pc[c] \in {"check", "blocked"}
InPut(c) == pc[c] \in {"flush", "request", "notify"}

\* The call takes mutex_ and goes through the WAL and the MemTable.
Put(c) ==
    /\ pc[c] = "idle" /\ owner = "open" /\ calls < MaxCalls
    /\ QuietWaits => \A d \in Client : ~InWait(d)
    /\ mutex = Nobody
    /\ mutex' = c /\ calls' = calls + 1
    /\ Goto(c, "flush")
    /\ UNCHANGED <<cv_mutex, waiting, flags, owner>>

\* No flush, or a flush that leaves the count below the trigger: return.
PutReturns(c) ==
    /\ pc[c] = "flush"
    /\ mutex' = Nobody
    /\ Goto(c, "idle")
    /\ UNCHANGED <<cv_mutex, waiting, flags, owner, calls>>

\* Mutant: mutex_ is released before the signal.
TriggerUnlocked(c) ==
    /\ pc[c] = "flush"
    /\ mutex' = Nobody
    /\ Goto(c, "request")
    /\ UNCHANGED <<cv_mutex, waiting, flags, owner, calls>>

\* MaybeTriggerCompaction with the count at the trigger.
TriggerReached(c) ==
    /\ pc[c] = "flush"
    /\ Goto(c, "request")
    /\ UNCHANGED <<waiting, locks, flags, owner, calls>>

SetRequested(c) ==
    /\ pc[c] = "request" /\ cv_mutex = Nobody
    /\ compaction_requested' = TRUE
    /\ Goto(c, "notify")
    /\ UNCHANGED <<waiting, locks, compaction_running, shutting_down, owner, calls>>

\* Mutant: the request is set and nobody is told.
NotifyNobody(c) ==
    /\ pc[c] = "notify"
    /\ mutex' = Nobody
    /\ Goto(c, "idle")
    /\ UNCHANGED <<cv_mutex, waiting, flags, owner, calls>>

\* notify_one, and the call returns.
NotifyRequest(c) ==
    /\ pc[c] = "notify"
    /\ NotifyOne([pc EXCEPT ![c] = "idle"])
    /\ mutex' = Nobody
    /\ UNCHANGED <<cv_mutex, flags, owner, calls>>
-----------------------------------------------------------------------------
(* WaitForBackgroundCompaction *)

Wait(c) ==
    /\ pc[c] = "idle" /\ owner = "open" /\ calls < MaxCalls
    /\ QuietWaits => \A d \in Client : ~InPut(d)
    /\ calls' = calls + 1
    /\ Goto(c, "check")
    /\ UNCHANGED <<waiting, locks, flags, owner>>

WaitCheck(c) ==
    /\ pc[c] = "check" /\ cv_mutex = Nobody
    /\ IF ~compaction_requested /\ ~compaction_running
       THEN Goto(c, "idle") /\ UNCHANGED waiting
       ELSE Block(c)
    /\ UNCHANGED <<locks, flags, owner, calls>>
-----------------------------------------------------------------------------
(* CompactionThreadMain *)

\* Mutant: shutting_down_ is missing from the predicate and after it.
CompactorCheckRequestOnly ==
    /\ pc[Compactor] = "check" /\ cv_mutex = Nobody
    /\ IF compaction_requested
       THEN /\ compaction_requested' = FALSE /\ compaction_running' = TRUE
            /\ cv_mutex' = Compactor
            /\ Goto(Compactor, "unlock") /\ UNCHANGED waiting
       ELSE /\ Block(Compactor)
            /\ UNCHANGED <<cv_mutex, compaction_requested, compaction_running>>
    /\ UNCHANGED <<mutex, shutting_down, owner, calls>>

CompactorCheck ==
    /\ pc[Compactor] = "check" /\ cv_mutex = Nobody
    /\ \/ /\ shutting_down
          /\ Goto(Compactor, "exited")
          /\ UNCHANGED <<waiting, cv_mutex, compaction_requested, compaction_running>>
       \/ /\ ~shutting_down /\ compaction_requested
          /\ compaction_requested' = FALSE /\ compaction_running' = TRUE
          /\ cv_mutex' = Compactor
          /\ Goto(Compactor, "unlock")
          /\ UNCHANGED waiting
       \/ /\ ~shutting_down /\ ~compaction_requested
          /\ Block(Compactor)
          /\ UNCHANGED <<cv_mutex, compaction_requested, compaction_running>>
    /\ UNCHANGED <<mutex, shutting_down, owner, calls>>

\* Mutant: CompactOnce runs with compaction_cv_mutex_ held.
CompactWithoutUnlock ==
    /\ pc[Compactor] = "unlock"
    /\ Goto(Compactor, "snapshot")
    /\ UNCHANGED <<waiting, locks, flags, owner, calls>>

CompactorUnlock ==
    /\ pc[Compactor] = "unlock"
    /\ cv_mutex' = Nobody
    /\ Goto(Compactor, "snapshot")
    /\ UNCHANGED <<waiting, mutex, flags, owner, calls>>

\* CompactOnce takes mutex_ to copy the list (and returns if there is nothing
\* to merge), to take a file number, and to swap the list.
CompactOnce(step, after) ==
    /\ pc[Compactor] = step /\ mutex = Nobody
    /\ Goto(Compactor, after)
    /\ UNCHANGED <<waiting, locks, flags, owner, calls>>

\* Mutant: the waiters are not notified.
FinishWithoutNotify ==
    /\ pc[Compactor] = "finish" /\ cv_mutex = Nobody
    /\ compaction_running' = FALSE
    /\ Goto(Compactor, "check")
    /\ UNCHANGED <<waiting, locks, compaction_requested, shutting_down, owner, calls>>

CompactorFinish ==
    /\ pc[Compactor] = "finish" /\ cv_mutex = Nobody
    /\ compaction_running' = FALSE
    /\ Goto(Compactor, "notify_all")
    /\ UNCHANGED <<waiting, locks, compaction_requested, shutting_down, owner, calls>>

NotifyAll ==
    /\ pc[Compactor] = "notify_all"
    /\ pc' = [Awake(waiting) EXCEPT ![Compactor] = "check"]
    /\ waiting' = {}
    /\ UNCHANGED <<locks, flags, owner, calls>>
-----------------------------------------------------------------------------
(* ~Database: no call may be in progress *)

\* Mutant: the destructor sets the flag and joins.
DestroyWithoutNotify ==
    /\ owner = "open" /\ cv_mutex = Nobody /\ \A c \in Client : pc[c] = "idle"
    /\ shutting_down' = TRUE
    /\ owner' = "join"
    /\ UNCHANGED <<pc, waiting, locks, compaction_requested, compaction_running, calls>>

Destroy ==
    /\ owner = "open" /\ cv_mutex = Nobody /\ \A c \in Client : pc[c] = "idle"
    /\ shutting_down' = TRUE
    /\ owner' = "shutdown"
    /\ UNCHANGED <<pc, waiting, locks, compaction_requested, compaction_running, calls>>

NotifyShutdown ==
    /\ owner = "shutdown"
    /\ NotifyOne(pc)
    /\ owner' = "join"
    /\ UNCHANGED <<locks, flags, calls>>

Join ==
    /\ owner = "join" /\ pc[Compactor] = "exited"
    /\ owner' = "closed"
    /\ UNCHANGED <<pc, waiting, locks, flags, calls>>

\* The object is gone.
Closed == owner = "closed" /\ UNCHANGED vars
-----------------------------------------------------------------------------
PutterNext(c) ==
    PutReturns(c) \/ TriggerReached(c) \/ SetRequested(c) \/ NotifyRequest(c)

CompactorNext ==
    \/ CompactorCheck \/ CompactorUnlock
    \/ CompactOnce("snapshot", "number") \/ CompactOnce("snapshot", "finish")
    \/ CompactOnce("number", "swap") \/ CompactOnce("swap", "finish")
    \/ CompactorFinish \/ NotifyAll

OwnerNext == NotifyShutdown \/ Join

Next ==
    \/ \E c \in Putter : Put(c) \/ PutterNext(c)
    \/ \E c \in Waiter : Wait(c) \/ WaitCheck(c)
    \/ \E t \in Thread : SpuriousWakeup(t)
    \/ CompactorNext
    \/ Destroy \/ OwnerNext \/ Closed

Spec == Init /\ [][Next]_vars

\* Every thread that can run does.  No call has to be made, the object does
\* not have to be destroyed, and a wait need not end by itself.
FairSpec ==
    /\ Spec
    /\ \A c \in Putter : WF_vars(PutterNext(c))
    /\ \A c \in Waiter : WF_vars(WaitCheck(c))
    /\ WF_vars(CompactorNext)
    /\ WF_vars(OwnerNext)
-----------------------------------------------------------------------------
(* Properties *)

\* Steps, waiting threads and flags agree: a thread is in the wait set
\* exactly when it is blocked, mutex_ is held by a thread inside put, and
\* compaction_cv_mutex_ outlasts a step only on the way to CompactOnce.
TypeOK ==
    /\ pc \in [Thread -> ClientStep \cup CompactorStep]
    /\ pc[Compactor] \in CompactorStep
    /\ \A c \in Client : pc[c] \in ClientStep
    /\ waiting = {t \in Thread : pc[t] = "blocked"}
    /\ mutex \in Client \cup {Nobody}
    /\ \A c \in Client : InPut(c) <=> mutex = c
    /\ cv_mutex = IF pc[Compactor] = "unlock" THEN Compactor ELSE Nobody
    /\ compaction_requested \in BOOLEAN /\ compaction_running \in BOOLEAN
    /\ shutting_down \in BOOLEAN
    /\ owner \in OwnerStep /\ calls \in Nat

\* No lost wakeup: with quiet waits a request never stands while the
\* compaction thread sleeps, unless the thread that made it has still to
\* notify (database.cpp:207-210).
RequestWakesCompactor ==
    QuietWaits /\ compaction_requested /\ pc[Compactor] = "blocked"
        => \E c \in Putter : pc[c] = "notify"

\* The same for the shutdown (database.cpp:97-103): the compaction thread
\* does not sleep through it.
ShutdownWakesCompactor == shutting_down /\ pc[Compactor] = "blocked" => owner = "shutdown"

\* A caller of WaitForBackgroundCompaction sleeps only while a compaction is
\* requested or running, or the notify_all of database.cpp:229 is still to
\* come: clearing compaction_running_ and notifying after the unlock leaves
\* no gap for it to sleep in.
SleepersAreOwedANotify ==
    \A c \in Waiter : pc[c] = "blocked" =>
        \/ compaction_requested \/ compaction_running
        \/ pc[Compactor] = "notify_all"

\* Every request is taken up by the compaction thread, or the database is
\* being destroyed.
RequestIsServed == compaction_requested ~> (~compaction_requested \/ shutting_down)

\* put, remove and WaitForBackgroundCompaction return: no notify passes them
\* by, and the thread that asks for compaction_cv_mutex_ inside mutex_
\* (database.cpp:207) never meets one that asks for them the other way round.
CallsReturn == \A c \in Client : pc[c] # "idle" ~> pc[c] = "idle"

\* "Blocks until no compaction is requested or in progress" (database.h:60).
WaitReturns == \A c \in Waiter : InWait(c) ~> pc[c] = "idle"

\* ~Database returns.
DestructorReturns == owner = "shutdown" ~> owner = "closed"
=============================================================================
