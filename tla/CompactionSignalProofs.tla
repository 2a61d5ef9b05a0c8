----------------------- MODULE CompactionSignalProofs -----------------------
(***************************************************************************)
(* The safety invariants of CompactionSignal, for any sets of threads.     *)
(***************************************************************************)
EXTENDS CompactionSignal, TLAPS

\* The discipline of quiet waits holds at every step, not only when a call
\* starts: mutex_ keeps a put inside and the guard of Wait outside.
WaitsStayQuiet == QuietWaits => \A c, d \in Client : ~(InPut(c) /\ InWait(d))

\* Once the destructor has begun, no call is in progress.
DestructorIsAlone ==
    /\ shutting_down <=> owner # "open"
    /\ owner # "open" => \A c \in Client : pc[c] = "idle"

\* The inductive invariant.
SignalInv ==
    /\ TypeOK
    /\ WaitsStayQuiet
    /\ DestructorIsAlone
    /\ RequestWakesCompactor
    /\ ShutdownWakesCompactor
    /\ SleepersAreOwedANotify

\* Initially nobody is blocked and nothing is requested.
LEMMA SignalInit == Init => SignalInv
<1> SUFFICES ASSUME Init PROVE SignalInv
  OBVIOUS
<1>1. TypeOK
  BY ThreadAssumption DEF Init, TypeOK, Client, Thread, ClientStep, CompactorStep,
     OwnerStep, InPut
<1>2. WaitsStayQuiet /\ DestructorIsAlone
  BY ThreadAssumption DEF Init, WaitsStayQuiet, DestructorIsAlone, Client, Thread, InPut
<1>3. RequestWakesCompactor /\ ShutdownWakesCompactor /\ SleepersAreOwedANotify
  BY ThreadAssumption DEF Init, RequestWakesCompactor, ShutdownWakesCompactor,
     SleepersAreOwedANotify, Client, Thread
<1> QED
  BY <1>1, <1>2, <1>3 DEF SignalInv

\* Every step of every thread (put, WaitForBackgroundCompaction, the
\* compaction thread, the destructor, a spurious wakeup) preserves it.
LEMMA SignalStep == SignalInv /\ [Next]_vars => SignalInv'
<1> SUFFICES ASSUME SignalInv, [Next]_vars PROVE SignalInv'
  OBVIOUS
<1> USE ThreadAssumption, CallsAssumption
<1> USE DEF SignalInv, Client, Thread, InPut, InWait, Goto, flags, locks
<1>1. ASSUME NEW c \in Putter, Put(c) PROVE SignalInv'
  BY <1>1 DEF Put, TypeOK, WaitsStayQuiet, DestructorIsAlone, RequestWakesCompactor,
     ShutdownWakesCompactor, SleepersAreOwedANotify, ClientStep, CompactorStep, OwnerStep
<1>2. ASSUME NEW c \in Putter, PutReturns(c) PROVE SignalInv'
  BY <1>2 DEF PutReturns, TypeOK, WaitsStayQuiet, DestructorIsAlone, RequestWakesCompactor,
     ShutdownWakesCompactor, SleepersAreOwedANotify, ClientStep, CompactorStep, OwnerStep
<1>3. ASSUME NEW c \in Putter, TriggerReached(c) PROVE SignalInv'
  BY <1>3 DEF TriggerReached, TypeOK, WaitsStayQuiet, DestructorIsAlone, RequestWakesCompactor,
     ShutdownWakesCompactor, SleepersAreOwedANotify, ClientStep, CompactorStep, OwnerStep
<1>4. ASSUME NEW c \in Putter, SetRequested(c) PROVE SignalInv'
  BY <1>4 DEF SetRequested, TypeOK, WaitsStayQuiet, DestructorIsAlone, RequestWakesCompactor,
     ShutdownWakesCompactor, SleepersAreOwedANotify, ClientStep, CompactorStep, OwnerStep
<1>5. ASSUME NEW c \in Putter, NotifyRequest(c) PROVE SignalInv'
  BY <1>5 DEF NotifyRequest, NotifyOne, TypeOK, WaitsStayQuiet, DestructorIsAlone,
     RequestWakesCompactor, ShutdownWakesCompactor, SleepersAreOwedANotify, ClientStep,
     CompactorStep, OwnerStep
<1>6. ASSUME NEW c \in Waiter, Wait(c) PROVE SignalInv'
  BY <1>6 DEF Wait, TypeOK, WaitsStayQuiet, DestructorIsAlone, RequestWakesCompactor,
     ShutdownWakesCompactor, SleepersAreOwedANotify, ClientStep, CompactorStep, OwnerStep
<1>7. ASSUME NEW c \in Waiter, WaitCheck(c) PROVE SignalInv'
  BY <1>7 DEF WaitCheck, Block, TypeOK, WaitsStayQuiet, DestructorIsAlone,
     RequestWakesCompactor, ShutdownWakesCompactor, SleepersAreOwedANotify, ClientStep,
     CompactorStep, OwnerStep
<1>8. ASSUME NEW t \in Thread, SpuriousWakeup(t) PROVE SignalInv'
  BY <1>8 DEF SpuriousWakeup, TypeOK, WaitsStayQuiet, DestructorIsAlone,
     RequestWakesCompactor, ShutdownWakesCompactor, SleepersAreOwedANotify, ClientStep,
     CompactorStep, OwnerStep
<1>9. CASE CompactorCheck
  <2> USE <1>9 DEF CompactorCheck, Block
  <2>1. TypeOK'
    BY DEF TypeOK, ClientStep, CompactorStep, OwnerStep
  <2>2. WaitsStayQuiet' /\ DestructorIsAlone'
    BY DEF TypeOK, WaitsStayQuiet, DestructorIsAlone
  <2>3. RequestWakesCompactor' /\ ShutdownWakesCompactor' /\ SleepersAreOwedANotify'
    BY DEF TypeOK, RequestWakesCompactor, ShutdownWakesCompactor, SleepersAreOwedANotify
  <2> QED
    BY <2>1, <2>2, <2>3
<1>10. CASE CompactorUnlock
  BY <1>10 DEF CompactorUnlock, TypeOK, WaitsStayQuiet, DestructorIsAlone,
     RequestWakesCompactor, ShutdownWakesCompactor, SleepersAreOwedANotify, ClientStep,
     CompactorStep, OwnerStep
<1>11. ASSUME NEW step \in {"snapshot", "number", "swap"},
              NEW after \in {"number", "swap", "finish"},
              CompactOnce(step, after)
       PROVE  SignalInv'
  BY <1>11 DEF CompactOnce, TypeOK, WaitsStayQuiet, DestructorIsAlone,
     RequestWakesCompactor, ShutdownWakesCompactor, SleepersAreOwedANotify, ClientStep,
     CompactorStep, OwnerStep
<1>12. CASE CompactorFinish
  BY <1>12 DEF CompactorFinish, TypeOK, WaitsStayQuiet, DestructorIsAlone,
     RequestWakesCompactor, ShutdownWakesCompactor, SleepersAreOwedANotify, ClientStep,
     CompactorStep, OwnerStep
<1>13. CASE NotifyAll
  BY <1>13 DEF NotifyAll, Awake, TypeOK, WaitsStayQuiet, DestructorIsAlone,
     RequestWakesCompactor, ShutdownWakesCompactor, SleepersAreOwedANotify, ClientStep,
     CompactorStep, OwnerStep
<1>14. CASE Destroy
  BY <1>14 DEF Destroy, TypeOK, WaitsStayQuiet, DestructorIsAlone, RequestWakesCompactor,
     ShutdownWakesCompactor, SleepersAreOwedANotify, ClientStep, CompactorStep, OwnerStep
<1>15. CASE NotifyShutdown
  BY <1>15 DEF NotifyShutdown, NotifyOne, TypeOK, WaitsStayQuiet, DestructorIsAlone,
     RequestWakesCompactor, ShutdownWakesCompactor, SleepersAreOwedANotify, ClientStep,
     CompactorStep, OwnerStep
<1>16. CASE Join
  BY <1>16 DEF Join, TypeOK, WaitsStayQuiet, DestructorIsAlone, RequestWakesCompactor,
     ShutdownWakesCompactor, SleepersAreOwedANotify, ClientStep, CompactorStep, OwnerStep
<1>17. CASE UNCHANGED vars
  BY <1>17 DEF vars, TypeOK, WaitsStayQuiet, DestructorIsAlone, RequestWakesCompactor,
     ShutdownWakesCompactor, SleepersAreOwedANotify
<1> HIDE DEF SignalInv
<1>18. CASE CompactorNext
  BY <1>9, <1>10, <1>11, <1>12, <1>13, <1>18 DEF CompactorNext
<1> QED
  BY <1>1, <1>2, <1>3, <1>4, <1>5, <1>6, <1>7, <1>8, <1>14, <1>15, <1>16, <1>17, <1>18
     DEF Next, PutterNext, OwnerNext, Closed

\* The steps, the wait set, the holders of both mutexes and the flags stay of their
\* types and consistent with each other.
THEOREM SignalTypeOK == Spec => []TypeOK
  BY SignalInit, SignalStep, PTL DEF Spec, SignalInv

\* With quiet waits, no request of MaybeTriggerCompaction is ever lost on the
\* compaction thread, for any number of threads that write and that wait.
THEOREM NoLostRequest == Spec => []RequestWakesCompactor
  BY SignalInit, SignalStep, PTL DEF Spec, SignalInv

\* The notify_one of the destructor always reaches the compaction thread.
THEOREM NoLostShutdown == Spec => []ShutdownWakesCompactor
  BY SignalInit, SignalStep, PTL DEF Spec, SignalInv

\* No caller of WaitForBackgroundCompaction sleeps when nothing is left to
\* wake it, apart from a request that is itself not served.
THEOREM NoLostWaiter == Spec => []SleepersAreOwedANotify
  BY SignalInit, SignalStep, PTL DEF Spec, SignalInv
=============================================================================
