----------------------- MODULE CanonEventLoopProofs -----------------------
(* Proofs about CanonEventLoop, and about CanonCapture on top of it, for   *)
(* any set of event threads.                                               *)
EXTENDS CanonCapture, TLAPS

\* Initially nothing runs and nothing is held: the invariant holds.
LEMMA InitIInv == Init => IInv
<1> SUFFICES ASSUME Init PROVE IInv
  OBVIOUS
<1> USE ActorsDistinct DEF Init, Live
<1>1. TypeOK
  BY DEF TypeOK, DispatcherPcs, DispatcherHolds, ThreadPcs, ThreadHolds
<1>2. LockInv
  BY DEF LockInv, DispatcherHolds, ThreadHolds, InSession
<1>3. GenInv /\ StageInv
  BY DEF GenInv, StageInv
<1>4. ClosedSessionIsQuiet /\ StopInv
  BY DEF ClosedSessionIsQuiet, StopInv, InSession
<1> QED
  BY <1>1, <1>2, <1>3, <1>4 DEF IInv

\* No step of the dispatcher, and no shutter pressed on the camera, breaks the
\* invariant.
LEMMA DispatcherKeepsIInv ==
    ASSUME IInv, DispatcherNext \/ PhysicalShutter PROVE IInv'
<1> USE ActorsDistinct
    DEF IInv, TypeOK, LockInv, GenInv, StageInv, ClosedSessionIsQuiet, StopInv,
        Live, DispatcherHolds, DispatcherPcs, InSession, ThreadHolds, ThreadPcs,
        dispVars, sessionVars, listenVars, stopVars,
        threadVars, cameraVars, outsideVars
<1>1. CASE Connect
  BY <1>1 DEF Connect
<1>2. CASE BeginListening
  BY <1>2 DEF BeginListening
<1>3. CASE SpawnEventThread
  BY <1>3 DEF SpawnEventThread
<1>4. CASE RecordEventThread
  BY <1>4 DEF RecordEventThread
<1>5. CASE StopListening
  BY <1>5 DEF StopListening
<1>6. CASE RetireGeneration
  BY <1>6 DEF RetireGeneration
<1>7. CASE JoinReturns
  BY <1>7 DEF JoinReturns, AfterStop
<1>8. CASE JoinTimesOut
  BY <1>8 DEF JoinTimesOut, AfterStop
<1>9. CASE Close
  BY <1>9 DEF Close
<1>10. CASE ClearRunning
  BY <1>10 DEF ClearRunning
<1>11. CASE CloseSession
  BY <1>11 DEF CloseSession
<1>12. CASE Teardown
  BY <1>12 DEF Teardown
<1>13. CASE OpBegin
  BY <1>13 DEF OpBegin
<1>14. CASE OpEnd
  BY <1>14 DEF OpEnd
<1>15. CASE CaptureBegin
  BY <1>15 DEF CaptureBegin
<1>16. CASE TakePicture
  BY <1>16 DEF TakePicture
<1>17. CASE CaptureEnds
  BY <1>17 DEF CaptureEnds
<1>18. CASE DispatcherLocks
  BY <1>18 DEF DispatcherLocks
<1>19. CASE PhysicalShutter
  BY <1>19 DEF PhysicalShutter
<1> HIDE DEF IInv
<1> QED
  BY <1>1, <1>2, <1>3, <1>4, <1>5, <1>6, <1>7, <1>8, <1>9, <1>10, <1>11,
     <1>12, <1>13, <1>14, <1>15, <1>16, <1>17, <1>18, <1>19
     DEF DispatcherNext, StartSteps, StopSteps, CloseSteps, OpSteps

\* No step of an event thread breaks the invariant.
LEMMA ThreadKeepsIInv ==
    ASSUME IInv, NEW t \in Threads, ThreadNext(t) PROVE IInv'
<1> USE ActorsDistinct
    DEF IInv, TypeOK, LockInv, GenInv, StageInv, ClosedSessionIsQuiet, StopInv,
        Live, Active, DispatcherHolds, InSession, ThreadHolds, ThreadPcs,
        dispVars, sessionVars, listenVars, stopVars,
        threadVars, cameraVars, outsideVars,
        Moves
<1>1. CASE LoopHead(t)
  BY <1>1 DEF LoopHead
<1>2. CASE ThreadLocks(t)
  BY <1>2 DEF ThreadLocks
<1>3. CASE CheckUnderLock(t)
  BY <1>3 DEF CheckUnderLock
<1>4. CASE PollCamera(t)
  BY <1>4 DEF PollCamera
<1>5. CASE HandleEvents(t)
  <2>1. latch' \in {"idle", "armed", "done"} /\ unseen' \in BOOLEAN
    BY <1>5 DEF HandleEvents
  <2>2. /\ Moves(t, "handle", "head")
        /\ ioLock' = Nobody
        /\ UNCHANGED <<dispVars, eventThread, tgen>>
    BY <1>5 DEF HandleEvents
  <2> QED
    BY <2>1, <2>2
<1>6. CASE LoopExit(t)
  BY <1>6 DEF LoopExit
<1>7. CASE ClearEventThread(t)
  BY <1>7 DEF ClearEventThread
<1> HIDE DEF IInv
<1> QED
  BY <1>1, <1>2, <1>3, <1>4, <1>5, <1>6, <1>7
     DEF ThreadNext

\* IInv is inductive.
LEMMA NextIInv == IInv /\ [Next]_vars => IInv'
<1> SUFFICES ASSUME IInv, [Next]_vars PROVE IInv'
  OBVIOUS
<1>1. CASE DispatcherNext \/ PhysicalShutter
  BY <1>1, DispatcherKeepsIInv
<1>2. CASE \E t \in Threads : ThreadNext(t)
  BY <1>2, ThreadKeepsIInv
<1>3. CASE UNCHANGED vars
  BY <1>3
     DEF vars, IInv, TypeOK, LockInv, GenInv, StageInv, ClosedSessionIsQuiet,
         StopInv, Live, InSession, ThreadHolds
<1> QED
  BY <1>1, <1>2, <1>3 DEF Next

\* Every reachable state satisfies the inductive invariant of the backend's
\* threads: types, the monitor, generations, stages, the quiet teardown, and
\* what a stop may rely on.
THEOREM Invariance == Spec => []IInv
  BY InitIInv, NextIInv, PTL DEF Spec

\* Two event threads are never both current, for any number of starts and
\* stops and whichever joins time out: CanonPtpBackend.kt:335-337.
THEOREM OneReader == Spec => []OneActiveThread
<1>1. IInv => OneActiveThread
  BY DEF IInv, GenInv, OneActiveThread, Active, Live
<1> QED
  BY <1>1, Invariance, PTL

\* close() releases the interface and clears the maps outside ioLock
\* (CanonPtpBackend.kt:124-135), and no event thread is in a transaction or
\* handling events when it does.
THEOREM QuietTeardown == Spec => []ClosedSessionIsQuiet
<1>1. IInv => ClosedSessionIsQuiet
  BY DEF IInv
<1> QED
  BY <1>1, Invariance, PTL

\* A stop whose join did not time out leaves no event thread alive, in spite of
\* the unsynchronized field eventThread (CanonPtpBackend.kt:101-115, 304, 331).
THEOREM StopLeavesNoThread == Spec => []StoppedMeansStopped
<1>1. IInv => StoppedMeansStopped
  BY DEF IInv, StopInv, StoppedMeansStopped
<1> QED
  BY <1>1, Invariance, PTL

\* An event thread that is not current does not become current.
LEMMA RetiredStep ==
    ASSUME IInv, Next, NEW t \in Threads, Live(t), ~Active(t)
    PROVE  ~Active(t)'
<1>. tgen[t] \in Nat /\ eventGeneration \in Nat /\ tgen[t] <= eventGeneration
  BY DEF IInv, TypeOK, GenInv
<1> USE DEF dispVars, sessionVars, listenVars, stopVars, threadVars,
            cameraVars, outsideVars
<1>1. CASE BeginListening
  BY <1>1 DEF BeginListening, IInv, GenInv, Active
<1>2. CASE Connect
  BY <1>2 DEF Connect, IInv, StageInv, Active
<1>3. CASE SpawnEventThread
  BY <1>3 DEF SpawnEventThread, Active, Live, IInv, TypeOK
<1>4. CASE RetireGeneration
  BY <1>4 DEF RetireGeneration, Active, IInv, StageInv
<1>5. CASE \/ RecordEventThread \/ StopListening \/ JoinReturns
           \/ JoinTimesOut \/ CloseSteps \/ OpSteps \/ DispatcherLocks
           \/ PhysicalShutter
  BY <1>5
     DEF RecordEventThread, StopListening, JoinReturns, JoinTimesOut,
         CloseSteps, Close, ClearRunning, CloseSession, Teardown, OpSteps,
         OpBegin, OpEnd, CaptureBegin, TakePicture, CaptureEnds,
         DispatcherLocks, PhysicalShutter, Active
<1>6. CASE \E u \in Threads : ThreadNext(u)
  BY <1>6
     DEF ThreadNext, LoopHead, ThreadLocks, CheckUnderLock, PollCamera,
         HandleEvents, LoopExit, ClearEventThread, Active
<1> QED
  BY <1>1, <1>2, <1>3, <1>4, <1>5, <1>6
     DEF Next, DispatcherNext, StartSteps, StopSteps

\* A retired event thread is never made current again by a later start
\* (CanonPtpBackend.kt:97, 103).
THEOREM RetiredForGood == Spec => NeverRevived
<1>1. IInv /\ [Next]_vars
        => [\A t \in Threads : Live(t) /\ ~Active(t) => ~Active(t)']_vars
  BY RetiredStep
<1> QED
  BY <1>1, Invariance, PTL DEF Spec, NeverRevived

-----------------------------------------------------------------------------
(* One reader of events                                                    *)

\* A thread that has left the loop is not current.
ExitInv == \A t \in Threads : tpc[t] \in {"exit", "clear"} => ~Active(t)

\* A thread leaves the loop only when it is not current.
LEMMA ExitStep == IInv /\ ExitInv /\ [Next]_vars => ExitInv'
<1> SUFFICES ASSUME IInv, ExitInv, [Next]_vars PROVE ExitInv'
  OBVIOUS
<1>1. CASE Next
  <2> SUFFICES ASSUME NEW t \in Threads, tpc'[t] \in {"exit", "clear"}
               PROVE  ~Active(t)'
    BY DEF ExitInv
  <2>1. tpc[t] \in {"exit", "clear"} \/ (tpc[t] = "head" /\ ~Active(t))
    <3>1. CASE \E u \in Threads : ThreadNext(u)
      BY <3>1 DEF ThreadNext, LoopHead, ThreadLocks, CheckUnderLock, PollCamera, HandleEvents,
          LoopExit, ClearEventThread, Moves, IInv, TypeOK
    <3>2. CASE DispatcherNext \/ PhysicalShutter
      BY <3>2 DEF DispatcherNext, StartSteps, StopSteps, CloseSteps, OpSteps, Connect,
          BeginListening, SpawnEventThread, RecordEventThread, StopListening,
          RetireGeneration, JoinReturns, JoinTimesOut, Close, ClearRunning, CloseSession,
          Teardown, OpBegin, OpEnd, CaptureBegin, TakePicture, CaptureEnds,
          DispatcherLocks, PhysicalShutter, outsideVars, threadVars, IInv, TypeOK
    <3> QED
      BY <1>1, <3>1, <3>2 DEF Next
  <2>2. Live(t) /\ ~Active(t)
    BY <2>1 DEF ExitInv, Live
  <2> QED
    BY <1>1, <2>2, RetiredStep
<1>2. CASE UNCHANGED vars
  BY <1>2 DEF vars, ExitInv, Active
<1> QED
  BY <1>1, <1>2

\* At most one thread is current, at most one is in a round, and none when the
\* session is closed.
LEMMA RoundFacts ==
    ASSUME IInv
    PROVE  /\ \A t, u \in Current : t = u
           /\ \A t, u \in Polling \cup Handling : t = u
           /\ Polling \cap Handling = {}
           /\ Current \subseteq Started
           /\ Current # {} => claimed
           /\ ~claimed => Polling = {} /\ Handling = {}
           /\ ~eventListening => Current = {}
BY ActorsDistinct DEF IInv, TypeOK, LockInv, GenInv, StageInv, ClosedSessionIsQuiet,
    Current, Polling, Handling, Started, Live, Active, ThreadHolds, InSession

\* Only names the one thread of a set that has at most one.
LEMMA OnlyFacts ==
    ASSUME NEW S, S \subseteq Threads, \A t, u \in S : t = u
    PROVE  /\ Only(S) = Nobody <=> S = {}
           /\ \A t \in S : Only(S) = t
<1>1. S # {} => Only(S) \in S
  BY DEF Only
<1> QED
  BY <1>1, ActorsDistinct DEF Only

\* The threads that Reader knows.
ThreadFacts ==
    /\ CurrentThread = Nobody <=> Current = {}
    /\ \A t \in Current : CurrentThread = t
    /\ PollingThread = Nobody <=> Polling = {}
    /\ \A t \in Polling : PollingThread = t
    /\ HandlingThread = Nobody <=> Handling = {}
    /\ \A t \in Handling : HandlingThread = t

\* The threads that Reader knows are those of the three sets.
LEMMA KnownThreads == IInv => ThreadFacts
<1> SUFFICES ASSUME IInv PROVE ThreadFacts
  OBVIOUS
<1>1. Current \subseteq Threads /\ Polling \subseteq Threads /\ Handling \subseteq Threads
  BY DEF Current, Polling, Handling
<1> QED
  BY <1>1, RoundFacts, OnlyFacts DEF ThreadFacts, CurrentThread, PollingThread, HandlingThread

\* What a step of the backend does to them.
ReaderStep == [Reader!ReaderNext]_(Reader!readerVars)
SameRound == UNCHANGED <<Polling, Handling>>
Same == UNCHANGED <<Current, Started, claimed>> /\ SameRound

\* Nothing that Reader knows of changes.
LEMMA SameIsStutter == Same => ReaderStep
BY DEF Same, SameRound, CurrentThread, PollingThread, HandlingThread, ReaderStep,
    Reader!readerVars

\* A step of the dispatcher, or the camera's own shutter.
LEMMA DispatcherReads ==
    ASSUME IInv, ThreadFacts, ThreadFacts', DispatcherNext \/ PhysicalShutter
    PROVE  ReaderStep
<1> USE DEF sessionVars, listenVars, stopVars, threadVars, cameraVars, outsideVars, dispVars
<1>1. ASSUME UNCHANGED <<tpc, tgen, claimed>>, UNCHANGED <<running, eventListening, eventGeneration>>
      PROVE  Same
  BY <1>1 DEF Same, SameRound, Current, Started, Polling, Handling, Live, Active
<1>2. ASSUME UNCHANGED <<tpc, claimed>>, Current = {}, Current' = {}
      PROVE  Same
  BY <1>2 DEF Same, SameRound, Started, Polling, Handling
<1>3. CASE \/ RecordEventThread \/ JoinReturns \/ JoinTimesOut \/ CloseSession \/ OpSteps
           \/ DispatcherLocks \/ PhysicalShutter
  BY <1>1, <1>3, SameIsStutter DEF RecordEventThread, JoinReturns, JoinTimesOut,
      CloseSession, OpSteps, OpBegin, OpEnd, CaptureBegin, TakePicture, CaptureEnds,
      DispatcherLocks, PhysicalShutter
<1>4. CASE BeginListening
  <2>1. Current = {}
    BY <1>4, RoundFacts DEF BeginListening
  <2>2. Current' = {}
    BY <1>4 DEF BeginListening, IInv, TypeOK, GenInv, Current, Live, Active
  <2> QED
    BY <1>2, <1>4, <2>1, <2>2, SameIsStutter DEF BeginListening
<1>5. CASE RetireGeneration \/ ClearRunning
  <2>1. ~eventListening /\ ~eventListening'
    BY <1>5 DEF RetireGeneration, ClearRunning, IInv, StageInv
  <2>2. Current = {} /\ Current' = {}
    BY <2>1 DEF Current, Active
  <2> QED
    BY <1>2, <1>5, <2>2, SameIsStutter DEF RetireGeneration, ClearRunning
<1>6. CASE Connect
  <2>1. \A t \in Threads : tpc[t] = "new"
    BY <1>6 DEF Connect, IInv, StageInv
  <2>2. Started = {} /\ Current = {} /\ Current' = {} /\ UNCHANGED <<Started, Polling, Handling>>
    BY <1>6, <2>1 DEF Connect, Started, Current, Polling, Handling, Live
  <2>3. CASE claimed
    BY <1>2, <1>6, <2>2, <2>3, SameIsStutter DEF Connect, IInv, TypeOK
  <2>4. CASE ~claimed
    BY <1>6, <2>2, <2>4 DEF Connect, ReaderStep, Reader!ReaderNext, Reader!Opens,
        CurrentThread, PollingThread, HandlingThread
  <2> QED
    BY <2>3, <2>4
<1>7. CASE SpawnEventThread
  <2>1. PICK t \in Threads :
           /\ tpc[t] = "new" /\ tpc' = [tpc EXCEPT ![t] = "head"]
           /\ tgen' = [tgen EXCEPT ![t] = eventGeneration + 1]
    BY <1>7 DEF SpawnEventThread
  <2>2. /\ eventGeneration' = eventGeneration + 1 /\ pc = "start.spawn"
        /\ UNCHANGED <<running, eventListening, claimed>>
    BY <1>7 DEF SpawnEventThread
  <2>3. eventListening /\ running /\ claimed
    BY <2>2 DEF IInv, StageInv
  <2>4. \A u \in Threads : Live(u) => tgen[u] \in Nat /\ tgen[u] < eventGeneration
    BY <2>2 DEF IInv, TypeOK, GenInv
  <2>5. tpc \in [Threads -> ThreadPcs] /\ tgen \in [Threads -> Nat] /\ eventGeneration \in Nat
    BY DEF IInv, TypeOK
  <2>6. Current = {}
    BY <2>4, <2>5 DEF Current, Active
  <2>7. t \in Current' /\ t \notin Started /\ Started' = Started \cup {t} /\ SameRound
    BY <2>1, <2>2, <2>3, <2>5 DEF Current, Started, Live, Active, SameRound, Polling, Handling
  <2>8. CurrentThread = Nobody /\ CurrentThread' = t
    BY <2>6, <2>7 DEF ThreadFacts
  <2> QED
    BY <2>2, <2>3, <2>7, <2>8 DEF ReaderStep, Reader!ReaderNext, Reader!Starts, SameRound,
        PollingThread, HandlingThread
<1>8. CASE StopListening \/ Close
  <2>1. ~eventListening' /\ UNCHANGED <<tpc, claimed>>
    BY <1>8 DEF StopListening, Close
  <2>2. Current' = {} /\ UNCHANGED Started /\ SameRound
    BY <2>1 DEF Current, Active, Started, SameRound, Polling, Handling
  <2>3. CurrentThread' = Nobody
    BY <2>2 DEF ThreadFacts
  <2>4. CASE CurrentThread = Nobody
    BY <2>1, <2>2, <2>3, <2>4 DEF ReaderStep, Reader!readerVars, SameRound, PollingThread,
        HandlingThread
  <2>5. CASE CurrentThread # Nobody
    BY <2>1, <2>2, <2>3, <2>5 DEF ReaderStep, Reader!ReaderNext, Reader!Retires, SameRound,
        PollingThread, HandlingThread
  <2> QED
    BY <2>4, <2>5
<1>9. CASE Teardown
  <2>1. /\ claimed' = FALSE /\ UNCHANGED <<tpc, tgen, running, eventListening, eventGeneration>>
        /\ pc = "close.teardown"
    BY <1>9 DEF Teardown
  <2>2. UNCHANGED <<Current, Started>> /\ SameRound
    BY <2>1 DEF Current, Started, SameRound, Polling, Handling, Live, Active
  <2>3. Current = {} /\ Polling = {} /\ Handling = {}
    BY <2>1, RoundFacts DEF IInv, StageInv, ClosedSessionIsQuiet, Polling, Handling,
        InSession
  <2>4. CurrentThread = Nobody /\ PollingThread = Nobody /\ HandlingThread = Nobody
    BY <2>3 DEF ThreadFacts
  <2>5. UNCHANGED <<CurrentThread, PollingThread, HandlingThread>>
    BY <2>2 DEF SameRound, CurrentThread, PollingThread, HandlingThread
  <2>6. CASE claimed
    BY <2>1, <2>2, <2>4, <2>5, <2>6 DEF ReaderStep, Reader!ReaderNext, Reader!Closes,
        Reader!Between
  <2>7. CASE ~claimed
    BY <2>1, <2>2, <2>5, <2>7 DEF ReaderStep, Reader!readerVars, IInv, TypeOK
  <2> QED
    BY <2>6, <2>7
<1> QED
  BY <1>3, <1>4, <1>5, <1>6, <1>7, <1>8, <1>9
     DEF DispatcherNext, StartSteps, StopSteps, CloseSteps

\* A step of an event thread.
LEMMA ThreadReads ==
    ASSUME IInv, ThreadFacts, ThreadFacts', ExitInv, NEW t \in Threads, ThreadNext(t)
    PROVE  ReaderStep
<1> USE DEF sessionVars, listenVars, stopVars, threadVars, cameraVars, outsideVars, dispVars
<1>0. /\ tpc \in [Threads -> ThreadPcs] /\ tpc'[t] # "new" /\ tpc[t] \notin {"new", "dead"}
      /\ UNCHANGED <<running, eventListening, eventGeneration, tgen, claimed>>
      /\ \E to \in ThreadPcs : tpc' = [tpc EXCEPT ![t] = to]
  BY DEF ThreadNext, LoopHead, ThreadLocks, CheckUnderLock, PollCamera, HandleEvents,
      LoopExit, ClearEventThread, Moves, IInv, TypeOK, ThreadPcs, ThreadHolds, InSession
<1>1. Started' = Started
  BY <1>0 DEF Started
<1>2. ASSUME tpc'[t] # "dead" \/ ~Active(t)
      PROVE  Current' = Current
  <2>1. \A u \in Threads : Active(u)' <=> Active(u)
    BY <1>0 DEF Active
  <2>2. \A u \in Threads : (Live(u) /\ Active(u))' <=> Live(u) /\ Active(u)
    <3> SUFFICES ASSUME NEW u \in Threads, Active(u) PROVE Live(u)' <=> Live(u)
      BY <2>1
    <3>1. CASE u # t
      BY <1>0, <3>1 DEF Live
    <3>2. CASE u = t
      BY <1>0, <1>2, <3>2 DEF Live
    <3> QED
      BY <3>1, <3>2
  <2> QED
    BY <2>2 DEF Current
<1>3. ASSUME tpc[t] \notin {"io", "handle"}, tpc'[t] \notin {"io", "handle"}
      PROVE  SameRound
  BY <1>0, <1>3 DEF SameRound, Polling, Handling
<1>4. CASE LoopHead(t) \/ ThreadLocks(t)
  <2>1. tpc'[t] \notin {"io", "handle", "dead"} /\ tpc[t] \notin {"io", "handle"}
    BY <1>0, <1>4 DEF LoopHead, ThreadLocks, Moves
  <2> QED
    BY <1>0, <1>1, <1>2, <1>3, <2>1, SameIsStutter DEF Same
<1>5. CASE LoopExit(t) \/ ClearEventThread(t)
  <2>1. tpc'[t] \notin {"io", "handle"} /\ tpc[t] \in {"exit", "clear"}
    BY <1>0, <1>5 DEF LoopExit, ClearEventThread, Moves
  <2>2. ~Active(t)
    BY <2>1 DEF ExitInv
  <2> QED
    BY <1>0, <1>1, <1>2, <1>3, <2>1, <2>2, SameIsStutter DEF Same
<1>6. CASE CheckUnderLock(t)
  <2>1. CASE ~Active(t)
    <3>1. tpc'[t] = "head" /\ tpc[t] = "check"
      BY <1>0, <1>6, <2>1 DEF CheckUnderLock, Moves
    <3> QED
      BY <1>0, <1>1, <1>2, <1>3, <3>1, SameIsStutter DEF Same
  <2>2. CASE Active(t)
    <3>1. tpc'[t] = "io" /\ tpc[t] = "check"
      BY <1>0, <1>6, <2>2 DEF CheckUnderLock, Moves
    <3>2. t \in Current /\ t \in Polling' /\ claimed
      BY <2>2, <3>1 DEF Current, Polling, Live, Active, IInv, StageInv
    <3>3. Polling = {} /\ Handling = {} /\ Handling' = {}
      BY <1>0, <3>1, ActorsDistinct DEF IInv, LockInv, ThreadHolds, InSession, Polling, Handling
    <3>4. Current' = Current
      BY <1>2, <3>1
    <3>5. /\ CurrentThread = t /\ CurrentThread' = CurrentThread /\ PollingThread' = t
          /\ PollingThread = Nobody /\ HandlingThread = Nobody /\ HandlingThread' = Nobody
          /\ t # Nobody
      BY <3>2, <3>3, <3>4, ActorsDistinct DEF ThreadFacts
    <3> QED
      BY <1>0, <1>1, <3>2, <3>5 DEF ReaderStep, Reader!ReaderNext, Reader!Asks, Reader!Between
  <2> QED
    BY <2>1, <2>2
<1>7. CASE PollCamera(t)
  <2>1. t \in Polling /\ tpc'[t] # "dead"
    BY <1>0, <1>7 DEF PollCamera, Moves, Polling
  <2>2. Handling = {} /\ \A u \in Polling : u = t
    BY <2>1, RoundFacts
  <2>3. Current' = Current
    BY <1>2, <2>1
  <2>4. /\ PollingThread = t /\ HandlingThread = Nobody /\ CurrentThread' = CurrentThread
        /\ t # Nobody
    BY <2>1, <2>2, <2>3, ActorsDistinct DEF ThreadFacts, CurrentThread
  <2>5. Polling' = {}
    BY <1>0, <1>7, <2>2 DEF PollCamera, Moves, Polling
  <2>6. PollingThread' = Nobody
    BY <2>5 DEF ThreadFacts
  <2>7. CASE tpc'[t] = "handle"
    <3>1. Active(t) /\ t \in Current /\ t \in Handling'
      BY <1>0, <1>7, <2>7 DEF PollCamera, Moves, Current, Live, Handling
    <3>2. HandlingThread' = t /\ CurrentThread = t
      BY <3>1 DEF ThreadFacts
    <3> QED
      BY <1>0, <1>1, <2>4, <2>6, <3>2 DEF ReaderStep, Reader!ReaderNext, Reader!Hears
  <2>8. CASE tpc'[t] # "handle"
    <3>1. Handling' = {}
      BY <1>0, <2>2, <2>8 DEF Handling
    <3>2. HandlingThread' = Nobody
      BY <3>1 DEF ThreadFacts
    <3> QED
      BY <1>0, <1>1, <2>4, <2>6, <3>2 DEF ReaderStep, Reader!ReaderNext, Reader!EndsRound,
          Reader!Between
  <2> QED
    BY <2>7, <2>8
<1>8. CASE HandleEvents(t)
  <2>1. t \in Handling /\ tpc'[t] = "head"
    BY <1>0, <1>8 DEF HandleEvents, Moves, Handling
  <2>2. Polling = {} /\ \A u \in Handling : u = t
    BY <2>1, RoundFacts
  <2>3. Current' = Current /\ Polling' = {} /\ Handling' = {}
    BY <1>0, <1>2, <2>1, <2>2 DEF Polling, Handling
  <2>4. /\ HandlingThread = t /\ CurrentThread' = CurrentThread /\ t # Nobody
        /\ PollingThread' = Nobody /\ HandlingThread' = Nobody
    BY <2>1, <2>3, ActorsDistinct DEF ThreadFacts, CurrentThread
  <2> QED
    BY <1>0, <1>1, <2>4 DEF ReaderStep, Reader!ReaderNext, Reader!EndsRound, Reader!Between
<1> QED
  BY <1>4, <1>5, <1>6, <1>7, <1>8 DEF ThreadNext

\* However the dispatcher starts, stops, joins and closes, the backend's threads
\* behave as one reader of the camera's events: a round begins only in a session,
\* by the current thread and while no other round is under way, what it brought
\* is handled only if the thread is still current, a retired thread never is
\* again, and the session ends between rounds (CanonPtpBackend.kt:93-137, 300-341).
THEOREM OneReaderAtATime == Spec => ImplementsReader
<1>1. Init => ExitInv /\ Reader!ReaderInit
  <2> SUFFICES ASSUME Init PROVE ExitInv /\ Reader!ReaderInit
    OBVIOUS
  <2>1. Current = {} /\ Polling = {} /\ Handling = {} /\ Started = {} /\ claimed = FALSE
    BY DEF Init, Current, Polling, Handling, Started, Live
  <2>2. CurrentThread = Nobody /\ PollingThread = Nobody /\ HandlingThread = Nobody
    BY <2>1 DEF CurrentThread, PollingThread, HandlingThread, Only
  <2> QED
    BY <2>1, <2>2 DEF Init, ExitInv, Reader!ReaderInit, Reader!Between
<1>2. IInv /\ ThreadFacts /\ ThreadFacts' /\ ExitInv /\ [Next]_vars => ReaderStep
  <2> SUFFICES ASSUME IInv, ThreadFacts, ThreadFacts', ExitInv, [Next]_vars
               PROVE  ReaderStep
    OBVIOUS
  <2>1. CASE UNCHANGED vars
    BY <2>1, SameIsStutter DEF vars, Same, SameRound, Current, Started, Polling, Handling,
        Live, Active
  <2> QED
    BY <2>1, DispatcherReads, ThreadReads DEF Next
<1> QED
  BY <1>1, <1>2, ExitStep, KnownThreads, Invariance, PTL DEF Spec, ImplementsReader, Reader!ReaderSpec,
      ReaderStep

-----------------------------------------------------------------------------
(* The capture flow                                                        *)

\* A step of the flow, or beside it, is a request of the backend that was
\* possible without the flow, or none.
LEMMA FlowStepsAreRequests ==
    [CaptureNext]_captureVars => [Next]_vars
<1> SUFFICES ASSUME [CaptureNext]_captureVars PROVE [Next]_vars
  OBVIOUS
<1>1. CASE FlowBegins \/ FlowRestarts \/ FlowClears
  BY <1>1 DEF FlowBegins, FlowRestarts, FlowClears
<1>2. CASE FlowStops
  BY <1>2 DEF FlowStops, Next, DispatcherNext, StopSteps
<1>3. CASE FlowCaptures
  BY <1>3 DEF FlowCaptures, Next, DispatcherNext, OpSteps
<1>4. CASE FlowLists
  BY <1>4 DEF FlowLists, Next, DispatcherNext, OpSteps
<1>5. CASE FlowResumes
  BY <1>5 DEF FlowResumes, Next, DispatcherNext, StartSteps
<1>6. CASE Requests
  BY <1>6 DEF Requests, Next, DispatcherNext, StartSteps, StopSteps,
      CloseSteps, OpSteps
<1>7. CASE StopsNothing \/ StatusFalls
  BY <1>7 DEF StopsNothing, StatusFalls
<1>8. CASE (InOperation \/ DispatcherLocks) /\ HearsAnswer
  BY <1>8 DEF InOperation, Next, DispatcherNext, StartSteps, StopSteps,
      CloseSteps, OpSteps
<1>9. CASE PhysicalShutter \/ \E t \in Threads : ThreadNext(t)
  BY <1>9 DEF Next
<1>10. CASE UNCHANGED captureVars
  BY <1>10 DEF captureVars
<1> QED
  BY <1>1, <1>2, <1>3, <1>4, <1>5, <1>6, <1>7, <1>8, <1>9, <1>10
  DEF CaptureNext, FlowSteps

\* captureAndDownload (usb_camera_controller.dart:434) only asks the backend for
\* what any application may ask for: every invariant and action property of the
\* event threads holds while it is under way.
THEOREM FlowImplementsEventLoop == CaptureSpec => Spec
<1>1. CaptureInit => Init
  BY DEF CaptureInit
<1> QED
  BY <1>1, FlowStepsAreRequests, PTL DEF CaptureSpec, Spec
=============================================================================
