--------------------------- MODULE CanonEventLoop ---------------------------
(***************************************************************************)
(* The threads of CanonPtpBackend.kt.  One backend object serves one USB   *)
(* connection.  Its public operations all run on the single thread of      *)
(* CameraOperationDispatcher (here Dispatcher); each start of listening    *)
(* adds an event thread that polls the camera every 700 ms.  Everything    *)
(* that talks to the camera holds the monitor ioLock.                      *)
(*                                                                         *)
(* The monitor's holders, the three atomics running, eventListening and    *)
(* eventGeneration, the plain field eventThread and the locals of the      *)
(* dispatcher are kept as they are; what a transaction carries is left to  *)
(* CanonIngest and PtpTransaction.  A thread object is never started       *)
(* twice, so Threads bounds the number of starts and with it               *)
(* eventGeneration.                                                        *)
(***************************************************************************)
EXTENDS Naturals

CONSTANTS Threads,      \* the event threads that may be started
          Dispatcher,   \* the thread of CameraOperationDispatcher
          Nobody        \* null, and the holder of a free monitor

ASSUME ActorsDistinct ==
    Dispatcher \notin Threads /\ Nobody \notin Threads /\ Dispatcher # Nobody

VARIABLES
    running,          \* AtomicBoolean running
    eventListening,   \* AtomicBoolean eventListening
    eventGeneration,  \* AtomicLong eventGeneration
    eventThread,      \* field eventThread, written by both kinds of thread
    ioLock,           \* who holds synchronized(ioLock)
    claimed,          \* claimInterface done, releaseInterface not yet
    pc,               \* where the dispatcher is
    closing,          \* the stop in progress was called by close()
    localThread,      \* the dispatcher's local: the new Thread, or stop's val thread
    overdue,          \* history: threads whose join timed out
    tpc,              \* where each event thread is
    tgen,             \* the generation each event thread captured
    latch,            \* the CountDownLatch of capture(): idle, armed, done
    unseen            \* the camera holds a photo that was not published yet

sessionVars == <<running, claimed>>
listenVars == <<eventListening, eventGeneration>>
stopVars == <<closing, localThread, overdue>>
threadVars == <<tpc, tgen>>
cameraVars == <<latch, unseen>>
outsideVars == <<ioLock, threadVars, cameraVars>>
dispVars == <<running, eventListening, eventGeneration, claimed, pc, closing,
              localThread, overdue>>
vars == <<running, eventListening, eventGeneration, eventThread, ioLock,
          claimed, pc, closing, localThread, overdue, tpc, tgen, latch, unseen>>

DispatcherHolds == {"op", "capture.shoot", "close.session"}
DispatcherPcs == DispatcherHolds \cup
    {"fresh", "idle", "start.spawn", "start.assign", "stop.gen", "stop.join",
     "close.running", "close.lock", "close.teardown", "op.lock",
     "capture.lock", "capture.wait"}
InSession == {"io", "handle"}             \* talking to the camera
ThreadHolds == {"check"} \cup InSession
ThreadPcs == ThreadHolds \cup {"new", "head", "lock", "exit", "clear", "dead"}

Live(t) == tpc[t] \notin {"new", "dead"}  \* Thread.isAlive

\* A loop that asks only whether listening is on.
ActiveWithoutGeneration(t) == running /\ eventListening

\* isActiveEventGeneration(tgen[t]).  The three reads are one step: running
\* and a generation that moved on never come back, so the conjunction has the
\* value it has when eventListening is read.
Active(t) == running /\ eventListening /\ eventGeneration = tgen[t]

Init ==
    /\ running = FALSE
    /\ eventListening = FALSE
    /\ eventGeneration = 0
    /\ eventThread = Nobody
    /\ ioLock = Nobody
    /\ claimed = FALSE
    /\ pc = "fresh"
    /\ closing = FALSE
    /\ localThread = Nobody
    /\ overdue = {}
    /\ tpc = [t \in Threads |-> "new"]
    /\ tgen = [t \in Threads |-> 0]
    /\ latch = "idle"
    /\ unseen = FALSE

-----------------------------------------------------------------------------
(* The dispatcher: connect, start and stop                                 *)

\* connect(): the session opens, or a transaction of the handshake fails and
\* connect closes the backend again.  No event thread exists yet.
Connect ==
    /\ pc = "fresh"
    /\ claimed' = TRUE
    /\ \/ running' = TRUE /\ pc' = "idle" /\ closing' = closing
       \/ running' = running /\ pc' = "close.running" /\ closing' = TRUE
    /\ UNCHANGED <<listenVars, eventThread, outsideVars, localThread, overdue>>

\* startMediaEventListening(): the check of running and the compareAndSet.
BeginListening ==
    /\ pc = "idle" /\ running /\ ~eventListening
    /\ \E t \in Threads : tpc[t] = "new"
    /\ eventListening' = TRUE
    /\ pc' = "start.spawn"
    /\ UNCHANGED <<sessionVars, eventGeneration, eventThread, outsideVars,
                   stopVars>>

\* startEventLoop up to it.start(): the thread runs before the field has it.
SpawnEventThread ==
    /\ pc = "start.spawn"
    /\ \E t \in Threads :
          /\ tpc[t] = "new"
          /\ tpc' = [tpc EXCEPT ![t] = "head"]
          /\ tgen' = [tgen EXCEPT ![t] = eventGeneration + 1]
          /\ localThread' = t
    /\ eventGeneration' = eventGeneration + 1
    /\ pc' = "start.assign"
    /\ UNCHANGED <<sessionVars, eventListening, eventThread, ioLock, closing,
                   overdue, cameraVars>>

\* The assignment eventThread = Thread(...).also { it.start() }.
RecordEventThread ==
    /\ pc = "start.assign"
    /\ eventThread' = localThread
    /\ localThread' = Nobody
    /\ pc' = "idle"
    /\ UNCHANGED <<sessionVars, listenVars, outsideVars, closing, overdue>>

\* stopMediaEventListening(): getAndSet(false); a no-op when not listening.
StopListening ==
    /\ pc = "idle" /\ eventListening
    /\ eventListening' = FALSE
    /\ pc' = "stop.gen"
    /\ UNCHANGED <<sessionVars, eventGeneration, eventThread, outsideVars,
                   stopVars>>

\* A stop that leaves the generation to the next start.
RetireWithoutIncrement ==
    /\ pc = "stop.gen"
    /\ localThread' = eventThread
    /\ pc' = "stop.join"
    /\ UNCHANGED <<sessionVars, listenVars, eventThread, outsideVars, closing,
                   overdue>>

\* incrementAndGet, then val thread = eventThread.
RetireGeneration ==
    /\ pc = "stop.gen"
    /\ eventGeneration' = eventGeneration + 1
    /\ localThread' = eventThread
    /\ pc' = "stop.join"
    /\ UNCHANGED <<sessionVars, eventListening, eventThread, outsideVars, closing,
                   overdue>>

AfterStop == IF closing THEN "close.running" ELSE "idle"

\* A stop that clears the field without joining.
ReturnWithoutJoin ==
    /\ pc = "stop.join"
    /\ eventThread' = Nobody
    /\ localThread' = Nobody
    /\ pc' = AfterStop
    /\ UNCHANGED <<sessionVars, listenVars, outsideVars, closing, overdue>>

\* thread is null or join saw it end: the field is cleared.
JoinReturns ==
    /\ pc = "stop.join"
    /\ localThread = Nobody \/ (localThread \in Threads /\ ~Live(localThread))
    /\ eventThread' = Nobody
    /\ localThread' = Nobody
    /\ pc' = AfterStop
    /\ UNCHANGED <<sessionVars, listenVars, outsideVars, closing, overdue>>

\* join(EVENT_STOP_TIMEOUT_MS) gave up: the field keeps the thread.
JoinTimesOut ==
    /\ pc = "stop.join"
    /\ localThread \in Threads /\ Live(localThread)
    /\ overdue' = overdue \cup {localThread}
    /\ localThread' = Nobody
    /\ pc' = AfterStop
    /\ UNCHANGED <<sessionVars, listenVars, eventThread, outsideVars, closing>>

-----------------------------------------------------------------------------
(* The dispatcher: close                                                   *)

\* close() begins with stopMediaEventListening(); it may be called again.
Close ==
    /\ pc = "idle"
    /\ closing' = TRUE
    /\ eventListening' = FALSE
    /\ pc' = IF eventListening THEN "stop.gen" ELSE "close.running"
    /\ UNCHANGED <<sessionVars, eventGeneration, eventThread, outsideVars,
                   localThread, overdue>>

ClearRunning ==
    /\ pc = "close.running"
    /\ running' = FALSE
    /\ pc' = "close.lock"
    /\ UNCHANGED <<listenVars, eventThread, outsideVars, claimed, stopVars>>

\* CLOSE_SESSION, answered or not (runCatching), and bulkReader.reset().
CloseSession ==
    /\ pc = "close.session"
    /\ ioLock' = Nobody
    /\ pc' = "close.teardown"
    /\ UNCHANGED <<sessionVars, listenVars, eventThread, stopVars, threadVars,
                   cameraVars>>

\* releaseInterface and the clearing of the endpoints, the registry, the
\* catalog and the caches: outside the monitor.
Teardown ==
    /\ pc = "close.teardown"
    /\ claimed' = FALSE
    /\ closing' = FALSE
    /\ pc' = "idle"
    /\ UNCHANGED <<running, listenVars, eventThread, outsideVars, localThread,
                   overdue>>

-----------------------------------------------------------------------------
(* The dispatcher: foreground operations and capture                       *)

\* listPhotos, listPhotosPage, listNewPhotos, download: one synchronized block.
OpBegin ==
    /\ pc = "idle" /\ running
    /\ pc' = "op.lock"
    /\ UNCHANGED <<sessionVars, listenVars, eventThread, outsideVars, stopVars>>

\* The block ends; its maintenance may have published what was unseen.
OpEnd ==
    /\ pc = "op"
    /\ ioLock' = Nobody
    /\ unseen' \in {unseen, FALSE}
    /\ pc' = "idle"
    /\ UNCHANGED <<sessionVars, listenVars, eventThread, stopVars, threadVars,
                   latch>>

\* capture(): the listener and its latch exist before the shutter is pressed.
CaptureBegin ==
    /\ pc = "idle" /\ running
    /\ latch' = "armed"
    /\ pc' = "capture.lock"
    /\ UNCHANGED <<sessionVars, listenVars, eventThread, ioLock, stopVars,
                   threadVars, unseen>>

\* EOS_TAKE_PICTURE: the camera takes the picture, or the transaction throws.
TakePicture ==
    /\ pc = "capture.shoot"
    /\ ioLock' = Nobody
    /\ \/ unseen' = TRUE /\ pc' = "capture.wait" /\ latch' = latch
       \/ unseen' = unseen /\ pc' = "idle" /\ latch' = "idle"
    /\ UNCHANGED <<sessionVars, listenVars, eventThread, stopVars, threadVars>>

\* latch.await returns true, or false after 12 s and check(...) throws.
CaptureEnds ==
    /\ pc = "capture.wait"
    /\ latch \in {"armed", "done"}
    /\ latch' = "idle"
    /\ pc' = "idle"
    /\ UNCHANGED <<sessionVars, listenVars, eventThread, ioLock, stopVars,
                   threadVars, unseen>>

\* A dispatcher that enters the monitor only while nothing polls.
LocksOnlyWhenSilent ==
    /\ ioLock = Nobody /\ ~eventListening
    /\ ioLock' = Dispatcher
    /\ \/ pc = "op.lock" /\ pc' = "op"
       \/ pc = "capture.lock" /\ pc' = "capture.shoot"
       \/ pc = "close.lock" /\ pc' = "close.session"
    /\ UNCHANGED <<sessionVars, listenVars, eventThread, stopVars, threadVars,
                   cameraVars>>

\* synchronized(ioLock): the dispatcher gets the monitor.
DispatcherLocks ==
    /\ ioLock = Nobody
    /\ ioLock' = Dispatcher
    /\ \/ pc = "op.lock" /\ pc' = "op"
       \/ pc = "capture.lock" /\ pc' = "capture.shoot"
       \/ pc = "close.lock" /\ pc' = "close.session"
    /\ UNCHANGED <<sessionVars, listenVars, eventThread, stopVars, threadVars,
                   cameraVars>>

-----------------------------------------------------------------------------
(* An event thread: the loop of startEventLoop                             *)

Moves(t, from, to) == tpc[t] = from /\ tpc' = [tpc EXCEPT ![t] = to]

\* while (true).
LoopForever(t) ==
    /\ Moves(t, "head", "lock")
    /\ UNCHANGED <<dispVars, eventThread, ioLock, tgen, cameraVars>>

\* while (isActiveEventGeneration(generation)), after the sleep.
LoopHead(t) ==
    /\ Moves(t, "head", IF Active(t) THEN "lock" ELSE "exit")
    /\ UNCHANGED <<dispVars, eventThread, ioLock, tgen, cameraVars>>

ThreadLocks(t) ==
    /\ ioLock = Nobody
    /\ Moves(t, "lock", "check")
    /\ ioLock' = t
    /\ UNCHANGED <<dispVars, eventThread, tgen, cameraVars>>

\* A round that relies on the test at the loop's head.
NoCheckUnderLock(t) ==
    /\ Moves(t, "check", "io")
    /\ UNCHANGED <<dispVars, eventThread, ioLock, tgen, cameraVars>>

\* The first test under the monitor.
CheckUnderLock(t) ==
    /\ Moves(t, "check", IF Active(t) THEN "io" ELSE "head")
    /\ ioLock' = IF Active(t) THEN ioLock ELSE Nobody
    /\ UNCHANGED <<dispVars, eventThread, tgen, cameraVars>>

\* EOS_EVENT_CHECK and the second test; a transaction that throws, or a
\* generation that is over, gives the monitor back.
PollCamera(t) ==
    /\ \/ Active(t) /\ Moves(t, "io", "handle") /\ ioLock' = ioLock
       \/ Moves(t, "io", "head") /\ ioLock' = Nobody
    /\ UNCHANGED <<dispVars, eventThread, tgen, cameraVars>>

\* handleEosEvents, reconcileHandleCatalog, resolvePendingPhotos and
\* keepDeviceOnIfDue; publishPhoto completes the capture listener.
HandleEvents(t) ==
    /\ Moves(t, "handle", "head")
    /\ ioLock' = Nobody
    /\ \/ UNCHANGED <<latch, unseen>>
       \/ /\ unseen
          /\ unseen' = FALSE
          /\ latch' = IF latch = "armed" THEN "done" ELSE latch
    /\ UNCHANGED <<dispVars, eventThread, tgen>>

\* Thread.currentThread() == eventThread is read here, acted on in the next step.
LoopExit(t) ==
    /\ Moves(t, "exit", IF eventThread = t THEN "clear" ELSE "dead")
    /\ UNCHANGED <<dispVars, eventThread, ioLock, tgen, cameraVars>>

ClearEventThread(t) ==
    /\ Moves(t, "clear", "dead")
    /\ eventThread' = Nobody
    /\ UNCHANGED <<dispVars, ioLock, tgen, cameraVars>>

\* The photographer presses the shutter of the camera itself.
PhysicalShutter ==
    /\ ~unseen
    /\ unseen' = TRUE
    /\ UNCHANGED <<dispVars, eventThread, ioLock, threadVars, latch>>

-----------------------------------------------------------------------------
StartSteps == BeginListening \/ SpawnEventThread \/ RecordEventThread
StopSteps == StopListening \/ RetireGeneration \/ JoinReturns \/ JoinTimesOut
CloseSteps == Close \/ ClearRunning \/ CloseSession \/ Teardown
OpSteps == OpBegin \/ OpEnd \/ CaptureBegin \/ TakePicture \/ CaptureEnds
DispatcherNext == Connect \/ StartSteps \/ StopSteps \/ CloseSteps \/ OpSteps
                  \/ DispatcherLocks

ThreadNext(t) ==
    \/ LoopHead(t) \/ ThreadLocks(t) \/ CheckUnderLock(t) \/ PollCamera(t)
    \/ HandleEvents(t) \/ LoopExit(t) \/ ClearEventThread(t)

Next == DispatcherNext \/ PhysicalShutter \/ \E t \in Threads : ThreadNext(t)

Spec == Init /\ [][Next]_vars

\* A thread that may run does run, and every USB call has a timeout: the steps
\* inside an operation are weakly fair; that an operation is requested is not.
\* The monitor is not fair, but a loop sleeps 700 ms outside it between two
\* rounds and the dispatcher leaves it between operations: a waiter is not
\* passed over forever.
InOperation ==
    \/ SpawnEventThread \/ RecordEventThread \/ RetireGeneration
    \/ JoinReturns \/ JoinTimesOut \/ ClearRunning \/ CloseSession \/ Teardown
    \/ OpEnd \/ TakePicture \/ CaptureEnds
Fairness ==
    /\ WF_vars(InOperation)
    /\ SF_vars(DispatcherLocks)
    /\ \A t \in Threads : WF_vars(ThreadNext(t)) /\ SF_vars(ThreadLocks(t))
FairSpec == Spec /\ Fairness

-----------------------------------------------------------------------------
(* What must hold                                                          *)

TypeOK ==
    /\ running \in BOOLEAN /\ eventListening \in BOOLEAN
    /\ eventGeneration \in Nat
    /\ eventThread \in Threads \cup {Nobody}
    /\ ioLock \in Threads \cup {Dispatcher, Nobody}
    /\ claimed \in BOOLEAN
    /\ pc \in DispatcherPcs
    /\ closing \in BOOLEAN
    /\ localThread \in Threads \cup {Nobody}
    /\ overdue \in SUBSET Threads
    /\ tpc \in [Threads -> ThreadPcs]
    /\ tgen \in [Threads -> Nat]
    /\ latch \in {"idle", "armed", "done"}
    /\ unseen \in BOOLEAN

\* The monitor's holder is where the code holds it.
LockInv ==
    /\ \A t \in Threads : tpc[t] \in ThreadHolds <=> ioLock = t
    /\ pc \in DispatcherHolds <=> ioLock = Dispatcher

\* A generation belongs to one live thread at most, and to none once the
\* listening it stood for has been retired.
GenInv ==
    /\ \A t \in Threads : Live(t) => tgen[t] <= eventGeneration
    /\ \A t, u \in Threads :
          Live(t) /\ Live(u) /\ tgen[t] = tgen[u] => t = u
    /\ pc = "start.spawn" \/ (~eventListening /\ pc # "stop.gen")
          => \A t \in Threads : Live(t) => tgen[t] < eventGeneration

\* What each stage of the dispatcher knows of the flags.
StageInv ==
    /\ eventListening => running
    /\ running => claimed
    /\ pc \in {"start.spawn", "start.assign"} => eventListening
    /\ pc \in {"fresh", "stop.gen", "stop.join", "close.running", "close.lock",
               "close.session", "close.teardown"} => ~eventListening
    /\ pc \in {"fresh", "close.lock", "close.session", "close.teardown"} => ~running
    /\ pc = "fresh" => \A t \in Threads : tpc[t] = "new"

\* Once close() is inside its synchronized block, and for as long as the USB
\* interface is not claimed, no event thread is in the middle of a PTP
\* transaction or of handling its answer: the teardown that follows outside
\* the monitor (releaseInterface, the endpoints set to null, the maps cleared)
\* disturbs nobody.
ClosedSessionIsQuiet ==
    pc \in {"close.session", "close.teardown"} \/ ~claimed
        => \A t \in Threads : tpc[t] \notin InSession

\* As long as no join has timed out there is one live thread at most, it is
\* the one the dispatcher would join, and while listening is on it stays in
\* its loop.
StopInv ==
    overdue = {} => \A t \in Threads : Live(t) =>
        /\ eventListening \/ pc \in {"stop.gen", "stop.join"}
        /\ pc # "start.spawn"
        /\ t = IF pc \in {"start.assign", "stop.join"} THEN localThread
                                                      ELSE eventThread
        /\ eventListening => /\ tgen[t] = eventGeneration
                             /\ tpc[t] \notin {"exit", "clear"}

IInv == TypeOK /\ LockInv /\ GenInv /\ StageInv /\ ClosedSessionIsQuiet /\ StopInv

\* Although stop may give up waiting for an event thread and a later start adds
\* another one, no two live threads ever both pass isActiveEventGeneration:
\* the events of the camera have one reader.
OneActiveThread ==
    \A t, u \in Threads :
        Live(t) /\ Live(u) /\ Active(t) /\ Active(u) => t = u

\* Unless a join has timed out, a stop that has returned leaves no event thread
\* behind, although start publishes the thread in eventThread only after it
\* runs and the thread clears that field itself when it ends.
StoppedMeansStopped ==
    ~eventListening /\ overdue = {} /\ pc \notin {"stop.gen", "stop.join"}
        => \A t \in Threads : ~Live(t)

\* An event thread that is no longer the current one never becomes current
\* again, whatever is started after it: without the generation, a thread whose
\* join timed out would be revived by the next start.
NeverRevived ==
    [][\A t \in Threads : Live(t) /\ ~Active(t) => ~Active(t)']_vars

\* An event thread that lost its generation ends, wherever in its round it was
\* and whatever holds the monitor.
StaleThreadsEnd ==
    \A t \in Threads : (Live(t) /\ ~Active(t)) ~> ~Live(t)

\* Every operation the dispatcher has begun ends, so the next request of its
\* queue runs: a stop does not wait forever for the thread it joins, and a
\* close, list or capture gets the monitor in spite of the polling loop.
OperationsEnd == (pc # "fresh") ~> (pc = "idle")

-----------------------------------------------------------------------------
(* One reader of events                                                    *)

Current == {t \in Threads : Live(t) /\ Active(t)}
Polling == {t \in Threads : tpc[t] = "io"}
Handling == {t \in Threads : tpc[t] = "handle"}
Started == {t \in Threads : tpc[t] # "new"}
Only(S) == IF S = {} THEN Nobody ELSE CHOOSE t \in S : TRUE
CurrentThread == Only(Current)
PollingThread == Only(Polling)
HandlingThread == Only(Handling)

Reader == INSTANCE EventReader WITH
    reader <- CurrentThread, used <- Started, polling <- PollingThread,
    handling <- HandlingThread, session <- claimed

\* Whatever is started, stopped and closed, and whichever joins time out, the
\* backend behaves as one reader of the camera's events.
ImplementsReader == Reader!ReaderSpec
=============================================================================
