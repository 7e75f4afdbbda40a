---------------------------- MODULE GenericMedia ----------------------------
(***************************************************************************)
(* Media discovery on a libgphoto2 camera: the catalog of UsbCameraSdk-    *)
(* Plugin.kt, the event listening that compares the camera with it, and    *)
(* the requests that replace or clear it.  The dispatcher thread runs one  *)
(* task at a time; the main thread clears mediaEventListening at once and  *)
(* queues the rest.  A poll is a task that schedules the next one.  Files  *)
(* are of supported types; time is the choice whether a timer has fired    *)
(* and whether a listing is due.                                           *)
(***************************************************************************)
EXTENDS Naturals, Sequences, FiniteSets

CONSTANTS Files, Folders, Root,
          FolderOf,       \* the folder of each file
          Keys, KeyOf,    \* genericMediaKey of each file
          History,        \* files on the camera from the beginning
          Requests,       \* kinds of requests the application makes
          Pages,          \* arguments of scanMediaPage: folder and refresh
          MaxQueue,       \* bound on the tasks that wait
          MaxFaults       \* bound on incomplete listings

Ops == {"start", "stop", "release", "disconnect", "connect", "page"}

ASSUME GenericAssumption ==
    /\ FolderOf \in [Files -> Folders] /\ KeyOf \in [Files -> Keys]
    /\ Root \in Folders /\ History \subseteq Files
    /\ Requests \subseteq Ops
    /\ Pages \subseteq [folder : Folders, refresh : BOOLEAN]
    /\ MaxQueue \in Nat /\ MaxFaults \in Nat
    /\ Keys \cap {"none", "timeout", "gone", "disconnected"} = {}

VARIABLES
    connected,       \* activeDevice and activeConnection are set
    open,            \* the bridge has an open camera
    listening,       \* mediaEventListening
    pollScheduled,   \* mediaEventPollScheduled
    timer,           \* polls whose delay has not passed
    queue,           \* tasks submitted to the dispatcher
    task, pc,        \* the task that runs, and where it is
    event,           \* what nativeWaitForEvent returned to the poll
    catalog,         \* genericMediaCatalog; genericMediaItems has these keys
    initialized,     \* genericMediaCatalogInitialized
    catalogFolder,   \* genericCatalogFolder
    onCamera,        \* files the camera holds
    cameraEvents,    \* fileAdded events libgphoto2 has not returned yet
    faults,          \* incomplete listings so far
    wish,            \* history: the last of start and stop requests is a start
    fresh,           \* history: keys of files created since the baseline, not
                     \* announced and not yet taken into the catalog
    holes,           \* history: keys an incomplete listing left out of it
    announced        \* history: how often each key was announced

mediaVars == <<catalog, initialized, catalogFolder, holes>>
cameraVars == <<onCamera, cameraEvents>>
pollVars == <<pollScheduled, timer>>
vars == <<connected, open, listening, pollVars, queue, task, pc, event, mediaVars,
          cameraVars, wish, faults, fresh, announced>>

NoTask == [op |-> "none"]
Tasks == [op : (Ops \ {"page"}) \cup {"poll"}]
         \cup {[op |-> "page", folder |-> p.folder, refresh |-> p.refresh] : p \in Pages}
KeysOf(files) == {KeyOf[f] : f \in files}

Init ==
    /\ connected = FALSE /\ open = FALSE /\ listening = FALSE
    /\ pollScheduled = FALSE /\ timer = 0
    /\ queue = <<>> /\ task = NoTask /\ pc = "idle" /\ event = "none"
    /\ catalog = {} /\ initialized = FALSE /\ catalogFolder = Root /\ holes = {}
    /\ onCamera = History /\ cameraEvents = {}
    /\ wish = FALSE /\ faults = 0
    /\ fresh = {} /\ announced = [k \in Keys |-> 0]

-----------------------------------------------------------------------------
(* The camera and the main thread                                          *)

\* The camera stores a file; whether it sends an event is its own affair.
FileCreated ==
    \E f \in Files \ onCamera :
        /\ open
        /\ onCamera' = onCamera \cup {f}
        /\ cameraEvents' \in {cameraEvents, cameraEvents \cup {KeyOf[f]}}
        /\ fresh' = fresh \cup ({KeyOf[f]} \ KeysOf(onCamera))
        /\ UNCHANGED <<connected, open, listening, pollVars, queue, task, pc, event,
                       mediaVars, wish, faults, announced>>

\* onMethodCall: requests that end listening clear the flag before they queue.
Call(request) ==
    /\ Len(queue) < MaxQueue
    /\ queue' = Append(queue, request)
    /\ listening' = (listening /\ request.op \notin {"stop", "release", "disconnect"})
    /\ wish' = CASE request.op = "start" -> TRUE
                 [] request.op \in {"stop", "release", "disconnect"} -> FALSE
                 [] OTHER -> wish
    /\ UNCHANGED <<connected, open, pollVars, task, pc, event, mediaVars, cameraVars,
                   faults, fresh, announced>>

CallSome ==
    \/ \E op \in Requests \ {"page"} : Call([op |-> op])
    \/ "page" \in Requests /\ \E p \in Pages :
           Call([op |-> "page", folder |-> p.folder, refresh |-> p.refresh])

-----------------------------------------------------------------------------
(* The dispatcher                                                          *)

\* The 25 ms of a scheduled poll have passed.
TimerFires ==
    /\ timer > 0
    /\ timer' = timer - 1
    /\ queue' = Append(queue, [op |-> "poll"])
    /\ UNCHANGED <<connected, open, listening, pollScheduled, task, pc, event,
                   mediaVars, cameraVars, wish, faults, fresh, announced>>

Take ==
    /\ pc = "idle" /\ queue # <<>>
    /\ task' = Head(queue) /\ queue' = Tail(queue)
    /\ pc' = Head(queue).op
    /\ UNCHANGED <<connected, open, listening, pollVars, event, mediaVars, cameraVars,
                   wish, faults, fresh, announced>>

Done == pc' = "idle" /\ task' = NoTask /\ event' = "none"
Goto(next) == pc' = next /\ UNCHANGED <<task, event>>

\* What scanning a folder may return: everything in it, less if the scan met an
\* error, and nothing without an open camera.
Within(folder) == {f \in onCamera : folder = Root \/ FolderOf[f] = folder}
Scans(folder, files) ==
    IF ~open THEN files = {} /\ UNCHANGED faults
    ELSE \/ files = Within(folder) /\ UNCHANGED faults
         \/ /\ faults < MaxFaults /\ faults' = faults + 1
            /\ files \subseteq Within(folder)

\* replaceGenericMediaCatalog
ReplaceCatalog(folder, files) ==
    /\ catalog' = KeysOf(files)
    /\ catalogFolder' = folder
    /\ initialized' = TRUE
    /\ holes' = (holes \cup KeysOf(Within(folder))) \ KeysOf(files)

\* clearGenericMediaCatalog
ClearCatalog ==
    /\ catalog' = {} /\ catalogFolder' = Root /\ initialized' = FALSE
    /\ holes' = {} /\ fresh' = {} /\ announced' = [k \in Keys |-> 0]

\* publishGenericMedia for every key the catalog does not have: it is added, and
\* the file announced (queued for the drain calls, and emitted).
Publish(keys) ==
    /\ announced' = [k \in Keys |->
                        announced[k] + IF k \in keys \ catalog THEN 1 ELSE 0]
    /\ catalog' = catalog \cup keys
    /\ initialized' = (initialized \/ keys \ catalog # {})
    /\ fresh' = fresh \ keys
    /\ UNCHANGED <<catalogFolder, holes>>

-----------------------------------------------------------------------------
(* Listening                                                               *)

StartRefused ==
    /\ pc = "start" /\ (~connected \/ listening)
    /\ Done
    /\ UNCHANGED <<connected, open, listening, pollVars, queue, mediaVars, cameraVars,
                   wish, faults, fresh, announced>>

\* compareAndSet(false, true)
StartListening ==
    /\ pc = "start" /\ connected /\ ~listening
    /\ listening' = TRUE
    /\ Goto("seed")
    /\ UNCHANGED <<connected, open, pollVars, queue, mediaVars, cameraVars, wish,
                   faults, fresh, announced>>

\* A listening that starts from the catalog it finds.
SeedKeepsCatalog ==
    /\ pc = "seed"
    /\ fresh' = {}
    /\ Goto("schedule")
    /\ UNCHANGED <<connected, open, listening, pollVars, queue, mediaVars, cameraVars,
                   wish, faults, announced>>

\* seedGenericMediaCatalog: what the camera holds now is not news.
Seed ==
    /\ pc = "seed"
    /\ \E files \in SUBSET Files : Scans(Root, files) /\ ReplaceCatalog(Root, files)
    /\ fresh' = {}
    /\ Goto("schedule")
    /\ UNCHANGED <<connected, open, listening, pollVars, queue, cameraVars, wish,
                   announced>>

\* A schedule that does not ask whether a poll is under way.
ScheduleAnother ==
    /\ pc = "schedule"
    /\ IF listening
       THEN pollScheduled' = TRUE /\ timer' = timer + 1
       ELSE UNCHANGED pollVars
    /\ Done
    /\ UNCHANGED <<connected, open, listening, queue, mediaVars, cameraVars, wish,
                   faults, fresh, announced>>

\* scheduleMediaEventPoll
Schedule ==
    /\ pc = "schedule"
    /\ IF listening /\ ~pollScheduled
       THEN pollScheduled' = TRUE /\ timer' = timer + 1
       ELSE UNCHANGED pollVars
    /\ Done
    /\ UNCHANGED <<connected, open, listening, queue, mediaVars, cameraVars, wish,
                   faults, fresh, announced>>

\* A poll that leaves the flag to the next schedule.
PollKeepsFlag ==
    /\ pc = "poll"
    /\ IF listening THEN Goto("wait") ELSE Done
    /\ UNCHANGED <<connected, open, listening, pollVars, queue, mediaVars, cameraVars,
                   wish, faults, fresh, announced>>

\* The scheduled block clears its flag and looks at mediaEventListening.
Poll ==
    /\ pc = "poll"
    /\ pollScheduled' = FALSE
    /\ IF listening THEN Goto("wait") ELSE Done
    /\ UNCHANGED <<connected, open, listening, timer, queue, mediaVars, cameraVars,
                   wish, faults, fresh, announced>>

\* nativeWaitForEvent(250), under cameraOperationLock only.
Wait ==
    /\ pc = "wait"
    /\ \/ ~open /\ event' = "disconnected" /\ UNCHANGED cameraEvents
       \/ open /\ event' \in {"timeout", "gone"} /\ UNCHANGED cameraEvents
       \/ open /\ event' \in cameraEvents /\ cameraEvents' = cameraEvents \ {event'}
    /\ pc' = "handle"
    /\ UNCHANGED <<connected, open, listening, pollVars, queue, task, mediaVars,
                   onCamera, wish, faults, fresh, announced>>

\* handleMediaEventResult, if still listening: a stop during the wait drops the
\* event that was taken.
Handle ==
    /\ pc = "handle"
    /\ IF listening /\ event \in Keys THEN Publish({event})
       ELSE UNCHANGED <<mediaVars, fresh, announced>>
    /\ listening' = (listening /\ event \notin {"disconnected", "gone"})
    /\ Goto("list")
    /\ UNCHANGED <<connected, open, pollVars, queue, cameraVars, wish, faults>>

\* pollGenericMediaCatalog when it is due.
PollLists ==
    /\ pc = "list" /\ listening
    /\ \E files \in SUBSET Files : Scans(Root, files) /\ Publish(KeysOf(files))
    /\ Goto("schedule")
    /\ UNCHANGED <<connected, open, listening, pollVars, queue, cameraVars, wish>>

PollSkips ==
    /\ pc = "list"
    /\ Goto("schedule")
    /\ UNCHANGED <<connected, open, listening, pollVars, queue, mediaVars, cameraVars,
                   wish, faults, fresh, announced>>

\* A stop that trusts what the main thread did.
StopTrustsCall ==
    /\ pc = "stop"
    /\ Done
    /\ UNCHANGED <<connected, open, listening, pollVars, queue, mediaVars, cameraVars,
                   wish, faults, fresh, announced>>

\* stopMediaEventListening
Stop ==
    /\ pc = "stop"
    /\ listening' = FALSE
    /\ Done
    /\ UNCHANGED <<connected, open, pollVars, queue, mediaVars, cameraVars, wish,
                   faults, fresh, announced>>

-----------------------------------------------------------------------------
(* Pages and connections                                                   *)

Stale == task.refresh \/ ~initialized \/ catalogFolder # task.folder

\* scanGenericMediaPage: a page of another folder, or a refresh, replaces the
\* catalog by a scan of the folder that was asked for.
Page ==
    /\ pc = "page"
    /\ IF Stale
       THEN /\ \E files \in SUBSET Files :
                   Scans(task.folder, files) /\ ReplaceCatalog(task.folder, files)
            /\ fresh' = fresh \ catalog'
       ELSE UNCHANGED <<mediaVars, fresh, faults>>
    /\ Done
    /\ UNCHANGED <<connected, open, listening, pollVars, queue, cameraVars, wish,
                   announced>>

\* releaseCameraControl: the device stays active, the catalog as it is.
Release ==
    /\ pc = "release"
    /\ listening' = FALSE /\ open' = FALSE /\ cameraEvents' = {}
    /\ Done
    /\ UNCHANGED <<connected, pollVars, queue, mediaVars, onCamera, wish, faults,
                   fresh, announced>>

\* connectCamera without permission, without the device or when it cannot be
\* opened: what was connected stays.
ConnectTurnsBack ==
    /\ pc = "connect"
    /\ Done
    /\ UNCHANGED <<connected, open, listening, pollVars, queue, mediaVars, cameraVars,
                   wish, faults, fresh, announced>>

\* disconnectCamera; connectCamera calls it once the new device is open, and
\* again when it fails later on.
Disconnect ==
    /\ pc \in {"disconnect", "connect"}
    /\ listening' = FALSE /\ cameraEvents' = {}
    /\ ClearCatalog
    /\ connected' \in IF pc = "connect" THEN BOOLEAN ELSE {FALSE}
    /\ open' = connected'
    /\ Done
    /\ UNCHANGED <<pollVars, queue, onCamera, wish, faults>>

-----------------------------------------------------------------------------
Dispatcher ==
    \/ Take \/ StartRefused \/ StartListening \/ Seed \/ Schedule \/ Poll \/ Wait
    \/ Handle \/ PollLists \/ PollSkips \/ Stop \/ Page \/ Release
    \/ ConnectTurnsBack \/ Disconnect
Next == FileCreated \/ CallSome \/ TimerFires \/ Dispatcher
Spec == Init /\ [][Next]_vars

\* The dispatcher thread runs and its timers fire; the interval between two
\* listings is bounded, so a poll that comes again and again finds one due.
FairSpec == /\ Spec
            /\ WF_vars(Dispatcher) /\ WF_vars(TimerFires)
            /\ SF_vars(PollLists)

-----------------------------------------------------------------------------
(* What must hold                                                          *)

Idle == pc = "idle" /\ queue = <<>>
PollsQueued == Cardinality({i \in DOMAIN queue : queue[i].op = "poll"})

TypeOK ==
    /\ {connected, open, listening, pollScheduled, initialized, wish} \subseteq BOOLEAN
    /\ timer \in 0 .. 1
    /\ queue \in Seq(Tasks) /\ task \in Tasks \cup {NoTask}
    /\ task.op = "page" <=> pc = "page"
    /\ pc \in {"idle", "seed", "schedule", "wait", "handle", "list", "poll"} \cup Ops
    /\ catalogFolder \in Folders /\ onCamera \subseteq Files
    /\ catalog \cup cameraEvents \cup fresh \cup holes \subseteq Keys
    /\ announced \in [Keys -> Nat]

\* The polls are one chain however start and stop follow each other, and it does
\* not break while the application listens: mediaEventPollScheduled is set if and
\* only if exactly one poll is to come, and with the dispatcher between two tasks
\* a set mediaEventListening means that one is.
OnePollChain ==
    /\ timer + PollsQueued + (IF pc = "poll" THEN 1 ELSE 0)
           = (IF pollScheduled THEN 1 ELSE 0)
    /\ pc = "idle" /\ listening => pollScheduled

\* The last request wins, although a stop acts twice, at once on the main thread
\* and again in its turn: when all tasks are done, the plugin listens only if the
\* last start was not followed by a stop, a release or a disconnect.
LastRequestWins == Idle /\ listening => wish

\* Only newly created files are announced, and each once: a file was created
\* since the last baseline and not announced or listed since, or the scan that
\* made the catalog was incomplete and left it out.
OnlyNewFilesAreAnnounced ==
    [][\A k \in Keys : announced'[k] > announced[k] => k \in fresh \cup holes]_vars

\* A file created while the application listens is announced, or taken into the
\* catalog by a page the application asked for, unless listening ends: neither a
\* lost camera event nor an incomplete listing loses it.
NewFileArrives ==
    \A k \in Keys : (listening /\ k \in fresh) ~> (k \notin fresh \/ ~listening)
-----------------------------------------------------------------------------
(* The inductive invariant, IInv                                           *)

NoPollQueued == \A n \in DOMAIN queue : queue[n].op # "poll"
OnePollQueued == \E n \in DOMAIN queue :
                     \A m \in DOMAIN queue : queue[m].op = "poll" <=> m = n

\* Where the one poll of the chain is: behind its timer, queued, about to clear
\* the flag, or under way to schedule its successor.
ChainInv ==
    /\ \/ pollScheduled /\ timer = 1 /\ NoPollQueued /\ pc # "poll"
       \/ pollScheduled /\ timer = 0 /\ OnePollQueued /\ pc # "poll"
       \/ pollScheduled /\ timer = 0 /\ NoPollQueued /\ pc = "poll"
       \/ ~pollScheduled /\ timer = 0 /\ NoPollQueued /\ pc # "poll"
    /\ listening => pollScheduled
                     \/ pc \in {"seed", "schedule", "wait", "handle", "list"}

Ends == {"stop", "release", "disconnect"}
EndAfter(q, m) == \E n \in DOMAIN q : n > m /\ q[n].op \in Ends

\* Without a wish to listen, everything that listens or will meets an end later.
WishInv ==
    ~wish =>
        /\ listening \/ pc = "start" => pc \in Ends \/ EndAfter(queue, 0)
        /\ \A m \in DOMAIN queue : queue[m].op = "start" => EndAfter(queue, m)

\* Events are about files of the camera, and what it holds is known, new or was
\* left out by an incomplete listing; the last as long as every page is one of
\* the root folder.
NewsInv ==
    /\ cameraEvents \subseteq KeysOf(onCamera)
    /\ event \in Keys => event \in KeysOf(onCamera)
    /\ (\A p \in Pages : p.folder = Root) =>
           (listening /\ pc # "seed" => KeysOf(onCamera) \subseteq catalog \cup fresh \cup holes)

IInv == TypeOK /\ ChainInv /\ WishInv /\ NewsInv
=============================================================================
