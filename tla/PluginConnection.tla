-------------------------- MODULE PluginConnection --------------------------
(***************************************************************************)
(* Connecting and disconnecting in UsbCameraSdkPlugin.kt.  Every Flutter   *)
(* engine has an instance of the plugin with a dispatcher thread of its    *)
(* own; the instances share the process, its file descriptors and the      *)
(* native bridge (BridgeApi, whose functions are atomic under g_mutex).    *)
(* The main thread takes requests, hears that devices are detached and     *)
(* detaches engines; it reads activeDevice while a dispatcher changes it.  *)
(***************************************************************************)
EXTENDS BridgeApi, Sequences, FiniteSets

CONSTANTS Instances,
          Devices, Canons,   \* device names, and those with Canon's vendor id
          Wants,             \* the devices each engine's application asks for
          MaxRequests        \* bound on the requests of each

None == "none"

ASSUME ConnectionAssumption ==
    Canons \subseteq Devices /\ None \notin Devices
    /\ Wants \in [Instances -> SUBSET Devices] 
    /\ MaxRequests \in [Instances -> Nat]

VARIABLES
    attached,           \* devices on the bus
    opened,             \* the device of every open descriptor, or None
    engine,             \* the instance is attached to its engine
    toHear,             \* devices whose detach broadcast is under way
    queue,              \* tasks of the dispatcher
    task, pc,           \* the task that runs, and where
    next,               \* where disconnectCamera returns to
    connection,         \* the local variable of connectCamera
    activeConnection, activeDevice,
    backend,            \* canonPtpBackend: None, "open" or "closed"
    lastEvent,          \* the last of "connected" and "disconnected" emitted
    asked, owed         \* requests, and requests minus answers

busVars == <<attached, toHear>>
activeVars == <<activeConnection, activeDevice>>
taskVars == <<queue, task>>
vars == <<apiVars, busVars, opened, engine, taskVars, pc, next, connection, activeVars,
          backend, lastEvent, asked, owed>>

NoTask == [op |-> "none", device |-> None]
Requests(devices) == {[op |-> op, device |-> None] : op \in {"disconnect", "release"}}
                     \cup [op : {"connect"}, device : devices]
Detached == [op |-> "detached", device |-> None]

Init ==
    /\ ApiInit
    /\ attached = Devices /\ toHear = {}
    /\ opened = [fd \in Descriptors |-> None]
    /\ engine = [i \in Instances |-> TRUE]
    /\ queue = [i \in Instances |-> <<>>]
    /\ task = [i \in Instances |-> NoTask]
    /\ pc = [i \in Instances |-> "idle"]
    /\ next = [i \in Instances |-> None]
    /\ connection = [i \in Instances |-> NoDevice]
    /\ activeConnection = [i \in Instances |-> NoDevice]
    /\ activeDevice = [i \in Instances |-> None]
    /\ backend = [i \in Instances |-> None]
    /\ lastEvent = [i \in Instances |-> None]
    /\ asked = [i \in Instances |-> 0] /\ owed = [i \in Instances |-> 0]

-----------------------------------------------------------------------------
(* The main thread and the bus                                             *)

Submit(i, new) == queue' = [queue EXCEPT ![i] = Append(@, new)]

\* onMethodCall; the camera operations leave everything here as it is.
Call(i) ==
    /\ engine[i] /\ asked[i] < MaxRequests[i]
    /\ asked' = [asked EXCEPT ![i] = @ + 1]
    /\ \E request \in Requests(Wants[i]) : Submit(i, request)
    /\ owed' = [owed EXCEPT ![i] = @ + 1]
    /\ UNCHANGED <<apiVars, busVars, opened, engine, task, pc, next, connection,
                   activeVars, backend, lastEvent>>

Unplug ==
    \E d \in attached :
        /\ attached' = attached \ {d}
        /\ toHear' = toHear \cup {d}
        /\ UNCHANGED <<apiVars, opened, engine, asked, taskVars, pc, next, connection,
                       activeVars, backend, lastEvent, owed>>

\* A receiver that leaves a busy dispatcher alone.
DeviceDetachedIfIdle ==
    \E d \in toHear :
        /\ toHear' = toHear \ {d}
        /\ queue' = [i \in Instances |->
                        IF engine[i] /\ activeDevice[i] = d /\ pc[i] = "idle"
                        THEN Append(queue[i], Detached) ELSE queue[i]]
        /\ UNCHANGED <<apiVars, attached, opened, engine, asked, task, pc, next,
                       connection, activeVars, backend, lastEvent, owed>>

\* usbReceiver of every instance with an engine: only those that use the device
\* have anything to do.
DeviceDetached ==
    \E d \in toHear :
        /\ toHear' = toHear \ {d}
        /\ queue' = [i \in Instances |->
                        IF engine[i] /\ activeDevice[i] = d
                        THEN Append(queue[i], Detached) ELSE queue[i]]
        /\ UNCHANGED <<apiVars, attached, opened, engine, asked, task, pc, next,
                       connection, activeVars, backend, lastEvent, owed>>

\* A shutdown that trusts the application to have disconnected.
EngineDetachedSilently(i) ==
    /\ engine[i]
    /\ engine' = [engine EXCEPT ![i] = FALSE]
    /\ UNCHANGED <<apiVars, busVars, opened, asked, taskVars, pc, next, connection,
                   activeVars, backend, lastEvent, owed>>

\* onDetachedFromEngine: the disconnection is submitted before shutdown().
EngineDetached(i) ==
    /\ engine[i]
    /\ engine' = [engine EXCEPT ![i] = FALSE]
    /\ Submit(i, Detached)
    /\ UNCHANGED <<apiVars, busVars, opened, asked, task, pc, next, connection, activeVars,
                   backend, lastEvent, owed>>

-----------------------------------------------------------------------------
(* The dispatcher                                                          *)

\* disconnectCamera is called, to return to a step.
DisconnectThen(i, where) ==
    /\ pc' = [pc EXCEPT ![i] = "disconnectNative"]
    /\ next' = [next EXCEPT ![i] = where]

\* Disconnections go straight to disconnectCamera.
Take(i) ==
    /\ pc[i] = "idle" /\ queue[i] # <<>>
    /\ task' = [task EXCEPT ![i] = Head(queue[i])]
    /\ queue' = [queue EXCEPT ![i] = Tail(@)]
    /\ IF Head(queue[i]).op \in {"disconnect", "detached"}
       THEN DisconnectThen(i, "done")
       ELSE pc' = [pc EXCEPT ![i] = Head(queue[i]).op] /\ UNCHANGED next
    /\ UNCHANGED <<apiVars, busVars, opened, engine, asked, connection, activeVars, backend,
                   lastEvent, owed>>

At(i, where) == pc[i] = where
Goto(i, where) ==
    pc' = [pc EXCEPT ![i] = where] /\ UNCHANGED <<task, owed, connection>>

\* The task ends, with an answer or without one.
Done(i, answers) ==
    /\ pc' = [pc EXCEPT ![i] = "idle"]
    /\ task' = [task EXCEPT ![i] = NoTask]
    /\ owed' = [owed EXCEPT ![i] = @ - answers]
    /\ connection' = [connection EXCEPT ![i] = NoDevice]

\* A nativeDisconnect that is left to the next connection.
DisconnectSkipsNative(i) ==
    /\ At(i, "disconnectNative")
    /\ backend' = [backend EXCEPT ![i] = None]
    /\ Goto(i, "disconnectClose")
    /\ UNCHANGED <<apiVars, busVars, opened, engine, asked, queue, next,
                   activeVars, lastEvent>>

\* Its first half: the backend is closed, then nativeDisconnect called, whoever
\* opened the camera.
DisconnectNative(i) ==
    /\ At(i, "disconnectNative")
    /\ backend' = [backend EXCEPT ![i] = None]
    /\ NativeDisconnect
    /\ Goto(i, "disconnectClose")
    /\ UNCHANGED <<busVars, opened, engine, asked, queue, next, activeVars,
                   lastEvent>>

\* A second half that forgets only the connection.
DisconnectKeepsDevice(i) ==
    /\ At(i, "disconnectClose")
    /\ opened' = [fd \in Descriptors |->
                    IF fd = activeConnection[i] THEN None ELSE opened[fd]]
    /\ activeConnection' = [activeConnection EXCEPT ![i] = NoDevice]
    /\ lastEvent' = [lastEvent EXCEPT ![i] = "disconnected"]
    /\ IF next[i] = "activate" THEN Goto(i, "activate")
       ELSE Done(i, IF task[i] = Detached THEN 0 ELSE 1)
    /\ next' = [next EXCEPT ![i] = None]
    /\ UNCHANGED <<apiVars, busVars, engine, asked, queue, activeDevice, backend>>

\* Its second half.
DisconnectClose(i) ==
    /\ At(i, "disconnectClose")
    /\ opened' = [fd \in Descriptors |->
                    IF fd = activeConnection[i] THEN None ELSE opened[fd]]
    /\ activeConnection' = [activeConnection EXCEPT ![i] = NoDevice]
    /\ activeDevice' = [activeDevice EXCEPT ![i] = None]
    /\ lastEvent' = [lastEvent EXCEPT ![i] = "disconnected"]
    /\ IF next[i] = "activate" THEN Goto(i, "activate")
       ELSE Done(i, IF task[i] = Detached THEN 0 ELSE 1)
    /\ next' = [next EXCEPT ![i] = None]
    /\ UNCHANGED <<apiVars, busVars, engine, asked, queue, backend>>

\* releaseCameraControl keeps the connection.
Release(i) ==
    /\ At(i, "release")
    /\ IF backend[i] = None THEN NativeDisconnect /\ UNCHANGED backend
       ELSE backend' = [backend EXCEPT ![i] = "closed"] /\ UNCHANGED apiVars
    /\ Done(i, 1)
    /\ UNCHANGED <<busVars, opened, engine, asked, queue, next, activeVars,
                   lastEvent>>

-----------------------------------------------------------------------------
(* connectCamera                                                           *)

FreeDescriptors == {fd \in Descriptors : opened[fd] = None}

\* UsbManager.openDevice gives the lowest free descriptor.
Opens(d, fd) ==
    /\ d \in attached /\ fd \in FreeDescriptors
    /\ \A other \in FreeDescriptors : fd <= other
    /\ opened' = [opened EXCEPT ![fd] = d]

\* No device, no permission, or openDevice fails: what was connected stays.
ConnectTurnsBack(i) ==
    /\ At(i, "connect")
    /\ Done(i, 1)
    /\ UNCHANGED <<apiVars, busVars, opened, engine, asked, queue, next,
                   activeVars, backend, lastEvent>>

\* The new connection is opened before the old one is taken down.
OpenDevice(i) ==
    /\ At(i, "connect")
    /\ \E fd \in Descriptors :
          /\ Opens(task[i].device, fd)
          /\ connection' = [connection EXCEPT ![i] = fd]
    /\ DisconnectThen(i, "activate")
    /\ UNCHANGED <<apiVars, busVars, engine, asked, taskVars, activeVars, backend, lastEvent,
                   owed>>

\* The device becomes active before anything is asked of it.
Activate(i) ==
    /\ At(i, "activate")
    /\ activeConnection' = [activeConnection EXCEPT ![i] = connection[i]]
    /\ activeDevice' = [activeDevice EXCEPT ![i] = task[i].device]
    /\ Goto(i, IF task[i].device \in Canons THEN "canon" ELSE "init")
    /\ UNCHANGED <<apiVars, busVars, opened, engine, asked, queue, next, backend,
                   lastEvent>>

\* CanonPtpBackend.connect needs the device; if it throws, it has closed itself.
ConnectCanon(i) ==
    /\ At(i, "canon")
    /\ \/ /\ task[i].device \in attached
          /\ backend' = [backend EXCEPT ![i] = "open"]
          /\ Goto(i, "complete")
       \/ Goto(i, "fallback") /\ UNCHANGED backend
    /\ UNCHANGED <<apiVars, busVars, opened, engine, asked, queue, next,
                   activeVars, lastEvent>>

\* A fallback that opens the device a second time.
FallBackKeepsOpen(i) ==
    /\ At(i, "fallback")
    /\ Goto(i, "reopen")
    /\ UNCHANGED <<apiVars, busVars, opened, engine, asked, queue, next,
                   activeVars, backend, lastEvent>>

\* canonicalConnection.close()
FallBack(i) ==
    /\ At(i, "fallback")
    /\ opened' = [opened EXCEPT ![connection[i]] = None]
    /\ Goto(i, "reopen")
    /\ UNCHANGED <<apiVars, busVars, engine, asked, queue, next, activeVars,
                   backend, lastEvent>>

\* A failed reopening that leaves the closed connection active.
ReopenKeepsActive(i) ==
    /\ At(i, "reopen")
    /\ \/ \E fd \in Descriptors :
             /\ Opens(task[i].device, fd)
             /\ connection' = [connection EXCEPT ![i] = fd]
             /\ activeConnection' = [activeConnection EXCEPT ![i] = fd]
             /\ pc' = [pc EXCEPT ![i] = "init"]
             /\ UNCHANGED <<task, owed>>
       \/ Done(i, 1) /\ UNCHANGED <<opened, activeConnection>>
    /\ UNCHANGED <<apiVars, busVars, engine, asked, queue, next, activeDevice, backend,
                   lastEvent>>

\* The device is opened again, or nothing is connected any more.
Reopen(i) ==
    /\ At(i, "reopen")
    /\ \/ \E fd \in Descriptors :
             /\ Opens(task[i].device, fd)
             /\ connection' = [connection EXCEPT ![i] = fd]
             /\ activeConnection' = [activeConnection EXCEPT ![i] = fd]
             /\ pc' = [pc EXCEPT ![i] = "init"]
             /\ UNCHANGED <<task, owed, activeDevice>>
       \/ /\ activeConnection' = [activeConnection EXCEPT ![i] = NoDevice]
          /\ activeDevice' = [activeDevice EXCEPT ![i] = None]
          /\ Done(i, 1)
          /\ UNCHANGED opened
    /\ UNCHANGED <<apiVars, busVars, engine, asked, queue, next, backend, lastEvent>>

\* A failure that answers before disconnectCamera as well as after it.
FailsTwice(i) ==
    /\ DisconnectThen(i, "done")
    /\ owed' = [owed EXCEPT ![i] = @ - 1]
    /\ UNCHANGED <<task, connection>>

\* A failure on the way to the camera: disconnectCamera, then an error.
Fails(i) == DisconnectThen(i, "done") /\ UNCHANGED <<task, owed, connection>>

\* connect's onFailure: an exception before the new device is open, while the old
\* connection is still there, or one of preparePluginDirectory before nativeInit.
ConnectCrashes(i) ==
    /\ At(i, "connect") \/ At(i, "init")
    /\ Fails(i)
    /\ UNCHANGED <<apiVars, busVars, opened, engine, asked, queue, activeVars,
                   backend, lastEvent>>

InitNative(i) ==
    /\ At(i, "init")
    /\ NativeInit
    /\ IF initialized' THEN Goto(i, "native") /\ UNCHANGED next ELSE Fails(i)
    /\ UNCHANGED <<busVars, opened, engine, asked, queue, activeVars, backend,
                   lastEvent>>

\* nativeConnectCamera: it cannot open a camera that is not there.
ConnectNative(i) ==
    /\ At(i, "native")
    /\ \/ /\ ConnectSucceeds(connection[i])
          /\ task[i].device \in attached
          /\ Goto(i, "complete") /\ UNCHANGED next
       \/ /\ ConnectRefused \/ ConnectFails(connection[i])
          /\ Fails(i)
    /\ UNCHANGED <<busVars, opened, engine, asked, queue, activeVars, backend,
                   lastEvent>>

\* completeConnection
Complete(i) ==
    /\ At(i, "complete")
    /\ lastEvent' = [lastEvent EXCEPT ![i] = "connected"]
    /\ Done(i, 1)
    /\ UNCHANGED <<apiVars, busVars, opened, engine, asked, queue, next,
                   activeVars, backend>>

-----------------------------------------------------------------------------
Dispatcher(i) ==
    \/ Take(i) \/ DisconnectNative(i) \/ DisconnectClose(i)
    \/ Release(i) \/ ConnectTurnsBack(i) \/ OpenDevice(i)
    \/ Activate(i) \/ ConnectCanon(i) \/ FallBack(i) \/ Reopen(i)
    \/ ConnectCrashes(i) \/ InitNative(i) \/ ConnectNative(i) \/ Complete(i)
Main(i) == Call(i) \/ EngineDetached(i)
Next == Unplug \/ DeviceDetached \/ \E i \in Instances : Main(i) \/ Dispatcher(i)
Spec == Init /\ [][Next]_vars

-----------------------------------------------------------------------------
(* What must hold                                                          *)

\* Steps with the new device active, and all others.
ActiveSteps == {"canon", "fallback", "init", "native", "complete"}
Disconnects == {"disconnectNative", "disconnectClose"}
Steps == ActiveSteps \cup Disconnects
         \cup {"idle", "connect", "release", "activate", "reopen"}
Tasks == Requests(Devices) \cup {Detached}

BridgeTypeOK ==
    /\ initialized \in BOOLEAN /\ connected \in BOOLEAN /\ context \in BOOLEAN
    /\ camera \in {"null", "new", "open"}
    /\ sysDevice \in Descriptors \cup {NoDevice}
    /\ openedOn \in Descriptors \cup {NoDevice}

MainTypeOK ==
    /\ attached \subseteq Devices /\ toHear \subseteq Devices
    /\ engine \in [Instances -> BOOLEAN]
    /\ queue \in [Instances -> Seq(Tasks)]
    /\ asked \in [Instances -> Nat] /\ owed \in [Instances -> Int]

PlaceTypeOK ==
    /\ task \in [Instances -> Tasks \cup {NoTask}]
    /\ pc \in [Instances -> Steps]
    /\ next \in [Instances -> {None, "activate", "done"}]
    /\ connection \in [Instances -> Descriptors \cup {NoDevice}]

DeviceTypeOK ==
    /\ opened \in [Descriptors -> Devices \cup {None}]
    /\ activeConnection \in [Instances -> Descriptors \cup {NoDevice}]
    /\ activeDevice \in [Instances -> Devices \cup {None}]
    /\ backend \in [Instances -> {None, "open", "closed"}]
    /\ lastEvent \in [Instances -> {None, "connected", "disconnected"}]

TypeOK == BridgeTypeOK /\ MainTypeOK /\ PlaceTypeOK /\ DeviceTypeOK

\* The descriptors an instance is responsible for.
HeldBy(where, returning, active, new) ==
    (IF where = "reopen" THEN {} ELSE {active} \ {NoDevice})
    \cup (IF where = "activate" \/ returning = "activate" THEN {new} ELSE {})
Held(i) == HeldBy(pc[i], next[i], activeConnection[i], connection[i])

\* No UsbDeviceConnection is forgotten, on any way through the fallback and the
\* failures: an open descriptor belongs to one instance, which will close it.
NoConnectionLeaks ==
    \A fd \in Descriptors :
        LET owners == {i \in Instances : fd \in Held(i)}
        IN  (opened[fd] # None <=> owners # {}) /\ \A i, j \in owners : i = j

\* libgphoto2 never works on a descriptor that was closed behind its back, and
\* that the system may have given to somebody else: the one it was given and the
\* one the camera is open on are active connections of an instance.
CameraDescriptorIsOpen ==
    \A fd \in {sysDevice, openedOn} \ {NoDevice} :
        \E i \in Instances : activeConnection[i] = fd /\ pc[i] # "reopen"

\* A request that passes the guard of the native operations before the camera
\* has been opened can only come in while some instance is between nativeInit
\* and nativeConnectCamera (cameraOperationLock is released in between).
UsableIsOpenUnlessConnecting ==
    Usable /\ camera # "open" => \E i \in Instances : pc[i] = "native"

\* Every request is answered exactly once, on whichever path it ends.
Waiting(tasks) == {n \in DOMAIN tasks : tasks[n] # Detached}
RequestsInHand(i) ==
    Cardinality(Waiting(queue[i]))
    + (IF task[i] \in {NoTask, Detached} THEN 0 ELSE 1)
AnsweredOnce == \A i \in Instances : owed[i] = RequestsInHand(i)

\* What the application was told last is true when the plugin comes to rest,
\* also when a connection attempt failed half way.
LastEventIsTrue ==
    \A i \in Instances :
        pc[i] = "idle" => (lastEvent[i] = "connected" <=> activeDevice[i] # None)

\* No plug is pulled unnoticed: an instance without work and with all broadcasts
\* heard is not connected to a device that is gone, also when the broadcast
\* arrived in the middle of the connection to that device.
GoneDeviceIsDropped ==
    \A i \in Instances :
        /\ pc[i] = "idle" /\ queue[i] = <<>> /\ toHear = {}
        => activeDevice[i] \in attached \cup {None}

\* An engine that goes away leaves nothing open and nobody waiting: what was
\* submitted before shutdown() still runs, the disconnection last.
EngineLeavesNothing ==
    \A i \in Instances :
        ~engine[i] /\ pc[i] = "idle" /\ queue[i] = <<>>
            => owed[i] = 0 /\ Held(i) = {} /\ backend[i] = None

-----------------------------------------------------------------------------
(* Why this is so                                                          *)

\* What the dispatcher runs, and where.
TaskInv(i) ==
    /\ task[i] = NoTask <=> pc[i] = "idle"
    /\ pc[i] \in ActiveSteps \cup {"connect", "activate", "reopen"} => task[i].op = "connect"
    /\ task[i] = Detached => pc[i] \in Disconnects
    /\ next[i] = None <=> pc[i] \notin Disconnects
    /\ next[i] = "activate" => task[i].op = "connect"

\* The connections it knows of.
ConnectionInv(i) ==
    /\ activeDevice[i] = None <=> activeConnection[i] = NoDevice
    /\ next[i] = "activate" \/ pc[i] = "activate"
          => connection[i] \in Descriptors /\ connection[i] # activeConnection[i]
    /\ pc[i] = "activate" => activeConnection[i] = NoDevice
    /\ pc[i] \in ActiveSteps \cup {"reopen"}
          => /\ connection[i] \in Descriptors
             /\ activeConnection[i] = connection[i]
             /\ activeDevice[i] = task[i].device

\* What the application has heard of them.
EventInv(i) ==
    /\ pc[i] \in ActiveSteps \cup {"activate", "reopen"} => lastEvent[i] = "disconnected"
    /\ pc[i] \in {"idle", "connect", "release"}
          => (lastEvent[i] = "connected" <=> activeDevice[i] # None)

StageInv(i) == TaskInv(i) /\ ConnectionInv(i) /\ EventInv(i)

\* The bridge has a camera only after nativeInit, and not on a descriptor that is
\* about to be closed or that it was not given yet.
BridgeInv ==
    /\ camera # "null" => initialized
    /\ \A i \in Instances :
          pc[i] \in {"disconnectClose", "canon", "fallback"} /\ activeConnection[i] # NoDevice
             => activeConnection[i] \notin {sysDevice, openedOn}

\* A device that is gone is about to be dropped.
GoneInv(i) ==
    activeDevice[i] \in attached \cup {None}
    \/ activeDevice[i] \in toHear
    \/ pc[i] \in (ActiveSteps \ {"complete"}) \cup Disconnects \cup {"reopen"}
    \/ \E n \in DOMAIN queue[i] : queue[i][n] = Detached

\* What an engine submits last is its disconnection.
EngineInv(i) ==
    ~engine[i] => \/ queue[i] # <<>> /\ queue[i][Len(queue[i])] = Detached
                  \/ queue[i] = <<>> /\ task[i] = Detached
                     /\ (pc[i] = "disconnectClose" => backend[i] = None)
                  \/ queue[i] = <<>> /\ task[i] = NoTask
                     /\ activeDevice[i] = None /\ backend[i] = None

\* Where every dispatcher is, and what it relies on there.
Stages == /\ TypeOK /\ BridgeInv
          /\ \A i \in Instances : StageInv(i) /\ GoneInv(i) /\ EngineInv(i)

\* The inductive invariant of the module.
IInv == /\ Stages /\ NoConnectionLeaks /\ CameraDescriptorIsOpen
        /\ UsableIsOpenUnlessConnecting /\ AnsweredOnce
=============================================================================
