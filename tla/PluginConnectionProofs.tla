----------------------- MODULE PluginConnectionProofs -----------------------
(* Proofs about PluginConnection, for any number of engines, devices,      *)
(* descriptors and requests.                                               *)
EXTENDS PluginConnection, SequenceTheorems, FiniteSetTheorems,
        FunctionTheorems, TLAPS

-----------------------------------------------------------------------------
(* Tasks                                                                   *)

\* The operations of the tasks tell them apart.
LEMMA TaskFacts ==
    /\ \A t \in Tasks \cup {NoTask} :
          /\ t.op \in {"none", "disconnect", "release", "connect", "detached"}
          /\ t.op = "none" <=> t = NoTask
          /\ t.op = "detached" <=> t = Detached
          /\ t.op = "connect" => t.device \in Devices
    /\ Detached \in Tasks /\ NoTask \notin Tasks /\ Detached # NoTask
    /\ \A i \in Instances : Requests(Wants[i]) \subseteq Tasks \ {Detached}
BY ConnectionAssumption DEF Tasks, Requests, Detached, NoTask

-----------------------------------------------------------------------------
(* Types                                                                   *)

\* The bridge.
LEMMA BridgeTyped ==
    ASSUME BridgeTypeOK, PlaceTypeOK, DeviceTypeOK, (\A j \in Instances : StageInv(j)),
           NEW i \in Instances,
           Unplug \/ DeviceDetached \/ Main(i) \/ Dispatcher(i)
    PROVE  BridgeTypeOK'
<1> USE DEF Submit, DisconnectThen, At, Goto, Done, Fails, apiVars, busVars,
        activeVars, taskVars, NativeInit, NativeDisconnect, ConnectRefused,
        ConnectSucceeds, ConnectFails, BridgeTypeOK, PlaceTypeOK, DeviceTypeOK, StageInv,
        TaskInv, ConnectionInv, NoDevice, ActiveSteps
<1>1. CASE Call(i)  BY <1>1 DEF Call
<1>2. CASE EngineDetached(i)  BY <1>2 DEF EngineDetached
<1>3. CASE Take(i)  BY <1>3 DEF Take
<1>4. CASE DisconnectNative(i)  BY <1>4 DEF DisconnectNative
<1>5. CASE DisconnectClose(i)  BY <1>5 DEF DisconnectClose
<1>6. CASE Release(i)  BY <1>6 DEF Release
<1>7. CASE ConnectTurnsBack(i)  BY <1>7 DEF ConnectTurnsBack
<1>8. CASE OpenDevice(i)  BY <1>8 DEF OpenDevice
<1>9. CASE Activate(i)  BY <1>9 DEF Activate
<1>10. CASE ConnectCanon(i)  BY <1>10 DEF ConnectCanon
<1>11. CASE FallBack(i)  BY <1>11 DEF FallBack
<1>12. CASE Reopen(i)  BY <1>12 DEF Reopen
<1>13. CASE ConnectCrashes(i)  BY <1>13 DEF ConnectCrashes
<1>14. CASE InitNative(i)  BY <1>14 DEF InitNative
<1>15. CASE ConnectNative(i)
  <2>1. connection[i] \in Descriptors
    BY <1>15 DEF ConnectNative
  <2> QED BY <1>15, <2>1 DEF ConnectNative
<1>16. CASE Complete(i)  BY <1>16 DEF Complete
<1>17. CASE Unplug  BY <1>17 DEF Unplug
<1>18. CASE DeviceDetached  BY <1>18 DEF DeviceDetached
<1> QED BY <1>1, <1>2, <1>3, <1>4, <1>5, <1>6, <1>7, <1>8, <1>9, <1>10, <1>11,
        <1>12, <1>13, <1>14, <1>15, <1>16, <1>17, <1>18 DEF Dispatcher, Main

\* The main thread's variables.
LEMMA MainTyped ==
    ASSUME MainTypeOK, NEW i \in Instances,
           Unplug \/ DeviceDetached \/ Main(i) \/ Dispatcher(i)
    PROVE  MainTypeOK'
<1> USE DEF Submit, DisconnectThen, At, Goto, Done, Fails, apiVars, busVars,
        activeVars, taskVars, NativeInit, NativeDisconnect, ConnectRefused,
        ConnectSucceeds, ConnectFails, MainTypeOK
<1>1. CASE Call(i)  BY <1>1, TaskFacts DEF Call
<1>2. CASE EngineDetached(i)  BY <1>2, TaskFacts DEF EngineDetached
<1>3. CASE Take(i)  BY <1>3, TaskFacts DEF Take
<1>4. CASE DisconnectNative(i)  BY <1>4, TaskFacts DEF DisconnectNative
<1>5. CASE DisconnectClose(i)  BY <1>5, TaskFacts DEF DisconnectClose
<1>6. CASE Release(i)  BY <1>6, TaskFacts DEF Release
<1>7. CASE ConnectTurnsBack(i)  BY <1>7, TaskFacts DEF ConnectTurnsBack
<1>8. CASE OpenDevice(i)  BY <1>8, TaskFacts DEF OpenDevice
<1>9. CASE Activate(i)  BY <1>9, TaskFacts DEF Activate
<1>10. CASE ConnectCanon(i)  BY <1>10, TaskFacts DEF ConnectCanon
<1>11. CASE FallBack(i)  BY <1>11, TaskFacts DEF FallBack
<1>12. CASE Reopen(i)  BY <1>12, TaskFacts DEF Reopen
<1>13. CASE ConnectCrashes(i)  BY <1>13, TaskFacts DEF ConnectCrashes
<1>14. CASE InitNative(i)  BY <1>14, TaskFacts DEF InitNative
<1>15. CASE ConnectNative(i)  BY <1>15, TaskFacts DEF ConnectNative
<1>16. CASE Complete(i)  BY <1>16, TaskFacts DEF Complete
<1>17. CASE Unplug  BY <1>17, TaskFacts DEF Unplug
<1>18. CASE DeviceDetached  BY <1>18, TaskFacts DEF DeviceDetached
<1> QED BY <1>1, <1>2, <1>3, <1>4, <1>5, <1>6, <1>7, <1>8, <1>9, <1>10, <1>11,
        <1>12, <1>13, <1>14, <1>15, <1>16, <1>17, <1>18 DEF Dispatcher, Main

\* The first of the tasks that wait.
LEMMA FirstTask ==
    ASSUME MainTypeOK, NEW i \in Instances, queue[i] # <<>>
    PROVE  /\ Head(queue[i]) \in Tasks /\ Head(queue[i]) = queue[i][1]
           /\ Tail(queue[i]) \in Seq(Tasks) /\ Len(Tail(queue[i])) = Len(queue[i]) - 1
           /\ \A n \in 1 .. Len(queue[i]) - 1 : Tail(queue[i])[n] = queue[i][n + 1]
           /\ Len(queue[i]) \in Nat \ {0}
BY HeadTailProperties, EmptySeq, LenProperties DEF MainTypeOK

\* Where the dispatchers are.
LEMMA PlaceStep ==
    ASSUME PlaceTypeOK, MainTypeOK, BridgeTypeOK', NEW i \in Instances,
           Unplug \/ DeviceDetached \/ Main(i) \/ Dispatcher(i)
    PROVE  PlaceTypeOK'
<1> USE DEF Submit, DisconnectThen, At, Goto, Done, Fails, apiVars, busVars,
        activeVars, taskVars, NativeInit, NativeDisconnect, ConnectRefused,
        ConnectSucceeds, ConnectFails, PlaceTypeOK, Steps, ActiveSteps, Disconnects
<1>1. CASE Call(i)  BY <1>1, TaskFacts DEF Call
<1>2. CASE EngineDetached(i)  BY <1>2, TaskFacts DEF EngineDetached
<1>3. CASE Take(i)  BY <1>3, TaskFacts, FirstTask DEF Take
<1>4. CASE DisconnectNative(i)  BY <1>4, TaskFacts DEF DisconnectNative
<1>5. CASE DisconnectClose(i)
  <2>1. CASE next[i] = "activate"
    BY <1>5, <2>1, TaskFacts DEF DisconnectClose
  <2>2. CASE next[i] # "activate"
    BY <1>5, <2>2, TaskFacts DEF DisconnectClose
  <2> QED BY <1>5, <2>1, <2>2 DEF DisconnectClose
<1>6. CASE Release(i)  BY <1>6, TaskFacts DEF Release
<1>7. CASE ConnectTurnsBack(i)  BY <1>7, TaskFacts DEF ConnectTurnsBack
<1>8. CASE OpenDevice(i)  BY <1>8, TaskFacts DEF OpenDevice
<1>9. CASE Activate(i)  BY <1>9, TaskFacts DEF Activate
<1>10. CASE ConnectCanon(i)  BY <1>10, TaskFacts DEF ConnectCanon
<1>11. CASE FallBack(i)  BY <1>11, TaskFacts DEF FallBack
<1>12. CASE Reopen(i)  BY <1>12, TaskFacts DEF Reopen
<1>13. CASE ConnectCrashes(i)  BY <1>13, TaskFacts DEF ConnectCrashes
<1>14. CASE InitNative(i)
  <2>1. CASE initialized'
    BY <1>14, <2>1 DEF InitNative
  <2>2. CASE ~initialized'
    BY <1>14, <2>2 DEF InitNative
  <2> QED BY <1>14, <2>1, <2>2 DEF InitNative
<1>15. CASE ConnectNative(i)  BY <1>15, TaskFacts DEF ConnectNative
<1>16. CASE Complete(i)  BY <1>16, TaskFacts DEF Complete
<1>17. CASE Unplug  BY <1>17, TaskFacts DEF Unplug
<1>18. CASE DeviceDetached  BY <1>18, TaskFacts DEF DeviceDetached
<1> QED BY <1>1, <1>2, <1>3, <1>4, <1>5, <1>6, <1>7, <1>8, <1>9, <1>10, <1>11,
        <1>12, <1>13, <1>14, <1>15, <1>16, <1>17, <1>18 DEF Dispatcher, Main

\* What they have open.
LEMMA DeviceStep ==
    ASSUME DeviceTypeOK, PlaceTypeOK, (\A j \in Instances : StageInv(j)),
           NEW i \in Instances,
           Unplug \/ DeviceDetached \/ Main(i) \/ Dispatcher(i)
    PROVE  DeviceTypeOK'
<1> USE DEF Submit, DisconnectThen, At, Goto, Done, Fails, apiVars, busVars,
        activeVars, taskVars, NativeInit, NativeDisconnect, ConnectRefused,
        ConnectSucceeds, ConnectFails, DeviceTypeOK, PlaceTypeOK, StageInv,
        TaskInv, ConnectionInv, Opens, NoDevice, ActiveSteps
<1>1. CASE Call(i)  BY <1>1, TaskFacts DEF Call
<1>2. CASE EngineDetached(i)  BY <1>2, TaskFacts DEF EngineDetached
<1>3. CASE Take(i)  BY <1>3, TaskFacts DEF Take
<1>4. CASE DisconnectNative(i)  BY <1>4, TaskFacts DEF DisconnectNative
<1>5. CASE DisconnectClose(i)  BY <1>5, TaskFacts DEF DisconnectClose
<1>6. CASE Release(i)  BY <1>6, TaskFacts DEF Release
<1>7. CASE ConnectTurnsBack(i)  BY <1>7, TaskFacts DEF ConnectTurnsBack
<1>8. CASE OpenDevice(i)  BY <1>8, TaskFacts DEF OpenDevice
<1>9. CASE Activate(i)  BY <1>9, TaskFacts DEF Activate
<1>10. CASE ConnectCanon(i)  BY <1>10, TaskFacts DEF ConnectCanon
<1>11. CASE FallBack(i)  BY <1>11, TaskFacts DEF FallBack
<1>12. CASE Reopen(i)  BY <1>12, TaskFacts DEF Reopen
<1>13. CASE ConnectCrashes(i)  BY <1>13, TaskFacts DEF ConnectCrashes
<1>14. CASE InitNative(i)  BY <1>14, TaskFacts DEF InitNative
<1>15. CASE ConnectNative(i)  BY <1>15, TaskFacts DEF ConnectNative
<1>16. CASE Complete(i)  BY <1>16, TaskFacts DEF Complete
<1>17. CASE Unplug  BY <1>17, TaskFacts DEF Unplug
<1>18. CASE DeviceDetached  BY <1>18, TaskFacts DEF DeviceDetached
<1> QED BY <1>1, <1>2, <1>3, <1>4, <1>5, <1>6, <1>7, <1>8, <1>9, <1>10, <1>11,
        <1>12, <1>13, <1>14, <1>15, <1>16, <1>17, <1>18 DEF Dispatcher, Main

-----------------------------------------------------------------------------
(* Stages                                                                  *)

\* An instance leaves the others as they are.
LEMMA OthersStay ==
    ASSUME MainTypeOK, PlaceTypeOK, DeviceTypeOK, NEW i \in Instances,
           Main(i) \/ Dispatcher(i), NEW j \in Instances, j # i
    PROVE  /\ pc'[j] = pc[j] /\ task'[j] = task[j] /\ next'[j] = next[j]
           /\ connection'[j] = connection[j] /\ activeConnection'[j] = activeConnection[j]
           /\ activeDevice'[j] = activeDevice[j] /\ backend'[j] = backend[j]
           /\ lastEvent'[j] = lastEvent[j] /\ engine'[j] = engine[j]
           /\ queue'[j] = queue[j] /\ owed'[j] = owed[j]
<1> USE DEF Submit, DisconnectThen, At, Goto, Done, Fails, apiVars, busVars,
        activeVars, taskVars, NativeInit, NativeDisconnect, ConnectRefused,
        ConnectSucceeds, ConnectFails, MainTypeOK, PlaceTypeOK, DeviceTypeOK
<1>1. CASE Call(i)  BY <1>1 DEF Call
<1>2. CASE EngineDetached(i)  BY <1>2 DEF EngineDetached
<1>3. CASE Take(i)  BY <1>3 DEF Take
<1>4. CASE DisconnectNative(i)  BY <1>4 DEF DisconnectNative
<1>5. CASE DisconnectClose(i)  BY <1>5 DEF DisconnectClose
<1>6. CASE Release(i)  BY <1>6 DEF Release
<1>7. CASE ConnectTurnsBack(i)  BY <1>7 DEF ConnectTurnsBack
<1>8. CASE OpenDevice(i)  BY <1>8 DEF OpenDevice
<1>9. CASE Activate(i)  BY <1>9 DEF Activate
<1>10. CASE ConnectCanon(i)  BY <1>10 DEF ConnectCanon
<1>11. CASE FallBack(i)  BY <1>11 DEF FallBack
<1>12. CASE Reopen(i)  BY <1>12 DEF Reopen
<1>13. CASE ConnectCrashes(i)  BY <1>13 DEF ConnectCrashes
<1>14. CASE InitNative(i)  BY <1>14 DEF InitNative
<1>15. CASE ConnectNative(i)  BY <1>15 DEF ConnectNative
<1>16. CASE Complete(i)  BY <1>16 DEF Complete
<1> QED BY <1>1, <1>2, <1>3, <1>4, <1>5, <1>6, <1>7, <1>8, <1>9, <1>10, <1>11,
        <1>12, <1>13, <1>14, <1>15, <1>16 DEF Dispatcher, Main

-----------------------------------------------------------------------------
(* What a step of a dispatcher does                                        *)

\* The next values of the variables of one instance.
Place(i, p, t, n) == pc'[i] = p /\ task'[i] = t /\ next'[i] = n
Links(i, c, active, device) ==
    connection'[i] = c /\ activeConnection'[i] = active /\ activeDevice'[i] = device
SameLinks(i) == Links(i, connection[i], activeConnection[i], activeDevice[i])
News(i, b, e, o) == backend'[i] = b /\ lastEvent'[i] = e /\ owed'[i] = o
SameNews(i) == News(i, backend[i], lastEvent[i], owed[i])
Answers(i) == IF task[i] = Detached THEN 0 ELSE 1

\* The steps of a dispatcher, one disjunct for each way an action may go.
Taken(i) ==
    /\ pc[i] = "idle" /\ queue[i] # <<>> /\ queue'[i] = Tail(queue[i])
    /\ \/ /\ Head(queue[i]).op \in {"disconnect", "detached"}
          /\ Place(i, "disconnectNative", Head(queue[i]), "done")
       \/ /\ Head(queue[i]).op \notin {"disconnect", "detached"}
          /\ Place(i, Head(queue[i]).op, Head(queue[i]), next[i])
    /\ SameLinks(i) /\ SameNews(i) /\ UNCHANGED <<opened, apiVars>>
Closing(i) ==
    /\ queue'[i] = queue[i]
    /\ \/ /\ pc[i] = "disconnectNative"
          /\ Place(i, "disconnectClose", task[i], next[i])
          /\ SameLinks(i) /\ News(i, None, lastEvent[i], owed[i])
          /\ UNCHANGED opened /\ NativeDisconnect
       \/ /\ pc[i] = "disconnectClose" /\ next[i] = "activate"
          /\ Place(i, "activate", task[i], None)
          /\ Links(i, connection[i], NoDevice, None)
          /\ News(i, backend[i], "disconnected", owed[i])
          /\ UNCHANGED apiVars
       \/ /\ pc[i] = "disconnectClose" /\ next[i] # "activate"
          /\ Place(i, "idle", NoTask, None)
          /\ Links(i, NoDevice, NoDevice, None)
          /\ News(i, backend[i], "disconnected", owed[i] - Answers(i))
          /\ UNCHANGED apiVars
    /\ pc[i] = "disconnectClose" =>
          opened' = [fd \in Descriptors |-> IF fd = activeConnection[i] THEN None ELSE opened[fd]]
Answering(i) ==
    /\ queue'[i] = queue[i]
    /\ UNCHANGED opened
    /\ Place(i, "idle", NoTask, next[i])
    /\ \/ /\ pc[i] = "release" /\ backend[i] = None
          /\ News(i, None, lastEvent[i], owed[i] - 1) /\ NativeDisconnect
       \/ /\ pc[i] = "release" /\ backend[i] # None
          /\ News(i, "closed", lastEvent[i], owed[i] - 1) /\ UNCHANGED apiVars
       \/ /\ pc[i] = "connect"
          /\ News(i, backend[i], lastEvent[i], owed[i] - 1) /\ UNCHANGED apiVars
       \/ /\ pc[i] = "complete"
          /\ News(i, backend[i], "connected", owed[i] - 1) /\ UNCHANGED apiVars
       \/ /\ pc[i] = "reopen"
          /\ Links(i, NoDevice, NoDevice, None)
          /\ News(i, backend[i], lastEvent[i], owed[i] - 1) /\ UNCHANGED apiVars
    /\ pc[i] # "reopen" => Links(i, NoDevice, activeConnection[i], activeDevice[i])
Opening(i) ==
    /\ queue'[i] = queue[i] /\ SameNews(i) /\ UNCHANGED apiVars
    /\ \E fd \in Descriptors :
          /\ Opens(task[i].device, fd)
          /\ \/ /\ pc[i] = "connect"
                /\ Place(i, "disconnectNative", task[i], "activate")
                /\ Links(i, fd, activeConnection[i], activeDevice[i])
             \/ /\ pc[i] = "reopen"
                /\ Place(i, "init", task[i], next[i])
                /\ Links(i, fd, fd, activeDevice[i])
Proceeding(i) ==
    /\ queue'[i] = queue[i] /\ lastEvent'[i] = lastEvent[i] /\ owed'[i] = owed[i]
    /\ task'[i] = task[i] /\ next'[i] = next[i]
    /\ \/ /\ pc[i] = "activate" /\ pc'[i] \in {"canon", "init"}
          /\ Links(i, connection[i], connection[i], task[i].device)
          /\ backend'[i] = backend[i] /\ UNCHANGED <<opened, apiVars>>
       \/ /\ pc[i] = "canon" /\ pc'[i] = "complete" /\ task[i].device \in attached
          /\ SameLinks(i) /\ UNCHANGED <<opened, apiVars>>
          /\ backend'[i] = "open"
       \/ /\ pc[i] = "canon" /\ pc'[i] = "fallback"
          /\ SameLinks(i) /\ UNCHANGED <<opened, apiVars>>
          /\ backend'[i] = backend[i]
       \/ /\ pc[i] = "fallback" /\ pc'[i] = "reopen"
          /\ SameLinks(i) /\ UNCHANGED apiVars
          /\ backend'[i] = backend[i]
          /\ opened' = [opened EXCEPT ![connection[i]] = None]
       \/ /\ pc[i] = "init" /\ pc'[i] = "native"
          /\ SameLinks(i) /\ UNCHANGED opened
          /\ backend'[i] = backend[i] /\ NativeInit /\ initialized'
       \/ /\ pc[i] = "native" /\ pc'[i] = "complete" /\ task[i].device \in attached
          /\ SameLinks(i) /\ UNCHANGED opened
          /\ backend'[i] = backend[i] /\ ConnectSucceeds(connection[i])
Failing(i) ==
    /\ queue'[i] = queue[i] /\ SameLinks(i) /\ SameNews(i) /\ UNCHANGED opened
    /\ Place(i, "disconnectNative", task[i], "done")
    /\ \/ pc[i] \in {"connect", "init"} /\ UNCHANGED apiVars
       \/ pc[i] = "init" /\ NativeInit /\ ~initialized'
       \/ pc[i] = "native" /\ (ConnectRefused \/ ConnectFails(connection[i]))
Effect(i) ==
    \/ Taken(i) \/ Closing(i) \/ Answering(i) \/ Opening(i) \/ Proceeding(i)
    \/ Failing(i)

\* Every action of a dispatcher has one of these effects.
LEMMA Effects ==
    ASSUME MainTypeOK, PlaceTypeOK, DeviceTypeOK, NEW i \in Instances, Dispatcher(i)
    PROVE  Effect(i)
<1> USE DEF Submit, DisconnectThen, At, Goto, Done, Fails, busVars, activeVars,
        taskVars, MainTypeOK, PlaceTypeOK, DeviceTypeOK, Place, Links, SameLinks,
        News, SameNews, Answers
<1>1. Take(i) => Taken(i)
  BY DEF Take, Taken
<1>2. DisconnectNative(i) => Closing(i)
  BY DEF DisconnectNative, Closing
<1>3. DisconnectClose(i) => Closing(i)
  BY DEF DisconnectClose, Closing
<1>4. Release(i) => Answering(i)
  BY DEF Release, Answering
<1>5. ConnectTurnsBack(i) => Answering(i)
  BY DEF ConnectTurnsBack, Answering
<1>6. OpenDevice(i) => Opening(i)
  BY DEF OpenDevice, Opening
<1>7. Activate(i) => Proceeding(i)
  BY DEF Activate, Proceeding
<1>8. ConnectCanon(i) => Proceeding(i)
  BY DEF ConnectCanon, Proceeding
<1>9. FallBack(i) => Proceeding(i)
  BY DEF FallBack, Proceeding
<1>10. Reopen(i) => Opening(i) \/ Answering(i)
  BY DEF Reopen, Opening, Answering
<1>11. ConnectCrashes(i) => Failing(i)
  BY DEF ConnectCrashes, Failing
<1>12. InitNative(i) => Proceeding(i) \/ Failing(i)
  BY DEF InitNative, Proceeding, Failing
<1>13. ConnectNative(i) => Proceeding(i) \/ Failing(i)
  BY DEF ConnectNative, Proceeding, Failing
<1>14. Complete(i) => Answering(i)
  BY DEF Complete, Answering
<1> QED BY <1>1, <1>2, <1>3, <1>4, <1>5, <1>6, <1>7,
        <1>8, <1>9, <1>10, <1>11, <1>12, <1>13, <1>14 DEF Dispatcher, Effect

-----------------------------------------------------------------------------
(* Stages                                                                  *)

\* No descriptor is -1.
LEMMA NoDeviceIsNone == NoDevice \notin Descriptors
BY DescriptorsAssumption DEF NoDevice

\* What the dispatcher runs.
LEMMA TaskStep ==
    ASSUME MainTypeOK, PlaceTypeOK, NEW i \in Instances, TaskInv(i), Effect(i)
    PROVE  TaskInv(i)'
<1> USE DEF TaskInv, ActiveSteps, Disconnects, Place, PlaceTypeOK, None
<1>1. CASE Taken(i)
  <2>1. Head(queue[i]) \in Tasks /\ Head(queue[i]) # NoTask
    BY <1>1, FirstTask, TaskFacts DEF Taken
  <2>2. Head(queue[i]).op \in {"disconnect", "release", "connect", "detached"}
    BY <2>1, TaskFacts
  <2>3. Head(queue[i]) = Detached <=> Head(queue[i]).op = "detached"
    BY <2>1, TaskFacts
  <2> QED BY <1>1, <2>1, <2>2, <2>3 DEF Taken
<1>2. CASE Closing(i)
  BY <1>2, TaskFacts DEF Closing
<1>3. CASE Answering(i)
  BY <1>3, TaskFacts DEF Answering
<1>4. CASE Opening(i)
  BY <1>4, TaskFacts DEF Opening
<1>5. CASE Proceeding(i)
  BY <1>5, TaskFacts DEF Proceeding
<1>6. CASE Failing(i)
  BY <1>6, TaskFacts DEF Failing
<1> QED BY <1>1, <1>2, <1>3, <1>4, <1>5, <1>6 DEF Effect

\* The connections.
LEMMA ConnectionStep ==
    ASSUME MainTypeOK, PlaceTypeOK, DeviceTypeOK, NoConnectionLeaks,
           NEW i \in Instances, TaskInv(i), ConnectionInv(i), Effect(i)
    PROVE  ConnectionInv(i)'
<1> USE NoDeviceIsNone DEF None, TaskInv, ConnectionInv, ActiveSteps, Disconnects, Place,
        Links, SameLinks
<1>1. CASE Taken(i)
  <2>1. Head(queue[i]).op \in {"disconnect", "release", "connect", "detached"}
    BY <1>1, FirstTask, TaskFacts DEF Taken
  <2> QED BY <1>1, <2>1 DEF Taken
<1>2. CASE Closing(i)
  BY <1>2 DEF Closing
<1>3. CASE Answering(i)
  BY <1>3 DEF Answering
<1>4. CASE Opening(i)
  <2>1. PICK fd \in Descriptors :
          /\ opened[fd] = None
          /\ \/ /\ pc[i] = "connect"
                /\ Place(i, "disconnectNative", task[i], "activate")
                /\ Links(i, fd, activeConnection[i], activeDevice[i])
             \/ /\ pc[i] = "reopen"
                /\ Place(i, "init", task[i], next[i])
                /\ Links(i, fd, fd, activeDevice[i])
    BY <1>4 DEF Opening, Opens, FreeDescriptors
  <2>2. pc[i] = "connect" => fd # activeConnection[i]
    BY <2>1 DEF NoConnectionLeaks, Held, HeldBy
  <2>3. pc[i] = "reopen" => activeDevice[i] # None
    OBVIOUS
  <2> QED BY <2>1, <2>2, <2>3
<1>5. CASE Proceeding(i)
  <2>1. pc[i] = "activate" => task[i].device # None
    BY TaskFacts, ConnectionAssumption DEF PlaceTypeOK
  <2> QED BY <1>5, <2>1 DEF Proceeding
<1>6. CASE Failing(i)
  BY <1>6 DEF Failing
<1> QED BY <1>1, <1>2, <1>3, <1>4, <1>5, <1>6 DEF Effect

\* What the application hears.
LEMMA EventStep ==
    ASSUME MainTypeOK, PlaceTypeOK, DeviceTypeOK, NEW i \in Instances,
           TaskInv(i), ConnectionInv(i), EventInv(i), Effect(i)
    PROVE  EventInv(i)'
<1> USE NoDeviceIsNone DEF TaskInv, ConnectionInv, EventInv, ActiveSteps,
        Disconnects, Place, Links, SameLinks, News, SameNews
<1>1. CASE Taken(i)
  <2>1. Head(queue[i]).op \in {"disconnect", "release", "connect", "detached"}
    BY <1>1, FirstTask, TaskFacts DEF Taken
  <2> QED BY <1>1, <2>1 DEF Taken
<1>2. CASE Closing(i)
  BY <1>2 DEF Closing
<1>3. CASE Answering(i)
  BY <1>3 DEF Answering
<1>4. CASE Opening(i)
  BY <1>4 DEF Opening
<1>5. CASE Proceeding(i)
  BY <1>5 DEF Proceeding
<1>6. CASE Failing(i)
  BY <1>6 DEF Failing
<1> QED BY <1>1, <1>2, <1>3, <1>4, <1>5, <1>6 DEF Effect

-----------------------------------------------------------------------------
(* Descriptors                                                             *)

\* NoConnectionLeaks of what the instances hold and of what is open.
Owned(held, open) ==
    \A fd \in Descriptors :
        /\ open[fd] # None => \E j \in Instances : fd \in held[j]
        /\ \A j, k \in Instances : fd \in held[j] \cap held[k] => j = k
        /\ fd \in UNION {held[j] : j \in Instances} => open[fd] # None

\* One instance opens a descriptor, closes one it holds, or does neither.
Turns(held, held2, open, open2) ==
    \/ /\ held2 = held
       /\ \A fd \in Descriptors : open2[fd] = open[fd]
    \/ \E fd \in Descriptors :
          /\ held2 = held \cup {fd}
          /\ open[fd] = None /\ open2[fd] # None
          /\ \A other \in Descriptors \ {fd} : open2[other] = open[other]
    \/ \E fd :
          /\ held2 = held \ {fd}
          /\ fd \in Descriptors => fd \in held /\ open2[fd] = None
          /\ \A other \in Descriptors \ {fd} : open2[other] = open[other]

\* Then every open descriptor still has one owner.
LEMMA OwnedStep ==
    ASSUME NEW held, NEW held2, NEW open, NEW open2, NEW i \in Instances,
           Owned(held, open), Turns(held[i], held2[i], open, open2),
           \A j \in Instances : j # i => held2[j] = held[j]
    PROVE  Owned(held2, open2)
<1>1. CASE /\ held2[i] = held[i]
           /\ \A fd \in Descriptors : open2[fd] = open[fd]
  <2>1. \A j \in Instances : held2[j] = held[j]
    BY <1>1
  <2>2. ASSUME NEW fd \in Descriptors
        PROVE  /\ open2[fd] # None => \E j \in Instances : fd \in held2[j]
               /\ \A j, k \in Instances : fd \in held2[j] \cap held2[k] => j = k
               /\ fd \in UNION {held2[j] : j \in Instances} => open2[fd] # None
    <3>1. /\ open[fd] # None => \E j \in Instances : fd \in held[j]
          /\ \A j, k \in Instances : fd \in held[j] /\ fd \in held[k] => j = k
          /\ (\E j \in Instances : fd \in held[j]) => open[fd] # None
      BY DEF Owned
    <3> QED BY <1>1, <2>1, <3>1
  <2> QED BY <2>2 DEF Owned
<1>2. CASE \E fd \in Descriptors :
                 /\ held2[i] = held[i] \cup {fd}
                 /\ open[fd] = None /\ open2[fd] # None
                 /\ \A other \in Descriptors \ {fd} : open2[other] = open[other]
  <2>1. PICK fd \in Descriptors :
                 /\ held2[i] = held[i] \cup {fd}
                 /\ open[fd] = None /\ open2[fd] # None
                 /\ \A other \in Descriptors \ {fd} : open2[other] = open[other]
    BY <1>2
  <2>2. \A j \in Instances : fd \notin held[j]
    BY <2>1 DEF Owned
  <2>3. \A other \in Descriptors \ {fd} : \A j \in Instances :
           other \in held2[j] <=> other \in held[j]
    BY <2>1
  <2>4. \A j \in Instances : fd \in held2[j] <=> j = i
    BY <2>1, <2>2
  <2>5. ASSUME NEW other \in Descriptors \ {fd}
        PROVE  /\ open2[other] # None => \E j \in Instances : other \in held2[j]
               /\ \A j, k \in Instances : other \in held2[j] \cap held2[k] => j = k
               /\ other \in UNION {held2[j] : j \in Instances} => open2[other] # None
    BY <2>1, <2>3 DEF Owned
  <2> QED BY <2>1, <2>4, <2>5 DEF Owned
<1>3. CASE \E fd :
                 /\ held2[i] = held[i] \ {fd}
                 /\ fd \in Descriptors => fd \in held[i] /\ open2[fd] = None
                 /\ \A other \in Descriptors \ {fd} : open2[other] = open[other]
  <2>1. PICK fd :
                 /\ held2[i] = held[i] \ {fd}
                 /\ fd \in Descriptors => fd \in held[i] /\ open2[fd] = None
                 /\ \A other \in Descriptors \ {fd} : open2[other] = open[other]
    BY <1>3
  <2>2. fd \in Descriptors => \A j \in Instances : fd \notin held2[j]
    BY <2>1 DEF Owned
  <2>3. \A other \in Descriptors \ {fd} : \A j \in Instances :
           other \in held2[j] <=> other \in held[j]
    BY <2>1
  <2>4. ASSUME NEW other \in Descriptors \ {fd}
        PROVE  /\ open2[other] # None => \E j \in Instances : other \in held2[j]
               /\ \A j, k \in Instances : other \in held2[j] \cap held2[k] => j = k
               /\ other \in UNION {held2[j] : j \in Instances} => open2[other] # None
    BY <2>1, <2>3 DEF Owned
  <2> QED BY <2>1, <2>2, <2>4 DEF Owned
<1> QED BY <1>1, <1>2, <1>3 DEF Turns

\* What a step does to the descriptors of its instance.
LEMMA HeldMoves ==
    ASSUME MainTypeOK, PlaceTypeOK, DeviceTypeOK, NEW i \in Instances,
           TaskInv(i), ConnectionInv(i), Effect(i)
    PROVE  Turns(HeldBy(pc[i], next[i], activeConnection[i], connection[i]),
                 HeldBy(pc'[i], next'[i], activeConnection'[i], connection'[i]),
                 opened, opened')
<1> DEFINE before == HeldBy(pc[i], next[i], activeConnection[i], connection[i])
           after == HeldBy(pc'[i], next'[i], activeConnection'[i], connection'[i])
<1> USE NoDeviceIsNone DEF None, TaskInv, ConnectionInv, ActiveSteps, Disconnects, Place,
        Links, SameLinks, HeldBy
<1>0. SUFFICES Turns(before, after, opened, opened')
  OBVIOUS
<1>1. CASE Taken(i)
  <2>1. Head(queue[i]).op \in {"disconnect", "release", "connect", "detached"}
    BY <1>1, FirstTask, TaskFacts DEF Taken
  <2>2. after = before /\ opened' = opened
    BY <1>1, <2>1 DEF Taken
  <2> QED BY <2>2 DEF Turns
<1>2. CASE Closing(i)
  <2>1. CASE pc[i] = "disconnectNative"
    <3>1. after = before /\ opened' = opened
      BY <1>2, <2>1 DEF Closing
    <3> QED BY <3>1 DEF Turns
  <2>2. CASE pc[i] = "disconnectClose"
    <3>1. after = before \ {activeConnection[i]}
      BY <1>2, <2>2 DEF Closing
    <3>2. activeConnection[i] \in Descriptors => activeConnection[i] \in before
      BY <2>2
    <3>3. \A fd \in Descriptors :
             opened'[fd] = IF fd = activeConnection[i] THEN None ELSE opened[fd]
      BY <1>2, <2>2 DEF Closing
    <3> HIDE DEF before, after
    <3>4. \E fd :
              /\ after = before \ {fd}
              /\ fd \in Descriptors => fd \in before /\ opened'[fd] = None
              /\ \A other \in Descriptors \ {fd} : opened'[other] = opened[other]
      BY <3>1, <3>2, <3>3
    <3> QED BY <3>4 DEF Turns
  <2> QED BY <1>2, <2>1, <2>2 DEF Closing
<1>3. CASE Answering(i)
  <2>1. after = before /\ opened' = opened
    BY <1>3 DEF Answering
  <2> QED BY <2>1 DEF Turns
<1>4. CASE Opening(i)
  <2>1. PICK fd \in Descriptors :
          /\ Opens(task[i].device, fd)
          /\ \/ /\ pc[i] = "connect"
                /\ Place(i, "disconnectNative", task[i], "activate")
                /\ Links(i, fd, activeConnection[i], activeDevice[i])
             \/ /\ pc[i] = "reopen"
                /\ Place(i, "init", task[i], next[i])
                /\ Links(i, fd, fd, activeDevice[i])
    BY <1>4 DEF Opening
  <2>2. after = before \cup {fd}
    BY <2>1
  <2>3. task[i].device # None
    BY <2>1, TaskFacts, ConnectionAssumption DEF PlaceTypeOK
  <2>4. /\ opened[fd] = None /\ opened'[fd] # None
        /\ \A other \in Descriptors \ {fd} : opened'[other] = opened[other]
    BY <2>1, <2>3 DEF Opens, FreeDescriptors, DeviceTypeOK
  <2> HIDE DEF before, after
  <2>5. \E f \in Descriptors :
           /\ after = before \cup {f}
           /\ opened[f] = None /\ opened'[f] # None
           /\ \A other \in Descriptors \ {f} : opened'[other] = opened[other]
    BY <2>2, <2>4
  <2> QED BY <2>5 DEF Turns
<1>5. CASE Proceeding(i)
  <2>1. CASE pc[i] # "fallback"
    <3>1. after = before /\ opened' = opened
      BY <1>5, <2>1 DEF Proceeding
    <3> QED BY <3>1 DEF Turns
  <2>2. CASE pc[i] = "fallback"
    <3>1. after = before \ {connection[i]} /\ connection[i] \in before
      BY <1>5, <2>2 DEF Proceeding
    <3>2. \A fd \in Descriptors :
             opened'[fd] = IF fd = connection[i] THEN None ELSE opened[fd]
      BY <1>5, <2>2 DEF Proceeding, DeviceTypeOK
    <3> HIDE DEF before, after
    <3>3. \E fd :
              /\ after = before \ {fd}
              /\ fd \in Descriptors => fd \in before /\ opened'[fd] = None
              /\ \A other \in Descriptors \ {fd} : opened'[other] = opened[other]
      BY <3>1, <3>2
    <3> QED BY <3>3 DEF Turns
  <2> QED BY <2>1, <2>2
<1>6. CASE Failing(i)
  <2>1. after = before /\ opened' = opened
    BY <1>6 DEF Failing
  <2> QED BY <2>1 DEF Turns
<1> QED BY <1>1, <1>2, <1>3, <1>4, <1>5, <1>6 DEF Effect

\* No descriptor leaks.
LEMMA HeldStep ==
    ASSUME MainTypeOK, PlaceTypeOK, DeviceTypeOK, NoConnectionLeaks,
           NEW i \in Instances, TaskInv(i), ConnectionInv(i), Dispatcher(i)
    PROVE  NoConnectionLeaks'
<1> DEFINE held == [j \in Instances |->
                       HeldBy(pc[j], next[j], activeConnection[j], connection[j])]
           held2 == [j \in Instances |->
                       HeldBy(pc'[j], next'[j], activeConnection'[j], connection'[j])]
<1>1. Owned(held, opened)
  <2>1. \A j \in Instances : held[j] = Held(j)
    BY DEF Held
  <2> HIDE DEF held
  <2>2. ASSUME NEW fd \in Descriptors
        PROVE  /\ opened[fd] # None => \E j \in Instances : fd \in held[j]
               /\ \A j, k \in Instances : fd \in held[j] \cap held[k] => j = k
               /\ (\E j \in Instances : fd \in held[j]) => opened[fd] # None
    BY <2>1 DEF NoConnectionLeaks
  <2> QED BY <2>2 DEF Owned
<1>2. \A j \in Instances : j # i => held2[j] = held[j]
  BY OthersStay
<1>3. Effect(i)
  BY Effects
<1>4. /\ held[i] = HeldBy(pc[i], next[i], activeConnection[i], connection[i])
      /\ held2[i] = HeldBy(pc'[i], next'[i], activeConnection'[i], connection'[i])
  OBVIOUS
<1>5. Turns(held[i], held2[i], opened, opened')
  BY <1>3, <1>4, HeldMoves
<1>6. Owned(held2, opened')
  <2> HIDE DEF held, held2
  <2> QED BY <1>1, <1>2, <1>5, OwnedStep
<1> QED BY <1>6 DEF NoConnectionLeaks, Owned, Held

-----------------------------------------------------------------------------
(* The bridge                                                              *)

\* The descriptors of two instances are different.
LEMMA Disjoint ==
    ASSUME NoConnectionLeaks, PlaceTypeOK, DeviceTypeOK,
           NEW j \in Instances, NEW k \in Instances, j # k,
           activeConnection[j] # NoDevice, pc[j] # "reopen"
    PROVE  /\ activeConnection[k] = activeConnection[j] => pc[k] = "reopen"
           /\ pc[k] = "activate" => connection[k] # activeConnection[j]
<1>1. activeConnection[j] \in Descriptors /\ activeConnection[j] \in Held(j)
  BY DEF DeviceTypeOK, Held, HeldBy
<1>2. activeConnection[j] \notin Held(k)
  BY <1>1 DEF NoConnectionLeaks
<1> QED BY <1>2 DEF Held, HeldBy

\* The descriptor of a working camera, and those that have none.
LEMMA CameraStep ==
    ASSUME MainTypeOK, PlaceTypeOK, DeviceTypeOK, NoConnectionLeaks, BridgeInv,
           CameraDescriptorIsOpen, NEW i \in Instances, TaskInv(i), ConnectionInv(i),
           Dispatcher(i)
    PROVE  CameraDescriptorIsOpen' /\ BridgeInv'
<1>1. Effect(i)
  BY Effects
<1>2. \A j \in Instances : j # i => /\ pc'[j] = pc[j]
                                   /\ activeConnection'[j] = activeConnection[j]
  BY OthersStay
<1>3. \A j \in Instances : activeConnection[j] # NoDevice /\ pc[j] # "reopen" =>
         \A k \in Instances : k # j =>
            /\ activeConnection[k] = activeConnection[j] => pc[k] = "reopen"
            /\ pc[k] = "activate" => connection[k] # activeConnection[j]
  BY Disjoint
<1> HIDE DEF Effect
<1> USE NoDeviceIsNone DEF BridgeInv, CameraDescriptorIsOpen, Place, Links, SameLinks,
        ActiveSteps, ConnectionInv, apiVars
<1>4. CASE Taken(i)
  <2>1. Head(queue[i]).op \in {"disconnect", "release", "connect", "detached"}
    BY <1>4, FirstTask, TaskFacts DEF Taken
  <2> QED BY <1>2, <1>4, <2>1 DEF Taken
<1>5. CASE Closing(i)
  <2>1. CASE pc[i] = "disconnectNative"
    BY <1>5, <2>1 DEF Closing, NativeDisconnect
  <2>2. CASE pc[i] = "disconnectClose"
    BY <1>2, <1>5, <2>2 DEF Closing
  <2> QED BY <1>5, <2>1, <2>2 DEF Closing
<1>6. CASE Answering(i)
  <2>1. CASE NativeDisconnect
    BY <1>6, <2>1 DEF Answering, NativeDisconnect
  <2>2. CASE UNCHANGED apiVars
    BY <1>2, <1>6, <2>2 DEF Answering
  <2> QED BY <1>6, <2>1, <2>2 DEF Answering
<1>7. CASE Opening(i)
  BY <1>2, <1>7 DEF Opening
<1>8. CASE Proceeding(i)
  <2>1. CASE pc[i] = "activate"
    <3>1. connection[i] \notin {sysDevice, openedOn}
      BY <1>3, <2>1
    <3> QED BY <1>2, <1>8, <2>1, <3>1 DEF Proceeding
  <2>2. CASE pc[i] \in {"canon", "fallback"}
    BY <1>2, <1>8, <2>2 DEF Proceeding
  <2>3. CASE pc[i] = "init"
    BY <1>2, <1>8, <2>3 DEF Proceeding, NativeInit
  <2>4. CASE pc[i] = "native"
    <3>1. \A j \in Instances : j # i /\ pc[j] # "reopen" =>
             activeConnection[j] # connection[i]
      BY <1>3, <2>4
    <3> QED BY <1>2, <1>8, <2>4, <3>1 DEF Proceeding, ConnectSucceeds
  <2> QED BY <1>8, <2>1, <2>2, <2>3, <2>4 DEF Proceeding
<1>9. CASE Failing(i)
  <2>1. CASE UNCHANGED apiVars
    BY <1>2, <1>9, <2>1 DEF Failing
  <2>2. CASE NativeInit
    BY <1>2, <1>9, <2>2 DEF Failing, NativeInit
  <2>3. CASE pc[i] = "native" /\ ConnectFails(connection[i])
    <3>1. \A j \in Instances : j # i /\ pc[j] # "reopen" =>
             activeConnection[j] # connection[i]
      BY <1>3, <2>3
    <3> QED BY <1>2, <1>9, <2>3, <3>1 DEF Failing, ConnectFails
  <2> QED BY <1>9, <2>1, <2>2, <2>3 DEF Failing, ConnectRefused
<1> QED BY <1>1, <1>4, <1>5, <1>6, <1>7, <1>8, <1>9 DEF Effect

\* A usable bridge without an open camera is being connected.
LEMMA UsableStep ==
    ASSUME MainTypeOK, PlaceTypeOK, DeviceTypeOK, BridgeInv,
           UsableIsOpenUnlessConnecting, NEW i \in Instances, Dispatcher(i)
    PROVE  UsableIsOpenUnlessConnecting'
<1>1. Effect(i)
  BY Effects
<1>2. \A j \in Instances : j # i => pc'[j] = pc[j]
  BY OthersStay
<1> USE DEF UsableIsOpenUnlessConnecting, Usable, Place, apiVars, BridgeInv
<1>3. CASE pc[i] # "native" /\ UNCHANGED apiVars
  BY <1>2, <1>3
<1>4. CASE NativeDisconnect
  BY <1>4 DEF NativeDisconnect
<1>5. CASE NativeInit /\ (initialized' => pc'[i] = "native")
  BY <1>5 DEF NativeInit
<1>6. CASE ConnectRefused
  BY <1>6 DEF ConnectRefused
<1>7. CASE ConnectFails(connection[i]) \/ ConnectSucceeds(connection[i])
  BY <1>7 DEF ConnectFails, ConnectSucceeds
<1>8. \/ pc[i] # "native" /\ UNCHANGED apiVars
      \/ NativeDisconnect
      \/ NativeInit /\ (initialized' => pc'[i] = "native")
      \/ ConnectRefused \/ ConnectFails(connection[i]) \/ ConnectSucceeds(connection[i])
  BY <1>1 DEF Effect, Taken, Closing, Answering, Opening, Proceeding, Failing
<1> QED BY <1>3, <1>4, <1>5, <1>6, <1>7, <1>8

-----------------------------------------------------------------------------
(* Devices and engines that go                                             *)

\* A dispatcher moves no plug and no engine.
LEMMA BusStays ==
    ASSUME NEW i \in Instances, Dispatcher(i)
    PROVE  UNCHANGED <<attached, toHear, engine>>
BY DEF Dispatcher, Take, DisconnectNative, DisconnectClose, Release, ConnectTurnsBack,
   OpenDevice, Activate, ConnectCanon, FallBack, Reopen, ConnectCrashes, InitNative,
   ConnectNative, Complete, busVars

\* A disconnection that waits is not the first one, or is taken.
LEMMA DetachedStaysQueued ==
    ASSUME MainTypeOK, NEW i \in Instances, queue[i] # <<>>,
           queue'[i] = Tail(queue[i]),
           \E n \in DOMAIN queue[i] : queue[i][n] = Detached
    PROVE  Head(queue[i]) = Detached
           \/ \E n \in DOMAIN queue'[i] : queue'[i][n] = Detached
<1>1. /\ Len(queue[i]) \in Nat \ {0} /\ Head(queue[i]) = queue[i][1]
      /\ DOMAIN queue[i] = 1 .. Len(queue[i])
      /\ DOMAIN queue'[i] = 1 .. Len(queue[i]) - 1
      /\ \A n \in 1 .. Len(queue[i]) - 1 : queue'[i][n] = queue[i][n + 1]
  BY FirstTask, LenProperties DEF MainTypeOK
<1>2. PICK n \in DOMAIN queue[i] : queue[i][n] = Detached
  OBVIOUS
<1>3. CASE n = 1
  BY <1>1, <1>2, <1>3
<1>4. CASE n # 1
  <2>1. n - 1 \in DOMAIN queue'[i] /\ queue'[i][n - 1] = Detached
    BY <1>1, <1>2, <1>4
  <2> QED BY <2>1
<1> QED BY <1>3, <1>4

\* The device of an instance.
LEMMA GoneStep ==
    ASSUME MainTypeOK, PlaceTypeOK, DeviceTypeOK, NEW i \in Instances, TaskInv(i),
           ConnectionInv(i), GoneInv(i), Dispatcher(i)
    PROVE  GoneInv(i)'
<1>1. Effect(i) /\ UNCHANGED <<attached, toHear>>
  BY Effects, BusStays
<1> USE DEF GoneInv, TaskInv, ConnectionInv, ActiveSteps, Disconnects, Place, Links,
        SameLinks
<1>2. CASE Taken(i)
  <2>1. Head(queue[i]) = Detached => pc'[i] = "disconnectNative"
    BY <1>2, TaskFacts DEF Taken
  <2>2. CASE \E n \in DOMAIN queue[i] : queue[i][n] = Detached
    BY <1>2, <2>1, <2>2, DetachedStaysQueued DEF Taken
  <2>3. CASE ~\E n \in DOMAIN queue[i] : queue[i][n] = Detached
    BY <1>1, <1>2, <2>3 DEF Taken
  <2> QED BY <2>2, <2>3
<1>3. CASE Closing(i)
  BY <1>1, <1>3 DEF Closing
<1>4. CASE Answering(i)
  BY <1>1, <1>4 DEF Answering
<1>5. CASE Opening(i)
  BY <1>1, <1>5 DEF Opening
<1>6. CASE Proceeding(i)
  BY <1>1, <1>6 DEF Proceeding
<1>7. CASE Failing(i)
  BY <1>1, <1>7 DEF Failing
<1> QED BY <1>1, <1>2, <1>3, <1>4, <1>5, <1>6, <1>7 DEF Effect

\* An instance whose engine has gone.
LEMMA EngineStep ==
    ASSUME MainTypeOK, PlaceTypeOK, DeviceTypeOK, NEW i \in Instances, TaskInv(i),
           EngineInv(i), Dispatcher(i)
    PROVE  EngineInv(i)'
<1>1. Effect(i) /\ UNCHANGED engine
  BY Effects, BusStays
<1>2. CASE Taken(i)
  <2>1. /\ Len(queue[i]) \in Nat \ {0} /\ Head(queue[i]) = queue[i][1]
        /\ queue'[i] \in Seq(Tasks) /\ Len(queue'[i]) = Len(queue[i]) - 1
        /\ \A n \in 1 .. Len(queue[i]) - 1 : queue'[i][n] = queue[i][n + 1]
    BY <1>2, FirstTask DEF Taken
  <2>2. CASE Len(queue[i]) = 1
    <3>1. queue'[i] = <<>>
      BY <2>1, <2>2, EmptySeq
    <3>2. ~engine[i] => Head(queue[i]) = Detached
      BY <1>2, <2>1, <2>2 DEF EngineInv, Taken
    <3>3. Head(queue[i]) = Detached => task'[i] = Detached /\ pc'[i] = "disconnectNative"
      BY <1>2, TaskFacts DEF Taken, Place
    <3> QED BY <1>1, <3>1, <3>2, <3>3 DEF EngineInv
  <2>3. CASE Len(queue[i]) # 1
    <3>1. /\ queue'[i] # <<>>
          /\ queue'[i][Len(queue'[i])] = queue[i][Len(queue[i])]
      <4>1. Len(queue[i]) - 1 \in 1 .. Len(queue[i]) - 1
        <5>1. Len(queue[i]) \in Nat \ {0}
          BY <2>1
        <5>2. \A n \in Nat \ {0} : n # 1 => n - 1 \in 1 .. n - 1
          OBVIOUS
        <5> QED BY <2>3, <5>1, <5>2
      <4>2. queue'[i][Len(queue[i]) - 1] = queue[i][Len(queue[i]) - 1 + 1]
        BY <2>1, <4>1
      <4>3. Len(queue'[i]) # 0
        <5>1. Len(queue[i]) \in Nat \ {0} /\ Len(queue'[i]) = Len(queue[i]) - 1
          BY <2>1
        <5> QED BY <2>3, <5>1
      <4>4. queue'[i] # <<>>
        BY <4>3, EmptySeq
      <4> QED BY <2>1, <4>2, <4>4
    <3>2. queue[i] # <<>>
      BY <1>2 DEF Taken
    <3> QED BY <1>1, <3>1, <3>2 DEF EngineInv
  <2> QED BY <2>2, <2>3
<1>3. CASE ~Taken(i)
  <2>1. queue'[i] = queue[i] /\ pc[i] # "idle"
    BY <1>1, <1>3 DEF Effect, Closing, Answering, Opening, Proceeding, Failing
  <2>2. CASE queue[i] # <<>> \/ engine[i]
    BY <1>1, <2>1, <2>2 DEF EngineInv
  <2>3. CASE queue[i] = <<>> /\ ~engine[i]
    <3>1. task[i] = Detached /\ (pc[i] = "disconnectClose" => backend[i] = None)
      BY <2>1, <2>3 DEF EngineInv, TaskInv
    <3>2. pc[i] \in Disconnects /\ next[i] # "activate"
      BY <3>1, TaskFacts DEF TaskInv
    <3>3. Closing(i)
      BY <1>1, <1>3, <3>2 DEF Effect, Answering, Opening, Proceeding, Failing, Disconnects
    <3> QED BY <1>1, <2>1, <2>3, <3>1, <3>2, <3>3
            DEF EngineInv, Closing, Disconnects, Place, Links, News
  <2> QED BY <2>2, <2>3
<1> QED BY <1>2, <1>3

-----------------------------------------------------------------------------
(* Requests and answers                                                    *)

\* The requests that wait can be counted.
LEMMA WaitingIsFinite ==
    ASSUME NEW s \in Seq(Tasks)
    PROVE  IsFiniteSet(Waiting(s)) /\ Cardinality(Waiting(s)) \in Nat
<1>1. Len(s) \in Nat /\ DOMAIN s = 1 .. Len(s)
  BY LenProperties
<1>2. IsFiniteSet(1 .. Len(s))
  BY <1>1, FS_Interval
<1>3. Waiting(s) \in SUBSET (1 .. Len(s))
  BY <1>1 DEF Waiting
<1>4. IsFiniteSet(Waiting(s))
  BY <1>2, <1>3, FS_Subset
<1> QED BY <1>4, FS_CardinalityType

\* A request that is submitted waits as well.
LEMMA WaitingAppend ==
    ASSUME NEW s \in Seq(Tasks), NEW t \in Tasks
    PROVE  Cardinality(Waiting(Append(s, t)))
           = Cardinality(Waiting(s)) + (IF t = Detached THEN 0 ELSE 1)
<1>1. /\ Len(s) \in Nat /\ DOMAIN s = 1 .. Len(s)
      /\ DOMAIN Append(s, t) = 1 .. Len(s) + 1
      /\ \A n \in 1 .. Len(s) : Append(s, t)[n] = s[n]
      /\ Append(s, t)[Len(s) + 1] = t
  BY AppendProperties, LenProperties
<1>2. CASE t = Detached
  <2>1. Waiting(Append(s, t)) = Waiting(s)
    BY <1>1, <1>2 DEF Waiting
  <2> QED BY <1>2, <2>1, WaitingIsFinite
<1>3. CASE t # Detached
  <2>1. Waiting(Append(s, t)) = Waiting(s) \cup {Len(s) + 1}
    BY <1>1, <1>3 DEF Waiting
  <2>2. Len(s) + 1 \notin Waiting(s)
    BY <1>1 DEF Waiting
  <2> QED BY <1>3, <2>1, <2>2, WaitingIsFinite, FS_AddElement
<1> QED BY <1>2, <1>3

\* A request that is taken waits no longer.
LEMMA WaitingTail ==
    ASSUME NEW s \in Seq(Tasks), s # <<>>
    PROVE  Cardinality(Waiting(s))
           = Cardinality(Waiting(Tail(s))) + (IF Head(s) = Detached THEN 0 ELSE 1)
<1>1. /\ Len(s) \in Nat \ {0} /\ DOMAIN s = 1 .. Len(s) /\ Head(s) = s[1]
      /\ Tail(s) \in Seq(Tasks) /\ DOMAIN Tail(s) = 1 .. Len(s) - 1
      /\ \A n \in 1 .. Len(s) - 1 : Tail(s)[n] = s[n + 1]
  BY EmptySeq, HeadTailProperties, LenProperties
<1> DEFINE later == Waiting(s) \ {1}
           shift == [n \in Waiting(Tail(s)) |-> n + 1]
<1>2. shift \in [Waiting(Tail(s)) -> later]
  BY <1>1 DEF Waiting
<1>3. \A m, n \in Waiting(Tail(s)) : shift[m] = shift[n] => m = n
  BY <1>1 DEF Waiting
<1>4. \A m \in later : \E n \in Waiting(Tail(s)) : shift[n] = m
  <2> SUFFICES ASSUME NEW m \in later PROVE \E n \in Waiting(Tail(s)) : shift[n] = m
    OBVIOUS
  <2>1. m - 1 \in Waiting(Tail(s)) /\ m - 1 + 1 = m
    BY <1>1 DEF Waiting
  <2>2. shift[m - 1] = m
    BY <2>1
  <2> QED BY <2>1, <2>2
<1>5. ExistsBijection(Waiting(Tail(s)), later)
  <2> HIDE DEF shift, later
  <2>1. shift \in Bijection(Waiting(Tail(s)), later)
    BY <1>2, <1>3, <1>4, Fun_IsBij
  <2> QED BY <2>1, Fun_ExistsBij
<1>6. Cardinality(later) = Cardinality(Waiting(Tail(s)))
  <2> HIDE DEF later
  <2> QED BY <1>1, <1>5, WaitingIsFinite, FS_Bijection
<1>7. Cardinality(later) = IF 1 \in Waiting(s) THEN Cardinality(Waiting(s)) - 1
                                               ELSE Cardinality(Waiting(s))
  BY WaitingIsFinite, FS_RemoveElement
<1>8. 1 \in Waiting(s) <=> Head(s) # Detached
  BY <1>1 DEF Waiting
<1> QED BY <1>6, <1>7, <1>8, WaitingIsFinite, <1>1

\* The dispatcher answers what it takes, once.
LEMMA CountStep ==
    ASSUME MainTypeOK, PlaceTypeOK, DeviceTypeOK, NEW i \in Instances, TaskInv(i),
           owed[i] = RequestsInHand(i), Dispatcher(i)
    PROVE  (owed[i] = RequestsInHand(i))'
<1>1. Effect(i)
  BY Effects
<1>2. owed[i] \in Int /\ Cardinality(Waiting(queue[i])) \in Nat
  BY WaitingIsFinite DEF MainTypeOK
<1>3. CASE Taken(i)
  <2>1. /\ Head(queue[i]) \in Tasks /\ Head(queue[i]) # NoTask /\ task'[i] = Head(queue[i])
        /\ queue'[i] = Tail(queue[i]) /\ owed'[i] = owed[i] /\ task[i] = NoTask
    BY <1>3, FirstTask, TaskFacts DEF Taken, Place, SameNews, News, TaskInv
  <2>2. Cardinality(Waiting(queue[i]))
        = Cardinality(Waiting(queue'[i])) + (IF task'[i] = Detached THEN 0 ELSE 1)
    BY <1>3, <2>1, WaitingTail DEF Taken, MainTypeOK
  <2>3. queue'[i] \in Seq(Tasks)
    BY <1>3, <2>1, FirstTask DEF Taken
  <2> QED BY <1>2, <2>1, <2>2, <2>3, WaitingIsFinite DEF RequestsInHand
<1>4. CASE ~Taken(i)
  <2>1. queue'[i] = queue[i]
    BY <1>1, <1>4 DEF Effect, Closing, Answering, Opening, Proceeding, Failing
  <2>2. \/ task'[i] = task[i] /\ owed'[i] = owed[i]
        \/ task'[i] = NoTask /\ owed'[i] = owed[i] - Answers(i) /\ pc[i] # "idle"
        \/ /\ task'[i] = NoTask /\ owed'[i] = owed[i] - 1
           /\ pc[i] \notin Disconnects /\ pc[i] # "idle"
    BY <1>1, <1>4 DEF Effect, Closing, Answering, Opening, Proceeding, Failing, Place,
       News, SameNews, Disconnects
  <2>3. pc[i] # "idle" => task[i] # NoTask
    BY DEF TaskInv
  <2>4. pc[i] \notin Disconnects => task[i] # Detached
    BY DEF TaskInv
  <2> QED BY <1>2, <2>1, <2>2, <2>3, <2>4 DEF RequestsInHand, Answers
<1> QED BY <1>3, <1>4
-----------------------------------------------------------------------------
(* The main thread and the bus                                             *)

\* They leave the dispatchers where they are.
DispatchersStay ==
    UNCHANGED <<apiVars, opened, task, pc, next, connection, activeVars, backend, lastEvent>>

\* What the dispatchers rely on stays true.
LEMMA MainStays ==
    ASSUME NEW i \in Instances, Unplug \/ DeviceDetached \/ Main(i)
    PROVE  DispatchersStay
BY DEF Unplug, DeviceDetached, Main, Call, EngineDetached, DispatchersStay, taskVars

\* Every part of the invariant that is about dispatchers only.
LEMMA StayStep ==
    ASSUME BridgeInv, NoConnectionLeaks, CameraDescriptorIsOpen,
           UsableIsOpenUnlessConnecting, \A j \in Instances : StageInv(j), DispatchersStay
    PROVE  /\ BridgeInv' /\ NoConnectionLeaks' /\ CameraDescriptorIsOpen'
           /\ UsableIsOpenUnlessConnecting' /\ \A j \in Instances : StageInv(j)'
<1> USE DEF DispatchersStay, apiVars, activeVars
<1>1. BridgeInv'
  BY DEF BridgeInv
<1>2. NoConnectionLeaks'
  BY DEF NoConnectionLeaks, Held
<1>3. CameraDescriptorIsOpen'
  BY DEF CameraDescriptorIsOpen
<1>4. UsableIsOpenUnlessConnecting'
  BY DEF UsableIsOpenUnlessConnecting, Usable
<1>5. \A j \in Instances : StageInv(j)'
  BY DEF StageInv, TaskInv, ConnectionInv, EventInv
<1> QED BY <1>1, <1>2, <1>3, <1>4, <1>5

\* A queue after a submission.
LEMMA Submitted ==
    ASSUME NEW s \in Seq(Tasks), NEW t \in Tasks
    PROVE  /\ Append(s, t) # <<>> /\ Append(s, t)[Len(Append(s, t))] = t
           /\ t = Detached \/ (\E n \in DOMAIN s : s[n] = Detached)
              => \E n \in DOMAIN Append(s, t) : Append(s, t)[n] = Detached
<1>1. /\ Len(s) \in Nat /\ DOMAIN s = 1 .. Len(s) /\ Len(Append(s, t)) = Len(s) + 1
      /\ DOMAIN Append(s, t) = 1 .. Len(s) + 1
      /\ \A n \in 1 .. Len(s) : Append(s, t)[n] = s[n]
      /\ Append(s, t)[Len(s) + 1] = t
      /\ Append(s, t) \in Seq(Tasks)
  BY AppendProperties, LenProperties
<1>2. Append(s, t) # <<>>
  BY <1>1, EmptySeq
<1>3. CASE t = Detached
  BY <1>1, <1>2, <1>3
<1>4. CASE t # Detached
  BY <1>1, <1>2, <1>4
<1> QED BY <1>3, <1>4

\* What the main thread appends to a queue.
LEMMA MainQueues ==
    ASSUME MainTypeOK, NEW i \in Instances, Unplug \/ DeviceDetached \/ Main(i),
           NEW j \in Instances
    PROVE  \/ /\ queue'[j] = queue[j] /\ engine'[j] = engine[j] /\ owed'[j] = owed[j]
           \/ /\ queue'[j] = Append(queue[j], Detached) /\ owed'[j] = owed[j]
              /\ engine[j] /\ engine'[j] \in BOOLEAN
           \/ /\ engine[j] /\ engine'[j] = engine[j] /\ owed'[j] = owed[j] + 1
              /\ \E t \in Tasks \ {Detached} : queue'[j] = Append(queue[j], t)
<1> USE DEF MainTypeOK, Submit, taskVars
<1>1. CASE Unplug
  BY <1>1 DEF Unplug
<1>2. CASE DeviceDetached
  BY <1>2 DEF DeviceDetached
<1>3. CASE Call(i)
  <2>1. PICK t \in Tasks \ {Detached} : queue' = [queue EXCEPT ![i] = Append(@, t)]
    BY <1>3, TaskFacts DEF Call
  <2>2. CASE j = i
    <3>1. queue'[j] = Append(queue[j], t)
      BY <2>1, <2>2
    <3>2. engine[j] /\ engine' = engine /\ owed'[j] = owed[j] + 1
      BY <1>3, <2>2 DEF Call
    <3> QED BY <3>1, <3>2
  <2>3. CASE j # i
    BY <1>3, <2>1, <2>3 DEF Call
  <2> QED BY <2>2, <2>3
<1>4. CASE EngineDetached(i)
  BY <1>4 DEF EngineDetached
<1> QED BY <1>1, <1>2, <1>3, <1>4 DEF Main

\* The devices and engines of the instances.
LEMMA MainStep ==
    ASSUME MainTypeOK, DeviceTypeOK, NEW i \in Instances,
           Unplug \/ DeviceDetached \/ Main(i), NEW j \in Instances,
           TaskInv(j), GoneInv(j), EngineInv(j), owed[j] = RequestsInHand(j)
    PROVE  GoneInv(j)' /\ EngineInv(j)' /\ (owed[j] = RequestsInHand(j))'
<1>1. /\ pc'[j] = pc[j] /\ task'[j] = task[j] /\ activeDevice'[j] = activeDevice[j]
      /\ backend'[j] = backend[j]
  BY MainStays DEF DispatchersStay, activeVars
<1>2. queue[j] \in Seq(Tasks) /\ owed[j] \in Int
  BY DEF MainTypeOK
<1>3. Detached \in Tasks
  BY TaskFacts
<1>4. EngineInv(j)'
  <2>1. CASE queue'[j] = queue[j] /\ engine'[j] = engine[j]
    BY <1>1, <2>1 DEF EngineInv
  <2>2. CASE engine'[j]
    BY <2>2 DEF EngineInv
  <2>3. CASE queue'[j] = Append(queue[j], Detached)
    <3>1. queue'[j] # <<>> /\ queue'[j][Len(queue'[j])] = Detached
      BY <1>2, <1>3, <2>3, Submitted
    <3> QED BY <3>1 DEF EngineInv
  <2> QED BY <2>1, <2>2, <2>3, MainQueues
<1>5. (owed[j] = RequestsInHand(j))'
  <2>1. Cardinality(Waiting(queue[j])) \in Nat
    BY <1>2, WaitingIsFinite
  <2>2. CASE queue'[j] = queue[j] /\ owed'[j] = owed[j]
    BY <1>1, <2>2 DEF RequestsInHand
  <2>3. CASE queue'[j] = Append(queue[j], Detached) /\ owed'[j] = owed[j]
    <3>1. Cardinality(Waiting(queue'[j])) = Cardinality(Waiting(queue[j])) + 0
      BY <1>2, <1>3, <2>3, WaitingAppend
    <3> QED BY <1>1, <2>1, <2>3, <3>1 DEF RequestsInHand
  <2>4. CASE /\ owed'[j] = owed[j] + 1
             /\ \E t \in Tasks \ {Detached} : queue'[j] = Append(queue[j], t)
    <3>1. Cardinality(Waiting(queue'[j])) = Cardinality(Waiting(queue[j])) + 1
      BY <1>2, <2>4, WaitingAppend
    <3> QED BY <1>1, <2>1, <2>4, <3>1 DEF RequestsInHand
  <2> QED BY <2>2, <2>3, <2>4, MainQueues
<1>6. (\E n \in DOMAIN queue[j] : queue[j][n] = Detached)
         => \E n \in DOMAIN queue'[j] : queue'[j][n] = Detached
  <2>1. \A t \in Tasks : queue'[j] = Append(queue[j], t) =>
           ((\E n \in DOMAIN queue[j] : queue[j][n] = Detached)
               => \E n \in DOMAIN queue'[j] : queue'[j][n] = Detached)
    BY <1>2, Submitted
  <2>2. queue'[j] = queue[j] \/ \E t \in Tasks : queue'[j] = Append(queue[j], t)
    BY <1>3, MainQueues
  <2> QED BY <2>1, <2>2
<1>7. GoneInv(j)'
  <2>1. CASE attached' = attached /\ toHear' = toHear
    BY <1>1, <1>6, <2>1 DEF GoneInv
  <2>2. CASE Unplug
    BY <1>1, <1>6, <2>2 DEF Unplug, GoneInv
  <2>3. CASE DeviceDetached
    <3>1. PICK d \in toHear :
             /\ toHear' = toHear \ {d} /\ attached' = attached
             /\ queue'[j] = IF engine[j] /\ activeDevice[j] = d
                            THEN Append(queue[j], Detached) ELSE queue[j]
      BY <2>3 DEF DeviceDetached
    <3>2. CASE activeDevice[j] # d
      BY <1>1, <1>6, <3>1, <3>2 DEF GoneInv
    <3>3. CASE activeDevice[j] = d /\ engine[j]
      <4>1. \E n \in DOMAIN queue'[j] : queue'[j][n] = Detached
        BY <1>2, <1>3, <3>1, <3>3, Submitted
      <4> QED BY <4>1 DEF GoneInv
    <3>4. CASE activeDevice[j] = d /\ ~engine[j]
      <4>1. CASE queue[j] # <<>> /\ queue[j][Len(queue[j])] = Detached
        <5>1. Len(queue[j]) \in DOMAIN queue[j]
          BY <1>2, <4>1, EmptySeq, LenProperties
        <5> QED BY <1>6, <4>1, <5>1 DEF GoneInv
      <4>2. CASE task[j] = Detached
        BY <1>1, <4>2 DEF TaskInv, GoneInv
      <4>3. CASE activeDevice[j] = None
        BY <1>1, <4>3 DEF GoneInv
      <4> QED BY <3>4, <4>1, <4>2, <4>3 DEF EngineInv
    <3> QED BY <3>2, <3>3, <3>4
  <2> QED BY <2>1, <2>2, <2>3 DEF Main, Call, EngineDetached, busVars
<1> QED BY <1>4, <1>5, <1>7

-----------------------------------------------------------------------------
(* The invariant                                                           *)

\* It holds at the beginning.
LEMMA InitIInv == Init => IInv
<1> SUFFICES ASSUME Init PROVE IInv
  OBVIOUS
<1> USE ConnectionAssumption, NoDeviceIsNone DEF Init, ApiInit
<1>1. BridgeTypeOK
  BY DEF BridgeTypeOK
<1>2. MainTypeOK
  <2>1. queue \in [Instances -> Seq(Tasks)]
    BY EmptySeq
  <2> QED BY <2>1 DEF MainTypeOK
<1>3. PlaceTypeOK
  BY DEF PlaceTypeOK, Steps
<1>4. DeviceTypeOK
  BY DEF DeviceTypeOK
<1>5. NoConnectionLeaks
  <2>1. \A j \in Instances : Held(j) = {}
    BY DEF Held, HeldBy, None
  <2>2. \A fd \in Descriptors : opened[fd] = None
    OBVIOUS
  <2>3. UNION {Held(j) : j \in Instances} = {}
    BY <2>1
  <2> QED BY <2>1, <2>2, <2>3 DEF NoConnectionLeaks
<1>6. BridgeInv /\ CameraDescriptorIsOpen /\ UsableIsOpenUnlessConnecting
  BY DEF BridgeInv, CameraDescriptorIsOpen, UsableIsOpenUnlessConnecting, Usable
<1>7. AnsweredOnce
  <2>1. Waiting(<<>>) = {}
    BY DEF Waiting
  <2>2. Cardinality(Waiting(<<>>)) = 0
    BY <2>1, FS_EmptySet
  <2>3. \A j \in Instances : queue[j] = <<>> /\ task[j] = NoTask /\ owed[j] = 0
    OBVIOUS
  <2>4. \A j \in Instances : RequestsInHand(j) = 0
    BY <2>2, <2>3 DEF RequestsInHand
  <2> QED BY <2>3, <2>4 DEF AnsweredOnce
<1>8. \A j \in Instances : StageInv(j)
  BY TaskFacts DEF StageInv, TaskInv, ConnectionInv, EventInv, ActiveSteps, Disconnects,
     None, Detached, NoTask
<1>9. \A j \in Instances : GoneInv(j) /\ EngineInv(j)
  BY DEF GoneInv, EngineInv
<1> QED BY <1>1, <1>2, <1>3, <1>4, <1>5, <1>6, <1>7, <1>8, <1>9 DEF IInv, Stages, TypeOK

\* The dispatcher of an instance keeps it.
LEMMA DispatcherIInv ==
    ASSUME IInv, NEW i \in Instances, Dispatcher(i)
    PROVE  IInv'
<1> USE DEF IInv, Stages, TypeOK, StageInv
<1>1. TypeOK'
  BY BridgeTyped, MainTyped, PlaceStep, DeviceStep
<1>2. NoConnectionLeaks'
  BY HeldStep
<1>3. CameraDescriptorIsOpen' /\ BridgeInv'
  BY CameraStep
<1>4. UsableIsOpenUnlessConnecting'
  BY UsableStep
<1>5. ASSUME NEW j \in Instances
      PROVE  (StageInv(j) /\ GoneInv(j) /\ EngineInv(j) /\ owed[j] = RequestsInHand(j))'
  <2>1. CASE j = i
    <3>1. Effect(i)
      BY Effects
    <3>2. StageInv(i)'
      BY <3>1, TaskStep, ConnectionStep, EventStep
    <3>3. GoneInv(i)' /\ EngineInv(i)'
      BY GoneStep, EngineStep
    <3>4. owed[i] = RequestsInHand(i)
      BY DEF AnsweredOnce
    <3>5. (owed[i] = RequestsInHand(i))'
      BY <3>4, CountStep
    <3> QED BY <2>1, <3>2, <3>3, <3>5
  <2>2. CASE j # i
    <3>1. /\ pc'[j] = pc[j] /\ task'[j] = task[j] /\ next'[j] = next[j]
          /\ connection'[j] = connection[j] /\ activeConnection'[j] = activeConnection[j]
          /\ activeDevice'[j] = activeDevice[j] /\ backend'[j] = backend[j]
          /\ lastEvent'[j] = lastEvent[j] /\ engine'[j] = engine[j]
          /\ queue'[j] = queue[j] /\ owed'[j] = owed[j]
      BY <2>2, OthersStay
    <3>2. StageInv(j)'
      BY <3>1 DEF TaskInv, ConnectionInv, EventInv
    <3>3. GoneInv(j)'
      BY <3>1, BusStays DEF GoneInv
    <3>4. EngineInv(j)'
      BY <3>1 DEF EngineInv
    <3>5. (owed[j] = RequestsInHand(j))'
      BY <3>1 DEF AnsweredOnce, RequestsInHand
    <3> QED BY <3>2, <3>3, <3>4, <3>5
  <2> QED BY <2>1, <2>2
<1> QED BY <1>1, <1>2, <1>3, <1>4, <1>5 DEF AnsweredOnce

\* The main thread keeps it, and so does the bus.
LEMMA MainIInv ==
    ASSUME IInv, NEW i \in Instances, Unplug \/ DeviceDetached \/ Main(i)
    PROVE  IInv'
<1>1. TypeOK'
  BY BridgeTyped, MainTyped, PlaceStep, DeviceStep DEF IInv, Stages, TypeOK
<1>2. /\ BridgeInv' /\ NoConnectionLeaks' /\ CameraDescriptorIsOpen'
      /\ UsableIsOpenUnlessConnecting' /\ \A j \in Instances : StageInv(j)'
  BY MainStays, StayStep DEF IInv, Stages
<1>3. \A j \in Instances : GoneInv(j)' /\ EngineInv(j)' /\ (owed[j] = RequestsInHand(j))'
  BY MainStep DEF IInv, Stages, TypeOK, StageInv, AnsweredOnce
<1> QED BY <1>1, <1>2, <1>3 DEF IInv, Stages, AnsweredOnce

\* A step that changes nothing keeps it.
LEMMA StutterIInv ==
    ASSUME IInv, UNCHANGED vars
    PROVE  IInv'
<1> USE DEF vars, IInv, Stages, apiVars, busVars, taskVars, activeVars
<1>1. DispatchersStay
  BY DEF DispatchersStay
<1>2. /\ BridgeInv' /\ NoConnectionLeaks' /\ CameraDescriptorIsOpen'
      /\ UsableIsOpenUnlessConnecting' /\ \A j \in Instances : StageInv(j)'
  BY <1>1, StayStep
<1>3. TypeOK'
  BY DEF TypeOK, BridgeTypeOK, MainTypeOK, PlaceTypeOK, DeviceTypeOK
<1>4. \A j \in Instances : GoneInv(j)' /\ EngineInv(j)'
  BY DEF GoneInv, EngineInv
<1>5. AnsweredOnce'
  BY DEF AnsweredOnce, RequestsInHand
<1> QED BY <1>2, <1>3, <1>4, <1>5

\* With no instance there is nothing but the bus.
LEMMA NobodyIInv ==
    ASSUME IInv, Instances = {}, Unplug \/ DeviceDetached
    PROVE  IInv'
<1>1. DispatchersStay
  BY DEF Unplug, DeviceDetached, DispatchersStay, taskVars
<1>2. /\ BridgeInv' /\ NoConnectionLeaks' /\ CameraDescriptorIsOpen'
      /\ UsableIsOpenUnlessConnecting'
  BY <1>1, StayStep DEF IInv, Stages
<1>3. BridgeTypeOK' /\ PlaceTypeOK' /\ DeviceTypeOK'
  BY <1>1 DEF IInv, Stages, TypeOK, BridgeTypeOK, PlaceTypeOK, DeviceTypeOK, DispatchersStay,
     apiVars, activeVars
<1>4. MainTypeOK'
  BY DEF IInv, Stages, TypeOK, MainTypeOK, Unplug, DeviceDetached, taskVars
<1> QED BY <1>2, <1>3, <1>4 DEF IInv, Stages, TypeOK, AnsweredOnce

-----------------------------------------------------------------------------
(* Theorems                                                                *)

\* The inductive invariant of connecting and disconnecting.
THEOREM Invariance == Spec => []IInv
<1>1. IInv /\ [Next]_vars => IInv'
  <2> SUFFICES ASSUME IInv, [Next]_vars PROVE IInv'
    OBVIOUS
  <2>1. CASE UNCHANGED vars
    BY <2>1, StutterIInv
  <2>2. ASSUME NEW i \in Instances, Main(i) \/ Dispatcher(i) PROVE IInv'
    BY <2>2, MainIInv, DispatcherIInv
  <2>3. CASE Unplug \/ DeviceDetached
    <3>1. CASE Instances = {}
      BY <2>3, <3>1, NobodyIInv
    <3>2. CASE Instances # {}
      BY <2>3, <3>2, MainIInv
    <3> QED BY <3>1, <3>2
  <2> QED BY <2>1, <2>2, <2>3 DEF Next
<1> QED BY InitIInv, <1>1, PTL DEF Spec

\* Types, the bridge, and for every dispatcher where it is, what it has open and
\* has told, and that a device or an engine that went will be disconnected.
THEOREM StagesHold == Spec => []Stages
<1>1. IInv => Stages
  BY DEF IInv
<1> QED BY Invariance, <1>1, PTL

\* No UsbDeviceConnection is leaked, closed twice or shared, however the
\* engines' connects, fallbacks and failures interleave.
THEOREM NothingLeaks == Spec => []NoConnectionLeaks
<1>1. IInv => NoConnectionLeaks
  BY DEF IInv
<1> QED BY Invariance, <1>1, PTL

\* libgphoto2 only ever works on a descriptor that an engine has open.
THEOREM DescriptorIsOpen == Spec => []CameraDescriptorIsOpen
<1>1. IInv => CameraDescriptorIsOpen
  BY DEF IInv
<1> QED BY Invariance, <1>1, PTL

\* A bridge that lets operations through without an open camera is between
\* nativeInit and nativeConnectCamera of some engine.
THEOREM UsableIsOpen == Spec => []UsableIsOpenUnlessConnecting
<1>1. IInv => UsableIsOpenUnlessConnecting
  BY DEF IInv
<1> QED BY Invariance, <1>1, PTL

\* No request is answered twice and none is forgotten by its dispatcher.
THEOREM OneAnswer == Spec => []AnsweredOnce
<1>1. IInv => AnsweredOnce
  BY DEF IInv
<1> QED BY Invariance, <1>1, PTL

\* At rest, the application's last connection event is the truth.
THEOREM EventsAreTrue == Spec => []LastEventIsTrue
<1>1. IInv => LastEventIsTrue
  BY DEF IInv, Stages, StageInv, EventInv, LastEventIsTrue
<1> QED BY Invariance, <1>1, PTL

\* At rest with every broadcast heard, no instance is connected to a device that
\* is gone.
THEOREM GoneIsDropped == Spec => []GoneDeviceIsDropped
<1>1. IInv => GoneDeviceIsDropped
  <2> SUFFICES ASSUME IInv, NEW i \in Instances, pc[i] = "idle", queue[i] = <<>>, toHear = {}
               PROVE  activeDevice[i] \in attached \cup {None}
    BY DEF GoneDeviceIsDropped
  <2> QED BY DEF IInv, Stages, GoneInv, ActiveSteps, Disconnects
<1> QED BY Invariance, <1>1, PTL

\* The instance of an engine that has gone ends with nothing open and nobody
\* waiting for it.
THEOREM EnginesLeaveNothing == Spec => []EngineLeavesNothing
<1>1. IInv => EngineLeavesNothing
  <2> SUFFICES ASSUME IInv, NEW i \in Instances,
                      ~engine[i], pc[i] = "idle", queue[i] = <<>>
               PROVE  owed[i] = 0 /\ Held(i) = {} /\ backend[i] = None
    BY DEF EngineLeavesNothing
  <2>1. task[i] = NoTask /\ next[i] = None
    BY DEF IInv, Stages, StageInv, TaskInv, Disconnects
  <2>2. activeDevice[i] = None /\ backend[i] = None
    BY <2>1, TaskFacts DEF IInv, Stages, EngineInv
  <2>3. activeConnection[i] = NoDevice
    BY <2>2 DEF IInv, Stages, StageInv, ConnectionInv
  <2>4. Held(i) = {}
    BY <2>1, <2>3 DEF Held, HeldBy, None
  <2>5. Waiting(queue[i]) = {}
    BY DEF Waiting
  <2>6. Cardinality(Waiting(queue[i])) = 0
    BY <2>5, FS_EmptySet
  <2>7. owed[i] = 0
    BY <2>1, <2>6 DEF IInv, Stages, AnsweredOnce, RequestsInHand
  <2> QED BY <2>2, <2>4, <2>7
<1> QED BY Invariance, <1>1, PTL

-----------------------------------------------------------------------------
(* The bridge as the plugin uses it                                        *)

\* Every step of an instance is one of the bridge's functions, called on a
\* descriptor, or leaves the bridge alone.
LEMMA CallsTheApi ==
    ASSUME IInv, [Next]_vars
    PROVE  [ApiNext]_apiVars
<1>1. ASSUME NEW i \in Instances, ConnectNative(i)
      PROVE  ApiNext
  <2>1. pc[i] \in ActiveSteps
    BY <1>1 DEF ConnectNative, At, ActiveSteps
  <2>2. connection[i] \in Descriptors
    BY <2>1 DEF IInv, Stages, StageInv, ConnectionInv
  <2>3. NativeConnect(connection[i])
    BY <1>1 DEF ConnectNative, NativeConnect
  <2> QED
    BY <2>2, <2>3 DEF ApiNext
<1>2. ASSUME NEW i \in Instances, InitNative(i)
      PROVE  ApiNext
  BY <1>2 DEF InitNative, ApiNext
<1>3. ASSUME NEW i \in Instances, DisconnectNative(i) \/ Release(i)
      PROVE  [ApiNext]_apiVars
  BY <1>3 DEF DisconnectNative, Release, ApiNext
<1>4. ASSUME NEW i \in Instances,
             \/ Main(i) \/ Take(i) \/ DisconnectClose(i) \/ ConnectTurnsBack(i)
             \/ OpenDevice(i) \/ Activate(i) \/ ConnectCanon(i) \/ FallBack(i)
             \/ Reopen(i) \/ ConnectCrashes(i) \/ Complete(i)
      PROVE  UNCHANGED apiVars
  BY <1>4 DEF Main, Call, EngineDetached, Take, DisconnectClose, ConnectTurnsBack,
      OpenDevice, Activate, ConnectCanon, FallBack, Reopen, ConnectCrashes, Complete
<1>5. CASE Unplug \/ DeviceDetached \/ UNCHANGED vars
  BY <1>5 DEF Unplug, DeviceDetached, vars
<1> QED
  BY <1>1, <1>2, <1>3, <1>4, <1>5 DEF Next, Dispatcher

\* The plugin uses the bridge only through the interface that NativeBridge is
\* proved to implement, and nativeConnectCamera always with a descriptor it got
\* from openDevice: what is shown here of the API's variables holds of the
\* bridge's own (UsbCameraSdkPlugin.kt:396, 409, 963, 974).
THEOREM UsesTheBridge == Spec => ApiSpec
<1>1. Init => ApiInit
  BY DEF Init
<1> QED
  BY <1>1, CallsTheApi, Invariance, PTL DEF Spec, ApiSpec
=============================================================================
