------------------------------ MODULE BridgeApi ------------------------------
(***************************************************************************)
(* What the JNI functions that open and close the camera promise their     *)
(* callers: under g_mutex each of them takes effect at once.  NativeBridge *)
(* implements this specification; PluginConnection is built on it.         *)
(***************************************************************************)
EXTENDS Integers

CONSTANT Descriptors   \* file descriptors of opened USB devices

NoDevice == -1

ASSUME DescriptorsAssumption == Descriptors \subseteq Nat

VARIABLES
    initialized,   \* g_initialized
    connected,     \* g_connected
    camera,        \* g_camera: "null", "new" or "open"
    context,       \* g_context # nullptr
    sysDevice,     \* the descriptor libgphoto2 was given
    openedOn       \* the descriptor gp_camera_init found, while it is open

apiVars == <<initialized, connected, camera, context, sysDevice, openedOn>>

ApiInit ==
    /\ initialized = FALSE /\ connected = FALSE
    /\ camera = "null" /\ context = FALSE
    /\ sysDevice = NoDevice /\ openedOn = NoDevice

\* The camera operations answer "disconnected" or nothing unless this holds.
Usable == connected /\ camera # "null" /\ context

\* nativeInit: whatever was open is released; g_connected keeps its value.
NativeInit ==
    /\ openedOn' = NoDevice
    /\ context' \in BOOLEAN
    /\ \/ initialized' = TRUE /\ camera' = "new"
       \/ initialized' = FALSE /\ camera' = "null"
    /\ UNCHANGED <<connected, sysDevice>>

\* nativeConnectCamera before nativeInit.
ConnectRefused ==
    /\ ~initialized
    /\ UNCHANGED apiVars

\* nativeConnectCamera answers "ok": the camera is open on the descriptor.
ConnectSucceeds(fd) ==
    /\ initialized /\ camera # "null"
    /\ connected' = TRUE
    /\ camera' = "open"
    /\ sysDevice' = fd /\ openedOn' = fd
    /\ UNCHANGED <<initialized, context>>

\* An error that leaves the flag of the operations' guard.
ConnectFailsConnected(fd) ==
    /\ initialized
    /\ sysDevice' \in {sysDevice, fd}
    /\ \/ UNCHANGED <<camera, openedOn>>
       \/ camera = "open" /\ camera' = "new" /\ openedOn' = NoDevice
    /\ UNCHANGED <<initialized, connected, context>>

\* It answers an error, before or after an open camera was closed for it.
ConnectFails(fd) ==
    /\ initialized
    /\ connected' = FALSE
    /\ sysDevice' \in {sysDevice, fd}
    /\ \/ UNCHANGED <<camera, openedOn>>
       \/ camera = "open" /\ camera' = "new" /\ openedOn' = NoDevice
    /\ UNCHANGED <<initialized, context>>

\* nativeDisconnect; g_initialized keeps its value.
NativeDisconnect ==
    /\ connected' = FALSE
    /\ camera' = "null" /\ context' = FALSE
    /\ sysDevice' = NoDevice /\ openedOn' = NoDevice
    /\ UNCHANGED initialized

NativeConnect(fd) == ConnectRefused \/ ConnectSucceeds(fd) \/ ConnectFails(fd)

ApiNext == NativeInit \/ NativeDisconnect \/ \E fd \in Descriptors : NativeConnect(fd)
ApiSpec == ApiInit /\ [][ApiNext]_apiVars
=============================================================================
