---------------------------- MODULE NativeBridge ----------------------------
(***************************************************************************)
(* flyphoto_gphoto2_bridge.cpp: the JNI functions around libgphoto2 and    *)
(* the globals they share.  Each holds g_mutex from its first statement to *)
(* its return, so call names the one under way and step where it is; the   *)
(* functions that make one library call are one action, the others make a  *)
(* step of every call that may fail.  local are the objects their local    *)
(* pointers hold: they are forgotten on return, so what an error path does *)
(* not free stays in live.                                                 *)
(***************************************************************************)
EXTENDS NativeScan

CONSTANTS Descriptors,   \* descriptors of opened USB devices
          UsbIds,        \* vendor and product ids of the devices
          Drivers        \* CameraAbilities the camera libraries may contain

NoDevice == -1
NoIds == [vendor |-> 0, product |-> 0]
NoDriver == [model |-> NoName, usb_vendor |-> 0, usb_product |-> 0]
PtpClass == "USB PTP Class Camera"

ASSUME BridgeAssumption ==
    /\ Descriptors \subseteq Nat
    /\ UsbIds \subseteq [vendor : Nat, product : Nat]
    /\ \A d \in Drivers : d = [model |-> d.model, usb_vendor |-> d.usb_vendor,
                               usb_product |-> d.usb_product]
    /\ NoDriver \notin Drivers

VARIABLES
    call,                    \* the JNI function that holds g_mutex, or "none"
    result,                  \* what it is about to return
    local,                   \* objects held by its local pointers
    g_initialized, g_connected,
    g_camera,                \* "null", "new", "configured" or "open"
    g_context,               \* g_context # nullptr
    g_file_descriptor,
    ids,                     \* g_vendor_id and g_product_id
    g_log_func_id,           \* a log function is registered (id >= 0)
    g_last_media_scan_report,
    sysDevice,               \* the descriptor libgphoto2 was given
    openedOn,                \* the descriptor an open camera was found on
    loaded,                  \* the drivers of abilities_list
    matched,                 \* the driver of matched_model
    saved,                   \* the destination of a download: absent, partial, complete
    before                   \* history: the API's state when a connect began

apiVars == <<g_initialized, g_connected, g_camera, g_context, g_file_descriptor,
             sysDevice, openedOn>>
matchVars == <<loaded, matched>>
keptVars == <<g_log_func_id, g_last_media_scan_report, saved>>
vars == <<step, live, scanVars, call, result, local, apiVars, ids, keptVars,
          matchVars, before>>

ConfigureSteps == {"conf.abilities", "conf.load", "conf.ports", "conf.loadPorts",
    "conf.detected", "conf.detect", "conf.ids", "conf.lookup",
    "conf.setAbilities", "conf.port", "conf.setPort"}
ConnectSteps == ConfigureSteps \cup {"connect.init"}
Steps == {"idle", "return"} \cup ScanSteps \cup {"scan.done"} \cup ConnectSteps
    \cup {"connect.diagnose", "connect.widgets", "wait.answer", "download.file",
          "download.get", "download.unref"}
Calls == {"none", "setLogFile", "init", "connect", "disconnect", "listFiles",
          "getReport", "waitForEvent", "capture", "download"}

NoBefore == [connected |-> FALSE, camera |-> "null", sysDevice |-> NoDevice,
             openedOn |-> NoDevice]

Init ==
    /\ step = "idle" /\ call = "none" /\ result = "none" /\ local = {}
    /\ live = [k \in Kinds |-> 0]
    /\ ScanInit
    /\ g_initialized = FALSE /\ g_connected = FALSE
    /\ g_camera = "null" /\ g_context = FALSE
    /\ g_file_descriptor = NoDevice /\ ids = NoIds
    /\ g_log_func_id = FALSE
    /\ g_last_media_scan_report = EmptyReport
    /\ sysDevice = NoDevice /\ openedOn = NoDevice
    /\ loaded = {} /\ matched = NoDriver
    /\ saved = "absent"
    /\ before = NoBefore

-----------------------------------------------------------------------------
(* Entering and leaving                                                    *)

\* std::lock_guard on g_mutex: one call at a time.
Enter(name) == step = "idle" /\ call' = name

Answer(value) == result' = value /\ step' = "return"

\* The guard of every camera operation.
Connected == g_connected /\ g_camera # "null" /\ g_context

\* The local variables leave their scope and g_mutex is released.
Leave ==
    /\ step = "return"
    /\ step' = "idle" /\ call' = "none" /\ result' = "none" /\ local' = {}
    /\ root' = NoName
    /\ stack' = <<>> /\ visited' = {} /\ encoded' = <<>> /\ report' = EmptyReport
    /\ loaded' = {} /\ matched' = NoDriver /\ saved' = "absent" /\ before' = NoBefore
    /\ UNCHANGED <<live, tree, apiVars, ids, g_log_func_id, g_last_media_scan_report>>

-----------------------------------------------------------------------------
(* Log file, initialisation and disconnection: one step each               *)

\* nativeSetLogFile: the old function is removed; a new one is added unless the
\* path is empty or gp_log_add_func fails.
SetLogFile ==
    /\ Enter("setLogFile")
    /\ \E added \in BOOLEAN :
          /\ g_log_func_id' = added
          /\ live' = After(live, IF added THEN LogApi ELSE {},
                                 IF g_log_func_id THEN LogApi ELSE {})
    /\ Answer("ok")
    /\ UNCHANGED <<scanVars, local, apiVars, ids, g_last_media_scan_report, saved,
                   matchVars, before>>

\* What release_camera gives back; gp_camera_exit closes an open camera.
ReleasedByRelease == (IF g_camera # "null" THEN CameraApi ELSE {})
                     \cup (IF g_context THEN ContextApi ELSE {})

\* nativeInit without the release of what an earlier call created.
InitOverwrites ==
    /\ Enter("init")
    /\ \E camera, context \in BOOLEAN :
          /\ g_camera' = IF camera THEN "new" ELSE "null"
          /\ g_context' = context
          /\ g_initialized' = camera
          /\ live' = After(live, (IF camera THEN CameraApi ELSE {})
                                 \cup (IF context THEN ContextApi ELSE {}), {})
          /\ Answer(IF camera THEN "ok" ELSE "failed")
    /\ openedOn' = NoDevice
    /\ UNCHANGED <<scanVars, local, g_connected, g_file_descriptor, sysDevice, ids,
                   keptVars, matchVars, before>>

\* nativeInit: release_camera, gp_context_new, gp_camera_new.
NativeInit ==
    /\ Enter("init")
    /\ \E camera, context \in BOOLEAN :
          /\ g_camera' = IF camera THEN "new" ELSE "null"
          /\ g_context' = context
          /\ g_initialized' = camera
          /\ live' = After(live, (IF camera THEN CameraApi ELSE {})
                                 \cup (IF context THEN ContextApi ELSE {}),
                                 ReleasedByRelease)
          /\ Answer(IF camera THEN "ok" ELSE "failed")
    /\ openedOn' = NoDevice
    /\ UNCHANGED <<scanVars, local, g_connected, g_file_descriptor, sysDevice, ids,
                   keptVars, matchVars, before>>

\* A disconnection that leaves the flag of the operations' guard.
DisconnectKeepsFlag ==
    /\ Enter("disconnect")
    /\ sysDevice' = NoDevice /\ g_file_descriptor' = NoDevice /\ ids' = NoIds
    /\ g_camera' = "null" /\ g_context' = FALSE /\ openedOn' = NoDevice
    /\ live' = After(live, {}, ReleasedByRelease)
    /\ Answer("ok")
    /\ UNCHANGED <<scanVars, local, g_initialized, g_connected, keptVars, matchVars,
                   before>>

\* nativeDisconnect: the descriptor is withdrawn before gp_camera_exit.
NativeDisconnect ==
    /\ Enter("disconnect")
    /\ g_connected' = FALSE
    /\ sysDevice' = NoDevice /\ g_file_descriptor' = NoDevice /\ ids' = NoIds
    /\ g_camera' = "null" /\ g_context' = FALSE /\ openedOn' = NoDevice
    /\ live' = After(live, {}, ReleasedByRelease)
    /\ Answer("ok")
    /\ UNCHANGED <<scanVars, local, g_initialized, keptVars, matchVars, before>>

-----------------------------------------------------------------------------
(* nativeConnectCamera                                                     *)

ConnectUninitialized ==
    /\ Enter("connect")
    /\ ~g_initialized
    /\ Answer("failed")
    /\ UNCHANGED <<live, scanVars, local, apiVars, ids, keptVars, matchVars, before>>

\* The ids and the descriptor are recorded and given to libgphoto2.
ConnectBegins ==
    /\ Enter("connect")
    /\ g_initialized
    /\ g_file_descriptor' \in Descriptors
    /\ ids' \in UsbIds
    /\ \/ /\ g_connected' = TRUE
          /\ sysDevice' = g_file_descriptor'
          /\ before' = [connected |-> g_connected, camera |-> g_camera,
                        sysDevice |-> sysDevice, openedOn |-> openedOn]
          /\ step' = "conf.abilities" /\ UNCHANGED result
       \/ /\ g_connected' = FALSE
          /\ UNCHANGED <<sysDevice, before>>
          /\ Answer("failed")
    /\ UNCHANGED <<live, scanVars, local, g_initialized, g_camera, g_context,
                   openedOn, keptVars, matchVars>>

\* A call of configure_camera_for_usb that returns: what it frees, and the
\* error that nativeConnectCamera answers after clearing g_connected.
ConfigureFails(freed) ==
    /\ live' = After(live, {}, freed)
    /\ local' = {}
    /\ g_connected' = FALSE
    /\ Answer("failed")
    /\ UNCHANGED <<scanVars, call, g_initialized, g_camera, g_context,
                   g_file_descriptor, sysDevice, openedOn, ids, keptVars,
                   matchVars, before>>

ConfigureMoves(next) ==
    /\ step' = next
    /\ UNCHANGED <<scanVars, call, result, apiVars, ids, keptVars, before>>

\* A call that creates an object for a local pointer.
Creates(kinds) == live' = After(live, kinds, {}) /\ local' = local \cup kinds

NewAbilitiesList ==
    /\ step = "conf.abilities"
    /\ \/ Creates({"abilities"}) /\ ConfigureMoves("conf.load") /\ UNCHANGED matchVars
       \/ ConfigureFails({})

LoadAbilities ==
    /\ step = "conf.load"
    /\ \/ /\ loaded' \in SUBSET Drivers
          /\ ConfigureMoves("conf.ports")
          /\ UNCHANGED <<live, local, matched>>
       \/ ConfigureFails({"abilities"})

NewPortInfoList ==
    /\ step = "conf.ports"
    /\ \/ Creates({"ports"}) /\ ConfigureMoves("conf.loadPorts") /\ UNCHANGED matchVars
       \/ ConfigureFails({"abilities"})

LoadPorts ==
    /\ step = "conf.loadPorts"
    /\ \/ ConfigureMoves("conf.detected") /\ UNCHANGED <<live, local, matchVars>>
       \/ ConfigureFails({"ports", "abilities"})

NewDetectedList ==
    /\ step = "conf.detected"
    /\ \/ Creates({"list"}) /\ ConfigureMoves("conf.detect") /\ UNCHANGED matchVars
       \/ ConfigureFails({"ports", "abilities"})

AllLists == {"list", "ports", "abilities"}

\* gp_abilities_list_detect: fails, finds nothing, or names a loaded driver.
Detect ==
    /\ step = "conf.detect"
    /\ matched' \in {NoDriver} \cup loaded
    /\ ConfigureMoves(IF matched' = NoDriver THEN "conf.ids" ELSE "conf.lookup")
    /\ UNCHANGED <<live, local, loaded>>

\* The first driver with the device's ids whose abilities can be read.
MatchIds ==
    /\ step = "conf.ids"
    /\ matched' \in {NoDriver} \cup {d \in loaded : d.usb_vendor = ids.vendor
                                             /\ d.usb_product = ids.product}
    /\ ConfigureMoves("conf.lookup")
    /\ UNCHANGED <<live, local, loaded>>

\* The generic driver if nothing matched; otherwise the matched one, again.
LookupModel ==
    /\ step = "conf.lookup"
    /\ \/ /\ matched' \in IF matched = NoDriver
                          THEN {d \in loaded : d.model = PtpClass} ELSE {matched}
          /\ ConfigureMoves("conf.setAbilities")
          /\ UNCHANGED <<live, local, loaded>>
       \/ ConfigureFails(AllLists)

\* gp_camera_set_abilities: libgphoto2 refuses a null camera, and closes an open
\* one first.
SetAbilities ==
    /\ step = "conf.setAbilities"
    /\ \/ /\ g_camera # "null"
          /\ g_camera' = "configured" /\ openedOn' = NoDevice
          /\ step' = "conf.port"
          /\ UNCHANGED <<live, scanVars, call, result, local, g_initialized,
                         g_connected, g_context, g_file_descriptor, sysDevice, ids,
                         keptVars, matchVars, before>>
       \/ ConfigureFails(AllLists)

\* The path detected, then "usb:".
LookupPort ==
    /\ step = "conf.port"
    /\ \/ ConfigureMoves("conf.setPort") /\ UNCHANGED <<live, local, matchVars>>
       \/ ConfigureFails(AllLists)

\* gp_camera_set_port_info; the lists are freed either way.
SetPortInfo ==
    /\ step = "conf.setPort"
    /\ \/ /\ live' = After(live, {}, AllLists)
          /\ local' = {}
          /\ ConfigureMoves("connect.init")
          /\ UNCHANGED matchVars
       \/ ConfigureFails(AllLists)

\* A failed gp_camera_init that leaves g_connected as it is.
InitCameraStaysConnected ==
    /\ step = "connect.init"
    /\ \/ /\ g_camera' = "open" /\ openedOn' = sysDevice
          /\ step' = "connect.diagnose"
          /\ UNCHANGED <<result, g_connected>>
       \/ Answer("failed") /\ UNCHANGED <<g_connected, g_camera, openedOn>>
    /\ UNCHANGED <<live, scanVars, call, local, g_initialized, g_context,
                   g_file_descriptor, sysDevice, ids, keptVars, matchVars, before>>

\* gp_camera_init, not called without a camera.
InitCamera ==
    /\ step = "connect.init"
    /\ \/ /\ g_camera # "null"
          /\ g_camera' = "open" /\ openedOn' = sysDevice
          /\ step' = "connect.diagnose"
          /\ UNCHANGED <<result, g_connected>>
       \/ /\ g_connected' = FALSE
          /\ Answer("failed")
          /\ UNCHANGED <<g_camera, openedOn>>
    /\ UNCHANGED <<live, scanVars, call, local, g_initialized, g_context,
                   g_file_descriptor, sysDevice, ids, keptVars, matchVars, before>>

IsCanonVendor(vendor) == vendor % 65536 = 1193

\* log_canon_diagnostics: gp_camera_get_config may create a widget tree.
Diagnose ==
    /\ step = "connect.diagnose"
    /\ \/ /\ IsCanonVendor(ids.vendor) /\ g_context
          /\ Creates(WidgetApi)
          /\ step' = "connect.widgets" /\ UNCHANGED result
       \/ Answer("ok") /\ UNCHANGED <<live, local>>
    /\ UNCHANGED <<scanVars, call, apiVars, ids, keptVars, matchVars, before>>

\* log_config_widget for six names; the children belong to the tree.
ReadWidgets ==
    /\ step = "connect.widgets"
    /\ live' = After(live, {}, WidgetApi) /\ local' = {}
    /\ Answer("ok")
    /\ UNCHANGED <<scanVars, call, apiVars, ids, keptVars, matchVars, before>>

\* The variable log_config_widget lets gp_widget_get_value write to.
ReadInto(type) ==
    CASE type \in {"TEXT", "RADIO", "MENU"} -> "char *"
      [] type \in {"TOGGLE", "DATE"} -> "int"
      [] type = "RANGE" -> "float"
      [] OTHER -> "nothing"

-----------------------------------------------------------------------------
(* Operations on the open camera                                           *)

\* nativeListFiles, nativeWaitForEvent, nativeCapture and nativeDownload
\* without a camera.
Skipped ==
    /\ \E name \in {"listFiles", "waitForEvent", "capture", "download"} : Enter(name)
    /\ ~Connected
    /\ Answer("failed")
    /\ UNCHANGED <<live, scanVars, local, apiVars, ids, keptVars, matchVars, before>>

\* nativeGetLastMediaScanReport needs no camera.
GetLastMediaScanReport ==
    /\ Enter("getReport")
    /\ Answer("ok")
    /\ UNCHANGED <<live, scanVars, local, apiVars, ids, keptVars, matchVars, before>>

\* nativeCapture: one call, nothing to free.
Capture ==
    /\ Enter("capture")
    /\ Connected
    /\ Answer("ok") \/ Answer("failed")
    /\ UNCHANGED <<live, scanVars, local, apiVars, ids, keptVars, matchVars, before>>

\* nativeListFiles, up to collect_camera_files(root, ...).
ListFilesBegins ==
    /\ Enter("listFiles")
    /\ Connected
    /\ root' \in Folders
    /\ stack' = <<Frame(root', <<>>)>>
    /\ step' = "scan.enter"
    /\ UNCHANGED <<live, tree, visited, encoded, report, result, local, apiVars, ids,
                   keptVars, matchVars, before>>

Scan == ScanNext /\ UNCHANGED <<call, result, local, apiVars, ids, keptVars,
                                matchVars, before>>

\* The rest of nativeListFiles: the files are counted once more, and the report
\* is kept for nativeGetLastMediaScanReport.
ListFilesEnds ==
    /\ step = "scan.done"
    /\ g_last_media_scan_report' = [report EXCEPT !.discovered = Len(encoded)]
    /\ Answer("ok")
    /\ UNCHANGED <<live, scanVars, call, local, apiVars, ids, g_log_func_id, saved,
                   matchVars, before>>

\* gp_camera_wait_for_event: an event with its data, or an error that may come
\* with data too.
WaitForEvent ==
    /\ Enter("waitForEvent")
    /\ Connected
    /\ \/ \E type \in CameraEventType : \E data \in EventData(type) :
             /\ IF data = "null" THEN UNCHANGED <<live, local>> ELSE Creates(EventApi)
             /\ result' = "ok"
       \/ /\ UNCHANGED <<live, local>> \/ Creates(EventApi)
          /\ result' = "failed"
    /\ step' = "wait.answer"
    /\ UNCHANGED <<scanVars, apiVars, ids, keptVars, matchVars, before>>

\* An error that returns before event_data is looked at.
AnswerEventLeaks ==
    /\ step = "wait.answer"
    /\ live' = After(live, {}, IF result = "ok" THEN local ELSE {})
    /\ local' = {}
    /\ step' = "return"
    /\ UNCHANGED <<scanVars, call, result, apiVars, ids, keptVars, matchVars, before>>

\* The event or the error is encoded and event_data freed.
AnswerEvent ==
    /\ step = "wait.answer"
    /\ live' = After(live, {}, local) /\ local' = {}
    /\ step' = "return"
    /\ UNCHANGED <<scanVars, call, result, apiVars, ids, keptVars, matchVars, before>>

\* nativeDownload: the destination is created empty, or cannot be opened.
OpenDestination ==
    /\ Enter("download")
    /\ Connected
    /\ \/ /\ Creates({"fd"})
          /\ saved' = "partial"
          /\ step' = "download.file" /\ UNCHANGED result
       \/ Answer("failed") /\ UNCHANGED <<live, local, saved>>
    /\ UNCHANGED <<scanVars, apiVars, ids, g_log_func_id, g_last_media_scan_report,
                   matchVars, before>>

\* gp_file_new_from_fd: the file owns the descriptor from now on.  Without it the
\* descriptor is closed and the destination removed.
NewFile ==
    /\ step = "download.file"
    /\ \/ Creates({"file"}) /\ step' = "download.get" /\ UNCHANGED <<result, saved>>
       \/ /\ live' = After(live, {}, {"fd"}) /\ local' = {}
          /\ saved' = "absent"
          /\ Answer("failed")
    /\ UNCHANGED <<scanVars, call, apiVars, ids, g_log_func_id,
                   g_last_media_scan_report, matchVars, before>>

\* gp_camera_file_get writes all of it, or fails somewhere on the way.
GetFile ==
    /\ step = "download.get"
    /\ \/ saved' = "complete" /\ result' = "ok"
       \/ saved' = "partial" /\ result' = "failed"
    /\ step' = "download.unref"
    /\ UNCHANGED <<live, scanVars, call, local, apiVars, ids, g_log_func_id,
                   g_last_media_scan_report, matchVars, before>>

\* gp_file_unref, and the removal of what a failed download wrote.
DownloadEnds ==
    /\ step = "download.unref"
    /\ live' = After(live, {}, FileApi) /\ local' = {}
    /\ saved' = IF result = "failed" THEN "absent" ELSE saved
    /\ step' = "return"
    /\ UNCHANGED <<scanVars, call, result, apiVars, ids, g_log_func_id,
                   g_last_media_scan_report, matchVars, before>>

-----------------------------------------------------------------------------
Configure ==
    \/ NewAbilitiesList \/ LoadAbilities \/ NewPortInfoList \/ LoadPorts
    \/ NewDetectedList \/ Detect \/ MatchIds \/ LookupModel \/ SetAbilities
    \/ LookupPort \/ SetPortInfo
Connect == ConnectUninitialized \/ ConnectBegins \/ Configure \/ InitCamera
           \/ Diagnose \/ ReadWidgets
Operate ==
    \/ Skipped \/ GetLastMediaScanReport \/ Capture \/ ListFilesBegins \/ Scan \/ ListFilesEnds
    \/ WaitForEvent \/ AnswerEvent
    \/ OpenDestination \/ NewFile \/ GetFile \/ DownloadEnds

Next == SetLogFile \/ NativeInit \/ NativeDisconnect \/ Connect \/ Operate \/ Leave
Spec == Init /\ [][Next]_vars

\* A library call returns, with an answer or with an error, so a call that has
\* entered keeps moving; that a function is called at all is not assumed.
FairSpec == Spec /\ WF_vars(step # "idle" /\ Next)

-----------------------------------------------------------------------------
(* What must hold                                                          *)

TypeOK ==
    /\ step \in Steps
    /\ live \in [Kinds -> Int]
    /\ call \in Calls
    /\ result \in {"none", "ok", "failed"}
    /\ local \in SUBSET Kinds
    /\ g_initialized \in BOOLEAN /\ g_connected \in BOOLEAN
    /\ g_camera \in {"null", "new", "configured", "open"}
    /\ g_context \in BOOLEAN
    /\ {g_file_descriptor, sysDevice, openedOn} \subseteq Descriptors \cup {NoDevice}
    /\ ids \in UsbIds \cup {NoIds}
    /\ g_log_func_id \in BOOLEAN
    /\ g_last_media_scan_report \in Reports
    /\ loaded \in SUBSET Drivers /\ matched \in Drivers \cup {NoDriver}
    /\ saved \in {"absent", "partial", "complete"}
    /\ before \in [connected : BOOLEAN, sysDevice : Descriptors \cup {NoDevice},
                   camera : {"null", "new", "configured", "open"},
                   openedOn : Descriptors \cup {NoDevice}]

\* What the globals hold.
Owned == (IF g_camera # "null" THEN CameraApi ELSE {})
         \cup (IF g_context THEN ContextApi ELSE {})
         \cup (IF g_log_func_id THEN LogApi ELSE {})

\* The objects the local pointers hold at each step of a call.
LocalAt ==
    CASE step \in {"conf.load", "conf.ports"} -> {"abilities"}
      [] step \in {"conf.loadPorts", "conf.detected"} -> {"ports", "abilities"}
      [] step \in {"conf.detect", "conf.ids", "conf.lookup", "conf.setAbilities",
                   "conf.port", "conf.setPort"} -> AllLists
      [] step = "connect.widgets" -> WidgetApi
      [] step = "download.file" -> {"fd"}
      [] step \in {"download.get", "download.unref"} -> FileApi
      [] OTHER -> {}

\* Every live object is held by exactly one pointer: of the globals, of a local,
\* or of an activation of the scan.
CountsInv ==
    \A k \in Kinds : live[k] = (IF k \in Owned THEN 1 ELSE 0)
                             + (IF k \in local THEN 1 ELSE 0)
                             + (IF k = "list" THEN ListsHeld ELSE 0)

\* The call every step belongs to.
CallAt ==
    CASE step = "idle" -> {"none"}
      [] step \in ScanSteps \cup {"scan.done"} -> {"listFiles"}
      [] step \in ConnectSteps \cup {"connect.diagnose", "connect.widgets"}
            -> {"connect"}
      [] step = "wait.answer" -> {"waitForEvent"}
      [] step \in {"download.file", "download.get", "download.unref"} -> {"download"}
      [] OTHER -> Calls \ {"none"}

\* Which call a step belongs to, what its local pointers hold, and that a listing
\* starts from nothing.
StageInv ==
    /\ call \in CallAt
    /\ step \notin ScanSteps \cup {"scan.done", "return"} => visited = {}
    /\ IF step = "wait.answer" THEN local \subseteq EventApi ELSE local = LocalAt

\* What nativeConnectCamera knows on its way to an open camera.
ConnectInv ==
    /\ g_camera # "null" => g_initialized
    /\ openedOn = NoDevice <=> g_camera # "open"
    /\ step \in ConnectSteps \cup {"connect.diagnose", "connect.widgets"}
          => g_connected /\ sysDevice = g_file_descriptor
             /\ sysDevice \in Descriptors
    /\ step \in {"conf.setAbilities", "conf.port", "conf.setPort", "connect.init",
                 "connect.diagnose", "connect.widgets"} => matched # NoDriver
    /\ step \in {"conf.port", "conf.setPort", "connect.init"}
          => g_camera = "configured"
    /\ step \in {"connect.diagnose", "connect.widgets"}
          => g_camera = "open" /\ openedOn = sysDevice

\* What it has hidden so far: at most that an open camera was closed.
BeforeInv ==
    step \in ConnectSteps =>
        /\ g_initialized
        /\ before.openedOn = NoDevice <=> before.camera # "open"
        /\ \/ g_camera = before.camera /\ openedOn = before.openedOn
           \/ g_camera = "configured" /\ before.camera # "null"

\* nativeDownload answers its path only for a complete file, and an error never
\* leaves part of one behind.
DownloadIsWhole ==
    step = "return" /\ call = "download"
        => IF result = "ok" THEN saved = "complete" ELSE saved # "partial"

\* A destination exists only while its download is under way or being answered,
\* and counts as complete as long as nothing failed.
DownloadInv ==
    /\ saved # "absent" => step \in {"download.file", "download.get",
                                     "download.unref", "return"}
    /\ step = "download.unref" => \/ result = "ok" /\ saved = "complete"
                                  \/ result = "failed"
    /\ DownloadIsWhole

\* The inductive invariant of the module.
IInv == TypeOK /\ CountsInv /\ StageInv /\ ConnectInv /\ BeforeInv /\ DownloadInv
        /\ ScanInv

\* When no call is under way every object libgphoto2 or the system handed out
\* has been given back exactly once, on whichever of the error paths the calls
\* ended, save what the globals hold: no leak and no double free.
Balanced ==
    step \in {"idle", "return"}
        => \A k \in Kinds : live[k] = IF k \in Owned THEN 1 ELSE 0

\* nativeConnectCamera answers the truth: after "ok" the camera is open on the
\* descriptor of this call, which is also the one libgphoto2 still has; after an
\* error no operation passes the guard, although the camera may exist.
ConnectAnswerIsTrue ==
    step = "return" /\ call = "connect"
        => IF result = "ok"
           THEN /\ g_connected /\ g_camera = "open"
                /\ openedOn = g_file_descriptor /\ sysDevice = g_file_descriptor
           ELSE ~(g_connected /\ g_camera # "null")

\* Whatever the library answers, a call ends and g_mutex is free again: the scan
\* does not go round in circles and no error path forgets to return.
CallEnds == (step # "idle") ~> (step = "idle")

\* The functions that open and close the camera take effect at once, as
\* BridgeApi promises: until a connect is decided, the state is the one before.
Hidden == step \in ConnectSteps
ApiCamera(camera) == IF camera = "configured" THEN "new" ELSE camera
Api == INSTANCE BridgeApi WITH
    initialized <- g_initialized,
    context <- g_context,
    connected <- IF Hidden THEN before.connected ELSE g_connected,
    camera <- ApiCamera(IF Hidden THEN before.camera ELSE g_camera),
    sysDevice <- IF Hidden THEN before.sysDevice ELSE sysDevice,
    openedOn <- IF Hidden THEN before.openedOn ELSE openedOn
ImplementsApi == Api!ApiSpec
=============================================================================
